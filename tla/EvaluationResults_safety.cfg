\* Two workers settle the last of three cases at once; two attempts and batches
\* of two make one worker hold what another takes over.  One call of a reader
\* meets every step between its queries.  Cases that end in an abstention, which the
\* tally counts as completions, are left to ScoresAreSound, over all short answers.
CONSTANTS
    Cases = {1, 2, 3}
    Workers = {k1, k2}
    None = None
    Outcomes = {"completed", "failed", "error", "unscored"}
    MaxAttempts = 2
    BatchSize = 2
    Snapshot = "run"
    Answers <- MCAnswers
    Responses <- MCResponses
    Expected <- MCExpected
    Earlier <- MCEarlier
    Readers = {i1}
SPECIFICATION ResultSpec
SYMMETRY WorkerSymmetry
INVARIANTS TypeOK EndedRunIsTallied LedgerIsScored AggregatesTallyTheLedger ComparisonsAreSound ScoresAreSound
PROPERTIES LedgerIsFinal LeaseEndsByHolder RetriesAreBounded ReadersSeeTheEnd
CHECK_DEADLOCK FALSE
