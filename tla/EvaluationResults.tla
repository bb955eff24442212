-------------------------- MODULE EvaluationResults ---------------------------
(***************************************************************************)
(* The ledger of EvaluationRuns with what its transactions write besides   *)
(* states: the metrics of terminal cases, the aggregates of the run that   *)
(* the transaction of the last case computes from the metrics it sees, and *)
(* the readers of run and comparison, which read the run first and its     *)
(* cases in later queries.                                                 *)
(*                                                                         *)
(* Responses are those of the agent.  The processor of the repository      *)
(* hands its results to the store without metrics, which the store refuses *)
(* (RefuseUnscored); the results that are accepted here were scored with   *)
(* ScoreCaseV1, as the store asks of a processor.                          *)
(***************************************************************************)
EXTENDS EvaluationRuns, EvaluationScoring

CONSTANTS Answers,      \* what the agent may answer
          Responses,    \* what it answers while a run is executed
          Expected,     \* [Cases -> [outcome, units]]: frozen with the run
          Earlier,      \* the ledger of an earlier run with the same key
          Readers       \* calls of GetEvaluationRun and ComparisonRun

\* Answers and expectations are finite, evidence is a sequence, and times are
\* integers.
ASSUME AnswersAssumption ==
    /\ Responses \subseteq Answers
    /\ \A r \in Answers :
          /\ IsFiniteSet(DOMAIN r.ranks) /\ IsFiniteSet(DOMAIN r.retrieved)
          /\ DOMAIN r.retrieved = 1 .. Cardinality(DOMAIN r.retrieved)
          /\ r.latency \subseteq Int
    /\ \A c \in Cases : IsFiniteSet(Expected[c].units)

VARIABLES
    metrics,     \* [Cases -> metrics or None]: evaluation_run_metric of cases
    aggregates,  \* the sets of run-level rows of evaluation_run_metric
    writing,     \* [Workers -> [metrics, aggregates]]: rows of the open transaction
    reader       \* [Readers -> RunState or None]: the state a call read

resultVars == <<vars, metrics, aggregates, writing, reader>>

-----------------------------------------------------------------------------
(* Rows.                                                                   *)

Metrics == [Components -> [state : {"scored", "not_applicable", "not_scored",
                                    "needs_human_review"},
                           numerator : Nat, denominator : Nat]]

ASSUME RowsAssumption == None \notin Metrics

\* A row that a comparison accepts, and in which no score but a measurement
\* exceeds one: what is proved of every row of a ledger (LedgerIsSound).
SoundRow(row) == /\ row.metrics \in Metrics
                 /\ validateComparisonCase(row)
                 /\ \A m \in Components \ Measurements :
                       row.metrics[m].numerator <= row.metrics[m].denominator

ASSUME EarlierAssumption == /\ IsFiniteSet(DOMAIN Earlier)
                            /\ \A c \in DOMAIN Earlier : SoundRow(Earlier[c])

NoWriting == [metrics |-> None, aggregates |-> {}]

\* The terminal cases with their metrics.
LedgerOf(states, rows) ==
    [c \in {x \in Cases : states[x] \in Terminal /\ rows[x] # None} |->
        [state |-> states[c], metrics |-> rows[c]]]

Ledger == LedgerOf(States, metrics)

ResultInit == /\ Init
              /\ metrics = [c \in Cases |-> None]
              /\ aggregates = {}
              /\ writing = [k \in Workers |-> NoWriting]
              /\ reader = [i \in Readers |-> None]

-----------------------------------------------------------------------------
(* What a processor may hand to the store for a case.                      *)

Materialized(responses) ==
    {MaterializeCaseResult(r) : r \in {x \in responses : Execute(x) = "result"}}

Results ==
    [c \in Cases |->
        {[state |-> r.state, metrics |-> ScoreCaseV1(Expected[c], r)] :
            r \in Materialized(Responses)}
          \cup {[state |-> state, metrics |-> notScoredMetrics] :
                   state \in IF \E r \in Responses : Execute(r) = "identity unavailable"
                             THEN Failures ELSE {}}]

Unusable == \E r \in Responses : Execute(r) = "error"

-----------------------------------------------------------------------------
(* The transactions of EvaluationRuns and the rows they write.             *)

\* Mutant: every transaction aggregates what is there.
AlwaysAggregates(states, rows, verdict) == {Aggregates(LedgerOf(states, rows))}

\* Only the transaction that finds no open case aggregates.
AggregatesSeen(states, rows, verdict) ==
    IF verdict = None THEN {} ELSE {Aggregates(LedgerOf(states, rows))}

\* k writes rows for c while it settles it.
Writes(k, c, rows) ==
    LET w == worker'[k]
    IN writing' = [writing EXCEPT ![k] =
          [metrics    |-> rows,
           aggregates |-> AggregatesSeen(Seen(c, w.row.state), [metrics EXCEPT ![c] = rows],
                                         w.verdict)]]

CompleteResult(k, c) ==
    /\ \E result \in Results[c] : /\ result.state \in Outcomes
                                  /\ validateTerminalResult(result.metrics)
                                  /\ Settle(k, c, result.state)
                                  /\ Writes(k, c, result.metrics)
    /\ UNCHANGED <<metrics, aggregates, reader>>

\* Mutant: a case that failed for good gets no metrics.
NoMetrics(state) == None

\* A case that is released keeps no metrics; one that failed is not scored.
ReleasedMetrics(state) == IF state = "failed" THEN notScoredMetrics ELSE None

ReleaseResult(k, c) ==
    /\ Unusable
    /\ ReleaseForRetry(k, c)
    /\ Writes(k, c, ReleasedMetrics(worker'[k].row.state))
    /\ UNCHANGED <<metrics, aggregates, reader>>

CommitResult(k) ==
    /\ Commit(k)
    /\ metrics' = [metrics EXCEPT ![worker[k].case] = writing[k].metrics]
    /\ aggregates' = aggregates \cup writing[k].aggregates
    /\ writing' = [writing EXCEPT ![k] = NoWriting]
    /\ UNCHANGED reader

AbortResult(k) == /\ Abort(k)
                  /\ writing' = [writing EXCEPT ![k] = NoWriting]
                  /\ UNCHANGED <<metrics, aggregates, reader>>

\* Steps that write no metrics.
OtherStep == /\ \/ \E c \in Cases : Expire(c)
                \/ \E k \in Workers :
                      \/ Claim(k)
                      \/ \E c \in Cases : RefuseUnscored(k, c) \/ LeaseLost(k, c)
             /\ UNCHANGED <<metrics, aggregates, writing, reader>>

-----------------------------------------------------------------------------
(* Readers.                                                                *)

ReadRun(i) == /\ reader[i] = None
              /\ reader' = [reader EXCEPT ![i] = run]
              /\ UNCHANGED <<vars, metrics, aggregates, writing>>

\* The later queries: counts, aggregates, cases and their metrics.
ReadLedger(i) == /\ reader[i] # None
                 /\ reader' = [reader EXCEPT ![i] = None]
                 /\ UNCHANGED <<vars, metrics, aggregates, writing>>

ResultNext ==
    \/ \E k \in Workers : \/ \E c \in Cases : CompleteResult(k, c) \/ ReleaseResult(k, c)
                          \/ CommitResult(k)
                          \/ AbortResult(k)
    \/ OtherStep
    \/ \E i \in Readers : ReadRun(i) \/ ReadLedger(i)

ResultSpec == ResultInit /\ [][ResultNext]_resultVars

-----------------------------------------------------------------------------
(* Properties.                                                             *)

\* A case has its metrics exactly when it is terminal, the complete set of
\* them, and none is scored for a failure: a comparison can rely on every row.
LedgerIsScored ==
    /\ DOMAIN Ledger = Cases \ Open(States)
    /\ \A c \in Cases : metrics[c] # None => c \in DOMAIN Ledger
    /\ \A c \in DOMAIN Ledger : validateComparisonCase(Ledger[c])

\* The aggregates exist once, from the end of the run on, and are those of all
\* its cases, although the last transaction computed them before it committed.
AggregatesTallyTheLedger ==
    aggregates = IF run \in FinalRun THEN {Aggregates(Ledger)} ELSE {}

\* Whoever read that the run ended finds every case terminal and scored, and
\* the aggregates, in its later queries.
ReadersSeeTheEnd ==
    [][\A i \in Readers : reader[i] \in FinalRun /\ reader'[i] = None
          => /\ reader[i] = terminalRunState(States)
             /\ DOMAIN Ledger = Cases
             /\ aggregates = {Aggregates(Ledger)}]_resultVars

\* Two computations of one number: a run compared with itself shows the values
\* of its own aggregates on both sides.
ComparisonAgreesWithAggregates ==
    run \in FinalRun =>
        \A metric \in aggregates, m \in Components :
            LET delta == MetricDelta(Ledger, Ledger, m)
            IN /\ delta[1] = delta[2]
               /\ IF metric[m].state = "scored" THEN delta[1] = metric[m]
                  ELSE delta[1].state = "not_scored"

\* Compared with an earlier run: pairs and single cases add up, a component is
\* scored on both sides or on none and divides by no zero, and no score but a
\* measurement exceeds one.
ComparisonAddsUp ==
    run \in FinalRun =>
        LET totals == ComparisonTotals(Earlier, Ledger)
        IN /\ totals.paired + totals.leftOnly = Cardinality(DOMAIN Earlier)
           /\ totals.paired + totals.rightOnly = Cardinality(Cases)
           /\ \A m \in Components :
                 LET delta == MetricDelta(Earlier, Ledger, m)
                 IN /\ delta[1].state = delta[2].state
                    /\ \A side \in {1, 2} :
                          /\ validateMetric(delta[side])
                          /\ m \notin Measurements =>
                                delta[side].numerator <= delta[side].denominator

\* What a comparison shows of an ended run, in Go, agrees with what was stored
\* of it, in SQL, and stays sound when another run scored other cases.
ComparisonsAreSound == ComparisonAgreesWithAggregates /\ ComparisonAddsUp

\* A score is a part of its whole, no more of the expected evidence is cited
\* than retrieved, and the store accepts the result.
SoundlyScored(c, r) ==
    LET score == ScoreCaseV1(Expected[c], r)
    IN /\ validateTerminalResult(score)
       /\ \A m \in Components \ Measurements : score[m].numerator <= score[m].denominator
       /\ score["citation_coverage"].numerator <= score["retrieval_coverage"].numerator
       /\ Range(r.cited) \subseteq Range(r.retrieved)

\* Whatever the agent may answer, to whatever case, its score will be sound:
\* asked before the first claim, for what is expected is frozen with the run.
ScoresAreSound ==
    run = "queued" => \A c \in Cases : \A r \in Materialized(Answers) : SoundlyScored(c, r)
=============================================================================
