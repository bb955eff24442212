\* One source whose origin may change, two workers, one extraction that may
\* find more, three moves of the release; states with more than two graph
\* releases and added artifacts together are checked and not continued.
CONSTANTS
    Sources = {s1}
    Works = {w1}
    Workers = {k1, k2}
    Documents = {d1, d2}
    Extractions = {e1}
    LeaseDuration = 1
    None = None
    MaxVersion = 3
    MaxBuilds = 2
SPECIFICATION ReleaseSpec
CONSTRAINT FewBuilds
SYMMETRY WorkerSymmetry
INVARIANTS AttemptsAgree SnapshotsArePublished ReadyWasReleased
