\* Two workers with different contents of one source.
CONSTANTS
    Sources = {s1}
    Works = {w1}
    Workers = {k1, k2}
    Documents = {d1, d2}
    Extractions = {}
    LeaseDuration = 1
    None = None
    MaxVersion = 2
    MaxBuilds = 2
SPECIFICATION ReleaseSpec
SYMMETRY WorkerSymmetry
INVARIANT ReadyIsActive
