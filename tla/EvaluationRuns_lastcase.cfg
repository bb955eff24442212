\* Two workers that each claim one of two cases.
CONSTANTS
    Cases = {1, 2}
    Workers = {k1, k2}
    None = None
    Outcomes = {"failed", "error", "unscored"}
    MaxAttempts = 3
    BatchSize = 1
SPECIFICATION Spec
INVARIANT LastCaseEndsRun
CHECK_DEADLOCK FALSE
