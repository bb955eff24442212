\* Two sources, one worker that may crash at every step, leases of two units.
\* No symmetry: it is unsound for liveness.
CONSTANTS
    Sources = {s1, s2}
    Works = {w1, w2}
    Workers = {k1}
    Documents = {d1}
    LeaseDuration = 2
    None = None
SPECIFICATION FairSpec
PROPERTIES PendingIsClaimed ExpiredIsRecovered
