\* Two datasets, of which one may be published; two snapshots, of which one covers it; two publishers and one reviewer.
CONSTANTS
    None = None
    complete = complete
    unranked = unranked
    MaxRank = 2
    Datasets <- MCGoodDatasets
    Asset <- MCGoodAsset
    Sources = {"s1", "s2"}
    Snapshots <- MCSnapshots
    Reviewers = {r1}
    Starts = {}
    Inspectors = {}
    Publishers = {q1, q2}
    MaxClock = 3
SPECIFICATION Spec
SYMMETRY PublisherSymmetry
INVARIANTS TypeOK SetsAreCovered ShownIsCovered
PROPERTIES ProjectionsFollowTheRelease
