\* Two datasets, of which one may be published, and every asset that differs
\* from one of them in one field; two snapshots, of which one covers it.
CONSTANTS
    None = None
    MaxRank = 2
    complete = complete
    unranked = unranked
    Datasets <- MCDatasets
    Asset <- MCAsset
    Sources = {"s1", "s2"}
    Snapshots <- MCSnapshots
    Reviewers = {r1, r2}
    Starts = {k1}
    Inspectors = {i1}
    MaxClock = 3
SPECIFICATION DatasetSpec
SYMMETRY ReviewerSymmetry
INVARIANTS ImportedIsPaired AvailableIsServable RunsAreResolvable
PROPERTIES ImplementsLifecycle InspectionIsConsistent
