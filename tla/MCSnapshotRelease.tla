--------------------------- MODULE MCSnapshotRelease ---------------------------
(* Instances of SnapshotRelease for TLC.                                     *)
EXTENDS SnapshotRelease, FiniteSets, TLC

CONSTANT MaxBuilds       \* bound: so many graph releases are explored

\* Coordinators are interchangeable, and so are sources.
ReleaseSymmetry == Permutations(Coordinators) \cup Permutations(Sources)

FewBuilds == Cardinality({r \in GraphReleases : graph[r] # "none"}) <= MaxBuilds
=============================================================================
