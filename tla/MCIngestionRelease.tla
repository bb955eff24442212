-------------------------- MODULE MCIngestionRelease --------------------------
(* Instances of IngestionRelease for TLC.                                    *)
EXTENDS IngestionRelease, MCIngestionQueue, FiniteSets

\* bound: so many graph releases and added artifacts together are explored
CONSTANT MaxBuilds

FewBuilds == Cardinality({r \in Corpus!GraphReleases : graph[r] # "none"})
                + Cardinality({e \in Extractions : artifacts[e] # None}) <= MaxBuilds
=============================================================================
