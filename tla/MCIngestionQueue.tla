--------------------------- MODULE MCIngestionQueue ---------------------------
(* Instances of IngestionQueue for TLC.                                      *)
EXTENDS IngestionQueue, TLC

\* Workers are interchangeable, and so are the contents of an origin.
WorkerSymmetry == Permutations(Workers) \cup Permutations(Documents)
=============================================================================
