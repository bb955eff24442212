------------------------- MODULE MCOpeningSuggestions -------------------------
(* Instances of OpeningSuggestions for TLC.                                  *)
EXTENDS OpeningSuggestions, MCEvaluationDatasets

PublisherSymmetry == Permutations(Publishers)
=============================================================================
