--------------------------- MODULE MCEvaluationRuns ---------------------------
(* Instances of EvaluationRuns for TLC.                                      *)
EXTENDS EvaluationRuns, TLC

\* Workers are interchangeable; cases are not, for they are claimed in order.
WorkerSymmetry == Permutations(Workers)
=============================================================================
