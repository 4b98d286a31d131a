------------------------ MODULE MCAnalysisWorkflow ------------------------
(* Small instances of AnalysisWorkflow. *)
EXTENDS AnalysisWorkflow, TLC

CONSTANTS c1, c2, d1, d2, w1, w2

\* Event pump executions, workers and captures are interchangeable.
Symmetry == Permutations(Dispatchers) \cup Permutations(Workers) \cup Permutations(Captures)
=============================================================================
