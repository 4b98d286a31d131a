---------------------------- MODULE MCMediaJobs ----------------------------
(* Small instances of MediaJobs and the mutants of its definitions. *)
EXTENDS MediaJobs, TLC

CONSTANTS a1, a2, d1, d2, w1, w2, e1, e2

\* Dispatchers and workers are interchangeable; tokens and names are not ordered
\* by them.  Not used by the runs that check liveness.
Symmetry == Permutations(Dispatchers) \cup Permutations(Workers)
=============================================================================
