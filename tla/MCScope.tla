------------------------------ MODULE MCScope ------------------------------
(* Small instances of Scope. *)
EXTENDS Scope, TLC

CONSTANTS c1, c2, i1, i2

\* Change requests are interchangeable, and so are field issues.
Symmetry == Permutations(Changes) \cup Permutations(Issues)
=============================================================================
