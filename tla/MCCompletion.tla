---------------------------- MODULE MCCompletion ----------------------------
(* Small instances of Completion, with the screens that show it. *)
EXTENDS Screens

CONSTANTS c1, c2, i1, w1, w2, m1

\* Bound: every history of the agreement is explored until the dispatch is set up, and
\* from there on those with one change request, where a version of the customer came
\* first and no side approved a version that was replaced before it was agreed.
OrdinaryHistory ==
  setup # 0 =>
    /\ change[c2] = NoChange
    /\ author[1] = "customer"
    /\ \A v \in 1..head : v < head /\ v \notin locked /\ proposal[v] = "none" => approvals[v] = {}
BoundedSpec == CompletionInit /\ [][CompletionNext /\ OrdinaryHistory']_siteVars
=============================================================================
