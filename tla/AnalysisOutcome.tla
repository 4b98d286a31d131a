-------------------------- MODULE AnalysisOutcome --------------------------
(***************************************************************************)
(* What the analysis workflow promises for a submitted capture, whatever   *)
(* the dispatchers, the queue and the workers do: one outcome, announced   *)
(* once, and a draft scope exactly when the outcome is a success.          *)
(***************************************************************************)
EXTENDS Naturals

CONSTANT Captures

VARIABLES
  outcome,   \* none, open, completed or failed
  drafts,    \* captures whose analysis became a draft scope version
  announced  \* analysis_completed.v1 and analysis_failed.v1 events per capture

ovars == <<outcome, drafts, announced>>

Init ==
  /\ outcome = [c \in Captures |-> "none"]
  /\ drafts = {}
  /\ announced = [c \in Captures |-> [completed |-> 0, failed |-> 0]]

Submit(c) ==
  /\ outcome[c] = "none"
  /\ outcome' = [outcome EXCEPT ![c] = "open"]
  /\ UNCHANGED <<drafts, announced>>

Complete(c) ==
  /\ outcome[c] = "open"
  /\ outcome' = [outcome EXCEPT ![c] = "completed"]
  /\ drafts' = drafts \cup {c}
  /\ announced' = [announced EXCEPT ![c].completed = @ + 1]

Fail(c) ==
  /\ outcome[c] = "open"
  /\ outcome' = [outcome EXCEPT ![c] = "failed"]
  /\ announced' = [announced EXCEPT ![c].failed = @ + 1]
  /\ UNCHANGED drafts

Next == \E c \in Captures : Submit(c) \/ Complete(c) \/ Fail(c)
Spec == Init /\ [][Next]_ovars
=============================================================================
