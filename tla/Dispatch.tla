------------------------------ MODULE Dispatch ------------------------------
(***************************************************************************)
(* The dispatch of a crew to one move job (dispatch), on the agreement of  *)
(* Scope: the resource snapshot of the manager, the assignment, and the    *)
(* check-in of the field worker on the day.  Every operation locks the job *)
(* row and then the newest version, so each is one action.                 *)
(*                                                                         *)
(* Vehicles, skills and certificates are left out: of an assignment only   *)
(* the scope it was made for and its lead worker are read again.           *)
(***************************************************************************)
EXTENDS Scope

CONSTANTS Workers,  \* worker options of the snapshot
          Rep       \* the option mapped to the field worker who has an account

ASSUME DispatchAssumption == Rep \in Workers

VARIABLES
  scheduled, \* move_job.scheduled_at is set
  setup,     \* scope of the dispatch_setup; 0 is no row
  day,       \* today, seen from the day of its start_at
  plan,      \* dispatch_plan: its scope, 0 for no row, and its lead worker
  checkedIn  \* the workers with a field_check_in

site == <<scheduled, setup, day, plan, checkedIn>>
Days == {"before", "on", "after"}

DispatchInit ==
  /\ scheduled \in BOOLEAN /\ setup = 0 /\ day = "before"
  /\ plan = [scope |-> 0, lead |-> Rep]
  /\ checkedIn = {}

\* _require_open_scheduled_job.
OpenScheduled == job = "open" /\ scheduled
\* _current_locked_scope with an expected version.
CurrentLocked(v) == v # 0 /\ v = head /\ v \in locked

\* Midnight in the time zone of the service, as long as it matters.
NextDay ==
  /\ setup # 0 /\ checkedIn = {} /\ day # "after"
  /\ day' = IF day = "before" THEN "on" ELSE "after"
  /\ UNCHANGED <<vars, scheduled, setup, plan, checkedIn>>

\* patch_move_job with a new date, perhaps with new conditions: a job that was ever
\* quoted is refused, one that was already dispatched is not.
Reschedule(isSet) ==
  /\ job = "open" /\ \A v \in Versions : proposal[v] = "none"
  /\ scheduled' = isSet
  /\ PatchMoveJob \/ UNCHANGED vars
  /\ UNCHANGED <<setup, day, plan, checkedIn>>

\* create_dispatch_setup: one row per job, which keeps the date of this moment.
\* Mutant: a second snapshot replaces the first.
RenewDispatchSetup ==
  /\ OpenScheduled /\ CurrentLocked(head)
  /\ setup' = head /\ day' \in Days
  /\ UNCHANGED <<vars, scheduled, plan, checkedIn>>
CreateDispatchSetup ==
  /\ setup = 0 /\ OpenScheduled /\ CurrentLocked(head)
  /\ setup' = head /\ day' \in Days
  /\ UNCHANGED <<vars, scheduled, plan, checkedIn>>

\* confirm_dispatch: one row per job, for the scope of the setup.  The crew holds the
\* representative; its lead may be any of it.
ConfirmDispatch(lead) ==
  /\ plan.scope = 0 /\ OpenScheduled /\ CurrentLocked(setup)
  /\ plan' = [scope |-> setup, lead |-> lead]
  /\ UNCHANGED <<vars, scheduled, setup, day, checkedIn>>

\* check_in_field_worker, once, on the day of the setup.
CheckInFieldWorker ==
  /\ OpenScheduled /\ plan.scope # 0 /\ CurrentLocked(setup)
  /\ Rep \notin checkedIn /\ day = "on"
  /\ checkedIn' = checkedIn \cup {Rep}
  /\ UNCHANGED <<vars, scheduled, setup, day, plan>>

\* get_dispatch_view: what the company is shown.
DispatchStatus ==
  IF setup = 0 THEN "setup_required"
  ELSE IF ~CurrentLocked(setup) THEN "stale"
  ELSE IF plan.scope # 0 THEN "confirmed" ELSE "ready"

Dispatching ==
  \/ NextDay \/ CreateDispatchSetup \/ CheckInFieldWorker
  \/ \E isSet \in BOOLEAN : Reschedule(isSet)
  \/ \E lead \in Workers : ConfirmDispatch(lead)

-----------------------------------------------------------------------------
DispatchTypeOK ==
  /\ scheduled \in BOOLEAN /\ setup \in 0..MaxVersions /\ day \in Days
  /\ plan \in [scope : 0..MaxVersions, lead : Workers]
  /\ checkedIn \subseteq Workers

\* The crew is sent out for one agreed scope: the setup names an agreed version, the
\* plan the same one, and nobody checks in without a plan.
DispatchedForAgreed ==
  /\ setup # 0 => setup \in locked
  /\ plan.scope # 0 => plan.scope = setup
  /\ checkedIn # {} => plan.scope # 0

\* docs/API_SPEC.md, docs/CONTRACTS.md: a dispatch is an immutable snapshot.  What the
\* company is shown of it only moves on, and once stale it stays so: no change of the
\* scope, the date or the crew makes an outdated dispatch current again.
DispatchNeverRevives ==
  [][DispatchStatus' # DispatchStatus =>
       \/ DispatchStatus = "setup_required" /\ DispatchStatus' = "ready"
       \/ DispatchStatus = "ready" /\ DispatchStatus' \in {"confirmed", "stale"}
       \/ DispatchStatus = "confirmed" /\ DispatchStatus' = "stale"]_<<vars, site>>
=============================================================================
