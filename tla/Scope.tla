-------------------------------- MODULE Scope --------------------------------
(***************************************************************************)
(* The agreement of one move job: the scope versions and their approvals   *)
(* (scope), the quoted proposals of the company (scope_review), the        *)
(* changes asked for on site (scope, field_change) and the bilateral       *)
(* completion that rests on them (completion), with the two operations of  *)
(* move_job that read them.                                                *)
(*                                                                         *)
(* A version has one parent, the root excepted, and at most one child, so  *)
(* the versions of a job are numbered 1..head by their sequence number and *)
(* "has no child" is "is the head".                                        *)
(*                                                                         *)
(* A request is one transaction.  Those that check the head lock the       *)
(* version row, those that check the job lock the job row, and an insert   *)
(* takes a key-share lock on the job row it refers to, so an action is a   *)
(* whole transaction.  The exception is request_scope_revision, which      *)
(* reads "has no child" under the lock of the proposal row only.  A        *)
(* request that answers 404, 409, 422 or a replay changes nothing and is   *)
(* no step.                                                                *)
(***************************************************************************)
EXTENDS Naturals, FiniteSets

CONSTANTS Changes,      \* change_request rows
          Issues,       \* field_issue rows
          NoIssue,      \* a change request without a change_proposal_detail
          MaxVersions   \* bound: scope versions of the job

ASSUME ScopeAssumption == MaxVersions \in Nat \ {0} /\ NoIssue \notin Issues

VARIABLES
  job,        \* move_job.status; "open" is DRAFT or ACTIVE
  head,       \* the last sequence_number; 0 is no version
  author,     \* who each version was created by: "analysis" has an analysis_source
  approvals,  \* scope_approval: the roles that approved each version
  locked,     \* the versions with locked_at
  proposal,   \* scope_proposal.status, by result_scope_version_id
  revision,   \* scope_revision_request of that proposal
  revising,   \* the proposal whose row a revision request holds locked; 0 is none
  change,     \* change_request rows; status "none" is no row
  issueBase,  \* base_scope_version_id of each field issue; 0 is no row
  confirmed   \* the version in the completion_confirmation of each role; 0 is no row

history == <<head, author, approvals, locked>>
quotes  == <<proposal, revision, revising>>
field   == <<change, issueBase>>
closing == <<job, confirmed>>
vars    == <<history, quotes, field, closing>>

Versions  == 1..MaxVersions
Approvers == {"customer", "manager"}          \* REQUIRED_APPROVAL_ROLES
Open      == {"pending", "clarification_requested"}
Decided   == {"approved", "rejected"}
\* The requester is the field worker of a plain request, the manager of a quoted one.
ChangeRequest ==
  [status : {"none"} \cup Open \cup Decided, base : 0..MaxVersions,
   issue : Issues \cup {NoIssue}, clarified : BOOLEAN,
   decider : Approvers \cup {"none"}, result : 0..MaxVersions]
NoChange == [status |-> "none", base |-> 0, issue |-> NoIssue, clarified |-> FALSE,
             decider |-> "none", result |-> 0]

Init ==
  /\ job = "open" /\ head = 0
  /\ author = [v \in Versions |-> "none"]
  /\ approvals = [v \in Versions |-> {}]
  /\ locked = {}
  /\ proposal = [v \in Versions |-> "none"]
  /\ revision = [v \in Versions |-> "none"]
  /\ revising = 0
  /\ change = [c \in Changes |-> NoChange]
  /\ issueBase = [i \in Issues |-> 0]
  /\ confirmed = [r \in Approvers |-> 0]

Quoted(c)   == change[c].issue # NoIssue
ResultOf(v) == {c \in Changes : change[c].status = "approved" /\ change[c].result = v}
Unconfirmed == \A r \in Approvers : confirmed[r] = 0
Current(v)  == v \in Versions /\ v = head

-----------------------------------------------------------------------------
(* Versions and approvals *)

\* create_scope_version: the parent is the head, and a locked parent or the result of
\* a change is extended by a change decision only.  The job is not looked at.
\* Mutant: an agreed scope is extended like any other.
ExtendsLocked(parent, fromLockedParent) ==
  /\ parent = head /\ head < MaxVersions
  /\ ResultOf(parent) # {} => fromLockedParent
Extends(parent, fromLockedParent) ==
  /\ parent = head /\ head < MaxVersions
  /\ fromLockedParent <=> parent \in locked
  /\ ResultOf(parent) # {} => fromLockedParent
NewVersion(by) ==
  /\ head' = head + 1
  /\ author' = [author EXCEPT ![head + 1] = by]

CreateScopeVersion(r) ==
  /\ Extends(head, FALSE)
  /\ NewVersion(r)
  /\ UNCHANGED <<approvals, locked, quotes, field, closing>>

\* import_analysis_draft, its parent given by _previous_unreviewed_analysis_scope.
ImportAnalysisDraft ==
  /\ head # 0 => author[head] = "analysis"
  /\ Extends(head, FALSE)
  /\ NewVersion("analysis")
  /\ UNCHANGED <<approvals, locked, quotes, field, closing>>

\* patch_move_job with new conditions on a job whose scope has schema version 2.
PatchMoveJob ==
  /\ job = "open" /\ \A v \in Versions : proposal[v] = "none"
  /\ head # 0 /\ head \notin locked
  /\ Extends(head, FALSE)
  /\ NewVersion("customer")
  /\ UNCHANGED <<approvals, locked, quotes, field, closing>>

\* approve_scope_version: the second role locks the version.
\* Mutants: a version with a child is approved; a draft of the analysis is.
ApprovableWithChild(v, r) == v \in 1..head \ locked /\ author[v] # "analysis" /\ r \notin approvals[v]
ApprovableDraft(v, r) == Current(v) /\ v \notin locked /\ r \notin approvals[v]
Approvable(v, r) ==
  /\ Current(v) /\ v \notin locked
  /\ author[v] # "analysis"
  /\ r \notin approvals[v]
Approve(v, r) ==
  /\ Approvable(v, r)
  /\ approvals' = [approvals EXCEPT ![v] = @ \cup {r}]
  /\ locked' = IF approvals[v] \cup {r} = Approvers THEN locked \cup {v} ELSE locked

ApproveScopeVersion(v, r) ==
  /\ Approve(v, r)
  /\ UNCHANGED <<head, author, quotes, field, closing>>

-----------------------------------------------------------------------------
(* Quoted proposals *)

\* create_scope_proposal: the customer's head, or the quoted head whose revision the
\* customer requested.  The result carries the company's approval from the start.
CreateScopeProposal(source) ==
  /\ job = "open" /\ Current(source) /\ revising # source
  /\ \/ proposal[source] = "none" /\ author[source] = "customer"
     \/ proposal[source] = "revision_requested" /\ revision[source] = "requested"
  /\ Extends(source, FALSE)
  /\ NewVersion("manager")
  /\ approvals' = [approvals EXCEPT ![head + 1] = {"manager"}]
  /\ proposal' = [proposal EXCEPT
       ![head + 1] = "customer_review",
       ![source] = IF @ = "none" THEN @ ELSE "superseded"]
  /\ revision' = [revision EXCEPT ![source] = IF @ = "none" THEN @ ELSE "resolved"]
  /\ UNCHANGED <<locked, revising, field, closing>>

\* request_scope_revision, up to its checks: the proposal row is locked, the version
\* row is not.
CheckScopeRevision(v) ==
  /\ revising = 0
  /\ proposal[v] = "customer_review" /\ revision[v] = "none" /\ Current(v)
  /\ revising' = v
  /\ UNCHANGED <<history, proposal, revision, field, closing>>
RequestScopeRevision ==
  /\ revising # 0
  /\ proposal' = [proposal EXCEPT ![revising] = "revision_requested"]
  /\ revision' = [revision EXCEPT ![revising] = "requested"]
  /\ revising' = 0
  /\ UNCHANGED <<history, field, closing>>

\* confirm_scope_proposal: the customer's approval of the quoted version.
\* Mutant: the status of the proposal is not looked at.
ConfirmAnyProposal(v) ==
  /\ proposal[v] # "none" /\ revising # v
  /\ Approve(v, "customer")
  /\ proposal' = [proposal EXCEPT ![v] = "confirmed"]
  /\ UNCHANGED <<head, author, revision, revising, field, closing>>
ConfirmScopeProposal(v) ==
  /\ proposal[v] = "customer_review" /\ revising # v
  /\ Approve(v, "customer")
  /\ proposal' = [proposal EXCEPT ![v] = "confirmed"]
  /\ UNCHANGED <<head, author, revision, revising, field, closing>>

-----------------------------------------------------------------------------
(* Changes on site *)

\* _require_open_job and _require_current_locked_scope; create_change_request makes
\* the same checks itself.
\* Mutant: a confirmation of the completion does not close the scope.
FieldWorkAnyTime(base) == job = "open" /\ Current(base) /\ base \in locked
FieldWorkOn(base) ==
  /\ job = "open" /\ Unconfirmed
  /\ Current(base) /\ base \in locked

\* create_change_request: the field worker asks for a change without a price.
CreateChangeRequest(c) ==
  /\ change[c].status = "none" /\ FieldWorkOn(head)
  /\ change' = [change EXCEPT ![c].status = "pending", ![c].base = head]
  /\ UNCHANGED <<history, quotes, issueBase, closing>>

\* create_field_issue.
CreateFieldIssue(i) ==
  /\ issueBase[i] = 0 /\ FieldWorkOn(head)
  /\ issueBase' = [issueBase EXCEPT ![i] = head]
  /\ UNCHANGED <<history, quotes, change, closing>>

\* _effective_total_amount finds an amount: the confirmed quote or that of a change.
HasAmount(v) == proposal[v] = "confirmed" \/ \E c \in ResultOf(v) : Quoted(c)

\* create_change_proposal: one per issue, on the scope the issue was reported on.
CreateChangeProposal(c, i) ==
  /\ change[c].status = "none" /\ \A d \in Changes : change[d].issue # i
  /\ FieldWorkOn(issueBase[i]) /\ HasAmount(issueBase[i])
  /\ change' = [change EXCEPT ![c].status = "pending", ![c].base = issueBase[i], ![c].issue = i]
  /\ UNCHANGED <<history, quotes, issueBase, closing>>

\* request_change_clarification, once per request; decide_change_proposal calls it too.
RequestChangeClarification(c) ==
  /\ change[c].status = "pending" /\ ~change[c].clarified
  /\ change' = [change EXCEPT ![c].status = "clarification_requested", ![c].clarified = TRUE]
  /\ UNCHANGED <<history, quotes, issueBase, closing>>
\* explain_change_request by the worker, explain_change_proposal by the manager.
ExplainChange(c) ==
  /\ change[c].status = "clarification_requested"
  /\ change' = [change EXCEPT ![c].status = "pending"]
  /\ UNCHANGED <<history, quotes, issueBase, closing>>

\* decide_change_request looks at the request and, to approve, at its base.
Rejects(c, r) ==
  /\ change[c].status = "pending"
  /\ change' = [change EXCEPT ![c].status = "rejected", ![c].decider = r]
Accepts(c, r) ==
  /\ change[c].status = "pending"
  /\ Extends(change[c].base, TRUE)
  /\ NewVersion(r)
  /\ change' = [change EXCEPT ![c].status = "approved", ![c].decider = r, ![c].result = head + 1]

\* The endpoint of plain requests takes either approver and any request of the job.
RejectChange(c, r) ==
  /\ Rejects(c, r)
  /\ UNCHANGED <<history, quotes, issueBase, closing>>
ApproveChange(c, r) ==
  /\ Accepts(c, r)
  /\ UNCHANGED <<approvals, locked, quotes, issueBase, closing>>
\* decide_change_proposal: the customer's approval also gives both approvals of the
\* result.  Evidence that is not READY refuses it.
ApproveChangeProposal(c) ==
  /\ Quoted(c) /\ Accepts(c, "customer")
  /\ approvals' = [approvals EXCEPT ![head + 1] = Approvers]
  /\ locked' = locked \cup {head + 1}
  /\ UNCHANGED <<quotes, issueBase, closing>>

-----------------------------------------------------------------------------
(* The end of the job *)

\* _ensure_field_issues_resolved.
Resolved(i) ==
  issueBase[i] # 0 => \E c \in Changes : change[c].issue = i /\ change[c].status \in Decided

\* confirm_completion: the second role completes the job.
ConfirmCompletion(r) ==
  /\ job = "open" /\ \A i \in Issues : Resolved(i)
  /\ head \in locked
  /\ \A c \in Changes : change[c].status \notin Open
  /\ confirmed[r] = 0
  /\ \A s \in Approvers : confirmed[s] \in {0, head}
  /\ confirmed' = [confirmed EXCEPT ![r] = head]
  /\ job' = IF \E s \in Approvers : confirmed[s] # 0 THEN "completed" ELSE job
  /\ UNCHANGED <<history, quotes, field>>

\* decide_completion_request (confirm): both confirmations at once, where they are not
\* there yet.  Changes without a price are not looked at.
CompleteOnRequest ==
  /\ job = "open" /\ \A i \in Issues : Resolved(i)
  /\ head \in locked
  /\ \A s \in Approvers : confirmed[s] \in {0, head}
  /\ confirmed' = [s \in Approvers |-> head]
  /\ job' = "completed"
  /\ UNCHANGED <<history, quotes, field>>

\* cancel_move_job: a job that was ever quoted is not canceled.
CancelMoveJob ==
  /\ job = "open" /\ \A v \in Versions : proposal[v] = "none"
  /\ job' = "canceled"
  /\ UNCHANGED <<history, quotes, field, confirmed>>

-----------------------------------------------------------------------------
Versioning ==
  \/ ImportAnalysisDraft \/ PatchMoveJob
  \/ \E r \in Approvers : CreateScopeVersion(r) \/ \E v \in Versions : ApproveScopeVersion(v, r)
Quoting ==
  \/ RequestScopeRevision
  \/ \E v \in Versions : CreateScopeProposal(v) \/ CheckScopeRevision(v) \/ ConfirmScopeProposal(v)
Changing ==
  \/ \E i \in Issues : CreateFieldIssue(i) \/ \E c \in Changes : CreateChangeProposal(c, i)
  \/ \E c \in Changes :
       \/ CreateChangeRequest(c) \/ RequestChangeClarification(c) \/ ExplainChange(c)
       \/ ApproveChangeProposal(c)
       \/ \E r \in Approvers : RejectChange(c, r) \/ ApproveChange(c, r)

Closing == CompleteOnRequest \/ \E r \in Approvers : ConfirmCompletion(r)

Next == Versioning \/ Quoting \/ Changing \/ Closing \/ CancelMoveJob
Spec == Init /\ [][Next]_vars

-----------------------------------------------------------------------------
(* Properties *)

\* Every variable keeps its shape, the CHECK constraints of change_request included.
TypeOK ==
  /\ job \in {"open", "completed", "canceled"} /\ head \in 0..MaxVersions
  /\ author \in [Versions -> Approvers \cup {"analysis", "none"}]
  /\ approvals \in [Versions -> SUBSET Approvers]
  /\ locked \subseteq Versions
  /\ proposal \in [Versions -> {"none", "customer_review", "revision_requested",
                                "confirmed", "superseded"}]
  /\ revision \in [Versions -> {"none", "requested", "resolved"}]
  /\ revising \in 0..MaxVersions
  /\ change \in [Changes -> ChangeRequest]
  /\ issueBase \in [Issues -> 0..MaxVersions]
  /\ confirmed \in [Approvers -> 0..MaxVersions]
  /\ \A c \in Changes :
       /\ change[c].status \in Decided <=> change[c].decider # "none"
       /\ change[c].status = "approved" <=> change[c].result # 0
       /\ change[c].status = "clarification_requested" => change[c].clarified

\* approve_scope_version: an approval lands on the head only and never on a locked
\* version, whichever of the five operations gives it; no approval is withdrawn.
ApprovalsLandOnHead ==
  [][\A v \in Versions : approvals'[v] # approvals[v] =>
       approvals[v] \subseteq approvals'[v] /\ v = head' /\ v \notin locked]_vars

\* A version is locked exactly when both sides approved it, and a draft made by the
\* analysis is never among them.
LockedByBoth ==
  \A v \in Versions : /\ v \in locked <=> approvals[v] = Approvers
                      /\ author[v] = "analysis" => approvals[v] = {}

\* An agreed scope gives way only to the result of one change requested against it,
\* and every approved change has such a version of its own.
LockedSucceededByChange ==
  /\ \A v \in locked : v < head => ResultOf(v + 1) # {}
  /\ \A c \in Changes : change[c].status = "approved" =>
       /\ change[c].base \in locked /\ change[c].result = change[c].base + 1
       /\ change[c].result <= head /\ ResultOf(change[c].result) = {c}

\* CONTRACTS.md: past proposals are kept and the successor records what it resolved.  A
\* superseded proposal has its revision resolved by the next version, a confirmed one
\* is an agreed scope, and the company stands behind every quote: a job that was ever
\* quoted is not canceled.
QuotesAccountedFor ==
  \A v \in Versions :
    /\ revision[v] = "requested" <=> proposal[v] = "revision_requested"
    /\ revision[v] = "resolved" <=> proposal[v] = "superseded"
    /\ proposal[v] = "superseded" => v < head /\ proposal[v + 1] # "none"
    /\ proposal[v] = "confirmed" => v \in locked
    /\ proposal[v] # "none" => "manager" \in approvals[v] /\ job # "canceled"

\* What a side confirmed as done stays what was agreed: the confirmed version is
\* locked and both sides confirmed the same; until the job is completed it is the head
\* with nothing open against it, so a change that is still open at the completion was
\* left open by the customer's own decision on a request.
ConfirmedScopeStands ==
  /\ \A r \in Approvers : confirmed[r] # 0 =>
       /\ confirmed[r] \in locked
       /\ \A i \in Issues : Resolved(i)
       /\ job # "completed" => /\ confirmed[r] = head
                               /\ \A c \in Changes : change[c].status \notin Open
       /\ \A s \in Approvers : confirmed[s] \in {0, confirmed[r]}
  /\ job = "completed" <=> \A r \in Approvers : confirmed[r] # 0

\* API_SPEC.md: only the customer decides on a change the company quoted.
CustomerDecidesQuotes ==
  \A c \in Changes : Quoted(c) /\ change[c].status \in Decided => change[c].decider = "customer"
=============================================================================
