----------------------------- MODULE ScopeProofs -----------------------------
(***************************************************************************)
(* Theorems about Scope, for every set of change requests and field issues *)
(* and every number of versions.                                           *)
(***************************************************************************)
EXTENDS Scope, TLAPS

-----------------------------------------------------------------------------
(* The inductive invariant *)

\* Nothing is recorded of a version that does not exist yet.
FutureBlank ==
  \A v \in Versions : v > head =>
    author[v] = "none" /\ approvals[v] = {} /\ proposal[v] = "none" /\ revision[v] = "none"
\* The lock of a revision request keeps its proposal as it was checked.
RevisingStands ==
  revising # 0 => proposal[revising] = "customer_review" /\ revision[revising] = "none"

\* LockedSucceededByChange, change by change.
Succeeded ==
  /\ \A v \in locked : v < head =>
       \E c \in Changes : change[c].status = "approved" /\ change[c].result = v + 1
  /\ \A c \in Changes : change[c].status = "approved" =>
       /\ change[c].base \in locked /\ change[c].result = change[c].base + 1
       /\ change[c].result <= head
       /\ \A d \in Changes : change[d].status = "approved" /\ change[d].result = change[c].result =>
            d = c

IInv == /\ TypeOK
        /\ FutureBlank /\ RevisingStands
        /\ LockedByBoth /\ LockedSucceededByChange
        /\ QuotesAccountedFor
        /\ ConfirmedScopeStands

-----------------------------------------------------------------------------
(* What the actions do to the rows they share *)

\* The rows of change_request that a step writes are well formed.
LEMMA ChangeTyped ==
  ASSUME TypeOK, NEW c \in Changes, NEW r \in ChangeRequest,
         change' = [change EXCEPT ![c] = r],
         r.status \in Decided <=> r.decider # "none",
         r.status = "approved" <=> r.result # 0,
         r.status = "clarification_requested" => r.clarified
  PROVE  /\ change' \in [Changes -> ChangeRequest]
         /\ \A d \in Changes :
              /\ change'[d].status \in Decided <=> change'[d].decider # "none"
              /\ change'[d].status = "approved" <=> change'[d].result # 0
              /\ change'[d].status = "clarification_requested" => change'[d].clarified
  BY DEF TypeOK

LEMMA TypeStep == IInv /\ [Next]_vars => TypeOK'
  <1> SUFFICES ASSUME IInv, [Next]_vars PROVE TypeOK'
    OBVIOUS
  <1> USE ScopeAssumption DEF IInv, TypeOK, Versions, Approvers
  <1>1. ASSUME NEW r \in Approvers, CreateScopeVersion(r) PROVE TypeOK'
    BY <1>1 DEF CreateScopeVersion, Extends, NewVersion, quotes, field, closing
  <1>2. CASE ImportAnalysisDraft
    BY <1>2 DEF ImportAnalysisDraft, Extends, NewVersion, quotes, field, closing
  <1>3. CASE PatchMoveJob
    BY <1>3 DEF PatchMoveJob, Extends, NewVersion, quotes, field, closing
  <1>4. ASSUME NEW v \in Versions, NEW r \in Approvers, ApproveScopeVersion(v, r) PROVE TypeOK'
    BY <1>4 DEF ApproveScopeVersion, Approve, Approvable, quotes, field, closing
  <1>5. ASSUME NEW v \in Versions, CreateScopeProposal(v) PROVE TypeOK'
    <2>1. /\ head + 1 \in Versions
          /\ head' = head + 1 /\ author' = [author EXCEPT ![head + 1] = "manager"]
          /\ approvals' = [approvals EXCEPT ![head + 1] = {"manager"}]
      BY <1>5 DEF CreateScopeProposal, Extends, NewVersion
    <2>2. /\ head' \in 0..MaxVersions
          /\ author' \in [Versions -> Approvers \cup {"analysis", "none"}]
          /\ approvals' \in [Versions -> SUBSET Approvers]
      BY <2>1
    <2>3. proposal' \in [Versions -> {"none", "customer_review", "revision_requested",
                                     "confirmed", "superseded"}]
      BY <2>1, <1>5 DEF CreateScopeProposal
    <2>4. revision' \in [Versions -> {"none", "requested", "resolved"}]
      BY <1>5 DEF CreateScopeProposal
    <2> QED
      BY <2>2, <2>3, <2>4, <1>5 DEF CreateScopeProposal, field, closing
  <1>6. ASSUME NEW v \in Versions, CheckScopeRevision(v) PROVE TypeOK'
    BY <1>6 DEF CheckScopeRevision, history, field, closing
  <1>7. CASE RequestScopeRevision
    BY <1>7 DEF RequestScopeRevision, history, field, closing
  <1>8. ASSUME NEW v \in Versions, ConfirmScopeProposal(v) PROVE TypeOK'
    BY <1>8 DEF ConfirmScopeProposal, Approve, Approvable, field, closing
  <1>9. ASSUME NEW c \in Changes, CreateChangeRequest(c) PROVE TypeOK'
    <2> DEFINE r == [change[c] EXCEPT !.status = "pending", !.base = head]
    <2>0. change[c] \in ChangeRequest /\ change[c].decider = "none" /\ change[c].result = 0
      BY <1>9 DEF CreateChangeRequest, Decided
    <2>1. r \in ChangeRequest /\ r.status = "pending" /\ r.decider = "none" /\ r.result = 0
      BY <2>0 DEF ChangeRequest, Open
    <2>2. change' = [change EXCEPT ![c] = r]
      BY <1>9 DEF CreateChangeRequest
    <2> HIDE DEF r
    <2>3. /\ change' \in [Changes -> ChangeRequest]
          /\ \A d \in Changes :
               /\ change'[d].status \in Decided <=> change'[d].decider # "none"
               /\ change'[d].status = "approved" <=> change'[d].result # 0
               /\ change'[d].status = "clarification_requested" => change'[d].clarified
      BY <2>1, <2>2, ChangeTyped DEF Decided
    <2> QED
      BY <1>9, <2>3 DEF CreateChangeRequest, history, quotes, closing
  <1>10. ASSUME NEW i \in Issues, CreateFieldIssue(i) PROVE TypeOK'
    BY <1>10 DEF CreateFieldIssue, history, quotes, closing
  <1>11. ASSUME NEW c \in Changes, NEW i \in Issues, CreateChangeProposal(c, i) PROVE TypeOK'
    BY <1>11 DEF CreateChangeProposal, ChangeRequest, Open, Decided, history, quotes, closing
  <1>12. ASSUME NEW c \in Changes, RequestChangeClarification(c) PROVE TypeOK'
    BY <1>12 DEF RequestChangeClarification, ChangeRequest, Open, Decided, history, quotes, closing
  <1>13. ASSUME NEW c \in Changes, ExplainChange(c) PROVE TypeOK'
    <2> DEFINE r == [change[c] EXCEPT !.status = "pending"]
    <2>0. change[c] \in ChangeRequest /\ change[c].decider = "none" /\ change[c].result = 0
      BY <1>13 DEF ExplainChange, Decided
    <2>1. r \in ChangeRequest /\ r.status = "pending" /\ r.decider = "none" /\ r.result = 0
      BY <2>0 DEF ChangeRequest, Open
    <2>2. change' = [change EXCEPT ![c] = r]
      BY <1>13 DEF ExplainChange
    <2> HIDE DEF r
    <2>3. /\ change' \in [Changes -> ChangeRequest]
          /\ \A d \in Changes :
               /\ change'[d].status \in Decided <=> change'[d].decider # "none"
               /\ change'[d].status = "approved" <=> change'[d].result # 0
               /\ change'[d].status = "clarification_requested" => change'[d].clarified
      BY <2>1, <2>2, ChangeTyped DEF Decided
    <2> QED
      BY <1>13, <2>3 DEF ExplainChange, history, quotes, closing
  <1>14. ASSUME NEW c \in Changes, NEW r \in Approvers, RejectChange(c, r) PROVE TypeOK'
    BY <1>14 DEF RejectChange, Rejects, ChangeRequest, Open, Decided, history, quotes, closing
  <1>15. ASSUME NEW c \in Changes, NEW r \in Approvers, ApproveChange(c, r) PROVE TypeOK'
    BY <1>15 DEF ApproveChange, Accepts, Extends, NewVersion, ChangeRequest, Open, Decided, quotes, closing
  <1>16. ASSUME NEW c \in Changes, ApproveChangeProposal(c) PROVE TypeOK'
    BY <1>16 DEF ApproveChangeProposal, Accepts, Extends, NewVersion, ChangeRequest, Open, Decided, quotes, closing
  <1>17. ASSUME NEW r \in Approvers, ConfirmCompletion(r) PROVE TypeOK'
    BY <1>17 DEF ConfirmCompletion, history, quotes, field
  <1>20. CASE CompleteOnRequest
    <2>1. head \in 0..MaxVersions
      OBVIOUS
    <2> QED
      BY <1>20, <2>1 DEF CompleteOnRequest, history, quotes, field
  <1>18. CASE CancelMoveJob
    BY <1>18 DEF CancelMoveJob, history, quotes, field
  <1>19. CASE UNCHANGED vars
    BY <1>19 DEF vars, history, quotes, field, closing
  <1> QED
    BY <1>1, <1>2, <1>3, <1>4, <1>5, <1>6, <1>7, <1>8, <1>9, <1>10, <1>11, <1>12, <1>13, <1>14,
       <1>15, <1>16, <1>17, <1>18, <1>19, <1>20 DEF Next, Versioning, Quoting, Changing, Closing

-----------------------------------------------------------------------------
(* The kinds of steps *)

\* A version added to an unlocked head: three actions.
Edit(by) ==
  /\ Extends(head, FALSE)
  /\ NewVersion(by)
  /\ UNCHANGED <<approvals, locked, quotes, field, closing>>
\* A change is asked for, discussed or rejected: five actions.
Discussed(c) ==
  /\ change[c].status \in {"none"} \cup Open
  /\ change[c].status = "none" => Unconfirmed
  /\ change'[c].status \in Open \cup {"rejected"}
  /\ change[c].status # "none" => change'[c].issue = change[c].issue
  /\ \/ change'[c].issue = change[c].issue /\ (change[c].status # "none" => change'[c].base = change[c].base)
     \/ change[c].status = "none" /\ change'[c].base = head /\ head \in Versions /\ HasAmount(head)
  /\ \A d \in Changes \ {c} : change'[d] = change[d]
  /\ UNCHANGED <<history, quotes, issueBase, closing>>
\* A change is approved, with or without the approvals of its result: two actions.
Approved(c, r) ==
  /\ change[c].status = "pending"
  /\ Extends(change[c].base, TRUE)
  /\ NewVersion(r)
  /\ change'[c].status = "approved"
  /\ change'[c].base = change[c].base /\ change'[c].result = head + 1
  /\ change'[c].issue = change[c].issue
  /\ \A d \in Changes \ {c} : change'[d] = change[d]
  /\ \/ UNCHANGED <<approvals, locked>>
     \/ /\ approvals' = [approvals EXCEPT ![head + 1] = Approvers]
        /\ locked' = locked \cup {head + 1}
  /\ UNCHANGED <<quotes, issueBase, closing>>

Kinds ==
  \/ \E by \in Approvers \cup {"analysis"} : Edit(by)
  \/ \E v \in Versions, r \in Approvers : ApproveScopeVersion(v, r)
  \/ \E v \in Versions : CreateScopeProposal(v) \/ CheckScopeRevision(v) \/ ConfirmScopeProposal(v)
  \/ RequestScopeRevision
  \/ \E c \in Changes : Discussed(c) \/ \E r \in Approvers : Approved(c, r)
  \/ \E i \in Issues : CreateFieldIssue(i)
  \/ \E r \in Approvers : ConfirmCompletion(r)
  \/ CompleteOnRequest
  \/ CancelMoveJob
  \/ UNCHANGED vars

LEMMA StepKinds == TypeOK /\ [Next]_vars => Kinds
  <1> SUFFICES ASSUME TypeOK, [Next]_vars PROVE Kinds
    OBVIOUS
  <1>1. ASSUME NEW r \in Approvers, CreateScopeVersion(r) PROVE Edit(r)
    BY <1>1 DEF CreateScopeVersion, Edit
  <1>2. CASE ImportAnalysisDraft \/ PatchMoveJob
    BY <1>2 DEF ImportAnalysisDraft, PatchMoveJob, Edit, Kinds, Approvers
  <1> USE DEF TypeOK, ChangeRequest, Open, Discussed
  <1>3. ASSUME NEW c \in Changes, CreateChangeRequest(c) PROVE Discussed(c)
    BY <1>3 DEF CreateChangeRequest, FieldWorkOn
  <1>4. ASSUME NEW c \in Changes, NEW i \in Issues, CreateChangeProposal(c, i) PROVE Discussed(c)
    BY <1>4 DEF CreateChangeProposal, FieldWorkOn, Current
  <1>5. ASSUME NEW c \in Changes, RequestChangeClarification(c) PROVE Discussed(c)
    BY <1>5 DEF RequestChangeClarification
  <1>6. ASSUME NEW c \in Changes, ExplainChange(c) PROVE Discussed(c)
    BY <1>6 DEF ExplainChange
  <1>7. ASSUME NEW c \in Changes, NEW r \in Approvers, RejectChange(c, r) PROVE Discussed(c)
    BY <1>7 DEF RejectChange, Rejects
  <1>8. ASSUME NEW c \in Changes, NEW r \in Approvers, ApproveChange(c, r) PROVE Approved(c, r)
    BY <1>8 DEF ApproveChange, Accepts, Approved
  <1>9. ASSUME NEW c \in Changes, ApproveChangeProposal(c) PROVE Approved(c, "customer")
    BY <1>9 DEF ApproveChangeProposal, Accepts, Approved
  <1> HIDE DEF TypeOK, ChangeRequest, Open, Discussed
  <1>10. "customer" \in Approvers
    BY DEF Approvers
  <1> QED
    BY <1>1, <1>2, <1>3, <1>4, <1>5, <1>6, <1>7, <1>8, <1>9, <1>10
       DEF Kinds, Next, Versioning, Quoting, Changing, Closing

-----------------------------------------------------------------------------
(* The other conjuncts of the invariant, kind by kind *)

LEMMA FutureBlankStep == IInv /\ Kinds => FutureBlank'
  <1> SUFFICES ASSUME IInv, Kinds PROVE FutureBlank'
    OBVIOUS
  <1> USE ScopeAssumption DEF IInv, TypeOK, FutureBlank, Versions
  <1>1. ASSUME NEW by, Edit(by) PROVE FutureBlank'
    BY <1>1 DEF Edit, Extends, NewVersion, quotes
  <1>2. ASSUME NEW v \in Versions, NEW r, Approve(v, r), head' = head
        PROVE  \A w \in Versions : w > head' => approvals'[w] = {}
    BY <1>2 DEF Approve, Approvable, Current
  <1>3. ASSUME NEW v \in Versions, NEW r, ApproveScopeVersion(v, r) PROVE FutureBlank'
    BY <1>2, <1>3 DEF ApproveScopeVersion, quotes
  <1>4. ASSUME NEW v \in Versions, CreateScopeProposal(v) PROVE FutureBlank'
    BY <1>4 DEF CreateScopeProposal, Current, Extends, NewVersion
  <1>5. ASSUME NEW v \in Versions, CheckScopeRevision(v) PROVE FutureBlank'
    BY <1>5 DEF CheckScopeRevision, history
  <1>6. CASE RequestScopeRevision
    BY <1>6 DEF RequestScopeRevision, history, RevisingStands
  <1>7. ASSUME NEW v \in Versions, ConfirmScopeProposal(v) PROVE FutureBlank'
    BY <1>2, <1>7 DEF ConfirmScopeProposal
  <1>8. ASSUME NEW c \in Changes, NEW r, Approved(c, r) PROVE FutureBlank'
    BY <1>8 DEF Approved, Extends, NewVersion, quotes
  <1>9. ASSUME UNCHANGED <<history, quotes>> PROVE FutureBlank'
    BY <1>9 DEF history, quotes
  <1> QED
    BY <1>1, <1>3, <1>4, <1>5, <1>6, <1>7, <1>8, <1>9
       DEF Kinds, Discussed, CreateFieldIssue, ConfirmCompletion, CompleteOnRequest,
           CancelMoveJob, vars

LEMMA RevisingStandsStep == IInv /\ Kinds => RevisingStands'
  <1> SUFFICES ASSUME IInv, Kinds PROVE RevisingStands'
    OBVIOUS
  <1> USE ScopeAssumption DEF IInv, TypeOK, RevisingStands, Versions
  <1>1. ASSUME NEW v \in Versions, CreateScopeProposal(v) PROVE RevisingStands'
    BY <1>1 DEF CreateScopeProposal, Current, Extends, FutureBlank
  <1>2. ASSUME NEW v \in Versions, CheckScopeRevision(v) PROVE RevisingStands'
    BY <1>2 DEF CheckScopeRevision
  <1>3. CASE RequestScopeRevision
    BY <1>3 DEF RequestScopeRevision
  <1>4. ASSUME NEW v \in Versions, ConfirmScopeProposal(v) PROVE RevisingStands'
    BY <1>4 DEF ConfirmScopeProposal
  <1>5. ASSUME UNCHANGED quotes PROVE RevisingStands'
    BY <1>5 DEF quotes
  <1> QED
    BY <1>1, <1>2, <1>3, <1>4, <1>5
       DEF Kinds, Edit, ApproveScopeVersion, Discussed, Approved, CreateFieldIssue, ConfirmCompletion,
           CompleteOnRequest, CancelMoveJob, vars

LEMMA LockedByBothStep == IInv /\ Kinds => LockedByBoth'
  <1> SUFFICES ASSUME IInv, Kinds PROVE LockedByBoth'
    OBVIOUS
  <1> USE ScopeAssumption DEF IInv, TypeOK, LockedByBoth, Versions, Approvers
  <1>1. ASSUME NEW by, Edit(by) PROVE LockedByBoth'
    BY <1>1 DEF Edit, Extends, NewVersion, FutureBlank
  <1>2. ASSUME NEW v \in Versions, NEW r, Approve(v, r), author' = author PROVE LockedByBoth'
    BY <1>2 DEF Approve, Approvable
  <1>3. ASSUME NEW v \in Versions, CreateScopeProposal(v) PROVE LockedByBoth'
    <2>1. "customer" \notin {} /\ "customer" \notin {"manager"} /\ "customer" \in {"customer", "manager"}
      OBVIOUS
    <2>2. head + 1 \in Versions /\ head + 1 > head
      BY <1>3 DEF CreateScopeProposal, Extends
    <2>3. approvals[head + 1] = {} /\ head + 1 \notin locked
      BY <2>1, <2>2 DEF FutureBlank
    <2>4. /\ author' = [author EXCEPT ![head + 1] = "manager"]
          /\ approvals' = [approvals EXCEPT ![head + 1] = {"manager"}]
          /\ locked' = locked
      BY <1>3 DEF CreateScopeProposal, NewVersion
    <2> QED
      BY <2>1, <2>2, <2>3, <2>4
  <1>4. ASSUME NEW c \in Changes, NEW r \in Approvers, Approved(c, r) PROVE LockedByBoth'
    <2>1. head + 1 \in Versions /\ head + 1 > head /\ author' = [author EXCEPT ![head + 1] = r]
      BY <1>4 DEF Approved, Extends, NewVersion
    <2>2. \A v \in Versions \ {head + 1} : author'[v] = author[v]
      BY <2>1
    <2>3. author'[head + 1] # "analysis"
      BY <2>1
    <2>4. CASE UNCHANGED <<approvals, locked>>
      BY <2>1, <2>2, <2>3, <2>4
    <2>5. CASE approvals' = [approvals EXCEPT ![head + 1] = Approvers] /\ locked' = locked \cup {head + 1}
      BY <2>1, <2>2, <2>3, <2>5
    <2> QED
      BY <1>4, <2>4, <2>5 DEF Approved
  <1>5. ASSUME UNCHANGED history PROVE LockedByBoth'
    BY <1>5 DEF history
  <1> QED
    BY <1>1, <1>2, <1>3, <1>4, <1>5
       DEF Kinds, ApproveScopeVersion, CheckScopeRevision, RequestScopeRevision, ConfirmScopeProposal,
           Discussed, CreateFieldIssue, ConfirmCompletion, CompleteOnRequest,
           CancelMoveJob, vars

LEMMA SucceededMeaning == LockedSucceededByChange <=> Succeeded
  <1>1. ASSUME LockedSucceededByChange PROVE Succeeded
    <2>1. \A v \in locked : v < head =>
            \E c \in Changes : change[c].status = "approved" /\ change[c].result = v + 1
      BY <1>1 DEF LockedSucceededByChange, ResultOf
    <2>2. ASSUME NEW c \in Changes, change[c].status = "approved",
                 NEW d \in Changes, change[d].status = "approved", change[d].result = change[c].result
          PROVE  d = c
      <3>1. ResultOf(change[c].result) = {c}
        BY <1>1, <2>2 DEF LockedSucceededByChange
      <3>2. d \in ResultOf(change[c].result)
        BY <2>2 DEF ResultOf
      <3> QED
        BY <3>1, <3>2
    <2> QED
      BY <1>1, <2>1, <2>2 DEF LockedSucceededByChange, Succeeded
  <1>2. ASSUME Succeeded PROVE LockedSucceededByChange
    <2>1. ASSUME NEW v \in locked, v < head PROVE ResultOf(v + 1) # {}
      BY <1>2, <2>1 DEF Succeeded, ResultOf
    <2>2. ASSUME NEW c \in Changes, change[c].status = "approved"
          PROVE  ResultOf(change[c].result) = {c}
      BY <1>2, <2>2 DEF Succeeded, ResultOf
    <2> QED
      BY <1>2, <2>1, <2>2 DEF LockedSucceededByChange, Succeeded
  <1> QED
    BY <1>1, <1>2

\* A version is added on an unlocked head, or on the base of the change it results from.
LEMMA SucceededOnEdit ==
  ASSUME IInv, Succeeded, head \notin locked, head' = head + 1, UNCHANGED <<locked, change>>
  PROVE  Succeeded'
  <1>1. head \in Nat /\ locked \subseteq Nat /\ \A c \in Changes : change[c].result \in Nat
    BY ScopeAssumption DEF IInv, TypeOK, Versions, ChangeRequest
  <1>2. \A v \in locked : v < head' => v < head
    BY <1>1
  <1>3. \A c \in Changes : change[c].result <= head => change[c].result <= head'
    BY <1>1
  <1> QED
    BY <1>2, <1>3 DEF Succeeded

LEMMA SucceededOnDiscussion ==
  ASSUME IInv, Succeeded, NEW c \in Changes, Discussed(c)
  PROVE  Succeeded'
  <1>1. UNCHANGED <<head, locked>>
    BY DEF Discussed, history
  <1>2. change[c].status # "approved" /\ change'[c].status # "approved"
    BY DEF Discussed, Open
  <1>3. \A d \in Changes : d # c => change'[d] = change[d]
    BY DEF Discussed
  <1> QED
    BY <1>1, <1>2, <1>3 DEF Succeeded

LEMMA SucceededOnApproval ==
  ASSUME IInv, Succeeded, NEW c \in Changes, NEW r \in Approvers, Approved(c, r)
  PROVE  Succeeded'
  <1>1. /\ head \in Nat /\ head + 1 > head /\ locked \subseteq Nat
        /\ \A d \in Changes : change[d].result \in Nat
    BY ScopeAssumption DEF IInv, TypeOK, Versions, ChangeRequest
  <1>2. /\ head \in locked /\ head' = head + 1 /\ change[c].base = head
        /\ locked \subseteq locked' /\ locked' \subseteq locked \cup {head + 1}
    BY DEF Approved, Extends, NewVersion
  <1>3. /\ change[c].status # "approved"
        /\ change'[c].status = "approved" /\ change'[c].base = head /\ change'[c].result = head + 1
        /\ \A d \in Changes : d # c => change'[d] = change[d]
    BY <1>2 DEF Approved
  <1>4. \A d \in Changes : d # c /\ change'[d].status = "approved" =>
          change[d].status = "approved" /\ change'[d].result <= head /\ change'[d].result # head + 1
    BY <1>1, <1>3 DEF Succeeded
  <1>5. ASSUME NEW v \in locked', v < head'
        PROVE  \E d \in Changes : change'[d].status = "approved" /\ change'[d].result = v + 1
    <2>1. v \in locked /\ v \in Nat
      BY <1>1, <1>2, <1>5
    <2>2. CASE v = head
      BY <2>2, <1>3
    <2>3. CASE v < head
      BY <2>1, <2>3, <1>3 DEF Succeeded
    <2> QED
      BY <2>1, <2>2, <2>3, <1>1, <1>2, <1>5
  <1>6. ASSUME NEW d \in Changes, change'[d].status = "approved"
        PROVE  /\ change'[d].base \in locked' /\ change'[d].result = change'[d].base + 1
               /\ change'[d].result <= head'
    <2>1. CASE d = c
      BY <2>1, <1>1, <1>2, <1>3
    <2>2. CASE d # c
      <3>1. change'[d] = change[d] /\ change[d].status = "approved" /\ change[d].result \in Nat
        BY <2>2, <1>1, <1>3, <1>6
      <3>2. /\ change[d].base \in locked' /\ change[d].result = change[d].base + 1
            /\ change[d].result <= head
        BY <3>1, <1>2 DEF Succeeded
      <3> QED
        BY <3>1, <3>2, <1>1, <1>2
    <2> QED
      BY <2>1, <2>2
  <1>7. ASSUME NEW d \in Changes, change'[d].status = "approved",
               NEW e \in Changes, change'[e].status = "approved", change'[e].result = change'[d].result
        PROVE  e = d
    BY <1>3, <1>4, <1>7 DEF Succeeded
  <1> QED
    BY <1>5, <1>6, <1>7 DEF Succeeded

LEMMA SucceededStep == IInv /\ Kinds => Succeeded'
  <1> SUFFICES ASSUME IInv, Kinds PROVE Succeeded'
    OBVIOUS
  <1>0. Succeeded
    BY SucceededMeaning DEF IInv
  <1>1. ASSUME NEW by, Edit(by) PROVE Succeeded'
    BY <1>0, <1>1, SucceededOnEdit DEF Edit, Extends, NewVersion, field
  <1>2. ASSUME NEW v \in Versions, NEW r, Approve(v, r), UNCHANGED <<head, field>> PROVE Succeeded'
    <2>1. head' = head /\ change' = change /\ locked \subseteq locked' /\ locked' \subseteq locked \cup {head}
      BY <1>2 DEF Approve, Approvable, Current, field
    <2>2. ~(head < head)
      BY ScopeAssumption DEF IInv, TypeOK
    <2> QED
      BY <1>0, <2>1, <2>2 DEF Succeeded
  <1>3. ASSUME NEW v \in Versions, CreateScopeProposal(v) PROVE Succeeded'
    BY <1>0, <1>3, SucceededOnEdit DEF CreateScopeProposal, Current, Extends, NewVersion, field
  <1>4. ASSUME NEW c \in Changes, Discussed(c) PROVE Succeeded'
    BY <1>0, <1>4, SucceededOnDiscussion
  <1>5. ASSUME NEW c \in Changes, NEW r \in Approvers, Approved(c, r) PROVE Succeeded'
    BY <1>0, <1>5, SucceededOnApproval
  <1>6. ASSUME UNCHANGED <<history, change>> PROVE Succeeded'
    BY <1>0, <1>6 DEF Succeeded, history
  <1> QED
    BY <1>1, <1>2, <1>3, <1>4, <1>5, <1>6
       DEF Kinds, ApproveScopeVersion, CheckScopeRevision, RequestScopeRevision, ConfirmScopeProposal,
           CreateFieldIssue, ConfirmCompletion, CompleteOnRequest,
           CancelMoveJob, vars, field

LEMMA QuotesAccountedForStep == IInv /\ Kinds => QuotesAccountedFor'
  <1> SUFFICES ASSUME IInv, Kinds PROVE QuotesAccountedFor'
    OBVIOUS
  <1> USE ScopeAssumption DEF IInv, TypeOK, QuotesAccountedFor, Versions, Approvers
  <1>1. ASSUME NEW by, Edit(by) PROVE QuotesAccountedFor'
    BY <1>1 DEF Edit, Extends, NewVersion, quotes, closing
  <1>2. ASSUME NEW v \in Versions, NEW r \in Approvers, ApproveScopeVersion(v, r) PROVE QuotesAccountedFor'
    BY <1>2 DEF ApproveScopeVersion, Approve, Approvable, quotes, closing
  <1>3. ASSUME NEW v \in Versions, CreateScopeProposal(v) PROVE QuotesAccountedFor'
    BY <1>3 DEF CreateScopeProposal, Current, Extends, NewVersion, FutureBlank, closing
  <1>4. ASSUME NEW v \in Versions, CheckScopeRevision(v) PROVE QuotesAccountedFor'
    BY <1>4 DEF CheckScopeRevision, history, closing
  <1>5. CASE RequestScopeRevision
    BY <1>5 DEF RequestScopeRevision, RevisingStands, history, closing
  <1>6. ASSUME NEW v \in Versions, ConfirmScopeProposal(v) PROVE QuotesAccountedFor'
    BY <1>6 DEF ConfirmScopeProposal, Approve, Approvable, closing
  <1>7. ASSUME NEW c \in Changes, NEW r \in Approvers, Approved(c, r) PROVE QuotesAccountedFor'
    BY <1>7 DEF Approved, Extends, NewVersion, quotes, FutureBlank, closing
  <1>8. ASSUME UNCHANGED <<history, quotes>>, job' = "canceled" => job = "canceled"
        PROVE  QuotesAccountedFor'
    BY <1>8 DEF history, quotes
  <1>9. CASE CancelMoveJob
    BY <1>9 DEF CancelMoveJob, history, quotes
  <1>10. ASSUME NEW r \in Approvers, ConfirmCompletion(r) PROVE job' # "canceled"
    BY <1>10 DEF ConfirmCompletion
  <1> QED
    BY <1>1, <1>2, <1>3, <1>4, <1>5, <1>6, <1>7, <1>8, <1>9, <1>10
       DEF Kinds, Discussed, CreateFieldIssue, ConfirmCompletion, CompleteOnRequest, vars, closing

LEMMA ConfirmedScopeStandsStep == IInv /\ Kinds => ConfirmedScopeStands'
  <1> SUFFICES ASSUME IInv, Kinds PROVE ConfirmedScopeStands'
    OBVIOUS
  <1> USE DEF IInv, ConfirmedScopeStands
  <1>1. ASSUME NEW by, Edit(by) PROVE ConfirmedScopeStands'
    BY <1>1 DEF Edit, Extends, field, closing, Resolved
  <1>2. ASSUME NEW v \in Versions, NEW r, Approve(v, r), UNCHANGED <<head, field, closing>>
        PROVE  ConfirmedScopeStands'
    BY <1>2 DEF Approve, field, closing, Resolved
  <1>3. ASSUME NEW v \in Versions, CreateScopeProposal(v) PROVE ConfirmedScopeStands'
    BY <1>3 DEF CreateScopeProposal, Current, Extends, field, closing, Resolved
  <1>4. ASSUME NEW c \in Changes, Discussed(c) PROVE ConfirmedScopeStands'
    <2>1. UNCHANGED <<head, locked, issueBase, job, confirmed>>
      BY <1>4 DEF Discussed, history, closing
    <2>2. CASE Unconfirmed
      BY <2>1, <2>2 DEF Unconfirmed
    <2>3. CASE ~Unconfirmed
      <3>1. change[c].status \in Open
        BY <1>4, <2>3 DEF Discussed
      <3>2. job = "completed"
        BY <2>3, <3>1 DEF Unconfirmed
      <3>3. \A i \in Issues : Resolved(i) => Resolved(i)'
        BY <1>4, <2>1, <3>1 DEF Discussed, Resolved, Open, Decided
      <3> QED
        BY <2>1, <3>2, <3>3
    <2> QED
      BY <2>2, <2>3
  <1>5. ASSUME NEW c \in Changes, NEW r \in Approvers, Approved(c, r) PROVE ConfirmedScopeStands'
    <2>1. UNCHANGED <<job, confirmed, issueBase>> /\ locked \subseteq locked'
      BY <1>5 DEF Approved, closing
    <2>2. CASE Unconfirmed
      BY <2>1, <2>2 DEF Unconfirmed
    <2>3. CASE ~Unconfirmed
      <3>1. change[c].status \in Open
        BY <1>5 DEF Approved, Open
      <3>2. job = "completed"
        BY <2>3, <3>1 DEF Unconfirmed
      <3>3. \A i \in Issues : Resolved(i) => Resolved(i)'
        BY <1>5, <2>1, <3>1 DEF Approved, Resolved, Open, Decided
      <3> QED
        BY <2>1, <3>2, <3>3
    <2> QED
      BY <2>2, <2>3
  <1>6. ASSUME NEW i \in Issues, CreateFieldIssue(i) PROVE ConfirmedScopeStands'
    BY <1>6 DEF CreateFieldIssue, FieldWorkOn, Unconfirmed, closing
  <1>7. ASSUME NEW r \in Approvers, ConfirmCompletion(r) PROVE ConfirmedScopeStands'
    <2>1. UNCHANGED <<head, locked, change, issueBase>> /\ head \in locked /\ head # 0
      BY <1>7, ScopeAssumption DEF ConfirmCompletion, history, field, TypeOK, Versions
    <2>2. confirmed' = [confirmed EXCEPT ![r] = head]
      BY <1>7 DEF ConfirmCompletion
    <2>3. /\ \A c \in Changes : change'[c].status \notin Open
          /\ \A i \in Issues : Resolved(i)'
      BY <2>1, <1>7 DEF ConfirmCompletion, Resolved
    <2>4. \A s \in Approvers : confirmed'[s] # 0 => confirmed'[s] = head
      BY <2>2, <1>7 DEF ConfirmCompletion, TypeOK
    <2>5. job' = "completed" <=> \A s \in Approvers : confirmed'[s] # 0
      BY <2>1, <2>2, <1>7 DEF ConfirmCompletion, TypeOK, Approvers
    <2> QED
      BY <2>1, <2>3, <2>4, <2>5
  <1>10. CASE CompleteOnRequest
    <2>1. UNCHANGED <<head, locked, change, issueBase>> /\ head \in locked /\ head # 0
      BY <1>10, ScopeAssumption DEF CompleteOnRequest, history, field, TypeOK, Versions
    <2>2. job' = "completed" /\ \A s \in Approvers : confirmed'[s] = head
      BY <1>10 DEF CompleteOnRequest
    <2>3. \A i \in Issues : Resolved(i)'
      BY <2>1, <1>10 DEF CompleteOnRequest, Resolved
    <2> QED
      BY <2>1, <2>2, <2>3
  <1>8. CASE CancelMoveJob
    BY <1>8 DEF CancelMoveJob, history, field, Resolved
  <1>9. ASSUME UNCHANGED <<history, field, closing>> PROVE ConfirmedScopeStands'
    BY <1>9 DEF history, field, closing, Resolved
  <1> QED
    BY <1>1, <1>2, <1>3, <1>4, <1>5, <1>6, <1>7, <1>8, <1>9, <1>10
       DEF Kinds, ApproveScopeVersion, CheckScopeRevision, RequestScopeRevision, ConfirmScopeProposal,
           vars

-----------------------------------------------------------------------------
(* Theorems *)

LEMMA InitIInv == Init => IInv
  <1> SUFFICES ASSUME Init PROVE IInv
    OBVIOUS
  <1> USE ScopeAssumption DEF Init, Versions, Approvers
  <1>1. TypeOK
    BY DEF TypeOK, ChangeRequest, NoChange, Open, Decided
  <1>2. {} # Approvers
    OBVIOUS
  <1>3. LockedByBoth /\ FutureBlank /\ RevisingStands /\ QuotesAccountedFor
    BY <1>2 DEF LockedByBoth, FutureBlank, RevisingStands, QuotesAccountedFor
  <1>4. LockedSucceededByChange
    BY DEF LockedSucceededByChange, NoChange
  <1>5. ConfirmedScopeStands
    BY DEF ConfirmedScopeStands
  <1> QED
    BY <1>1, <1>3, <1>4, <1>5 DEF IInv

LEMMA StepIInv == IInv /\ [Next]_vars => IInv'
  <1>1. IInv /\ [Next]_vars => Kinds
    BY StepKinds DEF IInv
  <1>2. Succeeded' => LockedSucceededByChange'
    BY SucceededMeaning, PTL
  <1> QED
    BY <1>1, <1>2, TypeStep, FutureBlankStep, RevisingStandsStep, LockedByBothStep, SucceededStep,
       QuotesAccountedForStep, ConfirmedScopeStandsStep DEF IInv

\* The agreement of a job: the type, blank future versions, the standing revision and
\* the properties below hold together, each needing the others.
THEOREM Invariant == Spec => []IInv
  BY InitIInv, StepIInv, PTL DEF Spec

\* Every variable keeps its shape, and a change has its decider and its result exactly
\* when it is decided or approved.
THEOREM TypeCorrect == Spec => []TypeOK
  <1>1. IInv => TypeOK
    BY DEF IInv
  <1> QED
    BY <1>1, Invariant, PTL

\* approve_scope_version: a version is locked exactly when both sides approved it.
THEOREM LockIsAgreement == Spec => []LockedByBoth
  <1>1. IInv => LockedByBoth
    BY DEF IInv
  <1> QED
    BY <1>1, Invariant, PTL

\* create_scope_version, decide_change_request: only an approved change against it
\* follows an agreed scope, and two changes never share a result.
THEOREM AgreedScopeChangesByChange == Spec => []LockedSucceededByChange
  <1>1. IInv => LockedSucceededByChange
    BY DEF IInv
  <1> QED
    BY <1>1, Invariant, PTL

\* create_scope_proposal, request_scope_revision, confirm_scope_proposal: quotes,
\* revisions, approvals and the chain of versions agree.
THEOREM QuotesAgree == Spec => []QuotesAccountedFor
  <1>1. IInv => QuotesAccountedFor
    BY DEF IInv
  <1> QED
    BY <1>1, Invariant, PTL

\* confirm_completion: what a side confirmed is the agreed scope and stays it.
THEOREM ConfirmationStands == Spec => []ConfirmedScopeStands
  <1>1. IInv => ConfirmedScopeStands
    BY DEF IInv
  <1> QED
    BY <1>1, Invariant, PTL

LEMMA ApprovalStep ==
  ASSUME IInv, Kinds, NEW v \in Versions, approvals'[v] # approvals[v]
  PROVE  approvals[v] \subseteq approvals'[v] /\ v = head' /\ v \notin locked
  <1> USE ScopeAssumption DEF IInv, TypeOK, Versions
  <1>1. ASSUME NEW w \in Versions, NEW r, Approve(w, r), head' = head
        PROVE  approvals[v] \subseteq approvals'[v] /\ v = head' /\ v \notin locked
    BY <1>1 DEF Approve, Approvable, Current
  <1>2. ASSUME head + 1 \in Versions, head' = head + 1,
               \A w \in Versions : w # head + 1 => approvals'[w] = approvals[w]
        PROVE  approvals[v] \subseteq approvals'[v] /\ v = head' /\ v \notin locked
    <2>1. v = head + 1 /\ v > head
      BY <1>2
    <2>2. approvals[v] = {} /\ "customer" \in Approvers
      BY <2>1 DEF FutureBlank, Approvers
    <2>3. v \notin locked
      BY <2>2 DEF LockedByBoth
    <2> QED
      BY <1>2, <2>1, <2>2, <2>3
  <1>3. ASSUME NEW w \in Versions, CreateScopeProposal(w)
        PROVE  approvals[v] \subseteq approvals'[v] /\ v = head' /\ v \notin locked
    BY <1>2, <1>3 DEF CreateScopeProposal, Extends, NewVersion
  <1>4. ASSUME NEW c \in Changes, NEW r, Approved(c, r)
        PROVE  approvals[v] \subseteq approvals'[v] /\ v = head' /\ v \notin locked
    BY <1>2, <1>4 DEF Approved, Extends, NewVersion
  <1>5. approvals' # approvals
    OBVIOUS
  <1> QED
    BY <1>1, <1>3, <1>4, <1>5
       DEF Kinds, Edit, ApproveScopeVersion, CheckScopeRevision, RequestScopeRevision, ConfirmScopeProposal,
           Discussed, CreateFieldIssue, ConfirmCompletion, CompleteOnRequest,
           CancelMoveJob, vars, history

\* approve_scope_version: an approval is given to the newest version while it is not
\* locked, and is never withdrawn.
THEOREM ApprovalsOnHead == Spec => ApprovalsLandOnHead
  <1>1. IInv /\ [Next]_vars => Kinds
    BY StepKinds DEF IInv
  <1>2. IInv /\ [Next]_vars =>
          [\A v \in Versions : approvals'[v] # approvals[v] =>
             approvals[v] \subseteq approvals'[v] /\ v = head' /\ v \notin locked]_vars
    BY <1>1, ApprovalStep
  <1> QED
    BY <1>2, Invariant, PTL DEF Spec, ApprovalsLandOnHead

-----------------------------------------------------------------------------
(* Prices *)

\* The nearest proposal on the way from v to the root is one both sides confirmed.
AgreementBehind(v) ==
  \E u \in 1..v : proposal[u] = "confirmed" /\ \A w \in (u + 1)..v : proposal[w] = "none"

\* A version has one price, that of its proposal or that of the change it results from;
\* every price rests on an agreement, and a change is quoted on a version that has one.
OnePrice == \A v \in Versions : proposal[v] # "none" => ResultOf(v) = {}
PricesRest == \A v \in Versions : v <= head /\ HasAmount(v) => AgreementBehind(v)
QuotedOnPrice ==
  \A c \in Changes : Quoted(c) =>
    change[c].status # "none" /\ change[c].base \in 1..head /\ HasAmount(change[c].base)
PriceInv == OnePrice /\ PricesRest /\ QuotedOnPrice

\* What a step does to a change: nothing, a discussion, or the approval of one asked for
\* against the head.
ChangeMoves(c) ==
  \/ change'[c] = change[c]
  \/ /\ change[c].status \in {"none"} \cup Open /\ change'[c].status \in Open \cup {"rejected"}
     /\ \/ change'[c].issue = change[c].issue /\ (change[c].status # "none" => change'[c].base = change[c].base)
        \/ change[c].status = "none" /\ change'[c].base = head /\ head \in Versions /\ HasAmount(head)
  \/ /\ change[c].status = "pending" /\ change'[c].status = "approved"
     /\ change[c].base = head /\ change'[c].base = head /\ change'[c].result = head + 1
     /\ change'[c].issue = change[c].issue
     /\ head \in locked /\ head + 1 \in Versions /\ head' = head + 1 /\ proposal' = proposal

\* What it does to a proposal: a confirmed one stays so, and a new one is on a new version.
ProposalMoves(v) ==
  /\ proposal[v] = "confirmed" => proposal'[v] = "confirmed"
  /\ proposal'[v] # "none" => proposal[v] # "none" \/ (v = head + 1 /\ change' = change)
  /\ v \in locked /\ proposal'[v] = "confirmed" => proposal[v] = "confirmed"

LEMMA PriceMoves ==
  ASSUME IInv, Kinds
  PROVE  /\ head' = head \/ head' = head + 1
         /\ \A c \in Changes : ChangeMoves(c)
         /\ \A v \in Versions : ProposalMoves(v)
  <1> DEFINE Goal == /\ head' = head \/ head' = head + 1
                     /\ \A c \in Changes : ChangeMoves(c)
                     /\ \A v \in Versions : ProposalMoves(v)
  <1>0. TypeOK /\ head \in Nat
    BY ScopeAssumption DEF IInv, TypeOK
  <1>1. ASSUME head' = head \/ head' = head + 1, change' = change, proposal' = proposal PROVE Goal
    BY <1>1 DEF ChangeMoves, ProposalMoves
  <1>2. ASSUME NEW by, Edit(by) PROVE Goal
    BY <1>1, <1>2 DEF Edit, NewVersion, quotes, field
  <1>3. ASSUME NEW v \in Versions, NEW r \in Approvers, ApproveScopeVersion(v, r) PROVE Goal
    BY <1>1, <1>3 DEF ApproveScopeVersion, quotes, field
  <1>4. ASSUME NEW v \in Versions, CreateScopeProposal(v) PROVE Goal
    <2>1. /\ v \in Versions /\ head + 1 \in Versions /\ head' = head + 1 /\ change' = change
          /\ proposal[v] \in {"none", "revision_requested"} /\ v # head + 1
      BY <1>0, <1>4, ScopeAssumption DEF CreateScopeProposal, Current, Extends, NewVersion, Versions, field
    <2>2. proposal' = [proposal EXCEPT ![head + 1] = "customer_review",
                                       ![v] = IF @ = "none" THEN @ ELSE "superseded"]
      BY <1>4 DEF CreateScopeProposal
    <2>3. \A w \in Versions :
            proposal'[w] = IF w = v THEN (IF proposal[v] = "none" THEN "none" ELSE "superseded")
                           ELSE IF w = head + 1 THEN "customer_review" ELSE proposal[w]
      BY <1>0, <2>1, <2>2 DEF TypeOK
    <2>4. proposal[head + 1] = "none"
      BY <1>0, <2>1 DEF IInv, FutureBlank
    <2> QED
      BY <2>1, <2>3, <2>4 DEF ChangeMoves, ProposalMoves
  <1>5. ASSUME NEW v \in Versions, CheckScopeRevision(v) PROVE Goal
    BY <1>1, <1>5 DEF CheckScopeRevision, history, field
  <1>6. CASE RequestScopeRevision
    <2>1. proposal[revising] = "customer_review"
      BY <1>6 DEF IInv, RevisingStands, RequestScopeRevision
    <2>2. /\ \A w \in Versions : proposal'[w] = IF w = revising THEN "revision_requested" ELSE proposal[w]
          /\ head' = head /\ change' = change
      BY <1>0, <1>6 DEF RequestScopeRevision, TypeOK, history, field
    <2> QED
      BY <2>1, <2>2 DEF ChangeMoves, ProposalMoves
  <1>7. ASSUME NEW v \in Versions, ConfirmScopeProposal(v) PROVE Goal
    <2>1. proposal[v] = "customer_review" /\ v \notin locked /\ head' = head /\ change' = change
      BY <1>7 DEF ConfirmScopeProposal, Approve, Approvable, field
    <2>2. \A w \in Versions : proposal'[w] = IF w = v THEN "confirmed" ELSE proposal[w]
      BY <1>0, <1>7 DEF ConfirmScopeProposal, TypeOK
    <2> QED
      BY <2>1, <2>2 DEF ChangeMoves, ProposalMoves
  <1>8. ASSUME NEW c \in Changes, Discussed(c) PROVE Goal
    <2>1. head' = head /\ proposal' = proposal
      BY <1>8 DEF Discussed, history, quotes
    <2> QED
      BY <1>8, <2>1 DEF Discussed, ChangeMoves, ProposalMoves
  <1>9. ASSUME NEW c \in Changes, NEW r \in Approvers, Approved(c, r) PROVE Goal
    <2>1. /\ head' = head + 1 /\ proposal' = proposal /\ change[c].base = head
          /\ head \in locked /\ head + 1 \in Versions
      BY <1>0, <1>9, ScopeAssumption DEF Approved, Extends, NewVersion, quotes, Versions
    <2> QED
      BY <1>9, <2>1 DEF Approved, ChangeMoves, ProposalMoves
  <1>10. ASSUME NEW i \in Issues, CreateFieldIssue(i) PROVE Goal
    BY <1>1, <1>10 DEF CreateFieldIssue, history, quotes
  <1>11. ASSUME UNCHANGED <<history, quotes, field>> PROVE Goal
    BY <1>1, <1>11 DEF history, quotes, field
  <1>12. (\E r \in Approvers : ConfirmCompletion(r)) \/ CompleteOnRequest \/ CancelMoveJob \/ UNCHANGED vars
           => Goal
    BY <1>11 DEF ConfirmCompletion, CompleteOnRequest, CancelMoveJob, vars
  <1>13. Goal
    <2>1. (\E by \in Approvers \cup {"analysis"} : Edit(by)) => Goal
      BY <1>2
    <2>2. (\E v \in Versions, r \in Approvers : ApproveScopeVersion(v, r)) => Goal
      BY <1>3
    <2>3. (\E v \in Versions : CreateScopeProposal(v) \/ CheckScopeRevision(v) \/ ConfirmScopeProposal(v)) => Goal
      BY <1>4, <1>5, <1>7
    <2>4. (\E c \in Changes : Discussed(c) \/ \E r \in Approvers : Approved(c, r)) => Goal
      BY <1>8, <1>9
    <2>5. (\E i \in Issues : CreateFieldIssue(i)) => Goal
      BY <1>10
    <2> QED
      BY <1>6, <1>12, <2>1, <2>2, <2>3, <2>4, <2>5 DEF Kinds
  <1> QED
    BY <1>13

\* What is priced stays priced, by the same row.
LEMMA AmountsStand ==
  ASSUME IInv, Kinds, NEW v \in Versions
  PROVE  /\ HasAmount(v) => HasAmount(v)'
         /\ v <= head => ResultOf(v)' = ResultOf(v)
         /\ \A c \in ResultOf(v) : change'[c] = change[c]
  <1>1. \A c \in Changes : change[c].status = "approved" => change'[c] = change[c]
    BY PriceMoves DEF ChangeMoves, Open
  <1>2. ASSUME NEW c \in Changes, change'[c].status = "approved", change[c].status # "approved"
        PROVE  change'[c].result = head + 1
    BY <1>2, PriceMoves DEF ChangeMoves, Open
  <1>3. ResultOf(v) \subseteq ResultOf(v)' /\ \A c \in ResultOf(v) : change'[c] = change[c]
    BY <1>1 DEF ResultOf
  <1>4. ASSUME v <= head, NEW c \in ResultOf(v)' PROVE c \in ResultOf(v)
    <2>1. v # head + 1
      BY <1>4, ScopeAssumption DEF IInv, TypeOK, Versions
    <2> QED
      BY <1>1, <1>2, <1>4, <2>1 DEF ResultOf
  <1>5. HasAmount(v) => HasAmount(v)'
    BY <1>3, PriceMoves DEF HasAmount, ProposalMoves, Quoted
  <1> QED
    BY <1>3, <1>4, <1>5

LEMMA AgreementsStand ==
  ASSUME IInv, Kinds, NEW v \in Versions, v <= head, AgreementBehind(v)
  PROVE  AgreementBehind(v)'
  <1>1. PICK u \in 1..v : proposal[u] = "confirmed" /\ \A w \in (u + 1)..v : proposal[w] = "none"
    BY DEF AgreementBehind
  <1>2. head \in Nat /\ \A w \in 1..v : w \in Versions /\ w # head + 1
    BY ScopeAssumption DEF IInv, TypeOK, Versions
  <1>3. \A w \in (u + 1)..v : w \in 1..v
    BY DEF Versions
  <1>4. proposal'[u] = "confirmed" /\ \A w \in (u + 1)..v : proposal'[w] = "none"
    BY <1>1, <1>2, <1>3, PriceMoves DEF ProposalMoves
  <1> QED
    BY <1>4 DEF AgreementBehind

LEMMA PriceStep == IInv /\ PriceInv /\ Kinds => PriceInv'
  <1> SUFFICES ASSUME IInv, PriceInv, Kinds PROVE PriceInv'
    OBVIOUS
  <1>1. /\ head \in Nat /\ head' \in {head, head + 1} /\ Versions \subseteq Nat
        /\ \A v \in Versions : v > head => proposal[v] = "none"
        /\ \A c \in Changes : ChangeMoves(c)
        /\ \A v \in Versions : ProposalMoves(v)
    BY PriceMoves, ScopeAssumption DEF IInv, TypeOK, Versions, FutureBlank
  <1>2. ASSUME NEW v \in Versions, proposal'[v] # "none" PROVE ResultOf(v)' = {}
    <2>1. CASE proposal[v] # "none"
      <3>1. v <= head
        BY <1>1, <2>1
      <3> QED
        BY <2>1, <3>1, AmountsStand DEF PriceInv, OnePrice
    <2>2. CASE v = head + 1 /\ change' = change
      <3>1. ASSUME NEW c \in ResultOf(v) PROVE FALSE
        <4>1. change[c].result <= head /\ change[c].result = head + 1
          BY <2>2, <3>1 DEF IInv, LockedSucceededByChange, ResultOf
        <4> QED
          BY <1>1, <4>1
      <3> QED
        BY <2>2, <3>1 DEF ResultOf
    <2> QED
      BY <1>1, <1>2, <2>1, <2>2 DEF ProposalMoves
  <1>3. ASSUME NEW v \in Versions, v <= head', HasAmount(v)' PROVE AgreementBehind(v)'
    <2>1. CASE proposal'[v] = "confirmed"
      <3>1. v \in 1..v /\ (v + 1)..v = {}
        BY DEF Versions
      <3> QED
        BY <2>1, <3>1 DEF AgreementBehind
    <2>2. CASE proposal'[v] # "confirmed"
      <3>1. PICK c \in Changes : change'[c].status = "approved" /\ change'[c].result = v /\ Quoted(c)'
        BY <1>3, <2>2 DEF HasAmount, ResultOf
      <3>2. CASE change[c].status = "approved"
        <4>1. change'[c] = change[c]
          BY <1>1, <3>2 DEF ChangeMoves, Open
        <4>2. HasAmount(v) /\ v <= head
          <5>1. c \in ResultOf(v) /\ Quoted(c)
            BY <3>1, <4>1 DEF ResultOf, Quoted
          <5>2. change[c].result <= head
            BY <3>2 DEF IInv, LockedSucceededByChange
          <5> QED
            BY <3>1, <4>1, <5>1, <5>2 DEF HasAmount
        <4> QED
          BY <4>2, AgreementsStand DEF PriceInv, PricesRest
      <3>3. CASE change[c].status # "approved"
        <4>1. /\ change[c].base = head /\ change'[c].result = head + 1 /\ Quoted(c)
              /\ head \in locked /\ proposal' = proposal
          BY <1>1, <3>1, <3>3 DEF ChangeMoves, Open, Quoted
        <4>2. HasAmount(head) /\ head \in Versions
          BY <4>1 DEF PriceInv, QuotedOnPrice, IInv, TypeOK
        <4>3. AgreementBehind(head)
          BY <1>1, <4>2 DEF PriceInv, PricesRest
        <4>4. PICK u \in 1..head : proposal[u] = "confirmed" /\ \A w \in (u + 1)..head : proposal[w] = "none"
          BY <4>3 DEF AgreementBehind
        <4>5. v = head + 1 /\ proposal[v] = "none"
          BY <1>1, <3>1, <4>1
        <4>6. u \in 1..v /\ \A w \in (u + 1)..v : proposal[w] = "none"
          BY <1>1, <4>4, <4>5
        <4> QED
          BY <4>1, <4>4, <4>6 DEF AgreementBehind
      <3> QED
        BY <3>2, <3>3
    <2> QED
      BY <2>1, <2>2
  <1>4. ASSUME NEW c \in Changes, Quoted(c)'
        PROVE  change'[c].status # "none" /\ change'[c].base \in 1..head' /\ HasAmount(change[c].base)'
    <2>1. ASSUME change'[c].base \in 1..head, HasAmount(change'[c].base), change'[c].status # "none"
          PROVE  change'[c].base \in 1..head' /\ HasAmount(change[c].base)'
      <3>1. PICK b \in 1..head : b = change'[c].base
        BY <2>1
      <3>2. b \in Versions
        BY ScopeAssumption DEF IInv, TypeOK, Versions
      <3>3. HasAmount(b)'
        BY <2>1, <3>1, <3>2, AmountsStand
      <3> QED
        BY <1>1, <3>1, <3>3
    <2>2. CASE Quoted(c) /\ change'[c].base = change[c].base /\ change'[c].status # "none"
      BY <2>1, <2>2 DEF PriceInv, QuotedOnPrice
    <2>3. CASE change'[c].base = head /\ head \in Versions /\ HasAmount(head) /\ change'[c].status # "none"
      BY <1>1, <2>1, <2>3 DEF Versions
    <2> QED
      BY <1>1, <1>4, <2>2, <2>3 DEF ChangeMoves, Quoted, PriceInv, QuotedOnPrice, Open
  <1> QED
    BY <1>2, <1>3, <1>4 DEF PriceInv, OnePrice, PricesRest, QuotedOnPrice

LEMMA InitPrice == Init => PriceInv
  <1> SUFFICES ASSUME Init PROVE PriceInv
    OBVIOUS
  <1>1. \A v \in Versions : proposal[v] = "none"
    BY DEF Init
  <1>2. \A c \in Changes : change[c].status = "none" /\ ~Quoted(c)
    BY DEF Init, NoChange, Quoted
  <1>3. \A v \in Versions : ~HasAmount(v)
    BY <1>1, <1>2 DEF HasAmount, ResultOf
  <1> QED
    BY <1>1, <1>2, <1>3 DEF PriceInv, OnePrice, PricesRest, QuotedOnPrice

\* create_change_proposal, decide_change_proposal: a version has at most one price, and
\* below every price lies an agreement both sides confirmed, with no other proposal
\* between the two.
THEOREM PricesRestOnAgreements == Spec => []PriceInv
  <1>1. IInv /\ PriceInv /\ [Next]_vars => PriceInv'
    BY PriceStep, StepKinds DEF IInv
  <1> QED
    BY <1>1, InitPrice, Invariant, PTL DEF Spec
=============================================================================
