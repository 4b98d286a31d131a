-------------------------- MODULE CompletionProofs --------------------------
(***************************************************************************)
(* Theorems about Completion and the Screens that show it, for every set   *)
(* of change requests, field issues, workers and media and every number of *)
(* versions, submissions and requests.  The agreement is carried over from *)
(* ScopeProofs: the composition implements Scope, so it keeps Scope's      *)
(* invariants.                                                             *)
(***************************************************************************)
EXTENDS Screens, ScopeProofs

-----------------------------------------------------------------------------
(* The composition implements the agreement *)

\* decide_completion_request writes what Scope calls CompleteOnRequest.
LEMMA ConfirmRequestCompletes ==
  ASSUME NEW q, ConfirmRequest(q)
  PROVE  CompleteOnRequest
  <1> DEFINE s == submission[request[q].of]
  <1>1. s.scope = head /\ head \in locked /\ job = "open"
    BY DEF ConfirmRequest, Decidable, CurrentLocked
  <1>2. \A r \in Approvers : confirmed[r] # 0 => confirmed[r] = head
    BY <1>1 DEF ConfirmRequest, Agrees
  <1>3. confirmed' = [r \in Approvers |-> IF confirmed[r] = 0 THEN head ELSE confirmed[r]]
    BY <1>1 DEF ConfirmRequest
  <1>4. confirmed' = [r \in Approvers |-> head]
    BY <1>2, <1>3
  <1> QED
    BY <1>1, <1>2, <1>4 DEF ConfirmRequest, CompleteOnRequest, IssuesResolved

LEMMA StepAgrees == [CompletionNext]_siteVars => [Next]_vars
  <1> SUFFICES ASSUME [CompletionNext]_siteVars PROVE [Next]_vars
    OBVIOUS
  <1>1. CASE Agreeing
    BY <1>1 DEF Agreeing, Next
  <1>2. CASE OnSite
    <2>1. ASSUME NEW isSet \in BOOLEAN, Reschedule(isSet) PROVE [Next]_vars
      BY <2>1 DEF Reschedule, Next, Versioning
    <2> QED
      BY <1>2, <2>1 DEF OnSite, Dispatching, NextDay, CreateDispatchSetup, CheckInFieldWorker,
                        ConfirmDispatch
  <1>3. CASE Handling
    BY <1>3 DEF Handling, UploadMedia, ValidateMedia, DeleteMedia
  <1>4. CASE Reviewing
    <2>1. ASSUME NEW q \in 1..Len(request), ConfirmRequest(q) PROVE [Next]_vars
      BY <2>1, ConfirmRequestCompletes DEF Next, Closing
    <2> QED
      BY <1>4, <2>1 DEF Reviewing, CreateCompletionRequest, SubmitCompletion, ExpireRequest,
                        RevokeCompletionRequest, ReportIssue
  <1>5. CASE Confirming
    BY <1>5 DEF Confirming, ConfirmDirectly, Next, Closing
  <1>6. CASE UNCHANGED siteVars
    BY <1>6 DEF siteVars
  <1> QED
    BY <1>1, <1>2, <1>3, <1>4, <1>5, <1>6 DEF CompletionNext

\* Dispatch, submissions, requests and media leave the agreement as Scope describes it.
THEOREM ImplementsAgreement == CompletionSpec => Agreement
  <1>1. CompletionInit => Init
    BY DEF CompletionInit
  <1> QED
    BY <1>1, StepAgrees, PTL DEF CompletionSpec, Agreement, Spec

\* The inductive invariant of Scope, and with it every property proved there.
THEOREM AgreementKept == CompletionSpec => []IInv
  BY ImplementsAgreement, Invariant, PTL DEF Agreement

-----------------------------------------------------------------------------
(* The inductive invariant of the rest *)

\* Records are of the dispatched scope, by the representative who leads and checked in.
SubmissionsDispatched ==
  \A k \in 1..Len(submission) :
    submission[k].scope = plan.scope /\ plan.scope # 0 /\ Rep \in checkedIn /\ plan.lead = Rep

CInv == /\ CompletionTypeOK
        /\ DispatchedForAgreed /\ SubmissionsDispatched
        /\ RequestsInOrder /\ DecisionIsTheOutcome /\ EvidenceAgreed

\* A request row changes its status and nothing else.
LEMMA StatusSet ==
  ASSUME request \in Seq(Request), NEW q \in 1..Len(request), NEW st \in {Live} \cup Answered \cup Lapsed,
         request' = [request EXCEPT ![q].status = st]
  PROVE  /\ request' \in Seq(Request) /\ Len(request') = Len(request)
         /\ \A p \in 1..Len(request) :
              /\ request'[p].of = request[p].of
              /\ request'[p].status = IF p = q THEN st ELSE request[p].status
  <1> DEFINE row == [request[q] EXCEPT !.status = st]
  <1>1. request[q] \in Request
    OBVIOUS
  <1>2. row \in Request /\ row.of = request[q].of /\ row.status = st
    BY <1>1 DEF Request
  <1>3. request' = [request EXCEPT ![q] = row]
    OBVIOUS
  <1> HIDE DEF row
  <1> QED
    BY <1>2, <1>3

\* The agreement moves on under the confirmations: agreed versions stay agreed, versions
\* are only added, and a job that is not open stays as it is.
LEMMA AgreeingMoves ==
  ASSUME IInv, Agreeing
  PROVE  /\ locked \subseteq locked' /\ head <= head' /\ confirmed' = confirmed
         /\ job' = job \/ (job = "open" /\ job' = "canceled")
  <1> DEFINE Grows == locked \subseteq locked' /\ (head' = head \/ head' = head + 1)
  <1>0. head \in Nat
    BY ScopeAssumption DEF IInv, TypeOK
  <1>1. Versioning => Grows /\ UNCHANGED closing
    <2>1. ImportAnalysisDraft => Grows /\ UNCHANGED closing
      BY DEF ImportAnalysisDraft, NewVersion
    <2>2. PatchMoveJob => Grows /\ UNCHANGED closing
      BY DEF PatchMoveJob, NewVersion
    <2>3. ASSUME NEW r \in Approvers, CreateScopeVersion(r)
          PROVE  Grows /\ UNCHANGED closing
      BY <2>3 DEF CreateScopeVersion, NewVersion
    <2>4. ASSUME NEW r \in Approvers, NEW v \in Versions, ApproveScopeVersion(v, r)
          PROVE  Grows /\ UNCHANGED closing
      BY <2>4 DEF ApproveScopeVersion, Approve
    <2> QED
      BY <2>1, <2>2, <2>3, <2>4 DEF Versioning
  <1>2. Quoting => Grows /\ UNCHANGED closing
    <2>1. ASSUME NEW v \in Versions, CreateScopeProposal(v)
          PROVE  Grows /\ UNCHANGED closing
      BY <2>1 DEF CreateScopeProposal, NewVersion
    <2>2. ASSUME NEW v \in Versions, ConfirmScopeProposal(v)
          PROVE  Grows /\ UNCHANGED closing
      BY <2>2 DEF ConfirmScopeProposal, Approve
    <2>3. ASSUME NEW v \in Versions, CheckScopeRevision(v)
          PROVE  Grows /\ UNCHANGED closing
      BY <2>3 DEF CheckScopeRevision, history
    <2>4. RequestScopeRevision => Grows /\ UNCHANGED closing
      BY DEF RequestScopeRevision, history
    <2> QED
      BY <2>1, <2>2, <2>3, <2>4 DEF Quoting
  <1>3. Changing => Grows /\ UNCHANGED closing
    <2>1. ASSUME NEW c \in Changes, ApproveChangeProposal(c)
          PROVE  Grows /\ UNCHANGED closing
      BY <2>1 DEF ApproveChangeProposal, Accepts, NewVersion
    <2>2. ASSUME NEW c \in Changes, NEW r \in Approvers, ApproveChange(c, r)
          PROVE  Grows /\ UNCHANGED closing
      BY <2>2 DEF ApproveChange, Accepts, NewVersion
    <2>3. ASSUME NEW i \in Issues, CreateFieldIssue(i) \/ \E c \in Changes : CreateChangeProposal(c, i)
          PROVE  Grows /\ UNCHANGED closing
      BY <2>3 DEF CreateFieldIssue, CreateChangeProposal, history
    <2>4. ASSUME NEW c \in Changes,
                 \/ CreateChangeRequest(c) \/ RequestChangeClarification(c) \/ ExplainChange(c)
                 \/ \E r \in Approvers : RejectChange(c, r)
          PROVE  Grows /\ UNCHANGED closing
      BY <2>4 DEF CreateChangeRequest, RequestChangeClarification, ExplainChange, RejectChange, history
    <2> QED
      BY <2>1, <2>2, <2>3, <2>4 DEF Changing
  <1>4. CancelMoveJob => Grows /\ confirmed' = confirmed /\ job = "open" /\ job' = "canceled"
    BY DEF CancelMoveJob, history
  <1> HIDE DEF Grows
  <1>6. UNCHANGED closing => confirmed' = confirmed /\ job' = job
    BY DEF closing
  <1>5. Grows /\ confirmed' = confirmed /\ (job' = job \/ (job = "open" /\ job' = "canceled"))
    BY <1>1, <1>2, <1>3, <1>4, <1>6 DEF Agreeing
  <1> QED
    BY <1>0, <1>5 DEF Grows

LEMMA InitCInv == CompletionInit => CInv
  <1> SUFFICES ASSUME CompletionInit PROVE CInv
    OBVIOUS
  <1>1. TypeOK /\ job = "open" /\ confirmed = [r \in Approvers |-> 0]
    BY InitIInv DEF CompletionInit, IInv, Init
  <1>2. DispatchTypeOK /\ DispatchedForAgreed
    <2>1. 0 \in 0..MaxVersions
      BY ScopeAssumption
    <2> QED
      BY <2>1, DispatchAssumption DEF CompletionInit, DispatchInit, DispatchTypeOK, Days,
                                      DispatchedForAgreed
  <1>3. /\ asset \in [Media -> {"none", "uploaded", "busy", "ready", "deleted"}]
        /\ evidence \in [Approvers -> SUBSET Media] /\ retained \subseteq Media
        /\ submission = << >> /\ request = << >>
        /\ EvidenceAgreed
    BY <1>1 DEF CompletionInit, EvidenceAgreed
  <1>4. CompletionTypeOK
    BY <1>1, <1>2, <1>3, CompletionAssumption DEF CompletionTypeOK
  <1>5. SubmissionsDispatched /\ RequestsInOrder /\ DecisionIsTheOutcome
    BY <1>3 DEF SubmissionsDispatched, RequestsInOrder, DecisionIsTheOutcome
  <1> QED
    BY <1>2, <1>3, <1>4, <1>5 DEF CInv

LEMMA AgreeingStep == ASSUME IInv, IInv', CInv, Agreeing PROVE CInv'
  <1>1. /\ locked \subseteq locked' /\ confirmed' = confirmed
        /\ job' = job \/ (job = "open" /\ job' = "canceled")
    BY AgreeingMoves
  <1>2. UNCHANGED <<site, paper, records>>
    BY DEF Agreeing
  <1> USE <1>1, <1>2 DEF CInv, site, paper, records
  <1>3. CompletionTypeOK'
    BY DEF CompletionTypeOK, DispatchTypeOK, IInv
  <1>4. DispatchedForAgreed'
    BY DEF DispatchedForAgreed
  <1>5. SubmissionsDispatched' /\ RequestsInOrder'
    BY DEF SubmissionsDispatched, RequestsInOrder
  <1>6. DecisionIsTheOutcome' /\ EvidenceAgreed'
    BY DEF DecisionIsTheOutcome, EvidenceAgreed
  <1> QED
    BY <1>3, <1>4, <1>5, <1>6

LEMMA OnSiteStep == ASSUME IInv, IInv', CInv, OnSite PROVE CInv'
  <1>1. UNCHANGED <<paper, records>>
    BY DEF OnSite
  <1>2. ASSUME NEW isSet \in BOOLEAN, Reschedule(isSet)
        PROVE  /\ UNCHANGED <<setup, day, plan, checkedIn, closing, locked>> /\ scheduled' = isSet
    BY <1>2 DEF Reschedule, PatchMoveJob, vars, history, closing
  <1>3. UNCHANGED <<closing, locked>>
    BY <1>2 DEF OnSite, Dispatching, NextDay, CreateDispatchSetup, CheckInFieldWorker,
                ConfirmDispatch, vars, history
  <1> DEFINE Moves ==
        /\ setup' = setup \/ (setup = 0 /\ setup' = head /\ head \in locked)
        /\ \/ plan' = plan
           \/ /\ plan.scope = 0 /\ setup # 0 /\ setup' = setup
              /\ \E lead \in Workers : plan' = [scope |-> setup, lead |-> lead]
        /\ \/ checkedIn' = checkedIn
           \/ checkedIn' = checkedIn \cup {Rep} /\ plan.scope # 0 /\ plan' = plan
  <1>4. Moves
    <2>1. NextDay => Moves
      BY DEF NextDay
    <2>2. CreateDispatchSetup => Moves
      BY DEF CreateDispatchSetup, CurrentLocked
    <2>3. CheckInFieldWorker => Moves
      BY DEF CheckInFieldWorker
    <2>4. ASSUME NEW lead \in Workers, ConfirmDispatch(lead) PROVE Moves
      BY <2>4 DEF ConfirmDispatch, CurrentLocked
    <2>5. ASSUME NEW isSet \in BOOLEAN, Reschedule(isSet) PROVE Moves
      BY <2>5, <1>2
    <2> HIDE DEF Moves
    <2> QED
      BY <2>1, <2>2, <2>3, <2>4, <2>5 DEF OnSite, Dispatching
  <1>10. (scheduled' = scheduled \/ scheduled' \in BOOLEAN) /\ (day' = day \/ day' \in Days)
    BY <1>2 DEF OnSite, Dispatching, Days, NextDay, CreateDispatchSetup, CheckInFieldWorker,
                ConfirmDispatch
  <1> USE <1>1, <1>3, <1>4, DispatchAssumption DEF CInv, paper, records, closing
  <1>5. CompletionTypeOK'
    BY <1>10 DEF CompletionTypeOK, DispatchTypeOK, IInv, TypeOK
  <1>6. DispatchedForAgreed'
    BY DEF DispatchedForAgreed, CompletionTypeOK, TypeOK
  <1>7. SubmissionsDispatched' /\ RequestsInOrder'
    BY DEF SubmissionsDispatched, RequestsInOrder
  <1>8. DecisionIsTheOutcome'
    <2>1. \A q \in 1..Len(request) : request[q].status = "confirmed" =>
            plan.scope # 0 /\ setup # 0
      BY DEF DecisionIsTheOutcome, SubmissionsDispatched, RequestsInOrder, CompletionTypeOK, Request,
             DispatchedForAgreed
    <2> QED
      BY <2>1 DEF DecisionIsTheOutcome
  <1>9. EvidenceAgreed'
    BY DEF EvidenceAgreed
  <1> QED
    BY <1>5, <1>6, <1>7, <1>8, <1>9

LEMMA HandlingStep == ASSUME IInv, IInv', CInv, Handling PROVE CInv'
  <1>1. PICK m \in Media : UploadMedia(m) \/ ValidateMedia(m) \/ DeleteMedia(m)
    BY DEF Handling
  <1>2. UNCHANGED <<vars, site, paper, evidence, retained>>
    BY <1>1 DEF UploadMedia, ValidateMedia, DeleteMedia
  <1>3. UNCHANGED <<job, confirmed, locked>>
    BY <1>2 DEF vars, history, closing
  <1>4. \E st \in {"uploaded", "busy", "ready", "deleted"} :
          asset' = [asset EXCEPT ![m] = st] /\ (st = "deleted" => m \in retained)
    BY <1>1 DEF UploadMedia, ValidateMedia, DeleteMedia
  <1> USE <1>2, <1>3, <1>4 DEF CInv, site, paper
  <1>5. CompletionTypeOK'
    BY DEF CompletionTypeOK, DispatchTypeOK, IInv
  <1>6. DispatchedForAgreed' /\ SubmissionsDispatched' /\ RequestsInOrder'
    BY DEF DispatchedForAgreed, SubmissionsDispatched, RequestsInOrder
  <1>7. DecisionIsTheOutcome' /\ EvidenceAgreed'
    BY DEF DecisionIsTheOutcome, EvidenceAgreed, CompletionTypeOK
  <1> QED
    BY <1>5, <1>6, <1>7

\* What the steps of the requests leave alone.
LEMMA SiteStands ==
  ASSUME CInv, IInv', UNCHANGED <<site, asset>>, locked' = locked
  PROVE  TypeOK' /\ DispatchTypeOK' /\ DispatchedForAgreed'
  BY DEF CInv, IInv, CompletionTypeOK, DispatchTypeOK, DispatchedForAgreed, site

LEMMA SubmitStep ==
  ASSUME IInv, IInv', CInv, NEW E \in SUBSET Media, SubmitCompletion(E)
  PROVE  CInv'
  <1> DEFINE n == Len(submission)
             s == [scope |-> plan.scope, evidence |-> E]
  <1>1. /\ n < MaxSubmissions /\ job = "open" /\ LatestEnded
        /\ plan.scope # 0 /\ CurrentLocked(plan.scope) /\ Rep \in checkedIn /\ plan.lead = Rep
        /\ submission' = Append(submission, s)
        /\ UNCHANGED <<vars, site, request, records>>
    BY DEF SubmitCompletion
  <1>2. UNCHANGED <<job, confirmed, locked>> /\ UNCHANGED <<asset, evidence, retained>>
    BY <1>1 DEF vars, history, closing, records
  <1>3. submission \in Seq(Submission) /\ n \in Nat /\ request \in Seq(Request)
    BY DEF CInv, CompletionTypeOK
  <1>4. s \in Submission
    BY <1>1 DEF CInv, CompletionTypeOK, DispatchTypeOK, Submission, Versions
  <1>5. /\ submission' \in Seq(Submission) /\ Len(submission') = n + 1
        /\ submission'[n + 1] = s /\ \A k \in 1..n : submission'[k] = submission[k]
    BY <1>1, <1>3, <1>4
  <1>6. UNCHANGED <<scheduled, setup, day, plan, checkedIn, request>>
    BY <1>1 DEF site
  <1> HIDE DEF s
  <1>7. CompletionTypeOK'
    BY <1>1, <1>2, <1>3, <1>5, <1>6, SiteStands, CompletionAssumption DEF CInv, CompletionTypeOK
  <1>8. SubmissionsDispatched'
    BY <1>1, <1>3, <1>5, <1>6 DEF CInv, SubmissionsDispatched, s
  <1>9. RequestsInOrder'
    <2>1. \A q \in 1..Len(request) : request[q].of \in 1..MaxSubmissions
      <3>1. \A q \in 1..Len(request) : request[q] \in Request
        BY <1>3
      <3> QED
        BY <3>1 DEF Request
    <2>2. \A q \in 1..Len(request) :
            request[q].of <= n /\ request[q].status \notin {Live, "confirmed"}
      BY <1>1, <1>3, <2>1 DEF CInv, RequestsInOrder, LatestEnded, LatestRequest, Live
    <2>3. \A k \in 1..n : \E q \in 1..Len(request) : request[q].of = k
      <3>1. n # 0 => request[Len(request)].of = n /\ Len(request) \in 1..Len(request)
        BY <1>1, <1>3 DEF LatestEnded, LatestRequest
      <3>2. \A k \in 1..n - 1 : \E q \in 1..Len(request) : request[q].of = k
        BY DEF CInv, RequestsInOrder
      <3> TAKE k \in 1..n
      <3>3. CASE k = n
        <4>1. n # 0
          BY <3>3, <1>3
        <4> QED
          BY <3>1, <3>3, <4>1
      <3>4. CASE k # n
        <4>1. k \in 1..n - 1
          BY <3>4, <1>3
        <4> QED
          BY <3>2, <4>1
      <3> QED
        BY <3>3, <3>4
    <2> QED
      BY <1>3, <1>5, <1>6, <2>1, <2>2, <2>3 DEF CInv, RequestsInOrder
  <1>10. DecisionIsTheOutcome'
    <2>1. \A q \in 1..Len(request) : request[q].status # "confirmed"
      BY <1>1 DEF CInv, DecisionIsTheOutcome
    <2> QED
      BY <1>6, <2>1 DEF DecisionIsTheOutcome
  <1>11. EvidenceAgreed'
    BY <1>2 DEF CInv, EvidenceAgreed
  <1> QED
    BY <1>1, <1>2, <1>7, <1>8, <1>9, <1>10, <1>11, SiteStands DEF CInv

\* The status of the live request moves on without a decision for the work.
LEMMA StatusStep ==
  ASSUME IInv, IInv', CInv, NEW q \in 1..Len(request), NEW st \in Lapsed \cup {"issue_reported"},
         request[q].status = Live, request' = [request EXCEPT ![q].status = st],
         UNCHANGED <<vars, site, submission, records>>
  PROVE  CInv'
  <1>1. UNCHANGED <<job, confirmed, locked>> /\ UNCHANGED <<asset, evidence, retained>>
    BY DEF vars, history, closing, records
  <1>2. UNCHANGED <<scheduled, setup, day, plan, checkedIn>>
    BY DEF site
  <1>3. request \in Seq(Request) /\ st \in {Live} \cup Answered \cup Lapsed
    BY DEF CInv, CompletionTypeOK, Answered
  <1>4. /\ request' \in Seq(Request) /\ Len(request') = Len(request)
        /\ \A p \in 1..Len(request) : /\ request'[p].of = request[p].of
                                      /\ request'[p].status = IF p = q THEN st ELSE request[p].status
    BY <1>3, StatusSet
  <1>5. st \notin {Live, "confirmed"} /\ Live # "confirmed"
    BY DEF Lapsed, Live
  <1>6. CompletionTypeOK'
    BY <1>1, <1>2, <1>4, SiteStands DEF CInv, CompletionTypeOK
  <1>7. SubmissionsDispatched'
    BY <1>2 DEF CInv, SubmissionsDispatched
  <1>8. RequestsInOrder'
    <2>1. q = Len(request)
      BY DEF CInv, RequestsInOrder
    <2> QED
      BY <1>3, <1>4, <1>5, <2>1 DEF CInv, RequestsInOrder
  <1>9. DecisionIsTheOutcome' /\ EvidenceAgreed'
    BY <1>1, <1>2, <1>4, <1>5 DEF CInv, DecisionIsTheOutcome, EvidenceAgreed
  <1> QED
    BY <1>1, <1>6, <1>7, <1>8, <1>9, SiteStands DEF CInv

LEMMA CreateRequestStep ==
  ASSUME IInv, IInv', CInv, CreateCompletionRequest
  PROVE  CInv'
  <1> DEFINE n == Len(submission)
             k == Len(request)
             row == [of |-> n, status |-> Live]
  <1>1. /\ k < MaxRequests /\ job = "open" /\ submission # << >> /\ Requestable
        /\ request' = Append(request, row)
        /\ UNCHANGED <<vars, site, submission, records>>
    BY DEF CreateCompletionRequest
  <1>2. UNCHANGED <<job, confirmed, locked>> /\ UNCHANGED <<asset, evidence, retained>>
    BY <1>1 DEF vars, history, closing, records
  <1>3. UNCHANGED <<scheduled, setup, day, plan, checkedIn>>
    BY <1>1 DEF site
  <1>4. /\ submission \in Seq(Submission) /\ n \in 1..MaxSubmissions
        /\ request \in Seq(Request) /\ k \in Nat
    BY <1>1, CompletionAssumption DEF CInv, CompletionTypeOK
  <1>5. row \in Request
    BY <1>4 DEF Request
  <1>6. /\ request' \in Seq(Request) /\ Len(request') = k + 1
        /\ request'[k + 1] = row /\ \A p \in 1..k : request'[p] = request[p]
    BY <1>1, <1>4, <1>5
  <1>7. row.of = n /\ row.status = Live /\ Live # "confirmed"
    BY DEF Live
  <1> HIDE DEF row
  <1>8. CompletionTypeOK'
    BY <1>1, <1>2, <1>3, <1>4, <1>6, SiteStands, CompletionAssumption DEF CInv, CompletionTypeOK
  <1>9. SubmissionsDispatched'
    BY <1>1, <1>3 DEF CInv, SubmissionsDispatched
  <1>10. RequestsInOrder'
    <2>1. \A q \in 1..k : request[q].of \in 1..MaxSubmissions /\ request[q] \in Request
      <3>1. \A q \in 1..k : request[q] \in Request
        BY <1>4
      <3> QED
        BY <3>1 DEF Request
    <2>2. k # 0 => /\ request[k].status \notin {Live, "confirmed"}
                   /\ request[k].of = n => request[k].status \in Lapsed
      <3>1. k # 0 => request[k].status \in {Live} \cup Answered \cup Lapsed
        BY <1>4, <2>1 DEF Request
      <3> QED
        BY <1>1, <1>4, <3>1 DEF Requestable, LatestRequest, Answered
    <2>3. \A q \in 1..k : request[q].of <= n /\ request[q].status \notin {Live, "confirmed"}
      BY <1>4, <2>2 DEF CInv, RequestsInOrder
    <2>4. \A p \in 1..k : request[p].of = n => request[p].status \in Lapsed
      <3>1. \A p \in 1..k : p = k \/ p \in 1..k - 1
        BY <1>4
      <3>2. \A p \in 1..k - 1 : request[p].of = n => request[p].status \in Lapsed
        <4>1. ASSUME NEW p \in 1..k - 1, request[p].of = n PROVE request[p].status \in Lapsed
          <5>1. k \in 1..k /\ p \in 1..k
            BY <1>4
          <5>2. request[p].of <= request[k].of
            BY <5>1 DEF CInv, RequestsInOrder
          <5>3. request[k].of = n
            BY <1>4, <2>1, <2>3, <4>1, <5>1, <5>2
          <5> QED
            BY <4>1, <5>1, <5>3 DEF CInv, RequestsInOrder
        <4> QED
          BY <4>1
      <3> QED
        BY <2>2, <3>1, <3>2, <1>4
    <2> QED
      BY <1>1, <1>4, <1>6, <1>7, <2>3, <2>4 DEF CInv, RequestsInOrder
  <1>11. DecisionIsTheOutcome'
    <2>1. \A q \in 1..k : request[q].status # "confirmed"
      BY <1>1 DEF CInv, DecisionIsTheOutcome
    <2> QED
      BY <1>4, <1>6, <1>7, <2>1 DEF DecisionIsTheOutcome
  <1>12. EvidenceAgreed'
    BY <1>2 DEF CInv, EvidenceAgreed
  <1> QED
    BY <1>1, <1>2, <1>8, <1>9, <1>10, <1>11, <1>12, SiteStands DEF CInv

LEMMA ConfirmRequestStep ==
  ASSUME IInv, IInv', CInv, NEW q \in 1..Len(request), ConfirmRequest(q)
  PROVE  CInv'
  <1> DEFINE s == submission[request[q].of]
  <1>1. /\ job = "open" /\ q = Len(request) /\ request[q].status = Live
        /\ request[q].of = Len(submission) /\ CurrentLocked(s.scope)
        /\ \A r \in Approvers : Agrees(r, s)
        /\ confirmed' = [r \in Approvers |-> IF confirmed[r] = 0 THEN s.scope ELSE confirmed[r]]
        /\ evidence' = [r \in Approvers |-> IF confirmed[r] = 0 THEN s.evidence ELSE evidence[r]]
        /\ retained' = retained \cup s.evidence
        /\ job' = "completed" /\ request' = [request EXCEPT ![q].status = "confirmed"]
        /\ UNCHANGED <<history, site, submission, asset>>
    BY DEF ConfirmRequest, Decidable
  <1>2. UNCHANGED <<locked, scheduled, setup, day, plan, checkedIn, submission, asset>>
    BY <1>1 DEF history, site
  <1>3. request \in Seq(Request) /\ submission \in Seq(Submission)
    BY DEF CInv, CompletionTypeOK
  <1>4. /\ request' \in Seq(Request) /\ Len(request') = Len(request)
        /\ \A p \in 1..Len(request) :
             /\ request'[p].of = request[p].of
             /\ request'[p].status = IF p = q THEN "confirmed" ELSE request[p].status
    <2>1. "confirmed" \in {Live} \cup Answered \cup Lapsed
      BY DEF Answered
    <2> QED
      BY <1>1, <1>3, <2>1, StatusSet
  <1>5. request[q].of \in 1..Len(submission) /\ s \in Submission
    <2>1. request[q] \in Request
      BY <1>3
    <2> QED
      BY <1>1, <1>3, <2>1, CompletionAssumption DEF Request
  <1>6. s.scope \in Versions /\ s.evidence \subseteq Media
    BY <1>5 DEF Submission
  <1>7. /\ \A r \in Approvers : confirmed'[r] = s.scope /\ evidence'[r] = s.evidence
        /\ evidence' \in [Approvers -> SUBSET Media]
    BY <1>1, <1>6 DEF Agrees, CInv, CompletionTypeOK
  <1>8. retained' = s.evidence
    <2>1. "customer" \in Approvers
      BY DEF Approvers
    <2> QED
      BY <1>1, <2>1 DEF CInv, EvidenceAgreed
  <1>9. s.scope = plan.scope /\ s.scope = setup /\ Rep \in checkedIn /\ plan.lead = Rep
    BY <1>5 DEF CInv, SubmissionsDispatched, DispatchedForAgreed
  <1> HIDE DEF s
  <1>10. CompletionTypeOK'
    BY <1>2, <1>3, <1>4, <1>6, <1>7, <1>8, SiteStands DEF CInv, CompletionTypeOK, site
  <1>11. SubmissionsDispatched'
    BY <1>2 DEF CInv, SubmissionsDispatched
  <1>12. RequestsInOrder'
    BY <1>1, <1>2, <1>3, <1>4 DEF CInv, RequestsInOrder, Live
  <1>13. DecisionIsTheOutcome'
    <2>1. \A p \in 1..Len(request) : request[p].status # "confirmed"
      BY <1>1 DEF CInv, DecisionIsTheOutcome
    <2>2. submission'[request'[q].of] = s
      BY <1>2, <1>4 DEF s
    <2>3. \A p \in 1..Len(request') : request'[p].status = "confirmed" => p = q
      BY <1>4, <2>1
    <2> QED
      BY <1>1, <1>2, <1>7, <1>9, <2>2, <2>3 DEF DecisionIsTheOutcome
  <1>14. EvidenceAgreed'
    BY <1>1, <1>2, <1>7, <1>8 DEF CInv, EvidenceAgreed
  <1> QED
    BY <1>1, <1>2, <1>10, <1>11, <1>12, <1>13, <1>14, SiteStands DEF CInv

LEMMA ConfirmDirectlyStep ==
  ASSUME IInv, IInv', CInv, NEW r \in Approvers, NEW E \in SUBSET Media, ConfirmDirectly(r, E)
  PROVE  CInv'
  <1>1. /\ job = "open" /\ confirmed[r] = 0 /\ head \in locked
        /\ confirmed' = [confirmed EXCEPT ![r] = head]
        /\ job' = IF \E s \in Approvers : confirmed[s] # 0 THEN "completed" ELSE job
        /\ \A s \in Approvers : confirmed[s] # 0 => evidence[s] = E
        /\ evidence' = [evidence EXCEPT ![r] = E]
        /\ retained' = IF job' = "completed" THEN retained \cup E ELSE retained
    BY DEF ConfirmDirectly, ConfirmCompletion
  <1>2. /\ UNCHANGED <<locked, scheduled, setup, day, plan, checkedIn, submission, request, asset>>
        /\ UNCHANGED site
    BY DEF ConfirmDirectly, ConfirmCompletion, history, site, paper
  <1>3. /\ confirmed \in [Approvers -> 0..MaxVersions] /\ locked \subseteq Versions
        /\ evidence \in [Approvers -> SUBSET Media] /\ retained \subseteq Media
    BY DEF IInv, TypeOK, CInv, CompletionTypeOK
  <1>4. retained = {}
    BY <1>1 DEF CInv, EvidenceAgreed
  <1>5. CompletionTypeOK'
    BY <1>1, <1>2, <1>3, SiteStands DEF CInv, CompletionTypeOK
  <1>6. SubmissionsDispatched' /\ RequestsInOrder'
    BY <1>2 DEF CInv, SubmissionsDispatched, RequestsInOrder
  <1>7. DecisionIsTheOutcome'
    BY <1>1, <1>2 DEF CInv, DecisionIsTheOutcome
  <1>8. EvidenceAgreed'
    <2>1. \A s \in Approvers : confirmed'[s] # 0 => evidence'[s] = E
      BY <1>1, <1>3
    <2>2. ASSUME job' = "completed" PROVE \A s \in Approvers : evidence'[s] = E
      <3>1. PICK s \in Approvers : confirmed[s] # 0
        BY <1>1, <2>2
      <3>2. \A t \in Approvers : t = r \/ t = s
        BY <1>1, <3>1 DEF Approvers
      <3> QED
        BY <1>1, <1>3, <3>1, <3>2
    <2>3. retained' = IF job' = "completed" THEN E ELSE {}
      BY <1>1, <1>4
    <2> QED
      BY <1>2, <1>4, <2>1, <2>2, <2>3 DEF CInv, EvidenceAgreed
  <1> QED
    BY <1>1, <1>2, <1>5, <1>6, <1>7, <1>8, SiteStands DEF CInv

LEMMA StepCInv == IInv /\ IInv' /\ CInv /\ [CompletionNext]_siteVars => CInv'
  <1> SUFFICES ASSUME IInv, IInv', CInv, [CompletionNext]_siteVars PROVE CInv'
    OBVIOUS
  <1>1. CASE Reviewing
    <2>1. ASSUME NEW q \in 1..Len(request), NEW st \in Lapsed \cup {"issue_reported"},
                 request[q].status = Live, request' = [request EXCEPT ![q].status = st],
                 UNCHANGED <<vars, site, submission, records>>
          PROVE  CInv'
      BY <2>1, StatusStep
    <2>2. ASSUME NEW q \in 1..Len(request), ExpireRequest(q) \/ RevokeCompletionRequest(q) \/ ReportIssue(q)
          PROVE  CInv'
      <3>1. {"expired", "revoked", "issue_reported"} \subseteq Lapsed \cup {"issue_reported"}
        BY DEF Lapsed
      <3>2. ExpireRequest(q) => CInv'
        BY <2>1, <3>1 DEF ExpireRequest
      <3>3. RevokeCompletionRequest(q) => CInv'
        BY <2>1, <3>1 DEF RevokeCompletionRequest
      <3>4. ReportIssue(q) => CInv'
        BY <2>1, <3>1 DEF ReportIssue, Decidable
      <3> QED
        BY <2>2, <3>2, <3>3, <3>4
    <2> QED
      BY <1>1, <2>2, CreateRequestStep, SubmitStep, ConfirmRequestStep DEF Reviewing
  <1>2. CASE Confirming
    BY <1>2, ConfirmDirectlyStep DEF Confirming
  <1>3. CASE UNCHANGED siteVars
    <2>1. /\ UNCHANGED <<vars, site, paper, records>>
          /\ UNCHANGED <<job, confirmed, locked, asset, evidence, retained, submission, request>>
          /\ UNCHANGED <<scheduled, setup, day, plan, checkedIn>>
      BY <1>3 DEF siteVars, vars, history, closing, records, paper, site
    <2>2. TypeOK' /\ DispatchTypeOK' /\ DispatchedForAgreed'
      BY <2>1, SiteStands
    <2> QED
      BY <2>1, <2>2
         DEF CInv, CompletionTypeOK, SubmissionsDispatched, RequestsInOrder, DecisionIsTheOutcome,
             EvidenceAgreed
  <1> QED
    BY <1>1, <1>2, <1>3, AgreeingStep, OnSiteStep, HandlingStep DEF CompletionNext

\* The invariants of the dispatch and of the completion, on top of Scope's.
THEOREM CompletionInvariant == CompletionSpec => [](IInv /\ CInv)
  <1>1. CompletionInit => CInv
    BY InitCInv
  <1> QED
    BY <1>1, AgreementKept, StepCInv, PTL DEF CompletionSpec

-----------------------------------------------------------------------------
(* The theorems *)

\* Every variable of the composition keeps its shape: a request belongs to a record of
\* the job, the crew to a version of it.
THEOREM CompletionTypeCorrect == CompletionSpec => []CompletionTypeOK
  BY CompletionInvariant, PTL DEF CInv

\* create_completion_request, submit_completion, decide_completion_request: one live
\* request, of the latest record; a record that was replaced was asked about and refused
\* or left unanswered.
THEOREM OneLiveRequest == CompletionSpec => []RequestsInOrder
  BY CompletionInvariant, PTL DEF CInv

\* decide_completion_request: the confirmed request is the outcome of the job, about the
\* record, the scope and the crew it was shown for.
THEOREM DecisionStands == CompletionSpec => []DecisionIsTheOutcome
  BY CompletionInvariant, PTL DEF CInv

\* confirm_completion and decide_completion_request agree on the evidence and on what is
\* deleted, whichever of them wrote which row.
THEOREM BothPathsAgree == CompletionSpec => []EvidenceAgreed
  BY CompletionInvariant, PTL DEF CInv

\* create_dispatch_setup, confirm_dispatch, check_in_field_worker: a crew is sent out for
\* one agreed scope only.
THEOREM SentOutForAgreed == CompletionSpec => []DispatchedForAgreed
  BY CompletionInvariant, PTL DEF CInv

\* The dispatch is written once, and the head moves on under it.
LEMMA DispatchMoves ==
  ASSUME IInv, IInv', CInv, [CompletionNext]_siteVars
  PROVE  /\ locked \subseteq locked' /\ head <= head'
         /\ \/ setup' = setup
            \/ setup = 0 /\ CurrentLocked(setup)' /\ plan' = plan
         /\ \/ plan' = plan
            \/ plan.scope = 0 /\ plan'.scope # 0 /\ CurrentLocked(setup) /\ UNCHANGED <<setup, head, locked>>
  <1>0. head \in Nat
    BY ScopeAssumption DEF IInv, TypeOK
  <1>1. CASE Agreeing
    BY <1>1, AgreeingMoves DEF Agreeing, site
  <1>2. CASE OnSite
    <2>1. PatchMoveJob => locked' = locked /\ head' = head + 1
      BY DEF PatchMoveJob, NewVersion
    <2>2. NextDay \/ CheckInFieldWorker => UNCHANGED <<locked, head, setup, plan>>
      BY DEF NextDay, CheckInFieldWorker, vars, history
    <2>3. CreateDispatchSetup =>
            UNCHANGED <<locked, head, plan>> /\ setup = 0 /\ setup' = head /\ CurrentLocked(head)
      BY DEF CreateDispatchSetup, vars, history
    <2>4. ASSUME NEW lead \in Workers, ConfirmDispatch(lead)
          PROVE  /\ UNCHANGED <<locked, head, setup>> /\ plan.scope = 0 /\ plan'.scope = setup
                 /\ CurrentLocked(setup)
      BY <2>4 DEF ConfirmDispatch, vars, history
    <2>5. ASSUME NEW isSet \in BOOLEAN, Reschedule(isSet)
          PROVE  /\ UNCHANGED <<setup, plan>> /\ locked' = locked
                 /\ head' = head \/ head' = head + 1
      BY <2>1, <2>5 DEF Reschedule, vars, history
    <2> QED
      BY <1>0, <1>2, <2>2, <2>3, <2>4, <2>5 DEF OnSite, Dispatching, CurrentLocked
  <1>3. CASE Handling \/ UNCHANGED siteVars
    BY <1>0, <1>3 DEF Handling, UploadMedia, ValidateMedia, DeleteMedia, siteVars, site, vars, history
  <1>4. CASE Reviewing
    <2>1. ASSUME NEW q \in 1..Len(request), ConfirmRequest(q)
          PROVE  UNCHANGED <<history, site>>
      BY <2>1 DEF ConfirmRequest
    <2>2. UNCHANGED <<history, site>>
      BY <1>4, <2>1 DEF Reviewing, CreateCompletionRequest, SubmitCompletion, ExpireRequest,
                        RevokeCompletionRequest, ReportIssue, vars
    <2> QED
      BY <1>0, <2>2 DEF history, site
  <1>5. CASE Confirming
    BY <1>0, <1>5 DEF Confirming, ConfirmDirectly, ConfirmCompletion, site, history
  <1> QED
    BY <1>1, <1>2, <1>3, <1>4, <1>5 DEF CompletionNext

\* An outdated dispatch is never shown as current again: the scope it was made for has a
\* successor, which no operation takes away.
THEOREM StaleStaysStale == CompletionSpec => DispatchNeverRevives
  <1> DEFINE Moves ==
        DispatchStatus' # DispatchStatus =>
          \/ DispatchStatus = "setup_required" /\ DispatchStatus' = "ready"
          \/ DispatchStatus = "ready" /\ DispatchStatus' \in {"confirmed", "stale"}
          \/ DispatchStatus = "confirmed" /\ DispatchStatus' = "stale"
  <1>1. ASSUME IInv, IInv', CInv, [CompletionNext]_siteVars PROVE Moves
    <2>1. setup # 0 => setup \in locked /\ setup <= head
      <3>1. setup # 0 => setup \in locked
        BY <1>1 DEF CInv, DispatchedForAgreed
      <3>2. \A v \in locked : v \in Versions /\ approvals[v] = Approvers
        BY <1>1 DEF IInv, TypeOK, LockedByBoth
      <3>3. \A v \in Versions : approvals[v] = Approvers => v <= head
        <4>1. \A v \in Versions : v > head => approvals[v] = {}
          BY <1>1 DEF IInv, FutureBlank
        <4>2. head \in Nat /\ \A v \in Versions : v \in Nat
          BY <1>1, ScopeAssumption DEF IInv, TypeOK, Versions
        <4>3. Approvers # {}
          BY DEF Approvers
        <4> QED
          BY <4>1, <4>2, <4>3
      <3> QED
        BY <3>1, <3>2, <3>3
    <2>2. head \in Nat /\ head' \in Nat /\ setup \in Nat
      BY <1>1, ScopeAssumption DEF IInv, TypeOK, CInv, CompletionTypeOK, DispatchTypeOK
    <2>3. plan.scope # 0 => plan.scope = setup
      BY <1>1 DEF CInv, DispatchedForAgreed
    <2> QED
      BY <1>1, <2>1, <2>2, <2>3, DispatchMoves DEF DispatchStatus, CurrentLocked
  <1>2. IInv /\ IInv' /\ CInv /\ [CompletionNext]_siteVars => [Moves]_<<vars, site>>
    BY <1>1
  <1> QED
    BY <1>2, CompletionInvariant, PTL DEF CompletionSpec, DispatchNeverRevives

-----------------------------------------------------------------------------
(* The screens *)

\* One price for each version, and an agreement behind it.
THEOREM PricesKept == CompletionSpec => []PriceInv
  BY ImplementsAgreement, PricesRestOnAgreements, PTL DEF Agreement

LEMMA MaxIs ==
  ASSUME NEW S \in SUBSET Int, NEW m \in S, \A x \in S : x <= m
  PROVE  Max(S) = m
  <1>1. \A x \in S : m >= x
    OBVIOUS
  <1>2. \A x \in S : (\A y \in S : x >= y) => x = m
    OBVIOUS
  <1> QED
    BY <1>1, <1>2 DEF Max

LEMMA VersionFacts ==
  ASSUME IInv
  PROVE  /\ head \in Nat /\ Versions \subseteq Nat \ {0}
         /\ \A v \in 1..head : v \in Versions
         /\ \A v \in locked : v \in Versions /\ v <= head
  <1>1. head \in 0..MaxVersions /\ locked \subseteq Versions /\ MaxVersions \in Nat
    BY ScopeAssumption DEF IInv, TypeOK
  <1>2. ASSUME NEW v \in locked, v > head PROVE FALSE
    <2>1. approvals[v] = {} /\ approvals[v] = Approvers
      BY <1>1, <1>2 DEF IInv, FutureBlank, LockedByBoth
    <2> QED
      BY <2>1 DEF Approvers
  <1> QED
    BY <1>1, <1>2 DEF Versions

\* The price of a version and the proposal the works are listed of.
LEMMA AgreementIs ==
  ASSUME IInv, PriceInv, NEW v \in 1..head
  PROVE  /\ proposal[v] # "none" => PricedBy(v) = {} /\ AgreementOf(v) = v
         /\ PricedBy(v) # {} =>
              /\ proposal[v] = "none"
              /\ AgreementOf(v) \in 1..v /\ proposal[AgreementOf(v)] = "confirmed"
              /\ v = head => LastConfirmed = AgreementOf(v)
  <1>1. head \in Nat /\ v \in Versions /\ v \in Nat /\ v <= head
    BY VersionFacts
  <1>2. ASSUME proposal[v] # "none" PROVE PricedBy(v) = {} /\ AgreementOf(v) = v
    <2>1. ResultOf(v) = {}
      BY <1>1, <1>2 DEF PriceInv, OnePrice
    <2>2. Max({0} \cup {u \in 1..v : proposal[u] # "none"}) = v
      <3> DEFINE S == {0} \cup {u \in 1..v : proposal[u] # "none"}
      <3>1. S \in SUBSET Int /\ v \in S /\ \A x \in S : x <= v
        BY <1>1, <1>2
      <3> HIDE DEF S
      <3>2. Max(S) = v
        BY <3>1, MaxIs
      <3> QED
        BY <3>2 DEF S
    <2> QED
      BY <2>1, <2>2 DEF PricedBy, AgreementOf
  <1>3. ASSUME PricedBy(v) # {}
        PROVE  /\ proposal[v] = "none"
               /\ AgreementOf(v) \in 1..v /\ proposal[AgreementOf(v)] = "confirmed"
               /\ v = head => LastConfirmed = AgreementOf(v)
    <2>1. proposal[v] = "none"
      BY <1>2, <1>3
    <2>2. AgreementBehind(v)
      BY <1>1, <1>3 DEF PricedBy, HasAmount, PriceInv, PricesRest
    <2>3. PICK u \in 1..v : proposal[u] = "confirmed" /\ \A w \in (u + 1)..v : proposal[w] = "none"
      BY <2>2 DEF AgreementBehind
    <2> DEFINE S == {0} \cup {w \in 1..v : proposal[w] # "none"}
               T == {0} \cup {w \in 1..v : proposal[w] = "confirmed"}
    <2>4. S \in SUBSET Int /\ u \in S /\ \A x \in S : x <= u
      BY <1>1, <2>3
    <2>5. T \in SUBSET Int /\ u \in T /\ \A x \in T : x <= u
      BY <1>1, <2>3
    <2>6. AgreementOf(v) = Max(S) /\ (v = head => LastConfirmed = Max(T))
      BY DEF AgreementOf, LastConfirmed
    <2> HIDE DEF S, T
    <2>7. Max(S) = u /\ Max(T) = u
      BY <2>4, <2>5, MaxIs
    <2> QED
      BY <2>1, <2>3, <2>6, <2>7
  <1> QED
    BY <1>2, <1>3

LEMMA QuotesDiffer ==
  /\ NoQuote # Refused
  /\ \A v : QuoteOfProposal(v) \notin {NoQuote, Refused} /\ ChangeQuote(v) \notin {NoQuote, Refused}
  BY DEF NoQuote, Refused, QuoteOfProposal, ChangeQuote, QuoteOfChange

LEMMA InvariantShows == IInv /\ PriceInv /\ CInv => ScreensAgree
  <1> SUFFICES ASSUME IInv, PriceInv, CInv PROVE ScreensAgree
    OBVIOUS
  <1>1. ASSUME NEW v \in 1..head
        PROVE  (proposal[v] # "none" => PricedBy(v) = {}) /\ SummaryQuote(v) \in {NoQuote, PriceOf(v)}
    BY AgreementIs DEF SummaryQuote, PriceOf
  <1>2. ASSUME head # 0
        PROVE  /\ Review.status # "refused"
               /\ Review.quote # NoQuote => ListedStatus = Review.status /\ ListedQuote = Review.quote
    <2>1. head \in 1..head /\ head \in Versions
      BY <1>2, VersionFacts
    <2>2. proposal[head] \notin {"superseded", "refused"}
      BY <2>1, VersionFacts DEF IInv, TypeOK, QuotesAccountedFor
    <2>3. Review.status = ReviewStatus /\ Review.quote = PriceOf(head)
      BY DEF Review
    <2>4. CASE PricedBy(head) # {}
      <3>1. AgreementOf(head) # 0 /\ proposal[AgreementOf(head)] = "confirmed"
        BY <2>1, <2>4, VersionFacts, AgreementIs
      <3>2. ReviewStatus = "confirmed" /\ ListedStatus = "confirmed"
        BY <2>4, <3>1 DEF ReviewStatus, ListedStatus
      <3>3. PriceOf(head) = ChangeQuote(head) /\ ListedQuote = ChangeQuote(head)
        BY <2>4 DEF PriceOf, ListedQuote
      <3> QED
        BY <2>3, <3>2, <3>3
    <2>5. CASE PricedBy(head) = {} /\ proposal[head] # "none"
      <3>1. AgreementOf(head) = head
        BY <2>1, <2>5, AgreementIs
      <3>2. ReviewStatus = proposal[head] /\ ListedStatus = proposal[head]
        BY <1>2, <2>2, <2>5, <3>1 DEF ReviewStatus, ListedStatus
      <3>3. PriceOf(head) = QuoteOfProposal(head) /\ ListedQuote = QuoteOfProposal(head)
        BY <1>2, <2>5, <3>1 DEF PriceOf, ListedQuote
      <3> QED
        BY <2>2, <2>3, <3>2, <3>3
    <2>6. CASE PricedBy(head) = {} /\ proposal[head] = "none"
      <3>1. ReviewStatus = "company_review" /\ PriceOf(head) = NoQuote
        BY <2>6 DEF ReviewStatus, PriceOf
      <3> QED
        BY <2>3, <3>1
    <2> QED
      BY <2>4, <2>5, <2>6
  <1>3. ASSUME Briefed
        PROVE  /\ Brief.quote = Refused <=> proposal[head] \in {"customer_review", "revision_requested"}
               /\ Brief.quote # Refused =>
                    /\ Brief.quote = Review.quote /\ Brief.quote = SummaryQuote(head)
                    /\ Brief.agreement = IF Brief.quote = NoQuote THEN 0 ELSE Review.agreement
    <2>1. setup = head /\ head # 0 /\ head \in 1..head /\ head \in Versions
      BY <1>3, VersionFacts DEF Briefed, CurrentLocked
    <2>2. /\ proposal[head] # "superseded"
          /\ proposal[head] \in {"none", "customer_review", "revision_requested", "confirmed", "superseded"}
      BY <2>1, VersionFacts DEF IInv, TypeOK, QuotesAccountedFor
    <2>3. /\ Review.quote = PriceOf(head) /\ Review.agreement = AgreementOf(head)
          /\ Brief = BriefOf(head)
      BY <2>1 DEF Review, Brief
    <2>4. CASE PricedBy(head) # {}
      <3>1. /\ proposal[head] = "none" /\ AgreementOf(head) # 0
            /\ LastConfirmed = AgreementOf(head)
        BY <2>1, <2>4, VersionFacts, AgreementIs
      <3>2. Brief.quote = ChangeQuote(head) /\ Brief.agreement = AgreementOf(head)
        BY <2>3, <2>4, <3>1 DEF BriefOf
      <3>3. PriceOf(head) = ChangeQuote(head) /\ SummaryQuote(head) = ChangeQuote(head)
        BY <2>4, <3>1 DEF PriceOf, SummaryQuote
      <3> QED
        BY <2>3, <3>1, <3>2, <3>3, QuotesDiffer
    <2>5. CASE PricedBy(head) = {} /\ proposal[head] # "none"
      <3>1. AgreementOf(head) = head /\ PriceOf(head) = QuoteOfProposal(head)
        BY <2>1, <2>5, AgreementIs DEF PriceOf
      <3>2. /\ Brief.quote = IF proposal[head] = "confirmed" THEN QuoteOfProposal(head) ELSE Refused
            /\ Brief.agreement = head
        BY <2>3, <2>5 DEF BriefOf
      <3>3. proposal[head] = "confirmed" => SummaryQuote(head) = QuoteOfProposal(head)
        BY <2>1 DEF SummaryQuote
      <3> QED
        BY <2>2, <2>3, <2>5, <3>1, <3>2, <3>3, QuotesDiffer
    <2>6. CASE PricedBy(head) = {} /\ proposal[head] = "none"
      <3>1. Brief.quote = NoQuote /\ Brief.agreement = 0
        BY <2>3, <2>6 DEF BriefOf
      <3>2. PriceOf(head) = NoQuote /\ SummaryQuote(head) = NoQuote
        BY <2>6 DEF PriceOf, SummaryQuote
      <3> QED
        BY <2>3, <2>6, <3>1, <3>2, QuotesDiffer
    <2> QED
      BY <2>4, <2>5, <2>6
  <1> QED
    BY <1>1, <1>2, <1>3 DEF ScreensAgree

\* docs/CONTRACTS.md: whichever screen a party looks at, the list of moves, the review,
\* the history, the brief or the summary, it reads the same price of the same agreement.
THEOREM ScreensShowTheSame == CompletionSpec => []ScreensAgree
  BY CompletionInvariant, PricesKept, InvariantShows, PTL

-----------------------------------------------------------------------------
(* The papers of a completed job *)

\* Without a record nothing is open against the completed scope; and evidence the
\* customer decided on was validated.
PaperKept ==
  /\ job = "completed" /\ submission = << >> =>
       confirmed["customer"] = head /\ \A c \in Changes : change[c].status \notin Open
  /\ DecidedOn => \A m \in LatestSubmission.evidence : asset[m] \in {"ready", "deleted"}

\* The price of an agreed scope stays, whatever follows it.
LEMMA AgreedQuoteStands ==
  ASSUME IInv, Kinds, NEW v \in locked
  PROVE  SummaryQuote(v)' = SummaryQuote(v)
  <1>1. v \in Versions /\ v <= head
    BY VersionFacts
  <1>2. proposal'[v] = "confirmed" <=> proposal[v] = "confirmed"
    BY <1>1, PriceMoves DEF ProposalMoves
  <1>3. PricedBy(v)' = PricedBy(v)
    <2>1. ResultOf(v)' = ResultOf(v) /\ \A c \in ResultOf(v) : Quoted(c)' <=> Quoted(c)
      BY <1>1, AmountsStand DEF Quoted
    <2> QED
      BY <2>1 DEF PricedBy
  <1> QED
    BY <1>2, <1>3 DEF SummaryQuote, ChangeQuote

\* Nothing follows an agreed scope once the job is completed with nothing open.
LEMMA CompletedScopeStands ==
  ASSUME IInv, Kinds, job = "completed", confirmed["customer"] = head,
         \A c \in Changes : change[c].status \notin Open
  PROVE  head' = head /\ locked' = locked /\ \A c \in Changes : change'[c] = change[c]
  <1> DEFINE Goal == head' = head /\ locked' = locked /\ \A c \in Changes : change'[c] = change[c]
  <1>1. head \in locked /\ ~Unconfirmed
    BY DEF IInv, ConfirmedScopeStands, Approvers, Unconfirmed
  <1>2. \A by : ~Edit(by)
    BY <1>1 DEF Edit, Extends
  <1>3. \A v \in Versions, r \in Approvers : ~Approve(v, r)
    BY <1>1 DEF Approve, Approvable, Current
  <1>4. \A v \in Versions, r \in Approvers : ~ApproveScopeVersion(v, r)
    BY <1>3 DEF ApproveScopeVersion
  <1>5. ASSUME NEW v \in Versions PROVE ~CreateScopeProposal(v) /\ ~ConfirmScopeProposal(v)
    BY <1>3 DEF CreateScopeProposal, ConfirmScopeProposal, Approvers
  <1>6. ASSUME NEW v \in Versions, CheckScopeRevision(v) PROVE Goal
    BY <1>6 DEF CheckScopeRevision, history, field
  <1>7. ASSUME RequestScopeRevision PROVE Goal
    BY <1>7 DEF RequestScopeRevision, history, field
  <1>8. ASSUME NEW c \in Changes PROVE ~Discussed(c) /\ \A r \in Approvers : ~Approved(c, r)
    BY <1>1 DEF Discussed, Approved, Open
  <1>9. \A i \in Issues : ~CreateFieldIssue(i)
    BY DEF CreateFieldIssue, FieldWorkOn
  <1>10. ~CompleteOnRequest /\ ~CancelMoveJob /\ \A r \in Approvers : ~ConfirmCompletion(r)
    BY DEF CompleteOnRequest, CancelMoveJob, ConfirmCompletion
  <1>11. UNCHANGED vars => Goal
    BY DEF vars, history, field
  <1> QED
    BY <1>2, <1>4, <1>5, <1>6, <1>7, <1>8, <1>9, <1>10, <1>11 DEF Kinds

LEMMA PaperMoves ==
  ASSUME IInv, CInv, [CompletionNext]_siteVars
  PROVE  /\ job = "completed" => UNCHANGED <<submission, confirmed, job>>
         /\ job # "completed" /\ job' = "completed" =>
              \/ \E q \in 1..Len(request) : ConfirmRequest(q)
              \/ \E r \in Approvers, E \in SUBSET Media : ConfirmDirectly(r, E)
         /\ DecidedOn' =>
              \/ DecidedOn
              \/ \E q \in 1..Len(request) : ConfirmRequest(q)
         /\ \A m \in Media : asset[m] \in {"ready", "deleted"} => asset'[m] \in {"ready", "deleted"}
  <1> DEFINE Goal ==
        /\ job = "completed" => UNCHANGED <<submission, confirmed, job>>
        /\ job # "completed" => job' # "completed"
        /\ DecidedOn' => DecidedOn
        /\ \A m \in Media : asset[m] \in {"ready", "deleted"} => asset'[m] \in {"ready", "deleted"}
  <1>1. ASSUME Agreeing PROVE Goal
    <2>1. confirmed' = confirmed /\ (job' = job \/ (job = "open" /\ job' = "canceled"))
      BY <1>1, AgreeingMoves
    <2>2. UNCHANGED <<submission, request, asset>>
      BY <1>1 DEF Agreeing, paper, records
    <2> QED
      BY <2>1, <2>2 DEF DecidedOn, LatestRequest
  <1>2. ASSUME OnSite PROVE Goal
    <2>1. UNCHANGED closing
      BY <1>2 DEF OnSite, Dispatching, NextDay, CreateDispatchSetup, CheckInFieldWorker,
                  ConfirmDispatch, Reschedule, PatchMoveJob, vars
    <2>2. UNCHANGED <<submission, request, asset>>
      BY <1>2 DEF OnSite, paper, records
    <2> QED
      BY <2>1, <2>2 DEF DecidedOn, LatestRequest, closing
  <1>3. ASSUME NEW m \in Media, UploadMedia(m) \/ ValidateMedia(m) \/ DeleteMedia(m) PROVE Goal
    <2>1. UNCHANGED <<job, confirmed, submission, request>>
      BY <1>3 DEF UploadMedia, ValidateMedia, DeleteMedia, vars, closing, paper
    <2>2. \A n \in Media : asset[n] \in {"ready", "deleted"} => asset'[n] \in {"ready", "deleted"}
      BY <1>3 DEF UploadMedia, ValidateMedia, DeleteMedia, CInv, CompletionTypeOK
    <2> QED
      BY <2>1, <2>2 DEF DecidedOn, LatestRequest
  <1>4. ASSUME CreateCompletionRequest PROVE Goal
    <2> DEFINE new == [of |-> Len(submission), status |-> Live]
    <2>1. /\ request' = Append(request, new) /\ UNCHANGED <<vars, submission, records>> /\ job = "open"
          /\ request \in Seq(Request)
      BY <1>4 DEF CreateCompletionRequest, CInv, CompletionTypeOK
    <2>2. new.status # "confirmed"
      BY DEF Live
    <2> HIDE DEF new
    <2>3. ~DecidedOn'
      BY <2>1, <2>2 DEF DecidedOn, LatestRequest
    <2> QED
      BY <2>1, <2>3 DEF vars, closing, records
  <1>5. ASSUME NEW E \in SUBSET Media, SubmitCompletion(E) PROVE Goal
    BY <1>5 DEF SubmitCompletion, vars, closing, records, DecidedOn, LatestRequest
  <1>6. ASSUME NEW q \in 1..Len(request), ExpireRequest(q) \/ RevokeCompletionRequest(q) \/ ReportIssue(q)
        PROVE  Goal
    <2>1. /\ \E st \in {"expired", "revoked", "issue_reported"} :
                request' = [request EXCEPT ![q].status = st]
          /\ UNCHANGED <<vars, submission, records>>
      BY <1>6 DEF ExpireRequest, RevokeCompletionRequest, ReportIssue
    <2>2. PICK st \in {"expired", "revoked", "issue_reported"} : request' = [request EXCEPT ![q].status = st]
      BY <2>1
    <2>3. request \in Seq(Request) /\ st \in {Live} \cup Answered \cup Lapsed
      BY DEF CInv, CompletionTypeOK, Answered, Lapsed
    <2>4. /\ Len(request') = Len(request) /\ request' \in Seq(Request)
          /\ \A p \in 1..Len(request) : request'[p].status = IF p = q THEN st ELSE request[p].status
      BY <2>2, <2>3, StatusSet
    <2>5. DecidedOn' => DecidedOn
      <3>1. request # << >> /\ Len(request) \in 1..Len(request)
        BY <2>3
      <3> QED
        BY <2>4, <3>1 DEF DecidedOn, LatestRequest
    <2> QED
      BY <2>1, <2>5 DEF vars, closing, records
  <1>7. ASSUME NEW q \in 1..Len(request), ConfirmRequest(q)
        PROVE  job = "open" /\ asset' = asset
    BY <1>7 DEF ConfirmRequest, Decidable
  <1>8. ASSUME NEW r \in Approvers, NEW E \in SUBSET Media, ConfirmDirectly(r, E)
        PROVE  job = "open" /\ asset' = asset /\ (DecidedOn' => DecidedOn)
    BY <1>8 DEF ConfirmDirectly, ConfirmCompletion, paper, DecidedOn, LatestRequest
  <1>9. ASSUME UNCHANGED siteVars PROVE Goal
    BY <1>9 DEF siteVars, vars, closing, paper, records, DecidedOn, LatestRequest
  <1>10. CASE Goal
    BY <1>10
  <1>11. CASE \E q \in 1..Len(request) : ConfirmRequest(q)
    BY <1>7, <1>11
  <1>12. CASE Confirming
    BY <1>8, <1>12 DEF Confirming
  <1> HIDE DEF Goal
  <1>13. Handling => Goal
    BY <1>3 DEF Handling
  <1>14. Reviewing => Goal \/ \E q \in 1..Len(request) : ConfirmRequest(q)
    BY <1>4, <1>5, <1>6 DEF Reviewing
  <1> QED
    BY <1>1, <1>2, <1>9, <1>10, <1>11, <1>12, <1>13, <1>14 DEF CompletionNext

LEMMA PaperStep ==
  ASSUME IInv, IInv', CInv, PaperKept, Kinds, [CompletionNext]_siteVars
  PROVE  PaperKept'
  <1>0. "customer" \in Approvers
    BY DEF Approvers
  <1>1. ASSUME NEW q \in 1..Len(request), ConfirmRequest(q)
        PROVE  /\ submission' = submission /\ submission # << >> /\ asset' = asset
               /\ \A m \in LatestSubmission.evidence : asset[m] = "ready"
    <2>1. request[q] \in Request
      BY DEF CInv, CompletionTypeOK
    <2>2. request[q].of = Len(submission) /\ submission' = submission /\ asset' = asset
      BY <1>1 DEF ConfirmRequest, Decidable
    <2>3. submission # << >>
      BY <2>1, <2>2, CompletionAssumption DEF Request
    <2> QED
      BY <1>1, <2>2, <2>3 DEF ConfirmRequest, LatestSubmission
  <1>2. ASSUME job' = "completed", submission' = << >>
        PROVE  confirmed'["customer"] = head' /\ \A c \in Changes : change'[c].status \notin Open
    <2>1. CASE job = "completed"
      <3>1. /\ submission = << >> /\ confirmed' = confirmed
            /\ confirmed["customer"] = head /\ \A c \in Changes : change[c].status \notin Open
        BY <1>2, <2>1, PaperMoves DEF PaperKept
      <3>2. head' = head /\ \A c \in Changes : change'[c] = change[c]
        BY <2>1, <3>1, CompletedScopeStands
      <3> QED
        BY <3>1, <3>2
    <2>2. CASE job # "completed"
      <3>1. PICK r \in Approvers, E \in SUBSET Media : ConfirmDirectly(r, E)
        BY <1>1, <1>2, <2>2, PaperMoves
      <3>2. /\ UNCHANGED <<history, quotes, field>> /\ confirmed' = [confirmed EXCEPT ![r] = head]
            /\ \A c \in Changes : change[c].status \notin Open
            /\ \A s \in Approvers : confirmed[s] \in {0, head}
        BY <3>1 DEF ConfirmDirectly, ConfirmCompletion
      <3>3. confirmed'["customer"] # 0
        BY <1>0, <1>2 DEF IInv, ConfirmedScopeStands
      <3>4. confirmed'["customer"] \in {0, head}
        BY <1>0, <3>2 DEF IInv, TypeOK
      <3> QED
        BY <3>2, <3>3, <3>4 DEF history, field
    <2> QED
      BY <2>1, <2>2
  <1>3. ASSUME DecidedOn' PROVE \A m \in LatestSubmission'.evidence : asset'[m] \in {"ready", "deleted"}
    <2>1. CASE DecidedOn
      <3>1. request \in Seq(Request) /\ submission \in Seq(Submission)
        BY DEF CInv, CompletionTypeOK
      <3>2. job = "completed" /\ submission # << >>
        <4>1. Len(request) \in 1..Len(request) /\ request[Len(request)] \in Request
          BY <2>1, <3>1 DEF DecidedOn
        <4>2. request[Len(request)].status = "confirmed"
          BY <2>1 DEF DecidedOn, LatestRequest
        <4>3. request[Len(request)].of <= Len(submission) /\ request[Len(request)].of \in 1..MaxSubmissions
          BY <4>1 DEF CInv, RequestsInOrder, Request
        <4>4. submission # << >>
          BY <4>3, CompletionAssumption
        <4> QED
          BY <4>1, <4>2, <4>4 DEF CInv, DecisionIsTheOutcome
      <3>3. LatestSubmission' = LatestSubmission
        BY <3>2, PaperMoves DEF LatestSubmission
      <3>4. LatestSubmission.evidence \subseteq Media
        <4>1. Len(submission) \in 1..Len(submission)
          BY <3>1, <3>2
        <4>2. submission[Len(submission)] \in Submission
          BY <3>1, <4>1
        <4> QED
          BY <4>2 DEF LatestSubmission, Submission
      <3> QED
        BY <2>1, <3>3, <3>4, PaperMoves DEF PaperKept
    <2>2. CASE \E q \in 1..Len(request) : ConfirmRequest(q)
      BY <1>1, <2>2 DEF LatestSubmission
    <2> QED
      BY <1>3, <2>1, <2>2, PaperMoves
  <1> QED
    BY <1>2, <1>3 DEF PaperKept

LEMMA InitPaper == CompletionInit => PaperKept
  BY DEF CompletionInit, Init, PaperKept, DecidedOn

\* What the summary says of the scope both sides confirmed.
PaperTrue ==
  job = "completed" =>
    /\ submission = << >> \/ DecidedOn => SummaryScope = confirmed["customer"]
    /\ DecidedOn => SummaryServed \/ \E m \in retained : asset[m] = "deleted"

LEMMA PaperIsTrue == IInv /\ CInv /\ PaperKept => PaperTrue
  <1> SUFFICES ASSUME IInv, CInv, PaperKept, job = "completed"
               PROVE  /\ submission = << >> \/ DecidedOn => SummaryScope = confirmed["customer"]
                      /\ DecidedOn => SummaryServed \/ \E m \in retained : asset[m] = "deleted"
    BY DEF PaperTrue
  <1>0. "customer" \in Approvers
    BY DEF Approvers
  <1>1. ASSUME submission = << >> PROVE SummaryScope = confirmed["customer"]
    <2> DEFINE S == {0} \cup locked
    <2>1. confirmed["customer"] = head /\ head \in locked
      BY <1>0, <1>1 DEF PaperKept, IInv, ConfirmedScopeStands
    <2>2. S \in SUBSET Int /\ head \in S /\ \A x \in S : x <= head
      BY <2>1, VersionFacts
    <2>3. SummaryScope = Max(S)
      BY <1>1 DEF SummaryScope
    <2> HIDE DEF S
    <2> QED
      BY <2>1, <2>2, <2>3, MaxIs
  <1>2. ASSUME DecidedOn
        PROVE  /\ SummaryScope = confirmed["customer"]
               /\ SummaryServed \/ \E m \in retained : asset[m] = "deleted"
    <2>1. request \in Seq(Request) /\ submission \in Seq(Submission)
      BY DEF CInv, CompletionTypeOK
    <2>2. Len(request) \in 1..Len(request) /\ request[Len(request)] \in Request
      BY <1>2, <2>1 DEF DecidedOn
    <2>3. request[Len(request)].status = "confirmed"
      BY <1>2 DEF DecidedOn, LatestRequest
    <2>4. request[Len(request)].of = Len(submission) /\ request[Len(request)].of \in 1..MaxSubmissions
      BY <2>2, <2>3 DEF CInv, RequestsInOrder, Request
    <2>5. submission # << >>
      BY <2>4, CompletionAssumption
    <2>6. \A r \in Approvers : confirmed[r] = LatestSubmission.scope /\ evidence[r] = LatestSubmission.evidence
      BY <2>2, <2>3, <2>4 DEF CInv, DecisionIsTheOutcome, LatestSubmission
    <2>7. SummaryScope = confirmed["customer"]
      BY <1>0, <2>5, <2>6 DEF SummaryScope
    <2>8. retained = LatestSubmission.evidence
      BY <1>0, <2>6 DEF CInv, EvidenceAgreed
    <2> QED
      BY <1>2, <2>7, <2>8 DEF PaperKept, SummaryServed, Usable
  <1> QED
    BY <1>1, <1>2

LEMMA SummaryStands ==
  ASSUME IInv, CInv, PaperKept, Kinds, [CompletionNext]_siteVars, job = "completed"
  PROVE  SummaryScope' = SummaryScope /\ SummaryQuote(SummaryScope)' = SummaryQuote(SummaryScope)
  <1>1. submission' = submission
    BY PaperMoves
  <1>2. SummaryScope' = SummaryScope /\ SummaryScope \in locked
    <2>1. CASE submission # << >>
      <3>1. SummaryScope = LatestSubmission.scope /\ SummaryScope' = LatestSubmission.scope
        BY <1>1, <2>1 DEF SummaryScope, LatestSubmission
      <3>2. Len(submission) \in 1..Len(submission)
        BY <2>1 DEF CInv, CompletionTypeOK
      <3>3. LatestSubmission.scope = setup /\ setup # 0
        BY <3>2 DEF CInv, SubmissionsDispatched, DispatchedForAgreed, LatestSubmission
      <3> QED
        BY <3>1, <3>3 DEF CInv, DispatchedForAgreed
    <2>2. CASE submission = << >>
      <3>1. confirmed["customer"] = head /\ \A c \in Changes : change[c].status \notin Open
        BY <2>2 DEF PaperKept
      <3>2. locked' = locked
        BY <3>1, CompletedScopeStands
      <3>3. SummaryScope = confirmed["customer"]
        BY <2>2, PaperIsTrue DEF PaperTrue
      <3>4. confirmed["customer"] \in locked
        BY DEF IInv, ConfirmedScopeStands, Approvers
      <3>5. SummaryScope' = SummaryScope
        BY <1>1, <2>2, <3>2 DEF SummaryScope
      <3> QED
        BY <3>3, <3>4, <3>5
    <2> QED
      BY <2>1, <2>2
  <1>3. PICK v \in locked : v = SummaryScope /\ v = SummaryScope'
    BY <1>2
  <1>4. SummaryQuote(v)' = SummaryQuote(v)
    BY AgreedQuoteStands
  <1>5. SummaryQuote(SummaryScope)' = SummaryQuote(v)'
    BY <1>3 DEF SummaryQuote, PricedBy, ChangeQuote, ResultOf
  <1>6. SummaryQuote(SummaryScope) = SummaryQuote(v)
    BY <1>3
  <1> QED
    BY <1>2, <1>4, <1>5, <1>6

\* get_completion_summary: once a job is completed, the scope and the price its papers
\* show never change, and they are those of the scope both sides confirmed.
THEOREM PapersStand == CompletionSpec => CompletedPaperStands
  <1> DEFINE Stands ==
        job' = "completed" =>
          /\ job = "completed" => SummaryScope' = SummaryScope
                                  /\ SummaryQuote(SummaryScope)' = SummaryQuote(SummaryScope)
          /\ (submission = << >> \/ DecidedOn)' => SummaryScope' = confirmed'["customer"]
          /\ DecidedOn' => SummaryServed' \/ \E m \in retained' : asset'[m] = "deleted"
  <1>1. IInv /\ [CompletionNext]_siteVars => Kinds
    BY StepAgrees, StepKinds DEF IInv
  <1>2. IInv /\ IInv' /\ CInv /\ PaperKept /\ [CompletionNext]_siteVars => PaperKept'
    BY <1>1, PaperStep
  <1>3. CompletionSpec => []PaperKept
    BY <1>2, InitPaper, CompletionInvariant, PTL DEF CompletionSpec
  <1>4. IInv /\ CInv /\ PaperKept /\ PaperTrue' /\ [CompletionNext]_siteVars => Stands
    <2> SUFFICES ASSUME IInv, CInv, PaperKept, PaperTrue', [CompletionNext]_siteVars PROVE Stands
      OBVIOUS
    <2>1. Kinds
      BY <1>1
    <2>2. job = "completed" => SummaryScope' = SummaryScope
                               /\ SummaryQuote(SummaryScope)' = SummaryQuote(SummaryScope)
      BY <2>1, SummaryStands
    <2> QED
      BY <2>2 DEF PaperTrue
  <1>5. IInv' /\ CInv' /\ PaperKept' => PaperTrue'
    BY PaperIsTrue, PTL
  <1>6. IInv /\ IInv' /\ CInv /\ CInv' /\ PaperKept /\ PaperKept' /\ [CompletionNext]_siteVars
          => [Stands]_siteVars
    BY <1>4, <1>5
  <1> QED
    BY <1>3, <1>6, CompletionInvariant, PTL DEF CompletionSpec, CompletedPaperStands
=============================================================================
