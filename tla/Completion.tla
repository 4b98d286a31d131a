----------------------------- MODULE Completion -----------------------------
(***************************************************************************)
(* The completion of one move job (completion): the record of the          *)
(* representative worker, the request of the company for the customer's    *)
(* review, the customer's decision, and the direct confirmations of both   *)
(* sides, composed with the agreement (Scope) and the dispatch (Dispatch)  *)
(* they rest on.                                                           *)
(*                                                                         *)
(* Every operation locks the job row first and is one action.  Rows are    *)
(* ordered by the time they were written, so that of the submissions and   *)
(* of the requests the last is the latest; the clocks of the servers are   *)
(* taken to agree on that order.                                           *)
(***************************************************************************)
EXTENDS Dispatch, Sequences

CONSTANTS Media,           \* completion media of the field worker
          MaxSubmissions,  \* bound: submissions of the job
          MaxRequests      \* bound: completion requests of the job

ASSUME CompletionAssumption == MaxSubmissions \in Nat /\ MaxRequests \in Nat

VARIABLES
  asset,       \* media_asset.status; "none" is no row, "busy" PROCESSING or FAILED
  submission,  \* completion_submission rows with their evidence
  request,     \* completion_request rows; "expired" is REQUESTED past expires_at
  evidence,    \* completion_evidence of each role's confirmation
  retained     \* media with a retention background job

paper    == <<submission, request>>
records  == <<asset, evidence, retained>>
siteVars == <<vars, site, paper, records>>

Live     == "requested"
Answered == {"confirmed", "issue_reported"}
Lapsed   == {"expired", "revoked"}
Submission == [scope : Versions, evidence : SUBSET Media]
Request    == [of : 1..MaxSubmissions, status : {Live} \cup Answered \cup Lapsed]

CompletionInit ==
  /\ Init /\ DispatchInit
  /\ asset = [m \in Media |-> "none"]
  /\ submission = << >> /\ request = << >>
  /\ evidence = [r \in Approvers |-> {}] /\ retained = {}

IssuesResolved   == \A i \in Issues : Resolved(i)
LatestSubmission == submission[Len(submission)]
LatestRequest    == request[Len(request)]

-----------------------------------------------------------------------------
(* The media, as far as the completion looks at them *)

\* complete_upload: for an open job.  The validation takes the asset and reports.
UploadMedia(m) ==
  /\ asset[m] = "none" /\ job = "open"
  /\ asset' = [asset EXCEPT ![m] = "uploaded"]
  /\ UNCHANGED <<vars, site, paper, evidence, retained>>
ValidateMedia(m) ==
  /\ \/ asset[m] = "uploaded" /\ asset' = [asset EXCEPT ![m] = "busy"]
     \/ asset[m] = "busy" /\ asset' = [asset EXCEPT ![m] = "ready"]
  /\ UNCHANGED <<vars, site, paper, evidence, retained>>
\* The retention handler deletes what a completion gave a retention job.
DeleteMedia(m) ==
  /\ m \in retained /\ asset[m] \in {"uploaded", "busy", "ready"}
  /\ asset' = [asset EXCEPT ![m] = "deleted"]
  /\ UNCHANGED <<vars, site, paper, evidence, retained>>

Usable(E) == \A m \in E : asset[m] \in {"uploaded", "ready"}

-----------------------------------------------------------------------------
(* The record of the work and the request for review *)

\* submit_completion lets a record be replaced once its own request failed.
\* Mutant: the customer may still be deciding on the one before.
LatestAsked ==
  submission # << >> => /\ request # << >>
                        /\ LatestRequest.of = Len(submission)
                        /\ LatestRequest.status # "confirmed"
LatestEnded ==
  submission # << >> => /\ request # << >>
                        /\ LatestRequest.of = Len(submission)
                        /\ LatestRequest.status \notin {Live, "confirmed"}

\* submit_completion, by the representative: the crew was dispatched for the current
\* scope, checked in, and is led by the representative.
SubmitCompletion(E) ==
  /\ Len(submission) < MaxSubmissions
  /\ job = "open" /\ IssuesResolved /\ LatestEnded
  /\ plan.scope # 0 /\ CurrentLocked(plan.scope)
  /\ Rep \in checkedIn /\ plan.lead = Rep
  /\ Usable(E)
  /\ submission' = Append(submission, [scope |-> plan.scope, evidence |-> E])
  /\ UNCHANGED <<vars, site, request, records>>

\* create_completion_request, for the latest record: an issue reported on it is not
\* asked away.
Requestable ==
  request # << >> =>
    /\ LatestRequest.status \notin {Live, "confirmed"}
    /\ LatestRequest.status = "issue_reported" => LatestRequest.of # Len(submission)
CreateCompletionRequest ==
  /\ Len(request) < MaxRequests
  /\ job = "open" /\ IssuesResolved
  /\ submission # << >> /\ CurrentLocked(LatestSubmission.scope)
  /\ Requestable
  /\ request' = Append(request, [of |-> Len(submission), status |-> Live])
  /\ UNCHANGED <<vars, site, submission, records>>

\* expires_at passes.
ExpireRequest(q) ==
  /\ request[q].status = Live
  /\ request' = [request EXCEPT ![q].status = "expired"]
  /\ UNCHANGED <<vars, site, submission, records>>

\* revoke_completion_request does not look at the job.
RevokeCompletionRequest(q) ==
  /\ request[q].status = Live
  /\ request' = [request EXCEPT ![q].status = "revoked"]
  /\ UNCHANGED <<vars, site, submission, records>>

-----------------------------------------------------------------------------
(* The decision of the customer and the direct confirmations *)

\* decide_completion_request: the latest request, while it lives, of the latest
\* record, whose scope is still the agreed one.
Decidable(q) ==
  /\ job = "open"
  /\ q = Len(request) /\ request[q].status = Live
  /\ request[q].of = Len(submission)
  /\ CurrentLocked(submission[request[q].of].scope)

ReportIssue(q) ==
  /\ Decidable(q)
  /\ request' = [request EXCEPT ![q].status = "issue_reported"]
  /\ UNCHANGED <<vars, site, submission, records>>

\* _ensure_completion_confirmation accepts the row of an earlier direct confirmation
\* if it says the same.
\* Mutant: the evidence is not compared.
ScopeAgrees(r, s) == confirmed[r] # 0 => confirmed[r] = s.scope
Agrees(r, s) == confirmed[r] # 0 => confirmed[r] = s.scope /\ evidence[r] = s.evidence

\* decide_completion_request (confirm): all evidence is validated, both confirmations
\* are written where there is none, and the job is completed.
\* Mutant: an issue reported since the request does not hold the decision up.
ConfirmDespiteIssue(q) ==
  /\ Decidable(q)
  /\ LET s == submission[request[q].of]
     IN  /\ \A m \in s.evidence : asset[m] = "ready"
         /\ \A r \in Approvers : Agrees(r, s)
         /\ confirmed' = [r \in Approvers |-> IF confirmed[r] = 0 THEN s.scope ELSE confirmed[r]]
         /\ evidence' = [r \in Approvers |-> IF confirmed[r] = 0 THEN s.evidence ELSE evidence[r]]
         /\ retained' = retained \cup s.evidence
  /\ job' = "completed"
  /\ request' = [request EXCEPT ![q].status = "confirmed"]
  /\ UNCHANGED <<history, quotes, field, site, submission, asset>>
ConfirmRequest(q) ==
  /\ Decidable(q) /\ IssuesResolved
  /\ LET s == submission[request[q].of]
     IN  /\ \A m \in s.evidence : asset[m] = "ready"
         /\ \A r \in Approvers : Agrees(r, s)
         /\ confirmed' = [r \in Approvers |-> IF confirmed[r] = 0 THEN s.scope ELSE confirmed[r]]
         /\ evidence' = [r \in Approvers |-> IF confirmed[r] = 0 THEN s.evidence ELSE evidence[r]]
         /\ retained' = retained \cup s.evidence
  /\ job' = "completed"
  /\ request' = [request EXCEPT ![q].status = "confirmed"]
  /\ UNCHANGED <<history, quotes, field, site, submission, asset>>

\* confirm_completion: each side names the evidence, and the second the same.  The
\* requests are not looked at.
\* Mutant: the first confirmation already schedules the deletion.
ConfirmAndSchedule(r, E) ==
  /\ ConfirmCompletion(r)
  /\ E # {} /\ Usable(E)
  /\ \A s \in Approvers : confirmed[s] # 0 => evidence[s] = E
  /\ evidence' = [evidence EXCEPT ![r] = E]
  /\ retained' = retained \cup E
  /\ UNCHANGED <<site, paper, asset>>
ConfirmDirectly(r, E) ==
  /\ ConfirmCompletion(r)
  /\ E # {} /\ Usable(E)
  /\ \A s \in Approvers : confirmed[s] # 0 => evidence[s] = E
  /\ evidence' = [evidence EXCEPT ![r] = E]
  /\ retained' = IF job' = "completed" THEN retained \cup E ELSE retained
  /\ UNCHANGED <<site, paper, asset>>

-----------------------------------------------------------------------------
Agreeing == /\ Versioning \/ Quoting \/ Changing \/ CancelMoveJob
            /\ UNCHANGED <<site, paper, records>>
OnSite == Dispatching /\ UNCHANGED <<paper, records>>
Handling == \E m \in Media : UploadMedia(m) \/ ValidateMedia(m) \/ DeleteMedia(m)
Reviewing ==
  \/ CreateCompletionRequest
  \/ \E E \in SUBSET Media : SubmitCompletion(E)
  \/ \E q \in 1..Len(request) : \/ ExpireRequest(q) \/ RevokeCompletionRequest(q)
                                \/ ReportIssue(q) \/ ConfirmRequest(q)
Confirming == \E r \in Approvers, E \in SUBSET Media : ConfirmDirectly(r, E)

CompletionNext == Agreeing \/ OnSite \/ Handling \/ Reviewing \/ Confirming
CompletionSpec == CompletionInit /\ [][CompletionNext]_siteVars

-----------------------------------------------------------------------------
(* Properties *)

\* Every variable of the composition keeps its shape.
CompletionTypeOK ==
  /\ TypeOK /\ DispatchTypeOK
  /\ asset \in [Media -> {"none", "uploaded", "busy", "ready", "deleted"}]
  /\ submission \in Seq(Submission) /\ Len(submission) <= MaxSubmissions
  /\ request \in Seq(Request) /\ Len(request) <= MaxRequests
  /\ evidence \in [Approvers -> SUBSET Media] /\ retained \subseteq Media

\* create_completion_request, submit_completion: the customer has one live request at
\* most, the latest; requests follow the records, each of them is answered once, and a
\* record is replaced only after its own request failed.
RequestsInOrder ==
  /\ \A q \in 1..Len(request) :
       /\ request[q].of <= Len(submission)
       /\ request[q].status \in {Live, "confirmed"} =>
            q = Len(request) /\ request[q].of = Len(submission)
       /\ \A p \in 1..q - 1 : /\ request[p].of <= request[q].of
                              /\ request[p].of = request[q].of => request[p].status \in Lapsed
  /\ \A k \in 1..Len(submission) - 1 : \E q \in 1..Len(request) : request[q].of = k

\* docs/CONTRACTS.md: the decision is about the exact record.  A confirmed request has
\* completed the job, and both confirmations carry the scope and the evidence of its
\* record, which is the scope the crew was dispatched for and checked in to.
DecisionIsTheOutcome ==
  \A q \in 1..Len(request) : request[q].status = "confirmed" =>
    LET s == submission[request[q].of]
    IN  /\ job = "completed"
        /\ \A r \in Approvers : confirmed[r] = s.scope /\ evidence[r] = s.evidence
        /\ Rep \in checkedIn /\ s.scope = plan.scope /\ s.scope = setup /\ plan.lead = Rep

\* The two ways to complete a job write the same rows: both sides confirm the same
\* evidence, and exactly that evidence is scheduled for deletion, once the job is
\* completed and not before.
EvidenceAgreed ==
  /\ \A r, s \in Approvers : confirmed[r] # 0 /\ confirmed[s] # 0 => evidence[r] = evidence[s]
  /\ \A r \in Approvers : retained = IF job = "completed" THEN evidence[r] ELSE {}
  /\ \A m \in Media : asset[m] = "deleted" => m \in retained

\* What the records and requests, the dispatch and the media add leaves the agreement
\* as Scope describes it: a decision on a request implements CompleteOnRequest, a new
\* date PatchMoveJob or nothing.
Agreement == Spec
=============================================================================
