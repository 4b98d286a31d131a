------------------------------- MODULE Screens -------------------------------
(***************************************************************************)
(* What the parties are shown of one move job.  The scope and its price    *)
(* are read by five screens, each with queries of its own: the list of     *)
(* moves (move_job), the review and the history of the scope               *)
(* (scope_review), the brief of the field worker (dispatch), and the       *)
(* summary with the documents of the completion (completion).  They are    *)
(* operators of the state of Completion and have no steps.                 *)
(*                                                                         *)
(* A price is named by the row it is read from, the version of a proposal  *)
(* or a change; NoQuote is a screen without one, Refused the answer 409.   *)
(* An agreement is the version of the proposal whose works are listed, 0   *)
(* when there is none.                                                     *)
(***************************************************************************)
EXTENDS Completion, FiniteSetsExt

NoQuote == <<"none", 0>>
Refused == <<"refused", 0>>
QuoteOfProposal(v) == <<"proposal", v>>
QuoteOfChange(c)   == <<"change", c>>

\* The approved change with a price whose result is v: there is one at most.
PricedBy(v)    == {c \in ResultOf(v) : Quoted(c)}
ChangeQuote(v) == QuoteOfChange(CHOOSE c \in PricedBy(v) : TRUE)

\* get_scope_confirmation_history: the price of each version, and the nearest proposal
\* on the way to the root, whatever became of it.
PriceOf(v) ==
  IF PricedBy(v) # {} THEN ChangeQuote(v)
  ELSE IF proposal[v] # "none" THEN QuoteOfProposal(v) ELSE NoQuote
AgreementOf(v) == Max({0} \cup {u \in 1..v : proposal[u] # "none"})

-----------------------------------------------------------------------------
(* Before the move *)

\* get_scope_review, of the head.  A change with a price counts as confirmed however
\* it was approved.
ReviewStatus ==
  IF PricedBy(head) # {} THEN "confirmed"
  ELSE CASE proposal[head] = "none"       -> "company_review"
         [] proposal[head] = "superseded" -> "refused"
         [] OTHER                         -> proposal[head]
Review == [status |-> ReviewStatus, quote |-> PriceOf(head), agreement |-> AgreementOf(head)]

\* list_move_jobs: the latest proposal of the job, wherever the head is by now.
ListedStatus ==
  LET latest == AgreementOf(head)
  IN  IF latest = 0 \/ proposal[latest] = "superseded" THEN "company_review" ELSE proposal[latest]
ListedQuote ==
  IF PricedBy(head) # {} THEN ChangeQuote(head)
  ELSE IF AgreementOf(head) # 0 THEN QuoteOfProposal(AgreementOf(head)) ELSE NoQuote

-----------------------------------------------------------------------------
(* On the day *)

\* The proposal confirmed last.
LastConfirmed == Max({0} \cup {u \in 1..head : proposal[u] = "confirmed"})

\* _field_brief_quote_context: an unconfirmed proposal, a version with two prices and
\* a changed price without an agreement behind it are refused.
\* Mutant: only the proposal of the version is looked for.
BriefOfProposal(v) ==
  IF proposal[v] = "none" THEN [quote |-> NoQuote, agreement |-> 0]
  ELSE [quote |-> IF proposal[v] = "confirmed" THEN QuoteOfProposal(v) ELSE Refused,
        agreement |-> v]
BriefOf(v) ==
  IF proposal[v] # "none" THEN
    [quote |-> IF proposal[v] = "confirmed" /\ PricedBy(v) = {} THEN QuoteOfProposal(v)
               ELSE Refused,
     agreement |-> v]
  ELSE IF PricedBy(v) # {} THEN
    [quote |-> IF LastConfirmed # 0 THEN ChangeQuote(v) ELSE Refused,
     agreement |-> LastConfirmed]
  ELSE [quote |-> NoQuote, agreement |-> 0]

\* get_field_brief is answered for a crew whose scope is still the agreed one.
Briefed == plan.scope # 0 /\ CurrentLocked(setup)
Brief   == BriefOf(setup)

-----------------------------------------------------------------------------
(* After the move *)

\* _quote_for_scope.
SummaryQuote(v) ==
  IF v # 0 /\ proposal[v] = "confirmed" THEN QuoteOfProposal(v)
  ELSE IF PricedBy(v) # {} THEN ChangeQuote(v) ELSE NoQuote

\* get_completion_summary: the scope of the latest record, or else the last agreed one.
\* Mutant: always the last agreed one.
LastAgreed == Max({0} \cup locked)
SummaryScope ==
  IF submission # << >> THEN LatestSubmission.scope ELSE Max({0} \cup locked)
\* It is refused while evidence of the record is not there to be looked at.
SummaryServed == submission # << >> => Usable(LatestSubmission.evidence)
\* build_completion_archive makes the documents of a summary that says they are ready.
DocumentsReady == submission # << >> /\ SummaryQuote(SummaryScope) # NoQuote

-----------------------------------------------------------------------------
(* Properties *)

\* docs/CONTRACTS.md: after an approved change all screens read the same scope.  A
\* version has one price; the list of moves, the review, the brief of the crew and the
\* summary name the same one whenever they name any, although each looks for it in
\* another way, and the works listed are those of the agreement the price rests on.  A
\* brief is refused for no other reason than a quote nobody confirmed.
ScreensAgree ==
  /\ \A v \in 1..head : /\ proposal[v] # "none" => PricedBy(v) = {}
                        /\ SummaryQuote(v) \in {NoQuote, PriceOf(v)}
  /\ head # 0 => /\ Review.status # "refused"
                 /\ Review.quote # NoQuote =>
                      ListedStatus = Review.status /\ ListedQuote = Review.quote
  /\ Briefed =>
       /\ Brief.quote = Refused <=> proposal[head] \in {"customer_review", "revision_requested"}
       /\ Brief.quote # Refused =>
            /\ Brief.quote = Review.quote /\ Brief.quote = SummaryQuote(head)
            /\ Brief.agreement = IF Brief.quote = NoQuote THEN 0 ELSE Review.agreement

\* Once a job is completed its summary stands: the scope, the price and with them the
\* documents never change, although approvals and open changes still arrive.  Without a
\* record, and with one the customer decided on, they are those of the scope both sides
\* confirmed; and such a record is served until its evidence is deleted.
DecidedOn == request # << >> /\ LatestRequest.status = "confirmed"
CompletedPaperStands ==
  [][job' = "completed" =>
       /\ job = "completed" => SummaryScope' = SummaryScope
                               /\ SummaryQuote(SummaryScope)' = SummaryQuote(SummaryScope)
       /\ (submission = << >> \/ DecidedOn)' => SummaryScope' = confirmed'["customer"]
       /\ DecidedOn' => SummaryServed' \/ \E m \in retained' : asset'[m] = "deleted"]_siteVars
=============================================================================
