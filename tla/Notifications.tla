--------------------------- MODULE Notifications ---------------------------
(***************************************************************************)
(* The external notifications of a workspace: contacts and memberships     *)
(* (access/workspace.py), the intents a consumer makes of an event         *)
(* (notification/service.py) and the pump passes that deliver them         *)
(* (notification/delivery.py).                                             *)
(*                                                                         *)
(* Time is relative: a pass has an age, and the lease and the next attempt *)
(* of a row are counted from now.  One unit stands for the longest         *)
(* provider call, so a pass that started at -age leases a row until        *)
(* Lease - age however late it claims it.                                  *)
(***************************************************************************)
EXTENDS Integers, FiniteSets

CONSTANTS Events, Participants,  \* events, and the recipients each of them has
          MaxAccounts,   \* bound: workspace accounts
          Destinations,
          Consumers,     \* concurrent event consumptions
          Passes,        \* concurrent delivery passes
          Lease,         \* lease_seconds
          Interval,      \* of the scheduler that starts the passes
          Batch,         \* batch_size
          Width,         \* DELIVERY_CONCURRENCY
          MaxAttempts,   \* MAX_DELIVERY_ATTEMPTS
          MaxAge,        \* time limit of the job
          MaxFaults,     \* bound: provider errors, lost passes, stalls
          MaxEdits       \* bound: changes of contacts and memberships

ASSUME NotificationAssumption ==
  /\ Lease \in Nat /\ Lease > 1      \* the lease exceeds the timeout
  /\ Interval \in Nat \ {0}
  /\ Batch \in Nat \ {0} /\ Width \in Nat \ {0} /\ MaxAttempts \in Nat \ {0}
  /\ MaxAccounts \in Nat /\ MaxAge \in Nat \ {0} /\ MaxFaults \in Nat /\ MaxEdits \in Nat

None   == "none"
Erased == "revoked"  \* REVOKED_CONTACT_DESTINATION_PREFIX

VARIABLES
  contact,   \* the contact point of each account, for one channel
  created,   \* number of accounts so far
  member,    \* the account each participant is an active member of, or 0
  consumer,  \* the event a consumer works on, and the contacts it read
  receipts,  \* events with an event_consumption row
  row,       \* the delivery row of each event and recipient; status "none" is no row
  pass,      \* the delivery passes, with their provider calls
  wait,      \* time until the scheduler starts the next pass
  accepted,  \* how often the provider took the message of each row
  faults, edits

vars == <<contact, created, member, consumer, receipts, row, pass, wait, accepted, faults, edits>>
people == <<contact, created, member>>

Accounts == 1..MaxAccounts

Rows     == Events \X Participants
Statuses == {"none", "pending", "sent", "failed"}
Clock    == -MaxAge..Lease
\* Each claim counts an attempt, so the attempt stands for the lock token.
DeliveryRow == [status : Statuses, dest : Destinations \cup {None, Erased}, tries : Nat,
                held : BOOLEAN, lock : Clock, due : -MaxAge..1]
Answers == {"none", "ok", "retryable", "permanent"}
Call    == [n : Rows, try : Nat, age : 0..1, answer : Answers]
Pass    == [live : BOOLEAN, age : 0..MaxAge, claimed : 0..Batch, dry : BOOLEAN, calls : SUBSET Call]

NoRow     == [status |-> "none", dest |-> None, tries |-> 0, held |-> FALSE, lock |-> 0, due |-> 0]
NoPass    == [live |-> FALSE, age |-> 0, claimed |-> 0, dry |-> FALSE, calls |-> {}]
NoContact == [dest |-> None, enabled |-> FALSE]
Free      == [event |-> None, read |-> {}]

Init ==
  /\ contact = [a \in Accounts |-> NoContact]
  /\ created = 0 /\ member = [p \in Participants |-> 0]
  /\ consumer = [k \in Consumers |-> Free]
  /\ receipts = {}
  /\ row = [n \in Rows |-> NoRow]
  /\ pass = [q \in Passes |-> NoPass]
  /\ accepted = [n \in Rows |-> 0]
  /\ wait = 0 /\ faults = 0 /\ edits = 0

Fault == faults < MaxFaults /\ faults' = faults + 1
Edit  == edits < MaxEdits /\ edits' = edits + 1

-----------------------------------------------------------------------------
(* Contacts and memberships *)

Ended(n, d) == [row[n] EXCEPT !.status = "failed", !.dest = d, !.held = FALSE, !.lock = 0, !.due = 0]

\* The pending rows of the recipients S fail; the destination is erased or kept.
Cancelled(S, erase) ==
  [n \in Rows |-> IF n[2] \in S /\ row[n].status = "pending"
                    THEN Ended(n, IF erase THEN Erased ELSE row[n].dest)
                    ELSE row[n]]
\* _cancel_pending_contact_deliveries: of the active memberships only.
CancelPending(a) == row' = Cancelled({p \in Participants : member[p] = a}, TRUE)

UpsertContact(a, d, on) ==
  /\ a <= created
  /\ Edit
  /\ contact' = [contact EXCEPT ![a] = [dest |-> d, enabled |-> on]]
  /\ IF contact[a] # NoContact /\ (contact[a].dest # d \/ (contact[a].enabled /\ ~on))
       THEN CancelPending(a) ELSE UNCHANGED row
  /\ UNCHANGED <<created, member, consumer, receipts, pass, accepted, wait, faults>>

DeleteContact(a) ==
  /\ contact[a].enabled
  /\ Edit
  /\ CancelPending(a)
  /\ contact' = [contact EXCEPT ![a] = [dest |-> Erased, enabled |-> FALSE]]
  /\ UNCHANGED <<created, member, consumer, receipts, pass, accepted, wait, faults>>

\* revoke_access_link: the rows stay as they are.
RevokeMembership(p) ==
  /\ member[p] # 0
  /\ Edit
  /\ member' = [member EXCEPT ![p] = 0]
  /\ UNCHANGED <<contact, created, consumer, receipts, row, pass, accepted, wait, faults>>

New(a) == a = created + 1 /\ a <= MaxAccounts

\* create_or_extend_workspace_session, into the account of the cookie or a new one.
Join(p, a) ==
  /\ member[p] = 0
  /\ a <= created \/ New(a)
  /\ Edit
  /\ member' = [member EXCEPT ![p] = a]
  /\ created' = IF New(a) THEN a ELSE created
  /\ UNCHANGED <<contact, consumer, receipts, row, pass, accepted, wait, faults>>

\* The same without a cookie: the participant moves to a new account.
Relink(p, a) ==
  /\ member[p] # 0
  /\ New(a)
  /\ Edit
  /\ row' = Cancelled({p}, FALSE)
  /\ member' = [member EXCEPT ![p] = a] /\ created' = a
  /\ UNCHANGED <<contact, consumer, receipts, pass, accepted, wait, faults>>

-----------------------------------------------------------------------------
(* Consumption: one transaction, but its reads take no locks *)

Reachable(p) == member[p] # 0 /\ contact[member[p]].enabled

\* The unique receipt keeps a second consumer of the event waiting.
ReadContacts(k, e) ==
  /\ consumer[k] = Free
  /\ e \notin receipts /\ \A j \in Consumers : consumer[j].event # e
  /\ consumer' = [consumer EXCEPT ![k] =
                    [event |-> e, read |-> {<<p, contact[member[p]].dest>> :
                                              p \in {q \in Participants : Reachable(q)}}]]
  /\ UNCHANGED <<people, receipts, row, pass, accepted, wait, faults, edits>>

Intent(d) == [NoRow EXCEPT !.status = "pending", !.dest = d]
CommitIntents(k) ==
  LET e == consumer[k].event
  IN  /\ consumer[k] # Free
      /\ row' = [n \in Rows |->
                   IF n[1] = e /\ \E d \in Destinations : <<n[2], d>> \in consumer[k].read
                     THEN Intent(CHOOSE d \in Destinations : <<n[2], d>> \in consumer[k].read)
                     ELSE row[n]]
      /\ receipts' = receipts \cup {e}
      /\ consumer' = [consumer EXCEPT ![k] = Free]
      /\ UNCHANGED <<people, pass, accepted, wait, faults, edits>>

ConsumptionRollsBack(k) ==
  /\ consumer[k] # Free
  /\ Fault
  /\ consumer' = [consumer EXCEPT ![k] = Free]
  /\ UNCHANGED <<people, receipts, row, pass, accepted, wait, edits>>

-----------------------------------------------------------------------------
(* Delivery: a pass claims row by row, at most Width calls at a time *)

Answered(q, c, a) == [pass EXCEPT ![q].calls = (@ \ {c}) \cup {[c EXCEPT !.answer = a]}]
Open(q)  == pass[q].live /\ ~pass[q].dry /\ pass[q].claimed < Batch
Idle(q)  == Open(q) /\ Cardinality(pass[q].calls) < Width
\* next_attempt_at and locked_until against started_at of the pass.
Past(q, t) == t <= -pass[q].age

\* Mutants: a row under a lease is claimed as well; one whose lease lapsed is not.
ClaimableLeased(q, n) == row[n].status = "pending" /\ Past(q, row[n].due)
ClaimableFree(q, n) == row[n].status = "pending" /\ Past(q, row[n].due) /\ ~row[n].held
Claimable(q, n) ==
  /\ row[n].status = "pending" /\ Past(q, row[n].due)
  /\ row[n].held => Past(q, row[n].lock)
First(q, n) == Claimable(q, n) /\ \A m \in Rows : Claimable(q, m) => row[n].due <= row[m].due

StartPass(q) ==
  /\ ~pass[q].live /\ wait = 0
  /\ pass' = [pass EXCEPT ![q].live = TRUE]
  /\ wait' = Interval
  /\ UNCHANGED <<people, consumer, receipts, row, accepted, faults, edits>>

Leased(q, n) == [row[n] EXCEPT !.held = TRUE, !.lock = Lease - pass[q].age, !.tries = @ + 1]

\* claim_external_notifications with limit 1; the call starts at once.
Claim(q, n) ==
  /\ Idle(q) /\ First(q, n)
  /\ row' = [row EXCEPT ![n] = Leased(q, n)]
  /\ pass' = [pass EXCEPT
       ![q].claimed = @ + 1,
       ![q].calls = @ \cup {[n |-> n, try |-> row'[n].tries, age |-> 0, answer |-> "none"]}]
  /\ UNCHANGED <<people, consumer, receipts, accepted, wait, faults, edits>>

\* Nothing is due: no worker of the pass claims again.
RunsDry(q) ==
  /\ Idle(q) /\ \A n \in Rows : ~Claimable(q, n)
  /\ pass' = [pass EXCEPT ![q].dry = TRUE]
  /\ UNCHANGED <<people, consumer, receipts, row, accepted, wait, faults, edits>>

Accepts(q, c) ==
  /\ c.answer = "none"
  /\ pass' = Answered(q, c, "ok")
  /\ accepted' = [accepted EXCEPT ![c.n] = @ + 1]
  /\ UNCHANGED <<people, consumer, receipts, row, wait, faults, edits>>

\* A timeout, an error or an unreadable answer may follow a message that was taken.
CallFails(q, c) ==
  /\ c.answer = "none"
  /\ Fault
  /\ \/ /\ pass' = Answered(q, c, "retryable")
        /\ accepted' = [accepted EXCEPT ![c.n] = @ + 1] \/ UNCHANGED accepted
     \/ /\ pass' = Answered(q, c, "permanent")
        /\ UNCHANGED accepted
  /\ UNCHANGED <<people, consumer, receipts, row, wait, edits>>

\* Mutant: the outcome is recorded whoever holds the row.
OwnsPending(c) == row[c.n].status # "none"
Owns(c) == row[c.n].status = "pending" /\ row[c.n].held /\ row[c.n].tries = c.try

\* Mutant: every answer is a delivery.
OutcomeSent(q, c) == [row[c.n] EXCEPT !.status = "sent", !.held = FALSE, !.lock = 0, !.due = 0]
\* _mark_sent, _mark_failure; the retry is due after started_at.
Outcome(q, c) ==
  CASE c.answer = "ok" -> [row[c.n] EXCEPT !.status = "sent", !.held = FALSE, !.lock = 0, !.due = 0]
    [] c.answer = "retryable" /\ row[c.n].tries < MaxAttempts ->
         [row[c.n] EXCEPT !.held = FALSE, !.lock = 0, !.due = 1 - pass[q].age]
    [] OTHER -> Ended(c.n, row[c.n].dest)

Record(q, c) ==
  /\ c.answer # "none"
  /\ row' = IF Owns(c) THEN [row EXCEPT ![c.n] = Outcome(q, c)] ELSE row
  /\ pass' = [pass EXCEPT ![q].calls = @ \ {c}]
  /\ UNCHANGED <<people, consumer, receipts, accepted, wait, faults, edits>>

PassEnds(q) ==
  /\ pass[q].live /\ ~Open(q) /\ pass[q].calls = {}
  /\ pass' = [pass EXCEPT ![q] = NoPass]
  /\ UNCHANGED <<people, consumer, receipts, row, accepted, wait, faults, edits>>

\* The execution dies, or reaches its time limit; some of its calls arrive.
PassLost(q) ==
  /\ pass[q].live
  /\ IF pass[q].age = MaxAge THEN faults' = faults ELSE Fault
  /\ \E S \in SUBSET {c \in pass[q].calls : c.answer = "none"} :
       accepted' = [n \in Rows |-> accepted[n] + Cardinality({c \in S : c.n = n})]
  /\ pass' = [pass EXCEPT ![q] = NoPass]
  /\ UNCHANGED <<people, consumer, receipts, row, wait, edits>>

\* A pass that makes no time pass: its workers claim and record at once, and a call
\* is cut off after one unit.
Prompt(q) == ~Idle(q) /\ \A c \in pass[q].calls : c.answer = "none" /\ c.age < 1

Later(n) ==
  IF row[n].status # "pending" THEN row[n] ELSE
  [row[n] EXCEPT !.lock = IF row[n].held /\ @ > -MaxAge THEN @ - 1 ELSE @,
                 !.due = IF @ > -MaxAge THEN @ - 1 ELSE @]
Older(q) ==
  IF ~pass[q].live THEN pass[q] ELSE
  [pass[q] EXCEPT !.age = @ + 1, !.calls = {[c EXCEPT !.age = 1] : c \in pass[q].calls}]

\* A unit of time passes, over a pass that is not prompt only by a stall.
Tick ==
  /\ \A q \in Passes : pass[q].age < MaxAge
  /\ IF \A q \in Passes : pass[q].live => Prompt(q) THEN faults' = faults ELSE Fault
  /\ row' = [n \in Rows |-> Later(n)]
  /\ pass' = [q \in Passes |-> Older(q)]
  /\ wait' = IF wait > 0 THEN wait - 1 ELSE 0
  /\ UNCHANGED <<people, consumer, receipts, accepted, edits>>

-----------------------------------------------------------------------------
Participating ==
  \/ \E a \in Accounts : \/ \E d \in Destinations, on \in BOOLEAN : UpsertContact(a, d, on)
                         \/ DeleteContact(a)
  \/ \E p \in Participants : RevokeMembership(p) \/ \E a \in Accounts : Join(p, a) \/ Relink(p, a)

Consuming ==
  \E k \in Consumers : \/ \E e \in Events : ReadContacts(k, e)
                       \/ CommitIntents(k) \/ ConsumptionRollsBack(k)

Working(q) ==
  \/ \E n \in Rows : Claim(q, n)
  \/ RunsDry(q)
  \/ \E c \in pass[q].calls : Accepts(q, c) \/ Record(q, c)
  \/ PassEnds(q)

Delivering(q) ==
  \/ StartPass(q) \/ Working(q) \/ PassLost(q)
  \/ \E c \in pass[q].calls : CallFails(q, c)

Next ==
  \/ Participating
  \/ Consuming
  \/ \E q \in Passes : Delivering(q)
  \/ Tick

Spec == Init /\ [][Next]_vars

\* The scheduler starts passes again and again, a pass that lives goes on, and time
\* passes; nobody owes an edit, a fault or an event.
Fairness ==
  /\ \A q \in Passes : WF_vars(StartPass(q)) /\ WF_vars(Working(q))
  /\ \A q \in Passes : WF_vars(pass[q].age = MaxAge /\ PassLost(q))
  /\ WF_vars(Tick)
LiveSpec == Spec /\ Fairness

-----------------------------------------------------------------------------
(* Properties *)

\* Every variable keeps its shape; a row is leased only while it is pending.
TypeOK ==
  /\ contact \in [Accounts -> [dest : Destinations \cup {None, Erased}, enabled : BOOLEAN]]
  /\ created \in 0..MaxAccounts /\ member \in [Participants -> 0..MaxAccounts]
  /\ consumer \in [Consumers -> [event : Events \cup {None},
                                 read : SUBSET (Participants \X (Destinations \cup {None, Erased}))]]
  /\ receipts \subseteq Events
  /\ row \in [Rows -> DeliveryRow]
  /\ \A n \in Rows : row[n].held => row[n].status = "pending"
  /\ pass \in [Passes -> Pass]
  /\ wait \in 0..Interval /\ accepted \in [Rows -> Nat]
  /\ faults \in Nat /\ edits \in Nat

\* A row says sent only if the provider took its message, and every message that
\* was taken is an attempt the row counts.
CountsTrue ==
  \A n \in Rows : /\ row[n].status = "sent" => accepted[n] > 0
                  /\ accepted[n] <= row[n].tries

\* A delivery that was sent, failed or withdrawn stays so, whatever a pass that still
\* has its call reports afterwards.
DecisionStands ==
  [][\A n \in Rows : row[n].status \in {"sent", "failed"} => row'[n].status = row[n].status]_vars

\* Overlapping passes send a message twice only after a fault: an answer that was
\* lost, a lost pass, a stall.
NoNeedlessDuplicates == faults = 0 => \A n \in Rows : accepted[n] <= 1

\* A pending row goes to a contact that is enabled.
OnlyConsented ==
  \A n \in Rows : row[n].status = "pending" =>
    \E a \in Accounts : contact[a] = [dest |-> row[n].dest, enabled |-> TRUE]

\* Every pending delivery ends.
EveryDeliveryEnds == \A n \in Rows : row[n].status = "pending" ~> row[n].status # "pending"
=============================================================================
