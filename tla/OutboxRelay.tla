---------------------------- MODULE OutboxRelay ----------------------------
(***************************************************************************)
(* The way of a domain event from the business transaction that enqueues   *)
(* it to the notification intents made from it: platform/event_bus         *)
(* (outbox rows, relay), the Pub/Sub subscription with its dead letters,   *)
(* and notification/consumer.py with the consumption receipt.              *)
(*                                                                         *)
(* One event pump execution relays a batch and then consumes one; several  *)
(* executions overlap, so relays and consumers are processes of their own. *)
(* A message is a copy of an event: <<e, i>> is the i-th copy of e.        *)
(***************************************************************************)
EXTENDS Naturals, Sequences, FiniteSets

CONSTANTS Events,         \* domain events of the business transactions
          Relays,         \* concurrent relay passes
          Consumers,      \* concurrent consumer passes
          MaxDeliveries,  \* dead_letter_policy.max_delivery_attempts, 5
          MaxFaults       \* bound: crashes, ambiguous replies and stalls

ASSUME OutboxAssumption == MaxDeliveries \in Nat \ {0} /\ MaxFaults \in Nat

VARIABLES
  row,       \* outbox_event rows; status "none" is no row
  relay,     \* the claims each relay holds, with the reply to each publication
  copies,    \* the messages of each event in the subscription, in order of arrival
  consumer,  \* the messages each consumer pulled, and the one it works on
  receipts,  \* events with an event_consumption row
  intents,   \* how often the notification intents of each event were created
  seq,       \* the next fresh lock token: uuid4()
  faults     \* faults so far

vars == <<row, relay, copies, consumer, receipts, intents, seq, faults>>

OutboxRow == [status : {"none", "ready", "leased", "published"}, token : Nat, lapsed : BOOLEAN]
Claims    == [event : Events, token : Nat, reply : {"unsent", "ok", "error"}]
Message   == [state : {"waiting", "out", "acked", "dead"}, tries : Nat]
\* The copy of an event and the delivery attempt its ack_id belongs to.
Delivery  == [event : Events, copy : Nat \ {0}, try : Nat]
Pass      == [held : SUBSET Delivery, step : {"next", "ack", "nack"}, now : SUBSET Delivery]
Resting   == [held |-> {}, step |-> "next", now |-> {}]

Init ==
  /\ row = [e \in Events |-> [status |-> "none", token |-> 0, lapsed |-> FALSE]]
  /\ relay = [r \in Relays |-> {}]
  /\ copies = [e \in Events |-> <<>>]
  /\ consumer = [k \in Consumers |-> Resting]
  /\ receipts = {}
  /\ intents = [e \in Events |-> 0]
  /\ seq = 1 /\ faults = 0

Fault == faults < MaxFaults /\ faults' = faults + 1

\* enqueue_domain_event: the row is committed with the business state.
Enqueue(e) ==
  /\ row[e].status = "none"
  /\ row' = [row EXCEPT ![e].status = "ready"]
  /\ UNCHANGED <<relay, copies, consumer, receipts, intents, seq, faults>>

-----------------------------------------------------------------------------
(* The relay: claim a batch, publish its events concurrently, finalize *)

\* Mutants: a live lease is taken over; a lapsed one is not.
ClaimableLeased(e) == row[e].status \in {"ready", "leased"}
ClaimableReady(e) == row[e].status = "ready"
Claimable(e) ==
  \/ row[e].status = "ready"
  \/ row[e].status = "leased" /\ row[e].lapsed

\* claim_outbox_events: any of the claimable rows, since only the due ones are taken.
Claim(r, batch) ==
  /\ relay[r] = {}
  /\ batch # {} /\ \A e \in batch : Claimable(e)
  /\ row' = [e \in Events |-> IF e \in batch
                                THEN [status |-> "leased", token |-> seq, lapsed |-> FALSE]
                                ELSE row[e]]
  /\ relay' = [relay EXCEPT ![r] = [event : batch, token : {seq}, reply : {"unsent"}]]
  /\ seq' = seq + 1
  /\ UNCHANGED <<copies, consumer, receipts, intents, faults>>

Replied(r, c, s) == relay' = [relay EXCEPT ![r] = (@ \ {c}) \cup {[c EXCEPT !.reply = s]}]
Arrives(e) == copies' = [copies EXCEPT ![e] = Append(@, [state |-> "waiting", tries |-> 0])]

Published(r, c) ==
  /\ c.reply = "unsent"
  /\ Replied(r, c, "ok")
  /\ Arrives(c.event)
  /\ UNCHANGED <<row, consumer, receipts, intents, seq, faults>>

\* An error or a timeout: the topic may have the message nevertheless.
PublishFails(r, c) ==
  /\ c.reply = "unsent"
  /\ Fault
  /\ Replied(r, c, "error")
  /\ Arrives(c.event) \/ UNCHANGED copies
  /\ UNCHANGED <<row, consumer, receipts, intents, seq>>

OwnsLease(c) == row[c.event].status = "leased" /\ row[c.event].token = c.token

\* mark_outbox_published, mark_outbox_failed.
Outcome(c) == [status |-> IF c.reply = "ok" THEN "published" ELSE "ready",
               token |-> 0, lapsed |-> FALSE]

\* The second transaction of relay_outbox_once, after every publication answered.
Finalize(r) ==
  /\ relay[r] # {} /\ \A c \in relay[r] : c.reply # "unsent"
  /\ row' = [e \in Events |->
               IF \E c \in relay[r] : c.event = e /\ OwnsLease(c)
                 THEN Outcome(CHOOSE c \in relay[r] : c.event = e)
                 ELSE row[e]]
  /\ relay' = [relay EXCEPT ![r] = {}]
  /\ UNCHANGED <<copies, consumer, receipts, intents, seq, faults>>

RelayCrashes(r) ==
  /\ relay[r] # {}
  /\ Fault
  /\ relay' = [relay EXCEPT ![r] = {}]
  /\ UNCHANGED <<row, copies, consumer, receipts, intents, seq>>

\* The clock passes locked_until; under a live relay only by a stall, since the lease
\* is longer than a publication may take and all of a batch start at once.
LeaseLapses(e) ==
  /\ row[e].status = "leased" /\ ~row[e].lapsed
  /\ IF \E r \in Relays : \E c \in relay[r] : c.event = e /\ c.token = row[e].token
       THEN Fault ELSE faults' = faults
  /\ row' = [row EXCEPT ![e].lapsed = TRUE]
  /\ UNCHANGED <<relay, copies, consumer, receipts, intents, seq>>

-----------------------------------------------------------------------------
(* The subscription and the consumer *)

CopiesOf(e) == {[event |-> e, copy |-> i] : i \in DOMAIN copies[e]}
Waiting == {d \in UNION {CopiesOf(e) : e \in Events} : copies[d.event][d.copy].state = "waiting"}
Pulled(S) == [e \in Events |-> [i \in DOMAIN copies[e] |->
                IF [event |-> e, copy |-> i] \in S
                  THEN [state |-> "out", tries |-> copies[e][i].tries + 1]
                  ELSE copies[e][i]]]
Delivered(S) == {[event |-> d.event, copy |-> d.copy, try |-> copies[d.event][d.copy].tries + 1] : d \in S}

\* pull: any of the messages that wait.
Pull(k, S) ==
  /\ consumer[k] = Resting
  /\ S # {}
  /\ copies' = Pulled(S)
  /\ consumer' = [consumer EXCEPT ![k].held = Delivered(S)]
  /\ UNCHANGED <<row, relay, receipts, intents, seq, faults>>

Takes(k, d, s) ==
  /\ consumer[k].step = "next" /\ d \in consumer[k].held
  /\ consumer' = [consumer EXCEPT ![k].step = s, ![k].now = {d}]

\* Mutant: no receipt is looked for.
FreshAlways(e) == TRUE
Fresh(e) == e \notin receipts

\* consume_notification_event: the receipt and the intents in one transaction; the
\* unique key of the receipt decides between two consumers.
Consumed(e) ==
  /\ receipts' = receipts \cup {e}
  /\ intents' = IF Fresh(e) THEN [intents EXCEPT ![e] = @ + 1] ELSE intents

Consume(k, d) ==
  /\ Takes(k, d, "ack")
  /\ Consumed(d.event)
  /\ UNCHANGED <<row, relay, copies, seq, faults>>

\* The transaction fails, or its commit is not confirmed.
ConsumeFails(k, d) ==
  /\ Takes(k, d, "nack")
  /\ Fault
  /\ Consumed(d.event) \/ UNCHANGED <<receipts, intents>>
  /\ UNCHANGED <<row, relay, copies, seq>>

\* The ack_id is still that of the last delivery.
InTime(d) == copies[d.event][d.copy] = [state |-> "out", tries |-> d.try]
Becomes(d, s) == copies' = [copies EXCEPT ![d.event][d.copy].state = s]
\* A message that is not acknowledged comes again, or is a dead letter.
Returned(d) == Becomes(d, IF copies[d.event][d.copy].tries < MaxDeliveries THEN "waiting" ELSE "dead")
Done(k, d) == consumer' = [consumer EXCEPT ![k] = [held |-> @.held \ {d}, step |-> "next", now |-> {}]]

\* Mutant: the message is acknowledged before the transaction commits.
AcknowledgeableEarly(k, d) == d \in consumer[k].held /\ consumer[k].step # "nack"
Acknowledgeable(k, d) == d \in consumer[k].now /\ consumer[k].step = "ack"

\* A late acknowledgement may or may not count.
Acknowledge(k, d) ==
  /\ Acknowledgeable(k, d)
  /\ \/ Becomes(d, "acked") /\ (InTime(d) \/ copies[d.event][d.copy].state # "dead")
     \/ UNCHANGED copies /\ ~InTime(d)
  /\ Done(k, d)
  /\ UNCHANGED <<row, relay, receipts, intents, seq, faults>>

\* The exception handler nacks after a failed acknowledgement too.
AcknowledgeFails(k, d) ==
  /\ Acknowledgeable(k, d)
  /\ Fault
  /\ (InTime(d) /\ Becomes(d, "acked")) \/ UNCHANGED copies
  /\ consumer' = [consumer EXCEPT ![k].step = "nack"]
  /\ UNCHANGED <<row, relay, receipts, intents, seq>>

Nack(k, d) ==
  /\ d \in consumer[k].now /\ consumer[k].step = "nack"
  /\ IF InTime(d) THEN Returned(d) ELSE UNCHANGED copies
  /\ Done(k, d)
  /\ UNCHANGED <<row, relay, receipts, intents, seq, faults>>

\* The pass is lost, or a nack raises and ends it: what it still holds stays out
\* until the acknowledgement deadline.
PassAbandoned(k) ==
  /\ consumer[k] # Resting
  /\ Fault
  /\ consumer' = [consumer EXCEPT ![k] = Resting]
  /\ UNCHANGED <<row, relay, copies, receipts, intents, seq>>

HeldBySomeone(e, i) ==
  \E k \in Consumers : \E d \in consumer[k].held :
    d.event = e /\ d.copy = i /\ d.try = copies[e][i].tries

\* ack_deadline_seconds pass; with a live holder only by a stall.
DeadlineLapses(e, i) ==
  /\ copies[e][i].state = "out"
  /\ IF HeldBySomeone(e, i) THEN Fault ELSE faults' = faults
  /\ Returned([event |-> e, copy |-> i])
  /\ UNCHANGED <<row, relay, consumer, receipts, intents, seq>>

-----------------------------------------------------------------------------
Relaying ==
  \/ \E e \in Events : Enqueue(e) \/ LeaseLapses(e)
  \/ \E r \in Relays :
       \/ \E batch \in SUBSET Events : Claim(r, batch)
       \/ \E c \in relay[r] : Published(r, c) \/ PublishFails(r, c)
       \/ Finalize(r) \/ RelayCrashes(r)

Consuming(k) ==
  \/ \E S \in SUBSET Waiting : Pull(k, S)
  \/ \E d \in consumer[k].held :
       \/ Consume(k, d) \/ ConsumeFails(k, d)
       \/ Acknowledge(k, d) \/ AcknowledgeFails(k, d) \/ Nack(k, d)
  \/ PassAbandoned(k)

Next ==
  \/ Relaying
  \/ \E k \in Consumers : Consuming(k)
  \/ \E e \in Events : \E i \in DOMAIN copies[e] : DeadlineLapses(e, i)

Spec == Init /\ [][Next]_vars

\* Cloud Scheduler starts a pump every minute: relays and consumers go on, and take
\* every row and message again that is due.  Faults owe nothing.
Fairness ==
  /\ \A e \in Events :
       /\ SF_vars(\E r \in Relays, batch \in SUBSET Events : e \in batch /\ Claim(r, batch))
       /\ SF_vars(\E k \in Consumers, S \in SUBSET Waiting :
                    (\E d \in S : d.event = e) /\ Pull(k, S))
       /\ WF_vars(LeaseLapses(e))
       /\ WF_vars(\E i \in DOMAIN copies[e] : DeadlineLapses(e, i))
  /\ \A r \in Relays : WF_vars((\E c \in relay[r] : Published(r, c)) \/ Finalize(r))
  /\ \A k \in Consumers :
       WF_vars(\E d \in consumer[k].held : Consume(k, d) \/ Acknowledge(k, d) \/ Nack(k, d))
LiveSpec == Spec /\ Fairness

-----------------------------------------------------------------------------
(* Properties *)

\* Every variable keeps its shape, the CHECK constraints of outbox_event included: a
\* token exactly while a row is leased.
TypeOK ==
  /\ row \in [Events -> OutboxRow]
  /\ \A e \in Events : (row[e].status = "leased") <=> (row[e].token # 0)
  /\ relay \in [Relays -> SUBSET Claims]
  /\ copies \in [Events -> Seq(Message)]
  /\ consumer \in [Consumers -> Pass]
  /\ \A k \in Consumers : consumer[k].now \subseteq consumer[k].held
  /\ receipts \subseteq Events
  /\ intents \in [Events -> Nat]
  /\ seq \in Nat \ {0} /\ faults \in Nat

\* An event has its effect once, however often it is published again after a lost
\* reply and delivered again after a lost acknowledgement.
EffectOnce == \A e \in Events : intents[e] = IF e \in receipts THEN 1 ELSE 0

\* Between its commit and its effect an event is always somewhere it will be taken
\* up from: an unpublished row, a message that is not acknowledged, a dead letter.
InTransit(e) ==
  \/ row[e].status \in {"ready", "leased"}
  \/ \E i \in DOMAIN copies[e] : copies[e][i].state # "acked"
NothingLost == \A e \in Events : row[e].status # "none" /\ e \notin receipts => InTransit(e)

\* A relay that lost its lease does not reopen what another one published.
PublishedStays ==
  [][\A e \in Events : row[e].status = "published" => row'[e].status = "published"]_vars

\* Overlapping relays publish an event twice only after a fault.
NoNeedlessDuplicates == faults = 0 => \A e \in Events : Len(copies[e]) <= 1

\* With fewer faults than deliveries every committed event has its effect.
TakesEffect == \A e \in Events : row[e].status = "ready" ~> e \in receipts
=============================================================================
