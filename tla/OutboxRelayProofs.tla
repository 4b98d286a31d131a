------------------------- MODULE OutboxRelayProofs -------------------------
(***************************************************************************)
(* Theorems about OutboxRelay, for every set of events, relays and         *)
(* consumers and every bound.                                              *)
(***************************************************************************)
EXTENDS OutboxRelay, SequenceTheorems, TLAPS

-----------------------------------------------------------------------------
(* The inductive invariant *)

\* What a relay was told is in the topic is in the topic, and so is what it recorded.
RepliesTrue == \A r \in Relays : \A c \in relay[r] : c.reply = "ok" => Len(copies[c.event]) > 0
PublishedTrue == \A e \in Events : row[e].status = "published" => Len(copies[e]) > 0
\* A pass holds messages that were delivered to it, and acknowledges what it consumed.
HeldExists == \A k \in Consumers : \A d \in consumer[k].held : d.copy \in DOMAIN copies[d.event]
AckFollowsReceipt ==
  \A k \in Consumers : consumer[k].step = "ack" => \A d \in consumer[k].now : d.event \in receipts
AckedConsumed ==
  \A e \in Events : \A i \in DOMAIN copies[e] : copies[e][i].state = "acked" => e \in receipts

IInv == /\ TypeOK
        /\ RepliesTrue /\ PublishedTrue
        /\ HeldExists /\ AckFollowsReceipt /\ AckedConsumed
        /\ EffectOnce

-----------------------------------------------------------------------------
(* The subscription only grows *)

\* No message leaves it, and one is acknowledged only for an event with a receipt.
Grows ==
  /\ copies' \in [Events -> Seq(Message)]
  /\ \A e \in Events :
       /\ Len(copies[e]) <= Len(copies'[e])
       /\ \A i \in DOMAIN copies'[e] : copies'[e][i].state = "acked" =>
            (i \in DOMAIN copies[e] /\ copies[e][i].state = "acked") \/ e \in receipts

\* No message joins it.
SameLength == \A e \in Events : Len(copies'[e]) = Len(copies[e])

LEMMA UnchangedGrows == TypeOK /\ UNCHANGED copies => Grows /\ SameLength
  BY DEF TypeOK, Grows, SameLength

LEMMA ArrivesGrows ==
  ASSUME TypeOK, NEW e \in Events, Arrives(e)
  PROVE  /\ Grows /\ Len(copies'[e]) = Len(copies[e]) + 1
         /\ \A f \in Events : f # e => Len(copies'[f]) = Len(copies[f])
  <1> DEFINE m == [state |-> "waiting", tries |-> 0]
  <1>1. m \in Message /\ m.state = "waiting"
    BY DEF Message
  <1>2. \A f \in Events : copies[f] \in Seq(Message)
    BY DEF TypeOK
  <1>3. copies' = [copies EXCEPT ![e] = Append(@, m)]
    BY DEF Arrives
  <1> HIDE DEF m
  <1>4. /\ Append(copies[e], m) \in Seq(Message)
        /\ Len(Append(copies[e], m)) = Len(copies[e]) + 1
        /\ \A i \in 1..Len(copies[e]) : Append(copies[e], m)[i] = copies[e][i]
        /\ Append(copies[e], m)[Len(copies[e]) + 1] = m
    BY <1>1, <1>2, AppendProperties
  <1>5. DOMAIN Append(copies[e], m) = 1..(Len(copies[e]) + 1) /\ DOMAIN copies[e] = 1..Len(copies[e])
    BY <1>2, <1>4, LenProperties
  <1>6. /\ copies' \in [Events -> Seq(Message)]
        /\ copies'[e] = Append(copies[e], m)
        /\ \A f \in Events : f # e => copies'[f] = copies[f]
    BY <1>3, <1>4 DEF TypeOK
  <1>7. ASSUME NEW f \in Events
        PROVE  Len(copies[f]) <= Len(copies'[f])
    BY <1>2, <1>4, <1>6, LenProperties
  <1>8. ASSUME NEW f \in Events, NEW i \in DOMAIN copies'[f], copies'[f][i].state = "acked"
        PROVE  i \in DOMAIN copies[f] /\ copies[f][i].state = "acked"
    <2>1. CASE f # e
      BY <2>1, <1>6, <1>8
    <2>2. CASE f = e
      <3>1. Len(copies[e]) \in Nat
        BY <1>2, LenProperties
      <3>2. i # Len(copies[e]) + 1
        BY <2>2, <1>1, <1>4, <1>6, <1>8
      <3>3. i \in 1..Len(copies[e])
        BY <2>2, <3>1, <3>2, <1>5, <1>6
      <3> QED
        BY <2>2, <3>3, <1>4, <1>5, <1>6, <1>8
    <2> QED
      BY <2>1, <2>2
  <1> QED
    BY <1>4, <1>6, <1>7, <1>8 DEF Grows

LEMMA BecomesGrows ==
  ASSUME TypeOK, NEW d, d.event \in Events, d.copy \in DOMAIN copies[d.event],
         NEW s \in {"waiting", "acked", "dead"}, s = "acked" => d.event \in receipts,
         Becomes(d, s)
  PROVE  Grows /\ SameLength
  <1> DEFINE e == d.event
             j == d.copy
             q == copies[e]
             t == [q EXCEPT ![j].state = s]
  <1>1. q \in Seq(Message) /\ e \in Events /\ j \in DOMAIN q
    BY DEF TypeOK
  <1>2. copies' = [copies EXCEPT ![e] = t]
    BY DEF Becomes
  <1>3. q[j] \in Message
    BY <1>1, ElementOfSeq, LenProperties
  <1>4. [q[j] EXCEPT !.state = s] \in Message /\ [q[j] EXCEPT !.state = s].state = s
    BY <1>3 DEF Message
  <1>5. t = [q EXCEPT ![j] = [q[j] EXCEPT !.state = s]]
    OBVIOUS
  <1>6. DOMAIN t = DOMAIN q /\ t[j] = [q[j] EXCEPT !.state = s]
        /\ \A i \in DOMAIN q : i # j => t[i] = q[i]
    BY <1>1, <1>5
  <1>7. t \in Seq(Message) /\ Len(t) = Len(q)
    BY <1>1, <1>4, <1>5, ExceptSeq, LenProperties
  <1> HIDE DEF t, q, e, j
  <1>8. /\ copies' \in [Events -> Seq(Message)]
        /\ copies'[e] = t
        /\ \A f \in Events : f # e => copies'[f] = copies[f]
    BY <1>1, <1>2, <1>7 DEF TypeOK
  <1>9. ASSUME NEW f \in Events
        PROVE  Len(copies[f]) <= Len(copies'[f]) /\ Len(copies'[f]) = Len(copies[f])
    <2>1. copies[f] \in Seq(Message) /\ Len(copies[f]) \in Nat
      BY LenProperties DEF TypeOK
    <2>2. Len(copies'[f]) = Len(copies[f])
      BY <1>7, <1>8 DEF q
    <2> QED
      BY <2>1, <2>2
  <1>10. ASSUME NEW f \in Events, NEW i \in DOMAIN copies'[f], copies'[f][i].state = "acked"
         PROVE  (i \in DOMAIN copies[f] /\ copies[f][i].state = "acked") \/ f \in receipts
    <2>1. CASE f # e
      BY <2>1, <1>8, <1>10
    <2>2. CASE f = e /\ i = j
      <3>1. s = "acked"
        BY <2>2, <1>4, <1>6, <1>8, <1>10
      <3> QED
        BY <2>2, <3>1 DEF e
    <2>3. CASE f = e /\ i # j
      BY <2>3, <1>6, <1>8, <1>10 DEF q
    <2> QED
      BY <2>1, <2>2, <2>3
  <1> QED
    BY <1>8, <1>9, <1>10 DEF Grows, SameLength

LEMMA PulledGrows ==
  ASSUME TypeOK, NEW S, copies' = Pulled(S)
  PROVE  Grows /\ SameLength
  <1>1. ASSUME NEW e \in Events
        PROVE  /\ Pulled(S)[e] \in Seq(Message)
               /\ Len(Pulled(S)[e]) = Len(copies[e])
               /\ DOMAIN Pulled(S)[e] = DOMAIN copies[e]
               /\ \A i \in DOMAIN copies[e] :
                    Pulled(S)[e][i].state = "acked" => copies[e][i].state = "acked"
    <2> DEFINE q == copies[e]
               t == [i \in DOMAIN q |-> IF [event |-> e, copy |-> i] \in S
                                          THEN [state |-> "out", tries |-> q[i].tries + 1]
                                          ELSE q[i]]
    <2>1. q \in Seq(Message) /\ Len(q) \in Nat /\ DOMAIN q = 1..Len(q)
      BY LenProperties DEF TypeOK
    <2>2. \A i \in DOMAIN q : q[i] \in Message
      BY <2>1, ElementOfSeq
    <2>3. \A i \in DOMAIN q : t[i] \in Message /\ (t[i].state = "acked" => q[i].state = "acked")
      BY <2>2 DEF Message
    <2>4. t \in Seq(Message) /\ Len(t) = Len(q)
      <3>1. t \in [1..Len(q) -> Message]
        BY <2>1, <2>3
      <3> HIDE DEF t
      <3>2. t \in Seq(Message)
        BY <2>1, <2>3, <3>1, SeqDef
      <3>3. DOMAIN t = 1..Len(q)
        BY <3>1
      <3> QED
        BY <2>1, <3>2, <3>3, LenProperties
    <2>5. Pulled(S)[e] = t
      BY DEF Pulled
    <2> QED
      BY <2>3, <2>4, <2>5
  <1>2. copies' \in [Events -> Seq(Message)]
    BY <1>1 DEF Pulled
  <1>3. \A e \in Events : Len(copies[e]) \in Nat
    BY LenProperties DEF TypeOK
  <1> QED
    BY <1>1, <1>2, <1>3 DEF Grows, SameLength

\* What a pass holds is a message of the subscription.
LEMMA HeldIs ==
  ASSUME TypeOK, HeldExists, NEW k \in Consumers, NEW d \in consumer[k].held
  PROVE  /\ d.event \in Events /\ d.copy \in DOMAIN copies[d.event]
         /\ d \in Delivery
  <1>1. consumer[k] \in Pass
    BY DEF TypeOK
  <1> QED
    BY <1>1 DEF Pass, Delivery, HeldExists

LEMMA ReturnedGrows ==
  ASSUME TypeOK, NEW d, d.event \in Events, d.copy \in DOMAIN copies[d.event], Returned(d)
  PROVE  Grows /\ SameLength
  <1>1. PICK s \in {"waiting", "dead"} : Becomes(d, s)
    BY DEF Returned
  <1> QED
    BY <1>1, BecomesGrows

LEMMA StepGrows == IInv /\ [Next]_vars => Grows /\ receipts \subseteq receipts'
  <1> SUFFICES ASSUME IInv, [Next]_vars
               PROVE  Grows /\ receipts \subseteq receipts'
    OBVIOUS
  <1> USE DEF IInv
  <1>1. CASE Relaying
    <2>1. receipts' = receipts
      BY <1>1 DEF Relaying, Enqueue, LeaseLapses, Claim, Published, PublishFails, Finalize, RelayCrashes
    <2>2. UNCHANGED copies \/ \E e \in Events : Arrives(e)
      <3>1. \A r \in Relays : \A c \in relay[r] : c.event \in Events
        BY DEF TypeOK, Claims
      <3> QED
        BY <1>1, <3>1 DEF Relaying, Enqueue, LeaseLapses, Claim, Published, PublishFails, Finalize, RelayCrashes
    <2> QED
      BY <2>1, <2>2, UnchangedGrows, ArrivesGrows
  <1>2. ASSUME NEW k \in Consumers, Consuming(k)
        PROVE  Grows /\ receipts \subseteq receipts'
    <2>1. ASSUME NEW S \in SUBSET Waiting, Pull(k, S)
          PROVE  Grows /\ receipts \subseteq receipts'
      BY <2>1, PulledGrows DEF Pull
    <2>2. ASSUME NEW d \in consumer[k].held, Consume(k, d) \/ ConsumeFails(k, d)
          PROVE  Grows /\ receipts \subseteq receipts'
      BY <2>2, UnchangedGrows DEF Consume, ConsumeFails, Consumed
    <2>3. ASSUME NEW d \in consumer[k].held, Acknowledge(k, d) \/ AcknowledgeFails(k, d)
          PROVE  Grows /\ receipts \subseteq receipts'
      <3>1. d.event \in Events /\ d.copy \in DOMAIN copies[d.event]
        BY HeldIs
      <3>2. d.event \in receipts
        BY <2>3 DEF Acknowledge, AcknowledgeFails, Acknowledgeable, AckFollowsReceipt
      <3>3. Becomes(d, "acked") \/ UNCHANGED copies
        BY <2>3 DEF Acknowledge, AcknowledgeFails
      <3>4. receipts' = receipts
        BY <2>3 DEF Acknowledge, AcknowledgeFails
      <3> QED
        BY <3>1, <3>2, <3>3, <3>4, BecomesGrows, UnchangedGrows
    <2>4. ASSUME NEW d \in consumer[k].held, Nack(k, d)
          PROVE  Grows /\ receipts \subseteq receipts'
      <3>1. d.event \in Events /\ d.copy \in DOMAIN copies[d.event]
        BY HeldIs
      <3> QED
        BY <2>4, <3>1, ReturnedGrows, UnchangedGrows DEF Nack
    <2>5. CASE PassAbandoned(k)
      BY <2>5, UnchangedGrows DEF PassAbandoned
    <2> QED
      BY <1>2, <2>1, <2>2, <2>3, <2>4, <2>5 DEF Consuming
  <1>3. ASSUME NEW e \in Events, NEW i \in DOMAIN copies[e], DeadlineLapses(e, i)
        PROVE  Grows /\ receipts \subseteq receipts'
    BY <1>3, ReturnedGrows DEF DeadlineLapses
  <1>4. CASE UNCHANGED vars
    BY <1>4, UnchangedGrows DEF vars
  <1> QED
    BY <1>1, <1>2, <1>3, <1>4 DEF Next

\* An event whose messages were never consumed still has one that is not acknowledged.
LEMMA GrowsKeeps ==
  ASSUME IInv, Grows, receipts \subseteq receipts'
  PROVE  AckedConsumed' /\ \A e \in Events : Len(copies[e]) > 0 => Len(copies'[e]) > 0
  <1>1. AckedConsumed'
    BY DEF IInv, Grows, AckedConsumed
  <1>2. \A e \in Events : Len(copies[e]) \in Nat /\ Len(copies'[e]) \in Nat
    BY LenProperties DEF Grows, IInv, TypeOK
  <1> QED
    BY <1>1, <1>2 DEF Grows

-----------------------------------------------------------------------------
(* Preservation, one lemma for the outbox and one for the consumers *)

LEMMA InitHolds == Init => IInv
  <1> SUFFICES ASSUME Init
               PROVE  IInv
    OBVIOUS
  <1> USE DEF Init
  <1>1. TypeOK
    <2>1. Resting \in Pass /\ Resting.now \subseteq Resting.held
      BY DEF Resting, Pass
    <2> QED
      BY <2>1, OutboxAssumption DEF TypeOK, OutboxRow
  <1>2. HeldExists /\ AckFollowsReceipt
    BY DEF HeldExists, AckFollowsReceipt, Resting
  <1>3. AckedConsumed
    BY DEF AckedConsumed
  <1>4. RepliesTrue /\ PublishedTrue /\ EffectOnce
    BY DEF RepliesTrue, PublishedTrue, EffectOnce
  <1> QED
    BY <1>1, <1>2, <1>3, <1>4 DEF IInv

\* The conjuncts of TypeOK that speak of rows and relays.
RelayTyped ==
  /\ row \in [Events -> OutboxRow]
  /\ \A e \in Events : (row[e].status = "leased") <=> (row[e].token # 0)
  /\ relay \in [Relays -> SUBSET Claims]
  /\ seq \in Nat \ {0}

LEMMA FaultType == TypeOK /\ (Fault \/ UNCHANGED faults) => faults' \in Nat
  BY DEF TypeOK, Fault

LEMMA RelayingKeeps ==
  ASSUME IInv, Relaying
  PROVE  RelayTyped' /\ RepliesTrue' /\ PublishedTrue'
  <1>1. Grows /\ \A e \in Events : Len(copies[e]) > 0 => Len(copies'[e]) > 0
    BY StepGrows, GrowsKeeps DEF Next
  <1> USE DEF IInv
  <1>2. ASSUME NEW e \in Events, Enqueue(e)
        PROVE  RelayTyped' /\ RepliesTrue' /\ PublishedTrue'
    BY <1>2 DEF Enqueue, TypeOK, RelayTyped, OutboxRow, RepliesTrue, PublishedTrue
  <1>3. ASSUME NEW e \in Events, LeaseLapses(e)
        PROVE  RelayTyped' /\ RepliesTrue' /\ PublishedTrue'
    BY <1>3 DEF LeaseLapses, TypeOK, RelayTyped, OutboxRow, RepliesTrue, PublishedTrue
  <1>4. ASSUME NEW r \in Relays, NEW batch \in SUBSET Events, Claim(r, batch)
        PROVE  RelayTyped' /\ RepliesTrue' /\ PublishedTrue'
    <2> DEFINE C == [event : batch, token : {seq}, reply : {"unsent"}]
    <2>1. C \in SUBSET Claims /\ \A c \in C : c.reply = "unsent"
      BY DEF TypeOK, Claims
    <2>2. relay' = [relay EXCEPT ![r] = C] /\ UNCHANGED copies
      BY <1>4 DEF Claim
    <2> HIDE DEF C
    <2>3. relay' \in [Relays -> SUBSET Claims] /\ RepliesTrue'
      BY <2>1, <2>2 DEF TypeOK, RepliesTrue
    <2>4. \A e \in Events : row'[e] = [status |-> "leased", token |-> seq, lapsed |-> FALSE] \/ row'[e] = row[e]
      BY <1>4 DEF Claim
    <2>5. \A e \in Events : row'[e] \in OutboxRow /\ ((row'[e].status = "leased") <=> (row'[e].token # 0))
      <3> DEFINE x == [status |-> "leased", token |-> seq, lapsed |-> FALSE]
      <3>1. x \in OutboxRow /\ x.status = "leased" /\ x.token # 0
        BY DEF TypeOK, OutboxRow
      <3>2. \A e \in Events : row'[e] = x \/ row'[e] = row[e]
        BY <2>4
      <3> HIDE DEF x
      <3> QED
        BY <3>1, <3>2 DEF TypeOK
    <2>6. row' \in [Events -> OutboxRow] /\ seq' \in Nat \ {0}
      <3>1. row' = [e \in Events |-> row'[e]] /\ seq' = seq + 1
        BY <1>4 DEF Claim
      <3> QED
        BY <2>5, <3>1 DEF TypeOK
    <2>7. PublishedTrue'
      BY <2>2, <2>4 DEF PublishedTrue
    <2> QED
      BY <2>3, <2>5, <2>6, <2>7 DEF RelayTyped
  <1>5. ASSUME NEW r \in Relays, NEW c \in relay[r], Published(r, c) \/ PublishFails(r, c)
        PROVE  RelayTyped' /\ RepliesTrue' /\ PublishedTrue'
    <2>1. c \in Claims
      BY DEF TypeOK
    <2>2. PICK s \in {"ok", "error"} : Replied(r, c, s) /\ (s = "ok" => Arrives(c.event))
      BY <1>5 DEF Published, PublishFails
    <2>3. [c EXCEPT !.reply = s] \in Claims
      BY <2>1 DEF Claims
    <2>4. [c EXCEPT !.reply = s].reply = s /\ [c EXCEPT !.reply = s].event = c.event
      BY <2>1 DEF Claims
    <2>5. relay' \in [Relays -> SUBSET Claims]
      BY <2>2, <2>3 DEF Replied, TypeOK
    <2>6. Arrives(c.event) => Len(copies'[c.event]) > 0
      <3>1. SUFFICES ASSUME Arrives(c.event)
                     PROVE  Len(copies'[c.event]) > 0
        OBVIOUS
      <3> DEFINE m == [state |-> "waiting", tries |-> 0]
      <3>2. c.event \in Events /\ copies[c.event] \in Seq(Message) /\ m \in Message
        BY <2>1 DEF Claims, TypeOK, Message
      <3>3. copies'[c.event] = Append(copies[c.event], m)
        BY <3>1, <3>2 DEF Arrives, TypeOK
      <3>4. Len(copies'[c.event]) = Len(copies[c.event]) + 1
        BY <3>2, <3>3, AppendProperties
      <3> QED
        BY <3>2, <3>4, LenProperties
    <2>7. ASSUME NEW q \in Relays, NEW x \in relay'[q], x.reply = "ok"
          PROVE  Len(copies'[x.event]) > 0
      <3>1. x \in relay[q] \/ x = [c EXCEPT !.reply = s]
        BY <2>2 DEF Replied, TypeOK
      <3>2. x \in relay[q] => x.event \in Events
        BY DEF TypeOK, Claims
      <3>3. x = [c EXCEPT !.reply = s] => Arrives(c.event) /\ x.event = c.event
        BY <2>2, <2>4, <2>7
      <3> QED
        BY <2>6, <2>7, <3>1, <3>2, <3>3, <1>1 DEF RepliesTrue
    <2>8. UNCHANGED <<row, seq>>
      BY <1>5 DEF Published, PublishFails
    <2>9. PublishedTrue'
      BY <2>8, <1>1 DEF PublishedTrue
    <2> QED
      BY <2>5, <2>7, <2>8, <2>9 DEF RelayTyped, RepliesTrue, TypeOK
  <1>6. ASSUME NEW r \in Relays, Finalize(r)
        PROVE  RelayTyped' /\ RepliesTrue' /\ PublishedTrue'
    <2>1. relay' \in [Relays -> SUBSET Claims] /\ RepliesTrue'
      BY <1>6 DEF Finalize, TypeOK, RepliesTrue
    <2>2. ASSUME NEW e \in Events
          PROVE  row'[e] = row[e] \/ \E c \in relay[r] : c.event = e /\ row'[e] = Outcome(c)
      BY <1>6 DEF Finalize
    <2>3. \A c : Outcome(c) \in OutboxRow /\ Outcome(c).token = 0 /\ Outcome(c).status # "leased"
      BY DEF Outcome, OutboxRow
    <2>4. \A e \in Events : row'[e] \in OutboxRow /\ ((row'[e].status = "leased") <=> (row'[e].token # 0))
      BY <2>2, <2>3 DEF TypeOK
    <2>5. row' \in [Events -> OutboxRow] /\ seq' = seq /\ copies' = copies
      BY <1>6, <2>4 DEF Finalize
    <2>6. ASSUME NEW e \in Events, row'[e].status = "published"
          PROVE  Len(copies[e]) > 0
      <3>1. CASE row'[e] = row[e]
        BY <3>1, <2>6 DEF PublishedTrue
      <3>2. CASE \E c \in relay[r] : c.event = e /\ row'[e] = Outcome(c)
        BY <3>2, <2>6 DEF Outcome, RepliesTrue
      <3> QED
        BY <3>1, <3>2, <2>2
    <2> QED
      BY <2>1, <2>4, <2>5, <2>6 DEF RelayTyped, PublishedTrue, TypeOK
  <1>7. ASSUME NEW r \in Relays, RelayCrashes(r)
        PROVE  RelayTyped' /\ RepliesTrue' /\ PublishedTrue'
    BY <1>7 DEF RelayCrashes, TypeOK, RelayTyped, RepliesTrue, PublishedTrue
  <1> QED
    BY <1>2, <1>3, <1>4, <1>5, <1>6, <1>7 DEF Relaying

\* The conjuncts of TypeOK that speak of the subscription and the consumers.
ConsumerTyped ==
  /\ consumer \in [Consumers -> Pass]
  /\ \A k \in Consumers : consumer[k].now \subseteq consumer[k].held
  /\ receipts \subseteq Events
  /\ intents \in [Events -> Nat]

\* What a pass holds after a step was held before, or pulled by the step.
HeldFrom ==
  \A k \in Consumers : \A d \in consumer'[k].held :
    d \in consumer[k].held \/ d.copy \in DOMAIN copies[d.event]

LEMMA HeldFromKeeps == ASSUME IInv, Grows, HeldFrom, consumer' \in [Consumers -> Pass]
                       PROVE  HeldExists'
  <1>1. ASSUME NEW k \in Consumers, NEW d \in consumer'[k].held
        PROVE  d.copy \in DOMAIN copies'[d.event]
    <2>1. d.event \in Events
      <3>1. consumer'[k] \in Pass
        OBVIOUS
      <3> QED
        BY <3>1 DEF Pass, Delivery
    <2>2. d.copy \in DOMAIN copies[d.event]
      BY DEF HeldFrom, HeldExists, IInv
    <2>3. /\ copies[d.event] \in Seq(Message) /\ copies'[d.event] \in Seq(Message)
          /\ Len(copies[d.event]) <= Len(copies'[d.event])
      BY <2>1 DEF Grows, IInv, TypeOK
    <2>4. /\ DOMAIN copies[d.event] = 1..Len(copies[d.event]) /\ Len(copies[d.event]) \in Nat
          /\ DOMAIN copies'[d.event] = 1..Len(copies'[d.event]) /\ Len(copies'[d.event]) \in Nat
      BY <2>3, LenProperties
    <2> QED
      BY <2>2, <2>3, <2>4
  <1> QED
    BY <1>1 DEF HeldExists

LEMMA ConsumedKeeps ==
  ASSUME IInv, NEW e \in Events, Consumed(e)
  PROVE  /\ receipts' \subseteq Events /\ e \in receipts' /\ intents' \in [Events -> Nat]
         /\ EffectOnce'
  <1>1. receipts' = receipts \cup {e} /\ intents \in [Events -> Nat] /\ receipts \subseteq Events
    BY DEF Consumed, IInv, TypeOK
  <1>2. CASE e \in receipts
    BY <1>1, <1>2 DEF Consumed, Fresh, EffectOnce, IInv
  <1>3. CASE e \notin receipts
    <2>1. intents' = [intents EXCEPT ![e] = @ + 1] /\ intents[e] = 0
      BY <1>3 DEF Consumed, Fresh, EffectOnce, IInv
    <2> QED
      BY <1>1, <1>3, <2>1 DEF EffectOnce, IInv
  <1> QED
    BY <1>2, <1>3

LEMMA ConsumingKeeps ==
  ASSUME IInv, NEW k \in Consumers, Consuming(k)
  PROVE  ConsumerTyped' /\ HeldFrom /\ AckFollowsReceipt' /\ EffectOnce'
  <1> USE DEF IInv
  <1>0. consumer[k] \in Pass /\ consumer[k].held \subseteq Delivery /\ consumer[k].now \subseteq consumer[k].held
    <2>1. consumer[k] \in Pass
      BY DEF TypeOK
    <2> QED
      BY <2>1 DEF TypeOK, Pass
  <1>a. ASSUME NEW p, consumer' = [consumer EXCEPT ![k] = p], p \in Pass, p.now \subseteq p.held,
               \A d \in p.held : d \in consumer[k].held \/ d.copy \in DOMAIN copies[d.event]
        PROVE  /\ consumer' \in [Consumers -> Pass] /\ HeldFrom
               /\ \A q \in Consumers : consumer'[q].now \subseteq consumer'[q].held
    BY <1>a DEF TypeOK, HeldFrom
  <1>b. ASSUME NEW p, consumer' = [consumer EXCEPT ![k] = p], p.step = "ack" => \A d \in p.now : d.event \in receipts',
               receipts \subseteq receipts'
        PROVE  AckFollowsReceipt'
    BY <1>b DEF TypeOK, AckFollowsReceipt
  <1>1. ASSUME NEW S \in SUBSET Waiting, Pull(k, S)
        PROVE  ConsumerTyped' /\ HeldFrom /\ AckFollowsReceipt' /\ EffectOnce'
    <2> DEFINE D == Delivered(S)
               p == [consumer[k] EXCEPT !.held = D]
    <2>1. \A d \in D : d \in Delivery /\ d.copy \in DOMAIN copies[d.event]
      <3>1. ASSUME NEW w \in S
            PROVE  /\ w.event \in Events /\ w.copy \in DOMAIN copies[w.event]
                   /\ w.copy \in Nat \ {0} /\ copies[w.event][w.copy].tries + 1 \in Nat
        <4>1. PICK e \in Events : w \in CopiesOf(e)
          BY DEF Waiting
        <4>2. w.event = e /\ w.copy \in DOMAIN copies[e] /\ copies[e] \in Seq(Message)
          BY <4>1 DEF CopiesOf, TypeOK
        <4>3. w.copy \in 1..Len(copies[e]) /\ Len(copies[e]) \in Nat
          BY <4>2, LenProperties
        <4>4. copies[e][w.copy] \in Message
          BY <4>2, <4>3, ElementOfSeq
        <4> QED
          BY <4>2, <4>3, <4>4 DEF Message
      <3> QED
        BY <3>1 DEF Delivered, Delivery
    <2>2. consumer' = [consumer EXCEPT ![k] = p] /\ consumer[k] = Resting
      BY <1>1 DEF Pull
    <2>3. p.held = D /\ p.now = {} /\ p.step = "next" /\ p \in Pass
      BY <2>1, <2>2, <1>0 DEF Resting, Pass
    <2>4. UNCHANGED <<receipts, intents>>
      BY <1>1 DEF Pull
    <2> HIDE DEF p, D
    <2> QED
      BY <2>1, <2>2, <2>3, <2>4, <1>a, <1>b DEF ConsumerTyped, TypeOK, EffectOnce
  <1>2. ASSUME NEW d \in consumer[k].held, Consume(k, d) \/ ConsumeFails(k, d)
        PROVE  ConsumerTyped' /\ HeldFrom /\ AckFollowsReceipt' /\ EffectOnce'
    <2>1. PICK s \in {"ack", "nack"} : Takes(k, d, s) /\ (s = "ack" => Consumed(d.event))
      BY <1>2 DEF Consume, ConsumeFails
    <2> DEFINE p == [consumer[k] EXCEPT !.step = s, !.now = {d}]
    <2>2. consumer' = [consumer EXCEPT ![k] = p]
      BY <2>1 DEF Takes
    <2>3. p \in Pass /\ p.held = consumer[k].held /\ p.now = {d} /\ p.step = s
      BY <1>0 DEF Pass
    <2> HIDE DEF p
    <2>4. Consumed(d.event) \/ UNCHANGED <<receipts, intents>>
      BY <1>2 DEF Consume, ConsumeFails
    <2>5. d.event \in Events
      BY <1>0 DEF Delivery
    <2>6. receipts' \subseteq Events /\ intents' \in [Events -> Nat] /\ EffectOnce' /\ receipts \subseteq receipts'
      BY <2>4, <2>5, ConsumedKeeps DEF TypeOK, EffectOnce, Consumed
    <2>7. s = "ack" => d.event \in receipts'
      BY <2>1, <2>5, ConsumedKeeps
    <2> QED
      BY <2>2, <2>3, <2>6, <2>7, <1>a, <1>b DEF ConsumerTyped
  <1>3. ASSUME NEW d \in consumer[k].held, Acknowledge(k, d) \/ Nack(k, d)
        PROVE  ConsumerTyped' /\ HeldFrom /\ AckFollowsReceipt' /\ EffectOnce'
    <2> DEFINE p == [held |-> consumer[k].held \ {d}, step |-> "next", now |-> {}]
    <2>1. consumer' = [consumer EXCEPT ![k] = p] /\ UNCHANGED <<receipts, intents>>
      BY <1>3 DEF Acknowledge, Nack, Done
    <2>2. p \in Pass /\ p.held \subseteq consumer[k].held /\ p.now = {} /\ p.step = "next"
      BY <1>0 DEF Pass
    <2> HIDE DEF p
    <2> QED
      BY <2>1, <2>2, <1>a, <1>b DEF ConsumerTyped, TypeOK, EffectOnce
  <1>4. ASSUME NEW d \in consumer[k].held, AcknowledgeFails(k, d)
        PROVE  ConsumerTyped' /\ HeldFrom /\ AckFollowsReceipt' /\ EffectOnce'
    <2> DEFINE p == [consumer[k] EXCEPT !.step = "nack"]
    <2>1. consumer' = [consumer EXCEPT ![k] = p] /\ UNCHANGED <<receipts, intents>>
      BY <1>4 DEF AcknowledgeFails
    <2>2. p \in Pass /\ p.held = consumer[k].held /\ p.now = consumer[k].now /\ p.step = "nack"
      BY <1>0 DEF Pass
    <2> HIDE DEF p
    <2> QED
      BY <1>0, <2>1, <2>2, <1>a, <1>b DEF ConsumerTyped, TypeOK, EffectOnce
  <1>5. CASE PassAbandoned(k)
    <2>1. consumer' = [consumer EXCEPT ![k] = Resting] /\ UNCHANGED <<receipts, intents>>
      BY <1>5 DEF PassAbandoned
    <2>2. Resting \in Pass /\ Resting.held = {} /\ Resting.now = {} /\ Resting.step = "next"
      BY DEF Resting, Pass
    <2> HIDE DEF Resting
    <2> QED
      BY <2>1, <2>2, <1>a, <1>b DEF ConsumerTyped, TypeOK, EffectOnce
  <1> QED
    BY <1>1, <1>2, <1>3, <1>4, <1>5 DEF Consuming

LEMMA Kept == IInv /\ [Next]_vars => IInv'
  <1> SUFFICES ASSUME IInv, [Next]_vars
               PROVE  IInv'
    OBVIOUS
  <1>1. /\ Grows /\ receipts \subseteq receipts' /\ AckedConsumed'
        /\ \A e \in Events : Len(copies[e]) > 0 => Len(copies'[e]) > 0
    BY StepGrows, GrowsKeeps
  <1>2. faults' \in Nat
    <2>1. Fault \/ UNCHANGED faults
      BY DEF Next, Relaying, Consuming, Enqueue, LeaseLapses, Claim, Published, PublishFails, Finalize,
             RelayCrashes, Pull, Consume, ConsumeFails, Acknowledge, AcknowledgeFails, Nack,
             PassAbandoned, DeadlineLapses, vars
    <2> QED
      BY <2>1, FaultType DEF IInv
  <1>3. RelayTyped' /\ RepliesTrue' /\ PublishedTrue'
    <2>1. CASE Relaying
      BY <2>1, RelayingKeeps
    <2>2. CASE UNCHANGED <<row, relay, seq>>
      <3>1. RelayTyped'
        BY <2>2 DEF RelayTyped, IInv, TypeOK
      <3>2. \A r \in Relays : \A c \in relay[r] : c.event \in Events
        BY DEF IInv, TypeOK, Claims
      <3>3. RepliesTrue' /\ PublishedTrue'
        BY <1>1, <2>2, <3>2 DEF RepliesTrue, PublishedTrue, IInv
      <3> QED
        BY <3>1, <3>3
    <2>3. Relaying \/ UNCHANGED <<row, relay, seq>>
      BY DEF Next, Consuming, Pull, Consume, ConsumeFails, Acknowledge, AcknowledgeFails, Nack,
             PassAbandoned, DeadlineLapses, vars
    <2> QED
      BY <2>1, <2>2, <2>3
  <1>4. ConsumerTyped' /\ HeldFrom /\ AckFollowsReceipt' /\ EffectOnce'
    <2>1. ASSUME NEW k \in Consumers, Consuming(k)
          PROVE  ConsumerTyped' /\ HeldFrom /\ AckFollowsReceipt' /\ EffectOnce'
      BY <2>1, ConsumingKeeps
    <2>2. CASE UNCHANGED <<consumer, receipts, intents>>
      BY <2>2 DEF ConsumerTyped, HeldFrom, AckFollowsReceipt, EffectOnce, IInv, TypeOK
    <2>3. (\E k \in Consumers : Consuming(k)) \/ UNCHANGED <<consumer, receipts, intents>>
      BY DEF Next, Relaying, Enqueue, LeaseLapses, Claim, Published, PublishFails, Finalize,
             RelayCrashes, DeadlineLapses, vars
    <2> QED
      BY <2>1, <2>2, <2>3
  <1>5. HeldExists'
    BY <1>1, <1>4, HeldFromKeeps DEF ConsumerTyped
  <1>6. TypeOK'
    BY <1>1, <1>2, <1>3, <1>4 DEF TypeOK, RelayTyped, ConsumerTyped, Grows
  <1> QED
    BY <1>1, <1>3, <1>4, <1>5, <1>6 DEF IInv

-----------------------------------------------------------------------------
(* Theorems *)

THEOREM Invariant == Spec => []IInv
  BY InitHolds, Kept, PTL DEF Spec

\* Every variable keeps its shape, and a row has a token exactly while it is leased.
THEOREM TypeCorrect == Spec => []TypeOK
  <1>1. IInv => TypeOK
    BY DEF IInv
  <1> QED
    BY <1>1, Invariant, PTL

\* The notification intents of an event are created once, with its receipt, whatever
\* is published or delivered again.
THEOREM EffectOnlyOnce == Spec => []EffectOnce
  <1>1. IInv => EffectOnce
    BY DEF IInv
  <1> QED
    BY <1>1, Invariant, PTL

\* A committed event without a receipt is an unpublished row, or a message that is
\* not acknowledged.
THEOREM NeverLost == Spec => []NothingLost
  <1>1. IInv => NothingLost
    <2> SUFFICES ASSUME IInv, NEW e \in Events, row[e].status # "none", e \notin receipts
                 PROVE  InTransit(e)
      BY DEF NothingLost
    <2>1. row[e].status \in {"none", "ready", "leased", "published"}
      BY DEF IInv, TypeOK, OutboxRow
    <2>2. CASE row[e].status = "published"
      <3>1. Len(copies[e]) > 0 /\ copies[e] \in Seq(Message)
        BY <2>2 DEF IInv, PublishedTrue, TypeOK
      <3>2. 1 \in DOMAIN copies[e]
        BY <3>1, LenProperties
      <3>3. copies[e][1].state # "acked"
        BY <3>2 DEF IInv, AckedConsumed
      <3> QED
        BY <3>2, <3>3 DEF InTransit
    <2> QED
      BY <2>1, <2>2 DEF InTransit
  <1> QED
    BY <1>1, Invariant, PTL

\* A published row is never opened again, by a relay whose lease was taken over
\* or by any other step.
THEOREM PublicationStands == Spec => PublishedStays
  <1>1. IInv /\ [Next]_vars =>
          [\A e \in Events : row[e].status = "published" => row'[e].status = "published"]_vars
    <2> SUFFICES ASSUME IInv, [Next]_vars, NEW e \in Events, row[e].status = "published"
                 PROVE  row'[e].status = "published"
      OBVIOUS
    <2>1. row \in [Events -> OutboxRow]
      BY DEF IInv, TypeOK
    <2>2. ASSUME NEW f \in Events, Enqueue(f) \/ LeaseLapses(f)
          PROVE  row'[e] = row[e]
      BY <2>1, <2>2 DEF Enqueue, LeaseLapses
    <2>3. ASSUME NEW r \in Relays, NEW batch \in SUBSET Events, Claim(r, batch)
          PROVE  row'[e] = row[e]
      BY <2>3 DEF Claim, Claimable
    <2>4. ASSUME NEW r \in Relays, Finalize(r)
          PROVE  row'[e] = row[e]
      BY <2>4 DEF Finalize, OwnsLease
    <2>5. UNCHANGED row \/ (\E f \in Events : Enqueue(f) \/ LeaseLapses(f))
          \/ (\E r \in Relays : Finalize(r) \/ \E batch \in SUBSET Events : Claim(r, batch))
      BY DEF Next, Relaying, Consuming, Published, PublishFails, RelayCrashes, Pull, Consume,
             ConsumeFails, Acknowledge, AcknowledgeFails, Nack, PassAbandoned, DeadlineLapses, vars
    <2> QED
      BY <2>2, <2>3, <2>4, <2>5
  <1> QED
    BY <1>1, Invariant, PTL DEF Spec, PublishedStays

-----------------------------------------------------------------------------
(* While nothing went wrong *)

\* Every claim holds its lease, and every lease has its claim, which knows whether the
\* message was published.
Clean ==
  /\ \A r \in Relays : \A c \in relay[r] :
       /\ row[c.event].status = "leased" /\ row[c.event].token = c.token
       /\ c.reply # "error" /\ Len(copies[c.event]) = IF c.reply = "ok" THEN 1 ELSE 0
  /\ \A r, s \in Relays : \A c \in relay[r], d \in relay[s] :
       c.event = d.event => r = s /\ c = d
  /\ \A e \in Events :
       /\ row[e].status \in {"none", "ready"} => Len(copies[e]) = 0
       /\ row[e].status = "leased" =>
            ~row[e].lapsed /\ \E r \in Relays : \E c \in relay[r] : c.event = e
       /\ Len(copies[e]) <= 1

CleanInv == faults = 0 => Clean

LEMMA OutsideAddsNothing ==
  ASSUME IInv, ~Relaying, [Next]_vars
  PROVE  SameLength /\ UNCHANGED <<row, relay>>
  <1> USE DEF IInv
  <1>1. ASSUME NEW k \in Consumers, Consuming(k) PROVE SameLength /\ UNCHANGED <<row, relay>>
    <2>1. ASSUME NEW S \in SUBSET Waiting, Pull(k, S) PROVE SameLength /\ UNCHANGED <<row, relay>>
      BY <2>1, PulledGrows DEF Pull
    <2>2. ASSUME NEW d \in consumer[k].held,
                 \/ Consume(k, d) \/ ConsumeFails(k, d)
                 \/ Acknowledge(k, d) \/ AcknowledgeFails(k, d) \/ Nack(k, d)
          PROVE  SameLength /\ UNCHANGED <<row, relay>>
      <3>1. d.event \in Events /\ d.copy \in DOMAIN copies[d.event]
        BY HeldIs
      <3>2. CASE Consume(k, d) \/ ConsumeFails(k, d)
        BY <3>2, UnchangedGrows DEF Consume, ConsumeFails
      <3>3. CASE Acknowledge(k, d) \/ AcknowledgeFails(k, d)
        <4>1. /\ Becomes(d, "acked") \/ UNCHANGED copies
              /\ UNCHANGED <<row, relay>> /\ d.event \in receipts
          BY <3>3 DEF Acknowledge, AcknowledgeFails, Acknowledgeable, AckFollowsReceipt
        <4> QED
          BY <3>1, <4>1, BecomesGrows, UnchangedGrows
      <3>4. CASE Nack(k, d)
        BY <3>1, <3>4, ReturnedGrows, UnchangedGrows DEF Nack
      <3> QED
        BY <2>2, <3>2, <3>3, <3>4
    <2>3. CASE PassAbandoned(k)
      BY <2>3, UnchangedGrows DEF PassAbandoned
    <2> QED
      BY <1>1, <2>1, <2>2, <2>3 DEF Consuming
  <1>2. ASSUME NEW e \in Events, NEW i \in DOMAIN copies[e], DeadlineLapses(e, i)
        PROVE  SameLength /\ UNCHANGED <<row, relay>>
    BY <1>2, ReturnedGrows DEF DeadlineLapses
  <1>3. CASE UNCHANGED vars
    BY <1>3, UnchangedGrows DEF vars
  <1> QED
    BY <1>1, <1>2, <1>3 DEF Next

LEMMA RelayingStaysClean ==
  ASSUME IInv, Clean, Relaying, faults' = faults
  PROVE  Clean'
  <1>0. /\ row \in [Events -> OutboxRow] /\ relay \in [Relays -> SUBSET Claims]
        /\ \A e \in Events : copies[e] \in Seq(Message) /\ Len(copies[e]) \in Nat
        /\ faults \in Nat /\ seq \in Nat
    BY LenProperties DEF IInv, TypeOK
  <1>a. \A r \in Relays : \A c \in relay[r] : c \in Claims /\ c.event \in Events
    BY <1>0 DEF Claims
  <1>f. ~Fault
    BY <1>0 DEF Fault
  <1>1. ASSUME NEW e \in Events, Enqueue(e) PROVE Clean'
    <2>1. /\ UNCHANGED <<relay, copies>> /\ row[e].status = "none"
          /\ row'[e].status = "ready" /\ \A f \in Events : f # e => row'[f] = row[f]
      BY <1>0, <1>1 DEF Enqueue
    <2> QED
      BY <1>a, <2>1 DEF Clean
  <1>2. ASSUME NEW e \in Events PROVE ~LeaseLapses(e)
    <2>1. row[e].status = "leased" =>
            \E r \in Relays : \E c \in relay[r] : c.event = e /\ c.token = row[e].token
      BY DEF Clean
    <2> QED
      BY <1>f, <2>1 DEF LeaseLapses
  <1>3. ASSUME NEW r \in Relays, NEW batch \in SUBSET Events, Claim(r, batch) PROVE Clean'
    <2> DEFINE C == [event : batch, token : {seq}, reply : {"unsent"}]
               x == [status |-> "leased", token |-> seq, lapsed |-> FALSE]
    <2>1. \A e \in batch : row[e].status = "ready"
      BY <1>3 DEF Claim, Claimable, Clean
    <2>2. \A c \in C : c.event \in batch /\ c.token = seq /\ c.reply = "unsent"
      OBVIOUS
    <2>3. \A c, d \in C : c.event = d.event => c = d
      OBVIOUS
    <2>4. \A e \in batch : \E c \in C : c.event = e
      <3>1. ASSUME NEW e \in batch PROVE \E c \in C : c.event = e
        <4> DEFINE c == [event |-> e, token |-> seq, reply |-> "unsent"]
        <4>1. c \in C /\ c.event = e
          OBVIOUS
        <4> QED
          BY <4>1
      <3> QED
        BY <3>1
    <2>5. x.status = "leased" /\ x.token = seq /\ ~x.lapsed
      OBVIOUS
    <2>6. /\ relay[r] = {} /\ relay' = [relay EXCEPT ![r] = C] /\ UNCHANGED copies
          /\ row' = [e \in Events |-> IF e \in batch THEN x ELSE row[e]]
      BY <1>3 DEF Claim
    <2> HIDE DEF C, x
    <2>7. relay'[r] = C /\ \A s \in Relays : s # r => relay'[s] = relay[s]
      BY <1>0, <2>6
    <2>8. \A s \in Relays : \A c \in relay[s] :
            c.event \in Events \ batch /\ row'[c.event] = row[c.event] /\ s # r
      BY <1>a, <2>1, <2>6 DEF Clean
    <2>9. ASSUME NEW s \in Relays, NEW c \in relay'[s]
          PROVE  /\ row'[c.event].status = "leased" /\ row'[c.event].token = c.token
                 /\ c.reply # "error" /\ Len(copies'[c.event]) = IF c.reply = "ok" THEN 1 ELSE 0
      <3>1. CASE s = r
        BY <2>1, <2>2, <2>5, <2>6, <2>7, <2>9, <3>1 DEF Clean
      <3>2. CASE s # r
        BY <2>6, <2>7, <2>8, <2>9, <3>2 DEF Clean
      <3> QED
        BY <3>1, <3>2
    <2>10. ASSUME NEW s \in Relays, NEW u \in Relays, NEW c \in relay'[s], NEW d \in relay'[u],
                  c.event = d.event
           PROVE  s = u /\ c = d
      BY <2>2, <2>3, <2>7, <2>8, <2>10 DEF Clean
    <2>11. ASSUME NEW e \in Events
           PROVE  /\ row'[e].status \in {"none", "ready"} => Len(copies'[e]) = 0
                  /\ row'[e].status = "leased" =>
                       ~row'[e].lapsed /\ \E s \in Relays : \E c \in relay'[s] : c.event = e
                  /\ Len(copies'[e]) <= 1
      <3>1. CASE e \in batch
        BY <2>4, <2>5, <2>6, <2>7, <3>1 DEF Clean
      <3>2. CASE e \notin batch
        BY <2>6, <2>7, <2>8, <3>2 DEF Clean
      <3> QED
        BY <3>1, <3>2
    <2> QED
      BY <2>9, <2>10, <2>11 DEF Clean
  <1>4. ASSUME NEW r \in Relays, NEW c \in relay[r], Published(r, c) PROVE Clean'
    <2> DEFINE new == [c EXCEPT !.reply = "ok"]
    <2>1. new.event = c.event /\ new.token = c.token /\ new.reply = "ok" /\ c.event \in Events
      BY <1>a DEF Claims
    <2>2. /\ c.reply = "unsent" /\ UNCHANGED row /\ Arrives(c.event)
          /\ relay' = [relay EXCEPT ![r] = (@ \ {c}) \cup {new}]
      BY <1>4 DEF Published, Replied
    <2> HIDE DEF new
    <2>3. relay'[r] = (relay[r] \ {c}) \cup {new} /\ \A s \in Relays : s # r => relay'[s] = relay[s]
      BY <1>0, <2>2
    <2>4. /\ Len(copies'[c.event]) = Len(copies[c.event]) + 1
          /\ \A f \in Events : f # c.event => Len(copies'[f]) = Len(copies[f])
      BY <2>1, <2>2, ArrivesGrows DEF IInv
    <2>5. Len(copies[c.event]) = 0 /\ row[c.event].status = "leased" /\ row[c.event].token = c.token
      BY <2>2 DEF Clean
    <2>6. ASSUME NEW s \in Relays, NEW d \in relay'[s]
          PROVE  \/ s = r /\ d = new
                 \/ d \in relay[s] /\ d.event \in Events /\ d.event # c.event
      BY <1>a, <2>3, <2>6 DEF Clean
    <2>7. ASSUME NEW s \in Relays, NEW d \in relay'[s]
          PROVE  /\ row'[d.event].status = "leased" /\ row'[d.event].token = d.token
                 /\ d.reply # "error" /\ Len(copies'[d.event]) = IF d.reply = "ok" THEN 1 ELSE 0
      <3>1. CASE d = new
        BY <2>1, <2>2, <2>4, <2>5, <3>1
      <3>2. CASE d \in relay[s] /\ d.event \in Events /\ d.event # c.event
        BY <2>2, <2>4, <3>2 DEF Clean
      <3> QED
        BY <2>6, <2>7, <3>1, <3>2
    <2>8. ASSUME NEW s \in Relays, NEW u \in Relays, NEW d \in relay'[s], NEW g \in relay'[u],
                 d.event = g.event
          PROVE  s = u /\ d = g
      BY <2>1, <2>6, <2>8 DEF Clean
    <2>9. ASSUME NEW e \in Events
          PROVE  /\ row'[e].status \in {"none", "ready"} => Len(copies'[e]) = 0
                 /\ row'[e].status = "leased" =>
                      ~row'[e].lapsed /\ \E s \in Relays : \E d \in relay'[s] : d.event = e
                 /\ Len(copies'[e]) <= 1
      <3>1. CASE e = c.event
        <4>1. new \in relay'[r] /\ new.event = e
          BY <2>1, <2>3, <3>1
        <4>2. row'[e] = row[e] /\ row[e].status = "leased" /\ ~row[e].lapsed
          BY <2>2, <2>5, <3>1 DEF Clean
        <4>3. Len(copies'[e]) = 1
          BY <2>1, <2>4, <2>5, <3>1
        <4> QED
          BY <4>1, <4>2, <4>3
      <3>2. CASE e # c.event
        BY <2>2, <2>3, <2>4, <3>2 DEF Clean
      <3> QED
        BY <3>1, <3>2
    <2> QED
      BY <2>7, <2>8, <2>9 DEF Clean
  <1>5. ASSUME NEW r \in Relays, Finalize(r) PROVE Clean'
    <2> DEFINE won(e) == \E c \in relay[r] : c.event = e /\ OwnsLease(c)
               out(e) == Outcome(CHOOSE c \in relay[r] : c.event = e)
    <2>1. \A c \in relay[r] : c.reply = "ok" /\ OwnsLease(c)
      BY <1>5, <1>a DEF Finalize, Clean, OwnsLease, Claims
    <2>2. ASSUME NEW e \in Events, won(e) PROVE out(e).status = "published"
      <3>1. (CHOOSE c \in relay[r] : c.event = e) \in relay[r]
        BY <2>2
      <3> QED
        BY <2>1, <3>1 DEF Outcome
    <2>3. \A e \in Events : won(e) <=> \E c \in relay[r] : c.event = e
      BY <2>1
    <2>4. /\ row' = [e \in Events |-> IF won(e) THEN out(e) ELSE row[e]]
          /\ relay' = [relay EXCEPT ![r] = {}] /\ UNCHANGED copies
      BY <1>5 DEF Finalize
    <2> HIDE DEF won, out
    <2>5. relay'[r] = {} /\ \A s \in Relays : s # r => relay'[s] = relay[s]
      BY <1>0, <2>4
    <2>6. ASSUME NEW s \in Relays, NEW c \in relay'[s]
          PROVE  c \in relay[s] /\ c.event \in Events /\ row'[c.event] = row[c.event]
      BY <1>a, <2>3, <2>4, <2>5, <2>6 DEF Clean
    <2>7. ASSUME NEW e \in Events
          PROVE  /\ row'[e].status \in {"none", "ready"} => Len(copies'[e]) = 0
                 /\ row'[e].status = "leased" =>
                      ~row'[e].lapsed /\ \E s \in Relays : \E c \in relay'[s] : c.event = e
                 /\ Len(copies'[e]) <= 1
      <3>1. CASE won(e)
        BY <2>2, <2>4, <3>1 DEF Clean
      <3>2. CASE ~won(e)
        <4>1. row'[e] = row[e] /\ ~\E c \in relay[r] : c.event = e
          BY <2>3, <2>4, <3>2
        <4> QED
          BY <2>4, <2>5, <4>1 DEF Clean
      <3> QED
        BY <3>1, <3>2
    <2> QED
      BY <2>4, <2>6, <2>7 DEF Clean
  <1>6. ASSUME NEW r \in Relays, NEW c \in relay[r] PROVE ~PublishFails(r, c) /\ ~RelayCrashes(r)
    BY <1>f DEF PublishFails, RelayCrashes
  <1>7. ASSUME NEW r \in Relays PROVE ~RelayCrashes(r)
    BY <1>f DEF RelayCrashes
  <1> QED
    BY <1>1, <1>2, <1>3, <1>4, <1>5, <1>6, <1>7 DEF Relaying

LEMMA FaultsGrow == IInv /\ [Next]_vars => faults' \in {faults, faults + 1}
  BY DEF Next, Relaying, Consuming, Enqueue, LeaseLapses, Claim, Published, PublishFails, Finalize,
         RelayCrashes, Pull, Consume, ConsumeFails, Acknowledge, AcknowledgeFails, Nack,
         PassAbandoned, DeadlineLapses, Fault, vars

LEMMA StaysClean == IInv /\ CleanInv /\ [Next]_vars => CleanInv'
  <1> SUFFICES ASSUME IInv, CleanInv, [Next]_vars, faults' = 0
               PROVE  Clean'
    BY DEF CleanInv
  <1>1. faults' = faults /\ Clean
    BY FaultsGrow DEF IInv, TypeOK, CleanInv
  <1>2. CASE ~Relaying
    <2>1. SameLength /\ UNCHANGED <<row, relay>>
      BY <1>2, OutsideAddsNothing
    <2>2. \A r \in Relays : \A c \in relay[r] : c.event \in Events
      BY DEF IInv, TypeOK, Claims
    <2> QED
      BY <1>1, <2>1, <2>2 DEF Clean, SameLength
  <1> QED
    BY <1>1, <1>2, RelayingStaysClean

\* Two relays that overlap publish no event twice unless something went wrong: a reply
\* or a relay was lost, or a lease lapsed under a relay that was still publishing.
THEOREM PublishedOnceUnlessFault == Spec => []NoNeedlessDuplicates
  <1>1. Init => CleanInv
    <2> SUFFICES ASSUME Init PROVE Clean
      BY DEF CleanInv
    <2>1. \A e \in Events : Len(copies[e]) = 0 /\ row[e].status = "none"
      BY DEF Init
    <2>2. \A r \in Relays : relay[r] = {}
      BY DEF Init
    <2> QED
      BY <2>1, <2>2 DEF Clean
  <1>2. CleanInv => NoNeedlessDuplicates
    BY DEF Clean, CleanInv, NoNeedlessDuplicates
  <1> QED
    BY <1>1, <1>2, StaysClean, Invariant, PTL DEF Spec
=============================================================================
