------------------------ MODULE NotificationsProofs ------------------------
(***************************************************************************)
(* Proofs about Notifications: what the rows say of the messages that were *)
(* taken, and that a decision on a delivery stands, for any number of      *)
(* passes, rows, faults and edits.                                         *)
(***************************************************************************)
EXTENDS Notifications, FiniteSetTheorems, TLAPS

\* The attempts at a row whose calls are not answered yet.
Out(n) == {i \in 1..row[n].tries :
             \E q \in Passes : \E c \in pass[q].calls : c.n = n /\ c.try = i /\ c.answer = "none"}

\* A call is an attempt that its row counts, and no other call is.
CallsCounted ==
  \A q \in Passes : \A c \in pass[q].calls : c.try \in 1..row[c.n].tries
OwnAttempts ==
  \A q, r \in Passes : \A c \in pass[q].calls, d \in pass[r].calls :
    c.n = d.n /\ c.try = d.try => q = r /\ c = d
\* Messages taken and attempts under way are no more than the attempts counted.
Budget == \A n \in Rows : accepted[n] + Cardinality(Out(n)) <= row[n].tries
\* What was answered, or recorded, as accepted was.
AnswersTrue ==
  /\ \A q \in Passes : \A c \in pass[q].calls : c.answer = "ok" => accepted[c.n] > 0
  /\ \A n \in Rows : row[n].status = "sent" => accepted[n] > 0
\* The intents of an event come with its receipt, once.
OneConsumer ==
  /\ \A n \in Rows : row[n].status = "none" => row[n].tries = 0
  /\ \A n \in Rows : row[n].status # "none" => n[1] \in receipts
  /\ \A k \in Consumers : consumer[k] # Free =>
       /\ consumer[k].event \in Events \ receipts
       /\ \A j \in Consumers : consumer[j] # Free /\ consumer[j].event = consumer[k].event => j = k

CountInv == TypeOK /\ CallsCounted /\ OwnAttempts /\ Budget /\ AnswersTrue /\ OneConsumer

-----------------------------------------------------------------------------
(* Rows *)

Kinds == Destinations \cup {None, Erased}

LEMMA RowFields ==
  ASSUME NEW r \in DeliveryRow
  PROVE  /\ r.status \in Statuses /\ r.dest \in Kinds /\ r.tries \in Nat /\ r.held \in BOOLEAN
         /\ r.lock \in Clock /\ r.due \in -MaxAge..1
  BY DEF DeliveryRow, Kinds

LEMMA EndedRow ==
  ASSUME TypeOK, NEW n \in Rows, NEW d \in Kinds
  PROVE  /\ Ended(n, d) \in DeliveryRow
         /\ Ended(n, d).status = "failed" /\ ~Ended(n, d).held /\ Ended(n, d).tries = row[n].tries
  <1>1. row[n] \in DeliveryRow
    BY DEF TypeOK
  <1>2. 0 \in Clock /\ 0 \in -MaxAge..1
    BY NotificationAssumption DEF Clock
  <1> QED
    BY <1>1, <1>2 DEF Ended, DeliveryRow, Statuses, Kinds

LEMMA SentRow ==
  ASSUME NEW r \in DeliveryRow
  PROVE  LET s == [r EXCEPT !.status = "sent", !.held = FALSE, !.lock = 0, !.due = 0]
         IN  s \in DeliveryRow /\ s.status = "sent" /\ ~s.held /\ s.tries = r.tries
  <1>1. 0 \in Clock /\ 0 \in -MaxAge..1
    BY NotificationAssumption DEF Clock
  <1> QED
    BY <1>1 DEF DeliveryRow, Statuses

LEMMA OutcomeRow ==
  ASSUME TypeOK, NEW q \in Passes, NEW c \in Call, row[c.n].status = "pending", c.answer # "none"
  PROVE  /\ Outcome(q, c) \in DeliveryRow /\ ~Outcome(q, c).held
         /\ Outcome(q, c).status # "none" /\ Outcome(q, c).tries = row[c.n].tries
         /\ Outcome(q, c).status = "sent" => c.answer = "ok"
  <1>1. c.n \in Rows /\ row[c.n] \in DeliveryRow /\ row[c.n].dest \in Kinds
    BY RowFields DEF TypeOK, Call
  <1>2. CASE c.answer = "ok"
    <2>1. Outcome(q, c) = [row[c.n] EXCEPT !.status = "sent", !.held = FALSE, !.lock = 0, !.due = 0]
      BY <1>2 DEF Outcome
    <2> QED
      BY <1>1, <1>2, <2>1, SentRow
  <1>3. CASE c.answer = "retryable" /\ row[c.n].tries < MaxAttempts
    <2>1. Outcome(q, c) = [row[c.n] EXCEPT !.held = FALSE, !.lock = 0, !.due = 1 - pass[q].age]
      BY <1>3 DEF Outcome
    <2>2. pass[q].age \in 0..MaxAge
      BY DEF TypeOK, Pass
    <2>3. 1 - pass[q].age \in -MaxAge..1 /\ 0 \in Clock
      BY <2>2, NotificationAssumption DEF Clock
    <2> QED
      BY <1>1, <1>3, <2>1, <2>3 DEF DeliveryRow
  <1>4. CASE c.answer # "ok" /\ ~(c.answer = "retryable" /\ row[c.n].tries < MaxAttempts)
    <2>1. Outcome(q, c) = Ended(c.n, row[c.n].dest)
      BY <1>4 DEF Outcome
    <2> QED
      BY <1>1, <2>1, EndedRow
  <1> QED
    BY <1>2, <1>3, <1>4

LEMMA LeasedRow ==
  ASSUME TypeOK, NEW q \in Passes, NEW n \in Rows
  PROVE  /\ Leased(q, n) \in DeliveryRow
         /\ Leased(q, n).status = row[n].status /\ Leased(q, n).tries = row[n].tries + 1
         /\ Leased(q, n).held /\ Leased(q, n).lock = Lease - pass[q].age
  <1>1. row[n] \in DeliveryRow /\ pass[q].age \in 0..MaxAge
    BY DEF TypeOK, Pass
  <1> DEFINE lock == Lease - pass[q].age
             tries == row[n].tries + 1
  <1>2. lock \in Clock /\ tries \in Nat
    BY <1>1, RowFields, NotificationAssumption DEF Clock
  <1>3. Leased(q, n) = [row[n] EXCEPT !.held = TRUE, !.lock = lock, !.tries = tries]
    BY DEF Leased
  <1>4. tries = row[n].tries + 1 /\ lock = Lease - pass[q].age
    OBVIOUS
  <1> HIDE DEF lock, tries
  <1>5. /\ [row[n] EXCEPT !.held = TRUE, !.lock = lock, !.tries = tries] \in DeliveryRow
        /\ [row[n] EXCEPT !.held = TRUE, !.lock = lock, !.tries = tries].status = row[n].status
        /\ [row[n] EXCEPT !.held = TRUE, !.lock = lock, !.tries = tries].tries = tries
        /\ [row[n] EXCEPT !.held = TRUE, !.lock = lock, !.tries = tries].held
        /\ [row[n] EXCEPT !.held = TRUE, !.lock = lock, !.tries = tries].lock = lock
    BY <1>1, <1>2 DEF DeliveryRow
  <1> QED
    BY <1>3, <1>4, <1>5

LEMMA LaterRow ==
  ASSUME TypeOK, NEW n \in Rows
  PROVE  /\ Later(n) \in DeliveryRow
         /\ Later(n).status = row[n].status /\ Later(n).tries = row[n].tries
         /\ Later(n).held = row[n].held
         /\ row[n].status = "pending" /\ row[n].held /\ row[n].lock > -MaxAge =>
              Later(n).lock = row[n].lock - 1
  <1>1. row[n] \in DeliveryRow /\ row[n].lock \in Clock /\ row[n].due \in -MaxAge..1
    BY RowFields DEF TypeOK
  <1> DEFINE lock == IF row[n].held /\ row[n].lock > -MaxAge THEN row[n].lock - 1 ELSE row[n].lock
             due  == IF row[n].due > -MaxAge THEN row[n].due - 1 ELSE row[n].due
  <1>2. lock \in Clock /\ due \in -MaxAge..1
    BY <1>1, NotificationAssumption DEF Clock
  <1>3. row[n].status = "pending" => Later(n) = [row[n] EXCEPT !.lock = lock, !.due = due]
    BY DEF Later
  <1>4. row[n].status # "pending" => Later(n) = row[n]
    BY DEF Later
  <1>5. row[n].held /\ row[n].lock > -MaxAge => lock = row[n].lock - 1
    OBVIOUS
  <1> HIDE DEF lock, due
  <1> QED
    BY <1>1, <1>2, <1>3, <1>4, <1>5 DEF DeliveryRow

LEMMA IntentRow ==
  ASSUME NEW d \in Destinations
  PROVE  /\ Intent(d) \in DeliveryRow /\ ~Intent(d).held
         /\ Intent(d).status = "pending" /\ Intent(d).tries = 0
  <1>1. 0 \in Clock /\ 0 \in -MaxAge..1
    BY NotificationAssumption DEF Clock
  <1> QED
    BY <1>1 DEF Intent, NoRow, DeliveryRow, Statuses

\* What a step does to a row: nothing, the intent of an event, or, while it is pending,
\* a claim, a postponement or a decision.
RowMoves(n) ==
  /\ row'[n] \in DeliveryRow /\ (row'[n].held => row'[n].status = "pending")
  /\ row'[n].status # "none" => n[1] \in receipts'
  /\ \/ row'[n] = row[n]
     \/ row[n].status = "none" /\ row'[n].status = "pending" /\ row'[n].tries = row[n].tries
     \/ /\ row[n].status = "pending" /\ row'[n].status # "none"
        /\ row'[n].status = "sent" => accepted[n] > 0
        /\ row'[n].tries \in {row[n].tries, row[n].tries + 1}

LEMMA SameRow ==
  ASSUME TypeOK, OneConsumer, receipts \subseteq receipts', NEW n \in Rows, row'[n] = row[n]
  PROVE  RowMoves(n)
  BY DEF TypeOK, OneConsumer, RowMoves

LEMMA CancelMoves ==
  ASSUME TypeOK, OneConsumer, receipts' = receipts, NEW S, NEW erase \in BOOLEAN,
         row' = Cancelled(S, erase)
  PROVE  row' \in [Rows -> DeliveryRow] /\ \A n \in Rows : RowMoves(n)
  <1> DEFINE kind(n) == IF erase THEN Erased ELSE row[n].dest
  <1>1. ASSUME NEW n \in Rows PROVE kind(n) \in Kinds /\ row[n] \in DeliveryRow
    BY <1>1, RowFields DEF TypeOK, Kinds
  <1>2. row' = [n \in Rows |-> IF n[2] \in S /\ row[n].status = "pending"
                              THEN Ended(n, kind(n)) ELSE row[n]]
    BY DEF Cancelled
  <1> HIDE DEF kind
  <1>3. ASSUME NEW n \in Rows PROVE row'[n] \in DeliveryRow /\ RowMoves(n)
    <2>1. CASE n[2] \in S /\ row[n].status = "pending"
      <3>1. row'[n] = Ended(n, kind(n))
        BY <1>2, <2>1
      <3> QED
        BY <1>1, <2>1, <3>1, EndedRow DEF RowMoves, OneConsumer
    <2>2. CASE ~(n[2] \in S /\ row[n].status = "pending")
      <3>1. row'[n] = row[n]
        BY <1>2, <2>2
      <3> QED
        BY <1>1, <3>1, SameRow
    <2> QED
      BY <2>1, <2>2
  <1>4. \E f : row' = [n \in Rows |-> f[n]]
    BY <1>2
  <1> QED
    BY <1>2, <1>3

\* The rest of a step's types once the rows, the calls and the counts are known.
LEMMA MovedRows ==
  ASSUME row' \in [Rows -> DeliveryRow], \A n \in Rows : RowMoves(n)
  PROVE  \A n \in Rows : row'[n].held => row'[n].status = "pending"
  BY DEF RowMoves

-----------------------------------------------------------------------------
(* The people and the consumers: no call changes *)

LEMMA PeopleMove ==
  ASSUME TypeOK, OneConsumer, Participating
  PROVE  /\ TypeOK' /\ OneConsumer' /\ UNCHANGED <<pass, accepted>>
         /\ \A n \in Rows : RowMoves(n)
  <1> DEFINE Frame == UNCHANGED <<consumer, receipts, pass, accepted, wait, faults>> /\ edits' \in Nat
             People == /\ contact' \in [Accounts -> [dest : Destinations \cup {None, Erased},
                                                    enabled : BOOLEAN]]
                       /\ created' \in 0..MaxAccounts /\ member' \in [Participants -> 0..MaxAccounts]
             Moved == row' \in [Rows -> DeliveryRow] /\ \A n \in Rows : RowMoves(n)
  <1>1. ASSUME UNCHANGED receipts, row' = row PROVE Moved
    BY <1>1, SameRow DEF TypeOK
  <1>2. ASSUME UNCHANGED receipts, NEW a \in Accounts, CancelPending(a) PROVE Moved
    <2> DEFINE S == {p \in Participants : member[p] = a}
    <2>1. row' = Cancelled(S, TRUE)
      BY <1>2 DEF CancelPending
    <2> HIDE DEF S
    <2> QED
      BY <1>2, <2>1, CancelMoves
  <1>3. 0 \in 0..MaxAccounts /\ \A a \in Accounts : a \in 0..MaxAccounts
    BY NotificationAssumption DEF Accounts
  <1>4. ASSUME NEW a \in Accounts, NEW d \in Destinations, NEW on \in BOOLEAN, UpsertContact(a, d, on)
        PROVE  Frame /\ People /\ Moved
    <2>1. Frame
      BY <1>4 DEF UpsertContact, Edit, TypeOK
    <2>2. [dest |-> d, enabled |-> on] \in [dest : Destinations \cup {None, Erased}, enabled : BOOLEAN]
      OBVIOUS
    <2>3. People
      BY <1>4, <2>2 DEF UpsertContact, TypeOK
    <2>4. row' = row \/ CancelPending(a)
      BY <1>4 DEF UpsertContact
    <2> HIDE DEF People, Moved
    <2> QED
      BY <1>1, <1>2, <2>1, <2>3, <2>4
  <1>5. ASSUME NEW a \in Accounts, DeleteContact(a) PROVE Frame /\ People /\ Moved
    <2>1. Frame /\ CancelPending(a)
      BY <1>5 DEF DeleteContact, Edit, TypeOK
    <2>2. [dest |-> Erased, enabled |-> FALSE]
            \in [dest : Destinations \cup {None, Erased}, enabled : BOOLEAN]
      OBVIOUS
    <2>3. People
      BY <1>5, <2>2 DEF DeleteContact, TypeOK
    <2> HIDE DEF People, Moved
    <2> QED
      BY <1>2, <2>1, <2>3
  <1>6. ASSUME NEW p \in Participants, RevokeMembership(p) PROVE Frame /\ People /\ Moved
    <2>1. Frame /\ row' = row
      BY <1>6 DEF RevokeMembership, Edit, TypeOK
    <2>2. People
      BY <1>3, <1>6 DEF RevokeMembership, TypeOK
    <2> HIDE DEF People, Moved
    <2> QED
      BY <1>1, <2>1, <2>2
  <1>7. ASSUME NEW p \in Participants, NEW a \in Accounts, Join(p, a) PROVE Frame /\ People /\ Moved
    <2>1. Frame /\ row' = row
      BY <1>7 DEF Join, Edit, TypeOK
    <2>2. People
      BY <1>3, <1>7 DEF Join, New, TypeOK
    <2> HIDE DEF People, Moved
    <2> QED
      BY <1>1, <2>1, <2>2
  <1>8. ASSUME NEW p \in Participants, NEW a \in Accounts, Relink(p, a) PROVE Frame /\ People /\ Moved
    <2>1. Frame
      BY <1>8 DEF Relink, Edit, TypeOK
    <2>2. People
      BY <1>3, <1>8 DEF Relink, New, TypeOK
    <2>3. row' = Cancelled({p}, FALSE)
      BY <1>8 DEF Relink
    <2>4. Moved
      BY <2>1, <2>3, CancelMoves
    <2> HIDE DEF People, Moved
    <2> QED
      BY <2>1, <2>2, <2>4
  <1>9. Frame /\ People /\ Moved
    <2> HIDE DEF Frame, People, Moved
    <2> QED
      BY <1>4, <1>5, <1>6, <1>7, <1>8 DEF Participating
  <1>10. TypeOK'
    BY <1>9, MovedRows DEF TypeOK
  <1>11. OneConsumer'
    BY <1>9 DEF OneConsumer, RowMoves, TypeOK
  <1> QED
    BY <1>9, <1>10, <1>11

LEMMA ConsumersMove ==
  ASSUME TypeOK, OneConsumer, Consuming
  PROVE  /\ TypeOK' /\ OneConsumer' /\ UNCHANGED <<pass, accepted>>
         /\ \A n \in Rows : RowMoves(n)
  <1> DEFINE Note == [event : Events \cup {None},
                      read : SUBSET (Participants \X (Destinations \cup {None, Erased}))]
  <1>0. Free \in Note
    BY DEF Free
  <1>1. ASSUME NEW k \in Consumers, NEW e \in Events, ReadContacts(k, e)
        PROVE  /\ TypeOK' /\ OneConsumer' /\ UNCHANGED <<pass, accepted>>
               /\ \A n \in Rows : RowMoves(n)
    <2> DEFINE read == {<<p, contact[member[p]].dest>> : p \in {q \in Participants : Reachable(q)}}
               note == [event |-> e, read |-> read]
    <2>1. \A p \in Participants : Reachable(p) =>
            contact[member[p]].dest \in Destinations \cup {None, Erased}
      BY NotificationAssumption DEF TypeOK, Reachable, Accounts
    <2>2. read \in SUBSET (Participants \X (Destinations \cup {None, Erased}))
      BY <2>1
    <2>3. note \in Note /\ note.event = e
      BY <2>2
    <2>4. consumer' = [consumer EXCEPT ![k] = note]
      BY <1>1 DEF ReadContacts
    <2>5. UNCHANGED <<people, receipts, row, pass, accepted, wait, faults, edits>>
          /\ consumer[k] = Free /\ e \notin receipts /\ \A j \in Consumers : consumer[j].event # e
      BY <1>1 DEF ReadContacts
    <2> HIDE DEF read, note
    <2>6. TypeOK'
      BY <2>3, <2>4, <2>5 DEF TypeOK, people
    <2>7. consumer'[k] = note /\ \A j \in Consumers : j # k => consumer'[j] = consumer[j]
      BY <2>4 DEF TypeOK
    <2>8. OneConsumer'
      BY <2>3, <2>5, <2>7 DEF OneConsumer
    <2> QED
      BY <2>5, <2>6, <2>8, SameRow
  <1>2. ASSUME NEW k \in Consumers, CommitIntents(k)
        PROVE  /\ TypeOK' /\ OneConsumer' /\ UNCHANGED <<pass, accepted>>
               /\ \A n \in Rows : RowMoves(n)
    <2> DEFINE e == consumer[k].event
               For(n, d) == <<n[2], d>> \in consumer[k].read
               intent(n) == Intent(CHOOSE d \in Destinations : For(n, d))
               due(n) == n[1] = e /\ \E d \in Destinations : For(n, d)
    <2>1. /\ consumer[k] # Free /\ receipts' = receipts \cup {e}
          /\ consumer' = [consumer EXCEPT ![k] = Free]
          /\ UNCHANGED <<people, pass, accepted, wait, faults, edits>>
          /\ row' = [n \in Rows |-> IF due(n) THEN intent(n) ELSE row[n]]
      BY <1>2 DEF CommitIntents
    <2>2. e \in Events \ receipts
      BY <2>1 DEF OneConsumer
    <2>3. ASSUME NEW n \in Rows, due(n)
          PROVE  /\ intent(n) \in DeliveryRow /\ ~intent(n).held
                 /\ intent(n).status = "pending" /\ intent(n).tries = 0
      <3>1. (CHOOSE d \in Destinations : For(n, d)) \in Destinations
        BY <2>3
      <3> QED
        BY <3>1, IntentRow
    <2>a. \A n \in Rows : due(n) => n[1] = e
      OBVIOUS
    <2> HIDE DEF intent, due, e
    <2>5. ASSUME NEW n \in Rows PROVE row'[n] \in DeliveryRow /\ RowMoves(n)
      <3>1. CASE due(n)
        <4>1. row'[n] = intent(n) /\ n[1] \in receipts' /\ n[1] \notin receipts
          BY <2>1, <2>2, <2>a, <3>1
        <4>2. row[n].status = "none" /\ row[n].tries = 0
          BY <4>1 DEF OneConsumer
        <4> QED
          BY <2>3, <3>1, <4>1, <4>2 DEF RowMoves
      <3>2. CASE ~due(n)
        <4>1. row'[n] = row[n]
          BY <2>1, <3>2
        <4> QED
          BY <2>1, <4>1, SameRow DEF TypeOK
      <3> QED
        BY <3>1, <3>2
    <2>6. row' \in [Rows -> DeliveryRow]
      BY <2>1, <2>5
    <2>7. TypeOK'
      BY <1>0, <2>1, <2>2, <2>5, <2>6, MovedRows DEF TypeOK, people
    <2>8. consumer'[k] = Free /\ \A j \in Consumers : j # k => consumer'[j] = consumer[j]
      BY <2>1 DEF TypeOK
    <2>9. ASSUME NEW j \in Consumers, j # k, consumer[j] # Free PROVE consumer[j].event # e
      BY <2>1, <2>9 DEF OneConsumer, e
    <2>10. OneConsumer'
      BY <2>1, <2>5, <2>8, <2>9 DEF OneConsumer, RowMoves
    <2> QED
      BY <2>1, <2>5, <2>7, <2>10
  <1>3. ASSUME NEW k \in Consumers, ConsumptionRollsBack(k)
        PROVE  /\ TypeOK' /\ OneConsumer' /\ UNCHANGED <<pass, accepted>>
               /\ \A n \in Rows : RowMoves(n)
    <2>1. UNCHANGED <<people, receipts, row, pass, accepted, wait, edits>> /\ faults' \in Nat
          /\ consumer' = [consumer EXCEPT ![k] = Free]
      BY <1>3 DEF ConsumptionRollsBack, Fault, TypeOK
    <2>2. TypeOK'
      BY <1>0, <2>1 DEF TypeOK, people
    <2>3. OneConsumer'
      BY <2>1 DEF OneConsumer, TypeOK
    <2> QED
      BY <2>1, <2>2, <2>3, SameRow
  <1> QED
    BY <1>1, <1>2, <1>3 DEF Consuming

-----------------------------------------------------------------------------
(* Counting *)

LEMMA OutFinite ==
  ASSUME TypeOK, NEW n \in Rows
  PROVE  Out(n) \subseteq 1..row[n].tries /\ IsFiniteSet(Out(n)) /\ Cardinality(Out(n)) \in Nat
  <1>1. row[n].tries \in Int /\ 1 \in Int
    BY RowFields DEF TypeOK
  <1>2. IsFiniteSet(1..row[n].tries)
    BY <1>1, FS_Interval
  <1>3. Out(n) \in SUBSET (1..row[n].tries)
    BY DEF Out
  <1>4. IsFiniteSet(Out(n))
    BY <1>2, <1>3, FS_Subset
  <1> QED
    BY <1>3, <1>4, FS_CardinalityType

LEMMA TriesGrow ==
  ASSUME TypeOK, NEW n \in Rows, RowMoves(n)
  PROVE  row[n].tries \in Nat /\ row'[n].tries \in Nat /\ row[n].tries <= row'[n].tries
  BY RowFields DEF TypeOK, RowMoves

LEMMA CallTypes ==
  ASSUME TypeOK, NEW q \in Passes, NEW c \in pass[q].calls
  PROVE  c \in Call /\ c.n \in Rows /\ c.try \in Nat
  BY DEF TypeOK, Pass, Call

\* Calls that go away.
LEMMA CallsFewer ==
  ASSUME CountInv, \A n \in Rows : RowMoves(n),
         \A q \in Passes : pass'[q].calls \subseteq pass[q].calls,
         \A n \in Rows : accepted'[n] \in Nat /\ accepted[n] <= accepted'[n]
  PROVE  /\ CallsCounted' /\ OwnAttempts' /\ AnswersTrue'
         /\ \A n \in Rows : Out(n)' \subseteq Out(n)
  <1> USE DEF CountInv
  <1>1. ASSUME NEW q \in Passes, NEW c \in pass'[q].calls
        PROVE  /\ c \in pass[q].calls /\ c.n \in Rows /\ c.try \in 1..row[c.n].tries
               /\ c.try \in 1..row'[c.n].tries
    <2>1. c \in pass[q].calls
      BY <1>1
    <2>2. c.n \in Rows /\ c.try \in Nat /\ c.try \in 1..row[c.n].tries
      BY <2>1, CallTypes DEF CallsCounted
    <2> QED
      BY <2>1, <2>2, TriesGrow
  <1>2. CallsCounted'
    BY <1>1 DEF CallsCounted
  <1>3. OwnAttempts'
    BY <1>1 DEF OwnAttempts
  <1>4. AnswersTrue'
    <2>1. ASSUME NEW n \in Rows PROVE accepted[n] \in Nat
      BY DEF TypeOK
    <2>2. \A q \in Passes : \A c \in pass'[q].calls : c.answer = "ok" => accepted'[c.n] > 0
      BY <1>1, <2>1 DEF AnswersTrue
    <2>3. \A n \in Rows : row'[n].status = "sent" => accepted'[n] > 0
      BY <2>1 DEF AnswersTrue, RowMoves
    <2> QED
      BY <2>2, <2>3 DEF AnswersTrue
  <1>5. \A n \in Rows : Out(n)' \subseteq Out(n)
    BY <1>1 DEF Out
  <1> QED
    BY <1>2, <1>3, <1>4, <1>5

LEMMA BudgetKept ==
  ASSUME CountInv, NEW n \in Rows, RowMoves(n), Out(n)' \subseteq Out(n), accepted'[n] = accepted[n]
  PROVE  accepted'[n] + Cardinality(Out(n)') <= row'[n].tries
  <1> USE DEF CountInv
  <1>1. /\ IsFiniteSet(Out(n)) /\ Cardinality(Out(n)) \in Nat
    BY OutFinite
  <1>2. IsFiniteSet(Out(n)') /\ Cardinality(Out(n)') <= Cardinality(Out(n))
    BY <1>1, FS_Subset
  <1>3. Cardinality(Out(n)') \in Nat
    BY <1>2, FS_CardinalityType
  <1>4. accepted[n] \in Nat /\ accepted[n] + Cardinality(Out(n)) <= row[n].tries
    BY DEF Budget, TypeOK
  <1> QED
    BY <1>1, <1>2, <1>3, <1>4, TriesGrow

LEMMA QuietKept ==
  ASSUME CountInv, TypeOK', OneConsumer', \A n \in Rows : RowMoves(n), UNCHANGED accepted,
         \A q \in Passes : pass'[q].calls \subseteq pass[q].calls
  PROVE  CountInv'
  <1>1. \A n \in Rows : accepted'[n] \in Nat /\ accepted[n] <= accepted'[n]
    BY DEF CountInv, TypeOK
  <1>2. /\ CallsCounted' /\ OwnAttempts' /\ AnswersTrue'
        /\ \A n \in Rows : Out(n)' \subseteq Out(n)
    BY <1>1, CallsFewer
  <1>3. Budget'
    BY <1>2, BudgetKept DEF Budget
  <1> QED
    BY <1>2, <1>3 DEF CountInv

-----------------------------------------------------------------------------
(* The passes *)

\* A step of a pass that leaves the people, the consumers and the receipts alone.
LEMMA PassTyped ==
  ASSUME TypeOK, OneConsumer, NEW q \in Passes, NEW x \in Pass, pass' = [pass EXCEPT ![q] = x],
         UNCHANGED <<people, consumer, receipts>>,
         row' \in [Rows -> DeliveryRow], \A n \in Rows : RowMoves(n),
         wait' \in 0..Interval, accepted' \in [Rows -> Nat], faults' \in Nat, edits' \in Nat
  PROVE  /\ TypeOK' /\ OneConsumer'
         /\ pass'[q] = x /\ \A r \in Passes : r # q => pass'[r] = pass[r]
  <1>1. pass' \in [Passes -> Pass]
    BY DEF TypeOK
  <1>2. TypeOK'
    BY <1>1, MovedRows DEF TypeOK, people
  <1>3. OneConsumer'
    BY DEF OneConsumer, RowMoves, TypeOK
  <1> QED
    BY <1>2, <1>3 DEF TypeOK

LEMMA SameRows ==
  ASSUME TypeOK, OneConsumer, UNCHANGED <<row, receipts>>
  PROVE  row' \in [Rows -> DeliveryRow] /\ \A n \in Rows : RowMoves(n)
  BY SameRow DEF TypeOK

LEMMA QuietPass ==
  ASSUME CountInv, NEW q \in Passes, StartPass(q) \/ RunsDry(q) \/ PassEnds(q)
  PROVE  CountInv' /\ \A n \in Rows : RowMoves(n)
  <1> USE DEF CountInv
  <1>1. pass[q] \in Pass
    BY DEF TypeOK
  <1>2. /\ UNCHANGED <<people, consumer, receipts, row, accepted, faults, edits>>
        /\ wait' \in 0..Interval
    BY NotificationAssumption DEF StartPass, RunsDry, PassEnds, TypeOK
  <1>r. row' \in [Rows -> DeliveryRow] /\ \A n \in Rows : RowMoves(n)
    BY <1>2, SameRows
  <1>3. ASSUME NEW x \in Pass, x.calls = pass[q].calls, pass' = [pass EXCEPT ![q] = x] PROVE CountInv'
    <2>2. accepted' \in [Rows -> Nat] /\ faults' \in Nat /\ edits' \in Nat
      BY <1>2 DEF TypeOK
    <2>3. /\ TypeOK' /\ OneConsumer'
          /\ pass'[q] = x /\ \A r \in Passes : r # q => pass'[r] = pass[r]
      BY <1>2, <1>3, <1>r, <2>2, PassTyped
    <2>4. \A r \in Passes : pass'[r].calls \subseteq pass[r].calls
      BY <1>3, <2>3
    <2> QED
      BY <1>2, <1>r, <2>3, <2>4, QuietKept
  <1>4. CASE StartPass(q)
    <2> DEFINE x == [pass[q] EXCEPT !.live = TRUE]
    <2>1. x \in Pass /\ x.calls = pass[q].calls
      BY <1>1 DEF Pass
    <2>2. pass' = [pass EXCEPT ![q] = x]
      BY <1>4 DEF StartPass
    <2> HIDE DEF x
    <2> QED
      BY <1>3, <1>r, <2>1, <2>2
  <1>5. CASE RunsDry(q)
    <2> DEFINE x == [pass[q] EXCEPT !.dry = TRUE]
    <2>1. x \in Pass /\ x.calls = pass[q].calls
      BY <1>1 DEF Pass
    <2>2. pass' = [pass EXCEPT ![q] = x]
      BY <1>5 DEF RunsDry
    <2> HIDE DEF x
    <2> QED
      BY <1>3, <1>r, <2>1, <2>2
  <1>6. CASE PassEnds(q)
    <2>1. NoPass \in Pass /\ NoPass.calls = pass[q].calls
      BY <1>6, NotificationAssumption DEF PassEnds, NoPass, Pass
    <2>2. pass' = [pass EXCEPT ![q] = NoPass]
      BY <1>6 DEF PassEnds
    <2> QED
      BY <1>3, <1>r, <2>1, <2>2
  <1> QED
    BY <1>r, <1>4, <1>5, <1>6

LEMMA RecordKept ==
  ASSUME CountInv, NEW q \in Passes, NEW c \in pass[q].calls, Record(q, c)
  PROVE  CountInv' /\ \A n \in Rows : RowMoves(n)
  <1> USE DEF CountInv
  <1>1. c \in Call /\ c.n \in Rows /\ c.answer # "none"
    BY CallTypes DEF Record
  <1>2. /\ UNCHANGED <<people, consumer, receipts, accepted, wait, faults, edits>>
        /\ row' = IF Owns(c) THEN [row EXCEPT ![c.n] = Outcome(q, c)] ELSE row
    BY <1>1 DEF Record
  <1>3. row' \in [Rows -> DeliveryRow] /\ \A n \in Rows : RowMoves(n)
    <2>1. CASE Owns(c)
      <3>1. row[c.n].status = "pending"
        BY <2>1 DEF Owns
      <3>2. /\ Outcome(q, c) \in DeliveryRow /\ ~Outcome(q, c).held
            /\ Outcome(q, c).status # "none" /\ Outcome(q, c).tries = row[c.n].tries
            /\ Outcome(q, c).status = "sent" => c.answer = "ok"
        BY <1>1, <3>1, OutcomeRow
      <3>3. row' \in [Rows -> DeliveryRow]
        BY <1>1, <1>2, <2>1, <3>2 DEF TypeOK
      <3>4. ASSUME NEW n \in Rows PROVE RowMoves(n)
        <4>1. CASE n = c.n
          <5>1. row'[n] = Outcome(q, c)
            BY <1>1, <1>2, <2>1, <4>1 DEF TypeOK
          <5>2. n[1] \in receipts'
            BY <1>2, <3>1, <4>1 DEF OneConsumer
          <5>3. c.answer = "ok" => accepted[n] > 0
            BY <4>1 DEF AnswersTrue
          <5> QED
            BY <3>1, <3>2, <4>1, <5>1, <5>2, <5>3 DEF RowMoves
        <4>2. CASE n # c.n
          <5>1. row'[n] = row[n]
            BY <1>2, <2>1, <4>2 DEF TypeOK
          <5> QED
            BY <1>2, <5>1, SameRow
        <4> QED
          BY <4>1, <4>2
      <3> QED
        BY <3>3, <3>4
    <2>2. CASE ~Owns(c)
      BY <1>2, <2>2, SameRows
    <2> QED
      BY <2>1, <2>2
  <1> DEFINE x == [pass[q] EXCEPT !.calls = @ \ {c}]
  <1>4. x \in Pass /\ x.calls = pass[q].calls \ {c}
    BY DEF TypeOK, Pass
  <1>5. pass' = [pass EXCEPT ![q] = x]
    BY DEF Record
  <1> HIDE DEF x
  <1>6. wait' \in 0..Interval /\ accepted' \in [Rows -> Nat] /\ faults' \in Nat /\ edits' \in Nat
    BY <1>2 DEF TypeOK
  <1>7. /\ TypeOK' /\ OneConsumer'
        /\ pass'[q] = x /\ \A r \in Passes : r # q => pass'[r] = pass[r]
    BY <1>2, <1>3, <1>4, <1>5, <1>6, PassTyped
  <1>8. \A r \in Passes : pass'[r].calls \subseteq pass[r].calls
    BY <1>4, <1>7
  <1> QED
    BY <1>2, <1>3, <1>7, <1>8, QuietKept

LEMMA ClaimKept ==
  ASSUME CountInv, NEW q \in Passes, NEW n \in Rows, Claim(q, n)
  PROVE  CountInv' /\ \A m \in Rows : RowMoves(m)
  <1> USE DEF CountInv
  <1> DEFINE try == row[n].tries + 1
             new == [n |-> n, try |-> try, age |-> 0, answer |-> "none"]
             claimed == pass[q].claimed + 1
             calls == pass[q].calls \cup {new}
             x == [pass[q] EXCEPT !.claimed = claimed, !.calls = calls]
  <1>1. /\ row[n].status = "pending" /\ row[n].tries \in Nat
        /\ pass[q] \in Pass /\ pass[q].claimed < Batch
    BY RowFields DEF Claim, First, Claimable, Idle, Open, TypeOK
  <1>2. /\ UNCHANGED <<people, consumer, receipts, accepted, wait, faults, edits>>
        /\ row' = [row EXCEPT ![n] = Leased(q, n)]
    BY DEF Claim
  <1>3. /\ Leased(q, n) \in DeliveryRow
        /\ Leased(q, n).status = row[n].status /\ Leased(q, n).tries = try
    BY LeasedRow
  <1>4. row'[n] = Leased(q, n) /\ \A m \in Rows : m # n => row'[m] = row[m]
    BY <1>2 DEF TypeOK
  <1>5. pass' = [pass EXCEPT ![q] = x]
    <2>1. row'[n].tries = try
      BY <1>3, <1>4
    <2>2. pass' = [pass EXCEPT ![q].claimed = claimed, ![q].calls = calls]
      BY <2>1 DEF Claim
    <2> HIDE DEF claimed, calls
    <2> QED
      BY <1>1, <2>2 DEF TypeOK, Pass
  <1>6. try \in Nat /\ try = row[n].tries + 1
    BY <1>1
  <1>7. new \in Call /\ new.n = n /\ new.try = try /\ new.answer = "none"
    BY <1>6 DEF Call, Answers
  <1>8. claimed \in 0..Batch
    BY <1>1, NotificationAssumption DEF Pass
  <1> HIDE DEF try, new, claimed
  <1>9. calls \in SUBSET Call /\ calls = pass[q].calls \cup {new}
    BY <1>1, <1>7 DEF Pass
  <1> HIDE DEF calls
  <1>10. x \in Pass /\ x.calls = pass[q].calls \cup {new}
    BY <1>1, <1>8, <1>9 DEF Pass
  <1> HIDE DEF x
  <1>11. row' \in [Rows -> DeliveryRow]
    BY <1>2, <1>3 DEF TypeOK
  <1>12. ASSUME NEW m \in Rows PROVE RowMoves(m)
    <2>1. CASE m = n
      <3>1. n[1] \in receipts'
        BY <1>1, <1>2 DEF OneConsumer
      <3> QED
        BY <1>1, <1>3, <1>4, <1>6, <2>1, <3>1 DEF RowMoves
    <2>2. CASE m # n
      BY <1>2, <1>4, <2>2, SameRow
    <2> QED
      BY <2>1, <2>2
  <1>13. wait' \in 0..Interval /\ accepted' \in [Rows -> Nat] /\ faults' \in Nat /\ edits' \in Nat
    BY <1>2 DEF TypeOK
  <1>14. /\ TypeOK' /\ OneConsumer'
         /\ pass'[q] = x /\ \A r \in Passes : r # q => pass'[r] = pass[r]
    BY <1>2, <1>5, <1>10, <1>11, <1>12, <1>13, PassTyped
  <1>15. ASSUME NEW r \in Passes, NEW c \in pass'[r].calls
         PROVE  \/ c \in pass[r].calls /\ c.n \in Rows /\ c.try \in 1..row[c.n].tries
                \/ r = q /\ c = new
    BY <1>10, <1>14, <1>15, CallTypes DEF CallsCounted
  <1>16. \A m \in Rows : row[m].tries \in Nat /\ row'[m].tries \in Nat /\ row[m].tries <= row'[m].tries
    BY <1>12, TriesGrow
  <1>17. CallsCounted'
    <2>1. ASSUME NEW r \in Passes, NEW c \in pass'[r].calls PROVE c.try \in 1..row'[c.n].tries
      <3>1. CASE c \in pass[r].calls /\ c.n \in Rows /\ c.try \in 1..row[c.n].tries
        BY <1>16, <3>1
      <3>2. CASE c = new
        <4>1. row'[n].tries = try /\ try \in 1..try
          BY <1>1, <1>3, <1>4, <1>6
        <4> QED
          BY <1>7, <3>2, <4>1
      <3> QED
        BY <1>15, <2>1, <3>1, <3>2
    <2> QED
      BY <2>1 DEF CallsCounted
  <1>18. OwnAttempts'
    <2>1. ASSUME NEW r \in Passes, NEW s \in Passes, NEW c \in pass'[r].calls, NEW d \in pass'[s].calls,
                 c.n = d.n, c.try = d.try
          PROVE  r = s /\ c = d
      <3>1. ~(c.n = n /\ c.try = try /\ c.try \in 1..row[c.n].tries)
            /\ ~(d.n = n /\ d.try = try /\ d.try \in 1..row[d.n].tries)
        BY <1>1, <1>6
      <3>2. \/ c \in pass[r].calls /\ d \in pass[s].calls
            \/ r = q /\ c = new /\ s = q /\ d = new
        BY <1>7, <1>15, <2>1, <3>1
      <3> QED
        BY <2>1, <3>2 DEF OwnAttempts
    <2> QED
      BY <2>1 DEF OwnAttempts
  <1>19. AnswersTrue'
    <2>1. \A r \in Passes : \A c \in pass'[r].calls : c.answer = "ok" => accepted'[c.n] > 0
      BY <1>2, <1>7, <1>15 DEF AnswersTrue
    <2>2. \A m \in Rows : row'[m].status = "sent" => accepted'[m] > 0
      BY <1>2, <1>12 DEF AnswersTrue, RowMoves
    <2> QED
      BY <2>1, <2>2 DEF AnswersTrue
  <1>20. ASSUME NEW m \in Rows PROVE accepted'[m] + Cardinality(Out(m)') <= row'[m].tries
    <2>1. CASE m # n
      <3>1. row'[m].tries = row[m].tries
        BY <1>4, <2>1
      <3>2. Out(m)' \subseteq Out(m)
        BY <1>7, <1>15, <2>1, <3>1 DEF Out
      <3> QED
        BY <1>2, <1>12, <3>2, BudgetKept
    <2>2. CASE m = n
      <3>1. IsFiniteSet(Out(n)) /\ Cardinality(Out(n)) \in Nat
        BY OutFinite
      <3>2. Out(n)' \subseteq Out(n) \cup {try}
        BY <1>7, <1>15 DEF Out
      <3>3. /\ IsFiniteSet(Out(n) \cup {try})
            /\ Cardinality(Out(n) \cup {try}) \in {Cardinality(Out(n)), Cardinality(Out(n)) + 1}
        BY <3>1, FS_AddElement
      <3>4. IsFiniteSet(Out(n)') /\ Cardinality(Out(n)') <= Cardinality(Out(n) \cup {try})
        BY <3>2, <3>3, FS_Subset
      <3>5. Cardinality(Out(n)') \in Nat
        BY <3>4, FS_CardinalityType
      <3>6. accepted[n] \in Nat /\ accepted[n] + Cardinality(Out(n)) <= row[n].tries
        BY DEF Budget, TypeOK
      <3>7. accepted'[n] = accepted[n] /\ row'[n].tries = row[n].tries + 1
        BY <1>2, <1>3, <1>4, <1>6
      <3> QED
        BY <1>1, <2>2, <3>1, <3>3, <3>4, <3>5, <3>6, <3>7
    <2> QED
      BY <2>1, <2>2
  <1> QED
    BY <1>12, <1>14, <1>17, <1>18, <1>19, <1>20 DEF Budget

\* The answer of a call, with or without its message taken.
LEMMA AnswerKept ==
  ASSUME CountInv, NEW q \in Passes, NEW c \in pass[q].calls, c.answer = "none",
         NEW a \in Answers \ {"none"}, pass' = Answered(q, c, a),
         UNCHANGED <<people, consumer, receipts, row, wait, edits>>, faults' \in Nat,
         \/ accepted' = [accepted EXCEPT ![c.n] = @ + 1]
         \/ a # "ok" /\ UNCHANGED accepted
  PROVE  CountInv' /\ \A n \in Rows : RowMoves(n)
  <1> USE DEF CountInv
  <1> DEFINE new == [c EXCEPT !.answer = a]
             calls == (pass[q].calls \ {c}) \cup {new}
             x == [pass[q] EXCEPT !.calls = calls]
  <1>1. c \in Call /\ c.n \in Rows /\ c.try \in Nat /\ pass[q] \in Pass
    BY CallTypes DEF TypeOK
  <1>2. new \in Call /\ new.n = c.n /\ new.try = c.try /\ new.answer = a
    BY <1>1 DEF Call
  <1>3. pass' = [pass EXCEPT ![q] = x]
    BY <1>1 DEF Answered, TypeOK, Pass
  <1> HIDE DEF new
  <1>4. calls \in SUBSET Call /\ calls = (pass[q].calls \ {c}) \cup {new}
    BY <1>1, <1>2 DEF Pass
  <1> HIDE DEF calls
  <1>5. x \in Pass /\ x.calls = (pass[q].calls \ {c}) \cup {new}
    BY <1>1, <1>4 DEF Pass
  <1> HIDE DEF x
  <1>6. row' \in [Rows -> DeliveryRow] /\ \A n \in Rows : RowMoves(n)
    BY SameRows
  <1>7. /\ accepted' \in [Rows -> Nat]
        /\ accepted'[c.n] \in {accepted[c.n], accepted[c.n] + 1}
        /\ a = "ok" => accepted'[c.n] = accepted[c.n] + 1
        /\ \A n \in Rows : n # c.n => accepted'[n] = accepted[n]
    BY <1>1 DEF TypeOK
  <1>8. wait' \in 0..Interval /\ edits' \in Nat
    BY DEF TypeOK
  <1>9. /\ TypeOK' /\ OneConsumer'
        /\ pass'[q] = x /\ \A r \in Passes : r # q => pass'[r] = pass[r]
    BY <1>3, <1>5, <1>6, <1>7, <1>8, PassTyped
  <1>10. ASSUME NEW r \in Passes, NEW d \in pass'[r].calls
         PROVE  \/ d \in pass[r].calls /\ d # c /\ d.n \in Rows
                \/ r = q /\ d = new
    <2>1. CASE r = q
      BY <1>5, <1>9, <1>10, <2>1, CallTypes
    <2>2. CASE r # q
      <3>1. d \in pass[r].calls
        BY <1>9, <1>10, <2>2
      <3> QED
        BY <2>2, <3>1, CallTypes DEF OwnAttempts
    <2> QED
      BY <2>1, <2>2
  <1>11. CallsCounted'
    BY <1>2, <1>10 DEF CallsCounted
  <1>12. OwnAttempts'
    <2>1. ASSUME NEW r \in Passes, NEW s \in Passes, NEW d \in pass'[r].calls, NEW e \in pass'[s].calls,
                 d.n = e.n, d.try = e.try
          PROVE  r = s /\ d = e
      <3>1. CASE d \in pass[r].calls /\ d # c
        <4>1. ~(d.n = c.n /\ d.try = c.try)
          BY <3>1 DEF OwnAttempts
        <4>2. e \in pass[s].calls
          BY <1>2, <1>10, <2>1, <4>1
        <4> QED
          BY <2>1, <3>1, <4>2 DEF OwnAttempts
      <3>2. CASE r = q /\ d = new
        <4>1. ~(e \in pass[s].calls /\ e # c)
          BY <1>2, <2>1, <3>2 DEF OwnAttempts
        <4> QED
          BY <1>10, <2>1, <3>2, <4>1
      <3> QED
        BY <1>10, <2>1, <3>1, <3>2
    <2> QED
      BY <2>1 DEF OwnAttempts
  <1>13. \A n \in Rows : accepted[n] \in Nat /\ accepted[n] <= accepted'[n]
    BY <1>7 DEF TypeOK
  <1>14. AnswersTrue'
    <2>1. ASSUME NEW r \in Passes, NEW d \in pass'[r].calls, d.answer = "ok" PROVE accepted'[d.n] > 0
      <3>1. CASE d \in pass[r].calls /\ d.n \in Rows
        <4>1. accepted[d.n] > 0
          BY <2>1, <3>1 DEF AnswersTrue
        <4> QED
          BY <1>7, <1>13, <3>1, <4>1
      <3>2. CASE d = new
        BY <1>1, <1>2, <1>7, <1>13, <2>1, <3>2
      <3> QED
        BY <1>10, <2>1, <3>1, <3>2
    <2>2. ASSUME NEW n \in Rows, row'[n].status = "sent" PROVE accepted'[n] > 0
      <3>1. accepted[n] > 0
        BY <2>2 DEF AnswersTrue
      <3> QED
        BY <1>7, <1>13, <3>1
    <2> QED
      BY <2>1, <2>2 DEF AnswersTrue
  <1>15. ASSUME NEW n \in Rows PROVE accepted'[n] + Cardinality(Out(n)') <= row'[n].tries
    <2>1. CASE n # c.n
      <3>1. Out(n)' \subseteq Out(n)
        BY <1>2, <1>10, <2>1 DEF Out
      <3> QED
        BY <1>6, <1>7, <2>1, <3>1, BudgetKept
    <2>2. CASE n = c.n
      <3>1. IsFiniteSet(Out(n)) /\ Cardinality(Out(n)) \in Nat
        BY OutFinite
      <3>2. c.try \in Out(n)
        BY <2>2 DEF Out, CallsCounted
      <3>3. ASSUME NEW i \in Out(n)' PROVE i \in Out(n) \ {c.try}
        <4>1. PICK r \in Passes : \E d \in pass'[r].calls : d.n = n /\ d.try = i /\ d.answer = "none"
          BY <3>3 DEF Out
        <4>2. PICK d \in pass'[r].calls : d.n = n /\ d.try = i /\ d.answer = "none"
          BY <4>1
        <4>3. d \in pass[r].calls /\ d # c
          BY <1>2, <1>10, <4>2
        <4>4. i # c.try
          BY <2>2, <4>2, <4>3 DEF OwnAttempts
        <4>5. i \in 1..row[n].tries
          BY <3>3 DEF Out
        <4> QED
          BY <4>2, <4>3, <4>4, <4>5 DEF Out
      <3>4. /\ IsFiniteSet(Out(n) \ {c.try})
            /\ Cardinality(Out(n) \ {c.try}) = Cardinality(Out(n)) - 1
        BY <3>1, <3>2, FS_RemoveElement
      <3>5. IsFiniteSet(Out(n)') /\ Cardinality(Out(n)') <= Cardinality(Out(n) \ {c.try})
        BY <3>3, <3>4, FS_Subset
      <3>6. Cardinality(Out(n)') \in Nat
        BY <3>5, FS_CardinalityType
      <3>7. accepted[n] \in Nat /\ accepted[n] + Cardinality(Out(n)) <= row[n].tries
        BY DEF Budget, TypeOK
      <3>8. row'[n].tries = row[n].tries /\ row[n].tries \in Nat
        BY RowFields DEF TypeOK
      <3> QED
        BY <1>7, <2>2, <3>1, <3>4, <3>5, <3>6, <3>7, <3>8
    <2> QED
      BY <2>1, <2>2
  <1> QED
    BY <1>6, <1>9, <1>11, <1>12, <1>14, <1>15 DEF Budget

LEMMA CallEnds ==
  ASSUME CountInv, NEW q \in Passes, NEW c \in pass[q].calls, Accepts(q, c) \/ CallFails(q, c)
  PROVE  CountInv' /\ \A n \in Rows : RowMoves(n)
  <1>1. CASE Accepts(q, c)
    <2>1. /\ c.answer = "none" /\ pass' = Answered(q, c, "ok")
          /\ accepted' = [accepted EXCEPT ![c.n] = @ + 1]
          /\ UNCHANGED <<people, consumer, receipts, row, wait, edits>> /\ faults' \in Nat
      BY <1>1 DEF Accepts, CountInv, TypeOK
    <2>2. "ok" \in Answers \ {"none"}
      BY DEF Answers
    <2> QED
      BY <2>1, <2>2, AnswerKept
  <1>2. CASE CallFails(q, c)
    <2>1. PICK a \in {"retryable", "permanent"} :
            /\ pass' = Answered(q, c, a)
            /\ accepted' = [accepted EXCEPT ![c.n] = @ + 1] \/ UNCHANGED accepted
      BY <1>2 DEF CallFails
    <2>2. /\ c.answer = "none"
          /\ UNCHANGED <<people, consumer, receipts, row, wait, edits>> /\ faults' \in Nat
      BY <1>2 DEF CallFails, Fault, CountInv, TypeOK
    <2>3. a \in Answers \ {"none"} /\ a # "ok"
      BY DEF Answers
    <2> QED
      BY <2>1, <2>2, <2>3, AnswerKept
  <1> QED
    BY <1>1, <1>2

LEMMA LostKept ==
  ASSUME CountInv, NEW q \in Passes, PassLost(q)
  PROVE  CountInv' /\ \A n \in Rows : RowMoves(n)
  <1> USE DEF CountInv
  <1>1. /\ UNCHANGED <<people, consumer, receipts, row, wait, edits>> /\ faults' \in Nat
        /\ pass' = [pass EXCEPT ![q] = NoPass]
    BY DEF PassLost, Fault, TypeOK
  <1>2. PICK S \in SUBSET {c \in pass[q].calls : c.answer = "none"} :
          accepted' = [n \in Rows |-> accepted[n] + Cardinality({c \in S : c.n = n})]
    BY DEF PassLost
  <1> DEFINE G(n) == {c \in S : c.n = n}
             R(n) == {c.try : c \in G(n)}
  <1>3. ASSUME NEW n \in Rows
        PROVE  /\ R(n) \subseteq Out(n) /\ IsFiniteSet(Out(n)) /\ IsFiniteSet(R(n))
               /\ Cardinality(G(n)) \in Nat /\ Cardinality(R(n)) \in Nat
               /\ Cardinality(G(n)) <= Cardinality(R(n))
    <2>1. ASSUME NEW c \in G(n) PROVE c \in pass[q].calls /\ c.n = n /\ c.try \in Out(n)
      BY <2>1 DEF Out, CallsCounted
    <2>2. R(n) \subseteq Out(n)
      BY <2>1
    <2>3. IsFiniteSet(Out(n))
      BY OutFinite
    <2>4. IsFiniteSet(R(n))
      BY <2>2, <2>3, FS_Subset
    <2> DEFINE f == [c \in G(n) |-> c.try]
    <2>5. \A c, d \in G(n) : c.try = d.try => c = d
      BY <2>1 DEF OwnAttempts
    <2>6. f \in Injection(G(n), R(n))
      BY <2>5 DEF Injection, IsInjective
    <2> HIDE DEF f, G, R
    <2>7. IsFiniteSet(G(n)) /\ Cardinality(G(n)) <= Cardinality(R(n))
      BY <2>4, <2>6, FS_Injection
    <2> QED
      BY <2>2, <2>3, <2>4, <2>7, FS_CardinalityType
  <1>4. accepted' = [n \in Rows |-> accepted[n] + Cardinality(G(n))]
    BY <1>2
  <1>5. \A n \in Rows : \A i \in R(n) : \E c \in pass[q].calls : c.n = n /\ c.try = i
    OBVIOUS
  <1> HIDE DEF G, R
  <1>6. ASSUME NEW n \in Rows
        PROVE  /\ accepted[n] \in Nat /\ accepted'[n] = accepted[n] + Cardinality(G(n))
               /\ accepted'[n] \in Nat /\ accepted[n] <= accepted'[n]
    BY <1>3, <1>4 DEF TypeOK
  <1>7. accepted' \in [Rows -> Nat]
    BY <1>4, <1>6
  <1>8. row' \in [Rows -> DeliveryRow] /\ \A n \in Rows : RowMoves(n)
    BY <1>1, SameRows
  <1>9. NoPass \in Pass /\ NoPass.calls = {}
    BY NotificationAssumption DEF NoPass, Pass
  <1>10. wait' \in 0..Interval /\ edits' \in Nat
    BY <1>1 DEF TypeOK
  <1>11. /\ TypeOK' /\ OneConsumer'
         /\ pass'[q] = NoPass /\ \A r \in Passes : r # q => pass'[r] = pass[r]
    BY <1>1, <1>7, <1>8, <1>9, <1>10, PassTyped
  <1>12. \A r \in Passes : pass'[r].calls \subseteq pass[r].calls
    BY <1>9, <1>11
  <1>13. CallsCounted' /\ OwnAttempts' /\ AnswersTrue'
    BY <1>6, <1>8, <1>12, CallsFewer
  <1>14. ASSUME NEW n \in Rows PROVE accepted'[n] + Cardinality(Out(n)') <= row'[n].tries
    <2>1. ASSUME NEW i \in Out(n)' PROVE i \in Out(n) \ R(n)
      <3>1. PICK r \in Passes : \E d \in pass'[r].calls : d.n = n /\ d.try = i /\ d.answer = "none"
        BY <2>1 DEF Out
      <3>2. PICK d \in pass'[r].calls : d.n = n /\ d.try = i /\ d.answer = "none"
        BY <3>1
      <3>3. r # q /\ d \in pass[r].calls
        BY <1>9, <1>11, <3>2
      <3>4. i \notin R(n)
        BY <1>5, <3>2, <3>3 DEF OwnAttempts
      <3>5. i \in 1..row[n].tries
        BY <1>1, <2>1 DEF Out
      <3> QED
        BY <3>2, <3>3, <3>4, <3>5 DEF Out
    <2>2. IsFiniteSet(Out(n)) /\ Cardinality(Out(n)) \in Nat
      BY OutFinite
    <2>3. /\ IsFiniteSet(Out(n) \ R(n))
          /\ Cardinality(Out(n) \ R(n)) = Cardinality(Out(n)) - Cardinality(Out(n) \cap R(n))
      BY <2>2, FS_Difference
    <2>4. Out(n) \cap R(n) = R(n)
      BY <1>3
    <2>5. IsFiniteSet(Out(n)') /\ Cardinality(Out(n)') <= Cardinality(Out(n) \ R(n))
      BY <2>1, <2>3, FS_Subset
    <2>6. Cardinality(Out(n)') \in Nat
      BY <2>5, FS_CardinalityType
    <2>7. accepted[n] + Cardinality(Out(n)) <= row[n].tries
      BY DEF Budget
    <2>8. row'[n].tries = row[n].tries /\ row[n].tries \in Nat
      BY <1>1, RowFields DEF TypeOK
    <2>9. Cardinality(Out(n)') <= Cardinality(Out(n)) - Cardinality(R(n))
      BY <2>3, <2>4, <2>5
    <2>10. Cardinality(G(n)) \in Nat /\ Cardinality(R(n)) \in Nat /\ Cardinality(G(n)) <= Cardinality(R(n))
      BY <1>3
    <2>11. accepted[n] \in Nat /\ accepted'[n] = accepted[n] + Cardinality(G(n))
      BY <1>6
    <2> QED
      BY <2>2, <2>6, <2>7, <2>8, <2>9, <2>10, <2>11
  <1> QED
    BY <1>8, <1>11, <1>13, <1>14 DEF Budget

LEMMA TickKept ==
  ASSUME CountInv, Tick
  PROVE  CountInv' /\ \A n \in Rows : RowMoves(n)
  <1> USE DEF CountInv
  <1>1. /\ UNCHANGED <<people, consumer, receipts, accepted, edits>> /\ faults' \in Nat
        /\ row' = [n \in Rows |-> Later(n)] /\ pass' = [q \in Passes |-> Older(q)]
        /\ \A q \in Passes : pass[q].age < MaxAge
    BY DEF Tick, Fault, TypeOK
  <1>2. wait' \in 0..Interval
    BY NotificationAssumption DEF Tick, TypeOK
  <1>3. ASSUME NEW n \in Rows
        PROVE  row'[n] \in DeliveryRow /\ RowMoves(n) /\ row'[n].tries = row[n].tries
    <2>1. row'[n] = Later(n)
      BY <1>1
    <2>2. /\ Later(n) \in DeliveryRow
          /\ Later(n).status = row[n].status /\ Later(n).tries = row[n].tries
          /\ Later(n).held = row[n].held
      BY LaterRow
    <2>3. /\ row[n].held => row[n].status = "pending"
          /\ row[n].status # "none" => n[1] \in receipts'
      BY <1>1 DEF TypeOK, OneConsumer
    <2>4. row[n].status = "pending" \/ Later(n) = row[n]
      BY DEF Later
    <2> QED
      BY <2>1, <2>2, <2>3, <2>4 DEF RowMoves
  <1>4. row' \in [Rows -> DeliveryRow]
    BY <1>1, <1>3
  <1>5. ASSUME NEW c \in Call
        PROVE  LET d == [c EXCEPT !.age = 1]
               IN  d \in Call /\ d.n = c.n /\ d.try = c.try /\ d.answer = c.answer
    BY DEF Call
  <1>6. ASSUME NEW q \in Passes
        PROVE  /\ pass'[q] \in Pass
               /\ \A d \in pass'[q].calls : \E c \in pass[q].calls :
                    /\ d.n = c.n /\ d.try = c.try /\ d.answer = c.answer
                    /\ d = IF pass[q].live THEN [c EXCEPT !.age = 1] ELSE c
    <2>1. pass[q] \in Pass /\ pass'[q] = Older(q)
      BY <1>1 DEF TypeOK
    <2> DEFINE calls == {[c EXCEPT !.age = 1] : c \in pass[q].calls}
               age == pass[q].age + 1
    <2>2. calls \in SUBSET Call
      BY <1>5, <2>1 DEF Pass
    <2>3. age \in 0..MaxAge
      BY <1>1, <2>1, NotificationAssumption DEF Pass
    <2>4. \A d \in calls : \E c \in pass[q].calls :
            d = [c EXCEPT !.age = 1] /\ d.n = c.n /\ d.try = c.try /\ d.answer = c.answer
      <3>1. ASSUME NEW d \in calls
            PROVE  \E c \in pass[q].calls :
                     d = [c EXCEPT !.age = 1] /\ d.n = c.n /\ d.try = c.try /\ d.answer = c.answer
        <4>1. PICK c \in pass[q].calls : d = [c EXCEPT !.age = 1]
          BY <3>1
        <4>2. c \in Call
          BY <2>1 DEF Pass
        <4> QED
          BY <1>5, <4>1, <4>2
      <3> QED
        BY <3>1
    <2>5. pass[q].live => Older(q) = [pass[q] EXCEPT !.age = age, !.calls = calls]
      BY DEF Older
    <2>6. ~pass[q].live => Older(q) = pass[q]
      BY DEF Older
    <2> HIDE DEF calls, age
    <2>7. CASE pass[q].live
      <3>1. pass'[q] \in Pass /\ pass'[q].calls = calls
        BY <2>1, <2>2, <2>3, <2>5, <2>7 DEF Pass
      <3> QED
        BY <2>4, <2>7, <3>1
    <2>8. CASE ~pass[q].live
      BY <2>1, <2>6, <2>8
    <2> QED
      BY <2>7, <2>8
  <1>7. pass' \in [Passes -> Pass]
    BY <1>1, <1>6
  <1>8. TypeOK'
    BY <1>1, <1>2, <1>3, <1>4, <1>7, MovedRows DEF TypeOK, people
  <1>9. OneConsumer'
    BY <1>1, <1>3 DEF OneConsumer, RowMoves, TypeOK
  <1>10. CallsCounted'
    <2>1. ASSUME NEW q \in Passes, NEW d \in pass'[q].calls PROVE d.try \in 1..row'[d.n].tries
      <3>1. PICK c \in pass[q].calls : d.n = c.n /\ d.try = c.try
        BY <1>6, <2>1
      <3>2. c.n \in Rows /\ c.try \in 1..row[c.n].tries
        BY CallTypes DEF CallsCounted
      <3> QED
        BY <1>3, <3>1, <3>2
    <2> QED
      BY <2>1 DEF CallsCounted
  <1>11. OwnAttempts'
    <2>1. ASSUME NEW q \in Passes, NEW r \in Passes, NEW c \in pass'[q].calls, NEW d \in pass'[r].calls,
                 c.n = d.n, c.try = d.try
          PROVE  q = r /\ c = d
      <3>1. PICK b \in pass[q].calls : /\ c.n = b.n /\ c.try = b.try
                                       /\ c = IF pass[q].live THEN [b EXCEPT !.age = 1] ELSE b
        BY <1>6, <2>1
      <3>2. PICK e \in pass[r].calls : /\ d.n = e.n /\ d.try = e.try
                                       /\ d = IF pass[r].live THEN [e EXCEPT !.age = 1] ELSE e
        BY <1>6, <2>1
      <3>3. b.n = e.n /\ b.try = e.try
        BY <2>1, <3>1, <3>2
      <3>4. q = r /\ b = e
        BY <3>3 DEF OwnAttempts
      <3> QED
        BY <3>1, <3>2, <3>4
    <2> QED
      BY <2>1 DEF OwnAttempts
  <1>12. AnswersTrue'
    <2>1. ASSUME NEW q \in Passes, NEW d \in pass'[q].calls, d.answer = "ok" PROVE accepted'[d.n] > 0
      <3>1. PICK c \in pass[q].calls : d.n = c.n /\ d.answer = c.answer
        BY <1>6, <2>1
      <3> QED
        BY <1>1, <2>1, <3>1 DEF AnswersTrue
    <2>2. \A n \in Rows : row'[n].status = "sent" => accepted'[n] > 0
      BY <1>1, <1>3 DEF AnswersTrue, RowMoves
    <2> QED
      BY <2>1, <2>2 DEF AnswersTrue
  <1>13. ASSUME NEW n \in Rows PROVE accepted'[n] + Cardinality(Out(n)') <= row'[n].tries
    <2>1. ASSUME NEW i \in Out(n)' PROVE i \in Out(n)
      <3>1. PICK q \in Passes : \E d \in pass'[q].calls : d.n = n /\ d.try = i /\ d.answer = "none"
        BY <2>1 DEF Out
      <3>2. PICK c \in pass[q].calls : c.n = n /\ c.try = i /\ c.answer = "none"
        BY <1>6, <3>1
      <3>3. i \in 1..row[n].tries
        BY <1>3, <2>1 DEF Out
      <3> QED
        BY <3>2, <3>3 DEF Out
    <2>2. Out(n)' \subseteq Out(n)
      BY <2>1
    <2> QED
      BY <1>1, <1>3, <2>2, BudgetKept
  <1> QED
    BY <1>3, <1>8, <1>9, <1>10, <1>11, <1>12, <1>13 DEF Budget

-----------------------------------------------------------------------------
(* The theorems *)

LEMMA StepInv ==
  ASSUME CountInv, [Next]_vars
  PROVE  CountInv' /\ \A n \in Rows : RowMoves(n)
  <1> USE DEF CountInv
  <1>1. CASE Participating
    <2>1. /\ TypeOK' /\ OneConsumer' /\ UNCHANGED <<pass, accepted>>
          /\ \A n \in Rows : RowMoves(n)
      BY <1>1, PeopleMove
    <2> QED
      BY <2>1, QuietKept
  <1>2. CASE Consuming
    <2>1. /\ TypeOK' /\ OneConsumer' /\ UNCHANGED <<pass, accepted>>
          /\ \A n \in Rows : RowMoves(n)
      BY <1>2, ConsumersMove
    <2> QED
      BY <2>1, QuietKept
  <1>3. ASSUME NEW q \in Passes, Delivering(q) PROVE CountInv' /\ \A n \in Rows : RowMoves(n)
    <2>1. CASE StartPass(q) \/ RunsDry(q) \/ PassEnds(q)
      BY <2>1, QuietPass
    <2>2. CASE PassLost(q)
      BY <2>2, LostKept
    <2>3. ASSUME NEW n \in Rows, Claim(q, n) PROVE CountInv' /\ \A m \in Rows : RowMoves(m)
      BY <2>3, ClaimKept
    <2>4. ASSUME NEW c \in pass[q].calls, Accepts(q, c) \/ CallFails(q, c)
          PROVE  CountInv' /\ \A n \in Rows : RowMoves(n)
      BY <2>4, CallEnds
    <2>5. ASSUME NEW c \in pass[q].calls, Record(q, c)
          PROVE  CountInv' /\ \A n \in Rows : RowMoves(n)
      BY <2>5, RecordKept
    <2> HIDE DEF CountInv
    <2> QED
      BY <1>3, <2>1, <2>2, <2>3, <2>4, <2>5 DEF Delivering, Working
  <1>4. CASE Tick
    BY <1>4, TickKept
  <1>5. CASE UNCHANGED vars
    <2>1. UNCHANGED <<row, receipts, accepted, pass>>
      BY <1>5 DEF vars
    <2>2. TypeOK' /\ OneConsumer'
      BY <1>5 DEF vars, TypeOK, OneConsumer
    <2>3. \A n \in Rows : RowMoves(n)
      BY <2>1, SameRows
    <2> QED
      BY <2>1, <2>2, <2>3, QuietKept
  <1> HIDE DEF CountInv
  <1> QED
    BY <1>1, <1>2, <1>3, <1>4, <1>5 DEF Next

LEMMA InitInv == Init => CountInv
  <1> SUFFICES ASSUME Init PROVE CountInv
    OBVIOUS
  <1>1. NoRow \in DeliveryRow /\ NoRow.status = "none" /\ ~NoRow.held /\ NoRow.tries = 0
    BY NotificationAssumption DEF NoRow, DeliveryRow, Statuses, Clock
  <1>2. NoPass \in Pass /\ NoPass.calls = {}
    BY NotificationAssumption DEF NoPass, Pass
  <1>3. NoContact \in [dest : Destinations \cup {None, Erased}, enabled : BOOLEAN]
    BY DEF NoContact
  <1>4. Free \in [event : Events \cup {None},
                  read : SUBSET (Participants \X (Destinations \cup {None, Erased}))]
    BY DEF Free
  <1>5. /\ contact \in [Accounts -> [dest : Destinations \cup {None, Erased}, enabled : BOOLEAN]]
        /\ consumer \in [Consumers -> [event : Events \cup {None},
                                       read : SUBSET (Participants \X (Destinations \cup {None, Erased}))]]
    BY <1>3, <1>4 DEF Init
  <1>6. /\ created \in 0..MaxAccounts /\ member \in [Participants -> 0..MaxAccounts]
        /\ wait \in 0..Interval /\ receipts \subseteq Events /\ faults \in Nat /\ edits \in Nat
    BY NotificationAssumption DEF Init
  <1>7. /\ row \in [Rows -> DeliveryRow] /\ pass \in [Passes -> Pass] /\ accepted \in [Rows -> Nat]
        /\ \A n \in Rows : row[n] = NoRow /\ accepted[n] = 0
        /\ \A q \in Passes : pass[q] = NoPass
    BY <1>1, <1>2 DEF Init
  <1>8. TypeOK
    BY <1>1, <1>5, <1>6, <1>7 DEF TypeOK
  <1>9. CallsCounted /\ OwnAttempts /\ AnswersTrue
    BY <1>1, <1>2, <1>7 DEF CallsCounted, OwnAttempts, AnswersTrue
  <1>10. OneConsumer
    BY <1>1, <1>7 DEF OneConsumer, Init
  <1>11. ASSUME NEW n \in Rows PROVE accepted[n] + Cardinality(Out(n)) <= row[n].tries
    <2>1. Out(n) = {}
      BY <1>2, <1>7 DEF Out
    <2> QED
      BY <1>1, <1>7, <2>1, FS_EmptySet
  <1> QED
    BY <1>8, <1>9, <1>10, <1>11 DEF CountInv, Budget

LEMMA InvariantHolds == Spec => []CountInv
  BY InitInv, StepInv, PTL DEF Spec

\* Every variable of the notifications keeps its shape, and a row is leased only while
\* it is pending.
THEOREM NotificationsTypeCorrect == Spec => []TypeOK
  <1>1. CountInv => TypeOK
    BY DEF CountInv
  <1> QED
    BY <1>1, InvariantHolds, PTL

\* A row says sent only of a message the provider took, and counts at least as many
\* attempts as messages were taken, also those of a pass that was lost.
THEOREM CountsStayTrue == Spec => []CountsTrue
  <1>1. CountInv => CountsTrue
    <2> SUFFICES ASSUME CountInv, NEW n \in Rows
                 PROVE  (row[n].status = "sent" => accepted[n] > 0) /\ accepted[n] <= row[n].tries
      BY DEF CountsTrue
    <2>1. /\ accepted[n] \in Nat /\ row[n].tries \in Nat
          /\ accepted[n] + Cardinality(Out(n)) <= row[n].tries
      BY RowFields DEF CountInv, Budget, TypeOK
    <2>2. Cardinality(Out(n)) \in Nat
      BY OutFinite DEF CountInv
    <2> QED
      BY <2>1, <2>2 DEF CountInv, AnswersTrue
  <1> QED
    BY <1>1, InvariantHolds, PTL

\* A delivery that was sent, failed or withdrawn stays so.
THEOREM DecisionsStand == Spec => DecisionStands
  <1>1. CountInv /\ [Next]_vars =>
          [\A n \in Rows : row[n].status \in {"sent", "failed"} => row'[n].status = row[n].status]_vars
    BY StepInv DEF RowMoves
  <1> QED
    BY <1>1, InvariantHolds, PTL DEF Spec, DecisionStands

-----------------------------------------------------------------------------
(* Duplicates *)

\* The calls of a batch, Width at a time and each at most one unit long, are over before
\* the leases of the pass lapse, and before its time limit.
LeaseCoversBatch == Batch <= Width * (Lease - 1) /\ Batch <= Width * (MaxAge - 1)

NewCalls(x) == {c \in x.calls : c.age = 0}
\* A pass that goes on without delay has claimed Width rows in each unit of its age;
\* what it still waits for was claimed in the last one.
PacedPass(x) ==
  /\ IsFiniteSet(x.calls)
  /\ ~x.live => x = NoPass
  /\ (x.live /\ ~x.dry /\ x.claimed < Batch) \/ NewCalls(x) # {} =>
       Width * x.age + Cardinality(NewCalls(x)) <= x.claimed
  /\ x.calls # {} => Width * (x.age - 1) < x.claimed
  /\ \A c \in x.calls : c.answer \in {"none", "ok"}
Paced == \A q \in Passes : PacedPass(pass[q])

\* A row was claimed once, and while it is pending the pass that claimed it calls, under
\* a lease counted from the start of the pass.
Caller(n) == \E q \in Passes : \E c \in pass[q].calls : c.n = n /\ row[n].lock = Lease - pass[q].age
HeldBy(n) ==
  /\ row[n].tries <= 1
  /\ row[n].status = "pending" /\ row[n].tries > 0 => row[n].held /\ Caller(n)
HeldByCaller == \A n \in Rows : HeldBy(n)

PaceInv == faults = 0 => Paced /\ HeldByCaller

LEMMA Pace ==
  ASSUME NEW w \in Nat \ {0}, NEW a \in Nat, NEW b \in Int, NEW k \in Nat,
         w * (a - 1) < k, k <= w * (b - 1)
  PROVE  a < b
  <1> SUFFICES ASSUME a >= b PROVE FALSE
    OBVIOUS
  <1> DEFINE d == a - b
  <1>1. d \in Nat /\ a - 1 = (b - 1) + d
    OBVIOUS
  <1> HIDE DEF d
  <1>2. w * (a - 1) = w * (b - 1) + w * d
    BY <1>1
  <1>3. w * d \in Nat /\ w * (b - 1) \in Int
    BY <1>1
  <1> QED
    BY <1>2, <1>3

\* No lease lapses under a call, and no pass reaches its limit with one.
LEMMA CallsInTime ==
  ASSUME LeaseCoversBatch, TypeOK, NEW q \in Passes, PacedPass(pass[q]), pass[q].calls # {}
  PROVE  pass[q].live /\ pass[q].age < Lease /\ pass[q].age < MaxAge
  <1>1. pass[q].age \in Nat /\ pass[q].claimed \in Nat /\ pass[q].claimed <= Batch
    BY NotificationAssumption DEF TypeOK, Pass
  <1>2. Width * (pass[q].age - 1) < Batch
    <2>1. Width * (pass[q].age - 1) \in Int
      BY <1>1, NotificationAssumption
    <2> QED
      BY <1>1, <2>1, NotificationAssumption DEF PacedPass
  <1>3. pass[q].live
    BY DEF PacedPass, NoPass
  <1> QED
    BY <1>1, <1>2, <1>3, Pace, NotificationAssumption DEF LeaseCoversBatch

LEMMA PacedStep ==
  ASSUME TypeOK, Paced, NEW q \in Passes, NEW x, PacedPass(x), pass' = [pass EXCEPT ![q] = x]
  PROVE  Paced'
  <1>1. \A r \in Passes : pass'[r] = IF r = q THEN x ELSE pass[r]
    BY DEF TypeOK
  <1>2. \A r \in Passes : PacedPass(pass'[r])
    BY <1>1 DEF Paced
  <1> QED
    BY <1>2 DEF Paced, PacedPass, NewCalls

LEMMA CallersKept ==
  ASSUME TypeOK, HeldByCaller, NEW q \in Passes, NEW x, pass' = [pass EXCEPT ![q] = x],
         pass[q].calls = {} \/ x.age = pass[q].age,
         NEW n \in Rows, row'[n] = row[n],
         \A c \in pass[q].calls : c.n = n => \E d \in x.calls : d.n = n
  PROVE  HeldBy(n)'
  <1>1. \A r \in Passes : pass'[r] = IF r = q THEN x ELSE pass[r]
    BY DEF TypeOK
  <1>2. Caller(n) => Caller(n)'
    <2> SUFFICES ASSUME NEW r \in Passes, NEW c \in pass[r].calls, c.n = n,
                        row[n].lock = Lease - pass[r].age
                 PROVE  \E s \in Passes : \E d \in pass'[s].calls :
                          d.n = n /\ row'[n].lock = Lease - pass'[s].age
      BY DEF Caller
    <2>1. CASE r = q
      BY <1>1, <2>1
    <2>2. CASE r # q
      BY <1>1, <2>2
    <2> QED
      BY <2>1, <2>2
  <1> QED
    BY <1>2 DEF HeldByCaller, HeldBy

\* A step of the people or the consumers takes rows away from the passes, or brings new ones.
LEMMA OthersPace ==
  ASSUME CountInv, Paced, HeldByCaller, Participating \/ Consuming
  PROVE  Paced' /\ HeldByCaller'
  <1> USE DEF CountInv
  <1>1. UNCHANGED pass
    BY PeopleMove, ConsumersMove
  <1>2. ASSUME NEW n \in Rows
        PROVE  \/ row'[n] = row[n]
               \/ row'[n].status # "pending" /\ row'[n].tries = row[n].tries
               \/ row'[n].tries = 0
    <2>1. CASE Participating
      <3>1. row' = row \/ \E S \in SUBSET Participants, erase \in BOOLEAN : row' = Cancelled(S, erase)
        <4>1. ASSUME NEW a \in Accounts, CancelPending(a)
              PROVE  \E S \in SUBSET Participants, erase \in BOOLEAN : row' = Cancelled(S, erase)
          <5>1. {p \in Participants : member[p] = a} \in SUBSET Participants
            OBVIOUS
          <5> QED
            BY <4>1, <5>1 DEF CancelPending
        <4>2. ASSUME NEW p \in Participants, NEW a \in Accounts, Relink(p, a)
              PROVE  \E S \in SUBSET Participants, erase \in BOOLEAN : row' = Cancelled(S, erase)
          <5>1. {p} \in SUBSET Participants
            OBVIOUS
          <5> QED
            BY <4>2, <5>1 DEF Relink
        <4>3. row' = row \/ (\E a \in Accounts : CancelPending(a))
              \/ \E p \in Participants, a \in Accounts : Relink(p, a)
          BY <2>1 DEF Participating, UpsertContact, DeleteContact, RevokeMembership, Join
        <4> QED
          BY <4>1, <4>2, <4>3
      <3>2. ASSUME NEW S \in SUBSET Participants, NEW erase \in BOOLEAN, row' = Cancelled(S, erase)
            PROVE  row'[n] = row[n] \/ (row'[n].status # "pending" /\ row'[n].tries = row[n].tries)
        <4>1. row'[n] = row[n] \/ row'[n] = Ended(n, IF erase THEN Erased ELSE row[n].dest)
          BY <3>2 DEF Cancelled
        <4>2. (IF erase THEN Erased ELSE row[n].dest) \in Kinds
          BY RowFields DEF TypeOK, Kinds
        <4> QED
          BY <4>1, <4>2, EndedRow
      <3> QED
        BY <3>1, <3>2
    <2>2. CASE Consuming
      <3>1. ASSUME NEW k \in Consumers, CommitIntents(k)
            PROVE  row'[n] = row[n] \/ \E d \in Destinations : row'[n] = Intent(d)
        <4> DEFINE D == {d \in Destinations : <<n[2], d>> \in consumer[k].read}
        <4>1. D # {} => (CHOOSE d \in Destinations : <<n[2], d>> \in consumer[k].read) \in Destinations
          OBVIOUS
        <4> QED
          BY <3>1, <4>1 DEF CommitIntents
      <3>2. row' = row \/ \E k \in Consumers : CommitIntents(k)
        BY <2>2 DEF Consuming, ReadContacts, ConsumptionRollsBack
      <3> QED
        BY <3>1, <3>2, IntentRow
    <2> QED
      BY <2>1, <2>2
  <1>3. Paced'
    BY <1>1 DEF Paced, PacedPass, NewCalls
  <1>4. HeldByCaller'
    BY <1>1, <1>2 DEF HeldByCaller, HeldBy, Caller
  <1> QED
    BY <1>3, <1>4

LEMMA NoPassPaced == PacedPass(NoPass)
  <1>1. NewCalls(NoPass) = {} /\ NoPass.calls = {} /\ ~NoPass.live
    BY DEF NewCalls, NoPass
  <1> QED
    BY <1>1, FS_EmptySet DEF PacedPass

LEMMA NewCallsFinite ==
  ASSUME NEW x, PacedPass(x)
  PROVE  IsFiniteSet(NewCalls(x)) /\ Cardinality(NewCalls(x)) \in Nat
  <1>1. NewCalls(x) \subseteq x.calls
    BY DEF NewCalls
  <1>2. IsFiniteSet(NewCalls(x))
    BY <1>1, FS_Subset DEF PacedPass
  <1> QED
    BY <1>2, FS_CardinalityType

\* A pass that lost some of its calls, or stopped claiming, is still paced.
LEMMA FewerPaced ==
  ASSUME NEW x \in Pass, NEW y \in Pass, PacedPass(x), x.live, y.live, y.age = x.age,
         y.claimed = x.claimed, y.calls \subseteq x.calls, x.dry => y.dry
  PROVE  PacedPass(y)
  <1>1. NewCalls(y) \subseteq NewCalls(x)
    BY DEF NewCalls
  <1>2. IsFiniteSet(NewCalls(x)) /\ Cardinality(NewCalls(x)) \in Nat
    BY NewCallsFinite
  <1>3. IsFiniteSet(NewCalls(y)) /\ Cardinality(NewCalls(y)) <= Cardinality(NewCalls(x))
    BY <1>1, <1>2, FS_Subset
  <1>4. Cardinality(NewCalls(y)) \in Nat
    BY <1>3, FS_CardinalityType
  <1>5. IsFiniteSet(y.calls)
    BY FS_Subset DEF PacedPass
  <1>6. Width * x.age \in Nat /\ x.claimed \in Nat
    BY NotificationAssumption DEF Pass
  <1>7. (y.live /\ ~y.dry /\ y.claimed < Batch) \/ NewCalls(y) # {} =>
          Width * y.age + Cardinality(NewCalls(y)) <= y.claimed
    <2>1. CASE NewCalls(x) # {} \/ (x.live /\ ~x.dry /\ x.claimed < Batch)
      <3>1. Width * x.age + Cardinality(NewCalls(x)) <= x.claimed
        BY <2>1 DEF PacedPass
      <3> QED
        BY <1>2, <1>3, <1>4, <1>6, <3>1
    <2>2. CASE NewCalls(x) = {} /\ ~(x.live /\ ~x.dry /\ x.claimed < Batch)
      BY <1>1, <2>2
    <2> QED
      BY <2>1, <2>2
  <1> QED
    BY <1>5, <1>7 DEF PacedPass

LEMMA ClaimPace ==
  ASSUME LeaseCoversBatch, CountInv, Paced, HeldByCaller,
         NEW q \in Passes, NEW n \in Rows, Claim(q, n)
  PROVE  Paced' /\ HeldByCaller'
  <1> USE DEF CountInv
  <1> DEFINE new == [n |-> n, try |-> row[n].tries + 1, age |-> 0, answer |-> "none"]
             claimed == pass[q].claimed + 1
             calls == pass[q].calls \cup {new}
             x == [pass[q] EXCEPT !.claimed = claimed, !.calls = calls]
  <1>1. /\ row[n].status = "pending" /\ row[n].tries \in Nat /\ pass[q] \in Pass
        /\ pass[q].live /\ ~pass[q].dry /\ pass[q].claimed < Batch /\ PacedPass(pass[q])
    BY RowFields DEF Claim, First, Claimable, Idle, Open, TypeOK, Paced
  <1>2. /\ row' = [row EXCEPT ![n] = Leased(q, n)]
        /\ row'[n] = Leased(q, n) /\ \A m \in Rows : m # n => row'[m] = row[m]
    BY DEF Claim, TypeOK
  <1>3. /\ Leased(q, n).tries = row[n].tries + 1 /\ Leased(q, n).held
        /\ Leased(q, n).lock = Lease - pass[q].age
    BY LeasedRow
  <1>4. pass' = [pass EXCEPT ![q] = x]
    <2>1. pass' = [pass EXCEPT ![q].claimed = claimed, ![q].calls = calls]
      BY <1>2, <1>3 DEF Claim
    <2> HIDE DEF claimed, calls
    <2> QED
      BY <1>1, <2>1 DEF TypeOK, Pass
  <1>5. new.n = n /\ new.age = 0 /\ new.answer = "none"
    OBVIOUS
  <1> HIDE DEF new
  <1>6. /\ x.claimed = pass[q].claimed + 1 /\ x.calls = pass[q].calls \cup {new}
        /\ x.age = pass[q].age /\ x.live /\ ~x.dry
    BY <1>1 DEF Pass
  <1> HIDE DEF x, claimed, calls
  <1>7. PacedPass(x)
    <2> DEFINE N == NewCalls(pass[q])
    <2>1. IsFiniteSet(N) /\ Cardinality(N) \in Nat
      BY <1>1, NewCallsFinite
    <2>2. NewCalls(x) \subseteq N \cup {new}
      BY <1>6 DEF NewCalls
    <2>3. IsFiniteSet(N \cup {new}) /\ Cardinality(N \cup {new}) \in {Cardinality(N), Cardinality(N) + 1}
      BY <2>1, FS_AddElement
    <2>4. IsFiniteSet(NewCalls(x)) /\ Cardinality(NewCalls(x)) <= Cardinality(N \cup {new})
      BY <2>2, <2>3, FS_Subset
    <2>5. Cardinality(NewCalls(x)) \in Nat
      BY <2>4, FS_CardinalityType
    <2>6. Width * pass[q].age + Cardinality(N) <= pass[q].claimed
      BY <1>1 DEF PacedPass
    <2>7. Width * pass[q].age \in Nat /\ pass[q].claimed \in Nat /\ pass[q].age \in Nat
      BY <1>1, NotificationAssumption DEF Pass
    <2>8. Width * x.age + Cardinality(NewCalls(x)) <= x.claimed
      BY <1>6, <2>1, <2>3, <2>4, <2>5, <2>6, <2>7
    <2>9. Width * (x.age - 1) < x.claimed
      <3>1. Width * (pass[q].age - 1) = Width * pass[q].age - Width
        BY <2>7, NotificationAssumption
      <3> QED
        BY <1>6, <2>1, <2>6, <2>7, <3>1, NotificationAssumption
    <2>10. IsFiniteSet(x.calls)
      BY <1>1, <1>6, FS_AddElement DEF PacedPass
    <2>11. \A c \in x.calls : c.answer \in {"none", "ok"}
      BY <1>1, <1>5, <1>6 DEF PacedPass
    <2> HIDE DEF N
    <2> QED
      BY <1>6, <2>8, <2>9, <2>10, <2>11 DEF PacedPass
  <1>8. Paced'
    BY <1>4, <1>7, PacedStep
  <1>9. row[n].tries = 0
    <2> SUFFICES ASSUME row[n].tries # 0 PROVE FALSE
      OBVIOUS
    <2>1. row[n].held /\ Caller(n)
      BY <1>1 DEF HeldByCaller, HeldBy
    <2>2. PICK r \in Passes : pass[r].calls # {} /\ row[n].lock = Lease - pass[r].age
      BY <2>1 DEF Caller
    <2>3. pass[r].age < Lease
      BY <2>2, CallsInTime DEF Paced
    <2>4. row[n].lock <= -pass[q].age
      BY <2>1 DEF Claim, First, Claimable, Past
    <2>5. pass[r].age \in Nat /\ pass[q].age \in Nat /\ Lease \in Nat
      BY NotificationAssumption DEF TypeOK, Pass
    <2> QED
      BY <2>2, <2>3, <2>4, <2>5
  <1>10. ASSUME NEW m \in Rows PROVE HeldBy(m)'
    <2>1. CASE m = n
      <3>1. pass'[q] = x /\ new \in x.calls
        BY <1>4, <1>6 DEF TypeOK
      <3>2. Caller(n)'
        BY <1>2, <1>3, <1>5, <1>6, <3>1 DEF Caller
      <3> QED
        BY <1>2, <1>3, <1>9, <2>1, <3>2 DEF HeldBy
    <2>2. CASE m # n
      BY <1>2, <1>4, <1>6, <2>2, CallersKept
    <2> QED
      BY <2>1, <2>2
  <1> QED
    BY <1>8, <1>10 DEF HeldByCaller

LEMMA AcceptPace ==
  ASSUME CountInv, Paced, HeldByCaller, NEW q \in Passes, NEW c \in pass[q].calls, Accepts(q, c)
  PROVE  Paced' /\ HeldByCaller'
  <1> USE DEF CountInv
  <1> DEFINE new == [c EXCEPT !.answer = "ok"]
             calls == (pass[q].calls \ {c}) \cup {new}
             x == [pass[q] EXCEPT !.calls = calls]
  <1>1. c \in Call /\ pass[q] \in Pass /\ PacedPass(pass[q]) /\ UNCHANGED row
    BY CallTypes DEF TypeOK, Paced, Accepts
  <1>2. new.n = c.n /\ new.age = c.age /\ new.answer = "ok"
    BY <1>1 DEF Call
  <1>3. pass' = [pass EXCEPT ![q] = x]
    BY <1>1 DEF Accepts, Answered, TypeOK, Pass
  <1> HIDE DEF new
  <1>4. /\ x.claimed = pass[q].claimed /\ x.calls = (pass[q].calls \ {c}) \cup {new}
        /\ x.age = pass[q].age /\ x.live = pass[q].live /\ x.dry = pass[q].dry
    BY <1>1 DEF Pass
  <1> HIDE DEF x, calls
  <1>5. PacedPass(x)
    <2> DEFINE N == NewCalls(pass[q])
    <2>1. IsFiniteSet(N) /\ Cardinality(N) \in Nat
      BY <1>1, NewCallsFinite
    <2>2. /\ NewCalls(x) = {} <=> N = {}
          /\ IsFiniteSet(NewCalls(x)) /\ Cardinality(NewCalls(x)) <= Cardinality(N)
      <3>1. CASE c.age = 0
        <4>1. c \in N /\ NewCalls(x) \subseteq (N \ {c}) \cup {new} /\ new \in NewCalls(x)
          BY <1>2, <1>4, <3>1 DEF NewCalls
        <4>2. IsFiniteSet(N \ {c}) /\ Cardinality(N \ {c}) = Cardinality(N) - 1
          BY <2>1, <4>1, FS_RemoveElement
        <4>3. /\ IsFiniteSet((N \ {c}) \cup {new})
              /\ Cardinality((N \ {c}) \cup {new}) \in {Cardinality(N \ {c}), Cardinality(N \ {c}) + 1}
          BY <4>2, FS_AddElement
        <4>4. IsFiniteSet(NewCalls(x)) /\ Cardinality(NewCalls(x)) <= Cardinality((N \ {c}) \cup {new})
          BY <4>1, <4>3, FS_Subset
        <4>5. Cardinality(NewCalls(x)) \in Nat
          BY <4>4, FS_CardinalityType
        <4> QED
          BY <2>1, <4>1, <4>2, <4>3, <4>4, <4>5
      <3>2. CASE c.age # 0
        <4>1. NewCalls(x) = N
          BY <1>2, <1>4, <3>2 DEF NewCalls
        <4> QED
          BY <2>1, <4>1
      <3> QED
        BY <3>1, <3>2
    <2>3. Cardinality(NewCalls(x)) \in Nat
      BY <2>2, FS_CardinalityType
    <2>4. Width * pass[q].age \in Nat /\ pass[q].claimed \in Nat
      BY <1>1, NotificationAssumption DEF Pass
    <2>5. (x.live /\ ~x.dry /\ x.claimed < Batch) \/ NewCalls(x) # {} =>
            Width * x.age + Cardinality(NewCalls(x)) <= x.claimed
      <3>1. (x.live /\ ~x.dry /\ x.claimed < Batch) \/ NewCalls(x) # {} =>
              Width * pass[q].age + Cardinality(N) <= pass[q].claimed
        BY <1>1, <1>4, <2>2 DEF PacedPass
      <3> HIDE DEF N
      <3> QED
        BY <1>4, <2>1, <2>2, <2>3, <2>4, <3>1
    <2>6. IsFiniteSet(x.calls)
      <3>1. IsFiniteSet(pass[q].calls \ {c})
        BY <1>1, FS_Subset DEF PacedPass
      <3> QED
        BY <1>4, <3>1, FS_AddElement
    <2>7. x.live /\ (x.calls # {} => Width * (x.age - 1) < x.claimed)
      BY <1>1, <1>4 DEF PacedPass, NoPass
    <2>8. \A d \in x.calls : d.answer \in {"none", "ok"}
      BY <1>1, <1>2, <1>4 DEF PacedPass
    <2> HIDE DEF N
    <2> QED
      BY <2>5, <2>6, <2>7, <2>8 DEF PacedPass
  <1>6. Paced'
    BY <1>3, <1>5, PacedStep
  <1>7. ASSUME NEW m \in Rows PROVE HeldBy(m)'
    <2>1. \A d \in pass[q].calls : d.n = m => \E e \in x.calls : e.n = m
      BY <1>2, <1>4
    <2>2. x.age = pass[q].age /\ row'[m] = row[m]
      BY <1>1, <1>4
    <2> QED
      BY <1>3, <2>1, <2>2, CallersKept
  <1> QED
    BY <1>6, <1>7 DEF HeldByCaller

LEMMA RecordPace ==
  ASSUME CountInv, Paced, HeldByCaller, NEW q \in Passes, NEW c \in pass[q].calls, Record(q, c)
  PROVE  Paced' /\ HeldByCaller'
  <1> USE DEF CountInv
  <1> DEFINE x == [pass[q] EXCEPT !.calls = @ \ {c}]
  <1>1. /\ c \in Call /\ c.n \in Rows /\ pass[q] \in Pass /\ PacedPass(pass[q]) /\ c.answer = "ok"
        /\ row' = IF Owns(c) THEN [row EXCEPT ![c.n] = Outcome(q, c)] ELSE row
    BY CallTypes DEF TypeOK, Paced, PacedPass, Record
  <1>2. /\ x \in Pass /\ x.calls = pass[q].calls \ {c} /\ x.claimed = pass[q].claimed
        /\ x.age = pass[q].age /\ x.live = pass[q].live /\ x.dry = pass[q].dry
    BY <1>1 DEF Pass
  <1>3. pass' = [pass EXCEPT ![q] = x]
    BY DEF Record
  <1> HIDE DEF x
  <1>4. pass[q].live
    BY <1>1 DEF PacedPass, NoPass
  <1>5. PacedPass(x)
    BY <1>1, <1>2, <1>4, FewerPaced
  <1>6. Paced'
    BY <1>3, <1>5, PacedStep
  <1>7. ASSUME NEW m \in Rows PROVE HeldBy(m)'
    <2>1. CASE m = c.n
      <3>1. row[m].tries <= 1 /\ row[m].tries \in Nat /\ c.try \in 1..row[m].tries
        BY <2>1, RowFields DEF HeldByCaller, HeldBy, CallsCounted, TypeOK
      <3>2. CASE row[m].status = "pending"
        <4>1. Owns(c)
          BY <2>1, <3>1, <3>2 DEF Owns, HeldByCaller, HeldBy
        <4>2. row'[m] = Outcome(q, c)
          BY <1>1, <2>1, <4>1 DEF TypeOK
        <4>3. Outcome(q, c) = [row[m] EXCEPT !.status = "sent", !.held = FALSE, !.lock = 0, !.due = 0]
          BY <1>1, <2>1 DEF Outcome
        <4>4. row'[m].status = "sent" /\ row'[m].tries = row[m].tries
          BY <4>2, <4>3, SentRow DEF TypeOK
        <4> QED
          BY <3>1, <4>4 DEF HeldBy
      <3>3. CASE row[m].status # "pending"
        <4>1. row'[m] = row[m]
          BY <1>1, <2>1, <3>3 DEF Owns
        <4> QED
          BY <3>1, <3>3, <4>1 DEF HeldBy
      <3> QED
        BY <3>2, <3>3
    <2>2. CASE m # c.n
      <3>1. row'[m] = row[m]
        BY <1>1, <2>2 DEF TypeOK
      <3>2. \A d \in pass[q].calls : d.n = m => \E e \in x.calls : e.n = m
        BY <1>2, <2>2
      <3> QED
        BY <1>2, <1>3, <3>1, <3>2, CallersKept
    <2> QED
      BY <2>1, <2>2
  <1> QED
    BY <1>6, <1>7 DEF HeldByCaller

\* A pass that begins or ends has no calls.
LEMMA EndsPace ==
  ASSUME LeaseCoversBatch, CountInv, Paced, HeldByCaller, ~Fault, NEW q \in Passes,
         StartPass(q) \/ RunsDry(q) \/ PassEnds(q) \/ PassLost(q)
  PROVE  Paced' /\ HeldByCaller'
  <1> USE DEF CountInv
  <1>1. pass[q] \in Pass /\ PacedPass(pass[q]) /\ UNCHANGED row
    BY DEF TypeOK, Paced, StartPass, RunsDry, PassEnds, PassLost
  <1>2. ASSUME NEW x, PacedPass(x), pass' = [pass EXCEPT ![q] = x],
               pass[q].calls = {} \/ (x.calls = pass[q].calls /\ x.age = pass[q].age)
        PROVE  Paced' /\ HeldByCaller'
    <2>1. Paced'
      BY <1>2, PacedStep
    <2>2. ASSUME NEW n \in Rows PROVE HeldBy(n)'
      <3>1. \A d \in pass[q].calls : d.n = n => \E e \in x.calls : e.n = n
        BY <1>2
      <3>2. (pass[q].calls = {} \/ x.age = pass[q].age) /\ row'[n] = row[n]
        BY <1>1, <1>2
      <3> QED
        BY <1>2, <3>1, <3>2, CallersKept
    <2> QED
      BY <2>1, <2>2 DEF HeldByCaller
  <1>3. CASE StartPass(q)
    <2> DEFINE x == [pass[q] EXCEPT !.live = TRUE]
    <2>1. pass[q] = NoPass
      BY <1>1, <1>3 DEF StartPass, PacedPass
    <2>2. pass[q].age = 0 /\ pass[q].claimed = 0 /\ pass[q].calls = {}
      BY <2>1 DEF NoPass
    <2>3. x.calls = {} /\ x.live /\ x.age = 0 /\ x.claimed = 0
      BY <1>1, <2>2 DEF Pass
    <2>4. pass' = [pass EXCEPT ![q] = x]
      BY <1>3 DEF StartPass
    <2> HIDE DEF x
    <2>5. NewCalls(x) = {}
      BY <2>3 DEF NewCalls
    <2>6. PacedPass(x)
      BY <2>3, <2>5, FS_EmptySet, NotificationAssumption DEF PacedPass
    <2> QED
      BY <1>2, <2>2, <2>4, <2>6
  <1>4. CASE RunsDry(q)
    <2> DEFINE x == [pass[q] EXCEPT !.dry = TRUE]
    <2>1. /\ x \in Pass /\ x.calls = pass[q].calls /\ x.claimed = pass[q].claimed
          /\ x.age = pass[q].age /\ x.live = pass[q].live /\ x.dry
      BY <1>1 DEF Pass
    <2>2. pass' = [pass EXCEPT ![q] = x] /\ pass[q].live
      BY <1>4 DEF RunsDry, Idle, Open
    <2> HIDE DEF x
    <2>3. PacedPass(x)
      BY <1>1, <2>1, <2>2, FewerPaced
    <2> QED
      BY <1>2, <2>1, <2>2, <2>3
  <1>5. CASE PassEnds(q)
    BY <1>2, <1>5, NoPassPaced DEF PassEnds
  <1>6. CASE PassLost(q)
    <2>1. pass[q].age = MaxAge /\ pass' = [pass EXCEPT ![q] = NoPass]
      BY <1>6 DEF PassLost
    <2>2. pass[q].calls = {}
      BY <1>1, <2>1, CallsInTime, NotificationAssumption
    <2> QED
      BY <1>2, <2>1, <2>2, NoPassPaced
  <1> QED
    BY <1>3, <1>4, <1>5, <1>6

\* A unit of time passes only over passes that are prompt.
LEMMA TickPace ==
  ASSUME CountInv, Paced, HeldByCaller, Tick, ~Fault
  PROVE  Paced' /\ HeldByCaller'
  <1> USE DEF CountInv
  <1>1. /\ row' = [n \in Rows |-> Later(n)] /\ pass' = [q \in Passes |-> Older(q)]
        /\ \A q \in Passes : pass[q].age < MaxAge
        /\ \A q \in Passes : pass[q].live => Prompt(q)
    BY DEF Tick
  <1>2. ASSUME NEW q \in Passes, pass[q].live
        PROVE  /\ PacedPass(Older(q)) /\ Older(q).age = pass[q].age + 1
               /\ \A c \in pass[q].calls : \E d \in Older(q).calls : d.n = c.n
    <2> DEFINE age == pass[q].age + 1
               calls == {[c EXCEPT !.age = 1] : c \in pass[q].calls}
               f == [c \in pass[q].calls |-> [c EXCEPT !.age = 1]]
    <2>1. pass[q] \in Pass /\ PacedPass(pass[q]) /\ Prompt(q)
      BY <1>1, <1>2 DEF TypeOK, Paced
    <2>2. IsFiniteSet(pass[q].calls) /\ Cardinality(pass[q].calls) \in Nat
      BY <2>1, FS_CardinalityType DEF PacedPass
    <2>3. f \in Surjection(pass[q].calls, calls)
      BY DEF Surjection
    <2>4. IsFiniteSet(calls)
      <3> HIDE DEF f, calls
      <3> QED
        BY <2>2, <2>3, FS_Surjection
    <2>5. ASSUME NEW c \in pass[q].calls
          PROVE  LET d == [c EXCEPT !.age = 1]
                 IN  d.n = c.n /\ d.age = 1 /\ d.answer = c.answer
      <3>1. c \in Call
        BY CallTypes
      <3> QED
        BY <3>1 DEF Call
    <2>6. /\ \A d \in calls : d.age = 1 /\ d.answer = "none"
          /\ \A c \in pass[q].calls : \E d \in calls : d.n = c.n
          /\ calls # {} => pass[q].calls # {}
      BY <2>1, <2>5 DEF Prompt
    <2>7. Older(q) = [pass[q] EXCEPT !.age = age, !.calls = calls]
      BY <1>2 DEF Older
    <2>8. age = pass[q].age + 1
      OBVIOUS
    <2> HIDE DEF f, calls, age
    <2>9. /\ Older(q).age = pass[q].age + 1 /\ Older(q).calls = calls /\ Older(q).live
          /\ Older(q).claimed = pass[q].claimed /\ Older(q).dry = pass[q].dry
      BY <1>2, <2>1, <2>7, <2>8 DEF Pass
    <2>10. NewCalls(Older(q)) = {} /\ Cardinality({}) = 0
      BY <2>6, <2>9, FS_EmptySet DEF NewCalls
    <2>11. NewCalls(pass[q]) = pass[q].calls
      <3>1. ASSUME NEW c \in pass[q].calls PROVE c.age = 0
        <4>1. c.age \in 0..1 /\ c.age < 1
          BY <2>1, CallTypes DEF Prompt, Call
        <4> QED
          BY <4>1
      <3> QED
        BY <3>1 DEF NewCalls
    <2>12. /\ pass[q].age \in Nat /\ pass[q].claimed \in Nat /\ Width \in Nat
           /\ Width * (pass[q].age + 1) = Width * pass[q].age + Width
           /\ Width * pass[q].age \in Nat
      BY <2>1, NotificationAssumption DEF Pass
    <2>13. CASE pass[q].calls = {} /\ ~(~pass[q].dry /\ pass[q].claimed < Batch)
      <3>1. Older(q).calls = {}
        BY <2>6, <2>9, <2>13
      <3> QED
        BY <2>4, <2>6, <2>9, <2>10, <2>13, <3>1 DEF PacedPass
    <2>14. CASE ~pass[q].dry /\ pass[q].claimed < Batch
      <3>1. Width <= Cardinality(pass[q].calls)
        BY <1>2, <2>1, <2>2, <2>12, <2>14 DEF Prompt, Idle, Open
      <3>2. Width * pass[q].age + Cardinality(pass[q].calls) <= pass[q].claimed
        BY <1>2, <2>1, <2>11, <2>14 DEF PacedPass
      <3>3. /\ Width * Older(q).age + 0 <= Older(q).claimed
            /\ Width * (Older(q).age - 1) < Older(q).claimed
        <4>1. Older(q).age - 1 = pass[q].age /\ Width > 0
          BY <2>9, <2>12, NotificationAssumption
        <4> QED
          BY <2>2, <2>9, <2>12, <3>1, <3>2, <4>1
      <3> QED
        BY <2>4, <2>6, <2>9, <2>10, <3>3 DEF PacedPass
    <2>15. CASE pass[q].calls # {} /\ ~(~pass[q].dry /\ pass[q].claimed < Batch)
      <3>1. Width * pass[q].age + Cardinality(pass[q].calls) <= pass[q].claimed
        BY <2>1, <2>11, <2>15 DEF PacedPass
      <3>2. Cardinality(pass[q].calls) > 0
        BY <2>2, <2>15, FS_EmptySet
      <3>3. Width * (Older(q).age - 1) < Older(q).claimed
        <4>1. Older(q).age - 1 = pass[q].age
          BY <2>9, <2>12
        <4> QED
          BY <2>2, <2>9, <2>12, <3>1, <3>2, <4>1
      <3> QED
        BY <2>4, <2>6, <2>9, <2>10, <2>15, <3>3 DEF PacedPass
    <2> QED
      BY <2>6, <2>9, <2>13, <2>14, <2>15
  <1>3. Paced'
    <2>1. ASSUME NEW q \in Passes PROVE PacedPass(pass'[q])
      <3>1. ~pass[q].live => Older(q) = pass[q]
        BY DEF Older
      <3> QED
        BY <1>1, <1>2, <3>1 DEF Paced
    <2> QED
      BY <2>1 DEF Paced, PacedPass, NewCalls
  <1>4. ASSUME NEW n \in Rows PROVE HeldBy(n)'
    <2>1. /\ row'[n] = Later(n) /\ row'[n].status = row[n].status
          /\ row'[n].tries = row[n].tries /\ row'[n].held = row[n].held
          /\ row[n].status = "pending" /\ row[n].held /\ row[n].lock > -MaxAge =>
               row'[n].lock = row[n].lock - 1
      BY <1>1, LaterRow
    <2>2. ASSUME row[n].status = "pending", row[n].held, Caller(n) PROVE Caller(n)'
      <3>1. PICK q \in Passes : \E c \in pass[q].calls : c.n = n /\ row[n].lock = Lease - pass[q].age
        BY <2>2 DEF Caller
      <3>2. PICK c \in pass[q].calls : c.n = n
        BY <3>1
      <3>3. pass[q].live
        BY <3>2 DEF Paced, PacedPass, NoPass
      <3>4. PICK d \in pass'[q].calls : d.n = n
        BY <1>1, <1>2, <3>2, <3>3
      <3>5. pass[q].age \in Nat /\ pass[q].age < MaxAge /\ Lease \in Nat /\ Lease > 1 /\ MaxAge \in Nat
        BY <1>1, NotificationAssumption DEF TypeOK, Pass
      <3>6. pass'[q].age = pass[q].age + 1
        BY <1>1, <1>2, <3>3
      <3>7. row'[n].lock = row[n].lock - 1
        <4>1. row[n].lock > -MaxAge
          BY <3>1, <3>5
        <4> QED
          BY <2>1, <2>2, <4>1
      <3>8. row'[n].lock = Lease - pass'[q].age
        BY <3>1, <3>5, <3>6, <3>7
      <3> QED
        BY <3>4, <3>8 DEF Caller
    <2> QED
      BY <2>1, <2>2 DEF HeldByCaller, HeldBy
  <1> QED
    BY <1>3, <1>4 DEF HeldByCaller

LEMMA StepPace ==
  ASSUME LeaseCoversBatch, CountInv, PaceInv, [Next]_vars
  PROVE  PaceInv'
  <1>1. faults \in Nat
    BY DEF CountInv, TypeOK
  <1>2. SUFFICES ASSUME faults' = 0 PROVE Paced' /\ HeldByCaller'
    BY DEF PaceInv
  <1>3. ~Fault
    BY <1>1, <1>2 DEF Fault
  <1>4. CASE UNCHANGED vars
    <2>1. Paced /\ HeldByCaller
      BY <1>2, <1>4 DEF PaceInv, vars
    <2>2. row' = row /\ pass' = pass
      BY <1>4 DEF vars
    <2>3. Paced'
      BY <2>1, <2>2 DEF Paced, PacedPass, NewCalls
    <2> QED
      BY <2>1, <2>2, <2>3 DEF HeldByCaller, HeldBy, Caller
  <1>5. CASE Next
    <2>1. faults' = faults
      <3>1. ASSUME NEW q \in Passes, Delivering(q) PROVE faults' = faults
        BY <1>3, <3>1 DEF Delivering, Working, StartPass, Claim, RunsDry, Accepts, Record,
                          PassEnds, PassLost, CallFails
      <3>2. Participating \/ Consuming \/ Tick => faults' = faults
        BY <1>3 DEF Participating, UpsertContact, DeleteContact, RevokeMembership, Join, Relink,
                    Consuming, ReadContacts, CommitIntents, ConsumptionRollsBack, Tick
      <3> QED
        BY <1>5, <3>1, <3>2 DEF Next
    <2>2. Paced /\ HeldByCaller
      BY <1>2, <2>1 DEF PaceInv
    <2>3. CASE Participating \/ Consuming
      BY <2>2, <2>3, OthersPace
    <2>4. ASSUME NEW q \in Passes, Delivering(q) PROVE Paced' /\ HeldByCaller'
      <3>1. CASE StartPass(q) \/ RunsDry(q) \/ PassEnds(q) \/ PassLost(q)
        BY <1>3, <2>2, <3>1, EndsPace
      <3>2. ASSUME NEW n \in Rows, Claim(q, n) PROVE Paced' /\ HeldByCaller'
        BY <2>2, <3>2, ClaimPace
      <3>3. ASSUME NEW c \in pass[q].calls, Accepts(q, c) PROVE Paced' /\ HeldByCaller'
        BY <2>2, <3>3, AcceptPace
      <3>4. ASSUME NEW c \in pass[q].calls, Record(q, c) PROVE Paced' /\ HeldByCaller'
        BY <2>2, <3>4, RecordPace
      <3>5. \A c \in pass[q].calls : ~CallFails(q, c)
        BY <1>3 DEF CallFails
      <3> QED
        BY <2>4, <3>1, <3>2, <3>3, <3>4, <3>5 DEF Delivering, Working
    <2>5. CASE Tick
      BY <1>3, <2>2, <2>5, TickPace
    <2> QED
      BY <1>5, <2>3, <2>4, <2>5 DEF Next
  <1> QED
    BY <1>4, <1>5

LEMMA InitPace == Init => PaceInv
  <1> SUFFICES ASSUME Init PROVE Paced /\ HeldByCaller
    BY DEF PaceInv
  <1>1. Paced
    BY NoPassPaced DEF Init, Paced
  <1>2. \A n \in Rows : HeldBy(n)
    BY DEF Init, NoRow, HeldBy
  <1> QED
    BY <1>1, <1>2 DEF HeldByCaller

\* Passes that overlap send no message twice unless a call, a pass or a scheduler
\* failed, whatever number of them runs, if a lease outlasts the calls of a batch.
THEOREM NoDuplicateUnlessFault ==
  ASSUME LeaseCoversBatch
  PROVE  Spec => []NoNeedlessDuplicates
  <1>1. Init => PaceInv
    BY InitPace
  <1>2. CountInv /\ PaceInv /\ [Next]_vars => PaceInv'
    BY StepPace
  <1>3. CountInv /\ PaceInv => NoNeedlessDuplicates
    <2> SUFFICES ASSUME CountInv, PaceInv, faults = 0, NEW n \in Rows PROVE accepted[n] <= 1
      BY DEF NoNeedlessDuplicates
    <2>1. /\ accepted[n] \in Nat /\ row[n].tries \in Nat
          /\ accepted[n] + Cardinality(Out(n)) <= row[n].tries
      BY RowFields DEF CountInv, Budget, TypeOK
    <2>2. Cardinality(Out(n)) \in Nat
      BY OutFinite DEF CountInv
    <2>3. row[n].tries <= 1
      BY DEF PaceInv, HeldByCaller, HeldBy
    <2> QED
      BY <2>1, <2>2, <2>3
  <1> QED
    BY <1>1, <1>2, <1>3, InvariantHolds, PTL DEF Spec
=============================================================================
