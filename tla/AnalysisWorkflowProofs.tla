---------------------- MODULE AnalysisWorkflowProofs ----------------------
(***************************************************************************)
(* Theorems about AnalysisWorkflow, for every set of captures, event pump  *)
(* executions and workers and every limit.                                 *)
(***************************************************************************)
EXTENDS AnalysisWorkflow, TLAPS

-----------------------------------------------------------------------------
(* Type correctness: the rows the tables accept and what their holders hold *)

GoodDispatch == {r \in DispatchRow : /\ (r.status = "dispatching") <=> (r.token # 0)
                                     /\ (r.status = "failed") <=> (r.failure # "none")}
GoodRun == {r \in RunRow : (r.status = "failed") <=> (r.failure # "none")}
GoodPump == {p \in PumpRow : p # NoClaim => p.capture \in Captures}

\* What a worker holds fits the step it is at.
GoodWork == {r \in WorkRow : /\ r.step # "idle" => r.capture \in Captures
                             /\ r.step = "record" => r.saw \in Provider \cup {"ok"}
                             /\ r.step = "retry" => r.saw \in Retried
                             /\ r.step = "fail" => r.saw \in Failure}

Others ==
  /\ ready \subseteq Captures
  /\ chain \in Seq(Captures \cup {"participant"})
  /\ events \in [Captures -> [completed : Nat, failed : Nat]]
  /\ tasks \subseteq Captures /\ acked \subseteq Captures
  /\ tries \in [Captures -> Nat]
  /\ seq \in Nat \ {0} /\ faults \in Nat

Typed ==
  /\ dispatch \in [Captures -> GoodDispatch]
  /\ run \in [Captures -> GoodRun]
  /\ pump \in [Dispatchers -> GoodPump]
  /\ worker \in [Workers -> GoodWork]
  /\ Others

LEMMA TypedRows ==
  ASSUME Typed
  PROVE TypeOK
  BY DEF Typed, Others, TypeOK, GoodDispatch, GoodRun, GoodPump, GoodWork

LEMMA RestingWorker == AtRest \in GoodWork /\ NoClaim \in GoodPump
  BY DEF AtRest, NoClaim, GoodWork, GoodPump, WorkRow, PumpRow, Steps

\* A worker that imports has the row to itself, and the row is running.
ImportLocks ==
  \A w \in Workers : At(w, "import") =>
    /\ dispatch[worker[w].capture].status = "running"
    /\ \A v \in Workers : At(v, "import") /\ worker[v].capture = worker[w].capture => v = w

\* The dispatch row while it has no failure: without a lease, and with one.
LEMMA OpenRow ==
  ASSUME NEW r \in GoodDispatch, r.status # "failed", NEW s \in Open \ {"dispatching"}
  PROVE  [r EXCEPT !.status = s, !.token = 0, !.lapsed = FALSE] \in GoodDispatch
  <1>1. r \in DispatchRow /\ r.failure = "none"
    BY DEF GoodDispatch
  <1>2. [r EXCEPT !.status = s, !.token = 0, !.lapsed = FALSE] \in DispatchRow
    BY <1>1 DEF DispatchRow
  <1> QED
    BY <1>1, <1>2 DEF GoodDispatch, DispatchRow, Open

LEMMA LeasedRow ==
  ASSUME NEW r \in GoodDispatch, r.status # "failed", NEW t \in Nat \ {0}
  PROVE  [r EXCEPT !.status = "dispatching", !.token = t, !.lapsed = FALSE] \in GoodDispatch
  <1>1. r \in DispatchRow /\ r.failure = "none"
    BY DEF GoodDispatch
  <1>2. [r EXCEPT !.status = "dispatching", !.token = t, !.lapsed = FALSE] \in DispatchRow
    BY <1>1 DEF DispatchRow, Open
  <1> QED
    BY <1>1, <1>2 DEF GoodDispatch, DispatchRow, Open

LEMMA InitTyped == Init => Typed
  <1> SUFFICES ASSUME Init PROVE Typed
    OBVIOUS
  <1>1. [status |-> "none", token |-> 0, lapsed |-> FALSE, failure |-> "none"] \in GoodDispatch
    BY DEF GoodDispatch, DispatchRow
  <1>2. [status |-> "none", attempt |-> 0, failure |-> "none"] \in GoodRun
    BY DEF GoodRun, RunRow
  <1> QED
    BY <1>1, <1>2, RestingWorker DEF Init, Typed, Others

LEMMA ParticipantTyped == Typed /\ Participant => Typed'
  <1> SUFFICES ASSUME Typed, Participant PROVE Typed'
    OBVIOUS
  <1>1. ASSUME NEW c \in Captures, Submit(c) PROVE Typed'
    <2>1. [dispatch[c] EXCEPT !.status = "pending"] \in GoodDispatch
      BY <1>1 DEF Submit, Typed, GoodDispatch, DispatchRow, Open
    <2> QED
      BY <1>1, <2>1 DEF Submit, Typed, Others, queue
  <1>2. ASSUME NEW c \in Captures, MediaDeleted(c) PROVE Typed'
    BY <1>2 DEF MediaDeleted, Typed, Others, queue
  <1>3. CASE ParticipantEdits
    BY <1>3 DEF ParticipantEdits, Typed, Others, queue
  <1> QED
    BY <1>1, <1>2, <1>3 DEF Participant

LEMMA DispatchingTyped == Typed /\ Dispatching => Typed'
  <1> SUFFICES ASSUME Typed, Dispatching PROVE Typed'
    OBVIOUS
  <1>1. ASSUME NEW d \in Dispatchers, NEW c \in Captures, Claim(d, c) PROVE Typed'
    <2>1. [dispatch[c] EXCEPT !.status = "dispatching", !.token = seq, !.lapsed = FALSE] \in GoodDispatch
      BY <1>1, LeasedRow DEF Claim, Claimable, Typed, Others
    <2>2. [capture |-> c, token |-> seq, reply |-> "unsent"] \in GoodPump
      BY DEF Typed, Others, GoodPump, PumpRow
    <2>3. seq + 1 \in Nat \ {0}
      BY DEF Typed, Others
    <2> QED
      BY <1>1, <2>1, <2>2, <2>3 DEF Claim, Typed, Others, queue
  <1>2. ASSUME NEW d \in Dispatchers, NEW r \in {"ok", "error"},
               pump[d] # NoClaim, Replied(d, r)
        PROVE  pump' \in [Dispatchers -> GoodPump] /\ pump[d].capture \in Captures
    <2>1. pump[d] \in GoodPump /\ pump[d].capture \in Captures
      BY <1>2 DEF Typed, GoodPump
    <2>2. [pump[d] EXCEPT !.reply = r] \in GoodPump
      BY <2>1 DEF GoodPump, PumpRow
    <2> QED
      BY <1>2, <2>1, <2>2 DEF Replied, Typed
  <1>3. ASSUME NEW d \in Dispatchers, EnqueueAccepted(d) PROVE Typed'
    BY <1>2, <1>3 DEF EnqueueAccepted, Typed, Others, rows
  <1>4. ASSUME NEW d \in Dispatchers, EnqueueFails(d) PROVE Typed'
    <2>1. pump' \in [Dispatchers -> GoodPump] /\ pump[d].capture \in Captures
      BY <1>2, <1>4 DEF EnqueueFails
    <2> QED
      BY <1>4, <2>1 DEF EnqueueFails, Fault, Typed, Others, rows
  <1>5. ASSUME NEW d \in Dispatchers, Finalize(d) PROVE Typed'
    <2>1. pump[d].capture \in Captures
      BY <1>5 DEF Finalize, Typed, GoodPump
    <2>2. FinalizedRow(pump[d]) \in GoodDispatch
      BY <2>1, OpenRow DEF FinalizedRow, OwnsLease, Typed, Open
    <2> QED
      BY <1>5, <2>1, <2>2, RestingWorker DEF Finalize, Typed, Others, queue
  <1>6. ASSUME NEW d \in Dispatchers, PumpCrashes(d) PROVE Typed'
    BY <1>6, RestingWorker DEF PumpCrashes, Fault, Typed, Others, rows, queue
  <1>7. ASSUME NEW c \in Captures, LeaseLapses(c) PROVE Typed'
    <2>1. [dispatch[c] EXCEPT !.lapsed = TRUE] \in GoodDispatch
      BY DEF Typed, GoodDispatch, DispatchRow
    <2> QED
      BY <1>7, <2>1 DEF LeaseLapses, Fault, Typed, Others, queue
  <1> QED
    BY <1>1, <1>3, <1>4, <1>5, <1>6, <1>7 DEF Dispatching

LEMMA ReceiveTyped == Typed /\ Receive => Typed'
  <1> SUFFICES ASSUME Typed, Receive PROVE Typed'
    OBVIOUS
  <1>1. ASSUME NEW c \in Captures, StartAnswersDone(c) PROVE Typed'
    BY <1>1 DEF StartAnswersDone, Deliverable, Delivered, Typed, Others, rows
  <1>2. ASSUME NEW c \in Captures, DeliveryLost(c) PROVE Typed'
    BY <1>2 DEF DeliveryLost, Fault, Delivered, Typed, Others, rows
  <1>3. ASSUME NEW w \in Workers, NEW c \in Captures, StartTask(w, c) PROVE Typed'
    <2>1. StartedRow(c) \in GoodDispatch
      BY <1>3 DEF StartTask, StartedRow, Typed, GoodDispatch, DispatchRow, Open, Terminal
    <2>2. [AtRest EXCEPT !.step = "build", !.capture = c] \in GoodWork
      BY DEF AtRest, GoodWork, WorkRow, Steps
    <2>3. faults' \in Nat
      BY <1>3 DEF StartTask, Fault, Typed, Others
    <2> QED
      BY <1>3, <2>1, <2>2, <2>3 DEF StartTask, Delivered, Typed, Others
  <1> QED
    BY <1>1, <1>2, <1>3 DEF Receive

\* A worker that answers is at rest, and the queue forgets only its task.
LEMMA AnswersTyped ==
  ASSUME Typed, NEW w \in Workers, ~At(w, "idle"), Answers204(w) \/ Answers5xx(w)
  PROVE worker' \in [Workers -> GoodWork] /\ acked' \subseteq Captures
  <1>1. worker[w].capture \in Captures
    BY DEF Typed, GoodWork, At
  <1> QED
    BY <1>1, RestingWorker DEF Answers204, Answers5xx, Typed, Others

LEMMA AnalyzeTyped == ASSUME Typed, NEW w \in Workers, Analyze(w) PROVE Typed'
  <1> DEFINE c == worker[w].capture
             a == worker[w].saw
  <1>1. worker[w] \in GoodWork /\ worker[w] \in WorkRow
    BY DEF Typed, GoodWork
  <1>2. ASSUME NEW s \in Steps \ {"idle", "record", "retry", "fail"}, Goes(w, s), ~At(w, "idle")
        PROVE  worker' \in [Workers -> GoodWork]
    <2>1. [worker[w] EXCEPT !.step = s] \in GoodWork
      BY <1>1, <1>2 DEF GoodWork, WorkRow, At
    <2> QED
      BY <1>2, <2>1 DEF Goes, Typed
  <1>3. ASSUME ~At(w, "idle"), a \in Provider, Goes(w, AfterFailure(a))
        PROVE  worker' \in [Workers -> GoodWork]
    <2>1. [worker[w] EXCEPT !.step = AfterFailure(a)] \in GoodWork
      BY <1>1, <1>3 DEF GoodWork, WorkRow, At, AfterFailure, Steps, Failure
    <2> QED
      BY <1>3, <2>1 DEF Goes, Typed
  <1>4. CASE Build(w)
    <2>1. [worker[w] EXCEPT !.step = "start"] \in GoodWork
      BY <1>1, <1>4 DEF Build, At, GoodWork, WorkRow, Steps
    <2>2. [worker[w] EXCEPT !.step = "fail", !.saw = "no_media"] \in GoodWork
      BY <1>1, <1>4 DEF Build, At, GoodWork, WorkRow, Steps, Failure
    <2> QED
      BY <1>4, <2>1, <2>2 DEF Build, Typed, Others, rows, queue
  <1>5. CASE StartRun(w)
    <2>1. [status |-> "running", attempt |-> 1, failure |-> "none"] \in GoodRun
      BY DEF GoodRun, RunRow
    <2>2. worker' \in [Workers -> GoodWork]
      BY <1>2, <1>5 DEF StartRun, At, Steps
    <2> QED
      BY <1>5, <2>1, <2>2 DEF StartRun, Typed, Others, queue
  <1>6. CASE Snapshot(w)
    <2>1. c \in Captures /\ run[c] \in GoodRun
      BY <1>1, <1>6 DEF Snapshot, At, GoodWork, Typed
    <2>2. [worker[w] EXCEPT !.step = "load", !.saw = "ok"] \in GoodWork
      BY <1>1, <2>1 DEF GoodWork, WorkRow, Steps
    <2>3. run[c].status = "failed" =>
            [worker[w] EXCEPT !.step = AfterFailure(run[c].failure), !.saw = run[c].failure] \in GoodWork
      BY <1>1, <2>1 DEF GoodRun, RunRow, GoodWork, WorkRow, Steps, AfterFailure, Failure
    <2>4. [worker[w] EXCEPT !.step = "analyze"] \in GoodWork
      BY <1>1, <2>1 DEF GoodWork, WorkRow, Steps
    <2> QED
      BY <1>6, <2>2, <2>3, <2>4 DEF Snapshot, Typed, Others, rows, queue
  <1>7. ASSUME NEW b \in Provider \cup {"ok"}, ProviderAnswers(w, b) PROVE Typed'
    <2>1. [worker[w] EXCEPT !.step = "record", !.saw = b] \in GoodWork
      BY <1>1, <1>7 DEF ProviderAnswers, At, GoodWork, WorkRow, Steps, Failure
    <2> QED
      BY <1>7, <2>1 DEF ProviderAnswers, Typed, Others, rows, queue
  <1>8. CASE RecordOutcome(w)
    <2>1. c \in Captures /\ run[c] \in GoodRun /\ a \in Provider \cup {"ok"} /\ ~At(w, "idle")
      BY <1>1, <1>8 DEF RecordOutcome, At, GoodWork, Typed
    <2>2. CASE a = "ok"
      <3>1. [run[c] EXCEPT !.status = "completed"] \in GoodRun
        BY <1>8, <2>1 DEF RecordOutcome, Recordable, GoodRun, RunRow
      <3>2. worker' \in [Workers -> GoodWork]
        BY <1>2, <1>8, <2>1, <2>2 DEF RecordOutcome, Steps
      <3> QED
        BY <1>8, <2>2, <3>1, <3>2 DEF RecordOutcome, Typed, Others, queue
    <2>3. CASE a # "ok"
      <3>1. [run[c] EXCEPT !.status = "failed", !.failure = a] \in GoodRun
        BY <2>1, <2>3 DEF GoodRun, RunRow, Provider, Retried
      <3>2. worker' \in [Workers -> GoodWork]
        BY <1>3, <1>8, <2>1, <2>3 DEF RecordOutcome
      <3>3. run' \in [Captures -> GoodRun]
        BY <1>8, <2>1, <2>3, <3>1 DEF RecordOutcome, Typed
      <3> QED
        BY <1>8, <3>3, <3>2 DEF RecordOutcome, Typed, Others, queue
    <2> QED
      BY <2>2, <2>3
  <1>9. CASE RecordReplayed(w)
    <2>1. c \in Captures /\ run[c] \in GoodRun /\ a \in Provider \cup {"ok"} /\ ~At(w, "idle")
      BY <1>1, <1>9 DEF RecordReplayed, At, GoodWork, Typed
    <2>2. a = run[c].failure => a \in Provider
      BY <2>1 DEF GoodRun, RunRow, Provider, Retried
    <2>3. worker' \in [Workers -> GoodWork]
      BY <1>2, <1>3, <1>9, <2>1, <2>2 DEF RecordReplayed, Steps
    <2> QED
      BY <1>9, <2>3 DEF RecordReplayed, Typed, Others, rows, queue
  <1>10. CASE RecordConflicts(w)
    BY <1>10, AnswersTyped DEF RecordConflicts, At, Typed, Others, rows
  <1>11. CASE PrepareRetry(w)
    <2>1. c \in Captures /\ run[c] \in GoodRun
      BY <1>1, <1>11 DEF PrepareRetry, At, GoodWork, Typed
    <2>2. [status |-> "running", attempt |-> run[c].attempt + 1, failure |-> "none"] \in GoodRun
      BY <2>1 DEF GoodRun, RunRow
    <2>3. run' \in [Captures -> GoodRun]
      BY <1>11, <2>1, <2>2 DEF PrepareRetry, Typed
    <2> QED
      BY <1>11, <2>3, AnswersTyped DEF PrepareRetry, At, Typed, Others
  <1>12. CASE RetriesExhausted(w)
    <2>1. [worker[w] EXCEPT !.step = "fail"] \in GoodWork
      BY <1>1, <1>12 DEF RetriesExhausted, At, GoodWork, WorkRow, Steps, Failure, Provider
    <2> QED
      BY <1>12, <2>1 DEF RetriesExhausted, Goes, Typed, Others, rows, queue
  <1> QED
    BY <1>4, <1>5, <1>6, <1>7, <1>8, <1>9, <1>10, <1>11, <1>12 DEF Analyze

LEMMA ConcludeTyped ==
  ASSUME Typed, ImportLocks, NEW w \in Workers, Conclude(w)
  PROVE  Typed'
  <1> DEFINE c == worker[w].capture
  <1>1. worker[w] \in GoodWork /\ worker[w] \in WorkRow
    BY DEF Typed, GoodWork
  <1>2. ASSUME NEW f \in Failure, MarkFailed(c, f), c \in Captures
        PROVE  /\ dispatch' \in [Captures -> GoodDispatch]
               /\ events' \in [Captures -> [completed : Nat, failed : Nat]]
    <2>1. [status |-> "failed", token |-> 0, lapsed |-> FALSE, failure |-> f] \in GoodDispatch
      BY <1>2 DEF GoodDispatch, DispatchRow, Terminal, Failure, Provider, Retried
    <2>2. events[c] \in [completed : Nat, failed : Nat]
      BY <1>2 DEF Typed, Others
    <2>3. [events[c] EXCEPT !.failed = @ + 1] \in [completed : Nat, failed : Nat]
      BY <2>2
    <2> QED
      BY <1>2, <2>1, <2>3 DEF MarkFailed, Typed, Others
  <1>3. ~At(w, "idle") => c \in Captures
    BY <1>1 DEF GoodWork, At
  <1>4. CASE FailDispatch(w)
    <2>1. c \in Captures /\ worker[w].saw \in Failure
      BY <1>1, <1>4 DEF FailDispatch, At, GoodWork
    <2>2. worker' \in [Workers -> GoodWork] /\ acked' \subseteq Captures
      BY <1>4, AnswersTyped DEF FailDispatch, At
    <2> QED
      BY <1>2, <1>4, <2>1, <2>2 DEF FailDispatch, Typed, Others
  <1>5. CASE FailReplayed(w)
    BY <1>5, AnswersTyped DEF FailReplayed, At, Typed, Others, rows
  <1>6. CASE FailConflicts(w)
    BY <1>6, AnswersTyped DEF FailConflicts, At, Typed, Others, rows
  <1>7. CASE LoadResult(w)
    <2>1. ParentRead \in Nat
      BY DEF ParentRead, Typed, Others
    <2>2. [worker[w] EXCEPT !.step = "import", !.parent = ParentRead] \in GoodWork
      BY <1>1, <1>7, <2>1 DEF LoadResult, At, GoodWork, WorkRow, Steps
    <2> QED
      BY <1>7, <2>2 DEF LoadResult, Typed, Others, rows, queue
  <1>8. CASE LoadReplayed(w)
    BY <1>8, AnswersTyped DEF LoadReplayed, At, Typed, Others, rows
  <1>9. CASE LoadConflicts(w)
    BY <1>9, AnswersTyped DEF LoadConflicts, At, Typed, Others, rows
  <1>11. CASE ImportRefused(w)
    <2>1. c \in Captures /\ "import" \in Failure
      BY <1>3, <1>11 DEF ImportRefused, At, Failure
    <2>2. worker' \in [Workers -> GoodWork] /\ acked' \subseteq Captures
      BY <1>11, AnswersTyped DEF ImportRefused, At
    <2> QED
      BY <1>2, <1>11, <2>1, <2>2 DEF ImportRefused, Typed, Others
  <1>10. CASE ImportDraft(w)
    <2>1. c \in Captures /\ dispatch[c].status = "running" /\ dispatch[c] \in GoodDispatch
      BY <1>3, <1>10 DEF ImportDraft, At, ImportLocks, Typed
    <2>2. [dispatch[c] EXCEPT !.status = "completed"] \in GoodDispatch
      BY <2>1 DEF GoodDispatch, DispatchRow, Terminal
    <2>7. events[c] \in [completed : Nat, failed : Nat]
      BY <2>1 DEF Typed, Others
    <2>3. [events[c] EXCEPT !.completed = @ + 1] \in [completed : Nat, failed : Nat]
      BY <2>7
    <2>4. events' \in [Captures -> [completed : Nat, failed : Nat]]
      BY <1>10, <2>1, <2>3 DEF ImportDraft, Typed, Others
    <2>5. worker' \in [Workers -> GoodWork] /\ acked' \subseteq Captures
      BY <1>10, AnswersTyped DEF ImportDraft, At
    <2>6. chain' \in Seq(Captures \cup {"participant"})
      BY <1>10, <2>1 DEF ImportDraft, Typed, Others
    <2> QED
      BY <1>10, <2>1, <2>2, <2>4, <2>5, <2>6 DEF ImportDraft, Typed, Others
  <1> QED
    BY <1>4, <1>5, <1>6, <1>7, <1>8, <1>9, <1>10, <1>11 DEF Conclude

LEMMA StepTyped == Typed /\ ImportLocks /\ [Next]_vars => Typed'
  <1> SUFFICES ASSUME Typed, ImportLocks, [Next]_vars PROVE Typed'
    OBVIOUS
  <1>1. ASSUME NEW w \in Workers, WorkerCrashes(w) PROVE Typed'
    BY <1>1, AnswersTyped DEF WorkerCrashes, Fault, Typed, Others, rows
  <1>2. CASE UNCHANGED vars
    BY <1>2 DEF vars, rows, queue, Typed, Others
  <1> QED
    BY <1>1, <1>2, ParticipantTyped, DispatchingTyped, ReceiveTyped, AnalyzeTyped, ConcludeTyped
       DEF Next

-----------------------------------------------------------------------------
(* What one step does to a row and to a worker *)

\* A worker in the middle of a delivery started the row.
WorkersStarted ==
  \A w \in Workers : ~At(w, "idle") => dispatch[worker[w].capture].status \in Started

\* What a dispatcher was told is true.
RepliesTrue == \A d \in Dispatchers : pump[d].reply = "ok" => pump[d].capture \in tasks

IInv == Typed /\ ImportLocks /\ WorkersStarted /\ RepliesTrue /\ TaskBacked

From(c, s) == dispatch[c].status \in s
To(c, s) == dispatch'[c].status \in s

\* The moves of a dispatch row, with what each of them rests on.
RowMoves(c) ==
  \/ dispatch'[c].status = dispatch[c].status
  \/ From(c, {"none"}) /\ To(c, {"pending"})
  \/ From(c, {"pending", "dispatching"}) /\ To(c, {"dispatching"})
  \/ From(c, {"dispatching"}) /\ To(c, {"pending"})
  \/ From(c, {"dispatching"}) /\ To(c, {"queued"}) /\ c \in tasks
  \/ From(c, Open) /\ ~Locked(c) /\ To(c, {"running"}) /\ c \in tasks
  \/ From(c, {"running"}) /\ To(c, Terminal) /\ ~Locked(c)'

\* A worker rests, goes on with its delivery or starts one.
WorkerMoves(w) ==
  \/ At(w, "idle")'
  \/ /\ ~At(w, "idle")
     /\ worker'[w].capture = worker[w].capture
     /\ At(w, "import")' => At(w, "import") \/ LoadResult(w)
  \/ /\ worker'[w].step = "build"
     /\ dispatch'[worker'[w].capture].status = "running"

Moves == /\ \A c \in Captures : RowMoves(c)
         /\ \A w \in Workers : WorkerMoves(w)
         /\ tasks \subseteq tasks'

\* Steps of participants and dispatchers, and the queue's, leave the workers alone.
LEMMA WorkersRest ==
  ASSUME Typed, ImportLocks, worker' = worker
  PROVE  \A w \in Workers : WorkerMoves(w)
  BY DEF WorkerMoves, At

LEMMA ParticipantMoves == Typed /\ ImportLocks /\ Participant => Moves
  <1> SUFFICES ASSUME Typed, ImportLocks, Participant PROVE Moves
    OBVIOUS
  <1>1. ASSUME NEW c \in Captures, Submit(c) PROVE Moves
    BY <1>1, WorkersRest DEF Submit, Moves, RowMoves, From, To, queue, Typed
  <1>2. ASSUME NEW c \in Captures, MediaDeleted(c) PROVE Moves
    BY <1>2, WorkersRest DEF MediaDeleted, Moves, RowMoves, queue
  <1>3. CASE ParticipantEdits
    BY <1>3, WorkersRest DEF ParticipantEdits, Moves, RowMoves, queue
  <1> QED
    BY <1>1, <1>2, <1>3 DEF Participant

LEMMA DispatchingMoves == Typed /\ ImportLocks /\ RepliesTrue /\ Dispatching => Moves
  <1> SUFFICES ASSUME Typed, ImportLocks, RepliesTrue, Dispatching PROVE Moves
    OBVIOUS
  <1>1. ASSUME NEW d \in Dispatchers, NEW c \in Captures, Claim(d, c) PROVE Moves
    BY <1>1, WorkersRest DEF Claim, Claimable, Moves, RowMoves, From, To, queue, Typed, GoodDispatch, DispatchRow
  <1>2. ASSUME NEW d \in Dispatchers, EnqueueAccepted(d) PROVE Moves
    BY <1>2, WorkersRest DEF EnqueueAccepted, Moves, RowMoves, rows
  <1>3. ASSUME NEW d \in Dispatchers, EnqueueFails(d) PROVE Moves
    BY <1>3, WorkersRest DEF EnqueueFails, Moves, RowMoves, rows
  <1>4. ASSUME NEW d \in Dispatchers, Finalize(d) PROVE Moves
    <2>1. pump[d].capture \in Captures /\ pump[d].reply \in {"ok", "error"}
      BY <1>4 DEF Finalize, Typed, GoodPump, PumpRow
    <2>2. dispatch[pump[d].capture] \in DispatchRow
      BY <2>1 DEF Typed, GoodDispatch
    <2>3. ASSUME NEW c \in Captures, c = pump[d].capture PROVE RowMoves(c)
      BY <1>4, <2>3, <2>1, <2>2 DEF Finalize, FinalizedRow, OwnsLease, RowMoves, From, To, RepliesTrue, Typed, DispatchRow
    <2>4. ASSUME NEW c \in Captures, c # pump[d].capture PROVE RowMoves(c)
      BY <1>4, <2>4 DEF Finalize, RowMoves, Typed
    <2> QED
      BY <1>4, <2>3, <2>4, WorkersRest DEF Finalize, Moves, queue
  <1>5. ASSUME NEW d \in Dispatchers, PumpCrashes(d) PROVE Moves
    BY <1>5, WorkersRest DEF PumpCrashes, Moves, RowMoves, rows, queue
  <1>6. ASSUME NEW c \in Captures, LeaseLapses(c) PROVE Moves
    BY <1>6, WorkersRest DEF LeaseLapses, Moves, RowMoves, queue, Typed, GoodDispatch, DispatchRow
  <1> QED
    BY <1>1, <1>2, <1>3, <1>4, <1>5, <1>6 DEF Dispatching

LEMMA ReceiveMoves == Typed /\ ImportLocks /\ Receive => Moves
  <1> SUFFICES ASSUME Typed, ImportLocks, Receive PROVE Moves
    OBVIOUS
  <1>1. ASSUME NEW c \in Captures, StartAnswersDone(c) PROVE Moves
    BY <1>1, WorkersRest DEF StartAnswersDone, Moves, RowMoves, rows
  <1>2. ASSUME NEW c \in Captures, DeliveryLost(c) PROVE Moves
    BY <1>2, WorkersRest DEF DeliveryLost, Moves, RowMoves, rows
  <1>3. ASSUME NEW w \in Workers, NEW c \in Captures, StartTask(w, c) PROVE Moves
    <2>1. dispatch' = [dispatch EXCEPT ![c] = StartedRow(c)] /\ dispatch[c] \in DispatchRow
      BY <1>3 DEF StartTask, Typed, GoodDispatch
    <2>2. StartedRow(c).status = "running"
      BY <2>1 DEF StartedRow, DispatchRow
    <2>3. \A b \in Captures : RowMoves(b)
      BY <1>3, <2>1, <2>2 DEF StartTask, Deliverable, RowMoves, From, To, Typed
    <2>4. WorkerMoves(w)
      BY <1>3, <2>1, <2>2 DEF StartTask, WorkerMoves, AtRest, Typed
    <2>5. ASSUME NEW v \in Workers, v # w PROVE WorkerMoves(v)
      BY <1>3, <2>5 DEF StartTask, WorkerMoves, At, Typed
    <2> QED
      BY <1>3, <2>3, <2>4, <2>5 DEF StartTask, Moves
  <1> QED
    BY <1>1, <1>2, <1>3 DEF Receive

\* A worker's step is no step of another worker.
LEMMA WorkerAlone ==
  ASSUME Typed, NEW w \in Workers, NEW r, worker' = [worker EXCEPT ![w] = r], WorkerMoves(w)
  PROVE  \A v \in Workers : WorkerMoves(v)
  <1>1. ASSUME NEW v \in Workers, v # w PROVE WorkerMoves(v)
    BY <1>1 DEF WorkerMoves, At, Typed
  <1> QED
    BY <1>1

\* A delivery that goes on, short of the import.
LEMMA GoesOn ==
  ASSUME Typed, NEW w \in Workers, ~At(w, "idle"), NEW s \in Steps \ {"import"}, NEW a,
         worker' = [worker EXCEPT ![w] = [worker[w] EXCEPT !.step = s, !.saw = a]]
  PROVE  \A v \in Workers : WorkerMoves(v)
  <1>1. worker[w] \in WorkRow
    BY DEF Typed, GoodWork
  <1>2. worker'[w].step = s /\ worker'[w].capture = worker[w].capture
    BY <1>1 DEF Typed, WorkRow
  <1>3. WorkerMoves(w)
    BY <1>2 DEF WorkerMoves, At
  <1> QED
    BY <1>3, WorkerAlone

LEMMA StepsOn ==
  ASSUME Typed, NEW w \in Workers, ~At(w, "idle"), NEW s \in Steps \ {"import"}, Goes(w, s)
  PROVE  \A v \in Workers : WorkerMoves(v)
  <1>1. worker[w] \in WorkRow
    BY DEF Typed, GoodWork
  <1>2. worker' = [worker EXCEPT ![w] = [worker[w] EXCEPT !.step = s]]
    BY DEF Goes
  <1>3. worker'[w].step = s /\ worker'[w].capture = worker[w].capture
    BY <1>1, <1>2 DEF Typed, WorkRow
  <1>4. WorkerMoves(w)
    BY <1>3 DEF WorkerMoves, At
  <1> QED
    BY <1>2, <1>4, WorkerAlone

LEMMA Rests ==
  ASSUME Typed, NEW w \in Workers, Answers204(w) \/ Answers5xx(w)
  PROVE  /\ \A v \in Workers : WorkerMoves(v)
         /\ ~At(w, "import")'
         /\ \A v \in Workers \ {w} : worker'[v] = worker[v]
  <1>1. worker' = [worker EXCEPT ![w] = AtRest]
    BY DEF Answers204, Answers5xx
  <1>2. worker'[w].step = "idle"
    BY <1>1 DEF Typed, AtRest
  <1>3. WorkerMoves(w)
    BY <1>2 DEF WorkerMoves, At
  <1> QED
    BY <1>1, <1>2, <1>3, WorkerAlone DEF At, Typed

LEMMA AnalyzeMoves == ASSUME Typed, NEW w \in Workers, Analyze(w) PROVE Moves
  <1>1. dispatch' = dispatch /\ tasks' = tasks
    BY DEF Analyze, Build, StartRun, Snapshot, ProviderAnswers, RecordOutcome, RecordReplayed,
           RecordConflicts, PrepareRetry, RetriesExhausted, rows, queue
  <1>2. worker[w] \in GoodWork /\ worker[w] \in WorkRow
    BY DEF Typed, GoodWork
  <1>3. \A f : AfterFailure(f) \in Steps \ {"import"}
    BY DEF AfterFailure, Steps
  <1>4. \A v \in Workers : WorkerMoves(v)
    <2>1. CASE Build(w)
      <3>1. ~At(w, "idle")
        BY <2>1 DEF Build, At
      <3>2. CASE worker[w].capture \in ready
        BY <2>1, <3>1, <3>2, StepsOn DEF Build, Steps, Goes
      <3>3. CASE worker[w].capture \notin ready
        BY <2>1, <3>1, <3>3, GoesOn DEF Build, Steps
      <3> QED
        BY <3>2, <3>3
    <2>2. CASE StartRun(w)
      BY <2>2, StepsOn DEF StartRun, At, Steps
    <2>3. CASE Snapshot(w)
      <3> DEFINE r == run[worker[w].capture]
      <3>1. ~At(w, "idle")
        BY <2>3 DEF Snapshot, At
      <3>2. CASE r.status = "completed"
        BY <2>3, <3>1, <3>2, GoesOn DEF Snapshot, Steps
      <3>3. CASE r.status = "failed"
        <4>1. worker' = [worker EXCEPT ![w] =
                           [worker[w] EXCEPT !.step = AfterFailure(r.failure), !.saw = r.failure]]
          BY <2>3, <3>3 DEF Snapshot
        <4> QED
          BY <3>1, <4>1, <1>3, GoesOn
      <3>4. CASE r.status \notin {"completed", "failed"}
        BY <2>3, <3>1, <3>4, StepsOn DEF Snapshot, Steps, Goes
      <3> QED
        BY <3>2, <3>3, <3>4
    <2>4. ASSUME NEW a \in Provider \cup {"ok"}, ProviderAnswers(w, a)
          PROVE  \A v \in Workers : WorkerMoves(v)
      BY <2>4, GoesOn DEF ProviderAnswers, At, Steps
    <2>5. CASE RecordOutcome(w)
      BY <2>5, <1>3, StepsOn DEF RecordOutcome, At, Steps
    <2>6. CASE RecordReplayed(w)
      BY <2>6, <1>3, StepsOn DEF RecordReplayed, At, Steps
    <2>7. CASE RecordConflicts(w) \/ PrepareRetry(w)
      BY <2>7, Rests DEF RecordConflicts, PrepareRetry
    <2>8. CASE RetriesExhausted(w)
      BY <2>8, StepsOn DEF RetriesExhausted, At, Steps
    <2> QED
      BY <2>1, <2>2, <2>3, <2>4, <2>5, <2>6, <2>7, <2>8 DEF Analyze
  <1> QED
    BY <1>1, <1>4 DEF Moves, RowMoves

LEMMA ConcludeMoves ==
  ASSUME Typed, ImportLocks, WorkersStarted, NEW w \in Workers, Conclude(w)
  PROVE  Moves
  <1> DEFINE c == worker[w].capture
  <1>1. worker[w] \in GoodWork /\ worker[w] \in WorkRow
    BY DEF Typed, GoodWork
  <1>2. tasks' = tasks
    BY DEF Conclude, FailDispatch, FailReplayed, FailConflicts, LoadResult, LoadReplayed,
           LoadConflicts, ImportDraft, ImportRefused, rows, queue
  <1>3. ASSUME Answers204(w), (At(w, "fail") /\ ~Locked(c)) \/ At(w, "import"),
               NEW k \in Captures, k = c
        PROVE  ~Locked(k)'
    BY <1>3, Rests DEF Locked, At, ImportLocks
  <1>4. CASE FailDispatch(w)
    <2>1. c \in Captures /\ dispatch[c].status = "running"
      BY <1>1, <1>4 DEF FailDispatch, At, GoodWork, WorkersStarted, CanFail, Started, Terminal
    <2>2. dispatch'[c].status = "failed" /\ \A b \in Captures \ {c} : dispatch'[b] = dispatch[b]
      BY <1>4, <2>1 DEF FailDispatch, MarkFailed, Typed
    <2>3. \A k \in Captures : k = c => ~Locked(k)'
      BY <1>3, <1>4 DEF FailDispatch
    <2> QED
      BY <1>2, <1>4, <2>1, <2>2, <2>3, Rests DEF FailDispatch, Moves, RowMoves, From, To, Terminal
  <1>5. CASE FailReplayed(w) \/ FailConflicts(w) \/ LoadReplayed(w) \/ LoadConflicts(w)
    BY <1>2, <1>5, Rests DEF FailReplayed, FailConflicts, LoadReplayed, LoadConflicts, rows, Moves, RowMoves
  <1>6. CASE LoadResult(w)
    <2>1. worker'[w].capture = c /\ ~At(w, "idle")
      BY <1>1, <1>6 DEF LoadResult, At, Typed, WorkRow
    <2>2. WorkerMoves(w)
      BY <1>6, <2>1 DEF WorkerMoves
    <2> QED
      BY <1>2, <1>6, <2>2, WorkerAlone DEF LoadResult, rows, Moves, RowMoves
  <1>7. CASE ImportDraft(w)
    <2>1. c \in Captures /\ dispatch[c].status = "running" /\ dispatch[c] \in DispatchRow
      BY <1>1, <1>7 DEF ImportDraft, At, GoodWork, ImportLocks, Typed, GoodDispatch
    <2>2. dispatch'[c].status = "completed" /\ \A b \in Captures \ {c} : dispatch'[b] = dispatch[b]
      BY <1>7, <2>1 DEF ImportDraft, Typed, DispatchRow
    <2>3. \A k \in Captures : k = c => ~Locked(k)'
      BY <1>3, <1>7 DEF ImportDraft
    <2> QED
      BY <1>2, <1>7, <2>1, <2>2, <2>3, Rests DEF ImportDraft, Moves, RowMoves, From, To, Terminal
  <1>8. CASE ImportRefused(w)
    <2>1. c \in Captures /\ dispatch[c].status = "running"
      BY <1>1, <1>8 DEF ImportRefused, At, GoodWork, ImportLocks
    <2>2. dispatch'[c].status = "failed" /\ \A b \in Captures \ {c} : dispatch'[b] = dispatch[b]
      BY <1>8, <2>1 DEF ImportRefused, MarkFailed, Typed
    <2>3. \A k \in Captures : k = c => ~Locked(k)'
      BY <1>3, <1>8 DEF ImportRefused
    <2> QED
      BY <1>2, <1>8, <2>1, <2>2, <2>3, Rests DEF ImportRefused, Moves, RowMoves, From, To, Terminal
  <1> QED
    BY <1>4, <1>5, <1>6, <1>7, <1>8 DEF Conclude

LEMMA StepMoves == IInv /\ [Next]_vars => Moves
  <1> SUFFICES ASSUME IInv, [Next]_vars PROVE Moves
    OBVIOUS
  <1>1. ASSUME NEW w \in Workers, WorkerCrashes(w) PROVE Moves
    BY <1>1, Rests DEF WorkerCrashes, rows, Moves, RowMoves, IInv
  <1>2. CASE UNCHANGED vars
    BY <1>2, WorkersRest DEF vars, rows, queue, Moves, RowMoves, IInv
  <1> QED
    BY <1>1, <1>2, ParticipantMoves, DispatchingMoves, ReceiveMoves, AnalyzeMoves, ConcludeMoves
       DEF Next, IInv

-----------------------------------------------------------------------------
(* The inductive invariant *)

LEMMA StartedStays ==
  ASSUME Moves, NEW c \in Captures, dispatch[c].status \in Started
  PROVE  dispatch'[c].status \in Started
  BY DEF Moves, RowMoves, From, To, Started, Open, Terminal

LEMMA StepLocks == IInv /\ Moves /\ Typed' => ImportLocks'
  <1> SUFFICES ASSUME IInv, Moves, Typed' PROVE ImportLocks'
    OBVIOUS
  <1> USE DEF IInv
  <1>1. ASSUME NEW w \in Workers, At(w, "import")'
        PROVE  /\ ~At(w, "idle") /\ worker'[w].capture = worker[w].capture
               /\ At(w, "import") \/ LoadResult(w)
    BY <1>1 DEF Moves, WorkerMoves, At
  <1>2. ASSUME NEW w \in Workers, At(w, "import")', NEW k \in Captures, k = worker'[w].capture
        PROVE  dispatch'[k].status = "running"
    <2>1. k = worker[w].capture /\ dispatch[k].status = "running" /\ Locked(k)'
      BY <1>1, <1>2 DEF LoadResult, ImportLocks, Locked, At
    <2>2. CASE At(w, "import")
      <3>1. Locked(k)
        BY <2>1, <2>2 DEF Locked, At
      <3> QED
        BY <2>1, <3>1 DEF Moves, RowMoves, From, To, Open
    <2>3. CASE LoadResult(w)
      BY <2>1, <2>3 DEF LoadResult, rows
    <2> QED
      BY <1>1, <1>2, <2>2, <2>3
  <1>3. ASSUME NEW w \in Workers, At(w, "import")', NEW v \in Workers, At(v, "import")',
               worker'[v].capture = worker'[w].capture
        PROVE  v = w
    <2>1. worker[v].capture = worker[w].capture
      BY <1>1, <1>3
    <2>2. ASSUME NEW x \in Workers, NEW y \in Workers, LoadResult(x), x # y, At(y, "import")',
                 worker[y].capture = worker[x].capture
          PROVE  FALSE
      <3>1. worker'[y] = worker[y]
        BY <2>2 DEF LoadResult, Typed
      <3> QED
        BY <2>2, <3>1 DEF LoadResult, Locked, At
    <2> QED
      BY <1>1, <1>3, <2>1, <2>2 DEF ImportLocks
  <1>4. ASSUME NEW w \in Workers, At(w, "import")' PROVE worker'[w].capture \in Captures
    BY <1>4 DEF Typed, GoodWork, At
  <1> QED
    BY <1>2, <1>3, <1>4 DEF ImportLocks

LEMMA StepWorkersStarted == IInv /\ Moves /\ Typed' => WorkersStarted'
  <1> SUFFICES ASSUME IInv, Moves, Typed', NEW w \in Workers, ~At(w, "idle")',
                      NEW k \in Captures, k = worker'[w].capture
               PROVE  dispatch'[k].status \in Started
    BY DEF WorkersStarted, Typed, GoodWork, At
  <1>1. CASE dispatch'[k].status = "running"
    BY <1>1 DEF Started
  <1>2. CASE dispatch'[k].status # "running"
    <2>1. ~At(w, "idle") /\ worker'[w].capture = worker[w].capture
      BY <1>2 DEF Moves, WorkerMoves
    <2>2. dispatch[k].status \in Started
      BY <2>1 DEF IInv, WorkersStarted
    <2> QED
      BY <2>2, StartedStays
  <1> QED
    BY <1>1, <1>2

LEMMA StepBacked == IInv /\ Moves => TaskBacked'
  <1> SUFFICES ASSUME IInv, Moves, NEW c \in Captures,
                      dispatch'[c].status \in {"queued", "running"} \cup Terminal
               PROVE  c \in tasks'
    BY DEF TaskBacked
  <1> QED
    BY DEF IInv, TaskBacked, Moves, RowMoves, From, To, Terminal, Open

LEMMA StepReplies == IInv /\ [Next]_vars => RepliesTrue'
  <1> SUFFICES ASSUME IInv, [Next]_vars PROVE RepliesTrue'
    OBVIOUS
  <1>1. tasks \subseteq tasks'
    BY StepMoves DEF Moves
  <1>2. CASE pump' = pump
    BY <1>1, <1>2 DEF RepliesTrue, IInv
  <1>3. ASSUME NEW d \in Dispatchers, NEW r, pump' = [pump EXCEPT ![d] = r],
               r.reply = "ok" => r.capture \in tasks'
        PROVE  RepliesTrue'
    BY <1>1, <1>3 DEF RepliesTrue, IInv, Typed
  <1>4. ASSUME NEW d \in Dispatchers, NEW c \in Captures, Claim(d, c) PROVE RepliesTrue'
    BY <1>3, <1>4 DEF Claim
  <1>5. ASSUME NEW d \in Dispatchers, EnqueueAccepted(d) \/ EnqueueFails(d) PROVE RepliesTrue'
    <2>1. pump[d] \in PumpRow
      BY DEF IInv, Typed, GoodPump
    <2>2. [pump[d] EXCEPT !.reply = "ok"].capture = pump[d].capture
      BY <2>1 DEF PumpRow
    <2>3. [pump[d] EXCEPT !.reply = "error"].reply = "error"
      BY <2>1 DEF PumpRow
    <2> QED
      BY <1>3, <1>5, <2>2, <2>3 DEF EnqueueAccepted, EnqueueFails, Replied
  <1>6. ASSUME NEW d \in Dispatchers, Finalize(d) \/ PumpCrashes(d) PROVE RepliesTrue'
    BY <1>3, <1>6 DEF Finalize, PumpCrashes, NoClaim
  <1>7. CASE Participant \/ Receive \/ (\E c \in Captures : LeaseLapses(c))
    BY <1>2, <1>7 DEF Participant, Receive, LeaseLapses, Submit, MediaDeleted, ParticipantEdits,
                      StartAnswersDone, DeliveryLost, StartTask
  <1>8. ASSUME NEW w \in Workers, Analyze(w) PROVE pump' = pump
    BY <1>8 DEF Analyze, Build, StartRun, Snapshot, ProviderAnswers, RecordOutcome, RecordReplayed,
                RecordConflicts, PrepareRetry, RetriesExhausted
  <1>9. ASSUME NEW w \in Workers, Conclude(w) \/ WorkerCrashes(w) PROVE pump' = pump
    BY <1>9 DEF Conclude, FailDispatch, FailReplayed, FailConflicts, LoadResult, LoadReplayed,
                LoadConflicts, ImportDraft, ImportRefused, WorkerCrashes
  <1>10. CASE UNCHANGED vars
    BY <1>2, <1>10 DEF vars
  <1> QED
    BY <1>2, <1>4, <1>5, <1>6, <1>7, <1>8, <1>9, <1>10 DEF Next, Dispatching

LEMMA InitInv == Init => IInv
  <1> SUFFICES ASSUME Init PROVE IInv
    OBVIOUS
  <1>1. Typed
    BY InitTyped
  <1>2. ImportLocks /\ WorkersStarted
    BY DEF Init, ImportLocks, WorkersStarted, At, AtRest
  <1>3. RepliesTrue
    BY DEF Init, RepliesTrue, NoClaim
  <1>4. TaskBacked
    BY DEF Init, TaskBacked, Terminal
  <1> QED
    BY <1>1, <1>2, <1>3, <1>4 DEF IInv

LEMMA StepInv == IInv /\ [Next]_vars => IInv'
  BY StepTyped, StepMoves, StepLocks, StepWorkersStarted, StepBacked, StepReplies DEF IInv

THEOREM Invariant == Spec => []IInv
  BY InitInv, StepInv, PTL DEF Spec

\* Every variable keeps its shape in every reachable state (the rows of
\* capture_analysis_dispatch and ai_analysis_run, the holders, the queue).
THEOREM TypeCorrect == Spec => []TypeOK
  <1>1. IInv => TypeOK
    BY TypedRows DEF IInv
  <1> QED
    BY <1>1, Invariant, PTL

\* A row that is queued, running or finished has its Cloud Task, whatever replies
\* the dispatchers got and lost (finalize_capture_analysis_dispatch).
THEOREM EveryRowBacked == Spec => []TaskBacked
  <1>1. IInv => TaskBacked
    BY DEF IInv
  <1> QED
    BY <1>1, Invariant, PTL

\* No finalize and no takeover by an event pump sends a started analysis back.
THEOREM NoRegress == Spec => StartedStaysStarted
  <1>1. IInv /\ [Next]_vars =>
          [\A c \in Captures : dispatch[c].status \in Started => dispatch'[c].status \in Started]_vars
    BY StepMoves, StartedStays
  <1> QED
    BY <1>1, Invariant, PTL DEF Spec, StartedStaysStarted

-----------------------------------------------------------------------------
(* The run *)

\* Only three steps write a run, each to a run it found in one state.
LEMMA RunMoves ==
  ASSUME IInv, [Next]_vars, NEW c \in Captures
  PROVE  \/ run'[c] = run[c]
         \/ run[c].status = "none" /\ run'[c].attempt = 1
         \/ run[c].status = "running" /\ run'[c].attempt = run[c].attempt
         \/ /\ run[c].status = "failed" /\ run'[c].attempt = run[c].attempt + 1
            /\ run[c].attempt < MaxRunAttempts
  <1> DEFINE P == \/ run'[c] = run[c]
                  \/ run[c].status = "none" /\ run'[c].attempt = 1
                  \/ run[c].status = "running" /\ run'[c].attempt = run[c].attempt
                  \/ /\ run[c].status = "failed" /\ run'[c].attempt = run[c].attempt + 1
                     /\ run[c].attempt < MaxRunAttempts
  <1>1. run[c] \in RunRow /\ run \in [Captures -> RunRow]
    BY DEF IInv, Typed, GoodRun
  <1>2. CASE run' = run
    BY <1>2
  <1>3. CASE Participant \/ Dispatching \/ Receive
    BY <1>2, <1>3 DEF Participant, Submit, MediaDeleted, ParticipantEdits, Dispatching, Claim,
         EnqueueAccepted, EnqueueFails, Finalize, PumpCrashes, LeaseLapses, Receive,
         StartAnswersDone, DeliveryLost, StartTask, rows
  <1>4. ASSUME NEW w \in Workers, StartRun(w) PROVE P
    BY <1>1, <1>4 DEF StartRun
  <1>5. ASSUME NEW w \in Workers, RecordOutcome(w) PROVE P
    BY <1>1, <1>5 DEF RecordOutcome, Recordable, RunRow
  <1>6. ASSUME NEW w \in Workers, PrepareRetry(w) PROVE P
    <2> DEFINE k == worker[w].capture
    <2>1. CASE c = k /\ Reopenable(k, worker[w].saw)
      <3>1. run'[c].attempt = run[c].attempt + 1
        BY <1>1, <1>6, <2>1 DEF PrepareRetry
      <3>2. run[c].status = "failed" /\ run[c].attempt < MaxRunAttempts
        BY <1>1, <2>1, AnalysisAssumption DEF Reopenable, RunRow
      <3> QED
        BY <3>1, <3>2
    <2>2. CASE ~(c = k /\ Reopenable(k, worker[w].saw))
      BY <1>1, <1>6, <2>2 DEF PrepareRetry
    <2> QED
      BY <2>1, <2>2
  <1>7. ASSUME NEW w \in Workers,
               \/ Build(w) \/ Snapshot(w) \/ (\E a \in Provider \cup {"ok"} : ProviderAnswers(w, a))
               \/ RecordReplayed(w) \/ RecordConflicts(w) \/ RetriesExhausted(w)
               \/ Conclude(w) \/ WorkerCrashes(w)
        PROVE  P
    BY <1>2, <1>7 DEF Build, Snapshot, ProviderAnswers, RecordReplayed, RecordConflicts,
         RetriesExhausted, Conclude, FailDispatch, FailReplayed, FailConflicts, LoadResult,
         LoadReplayed, LoadConflicts, ImportDraft, ImportRefused, WorkerCrashes, rows
  <1>8. CASE UNCHANGED vars
    BY <1>2, <1>8 DEF vars, rows
  <1> QED
    BY <1>3, <1>4, <1>5, <1>6, <1>7, <1>8 DEF Next, Analyze

\* complete_analysis_run is final: no stale failure and no prepared retry takes back
\* the result a draft was made from.
THEOREM ResultStands == Spec => CompletedRunStands
  <1>1. IInv /\ [Next]_vars =>
          [\A c \in Captures : run[c].status = "completed" => run'[c] = run[c]]_vars
    BY RunMoves
  <1> QED
    BY <1>1, Invariant, PTL DEF Spec, CompletedRunStands

\* prepare_analysis_retry never opens more attempts than the worker allows, however
\* many redeliveries reach it.
THEOREM AttemptsStayBounded == Spec => []AttemptsBounded
  <1>1. Init => AttemptsBounded
    BY AnalysisAssumption DEF Init, AttemptsBounded
  <1>2. IInv /\ IInv' /\ AttemptsBounded /\ [Next]_vars => AttemptsBounded'
    <2> SUFFICES ASSUME IInv, IInv', AttemptsBounded, [Next]_vars, NEW c \in Captures
                 PROVE  run'[c].attempt <= MaxRunAttempts
      BY DEF AttemptsBounded
    <2>1. run[c].attempt \in Nat /\ run[c].attempt <= MaxRunAttempts
      BY DEF IInv, Typed, GoodRun, RunRow, AttemptsBounded
    <2> QED
      BY <2>1, RunMoves, AnalysisAssumption
  <1> QED
    BY <1>1, <1>2, Invariant, PTL DEF Spec

-----------------------------------------------------------------------------
(* The workflow implements AnalysisOutcome *)

OutcomeVars == <<[c \in Captures |-> OutcomeOf(dispatch[c].status)], Drafts, events>>

LEMMA DraftsAppend ==
  ASSUME Typed, NEW x \in Captures \cup {"participant"}, chain' = Append(chain, x)
  PROVE  Drafts' = IF x \in Captures THEN Drafts \cup {x} ELSE Drafts
  <1>1. chain \in Seq(Captures \cup {"participant"})
    BY DEF Typed, Others
  <1>2. Len(chain) \in Nat /\ DOMAIN chain = 1 .. Len(chain)
    BY <1>1
  <1>3. DOMAIN chain' = 1 .. Len(chain) + 1
    BY <1>1
  <1>4. \A i \in 1 .. Len(chain) : chain'[i] = chain[i]
    BY <1>1
  <1>5. chain'[Len(chain) + 1] = x
    BY <1>1
  <1>6. ASSUME NEW c \in Captures
        PROVE  (\E i \in DOMAIN chain' : chain'[i] = c) <=> (\E i \in DOMAIN chain : chain[i] = c) \/ c = x
    <2>1. ASSUME NEW i \in DOMAIN chain', chain'[i] = c
          PROVE  (\E j \in DOMAIN chain : chain[j] = c) \/ c = x
      BY <1>2, <1>3, <1>4, <1>5, <2>1
    <2>2. ASSUME NEW i \in DOMAIN chain, chain[i] = c PROVE \E j \in DOMAIN chain' : chain'[j] = c
      BY <1>2, <1>3, <1>4, <2>2
    <2>3. ASSUME c = x PROVE \E j \in DOMAIN chain' : chain'[j] = c
      BY <1>2, <1>3, <1>5, <2>3
    <2> QED
      BY <2>1, <2>2, <2>3
  <1> QED
    BY <1>6 DEF Drafts

\* A step that moves no row to another outcome, draws up no draft and announces nothing.
LEMMA Stutters ==
  ASSUME Typed, Typed', events' = events,
         chain' = chain \/ chain' = Append(chain, "participant"),
         \A c \in Captures : OutcomeOf(dispatch'[c].status) = OutcomeOf(dispatch[c].status)
  PROVE  UNCHANGED OutcomeVars
  <1>1. "participant" \notin Captures
    BY AnalysisAssumption
  <1>2. Drafts' = Drafts
    BY <1>1, DraftsAppend DEF Drafts
  <1> QED
    BY <1>2 DEF OutcomeVars, Outcome!ovars

Outcomes == [c \in Captures |-> OutcomeOf(dispatch[c].status)]

\* One row moves to another outcome.
LEMMA OneOutcome ==
  ASSUME Typed, Typed', NEW k \in Captures, NEW s,
         OutcomeOf(dispatch'[k].status) = s,
         \A c \in Captures \ {k} : dispatch'[c].status = dispatch[c].status
  PROVE  Outcomes' = [Outcomes EXCEPT ![k] = s]
  BY DEF Outcomes

LEMMA FailRefines ==
  ASSUME Typed, Typed', NEW k \in Captures, dispatch[k].status = "running",
         NEW f \in Failure, MarkFailed(k, f), chain' = chain
  PROVE  Outcome!Fail(k)
  <1>1. dispatch'[k].status = "failed" /\ \A c \in Captures \ {k} : dispatch'[c] = dispatch[c]
    BY DEF MarkFailed, Typed
  <1>2. Outcomes[k] = "open" /\ Outcomes' = [Outcomes EXCEPT ![k] = "failed"]
    BY <1>1, OneOutcome DEF Outcomes, OutcomeOf, Open
  <1>3. Drafts' = Drafts
    BY DEF Drafts
  <1> QED
    BY <1>2, <1>3 DEF Outcome!Fail, Outcomes, MarkFailed

LEMMA SubmitRefines ==
  ASSUME Typed, Typed', NEW k \in Captures, Submit(k)
  PROVE  Outcome!Submit(k)
  <1>1. dispatch[k] \in DispatchRow
    BY DEF Typed, GoodDispatch
  <1>2. dispatch'[k].status = "pending" /\ \A c \in Captures \ {k} : dispatch'[c] = dispatch[c]
    BY <1>1 DEF Submit, Typed, DispatchRow
  <1>3. Outcomes[k] = "none" /\ Outcomes' = [Outcomes EXCEPT ![k] = "open"]
    BY <1>2, OneOutcome DEF Submit, Outcomes, OutcomeOf, Open
  <1>4. Drafts' = Drafts /\ events' = events
    BY DEF Submit, Drafts
  <1> QED
    BY <1>3, <1>4 DEF Outcome!Submit, Outcomes

LEMMA ImportRefines ==
  ASSUME Typed, Typed', ImportLocks, NEW w \in Workers, ImportDraft(w),
         NEW k \in Captures, k = worker[w].capture
  PROVE  Outcome!Complete(k)
  <1>1. dispatch[k] \in DispatchRow /\ dispatch[k].status = "running"
    BY DEF Typed, GoodDispatch, ImportLocks, ImportDraft
  <1>2. dispatch'[k].status = "completed" /\ \A c \in Captures \ {k} : dispatch'[c] = dispatch[c]
    BY <1>1 DEF ImportDraft, Typed, DispatchRow
  <1>3. Outcomes[k] = "open" /\ Outcomes' = [Outcomes EXCEPT ![k] = "completed"]
    BY <1>1, <1>2, OneOutcome DEF Outcomes, OutcomeOf, Open
  <1>4. Drafts' = Drafts \cup {k}
    BY DraftsAppend DEF ImportDraft
  <1> QED
    BY <1>3, <1>4 DEF Outcome!Complete, Outcomes, ImportDraft

LEMMA InitRefines == Init => Outcome!Init
  <1> SUFFICES ASSUME Init PROVE Outcome!Init
    OBVIOUS
  <1>1. \A c \in Captures : OutcomeOf(dispatch[c].status) = "none"
    BY DEF Init, OutcomeOf, Open
  <1>2. Drafts = {}
    BY DEF Init, Drafts
  <1> QED
    BY <1>1, <1>2 DEF Init, Outcome!Init

LEMMA StepRefines == IInv /\ IInv' /\ [Next]_vars => [Outcome!Next]_(Outcome!ovars)
  <1> SUFFICES ASSUME IInv, IInv', [Next]_vars PROVE Outcome!Next \/ UNCHANGED OutcomeVars
    BY DEF OutcomeVars, Outcome!ovars
  <1>0. Typed /\ Typed' /\ ImportLocks /\ WorkersStarted
    BY DEF IInv
  <1>1. ASSUME NEW c \in Captures, Submit(c) PROVE Outcome!Next
    BY <1>0, <1>1, SubmitRefines DEF Outcome!Next
  <1>2. ASSUME NEW w \in Workers, ImportDraft(w) PROVE Outcome!Next
    <2>1. worker[w].capture \in Captures
      BY <1>0, <1>2 DEF ImportDraft, At, Typed, GoodWork
    <2> QED
      BY <1>0, <1>2, <2>1, ImportRefines DEF Outcome!Next
  <1>3. ASSUME NEW w \in Workers, FailDispatch(w) PROVE Outcome!Next
    <2>1. worker[w].capture \in Captures /\ worker[w].saw \in Failure
      BY <1>0, <1>3 DEF FailDispatch, At, Typed, GoodWork
    <2>2. dispatch[worker[w].capture].status = "running"
      BY <1>0, <1>3 DEF FailDispatch, CanFail, At, WorkersStarted, Started, Terminal
    <2> QED
      BY <1>0, <1>3, <2>1, <2>2, FailRefines DEF FailDispatch, Outcome!Next
  <1>4. ASSUME NEW w \in Workers, ImportRefused(w) PROVE Outcome!Next
    <2>1. worker[w].capture \in Captures /\ "import" \in Failure
      BY <1>0, <1>4 DEF ImportRefused, At, Typed, GoodWork, Failure
    <2>2. dispatch[worker[w].capture].status = "running"
      BY <1>0, <1>4 DEF ImportRefused, ImportLocks
    <2> QED
      BY <1>0, <1>4, <2>1, <2>2, FailRefines DEF ImportRefused, Outcome!Next
  <1>5. ASSUME events' = events, chain' = chain, dispatch' = dispatch PROVE UNCHANGED OutcomeVars
    BY <1>0, <1>5, Stutters
  <1>6. ASSUME events' = events, chain' = chain, NEW k \in Captures, NEW r,
               dispatch' = [dispatch EXCEPT ![k] = r],
               OutcomeOf(r.status) = OutcomeOf(dispatch[k].status)
        PROVE  UNCHANGED OutcomeVars
    <2>1. \A c \in Captures : OutcomeOf(dispatch'[c].status) = OutcomeOf(dispatch[c].status)
      BY <1>0, <1>6 DEF Typed
    <2> QED
      BY <1>0, <1>6, <2>1, Stutters
  <1>7. CASE ParticipantEdits
    BY <1>0, <1>7, Stutters DEF ParticipantEdits
  <1>8. ASSUME NEW c \in Captures, MediaDeleted(c) PROVE UNCHANGED OutcomeVars
    BY <1>5, <1>8 DEF MediaDeleted
  <1>9. ASSUME NEW d \in Dispatchers, NEW c \in Captures, Claim(d, c) PROVE UNCHANGED OutcomeVars
    <2>1. [dispatch[c] EXCEPT !.status = "dispatching", !.token = seq, !.lapsed = FALSE].status = "dispatching"
      BY <1>0 DEF Typed, GoodDispatch, DispatchRow
    <2> QED
      BY <1>6, <1>9, <2>1 DEF Claim, Claimable, OutcomeOf, Open
  <1>10. ASSUME NEW d \in Dispatchers, Finalize(d) PROVE UNCHANGED OutcomeVars
    <2>1. pump[d].capture \in Captures /\ dispatch[pump[d].capture] \in DispatchRow
      BY <1>0, <1>10 DEF Finalize, Typed, GoodPump, GoodDispatch
    <2>2. OutcomeOf(FinalizedRow(pump[d]).status) = OutcomeOf(dispatch[pump[d].capture].status)
      BY <2>1 DEF FinalizedRow, OwnsLease, OutcomeOf, Open, DispatchRow
    <2> QED
      BY <1>6, <1>10, <2>1, <2>2 DEF Finalize
  <1>11. ASSUME NEW d \in Dispatchers, EnqueueAccepted(d) \/ EnqueueFails(d) \/ PumpCrashes(d)
         PROVE  UNCHANGED OutcomeVars
    BY <1>5, <1>11 DEF EnqueueAccepted, EnqueueFails, PumpCrashes, rows
  <1>12. ASSUME NEW c \in Captures, LeaseLapses(c) PROVE UNCHANGED OutcomeVars
    <2>1. [dispatch[c] EXCEPT !.lapsed = TRUE].status = dispatch[c].status
      BY <1>0 DEF Typed, GoodDispatch, DispatchRow
    <2>2. dispatch' = [dispatch EXCEPT ![c] = [dispatch[c] EXCEPT !.lapsed = TRUE]]
      BY <1>12 DEF LeaseLapses
    <2> QED
      BY <1>6, <1>12, <2>1, <2>2 DEF LeaseLapses
  <1>13. ASSUME NEW c \in Captures, StartAnswersDone(c) \/ DeliveryLost(c) PROVE UNCHANGED OutcomeVars
    BY <1>5, <1>13 DEF StartAnswersDone, DeliveryLost, rows
  <1>14. ASSUME NEW w \in Workers, NEW c \in Captures, StartTask(w, c) PROVE UNCHANGED OutcomeVars
    <2>1. StartedRow(c).status = "running"
      BY <1>0 DEF StartedRow, Typed, GoodDispatch, DispatchRow
    <2> QED
      BY <1>6, <1>14, <2>1 DEF StartTask, OutcomeOf, Open
  <1>15. ASSUME NEW w \in Workers, Analyze(w) PROVE UNCHANGED OutcomeVars
    BY <1>5, <1>15 DEF Analyze, Build, StartRun, Snapshot, ProviderAnswers, RecordOutcome,
         RecordReplayed, RecordConflicts, PrepareRetry, RetriesExhausted, rows
  <1>16. ASSUME NEW w \in Workers,
                \/ FailReplayed(w) \/ FailConflicts(w) \/ LoadResult(w) \/ LoadReplayed(w)
                \/ LoadConflicts(w) \/ WorkerCrashes(w)
         PROVE  UNCHANGED OutcomeVars
    BY <1>5, <1>16 DEF FailReplayed, FailConflicts, LoadResult, LoadReplayed, LoadConflicts,
         WorkerCrashes, rows
  <1>17. CASE UNCHANGED vars
    BY <1>5, <1>17 DEF vars, rows
  <1> QED
    BY <1>1, <1>2, <1>3, <1>4, <1>7, <1>8, <1>9, <1>10, <1>11, <1>12, <1>13, <1>14, <1>15, <1>16, <1>17
       DEF Next, Participant, Dispatching, Receive, Conclude

\* One outcome per submitted capture, announced once, with a draft exactly when it is
\* a success: the rows, the queue and the workers implement AnalysisOutcome.
THEOREM WorkflowKeepsPromise == Spec => OutcomeRefined
  <1> QED
    BY InitRefines, StepRefines, Invariant, PTL DEF Spec, OutcomeRefined, Outcome!Spec
=============================================================================
