------------------------- MODULE AnalysisWorkflow -------------------------
(***************************************************************************)
(* From the submission of a capture session to a draft scope version:      *)
(* analysis_workflow/service.py (the dispatch row), analysis/service.py    *)
(* (the run row), analysis/handler.py and the worker endpoint that drives  *)
(* both, for the captures of one move job.                                 *)
(*                                                                         *)
(* A delivery of the analysis task is a sequence of transactions with a    *)
(* provider call in the middle; each is one action, and `step` says which  *)
(* one the worker does next.  The same task may be delivered to several    *)
(* workers at once and again after any 5xx answer.                         *)
(*                                                                         *)
(* The scope versions of a job form a chain: parent_version_id is unique   *)
(* and one version has no parent.                                          *)
(***************************************************************************)
EXTENDS Naturals, Sequences, FiniteSets

CONSTANTS Captures,           \* capture sessions of one move job
          Dispatchers,        \* concurrent event pump executions
          Workers,            \* concurrent worker requests
          MaxRunAttempts,     \* MAX_ANALYSIS_ATTEMPTS, 5
          MaxOutputAttempts,  \* MAX_ANALYSIS_OUTPUT_ATTEMPTS, 2
          MaxDeliveries,      \* queue retry_config.max_attempts, 5
          MaxEdits,           \* bound: scope versions made by participants
          MaxFaults           \* bound: crashes, ambiguous replies and stalls

ASSUME AnalysisAssumption ==
  /\ MaxRunAttempts \in Nat \ {0} /\ MaxOutputAttempts \in Nat \ {0}
  /\ MaxOutputAttempts <= MaxRunAttempts
  /\ MaxDeliveries \in Nat \ {0} /\ MaxEdits \in Nat /\ MaxFaults \in Nat
  /\ {"none", "participant"} \cap Captures = {}

VARIABLES
  dispatch,  \* capture_analysis_dispatch rows; status "none" is no row
  run,       \* ai_analysis_run rows; status "none" is no row
  ready,     \* captures that still have READY media
  chain,     \* the scope versions of the job, oldest first: who made each
  events,    \* analysis_completed.v1 and analysis_failed.v1 events enqueued
  pump,      \* what each event pump execution holds between its transactions
  worker,    \* what each worker holds between its transactions
  tasks,     \* captures whose task was created: the name depends on nothing else
  acked,     \* captures whose task the queue will not deliver again
  tries,     \* deliveries of each task
  seq,       \* the next fresh dispatch token: uuid4()
  faults     \* faults so far

rows  == <<dispatch, run, ready, chain, events>>
queue == <<tasks, acked, tries>>
vars  == <<rows, pump, worker, queue, seq, faults>>

Retried  == {"transport", "output"}          \* ProviderError with retryable = True
Provider == Retried \cup {"rejected"}        \* what the AI provider may answer
Failure  == Provider \cup {"no_media", "import"}

Open      == {"pending", "dispatching", "queued", "running"}
Terminal  == {"completed", "failed"}
DispatchRow == [status : {"none"} \cup Open \cup Terminal, token : Nat, lapsed : BOOLEAN,
                failure : Failure \cup {"none"}]
RunRow  == [status : {"none", "running", "completed", "failed"}, attempt : Nat,
            failure : Provider \cup {"none"}]
Steps   == {"idle", "build", "start", "snapshot", "analyze", "record", "load",
            "import", "retry", "fail"}
WorkRow == [step : Steps, capture : Captures \cup {"none"}, saw : Failure \cup {"none", "ok"},
            parent : Nat]
PumpRow == [capture : Captures \cup {"none"}, token : Nat, reply : {"unsent", "ok", "error"}]

AtRest == [step |-> "idle", capture |-> "none", saw |-> "none", parent |-> 0]
NoClaim == [capture |-> "none", token |-> 0, reply |-> "unsent"]

Init ==
  /\ dispatch = [c \in Captures |-> [status |-> "none", token |-> 0, lapsed |-> FALSE, failure |-> "none"]]
  /\ run = [c \in Captures |-> [status |-> "none", attempt |-> 0, failure |-> "none"]]
  /\ ready = Captures
  /\ chain = <<>>
  /\ events = [c \in Captures |-> [completed |-> 0, failed |-> 0]]
  /\ pump = [d \in Dispatchers |-> NoClaim]
  /\ worker = [w \in Workers |-> AtRest]
  /\ tasks = {} /\ acked = {}
  /\ tries = [c \in Captures |-> 0]
  /\ seq = 1 /\ faults = 0

Fault == faults < MaxFaults /\ faults' = faults + 1

-----------------------------------------------------------------------------
(* The participants *)

\* submit_capture_analysis: every inventory asset is READY; a second submission
\* returns the first row.  The intent waits for the event pump.
Submit(c) ==
  /\ dispatch[c].status = "none"
  /\ c \in ready
  /\ dispatch' = [dispatch EXCEPT ![c].status = "pending"]
  /\ UNCHANGED <<run, ready, chain, events, pump, worker, queue, seq, faults>>

\* The media of a capture leave READY: their retention is over, or the review of
\* the analysis consumed them.
MediaDeleted(c) ==
  /\ c \in ready
  /\ dispatch[c].status # "none"
  /\ ready' = ready \ {c}
  /\ UNCHANGED <<dispatch, run, chain, events, pump, worker, queue, seq, faults>>

\* A participant's version: the review of a draft, an edit or a manual root.
ParticipantEdits ==
  /\ Cardinality({i \in DOMAIN chain : chain[i] = "participant"}) < MaxEdits
  /\ chain' = Append(chain, "participant")
  /\ UNCHANGED <<dispatch, run, ready, events, pump, worker, queue, seq, faults>>

-----------------------------------------------------------------------------
(* Dispatch: claim, create the task, finalize *)

\* A worker inside complete_capture_analysis holds the lock of the dispatch row.
Locked(c) == \E w \in Workers : worker[w].capture = c /\ worker[w].step = "import"

\* Mutant: a row whose dispatcher died is not taken over.
ClaimablePending(c) == dispatch[c].status = "pending"
Claimable(c) ==
  \/ dispatch[c].status = "pending"
  \/ dispatch[c].status = "dispatching" /\ dispatch[c].lapsed

\* claim_capture_analyses, one row of the batch.  The backoff of a row that is
\* pending again has elapsed.
Claim(d, c) ==
  /\ pump[d] = NoClaim
  /\ Claimable(c)
  /\ dispatch' = [dispatch EXCEPT ![c] = [@ EXCEPT !.status = "dispatching", !.token = seq, !.lapsed = FALSE]]
  /\ pump' = [pump EXCEPT ![d] = [capture |-> c, token |-> seq, reply |-> "unsent"]]
  /\ seq' = seq + 1
  /\ UNCHANGED <<run, ready, chain, events, worker, queue, faults>>

Replied(d, r) == pump' = [pump EXCEPT ![d].reply = r]

\* request_analysis with attempt_count 1: one task name per run, for good.
EnqueueAccepted(d) ==
  /\ pump[d] # NoClaim /\ pump[d].reply = "unsent"
  /\ Replied(d, "ok")
  /\ tasks' = tasks \cup {pump[d].capture}
  /\ UNCHANGED <<rows, worker, acked, tries, seq, faults>>

EnqueueFails(d) ==
  /\ pump[d] # NoClaim /\ pump[d].reply = "unsent"
  /\ Fault
  /\ Replied(d, "error")
  /\ tasks' \in {tasks, tasks \cup {pump[d].capture}}
  /\ UNCHANGED <<rows, worker, acked, tries, seq>>

OwnsLease(p) ==
  dispatch[p.capture].status = "dispatching" /\ dispatch[p.capture].token = p.token

\* Mutants: an error is taken for an accepted task; a finalize that lost its
\* lease to the worker queues the row again.
FinalizedRowTrustsError(p) ==
  IF OwnsLease(p)
    THEN [dispatch[p.capture] EXCEPT !.status = "queued", !.token = 0, !.lapsed = FALSE]
    ELSE dispatch[p.capture]
FinalizedRowRegresses(p) ==
  IF OwnsLease(p) \/ (p.reply = "ok" /\ dispatch[p.capture].token = 0)
    THEN [dispatch[p.capture] EXCEPT !.status = "queued", !.token = 0, !.lapsed = FALSE]
    ELSE dispatch[p.capture]

\* finalize_capture_analysis_dispatch: an error sends the row back to pending, to
\* be tried again for ever.  A worker that was quicker keeps what it wrote.
FinalizedRow(p) ==
  IF OwnsLease(p)
    THEN [dispatch[p.capture] EXCEPT !.status = IF p.reply = "ok" THEN "queued" ELSE "pending",
                                     !.token = 0, !.lapsed = FALSE]
    ELSE dispatch[p.capture]

Finalize(d) ==
  /\ pump[d] # NoClaim /\ pump[d].reply # "unsent"
  /\ ~Locked(pump[d].capture)
  /\ dispatch' = [dispatch EXCEPT ![pump[d].capture] = FinalizedRow(pump[d])]
  /\ pump' = [pump EXCEPT ![d] = NoClaim]
  /\ UNCHANGED <<run, ready, chain, events, worker, queue, seq, faults>>

PumpCrashes(d) ==
  /\ pump[d] # NoClaim
  /\ Fault
  /\ pump' = [pump EXCEPT ![d] = NoClaim]
  /\ UNCHANGED <<rows, worker, queue, seq>>

\* The clock passes dispatch_locked_until, under a live dispatcher only by a stall.
LeaseLapses(c) ==
  /\ dispatch[c].status = "dispatching" /\ ~dispatch[c].lapsed
  /\ IF \E d \in Dispatchers : pump[d].capture = c /\ pump[d].token = dispatch[c].token
       THEN Fault ELSE faults' = faults
  /\ dispatch' = [dispatch EXCEPT ![c].lapsed = TRUE]
  /\ UNCHANGED <<run, ready, chain, events, pump, worker, queue, seq>>

-----------------------------------------------------------------------------
(* A delivery of the task *)

Deliverable(c) == c \in tasks \ acked /\ tries[c] < MaxDeliveries
Delivered(c) == tries' = [tries EXCEPT ![c] = @ + 1]

At(w, s) == worker[w].step = s
Goes(w, s) == worker' = [worker EXCEPT ![w].step = s]
Answers5xx(w) == worker' = [worker EXCEPT ![w] = AtRest] /\ UNCHANGED acked
\* The answer itself may be lost: the queue then delivers the task once more.
Answers204(w) ==
  /\ worker' = [worker EXCEPT ![w] = AtRest]
  /\ acked' \in {acked, acked \cup {worker[w].capture}}

\* start_capture_analysis on a finished row: 204, no provider call.
StartAnswersDone(c) ==
  /\ Deliverable(c) /\ ~Locked(c)
  /\ dispatch[c].status \in Terminal
  /\ Delivered(c)
  /\ acked' = acked \cup {c}
  /\ UNCHANGED <<rows, pump, worker, tasks, seq, faults>>

\* The delivery ends before its first commit: 503 without a provider, a lost worker.
DeliveryLost(c) ==
  /\ Deliverable(c)
  /\ Fault
  /\ Delivered(c)
  /\ UNCHANGED <<rows, pump, worker, tasks, acked, seq>>

\* The dispatcher's lease ends with the start.
StartedRow(c) == [dispatch[c] EXCEPT !.status = "running", !.token = 0, !.lapsed = FALSE]

\* start_capture_analysis: any open row is RUNNING from now on, a PENDING one too
\* (its enqueue was reported as failed).  The queue delivers a task again while it is
\* being worked on only by a fault: at-least-once delivery, a missed deadline.
StartTask(w, c) ==
  /\ Deliverable(c) /\ ~Locked(c)
  /\ At(w, "idle")
  /\ dispatch[c].status \in Open
  /\ Delivered(c)
  /\ dispatch' = [dispatch EXCEPT ![c] = StartedRow(c)]
  /\ worker' = [worker EXCEPT ![w] = [AtRest EXCEPT !.step = "build", !.capture = c]]
  /\ IF \E v \in Workers : worker[v].capture = c THEN Fault ELSE faults' = faults
  /\ UNCHANGED <<run, ready, chain, events, pump, tasks, acked, seq>>

\* build_analysis_request reads the READY media without a lock.
Build(w) ==
  /\ At(w, "build")
  /\ worker' = [worker EXCEPT ![w] =
       IF @.capture \in ready THEN [@ EXCEPT !.step = "start"]
                              ELSE [@ EXCEPT !.step = "fail", !.saw = "no_media"]]
  /\ UNCHANGED <<rows, pump, queue, seq, faults>>

\* start_analysis_run creates the row; a replay finds it and changes nothing.
StartRun(w) ==
  LET c == worker[w].capture IN
  /\ At(w, "start")
  /\ run' = IF run[c].status = "none"
              THEN [run EXCEPT ![c] = [status |-> "running", attempt |-> 1, failure |-> "none"]]
              ELSE run
  /\ Goes(w, "snapshot")
  /\ UNCHANGED <<dispatch, ready, chain, events, pump, queue, seq, faults>>

AfterFailure(f) == IF f \in Retried THEN "retry" ELSE "fail"

\* get_analysis_run_snapshot: status and failure in one read.
Snapshot(w) ==
  LET r == run[worker[w].capture] IN
  /\ At(w, "snapshot")
  /\ worker' = [worker EXCEPT ![w] =
       CASE r.status = "completed" -> [@ EXCEPT !.step = "load", !.saw = "ok"]
         [] r.status = "failed"    -> [@ EXCEPT !.step = AfterFailure(r.failure), !.saw = r.failure]
         [] OTHER                  -> [@ EXCEPT !.step = "analyze"]]
  /\ UNCHANGED <<rows, pump, queue, seq, faults>>

ProviderAnswers(w, a) ==
  /\ At(w, "analyze")
  /\ worker' = [worker EXCEPT ![w] = [@ EXCEPT !.step = "record", !.saw = a]]
  /\ UNCHANGED <<rows, pump, queue, seq, faults>>

\* Mutant: a late failure overwrites a result.
RecordableTwice(c) == run[c].status \in {"running", "completed"}
Recordable(c) == run[c].status = "running"

\* complete_analysis_run, fail_analysis_run on a running run; its attempt is not
\* compared with the one this worker started from.
RecordOutcome(w) ==
  LET c == worker[w].capture
      a == worker[w].saw
  IN
  /\ At(w, "record")
  /\ Recordable(c)
  /\ IF a = "ok"
       THEN /\ run' = [run EXCEPT ![c].status = "completed"]
            /\ Goes(w, "load")
       ELSE /\ run' = [run EXCEPT ![c].status = "failed", ![c].failure = a]
            /\ Goes(w, AfterFailure(a))
  /\ UNCHANGED <<dispatch, ready, chain, events, pump, queue, seq, faults>>

\* Another worker recorded the same: the same failure, or an equal result.
RecordReplayed(w) ==
  LET c == worker[w].capture IN
  /\ At(w, "record")
  /\ \/ worker[w].saw = "ok" /\ run[c].status = "completed" /\ Goes(w, "load")
     \/ worker[w].saw = run[c].failure /\ Goes(w, AfterFailure(worker[w].saw))
  /\ UNCHANGED <<rows, pump, queue, seq, faults>>

\* AnalysisRunConflictError: 500.  Two results of one run are seldom equal, and two
\* failures of one class may differ in their code, stage or provider status.
RecordConflicts(w) ==
  LET c == worker[w].capture IN
  /\ At(w, "record")
  /\ ~Recordable(c)
  /\ Answers5xx(w)
  /\ UNCHANGED <<rows, pump, tasks, tries, seq, faults>>

\* Mutant: the limit is off by one.
ReopenableOnceMore(c, f) ==
  /\ run[c].status = "failed"
  /\ run[c].attempt <= (IF f = "output" THEN MaxOutputAttempts ELSE MaxRunAttempts)
Reopenable(c, f) ==
  /\ run[c].status = "failed"
  /\ run[c].attempt < (IF f = "output" THEN MaxOutputAttempts ELSE MaxRunAttempts)

\* prepare_analysis_retry: a failed run below the limit of what this worker saw is
\* open again; a run that is not failed is left to whoever has it.  503 either way.
PrepareRetry(w) ==
  LET c == worker[w].capture IN
  /\ At(w, "retry")
  /\ run[c].status # "failed" \/ Reopenable(c, worker[w].saw)
  /\ run' = IF Reopenable(c, worker[w].saw)
              THEN [run EXCEPT ![c] = [status |-> "running", attempt |-> @.attempt + 1, failure |-> "none"]]
              ELSE run
  /\ Answers5xx(w)
  /\ UNCHANGED <<dispatch, ready, chain, events, pump, tasks, tries, seq, faults>>

RetriesExhausted(w) ==
  LET c == worker[w].capture IN
  /\ At(w, "retry")
  /\ run[c].status = "failed" /\ ~Reopenable(c, worker[w].saw)
  /\ Goes(w, "fail")
  /\ UNCHANGED <<rows, pump, queue, seq, faults>>

-----------------------------------------------------------------------------
(* The outcome on the dispatch row *)

\* _mark_failed: the row and its event.
MarkFailed(c, f) ==
  /\ dispatch' = [dispatch EXCEPT ![c] = [status |-> "failed", token |-> 0, lapsed |-> FALSE, failure |-> f]]
  /\ events' = [events EXCEPT ![c].failed = @ + 1]

\* Mutant: COMPLETED is not looked at.
CanFailCompleted(c) == dispatch[c].status # "failed"
CanFail(c) == dispatch[c].status \notin Terminal

\* fail_capture_analysis
FailDispatch(w) ==
  LET c == worker[w].capture IN
  /\ At(w, "fail") /\ ~Locked(c)
  /\ CanFail(c)
  /\ MarkFailed(c, worker[w].saw)
  /\ Answers204(w)
  /\ UNCHANGED <<run, ready, chain, pump, tasks, tries, seq, faults>>

FailReplayed(w) ==
  LET c == worker[w].capture IN
  /\ At(w, "fail") /\ ~Locked(c)
  /\ dispatch[c].status = "failed" /\ dispatch[c].failure = worker[w].saw
  /\ Answers204(w)
  /\ UNCHANGED <<rows, pump, tasks, tries, seq, faults>>

FailConflicts(w) ==
  LET c == worker[w].capture IN
  /\ At(w, "fail") /\ ~Locked(c)
  /\ dispatch[c].status \in Terminal
  /\ Answers5xx(w)
  /\ UNCHANGED <<rows, pump, tasks, tries, seq, faults>>

\* _previous_unreviewed_analysis_scope: the newest analysis draft, if nothing was
\* built on it.  0 stands for no parent.
ParentRead == IF chain # <<>> /\ chain[Len(chain)] \in Captures THEN Len(chain) ELSE 0

\* complete_capture_analysis up to the choice of the parent, which locks no scope row.
\* (A run that reached this step stays COMPLETED: its result is there to load.)
LoadResult(w) ==
  LET c == worker[w].capture IN
  /\ At(w, "load") /\ ~Locked(c)
  /\ dispatch[c].status = "running"
  /\ worker' = [worker EXCEPT ![w] = [@ EXCEPT !.step = "import", !.parent = ParentRead]]
  /\ UNCHANGED <<rows, pump, queue, seq, faults>>

LoadReplayed(w) ==
  LET c == worker[w].capture IN
  /\ At(w, "load") /\ ~Locked(c)
  /\ dispatch[c].status = "completed"
  /\ Answers204(w)
  /\ UNCHANGED <<rows, pump, tasks, tries, seq, faults>>

LoadConflicts(w) ==
  LET c == worker[w].capture IN
  /\ At(w, "load") /\ ~Locked(c)
  /\ dispatch[c].status = "failed"
  /\ Answers5xx(w)
  /\ UNCHANGED <<rows, pump, tasks, tries, seq, faults>>

\* import_analysis_draft and create_scope_version: the source media still exist
\* and the parent is still the newest version (or there is none).
Importable(w) == worker[w].capture \in ready /\ worker[w].parent = Len(chain)

ImportDraft(w) ==
  LET c == worker[w].capture IN
  /\ At(w, "import")
  /\ Importable(w)
  /\ chain' = Append(chain, c)
  /\ dispatch' = [dispatch EXCEPT ![c].status = "completed"]
  /\ events' = [events EXCEPT ![c].completed = @ + 1]
  /\ Answers204(w)
  /\ UNCHANGED <<run, ready, pump, tasks, tries, seq, faults>>

\* The savepoint is rolled back and the row fails; a result may also not map to a
\* scope for reasons of its own.
ImportRefused(w) ==
  /\ At(w, "import")
  /\ MarkFailed(worker[w].capture, "import")
  /\ Answers204(w)
  /\ UNCHANGED <<run, ready, chain, pump, tasks, tries, seq, faults>>

WorkerCrashes(w) ==
  /\ ~At(w, "idle")
  /\ Fault
  /\ Answers5xx(w)
  /\ UNCHANGED <<rows, pump, tasks, tries, seq>>

-----------------------------------------------------------------------------
Participant ==
  \/ \E c \in Captures : Submit(c) \/ MediaDeleted(c)
  \/ ParticipantEdits

Dispatching ==
  \/ \E d \in Dispatchers, c \in Captures : Claim(d, c)
  \/ \E d \in Dispatchers : EnqueueAccepted(d) \/ EnqueueFails(d) \/ Finalize(d) \/ PumpCrashes(d)
  \/ \E c \in Captures : LeaseLapses(c)

Receive ==
  \/ \E c \in Captures : StartAnswersDone(c) \/ DeliveryLost(c)
  \/ \E w \in Workers, c \in Captures : StartTask(w, c)

Analyze(w) ==
  \/ Build(w) \/ StartRun(w) \/ Snapshot(w)
  \/ \E a \in Provider \cup {"ok"} : ProviderAnswers(w, a)
  \/ RecordOutcome(w) \/ RecordReplayed(w) \/ RecordConflicts(w)
  \/ PrepareRetry(w) \/ RetriesExhausted(w)

Conclude(w) ==
  \/ FailDispatch(w) \/ FailReplayed(w) \/ FailConflicts(w)
  \/ LoadResult(w) \/ LoadReplayed(w) \/ LoadConflicts(w)
  \/ ImportDraft(w) \/ ImportRefused(w)

Next ==
  \/ Participant \/ Dispatching \/ Receive
  \/ \E w \in Workers : Analyze(w) \/ Conclude(w) \/ WorkerCrashes(w)
Spec == Init /\ [][Next]_vars

\* Cloud Scheduler starts the pump every minute, Cloud Tasks delivers while it has
\* attempts left, a worker request goes on.  Participants and faults owe nothing.
Fairness ==
  /\ \A c \in Captures :
       /\ SF_vars(\E d \in Dispatchers : Claim(d, c))
       /\ WF_vars(LeaseLapses(c))
       /\ SF_vars(\E w \in Workers : StartTask(w, c))
  /\ \A d \in Dispatchers : WF_vars(EnqueueAccepted(d) \/ Finalize(d))
  /\ \A w \in Workers : WF_vars(Analyze(w) \/ Conclude(w))
LiveSpec == Spec /\ Fairness

-----------------------------------------------------------------------------
(* Properties *)

\* Every variable keeps its shape, the CHECK constraints of the two tables included:
\* a token exactly while a row is leased, a failure exactly on a failed row.
TypeOK ==
  /\ dispatch \in [Captures -> DispatchRow]
  /\ \A c \in Captures : /\ (dispatch[c].status = "dispatching") <=> (dispatch[c].token # 0)
                         /\ (dispatch[c].status = "failed") <=> (dispatch[c].failure # "none")
                         /\ (run[c].status = "failed") <=> (run[c].failure # "none")
  /\ run \in [Captures -> RunRow]
  /\ ready \subseteq Captures
  /\ chain \in Seq(Captures \cup {"participant"})
  /\ events \in [Captures -> [completed : Nat, failed : Nat]]
  /\ pump \in [Dispatchers -> PumpRow]
  /\ worker \in [Workers -> WorkRow]
  /\ tasks \subseteq Captures /\ acked \subseteq Captures
  /\ tries \in [Captures -> Nat]
  /\ seq \in Nat \ {0} /\ faults \in Nat

\* The workflow keeps the promise of AnalysisOutcome: one outcome per submitted
\* capture, announced once, with a draft exactly when it is a success, although
\* duplicate deliveries, stale failures, lost leases and crashes all reach the row.
Drafts == {c \in Captures : \E i \in DOMAIN chain : chain[i] = c}
OutcomeOf(s) == IF s \in Open THEN "open" ELSE s
Outcome == INSTANCE AnalysisOutcome WITH
  outcome   <- [c \in Captures |-> OutcomeOf(dispatch[c].status)],
  drafts    <- Drafts,
  announced <- events
OutcomeRefined == Outcome!Spec

\* An accepted enqueue is never forgotten and a refused one never trusted: a row that
\* is queued or further has its task.
TaskBacked ==
  \A c \in Captures : dispatch[c].status \in {"queued", "running"} \cup Terminal => c \in tasks

\* Once a worker has started an analysis, no late finalize or takeover by an event
\* pump sends it back to the dispatcher.
Started == {"running"} \cup Terminal
StartedStaysStarted ==
  [][\A c \in Captures : dispatch[c].status \in Started => dispatch'[c].status \in Started]_vars

\* Redeliveries that reach the retry decision together open at most the attempts the
\* worker allows.
AttemptsBounded == \A c \in Captures : run[c].attempt <= MaxRunAttempts

\* A completed run is final: no stale failure and no retry prepared by another
\* delivery takes back the result that a draft was made from.
CompletedRunStands ==
  [][\A c \in Captures : run[c].status = "completed" => run'[c] = run[c]]_vars

\* Unless a delivery was wasted by a fault, a submitted analysis reaches an outcome:
\* the queue's deliveries cover the attempts of the run.
Spent(c) == tries[c] >= MaxDeliveries /\ faults > 0
Settles ==
  \A c \in Captures :
    dispatch[c].status = "pending" ~> dispatch[c].status \in Terminal \/ Spent(c)

\* The comment in the worker: concurrent redeliveries cannot both reopen the run and
\* finalize the dispatch row, so a row that failed for the provider's sake has a
\* failed run.
FinalizedOrReopened ==
  \A c \in Captures : dispatch[c].failure \in Provider => run[c].status = "failed"
=============================================================================
