----------------------------- MODULE MediaJobs -----------------------------
(***************************************************************************)
(* Background jobs that validate an uploaded media object and delete it at *)
(* the end of its retention: background_job/service.py, the two worker     *)
(* handlers of media_processing, and the callers that create the jobs.     *)
(*                                                                         *)
(* A job is durable intent in PostgreSQL.  A dispatcher (one pass of the   *)
(* event pump) leases the row, creates a Cloud Task outside the            *)
(* transaction and finalizes the row in a second transaction; a worker     *)
(* receives the task any number of times, starts the attempt in one        *)
(* transaction, calls the object store, and reports in another.  Every     *)
(* transaction is one action: the code locks the rows it reads.  Between   *)
(* two transactions anything else may happen, crashes included.            *)
(*                                                                         *)
(* Clock readings are abstracted to the comparisons made with them: a row  *)
(* has lapsed when its dispatch lease or its execution deadline is past.   *)
(***************************************************************************)
EXTENDS Naturals, FiniteSets

CONSTANTS Assets,         \* media_asset rows of one move job
          Dispatchers,    \* concurrent event pump executions
          Workers,        \* concurrent worker requests
          ErrorKinds,     \* provider error kinds, ProviderErrorKind
          MaxAttempts,    \* bound: operator retries stop at this attempt
          MaxDeliveries,  \* queue retry_config.max_attempts (5 when deployed)
          MaxFaults       \* bound: crashes, ambiguous replies and stalls

ASSUME MediaJobsAssumption ==
  /\ MaxAttempts \in Nat \ {0}
  /\ MaxDeliveries \in Nat \ {0}
  /\ MaxFaults \in Nat
  /\ {"none", "ok"} \cap ErrorKinds = {}

Validation == "validation"
Deletion   == "deletion"
Jobs == {Validation, Deletion} \X Assets   \* UNIQUE (job_type, media_asset_id)

AssetStatus == {"pending_upload", "uploaded", "processing", "ready", "failed", "deleted"}
JobStatus == {"none", "pending", "dispatching", "queued", "running", "succeeded", "failed"}
Terminal  == {"succeeded", "failed"}
Deletable == {"uploaded", "ready", "failed"}

VARIABLES
  videos,    \* the assets that are INVENTORY video/mp4, the inputs of an analysis
  asset,     \* media_asset.status
  object,    \* TRUE iff the pinned generation exists in the object store
  job,       \* background_job rows; status "none" is no row
  claims,    \* what the dispatchers hold in memory between their transactions
  tasks,     \* task names ever created: creating one again is AlreadyExists
  acked,     \* tasks the queue will not deliver again
  tries,     \* deliveries of the current attempt's task
  work,      \* what the workers hold in memory between their transactions
  events,    \* media_deleted.v1 rows enqueued per asset
  move,      \* the move job: open, completed, or completed and past retention
  consumed,  \* assets whose accepted review asked for immediate deletion
  seq,       \* per job, the next fresh dispatch token: uuid4()
  faults     \* faults so far

moving == <<asset, object, job, claims, tasks, acked, tries, work, events, move,
            consumed, seq, faults>>
vars == <<videos, moving>>

Row == [status : JobStatus, attempt : Nat, token : Nat, lapsed : BOOLEAN,
        sched : {"now", "retention"}, taskId : Nat, err : ErrorKinds \cup {"none"}]
Claim == [by : Dispatchers, job : Jobs, attempt : Nat, token : Nat,
          reply : {"unsent", "ok"} \cup ErrorKinds]
Work  == [by : Workers, job : Jobs, attempt : Nat, result : {"none", "ok"} \cup ErrorKinds]
Task  == [job : Jobs, attempt : Nat]

NoRow == [status |-> "none", attempt |-> 0, token |-> 0, lapsed |-> FALSE,
          sched |-> "now", taskId |-> 0, err |-> "none"]

Init ==
  /\ videos \in SUBSET Assets
  /\ asset = [a \in Assets |-> "pending_upload"]
  /\ object = [a \in Assets |-> FALSE]
  /\ job = [j \in Jobs |-> NoRow]
  /\ claims = {} /\ tasks = {} /\ acked = {} /\ work = {} /\ consumed = {}
  /\ tries = [j \in Jobs |-> 0]
  /\ events = [a \in Assets |-> 0]
  /\ move = "open"
  /\ seq = [j \in Jobs |-> 1] /\ faults = 0

Fault == faults < MaxFaults /\ faults' = faults + 1
NoFault == faults' = faults

-----------------------------------------------------------------------------
(* Creation of jobs *)

\* A new row, or the row the unique constraint already holds.
Created(j, sched) ==
  IF job[j].status = "none" THEN [NoRow EXCEPT !.status = "pending", !.sched = sched]
                            ELSE job[j]

\* complete_media_upload: the metadata of the uploaded object is checked, the
\* asset becomes UPLOADED and its validation job is created in the same commit.
CompleteUpload(a) ==
  /\ move = "open"
  /\ asset[a] = "pending_upload"
  /\ asset' = [asset EXCEPT ![a] = "uploaded"]
  /\ object' = [object EXCEPT ![a] = TRUE]
  /\ job' = [job EXCEPT ![<<Validation, a>>] = Created(<<Validation, a>>, "now")]
  /\ UNCHANGED <<claims, tasks, acked, tries, work, events, move, consumed, seq, faults>>

\* _consume_review_videos: an accepted analysis review hides its videos at once
\* and asks for their deletion; a replay of the review does the same again.
ConsumeReviewVideos(S) ==
  /\ S # {} /\ S \subseteq videos
  /\ \A a \in S : asset[a] \in {"ready", "deleted"}
  /\ job' = [j \in Jobs |-> IF j[1] = Deletion /\ j[2] \in S THEN Created(j, "now") ELSE job[j]]
  /\ asset' = [a \in Assets |-> IF a \in S THEN "deleted" ELSE asset[a]]
  /\ consumed' = consumed \cup S
  /\ UNCHANGED <<object, claims, tasks, acked, tries, work, events, move, seq, faults>>

\* confirm_completion by the second role, decide_completion_request (confirm): the
\* job is COMPLETED and every piece of completion evidence gets a deletion job
\* scheduled media_retention_days later.  The first accepts unvalidated evidence.
CompleteMove(S) ==
  /\ move = "open"
  /\ S \subseteq Assets \ videos
  /\ \A a \in S : asset[a] \in {"uploaded", "ready"}
  /\ move' = "completed"
  /\ job' = [j \in Jobs |-> IF j[1] = Deletion /\ j[2] \in S THEN Created(j, "retention") ELSE job[j]]
  /\ UNCHANGED <<asset, object, claims, tasks, acked, tries, work, events, consumed, seq, faults>>

RetentionElapses ==
  /\ move = "completed"
  /\ move' = "retained"
  /\ UNCHANGED <<asset, object, job, claims, tasks, acked, tries, work, events, consumed, seq, faults>>

\* create_retention_background_job through its endpoint: the cutoff is
\* now - retention_days, so the retention must have elapsed.
RequestRetention(a) ==
  /\ job[<<Deletion, a>>].status = "none"
  /\ move = "retained"
  /\ asset[a] \in Deletable
  /\ job' = [job EXCEPT ![<<Deletion, a>>] = Created(<<Deletion, a>>, "now")]
  /\ UNCHANGED <<asset, object, claims, tasks, acked, tries, work, events, move, consumed, seq, faults>>

Expired(j) == job[j].status = "running" /\ job[j].lapsed

Retryable(j) ==
  \/ job[j].status = "failed"
  \/ Expired(j) /\ (j[1] = Validation => asset[j[2]] = "processing")

\* Mutant: the asset of an abandoned attempt stays PROCESSING.
RetriedAssetKept(j) == asset
RetriedAsset(j) ==
  IF j[1] = Validation /\ Expired(j) THEN [asset EXCEPT ![j[2]] = "failed"] ELSE asset

\* retry_background_job, an operator's request: a failed job, or a running one
\* whose execution deadline has passed, is pending again and due now.
Retry(j) ==
  /\ job[j].attempt < MaxAttempts
  /\ Retryable(j)
  /\ asset' = RetriedAsset(j)
  /\ job' = [job EXCEPT ![j] = [@ EXCEPT !.status = "pending", !.sched = "now", !.taskId = 0,
                                         !.err = "none", !.lapsed = FALSE]]
  /\ UNCHANGED <<object, claims, tasks, acked, tries, work, events, move, consumed, seq, faults>>

-----------------------------------------------------------------------------
(* Dispatch: claim, create the task, finalize *)

\* Mutant: scheduled_at is not compared with the clock.
DueAlways(j) == TRUE
Due(j) == job[j].sched = "now" \/ move = "retained"

\* Mutant: a row whose dispatcher died is not taken over.
ClaimablePending(j) == job[j].status = "pending" /\ Due(j)
Claimable(j) ==
  \/ job[j].status = "pending" /\ Due(j)
  \/ job[j].status = "dispatching" /\ job[j].lapsed

Leased(j) ==
  [job[j] EXCEPT !.status = "dispatching", !.token = seq[j], !.lapsed = FALSE,
                 !.attempt = IF job[j].status = "pending" THEN @ + 1 ELSE @]

\* claim_background_jobs, one row of the batch: a due pending row starts a new
\* attempt; a row whose dispatcher let the lease lapse is taken over as it is.
ClaimJob(d, j) ==
  /\ \A c \in claims : c.by # d
  /\ Claimable(j)
  /\ job' = [job EXCEPT ![j] = Leased(j)]
  /\ claims' = claims \cup {[by |-> d, job |-> j, attempt |-> Leased(j).attempt,
                             token |-> seq[j], reply |-> "unsent"]}
  /\ tries' = IF job[j].status = "pending" THEN [tries EXCEPT ![j] = 0] ELSE tries
  /\ seq' = [seq EXCEPT ![j] = @ + 1]
  /\ UNCHANGED <<asset, object, tasks, acked, work, events, move, consumed, faults>>

Replied(c, r) == claims' = (claims \ {c}) \cup {[c EXCEPT !.reply = r]}

\* GoogleCloudTasksQueue.enqueue: the task name is a hash of (job, attempt), so a
\* second creation is AlreadyExists and counts as accepted.
EnqueueAccepted(c) ==
  /\ c.reply = "unsent"
  /\ Replied(c, "ok")
  /\ tasks' = tasks \cup {[job |-> c.job, attempt |-> c.attempt]}
  /\ UNCHANGED <<asset, object, job, acked, tries, work, events, move, consumed, seq, faults>>

\* The call fails or times out; the task may have been created all the same.
EnqueueFails(c, e) ==
  /\ c.reply = "unsent"
  /\ Fault
  /\ Replied(c, e)
  /\ tasks' \in {tasks, tasks \cup {[job |-> c.job, attempt |-> c.attempt]}}
  /\ UNCHANGED <<asset, object, job, acked, tries, work, events, move, consumed, seq>>

OwnsLease(c) == job[c.job].status = "dispatching" /\ job[c.job].token = c.token

\* The worker was quicker than the dispatcher, or another dispatcher has already
\* finalized this attempt: only the task ID is filled in.
AlreadyAccepted(c) ==
  /\ c.reply = "ok"
  /\ job[c.job].attempt = c.attempt
  /\ job[c.job].status \in {"queued", "running"} \cup Terminal
  /\ job[c.job].token = 0
  /\ job[c.job].taskId \in {0, c.attempt}

\* Mutants: an error is taken for an accepted task; a finalize that lost its lease
\* still queues the job.
FinalizedRowTrustsError(c) ==
  IF OwnsLease(c) THEN [job[c.job] EXCEPT !.status = "queued", !.token = 0, !.lapsed = FALSE]
                  ELSE job[c.job]
FinalizedRowRegresses(c) ==
  IF OwnsLease(c) \/ AlreadyAccepted(c)
    THEN [job[c.job] EXCEPT !.status = "queued", !.token = 0, !.lapsed = FALSE, !.taskId = c.attempt]
    ELSE job[c.job]

\* finalize_background_job_dispatch
FinalizedRow(c) ==
  LET r == job[c.job] IN
  IF OwnsLease(c)
    THEN IF c.reply = "ok"
           THEN [r EXCEPT !.status = "queued", !.token = 0, !.lapsed = FALSE, !.taskId = c.attempt]
           ELSE [r EXCEPT !.status = "failed", !.token = 0, !.lapsed = FALSE, !.err = c.reply]
    ELSE IF AlreadyAccepted(c) THEN [r EXCEPT !.taskId = c.attempt] ELSE r

Finalize(c) ==
  /\ c.reply # "unsent"
  /\ job' = [job EXCEPT ![c.job] = FinalizedRow(c)]
  /\ claims' = claims \ {c}
  /\ UNCHANGED <<asset, object, tasks, acked, tries, work, events, move, consumed, seq, faults>>

\* The event pump dies (or its second transaction fails): the lease stays.
DispatcherCrashes(c) ==
  /\ Fault
  /\ claims' = claims \ {c}
  /\ UNCHANGED <<asset, object, job, tasks, acked, tries, work, events, move, consumed, seq>>

\* The clock passes dispatch_locked_until.  The lease outlives the two
\* transactions of a healthy pass, so passing it under a live one is a fault.
LeaseLapses(j) ==
  /\ job[j].status = "dispatching" /\ ~job[j].lapsed
  /\ IF \E c \in claims : c.job = j /\ c.token = job[j].token THEN Fault ELSE NoFault
  /\ job' = [job EXCEPT ![j] = [@ EXCEPT !.lapsed = TRUE]]
  /\ UNCHANGED <<asset, object, claims, tasks, acked, tries, work, events, move, consumed, seq>>

-----------------------------------------------------------------------------
(* Execution: receive, start, call the store, report *)

Idle(w) == \A x \in work : x.by # w
Current(t) == t.attempt = job[t.job].attempt

\* The queue delivers a task until a 2xx answer, MaxDeliveries times at most.
\* Deliveries of an attempt that is over are not counted: they change nothing.
Deliverable(t) ==
  /\ t \in tasks \ acked
  /\ Current(t) => tries[t.job] < MaxDeliveries
Delivered(t) == tries' = IF Current(t) THEN [tries EXCEPT ![t.job] = @ + 1] ELSE tries

\* start_media_*: None for a finished job, BackgroundJobNotFound for another
\* attempt.  Both answer 204 and the queue forgets the task.
StartAnswersDone(t) ==
  /\ Deliverable(t)
  /\ ~Current(t) \/ job[t.job].status \in Terminal
  /\ acked' = acked \cup {t}
  /\ Delivered(t)
  /\ UNCHANGED <<asset, object, job, claims, tasks, work, events, move, consumed, seq, faults>>

\* The asset state start_media_validation insists on; start_media_deletion reads no asset.
Startable(j) ==
  \/ job[j].status \in {"dispatching", "queued"}
     /\ (j[1] = Validation => asset[j[2]] \in {"uploaded", "failed"})
  \/ job[j].status = "running"
     /\ (j[1] = Validation => asset[j[2]] = "processing")

\* start_media_validation, start_media_deletion: a queued or still dispatching job
\* starts, dropping the dispatcher's lease; a running one is resumed.
StartTask(w, t) ==
  LET j == t.job IN
  /\ Deliverable(t) /\ Current(t) /\ Idle(w)
  /\ Startable(j)
  /\ IF job[j].status = "running"
       THEN UNCHANGED <<job, asset>>
       ELSE /\ job' = [job EXCEPT ![j] = [@ EXCEPT !.status = "running", !.token = 0, !.lapsed = FALSE]]
            /\ asset' = IF j[1] = Validation THEN [asset EXCEPT ![j[2]] = "processing"] ELSE asset
  /\ work' = work \cup {[by |-> w, job |-> j, attempt |-> t.attempt, result |-> "none"]}
  /\ Delivered(t)
  /\ UNCHANGED <<object, claims, tasks, acked, events, move, consumed, seq, faults>>

\* BackgroundJobConflictError answers 500: the queue will try again.
StartConflicts(t) ==
  /\ Deliverable(t) /\ Current(t)
  /\ job[t.job].status \notin Terminal /\ ~Startable(t.job)
  /\ Delivered(t)
  /\ UNCHANGED <<asset, object, job, claims, tasks, acked, work, events, move, consumed, seq, faults>>

\* The delivery ends in a 5xx before its first commit: no worker, no database.
DeliveryLost(t) ==
  /\ Deliverable(t) /\ Current(t)
  /\ Fault
  /\ Delivered(t)
  /\ UNCHANGED <<asset, object, job, claims, tasks, acked, work, events, move, consumed, seq>>

Learned(x, r) == work' = (work \ {x}) \cup {[x EXCEPT !.result = r]}

\* delete_object pins the generation: deleting what is gone already succeeds.
\* get_metadata and calculate_sha256 need the object.
StoreAnswers(x) ==
  /\ x.result = "none"
  /\ x.job[1] = Validation => object[x.job[2]]
  /\ Learned(x, "ok")
  /\ object' = IF x.job[1] = Deletion THEN [object EXCEPT ![x.job[2]] = FALSE] ELSE object
  /\ UNCHANGED <<asset, job, claims, tasks, acked, tries, events, move, consumed, seq, faults>>

\* ProviderError: the store is down, the object is gone or not what was declared.
\* A deletion that timed out may have happened.
StoreFails(x, e) ==
  /\ x.result = "none"
  /\ IF x.job[1] = Validation /\ ~object[x.job[2]] THEN NoFault ELSE Fault
  /\ Learned(x, e)
  /\ object' \in IF x.job[1] = Deletion THEN {object, [object EXCEPT ![x.job[2]] = FALSE]}
                                         ELSE {object}
  /\ UNCHANGED <<asset, job, claims, tasks, acked, tries, events, move, consumed, seq>>

Finished(x) == work' = work \ {x}
\* The answer may be lost after the commit: the queue then delivers once more.
Ack(x) == acked' \in {acked, acked \cup {[job |-> x.job, attempt |-> x.attempt]}}

\* Mutants: the asset is not looked at; a succeeded row takes the result again; the
\* first report of the attempt does not bind the second.
AcceptsAnyAsset(x) == job[x.job].attempt = x.attempt /\ job[x.job].status = "running"
AcceptsAgain(x) ==
  job[x.job].attempt = x.attempt /\ job[x.job].status \in {"running", "succeeded"}
AcceptsAnyStatus(x) == job[x.job].attempt = x.attempt

\* complete_media_*: the attempt is running, and a validated asset is PROCESSING.
Accepts(x) ==
  /\ job[x.job].attempt = x.attempt
  /\ job[x.job].status = "running"
  /\ x.job[1] = Validation => asset[x.job[2]] = "processing"

\* The result repeats the one recorded for the attempt.
SameResult(x) ==
  /\ job[x.job].attempt = x.attempt
  /\ \/ job[x.job].status = "succeeded" /\ x.result = "ok"
     \/ job[x.job].status = "failed" /\ x.result = job[x.job].err

AssetAfter(x) ==
  CASE x.job[1] = Deletion -> IF x.result = "ok" THEN "deleted" ELSE asset[x.job[2]]
    [] OTHER               -> IF x.result = "ok" THEN "ready" ELSE "failed"

\* complete_media_validation, complete_media_deletion: row, asset and event in one
\* transaction; the endpoint then answers 204.
Report(x) ==
  /\ x.result # "none" /\ Accepts(x)
  /\ job' = [job EXCEPT ![x.job] =
       IF x.result = "ok" THEN [@ EXCEPT !.status = "succeeded", !.err = "none", !.lapsed = FALSE]
                          ELSE [@ EXCEPT !.status = "failed", !.err = x.result, !.lapsed = FALSE]]
  /\ asset' = [asset EXCEPT ![x.job[2]] = AssetAfter(x)]
  /\ events' = IF x.job[1] = Deletion /\ x.result = "ok"
                 THEN [events EXCEPT ![x.job[2]] = @ + 1] ELSE events
  /\ Finished(x) /\ Ack(x)
  /\ UNCHANGED <<object, claims, tasks, tries, move, consumed, seq, faults>>

ReportReplayed(x) ==
  /\ x.result # "none" /\ SameResult(x)
  /\ Finished(x) /\ Ack(x)
  /\ UNCHANGED <<asset, object, job, claims, tasks, tries, events, move, consumed, seq, faults>>

\* BackgroundJobConflictError answers 500.
ReportConflicts(x) ==
  /\ x.result # "none" /\ ~Accepts(x) /\ ~SameResult(x)
  /\ Finished(x)
  /\ UNCHANGED <<asset, object, job, claims, tasks, acked, tries, events, move, consumed, seq, faults>>

WorkerCrashes(x) ==
  /\ Fault
  /\ Finished(x)
  /\ UNCHANGED <<asset, object, job, claims, tasks, acked, tries, events, move, consumed, seq>>

\* The clock passes execution_deadline_at, fifteen minutes: under a live worker a fault.
DeadlineLapses(j) ==
  /\ job[j].status = "running" /\ ~job[j].lapsed
  /\ IF \E x \in work : x.job = j /\ x.attempt = job[j].attempt THEN Fault ELSE NoFault
  /\ job' = [job EXCEPT ![j] = [@ EXCEPT !.lapsed = TRUE]]
  /\ UNCHANGED <<asset, object, claims, tasks, acked, tries, work, events, move, consumed, seq>>

-----------------------------------------------------------------------------
Caller ==
  \/ \E a \in Assets : CompleteUpload(a) \/ RequestRetention(a)
  \/ \E S \in SUBSET Assets : ConsumeReviewVideos(S) \/ CompleteMove(S)
  \/ RetentionElapses
  \/ \E j \in Jobs : Retry(j)

Dispatch ==
  \/ \E d \in Dispatchers, j \in Jobs : ClaimJob(d, j)
  \/ \E c \in claims : EnqueueAccepted(c) \/ Finalize(c) \/ DispatcherCrashes(c)
  \/ \E c \in claims, e \in ErrorKinds : EnqueueFails(c, e)
  \/ \E j \in Jobs : LeaseLapses(j)

Execute ==
  \/ \E t \in tasks : StartAnswersDone(t) \/ StartConflicts(t) \/ DeliveryLost(t)
  \/ \E w \in Workers, t \in tasks : StartTask(w, t)
  \/ \E x \in work : StoreAnswers(x) \/ Report(x) \/ ReportReplayed(x)
                      \/ ReportConflicts(x) \/ WorkerCrashes(x)
  \/ \E x \in work, e \in ErrorKinds : StoreFails(x, e)
  \/ \E j \in Jobs : DeadlineLapses(j)

\* media_purpose and content_type of an asset are set when its row is made.
Next == (Caller \/ Dispatch \/ Execute) /\ UNCHANGED videos
Spec == Init /\ [][Next]_vars

\* Cloud Scheduler starts a pass every minute and Cloud Tasks keeps delivering, so
\* what is enabled for good is done; operators, callers and faults owe nothing.
Fairness ==
  /\ \A j \in Jobs :
       /\ SF_moving(\E d \in Dispatchers : ClaimJob(d, j))
       /\ WF_moving(LeaseLapses(j))
       /\ WF_moving(DeadlineLapses(j))
       /\ SF_moving(\E w \in Workers, t \in tasks : t.job = j /\ StartTask(w, t))
  /\ WF_moving(\E c \in claims : EnqueueAccepted(c) \/ Finalize(c))
  /\ WF_moving(\E t \in tasks : StartAnswersDone(t) \/ StartConflicts(t))
  /\ WF_moving(\E x \in work : \/ StoreAnswers(x) \/ Report(x) \/ ReportReplayed(x) \/ ReportConflicts(x)
                            \/ \E e \in ErrorKinds : StoreFails(x, e))
  /\ WF_moving(RetentionElapses)
LiveSpec == Spec /\ Fairness

-----------------------------------------------------------------------------
(* Properties *)

\* Every variable keeps its shape.
TypeOK ==
  /\ videos \subseteq Assets
  /\ asset \in [Assets -> AssetStatus]
  /\ object \in [Assets -> BOOLEAN]
  /\ job \in [Jobs -> Row]
  /\ claims \subseteq Claim /\ tasks \subseteq Task /\ acked \subseteq Task /\ work \subseteq Work
  /\ tries \in [Jobs -> Nat]
  /\ events \in [Assets -> Nat]
  /\ move \in {"open", "completed", "retained"}
  /\ consumed \subseteq Assets
  /\ seq \in [Jobs -> Nat \ {0}] /\ faults \in Nat

\* No media is lost early: an uploaded object leaves the store only when the move's
\* retention period is over or an accepted review consumed it, whichever of the
\* creation, retry, re-dispatch and redelivery paths led to the delete call.
RetentionHonoured ==
  \A a \in Assets :
    asset[a] # "pending_upload" /\ ~object[a] => move = "retained" \/ a \in consumed

\* Why: a deletion job beyond a scheduled pending one, and a worker holding one,
\* exist only where the deletion is permitted.
Permitted(a) == move = "retained" \/ a \in consumed
DeletionPermitted ==
  /\ \A a \in Assets : LET r == job[<<Deletion, a>>] IN
       r.status \notin {"none", "pending"} \/ (r.status = "pending" /\ r.sched = "now") => Permitted(a)
  /\ \A x \in work : x.job[1] = Deletion => Permitted(x.job[2])

\* A deletion job that reports success has really removed the object, although an
\* ambiguous reply, a crash or a takeover may separate the call from the report.
SuccessMeansGone ==
  \A a \in Assets : job[<<Deletion, a>>].status = "succeeded" => ~object[a] /\ asset[a] = "deleted"

\* Why: a worker that knows of a success has seen the object go, and an asset with
\* a deletion job is past its upload, the only step that brings an object.
DeletionWorkKnows ==
  \A x \in work : x.job[1] = Deletion =>
    asset[x.job[2]] # "pending_upload" /\ (x.result = "ok" => ~object[x.job[2]])
UploadComesFirst ==
  \A a \in Assets :
    /\ job[<<Deletion, a>>].status # "none" => asset[a] # "pending_upload"
    /\ job[<<Validation, a>>].status # "none" => asset[a] # "pending_upload"

\* media_deleted.v1 is enqueued exactly once per deleted asset, however many
\* workers carried the same or successive attempts.
DeletedEventOnce ==
  \A a \in Assets : events[a] = IF job[<<Deletion, a>>].status = "succeeded" THEN 1 ELSE 0

\* The asset shown to callers and its validation job agree: an asset in PROCESSING
\* has a running attempt to leave it, and only a successful attempt makes it READY.
AssetTracksValidation ==
  \A a \in Assets :
    LET v == job[<<Validation, a>>].status IN
    /\ asset[a] = "processing" => v = "running"
    /\ asset[a] = "ready"      => v = "succeeded"
    /\ asset[a] = "uploaded"   => v \in {"pending", "dispatching", "queued", "failed"}
    /\ asset[a] = "failed"     => v \in {"pending", "dispatching", "queued", "failed"}

\* A job the table calls queued, running or finished by a worker has its task in
\* the queue: an accepted enqueue is never forgotten, a refused one never trusted.
QueuedHasTask ==
  \A j \in Jobs :
    job[j].status \in {"queued", "running", "succeeded"} => [job |-> j, attempt |-> job[j].attempt] \in tasks

\* A worker that overtook its dispatcher, a late finalize and a stale report never
\* move an attempt backwards: within an attempt a job goes dispatching, queued,
\* running, finished; a retried one leaves pending only with a new attempt.
Rank(s) == CASE s = "dispatching" -> 1 [] s = "queued" -> 2 [] s = "running" -> 3
             [] s \in Terminal -> 4 [] OTHER -> 5
AttemptMovesForward ==
  [][\A j \in Jobs :
       /\ job'[j].attempt \in {job[j].attempt, job[j].attempt + 1}
       /\ job'[j].attempt = job[j].attempt /\ job[j].status # "none"
            => Rank(job[j].status) <= Rank(job'[j].status)
       /\ job'[j].attempt # job[j].attempt => job[j].status = "pending"]_vars

\* What an attempt reported stands: a finished row changes only by an operator's
\* retry of a failure, never by the report of another worker of the attempt, and no
\* validation, retry or report that was under way when an asset was hidden or
\* deleted brings it back.
OutcomeStands ==
  [][/\ \A j \in Jobs :
         /\ job[j].status = "succeeded" => job'[j].status = "succeeded"
         /\ job[j].status = "failed" =>
              job'[j].status = "pending" \/ (job'[j].status = "failed" /\ job'[j].err = job[j].err)
     /\ \A a \in Assets : asset[a] = "deleted" => asset'[a] = "deleted"]_vars

\* A due job does not rot: as long as fewer deliveries fail than the queue makes,
\* it finishes, or its worker died and the operator can retry it, or its asset was
\* deleted while it waited.
DueJobsSettle ==
  \A j \in Jobs :
    (job[j].status = "pending" /\ Due(j)) ~>
      \/ job[j].status \in Terminal
      \/ job[j].status = "running" /\ job[j].lapsed
      \/ asset[j[2]] = "deleted"

\* A task whose deliveries are exhausted.
Exhausted(j) ==
  /\ [job |-> j, attempt |-> job[j].attempt] \in tasks \ acked
  /\ tries[j] >= MaxDeliveries
  /\ job[j].status \notin Terminal \cup {"pending"}
  /\ \A x \in work : x.job # j
  /\ \A c \in claims : c.job # j

\* TECH_STACK.md: the operator can re-run every task whose retries are exhausted.
\* retry_background_job accepts failed and running rows only.
ExhaustedCanBeRetried ==
  \A j \in Jobs : Exhausted(j) => job[j].status \in {"failed", "running"}

=============================================================================
