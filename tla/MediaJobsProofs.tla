-------------------------- MODULE MediaJobsProofs --------------------------
(***************************************************************************)
(* Theorems about MediaJobs, for every set of assets, dispatchers, workers *)
(* and error kinds and every bound.                                        *)
(***************************************************************************)
EXTENDS MediaJobs, TLAPS

-----------------------------------------------------------------------------
(* Type correctness *)

\* A job is a pair of a job type and an asset.
LEMMA JobParts ==
  ASSUME NEW j \in Jobs
  PROVE /\ j[1] \in {Validation, Deletion}
        /\ j[2] \in Assets
        /\ j = <<j[1], j[2]>>
        /\ j[1] = Deletion => j = <<Deletion, j[2]>>
        /\ j[1] = Validation => j = <<Validation, j[2]>>
  BY DEF Jobs

LEMMA JobNames ==
  /\ Validation # Deletion
  /\ \A a \in Assets : <<Validation, a>> \in Jobs /\ <<Deletion, a>> \in Jobs
  /\ \A j \in Jobs : j[1] = Deletion <=> j = <<Deletion, j[2]>>
  BY DEF Jobs, Validation, Deletion

\* Creating a job yields a row, whether it is new or was there.
LEMMA CreatedType ==
  ASSUME TypeOK, NEW j \in Jobs, NEW s \in {"now", "retention"}
  PROVE Created(j, s) \in Row
  <1>1. job[j] \in Row
    BY DEF TypeOK
  <1>2. NoRow \in Row
    BY DEF NoRow, Row, JobStatus
  <1>3. [NoRow EXCEPT !.status = "pending", !.sched = s] \in Row
    BY <1>2 DEF Row, JobStatus
  <1> QED
    BY <1>1, <1>3 DEF Created

LEMMA InitType == Init => TypeOK
  BY DEF Init, TypeOK, Row, NoRow, JobStatus, AssetStatus

LEMMA CallerType == TypeOK /\ UNCHANGED videos /\ Caller => TypeOK'
  <1> SUFFICES ASSUME TypeOK, UNCHANGED videos, Caller
               PROVE  TypeOK'
    OBVIOUS
  <1>1. ASSUME NEW a \in Assets, CompleteUpload(a)
        PROVE  TypeOK'
    <2>1. Created(<<Validation, a>>, "now") \in Row
      BY CreatedType, JobNames
    <2> QED
      BY <1>1, <2>1 DEF CompleteUpload, TypeOK, AssetStatus
  <1>2. ASSUME NEW a \in Assets, RequestRetention(a)
        PROVE  TypeOK'
    <2>1. Created(<<Deletion, a>>, "now") \in Row
      BY CreatedType, JobNames
    <2> QED
      BY <1>2, <2>1 DEF RequestRetention, TypeOK
  <1>3. ASSUME NEW S \in SUBSET Assets, ConsumeReviewVideos(S)
        PROVE  TypeOK'
    <2>1. \A j \in Jobs : Created(j, "now") \in Row /\ job[j] \in Row
      BY CreatedType DEF TypeOK
    <2>2. job' \in [Jobs -> Row]
      BY <1>3, <2>1 DEF ConsumeReviewVideos
    <2>3. asset' \in [Assets -> AssetStatus]
      BY <1>3 DEF ConsumeReviewVideos, TypeOK, AssetStatus
    <2> QED
      BY <1>3, <2>2, <2>3 DEF ConsumeReviewVideos, TypeOK
  <1>4. ASSUME NEW S \in SUBSET Assets, CompleteMove(S)
        PROVE  TypeOK'
    <2>1. \A j \in Jobs : Created(j, "retention") \in Row /\ job[j] \in Row
      BY CreatedType DEF TypeOK
    <2>2. job' \in [Jobs -> Row]
      BY <1>4, <2>1 DEF CompleteMove
    <2> QED
      BY <1>4, <2>2 DEF CompleteMove, TypeOK
  <1>5. CASE RetentionElapses
    BY <1>5 DEF RetentionElapses, TypeOK
  <1>6. ASSUME NEW j \in Jobs, Retry(j)
        PROVE  TypeOK'
    <2>1. [job[j] EXCEPT !.status = "pending", !.sched = "now", !.taskId = 0,
                         !.err = "none", !.lapsed = FALSE] \in Row
      BY DEF TypeOK, Row, JobStatus
    <2>2. asset' \in [Assets -> AssetStatus]
      BY <1>6, JobParts DEF Retry, RetriedAsset, TypeOK, AssetStatus
    <2> QED
      BY <1>6, <2>1, <2>2 DEF Retry, TypeOK
  <1> QED
    BY <1>1, <1>2, <1>3, <1>4, <1>5, <1>6 DEF Caller

LEMMA DispatchType == TypeOK /\ UNCHANGED videos /\ Dispatch => TypeOK'
  <1> SUFFICES ASSUME TypeOK, UNCHANGED videos, Dispatch
               PROVE  TypeOK'
    OBVIOUS
  <1>1. ASSUME NEW d \in Dispatchers, NEW j \in Jobs, ClaimJob(d, j)
        PROVE  TypeOK'
    <2>1. job[j] \in Row /\ seq[j] \in Nat /\ job[j].attempt \in Nat
      BY DEF TypeOK, Row
    <2>2. (IF job[j].status = "pending" THEN job[j].attempt + 1 ELSE job[j].attempt) \in Nat
      BY <2>1
    <2>3. Leased(j) \in Row
      BY <2>1, <2>2 DEF Leased, Row, JobStatus
    <2>4. job' \in [Jobs -> Row]
      BY <1>1, <2>3 DEF ClaimJob, TypeOK
    <2>5. claims' \subseteq Claim
      BY <1>1, <2>1, <2>3 DEF ClaimJob, TypeOK, Claim, Row
    <2> QED
      BY <1>1, <2>1, <2>4, <2>5 DEF ClaimJob, TypeOK
  <1>2. ASSUME NEW c \in claims, EnqueueAccepted(c)
        PROVE  TypeOK'
    <2>1. claims' \subseteq Claim
      BY <1>2 DEF EnqueueAccepted, Replied, TypeOK, Claim
    <2>2. tasks' \subseteq Task
      BY <1>2 DEF EnqueueAccepted, TypeOK, Claim, Task
    <2> QED
      BY <1>2, <2>1, <2>2 DEF EnqueueAccepted, TypeOK
  <1>3. ASSUME NEW c \in claims, NEW e \in ErrorKinds, EnqueueFails(c, e)
        PROVE  TypeOK'
    <2>1. claims' \subseteq Claim
      BY <1>3 DEF EnqueueFails, Replied, TypeOK, Claim
    <2>2. tasks' \subseteq Task
      BY <1>3 DEF EnqueueFails, TypeOK, Claim, Task
    <2> QED
      BY <1>3, <2>1, <2>2 DEF EnqueueFails, Fault, TypeOK
  <1>4. ASSUME NEW c \in claims, Finalize(c)
        PROVE  TypeOK'
    <2>1. c \in Claim /\ c.job \in Jobs /\ c.attempt \in Nat /\ job[c.job] \in Row
      BY DEF TypeOK, Claim
    <2>2. c.reply = "ok" \/ c.reply \in ErrorKinds
      BY <1>4, <2>1 DEF Finalize, Claim
    <2>3. FinalizedRow(c) \in Row
      BY <2>1, <2>2 DEF FinalizedRow, Row, JobStatus
    <2> QED
      BY <1>4, <2>1, <2>3 DEF Finalize, TypeOK
  <1>5. ASSUME NEW c \in claims, DispatcherCrashes(c)
        PROVE  TypeOK'
    BY <1>5 DEF DispatcherCrashes, Fault, TypeOK
  <1>6. ASSUME NEW j \in Jobs, LeaseLapses(j)
        PROVE  TypeOK'
    <2>1. [job[j] EXCEPT !.lapsed = TRUE] \in Row
      BY DEF TypeOK, Row
    <2> QED
      BY <1>6, <2>1 DEF LeaseLapses, Fault, NoFault, TypeOK
  <1> QED
    BY <1>1, <1>2, <1>3, <1>4, <1>5, <1>6 DEF Dispatch

LEMMA ExecuteType == TypeOK /\ UNCHANGED videos /\ Execute => TypeOK'
  <1> SUFFICES ASSUME TypeOK, UNCHANGED videos, Execute
               PROVE  TypeOK'
    OBVIOUS
  <1>1. ASSUME NEW t \in tasks, StartAnswersDone(t) \/ StartConflicts(t) \/ DeliveryLost(t)
        PROVE  TypeOK'
    <2>1. t \in Task /\ t.job \in Jobs
      BY DEF TypeOK, Task
    <2> QED
      BY <1>1, <2>1 DEF StartAnswersDone, StartConflicts, DeliveryLost, Delivered, Fault, TypeOK
  <1>2. ASSUME NEW w \in Workers, NEW t \in tasks, StartTask(w, t)
        PROVE  TypeOK'
    <2>1. t.job \in Jobs /\ t.attempt \in Nat /\ job[t.job] \in Row
      BY DEF TypeOK, Task
    <2>2. [job[t.job] EXCEPT !.status = "running", !.token = 0, !.lapsed = FALSE] \in Row
      BY <2>1 DEF Row, JobStatus
    <2>3. job' \in [Jobs -> Row]
      BY <1>2, <2>1, <2>2 DEF StartTask, TypeOK
    <2>4. asset' \in [Assets -> AssetStatus]
      BY <1>2, <2>1, JobParts DEF StartTask, TypeOK, AssetStatus
    <2>5. work' \subseteq Work
      BY <1>2, <2>1 DEF StartTask, TypeOK, Work
    <2>6. tries' \in [Jobs -> Nat]
      BY <1>2, <2>1 DEF StartTask, Delivered, TypeOK
    <2>7. UNCHANGED <<videos, object, claims, tasks, acked, events, move, consumed, seq, faults>>
      BY <1>2 DEF StartTask
    <2> QED
      BY <2>3, <2>4, <2>5, <2>6, <2>7 DEF TypeOK
  <1>3. ASSUME NEW x \in work,
               StoreAnswers(x) \/ \E e \in ErrorKinds : StoreFails(x, e)
        PROVE  TypeOK'
    <2>1. x \in Work /\ x.job \in Jobs /\ x.job[2] \in Assets
      BY JobParts DEF TypeOK, Work
    <2>2. PICK r \in {"ok"} \cup ErrorKinds : work' = (work \ {x}) \cup {[x EXCEPT !.result = r]}
      BY <1>3 DEF StoreAnswers, StoreFails, Learned
    <2>3. work' \subseteq Work
      BY <2>1, <2>2 DEF TypeOK, Work
    <2>4. object' \in [Assets -> BOOLEAN]
      BY <1>3, <2>1 DEF StoreAnswers, StoreFails, TypeOK
    <2>5. faults' \in Nat
      BY <1>3 DEF StoreAnswers, StoreFails, Fault, NoFault, TypeOK
    <2> QED
      BY <1>3, <2>3, <2>4, <2>5 DEF StoreAnswers, StoreFails, TypeOK
  <1>4. ASSUME NEW x \in work, Report(x)
        PROVE  TypeOK'
    <2>1. x \in Work /\ x.job \in Jobs /\ x.job[2] \in Assets /\ job[x.job] \in Row
      BY JobParts DEF TypeOK, Work
    <2>2. x.result = "ok" \/ x.result \in ErrorKinds
      BY <1>4, <2>1 DEF Report, Work
    <2>3. job' \in [Jobs -> Row]
      <3>1. [job[x.job] EXCEPT !.status = "succeeded", !.err = "none", !.lapsed = FALSE] \in Row
        BY <2>1 DEF Row, JobStatus
      <3>2. x.result # "ok" =>
              [job[x.job] EXCEPT !.status = "failed", !.err = x.result, !.lapsed = FALSE] \in Row
        BY <2>1, <2>2 DEF Row, JobStatus
      <3> QED
        BY <1>4, <2>1, <3>1, <3>2 DEF Report, TypeOK
    <2>4. AssetAfter(x) \in AssetStatus
      BY <2>1 DEF AssetAfter, TypeOK, AssetStatus
    <2>5. asset' \in [Assets -> AssetStatus]
      BY <1>4, <2>1, <2>4 DEF Report, TypeOK
    <2>6. events' \in [Assets -> Nat]
      BY <1>4, <2>1 DEF Report, TypeOK
    <2>7. acked' \subseteq Task /\ work' \subseteq Work
      BY <1>4, <2>1 DEF Report, Ack, Finished, TypeOK, Work, Task
    <2> QED
      BY <1>4, <2>3, <2>5, <2>6, <2>7 DEF Report, TypeOK
  <1>5. ASSUME NEW x \in work, ReportReplayed(x) \/ ReportConflicts(x) \/ WorkerCrashes(x)
        PROVE  TypeOK'
    <2>1. [job |-> x.job, attempt |-> x.attempt] \in Task
      BY DEF TypeOK, Work, Task
    <2> QED
      BY <1>5, <2>1 DEF ReportReplayed, ReportConflicts, WorkerCrashes, Finished, Ack, Fault, TypeOK
  <1>6. ASSUME NEW j \in Jobs, DeadlineLapses(j)
        PROVE  TypeOK'
    <2>1. [job[j] EXCEPT !.lapsed = TRUE] \in Row
      BY DEF TypeOK, Row
    <2> QED
      BY <1>6, <2>1 DEF DeadlineLapses, Fault, NoFault, TypeOK
  <1> QED
    BY <1>1, <1>2, <1>3, <1>4, <1>5, <1>6 DEF Execute

LEMMA StepType == TypeOK /\ [Next]_vars => TypeOK'
  <1>1. TypeOK /\ UNCHANGED vars => TypeOK'
    BY DEF vars, moving, TypeOK
  <1> QED
    BY <1>1, CallerType, DispatchType, ExecuteType DEF Next

\* Type correctness of the job table, the assets and the in-flight work of
\* background_job/service.py.
THEOREM TypeCorrect == Spec => []TypeOK
  BY InitType, StepType, PTL DEF Spec
-----------------------------------------------------------------------------
(* Safety *)

\* The inductive invariant: the properties and the reasons they hold.
Safe == /\ TypeOK
        /\ RetentionHonoured /\ DeletionPermitted
        /\ SuccessMeansGone /\ DeletionWorkKnows /\ UploadComesFirst
        /\ DeletedEventOnce /\ AssetTracksValidation

\* Every job is the validation or the deletion of an asset.
LEMMA JobCases ==
  ASSUME NEW j \in Jobs
  PROVE \E b \in Assets : j = <<Validation, b>> \/ j = <<Deletion, b>>
  BY DEF Jobs

LEMMA WorkJobs == Safe => \A x \in work : x.job \in Jobs
  BY DEF Safe, TypeOK, Work

LEMMA TaskJobs == Safe => \A t \in tasks : t.job \in Jobs
  BY DEF Safe, TypeOK, Task

\* What the actions on one job do to it and to its asset.
LEMMA ReportValidation ==
  ASSUME TypeOK, NEW b \in Assets, NEW x \in work, Report(x), x.job = <<Validation, b>>
  PROVE  /\ asset[b] = "processing" /\ UNCHANGED <<events, object, move, consumed>> /\ work' \subseteq work
         /\ \A a \in Assets : job'[<<Deletion, a>>] = job[<<Deletion, a>>]
         /\ \A a \in Assets \ {b} : job'[<<Validation, a>>] = job[<<Validation, a>>]
         /\ asset'[b] = IF x.result = "ok" THEN "ready" ELSE "failed"
         /\ \A a \in Assets \ {b} : asset'[a] = asset[a]
         /\ job'[<<Validation, b>>].status = IF x.result = "ok" THEN "succeeded" ELSE "failed"
  <1> DEFINE k == <<Validation, b>>
  <1>1. k \in Jobs /\ k[1] = Validation /\ k[2] = b /\ Validation # Deletion
    BY JobNames
  <1>2. /\ job \in [Jobs -> Row] /\ asset \in [Assets -> AssetStatus] /\ job[k] \in Row
        /\ events \in [Assets -> Nat]
    BY <1>1 DEF TypeOK
  <1>3. /\ asset[b] = "processing" /\ UNCHANGED <<events, object, move, consumed>> /\ work' \subseteq work
        /\ asset' = [asset EXCEPT ![b] = IF x.result = "ok" THEN "ready" ELSE "failed"]
    BY <1>1 DEF Report, Accepts, AssetAfter, Finished
  <1>4. job' = [job EXCEPT ![k] = IF x.result = "ok" THEN [job[k] EXCEPT !.status = "succeeded", !.err = "none", !.lapsed = FALSE]
                          ELSE [job[k] EXCEPT !.status = "failed", !.err = x.result, !.lapsed = FALSE]]
    BY <1>1 DEF Report
  <1>5. job'[k] = IF x.result = "ok" THEN [job[k] EXCEPT !.status = "succeeded", !.err = "none", !.lapsed = FALSE]
                          ELSE [job[k] EXCEPT !.status = "failed", !.err = x.result, !.lapsed = FALSE]
    BY <1>1, <1>2, <1>4
  <1>6. job'[k].status = IF x.result = "ok" THEN "succeeded" ELSE "failed"
    BY <1>2, <1>5 DEF Row
  <1>7. \A a \in Assets : job'[<<Deletion, a>>] = job[<<Deletion, a>>]
    <2> HIDE DEF k
    <2>1. \A a \in Assets : <<Deletion, a>> # k
      BY <1>1 DEF k
    <2> QED
      BY <2>1, <1>2, <1>4, JobNames
  <1>8. \A a \in Assets \ {b} : job'[<<Validation, a>>] = job[<<Validation, a>>]
    BY <1>1, <1>2, <1>4, JobNames
  <1> QED
    BY <1>1, <1>2, <1>3, <1>6, <1>7, <1>8

LEMMA RetryValidation ==
  ASSUME TypeOK, NEW b \in Assets, Retry(<<Validation, b>>)
  PROVE  /\ UNCHANGED <<object, work, events, move, consumed>>
         /\ \A a \in Assets : job'[<<Deletion, a>>] = job[<<Deletion, a>>]
         /\ \A a \in Assets \ {b} : job'[<<Validation, a>>] = job[<<Validation, a>>]
         /\ job'[<<Validation, b>>].status = "pending"
         /\ \/ asset' = asset /\ job[<<Validation, b>>].status = "failed"
            \/ /\ asset'[b] = "failed" /\ asset[b] = "processing"
               /\ \A a \in Assets \ {b} : asset'[a] = asset[a]
  <1> DEFINE k == <<Validation, b>>
  <1>1. k \in Jobs /\ k[1] = Validation /\ k[2] = b /\ Validation # Deletion
    BY JobNames
  <1>2. /\ job \in [Jobs -> Row] /\ asset \in [Assets -> AssetStatus] /\ job[k] \in Row
        /\ events \in [Assets -> Nat]
    BY <1>1 DEF TypeOK
  <1>3. /\ UNCHANGED <<object, work, events, move, consumed>>
        /\ \/ asset' = asset /\ job[k].status = "failed"
           \/ asset' = [asset EXCEPT ![b] = "failed"] /\ asset[b] = "processing"
    BY <1>1 DEF Retry, Retryable, RetriedAsset, Expired
  <1>4. job' = [job EXCEPT ![k] = [job[k] EXCEPT !.status = "pending", !.sched = "now", !.taskId = 0,
                                !.err = "none", !.lapsed = FALSE]]
    BY <1>1 DEF Retry
  <1>5. job'[k] = [job[k] EXCEPT !.status = "pending", !.sched = "now", !.taskId = 0,
                                !.err = "none", !.lapsed = FALSE]
    BY <1>1, <1>2, <1>4
  <1>6. job'[k].status = "pending"
    BY <1>2, <1>5 DEF Row
  <1>7. \A a \in Assets : job'[<<Deletion, a>>] = job[<<Deletion, a>>]
    <2> HIDE DEF k
    <2>1. \A a \in Assets : <<Deletion, a>> # k
      BY <1>1 DEF k
    <2> QED
      BY <2>1, <1>2, <1>4, JobNames
  <1>8. \A a \in Assets \ {b} : job'[<<Validation, a>>] = job[<<Validation, a>>]
    BY <1>1, <1>2, <1>4, JobNames
  <1> QED
    BY <1>1, <1>2, <1>3, <1>6, <1>7, <1>8

LEMMA StartValidation ==
  ASSUME TypeOK, NEW b \in Assets, NEW w \in Workers, NEW t \in tasks, StartTask(w, t), t.job = <<Validation, b>>
  PROVE  /\ UNCHANGED <<object, events, move, consumed>>
         /\ work' = work \cup {[by |-> w, job |-> <<Validation, b>>, attempt |-> t.attempt, result |-> "none"]}
         /\ \A a \in Assets : job'[<<Deletion, a>>] = job[<<Deletion, a>>]
         /\ \A a \in Assets \ {b} : job'[<<Validation, a>>] = job[<<Validation, a>>]
         /\ \/ job[<<Validation, b>>].status = "running" /\ UNCHANGED <<job, asset>>
            \/ /\ job[<<Validation, b>>].status \in {"dispatching", "queued"} /\ job'[<<Validation, b>>].status = "running"
               /\ asset[b] \in {"uploaded", "failed"} /\ asset'[b] = "processing"
               /\ \A a \in Assets \ {b} : asset'[a] = asset[a]
  <1> DEFINE k == <<Validation, b>>
  <1>1. k \in Jobs /\ k[1] = Validation /\ k[2] = b /\ Validation # Deletion
    BY JobNames
  <1>2. /\ job \in [Jobs -> Row] /\ asset \in [Assets -> AssetStatus] /\ job[k] \in Row
        /\ events \in [Assets -> Nat]
    BY <1>1 DEF TypeOK
  <1>3. /\ UNCHANGED <<object, events, move, consumed>>
         /\ work' = work \cup {[by |-> w, job |-> <<Validation, b>>, attempt |-> t.attempt, result |-> "none"]}
    BY <1>1 DEF StartTask
  <1>4. CASE job[k].status = "running"
    BY <1>1, <1>2, <1>3, <1>4, JobNames DEF StartTask
  <1>5. CASE job[k].status # "running"
    <2>1. job' = [job EXCEPT ![k] = [job[k] EXCEPT !.status = "running", !.token = 0, !.lapsed = FALSE]]
      BY <1>1, <1>5 DEF StartTask
    <2>2. job'[k] = [job[k] EXCEPT !.status = "running", !.token = 0, !.lapsed = FALSE]
      BY <1>1, <1>2, <2>1
    <2>3. job'[k].status = "running"
      BY <1>2, <2>2 DEF Row
    <2>4. /\ job[k].status \in {"dispatching", "queued"}
          /\ asset[b] \in {"uploaded", "failed"} /\ asset' = [asset EXCEPT ![b] = "processing"]
      BY <1>1, <1>5 DEF StartTask, Startable
    <2>5. \A a \in Assets : job'[<<Deletion, a>>] = job[<<Deletion, a>>]
      <3> HIDE DEF k
      <3>1. \A a \in Assets : <<Deletion, a>> # k
        BY <1>1 DEF k
      <3> QED
        BY <3>1, <1>2, <2>1, JobNames
    <2>6. \A a \in Assets \ {b} : job'[<<Validation, a>>] = job[<<Validation, a>>]
      BY <1>1, <1>2, <2>1, JobNames
    <2> QED
      BY <1>2, <1>3, <2>3, <2>4, <2>5, <2>6
  <1> QED
    BY <1>4, <1>5

LEMMA ReportDeletion ==
  ASSUME TypeOK, NEW b \in Assets, NEW x \in work, Report(x), x.job = <<Deletion, b>>
  PROVE  /\ job[<<Deletion, b>>].status = "running" /\ UNCHANGED <<object, move, consumed>> /\ work' \subseteq work
         /\ \A a \in Assets : job'[<<Validation, a>>] = job[<<Validation, a>>]
         /\ \A a \in Assets \ {b} : job'[<<Deletion, a>>] = job[<<Deletion, a>>]
         /\ asset'[b] = IF x.result = "ok" THEN "deleted" ELSE asset[b]
         /\ events'[b] = IF x.result = "ok" THEN events[b] + 1 ELSE events[b]
         /\ \A a \in Assets \ {b} : asset'[a] = asset[a] /\ events'[a] = events[a]
         /\ job'[<<Deletion, b>>].status = IF x.result = "ok" THEN "succeeded" ELSE "failed"
  <1> DEFINE k == <<Deletion, b>>
  <1>1. k \in Jobs /\ k[1] = Deletion /\ k[2] = b /\ Validation # Deletion
    BY JobNames
  <1>2. /\ job \in [Jobs -> Row] /\ asset \in [Assets -> AssetStatus] /\ job[k] \in Row
        /\ events \in [Assets -> Nat]
    BY <1>1 DEF TypeOK
  <1>3. /\ job[k].status = "running" /\ UNCHANGED <<object, move, consumed>> /\ work' \subseteq work
        /\ asset' = [asset EXCEPT ![b] = IF x.result = "ok" THEN "deleted" ELSE asset[b]]
        /\ events' = IF x.result = "ok" THEN [events EXCEPT ![b] = @ + 1] ELSE events
    BY <1>1 DEF Report, Accepts, AssetAfter, Finished
  <1>4. job' = [job EXCEPT ![k] = IF x.result = "ok" THEN [job[k] EXCEPT !.status = "succeeded", !.err = "none", !.lapsed = FALSE]
                          ELSE [job[k] EXCEPT !.status = "failed", !.err = x.result, !.lapsed = FALSE]]
    BY <1>1 DEF Report
  <1>5. job'[k] = IF x.result = "ok" THEN [job[k] EXCEPT !.status = "succeeded", !.err = "none", !.lapsed = FALSE]
                          ELSE [job[k] EXCEPT !.status = "failed", !.err = x.result, !.lapsed = FALSE]
    BY <1>1, <1>2, <1>4
  <1>6. job'[k].status = IF x.result = "ok" THEN "succeeded" ELSE "failed"
    BY <1>2, <1>5 DEF Row
  <1>7. \A a \in Assets : job'[<<Validation, a>>] = job[<<Validation, a>>]
    <2> HIDE DEF k
    <2>1. \A a \in Assets : <<Validation, a>> # k
      BY <1>1 DEF k
    <2> QED
      BY <2>1, <1>2, <1>4, JobNames
  <1>8. \A a \in Assets \ {b} : job'[<<Deletion, a>>] = job[<<Deletion, a>>]
    BY <1>1, <1>2, <1>4, JobNames
  <1> QED
    BY <1>1, <1>2, <1>3, <1>6, <1>7, <1>8

LEMMA RetryDeletion ==
  ASSUME TypeOK, NEW b \in Assets, Retry(<<Deletion, b>>)
  PROVE  /\ UNCHANGED <<object, work, events, move, consumed>> /\ asset' = asset
         /\ \A a \in Assets : job'[<<Validation, a>>] = job[<<Validation, a>>]
         /\ \A a \in Assets \ {b} : job'[<<Deletion, a>>] = job[<<Deletion, a>>]
         /\ job[<<Deletion, b>>].status \in {"running", "failed"}
         /\ job'[<<Deletion, b>>].status = "pending"
  <1> DEFINE k == <<Deletion, b>>
  <1>1. k \in Jobs /\ k[1] = Deletion /\ k[2] = b /\ Validation # Deletion
    BY JobNames
  <1>2. /\ job \in [Jobs -> Row] /\ asset \in [Assets -> AssetStatus] /\ job[k] \in Row
        /\ events \in [Assets -> Nat]
    BY <1>1 DEF TypeOK
  <1>3. /\ UNCHANGED <<object, work, events, move, consumed>> /\ asset' = asset
        /\ job[k].status \in {"running", "failed"}
    BY <1>1 DEF Retry, Retryable, RetriedAsset, Expired
  <1>4. job' = [job EXCEPT ![k] = [job[k] EXCEPT !.status = "pending", !.sched = "now", !.taskId = 0,
                                !.err = "none", !.lapsed = FALSE]]
    BY <1>1 DEF Retry
  <1>5. job'[k] = [job[k] EXCEPT !.status = "pending", !.sched = "now", !.taskId = 0,
                                !.err = "none", !.lapsed = FALSE]
    BY <1>1, <1>2, <1>4
  <1>6. job'[k].status = "pending"
    BY <1>2, <1>5 DEF Row
  <1>7. \A a \in Assets : job'[<<Validation, a>>] = job[<<Validation, a>>]
    <2> HIDE DEF k
    <2>1. \A a \in Assets : <<Validation, a>> # k
      BY <1>1 DEF k
    <2> QED
      BY <2>1, <1>2, <1>4, JobNames
  <1>8. \A a \in Assets \ {b} : job'[<<Deletion, a>>] = job[<<Deletion, a>>]
    BY <1>1, <1>2, <1>4, JobNames
  <1> QED
    BY <1>1, <1>2, <1>3, <1>6, <1>7, <1>8

LEMMA StartDeletion ==
  ASSUME TypeOK, NEW b \in Assets, NEW w \in Workers, NEW t \in tasks, StartTask(w, t), t.job = <<Deletion, b>>
  PROVE  /\ UNCHANGED <<object, events, move, consumed>>
         /\ work' = work \cup {[by |-> w, job |-> <<Deletion, b>>, attempt |-> t.attempt, result |-> "none"]}
         /\ \A a \in Assets : job'[<<Validation, a>>] = job[<<Validation, a>>]
         /\ \A a \in Assets \ {b} : job'[<<Deletion, a>>] = job[<<Deletion, a>>]
         /\ \/ job[<<Deletion, b>>].status = "running" /\ UNCHANGED <<job, asset>>
            \/ /\ job[<<Deletion, b>>].status \in {"dispatching", "queued"} /\ job'[<<Deletion, b>>].status = "running"
               /\ asset' = asset
  <1> DEFINE k == <<Deletion, b>>
  <1>1. k \in Jobs /\ k[1] = Deletion /\ k[2] = b /\ Validation # Deletion
    BY JobNames
  <1>2. /\ job \in [Jobs -> Row] /\ asset \in [Assets -> AssetStatus] /\ job[k] \in Row
        /\ events \in [Assets -> Nat]
    BY <1>1 DEF TypeOK
  <1>3. /\ UNCHANGED <<object, events, move, consumed>>
         /\ work' = work \cup {[by |-> w, job |-> <<Deletion, b>>, attempt |-> t.attempt, result |-> "none"]}
    BY <1>1 DEF StartTask
  <1>4. CASE job[k].status = "running"
    BY <1>1, <1>2, <1>3, <1>4, JobNames DEF StartTask
  <1>5. CASE job[k].status # "running"
    <2>1. job' = [job EXCEPT ![k] = [job[k] EXCEPT !.status = "running", !.token = 0, !.lapsed = FALSE]]
      BY <1>1, <1>5 DEF StartTask
    <2>2. job'[k] = [job[k] EXCEPT !.status = "running", !.token = 0, !.lapsed = FALSE]
      BY <1>1, <1>2, <2>1
    <2>3. job'[k].status = "running"
      BY <1>2, <2>2 DEF Row
    <2>4. /\ job[k].status \in {"dispatching", "queued"}
          /\ asset' = asset
      BY <1>1, <1>5 DEF StartTask, Startable
    <2>5. \A a \in Assets : job'[<<Validation, a>>] = job[<<Validation, a>>]
      <3> HIDE DEF k
      <3>1. \A a \in Assets : <<Validation, a>> # k
        BY <1>1 DEF k
      <3> QED
        BY <3>1, <1>2, <2>1, JobNames
    <2>6. \A a \in Assets \ {b} : job'[<<Deletion, a>>] = job[<<Deletion, a>>]
      BY <1>1, <1>2, <2>1, JobNames
    <2> QED
      BY <1>2, <1>3, <2>3, <2>4, <2>5, <2>6
  <1> QED
    BY <1>4, <1>5

LEMMA InitSafe == Init => Safe
  <1> SUFFICES ASSUME Init PROVE Safe
    OBVIOUS
  <1>1. \A j \in Jobs : job[j].status = "none"
    BY DEF Init, NoRow
  <1> QED
    BY <1>1, InitType, JobNames DEF Init, Safe, RetentionHonoured, DeletionPermitted, SuccessMeansGone,
       DeletionWorkKnows, UploadComesFirst, DeletedEventOnce, AssetTracksValidation

LEMMA CallerSafe == Safe /\ TypeOK' /\ Caller => Safe'
  <1> SUFFICES ASSUME Safe, TypeOK', Caller
               PROVE  Safe'
    OBVIOUS
  <1>1. ASSUME NEW a \in Assets, CompleteUpload(a)
        PROVE  Safe'
    <2>1. /\ job'[<<Validation, a>>].status = "pending"
          /\ \A k \in Jobs : k # <<Validation, a>> => job'[k] = job[k]
      BY <1>1, JobNames DEF CompleteUpload, Created, NoRow, Safe, TypeOK, Row, UploadComesFirst
    <2>2. /\ asset[a] = "pending_upload" /\ asset'[a] = "uploaded" /\ object'[a]
          /\ \A b \in Assets \ {a} : asset'[b] = asset[b] /\ object'[b] = object[b]
          /\ UNCHANGED <<work, events, move, consumed>>
      BY <1>1 DEF CompleteUpload, Safe, TypeOK
    <2>3. \A x \in work : x.job[2] \in Assets
      BY JobParts DEF Safe, TypeOK, Work
    <2>4. RetentionHonoured'
      BY <2>1, <2>2, <2>3, JobNames DEF Permitted, Safe, RetentionHonoured
    <2>5. DeletionPermitted'
      BY <2>1, <2>2, <2>3, JobNames DEF Permitted, Safe, DeletionPermitted
    <2>6. SuccessMeansGone'
      BY <2>1, <2>2, <2>3, JobNames DEF Safe, SuccessMeansGone
    <2>7. DeletionWorkKnows'
      BY <2>1, <2>2, <2>3, JobNames DEF Safe, DeletionWorkKnows
    <2>8. UploadComesFirst'
      BY <2>1, <2>2, <2>3, JobNames DEF Safe, UploadComesFirst
    <2>9. DeletedEventOnce'
      BY <2>1, <2>2, <2>3, JobNames DEF Safe, DeletedEventOnce
    <2>10. AssetTracksValidation'
      BY <2>1, <2>2, <2>3, JobNames DEF Safe, AssetTracksValidation
    <2> QED
      BY <2>4, <2>5, <2>6, <2>7, <2>8, <2>9, <2>10 DEF Safe
  <1>2. ASSUME NEW a \in Assets, RequestRetention(a)
        PROVE  Safe'
    <2>1. /\ job'[<<Deletion, a>>].status = "pending" /\ job[<<Deletion, a>>].status = "none"
          /\ \A k \in Jobs : k # <<Deletion, a>> => job'[k] = job[k]
      BY <1>2, JobNames DEF RequestRetention, Created, NoRow, Safe, TypeOK
    <2>2. asset[a] # "pending_upload" /\ move = "retained" /\ UNCHANGED <<asset, object, work, events, move, consumed>>
      BY <1>2 DEF RequestRetention, Deletable
    <2>3. RetentionHonoured'
      BY <2>1, <2>2, JobNames DEF Permitted, Safe, RetentionHonoured
    <2>4. DeletionPermitted'
      BY <2>1, <2>2, JobNames DEF Permitted, Safe, DeletionPermitted
    <2>5. SuccessMeansGone'
      BY <2>1, <2>2, JobNames DEF Safe, SuccessMeansGone
    <2>6. DeletionWorkKnows'
      BY <2>1, <2>2, JobNames DEF Safe, DeletionWorkKnows
    <2>7. UploadComesFirst'
      BY <2>1, <2>2, JobNames DEF Safe, UploadComesFirst
    <2>8. DeletedEventOnce'
      BY <2>1, <2>2, JobNames DEF Safe, DeletedEventOnce
    <2>9. AssetTracksValidation'
      BY <2>1, <2>2, JobNames DEF Safe, AssetTracksValidation
    <2> QED
      BY <2>3, <2>4, <2>5, <2>6, <2>7, <2>8, <2>9 DEF Safe
  <1>3. ASSUME NEW S \in SUBSET Assets, ConsumeReviewVideos(S)
        PROVE  Safe'
    <2>1. \A a \in Assets : job'[<<Validation, a>>] = job[<<Validation, a>>]
      BY <1>3, JobNames DEF ConsumeReviewVideos, Safe, TypeOK
    <2>2. \A a \in Assets : \/ job'[<<Deletion, a>>] = job[<<Deletion, a>>]
                             \/ /\ a \in S /\ job[<<Deletion, a>>].status = "none"
                                /\ job'[<<Deletion, a>>].status = "pending"
      BY <1>3, JobNames DEF ConsumeReviewVideos, Created, NoRow, Safe, TypeOK
    <2>3. /\ asset' = [a \in Assets |-> IF a \in S THEN "deleted" ELSE asset[a]]
          /\ consumed' = consumed \cup S
          /\ \A a \in S : asset[a] \in {"ready", "deleted"}
          /\ UNCHANGED <<object, work, events, move>>
      BY <1>3 DEF ConsumeReviewVideos
    <2>4. \A x \in work : x.job[2] \in Assets
      BY JobParts DEF Safe, TypeOK, Work
    <2>5. RetentionHonoured'
      BY <2>1, <2>2, <2>3, <2>4, JobNames DEF Permitted, Safe, RetentionHonoured
    <2>6. DeletionPermitted'
      BY <2>1, <2>2, <2>3, <2>4, JobNames DEF Permitted, Safe, DeletionPermitted
    <2>7. SuccessMeansGone'
      BY <2>1, <2>2, <2>3, <2>4, JobNames DEF Safe, SuccessMeansGone
    <2>8. DeletionWorkKnows'
      BY <2>1, <2>2, <2>3, <2>4, JobNames DEF Safe, DeletionWorkKnows
    <2>9. UploadComesFirst'
      BY <2>1, <2>2, <2>3, <2>4, JobNames DEF Safe, UploadComesFirst
    <2>10. DeletedEventOnce'
      BY <2>1, <2>2, <2>3, <2>4, JobNames DEF Safe, DeletedEventOnce
    <2>11. AssetTracksValidation'
      BY <2>1, <2>2, <2>3, <2>4, JobNames DEF Safe, AssetTracksValidation
    <2> QED
      BY <2>5, <2>6, <2>7, <2>8, <2>9, <2>10, <2>11 DEF Safe
  <1>4. ASSUME NEW S \in SUBSET Assets, CompleteMove(S)
        PROVE  Safe'
    <2>1. \A a \in Assets : job'[<<Validation, a>>] = job[<<Validation, a>>]
      BY <1>4, JobNames DEF CompleteMove, Safe, TypeOK
    <2>2. \A a \in Assets : \/ job'[<<Deletion, a>>] = job[<<Deletion, a>>]
                             \/ /\ a \in S /\ job[<<Deletion, a>>].status = "none"
                                /\ job'[<<Deletion, a>>].status = "pending"
                                /\ job'[<<Deletion, a>>].sched = "retention"
      BY <1>4, JobNames DEF CompleteMove, Created, NoRow, Safe, TypeOK, Row
    <2>3. /\ \A a \in S : asset[a] \in {"uploaded", "ready"}
          /\ move' = "completed" /\ move = "open" /\ UNCHANGED <<asset, object, work, events, consumed>>
      BY <1>4 DEF CompleteMove
    <2>4. RetentionHonoured'
      BY <2>1, <2>2, <2>3, JobNames DEF Permitted, Safe, RetentionHonoured
    <2>5. DeletionPermitted'
      BY <2>1, <2>2, <2>3, JobNames DEF Permitted, Safe, DeletionPermitted
    <2>6. SuccessMeansGone'
      BY <2>1, <2>2, <2>3, JobNames DEF Safe, SuccessMeansGone
    <2>7. DeletionWorkKnows'
      BY <2>1, <2>2, <2>3, JobNames DEF Safe, DeletionWorkKnows
    <2>8. UploadComesFirst'
      BY <2>1, <2>2, <2>3, JobNames DEF Safe, UploadComesFirst
    <2>9. DeletedEventOnce'
      BY <2>1, <2>2, <2>3, JobNames DEF Safe, DeletedEventOnce
    <2>10. AssetTracksValidation'
      BY <2>1, <2>2, <2>3, JobNames DEF Safe, AssetTracksValidation
    <2> QED
      BY <2>4, <2>5, <2>6, <2>7, <2>8, <2>9, <2>10 DEF Safe
  <1>5. CASE RetentionElapses
    <2>1. RetentionHonoured'
      BY <1>5, JobNames DEF RetentionElapses, Permitted, Safe, RetentionHonoured
    <2>2. DeletionPermitted'
      BY <1>5, JobNames DEF RetentionElapses, Permitted, Safe, DeletionPermitted
    <2>3. SuccessMeansGone'
      BY <1>5, JobNames DEF RetentionElapses, Safe, SuccessMeansGone
    <2>4. DeletionWorkKnows'
      BY <1>5, JobNames DEF RetentionElapses, Safe, DeletionWorkKnows
    <2>5. UploadComesFirst'
      BY <1>5, JobNames DEF RetentionElapses, Safe, UploadComesFirst
    <2>6. DeletedEventOnce'
      BY <1>5, JobNames DEF RetentionElapses, Safe, DeletedEventOnce
    <2>7. AssetTracksValidation'
      BY <1>5, JobNames DEF RetentionElapses, Safe, AssetTracksValidation
    <2> QED
      BY <2>1, <2>2, <2>3, <2>4, <2>5, <2>6, <2>7 DEF Safe
  <1>6. ASSUME NEW b \in Assets, Retry(<<Validation, b>>)
        PROVE  Safe'
    <2>1. /\ UNCHANGED <<object, work, events, move, consumed>>
          /\ \A a \in Assets : job'[<<Deletion, a>>] = job[<<Deletion, a>>]
          /\ \A a \in Assets \ {b} : job'[<<Validation, a>>] = job[<<Validation, a>>]
          /\ job'[<<Validation, b>>].status = "pending"
          /\ \/ asset' = asset /\ job[<<Validation, b>>].status = "failed"
             \/ /\ asset'[b] = "failed" /\ asset[b] = "processing"
                /\ \A a \in Assets \ {b} : asset'[a] = asset[a]
      BY <1>6, RetryValidation, JobNames DEF Safe
    <2>2. \A x \in work : x.job[2] \in Assets
      BY JobParts DEF Safe, TypeOK, Work
    <2>3. RetentionHonoured'
      BY <2>1, <2>2, JobNames DEF Permitted, Safe, RetentionHonoured
    <2>4. DeletionPermitted'
      BY <2>1, <2>2, JobNames DEF Permitted, Safe, DeletionPermitted
    <2>5. SuccessMeansGone'
      BY <2>1, <2>2, JobNames DEF Safe, SuccessMeansGone
    <2>6. DeletionWorkKnows'
      BY <2>1, <2>2, JobNames DEF Safe, DeletionWorkKnows
    <2>7. UploadComesFirst'
      BY <2>1, <2>2, JobNames DEF Safe, UploadComesFirst
    <2>8. DeletedEventOnce'
      BY <2>1, <2>2, JobNames DEF Safe, DeletedEventOnce
    <2>9. AssetTracksValidation'
      BY <2>1, <2>2, JobNames DEF Safe, AssetTracksValidation
    <2> QED
      BY <2>3, <2>4, <2>5, <2>6, <2>7, <2>8, <2>9 DEF Safe
  <1>7. ASSUME NEW b \in Assets, Retry(<<Deletion, b>>)
        PROVE  Safe'
    <2>1. /\ UNCHANGED <<object, work, events, move, consumed>> /\ asset' = asset
          /\ \A a \in Assets : job'[<<Validation, a>>] = job[<<Validation, a>>]
          /\ \A a \in Assets \ {b} : job'[<<Deletion, a>>] = job[<<Deletion, a>>]
          /\ job[<<Deletion, b>>].status \in {"running", "failed"}
          /\ job'[<<Deletion, b>>].status = "pending"
      BY <1>7, RetryDeletion, JobNames DEF Safe
    <2>2. \A x \in work : x.job[2] \in Assets
      BY JobParts DEF Safe, TypeOK, Work
    <2>3. RetentionHonoured'
      BY <2>1, <2>2, JobNames DEF Permitted, Safe, RetentionHonoured
    <2>4. DeletionPermitted'
      BY <2>1, <2>2, JobNames DEF Permitted, Safe, DeletionPermitted
    <2>5. SuccessMeansGone'
      BY <2>1, <2>2, JobNames DEF Safe, SuccessMeansGone
    <2>6. DeletionWorkKnows'
      BY <2>1, <2>2, JobNames DEF Safe, DeletionWorkKnows
    <2>7. UploadComesFirst'
      BY <2>1, <2>2, JobNames DEF Safe, UploadComesFirst
    <2>8. DeletedEventOnce'
      BY <2>1, <2>2, JobNames DEF Safe, DeletedEventOnce
    <2>9. AssetTracksValidation'
      BY <2>1, <2>2, JobNames DEF Safe, AssetTracksValidation
    <2> QED
      BY <2>3, <2>4, <2>5, <2>6, <2>7, <2>8, <2>9 DEF Safe
  <1> QED
    BY <1>1, <1>2, <1>3, <1>4, <1>5, <1>6, <1>7, JobCases, WorkJobs, TaskJobs DEF Caller

LEMMA DispatchSafe == Safe /\ TypeOK' /\ Dispatch => Safe'
  <1> SUFFICES ASSUME Safe, TypeOK', Dispatch
               PROVE  Safe'
    OBVIOUS
  <1>1. ASSUME NEW d \in Dispatchers, NEW j \in Jobs, ClaimJob(d, j)
        PROVE  Safe'
    <2>1. job[j].status = "dispatching" \/ (job[j].status = "pending" /\ (job[j].sched = "now" \/ move = "retained"))
      BY <1>1 DEF ClaimJob, Claimable, Due
    <2>2. job'[j].status = "dispatching"
      BY <1>1 DEF ClaimJob, Leased, Safe, TypeOK, Row
    <2>3. \A k \in Jobs : k # j => job'[k] = job[k]
      BY <1>1 DEF ClaimJob, Safe, TypeOK
    <2>4. UNCHANGED <<asset, object, work, events, move, consumed>>
      BY <1>1 DEF ClaimJob
    <2>5. RetentionHonoured'
      BY <2>1, <2>2, <2>3, <2>4, JobNames DEF Permitted, Safe, RetentionHonoured
    <2>6. DeletionPermitted'
      BY <2>1, <2>2, <2>3, <2>4, JobNames DEF Permitted, Safe, DeletionPermitted
    <2>7. SuccessMeansGone'
      BY <2>1, <2>2, <2>3, <2>4, JobNames DEF Safe, SuccessMeansGone
    <2>8. DeletionWorkKnows'
      BY <2>1, <2>2, <2>3, <2>4, JobNames DEF Safe, DeletionWorkKnows
    <2>9. UploadComesFirst'
      BY <2>1, <2>2, <2>3, <2>4, JobNames DEF Safe, UploadComesFirst
    <2>10. DeletedEventOnce'
      BY <2>1, <2>2, <2>3, <2>4, JobNames DEF Safe, DeletedEventOnce
    <2>11. AssetTracksValidation'
      BY <2>1, <2>2, <2>3, <2>4, JobNames DEF Safe, AssetTracksValidation
    <2> QED
      BY <2>5, <2>6, <2>7, <2>8, <2>9, <2>10, <2>11 DEF Safe
  <1>2. ASSUME NEW c \in claims, EnqueueAccepted(c) \/ DispatcherCrashes(c) \/ \E e \in ErrorKinds : EnqueueFails(c, e)
        PROVE  Safe'
    <2>1. UNCHANGED <<asset, object, job, work, events, move, consumed>>
      BY <1>2 DEF EnqueueAccepted, DispatcherCrashes, EnqueueFails
    <2>2. RetentionHonoured'
      BY <2>1, JobNames DEF Permitted, Safe, RetentionHonoured
    <2>3. DeletionPermitted'
      BY <2>1, JobNames DEF Permitted, Safe, DeletionPermitted
    <2>4. SuccessMeansGone'
      BY <2>1, JobNames DEF Safe, SuccessMeansGone
    <2>5. DeletionWorkKnows'
      BY <2>1, JobNames DEF Safe, DeletionWorkKnows
    <2>6. UploadComesFirst'
      BY <2>1, JobNames DEF Safe, UploadComesFirst
    <2>7. DeletedEventOnce'
      BY <2>1, JobNames DEF Safe, DeletedEventOnce
    <2>8. AssetTracksValidation'
      BY <2>1, JobNames DEF Safe, AssetTracksValidation
    <2> QED
      BY <2>2, <2>3, <2>4, <2>5, <2>6, <2>7, <2>8 DEF Safe
  <1>3. ASSUME NEW c \in claims, Finalize(c)
        PROVE  Safe'
    <2>1. c.job \in Jobs
      BY DEF Safe, TypeOK, Claim
    <2>2. job'[c.job].status = job[c.job].status \/ (job[c.job].status = "dispatching" /\ job'[c.job].status \in {"queued", "failed"})
      BY <1>3, <2>1 DEF Finalize, FinalizedRow, OwnsLease, AlreadyAccepted, Safe, TypeOK, Row
    <2>3. job'[c.job].sched = job[c.job].sched
      BY <1>3, <2>1 DEF Finalize, FinalizedRow, Safe, TypeOK, Row
    <2>4. \A k \in Jobs : k # c.job => job'[k] = job[k]
      BY <1>3 DEF Finalize, Safe, TypeOK
    <2>5. UNCHANGED <<asset, object, work, events, move, consumed>>
      BY <1>3 DEF Finalize
    <2>6. RetentionHonoured'
      BY <2>1, <2>2, <2>3, <2>4, <2>5, JobNames DEF Permitted, Safe, RetentionHonoured
    <2>7. DeletionPermitted'
      BY <2>1, <2>2, <2>3, <2>4, <2>5, JobNames DEF Permitted, Safe, DeletionPermitted
    <2>8. SuccessMeansGone'
      BY <2>1, <2>2, <2>3, <2>4, <2>5, JobNames DEF Safe, SuccessMeansGone
    <2>9. DeletionWorkKnows'
      BY <2>1, <2>2, <2>3, <2>4, <2>5, JobNames DEF Safe, DeletionWorkKnows
    <2>10. UploadComesFirst'
      BY <2>1, <2>2, <2>3, <2>4, <2>5, JobNames DEF Safe, UploadComesFirst
    <2>11. DeletedEventOnce'
      BY <2>1, <2>2, <2>3, <2>4, <2>5, JobNames DEF Safe, DeletedEventOnce
    <2>12. AssetTracksValidation'
      BY <2>1, <2>2, <2>3, <2>4, <2>5, JobNames DEF Safe, AssetTracksValidation
    <2> QED
      BY <2>6, <2>7, <2>8, <2>9, <2>10, <2>11, <2>12 DEF Safe
  <1>4. ASSUME NEW j \in Jobs, LeaseLapses(j)
        PROVE  Safe'
    <2>1. \A k \in Jobs : job'[k].status = job[k].status /\ job'[k].sched = job[k].sched
      BY <1>4 DEF LeaseLapses, Safe, TypeOK, Row
    <2>2. UNCHANGED <<asset, object, work, events, move, consumed>>
      BY <1>4 DEF LeaseLapses
    <2>3. RetentionHonoured'
      BY <2>1, <2>2, JobNames DEF Permitted, Safe, RetentionHonoured
    <2>4. DeletionPermitted'
      BY <2>1, <2>2, JobNames DEF Permitted, Safe, DeletionPermitted
    <2>5. SuccessMeansGone'
      BY <2>1, <2>2, JobNames DEF Safe, SuccessMeansGone
    <2>6. DeletionWorkKnows'
      BY <2>1, <2>2, JobNames DEF Safe, DeletionWorkKnows
    <2>7. UploadComesFirst'
      BY <2>1, <2>2, JobNames DEF Safe, UploadComesFirst
    <2>8. DeletedEventOnce'
      BY <2>1, <2>2, JobNames DEF Safe, DeletedEventOnce
    <2>9. AssetTracksValidation'
      BY <2>1, <2>2, JobNames DEF Safe, AssetTracksValidation
    <2> QED
      BY <2>3, <2>4, <2>5, <2>6, <2>7, <2>8, <2>9 DEF Safe
  <1> QED
    BY <1>1, <1>2, <1>3, <1>4 DEF Dispatch

LEMMA ExecuteSafe == Safe /\ TypeOK' /\ Execute => Safe'
  <1> SUFFICES ASSUME Safe, TypeOK', Execute
               PROVE  Safe'
    OBVIOUS
  <1>1. ASSUME NEW t \in tasks, StartAnswersDone(t) \/ StartConflicts(t) \/ DeliveryLost(t)
        PROVE  Safe'
    <2>1. UNCHANGED <<asset, object, job, work, events, move, consumed>>
      BY <1>1 DEF StartAnswersDone, StartConflicts, DeliveryLost
    <2>2. RetentionHonoured'
      BY <2>1, JobNames DEF Permitted, Safe, RetentionHonoured
    <2>3. DeletionPermitted'
      BY <2>1, JobNames DEF Permitted, Safe, DeletionPermitted
    <2>4. SuccessMeansGone'
      BY <2>1, JobNames DEF Safe, SuccessMeansGone
    <2>5. DeletionWorkKnows'
      BY <2>1, JobNames DEF Safe, DeletionWorkKnows
    <2>6. UploadComesFirst'
      BY <2>1, JobNames DEF Safe, UploadComesFirst
    <2>7. DeletedEventOnce'
      BY <2>1, JobNames DEF Safe, DeletedEventOnce
    <2>8. AssetTracksValidation'
      BY <2>1, JobNames DEF Safe, AssetTracksValidation
    <2> QED
      BY <2>2, <2>3, <2>4, <2>5, <2>6, <2>7, <2>8 DEF Safe
  <1>2. ASSUME NEW w \in Workers, NEW t \in tasks, NEW b \in Assets, t.job = <<Validation, b>>, StartTask(w, t)
        PROVE  Safe'
    <2>1. /\ UNCHANGED <<object, events, move, consumed>>
          /\ work' = work \cup {[by |-> w, job |-> <<Validation, b>>, attempt |-> t.attempt, result |-> "none"]}
          /\ \A a \in Assets : job'[<<Deletion, a>>] = job[<<Deletion, a>>]
          /\ \A a \in Assets \ {b} : job'[<<Validation, a>>] = job[<<Validation, a>>]
          /\ \/ job[<<Validation, b>>].status = "running" /\ UNCHANGED <<job, asset>>
             \/ /\ job[<<Validation, b>>].status \in {"dispatching", "queued"} /\ job'[<<Validation, b>>].status = "running"
                /\ asset[b] \in {"uploaded", "failed"} /\ asset'[b] = "processing"
                /\ \A a \in Assets \ {b} : asset'[a] = asset[a]
      BY <1>2, StartValidation DEF Safe
    <2>2. \A x \in work : x.job[2] \in Assets
      BY JobParts DEF Safe, TypeOK, Work
    <2>3. \A x \in work' : x \in work \/ (x.job[1] # Deletion /\ x.job[2] = b)
      BY <2>1, JobNames
    <2>4. RetentionHonoured'
      BY <2>1, <2>2, <2>3, JobNames DEF Permitted, Safe, RetentionHonoured
    <2>5. DeletionPermitted'
      BY <2>1, <2>2, <2>3, JobNames DEF Permitted, Safe, DeletionPermitted
    <2>6. SuccessMeansGone'
      BY <2>1, <2>2, <2>3, JobNames DEF Safe, SuccessMeansGone
    <2>7. DeletionWorkKnows'
      BY <2>1, <2>2, <2>3, JobNames DEF Safe, DeletionWorkKnows
    <2>8. UploadComesFirst'
      BY <2>1, <2>2, <2>3, JobNames DEF Safe, UploadComesFirst
    <2>9. DeletedEventOnce'
      BY <2>1, <2>2, <2>3, JobNames DEF Safe, DeletedEventOnce
    <2>10. AssetTracksValidation'
      BY <2>1, <2>2, <2>3, JobNames DEF Safe, AssetTracksValidation
    <2> QED
      BY <2>4, <2>5, <2>6, <2>7, <2>8, <2>9, <2>10 DEF Safe
  <1>3. ASSUME NEW w \in Workers, NEW t \in tasks, NEW b \in Assets, t.job = <<Deletion, b>>, StartTask(w, t)
        PROVE  Safe'
    <2>1. /\ UNCHANGED <<object, events, move, consumed>>
          /\ work' = work \cup {[by |-> w, job |-> <<Deletion, b>>, attempt |-> t.attempt, result |-> "none"]}
          /\ \A a \in Assets : job'[<<Validation, a>>] = job[<<Validation, a>>]
          /\ \A a \in Assets \ {b} : job'[<<Deletion, a>>] = job[<<Deletion, a>>]
          /\ \/ job[<<Deletion, b>>].status = "running" /\ UNCHANGED <<job, asset>>
             \/ /\ job[<<Deletion, b>>].status \in {"dispatching", "queued"} /\ job'[<<Deletion, b>>].status = "running"
                /\ asset' = asset
      BY <1>3, StartDeletion DEF Safe
    <2>2. \A x \in work : x.job[2] \in Assets
      BY JobParts DEF Safe, TypeOK, Work
    <2>3. \A x \in work' : x \in work \/ (x.job[2] = b /\ x.result = "none")
      BY <2>1, JobNames
    <2>4. RetentionHonoured'
      BY <2>1, <2>2, <2>3, JobNames DEF Permitted, Safe, UploadComesFirst, RetentionHonoured
    <2>5. DeletionPermitted'
      BY <2>1, <2>2, <2>3, JobNames DEF Permitted, Safe, DeletionPermitted
    <2>6. SuccessMeansGone'
      BY <2>1, <2>2, <2>3, JobNames DEF Safe, SuccessMeansGone
    <2>7. DeletionWorkKnows'
      BY <2>1, <2>2, <2>3, JobNames DEF Safe, UploadComesFirst, DeletionWorkKnows
    <2>8. UploadComesFirst'
      BY <2>1, <2>2, <2>3, JobNames DEF Safe, UploadComesFirst
    <2>9. DeletedEventOnce'
      BY <2>1, <2>2, <2>3, JobNames DEF Safe, DeletedEventOnce
    <2>10. AssetTracksValidation'
      BY <2>1, <2>2, <2>3, JobNames DEF Safe, AssetTracksValidation
    <2> QED
      BY <2>4, <2>5, <2>6, <2>7, <2>8, <2>9, <2>10 DEF Safe
  <1>4. ASSUME NEW x \in work, StoreAnswers(x) \/ \E e \in ErrorKinds : StoreFails(x, e)
        PROVE  Safe'
    <2>1. x.job \in Jobs /\ x.job[2] \in Assets /\ x \in Work
      BY JobParts DEF Safe, TypeOK, Work
    <2>2. PICK r \in {"ok"} \cup ErrorKinds :
            /\ work' = (work \ {x}) \cup {[x EXCEPT !.result = r]}
            /\ (x.job[1] = Deletion /\ r = "ok") => object' = [object EXCEPT ![x.job[2]] = FALSE]
      BY <1>4, MediaJobsAssumption DEF StoreAnswers, StoreFails, Learned
    <2>3. /\ UNCHANGED <<asset, job, events, move, consumed>>
          /\ object' = object \/ (x.job[1] = Deletion /\ object' = [object EXCEPT ![x.job[2]] = FALSE])
      BY <1>4 DEF StoreAnswers, StoreFails
    <2>4. [x EXCEPT !.result = r].job = x.job /\ [x EXCEPT !.result = r].result = r
      BY <2>1 DEF Work
    <2>5. \A y \in work' : y \in work \/ (y.job = x.job /\ y.result = r)
      BY <2>2, <2>4
    <2>6. \A a \in Assets : object'[a] = object[a] \/ (~object'[a] /\ Permitted(a))
      BY <2>1, <2>3 DEF Safe, TypeOK, DeletionPermitted
    <2>7. \A y \in work : y.job[2] \in Assets
      BY JobParts DEF Safe, TypeOK, Work
    <2>8. (x.job[1] = Deletion /\ r = "ok") => ~object'[x.job[2]]
      BY <2>1, <2>2 DEF Safe, TypeOK
    <2>9. RetentionHonoured'
      BY <2>3, <2>5, <2>6, <2>7, <2>8, JobNames DEF Permitted, Safe, RetentionHonoured
    <2>10. DeletionPermitted'
      BY <2>3, <2>5, <2>6, <2>7, <2>8, JobNames DEF Permitted, Safe, DeletionPermitted
    <2>11. SuccessMeansGone'
      BY <2>3, <2>5, <2>6, <2>7, <2>8, JobNames DEF Safe, SuccessMeansGone
    <2>12. DeletionWorkKnows'
      BY <2>3, <2>5, <2>6, <2>7, <2>8, JobNames DEF Safe, DeletionWorkKnows
    <2>13. UploadComesFirst'
      BY <2>3, <2>5, <2>6, <2>7, <2>8, JobNames DEF Safe, UploadComesFirst
    <2>14. DeletedEventOnce'
      BY <2>3, <2>5, <2>6, <2>7, <2>8, JobNames DEF Safe, DeletedEventOnce
    <2>15. AssetTracksValidation'
      BY <2>3, <2>5, <2>6, <2>7, <2>8, JobNames DEF Safe, AssetTracksValidation
    <2> QED
      BY <2>9, <2>10, <2>11, <2>12, <2>13, <2>14, <2>15 DEF Safe
  <1>5. ASSUME NEW x \in work, NEW b \in Assets, x.job = <<Validation, b>>, Report(x)
        PROVE  Safe'
    <2>1. /\ asset[b] = "processing" /\ UNCHANGED <<events, object, move, consumed>> /\ work' \subseteq work
          /\ \A a \in Assets : job'[<<Deletion, a>>] = job[<<Deletion, a>>]
          /\ \A a \in Assets \ {b} : job'[<<Validation, a>>] = job[<<Validation, a>>]
          /\ asset'[b] = IF x.result = "ok" THEN "ready" ELSE "failed"
          /\ \A a \in Assets \ {b} : asset'[a] = asset[a]
          /\ job'[<<Validation, b>>].status = IF x.result = "ok" THEN "succeeded" ELSE "failed"
      BY <1>5, ReportValidation DEF Safe
    <2>2. \A y \in work : y.job[2] \in Assets
      BY JobParts DEF Safe, TypeOK, Work
    <2>3. RetentionHonoured'
      BY <2>1, <2>2, JobNames DEF Permitted, Safe, RetentionHonoured
    <2>4. DeletionPermitted'
      BY <2>1, <2>2, JobNames DEF Permitted, Safe, DeletionPermitted
    <2>5. SuccessMeansGone'
      BY <2>1, <2>2, JobNames DEF Safe, SuccessMeansGone
    <2>6. DeletionWorkKnows'
      BY <2>1, <2>2, JobNames DEF Safe, DeletionWorkKnows
    <2>7. UploadComesFirst'
      BY <2>1, <2>2, JobNames DEF Safe, UploadComesFirst
    <2>8. DeletedEventOnce'
      BY <2>1, <2>2, JobNames DEF Safe, DeletedEventOnce
    <2>9. AssetTracksValidation'
      BY <2>1, <2>2, JobNames DEF Safe, AssetTracksValidation
    <2> QED
      BY <2>3, <2>4, <2>5, <2>6, <2>7, <2>8, <2>9 DEF Safe
  <1>6. ASSUME NEW x \in work, NEW b \in Assets, x.job = <<Deletion, b>>, Report(x)
        PROVE  Safe'
    <2>1. /\ job[<<Deletion, b>>].status = "running" /\ UNCHANGED <<object, move, consumed>> /\ work' \subseteq work
          /\ \A a \in Assets : job'[<<Validation, a>>] = job[<<Validation, a>>]
          /\ \A a \in Assets \ {b} : job'[<<Deletion, a>>] = job[<<Deletion, a>>]
          /\ asset'[b] = IF x.result = "ok" THEN "deleted" ELSE asset[b]
          /\ events'[b] = IF x.result = "ok" THEN events[b] + 1 ELSE events[b]
          /\ \A a \in Assets \ {b} : asset'[a] = asset[a] /\ events'[a] = events[a]
          /\ job'[<<Deletion, b>>].status = IF x.result = "ok" THEN "succeeded" ELSE "failed"
      BY <1>6, ReportDeletion DEF Safe
    <2>2. \A a \in Assets : asset'[a] \in {asset[a], "deleted"}
      BY <2>1
    <2>3. x.result = "ok" => ~object[b]
      BY <1>6, JobNames DEF Safe, DeletionWorkKnows
    <2>4. \A y \in work : y.job[2] \in Assets
      BY JobParts DEF Safe, TypeOK, Work
    <2>5. RetentionHonoured'
      BY <2>1, <2>2, <2>3, <2>4, JobNames DEF Permitted, Safe, UploadComesFirst, RetentionHonoured
    <2>6. DeletionPermitted'
      BY <2>1, <2>2, <2>3, <2>4, JobNames DEF Permitted, Safe, DeletionPermitted
    <2>7. SuccessMeansGone'
      BY <2>1, <2>2, <2>3, <2>4, JobNames DEF Safe, SuccessMeansGone
    <2>8. DeletionWorkKnows'
      BY <2>1, <2>2, <2>3, <2>4, JobNames DEF Safe, UploadComesFirst, DeletionWorkKnows
    <2>9. UploadComesFirst'
      BY <2>1, <2>2, <2>3, <2>4, JobNames DEF Safe, UploadComesFirst
    <2>10. DeletedEventOnce'
      BY <2>1, <2>2, <2>3, <2>4, JobNames DEF Safe, DeletedEventOnce
    <2>11. AssetTracksValidation'
      BY <2>1, <2>2, <2>3, <2>4, JobNames DEF Safe, AssetTracksValidation
    <2> QED
      BY <2>5, <2>6, <2>7, <2>8, <2>9, <2>10, <2>11 DEF Safe
  <1>7. ASSUME NEW x \in work, ReportReplayed(x) \/ ReportConflicts(x) \/ WorkerCrashes(x)
        PROVE  Safe'
    <2>1. work' \subseteq work /\ UNCHANGED <<asset, object, job, events, move, consumed>>
      BY <1>7 DEF ReportReplayed, ReportConflicts, WorkerCrashes, Finished
    <2>2. RetentionHonoured'
      BY <2>1, JobNames DEF Permitted, Safe, RetentionHonoured
    <2>3. DeletionPermitted'
      BY <2>1, JobNames DEF Permitted, Safe, DeletionPermitted
    <2>4. SuccessMeansGone'
      BY <2>1, JobNames DEF Safe, SuccessMeansGone
    <2>5. DeletionWorkKnows'
      BY <2>1, JobNames DEF Safe, DeletionWorkKnows
    <2>6. UploadComesFirst'
      BY <2>1, JobNames DEF Safe, UploadComesFirst
    <2>7. DeletedEventOnce'
      BY <2>1, JobNames DEF Safe, DeletedEventOnce
    <2>8. AssetTracksValidation'
      BY <2>1, JobNames DEF Safe, AssetTracksValidation
    <2> QED
      BY <2>2, <2>3, <2>4, <2>5, <2>6, <2>7, <2>8 DEF Safe
  <1>8. ASSUME NEW j \in Jobs, DeadlineLapses(j)
        PROVE  Safe'
    <2>1. \A k \in Jobs : job'[k].status = job[k].status /\ job'[k].sched = job[k].sched
      BY <1>8 DEF DeadlineLapses, Safe, TypeOK, Row
    <2>2. UNCHANGED <<asset, object, work, events, move, consumed>>
      BY <1>8 DEF DeadlineLapses
    <2>3. RetentionHonoured'
      BY <2>1, <2>2, JobNames DEF Permitted, Safe, RetentionHonoured
    <2>4. DeletionPermitted'
      BY <2>1, <2>2, JobNames DEF Permitted, Safe, DeletionPermitted
    <2>5. SuccessMeansGone'
      BY <2>1, <2>2, JobNames DEF Safe, SuccessMeansGone
    <2>6. DeletionWorkKnows'
      BY <2>1, <2>2, JobNames DEF Safe, DeletionWorkKnows
    <2>7. UploadComesFirst'
      BY <2>1, <2>2, JobNames DEF Safe, UploadComesFirst
    <2>8. DeletedEventOnce'
      BY <2>1, <2>2, JobNames DEF Safe, DeletedEventOnce
    <2>9. AssetTracksValidation'
      BY <2>1, <2>2, JobNames DEF Safe, AssetTracksValidation
    <2> QED
      BY <2>3, <2>4, <2>5, <2>6, <2>7, <2>8, <2>9 DEF Safe
  <1> QED
    BY <1>1, <1>2, <1>3, <1>4, <1>5, <1>6, <1>7, <1>8, JobCases, WorkJobs, TaskJobs DEF Execute

LEMMA StepSafe == Safe /\ [Next]_vars => Safe'
  <1> SUFFICES ASSUME Safe, [Next]_vars PROVE Safe'
    OBVIOUS
  <1>1. TypeOK'
    BY StepType DEF Safe
  <1>2. CASE UNCHANGED vars
    BY <1>2 DEF vars, moving, Safe, TypeOK, RetentionHonoured, DeletionPermitted, Permitted, SuccessMeansGone,
       DeletionWorkKnows, UploadComesFirst, DeletedEventOnce, AssetTracksValidation
  <1> QED
    BY <1>1, <1>2, CallerSafe, DispatchSafe, ExecuteSafe DEF Next

LEMMA AlwaysSafe == Spec => []Safe
  BY InitSafe, StepSafe, PTL DEF Spec

\* No media is lost early, whatever the dispatchers, workers and operators do.
THEOREM RetentionIsHonoured == Spec => []RetentionHonoured
  BY AlwaysSafe, PTL DEF Safe

\* complete_media_deletion records success only when the object is gone.
THEOREM SuccessIsGone == Spec => []SuccessMeansGone
  BY AlwaysSafe, PTL DEF Safe

\* media_deleted.v1 is enqueued once per deleted asset.
THEOREM OneDeletedEvent == Spec => []DeletedEventOnce
  BY AlwaysSafe, PTL DEF Safe

\* MediaAsset.status and its validation job always agree.
THEOREM AssetFollowsValidation == Spec => []AssetTracksValidation
  BY AlwaysSafe, PTL DEF Safe

-----------------------------------------------------------------------------
(* Progress of the rows *)

\* What a step does to a row: an attempt moves on, ends, is retried or, with a fresh
\* token, is leased; a row is queued or running only with its task in the queue.
Kept(j) == job'[j].status = job[j].status /\ job'[j].attempt = job[j].attempt
           /\ job'[j].token = job[j].token /\ job'[j].err = job[j].err
LeasedAnew(j) ==
  /\ job'[j].status = "dispatching" /\ job'[j].token = seq[j]
  /\ \/ job[j].status = "pending" /\ job'[j].attempt = job[j].attempt + 1
     \/ job[j].status = "dispatching" /\ job'[j].attempt = job[j].attempt
Moved(j) ==
  /\ job'[j].attempt = job[j].attempt
  /\ \/ job'[j].status = "pending" /\ job[j].status \in {"none", "failed", "running"}
     \/ job'[j].status = "failed" /\ job[j].status \in {"dispatching", "running"}
     \/ job'[j].status = "queued" /\ job[j].status = "dispatching"
        /\ [job |-> j, attempt |-> job[j].attempt] \in tasks
     \/ job'[j].status = "running" /\ job[j].status \in {"dispatching", "queued"}
        /\ [job |-> j, attempt |-> job[j].attempt] \in tasks
     \/ job'[j].status = "succeeded" /\ job[j].status = "running"
RowStep == \A j \in Jobs : Kept(j) \/ LeasedAnew(j) \/ Moved(j)

\* A dispatcher that holds the lease holds the current attempt, and what it was told
\* of the task is so.
ClaimsTrue ==
  \A c \in claims :
    /\ c.token < seq[c.job]
    /\ job[c.job].status = "dispatching" /\ job[c.job].token = c.token => job[c.job].attempt = c.attempt
    /\ c.reply = "ok" => [job |-> c.job, attempt |-> c.attempt] \in tasks
\* A job without a row has no attempt.
NoRowBlank == \A j \in Jobs : job[j].status = "none" => job[j].attempt = 0
Dispatched == TypeOK /\ NoRowBlank /\ ClaimsTrue /\ QueuedHasTask

LEMMA RowCaller == Dispatched /\ Caller => RowStep
  <1> SUFFICES ASSUME Dispatched, Caller, NEW j \in Jobs PROVE Kept(j) \/ LeasedAnew(j) \/ Moved(j)
    BY DEF RowStep
  <1> USE DEF Dispatched, TypeOK, Row, Kept, Moved
  <1>1. ASSUME NEW k \in Jobs, NEW s, job'[k] = Created(k, s) PROVE Kept(k) \/ Moved(k)
    BY <1>1 DEF Created, NoRow, NoRowBlank
  <1>2. ASSUME NEW a \in Assets, CompleteUpload(a) PROVE Kept(j) \/ Moved(j)
    BY <1>1, <1>2, JobNames DEF CompleteUpload
  <1>3. ASSUME NEW a \in Assets, RequestRetention(a) PROVE Kept(j) \/ Moved(j)
    BY <1>1, <1>3, JobNames DEF RequestRetention
  <1>4. ASSUME NEW S \in SUBSET Assets, ConsumeReviewVideos(S) PROVE Kept(j) \/ Moved(j)
    BY <1>1, <1>4 DEF ConsumeReviewVideos
  <1>5. ASSUME NEW S \in SUBSET Assets, CompleteMove(S) PROVE Kept(j) \/ Moved(j)
    BY <1>1, <1>5 DEF CompleteMove
  <1>6. CASE RetentionElapses
    BY <1>6 DEF RetentionElapses
  <1>7. ASSUME NEW k \in Jobs, Retry(k) PROVE Kept(j) \/ Moved(j)
    BY <1>7 DEF Retry, Retryable, Expired
  <1> QED
    BY <1>2, <1>3, <1>4, <1>5, <1>6, <1>7 DEF Caller

LEMMA RowDispatch == Dispatched /\ Dispatch => RowStep
  <1> SUFFICES ASSUME Dispatched, Dispatch, NEW j \in Jobs PROVE Kept(j) \/ LeasedAnew(j) \/ Moved(j)
    BY DEF RowStep
  <1> USE DEF Dispatched, TypeOK, Row, Claim, Kept
  <1>1. ASSUME NEW d \in Dispatchers, NEW k \in Jobs, ClaimJob(d, k) PROVE Kept(j) \/ LeasedAnew(j)
    BY <1>1 DEF ClaimJob, Claimable, Leased, LeasedAnew
  <1>2. ASSUME NEW c \in claims, Finalize(c) PROVE Kept(j) \/ Moved(j)
    <2>1. c.job \in Jobs /\ job[c.job] \in Row
      OBVIOUS
    <2>2. job' = [job EXCEPT ![c.job] = FinalizedRow(c)]
      BY <1>2 DEF Finalize
    <2>3. CASE j # c.job \/ ~OwnsLease(c)
      BY <2>1, <2>2, <2>3 DEF FinalizedRow
    <2>4. CASE j = c.job /\ OwnsLease(c)
      BY <2>1, <2>2, <2>4 DEF FinalizedRow, OwnsLease, ClaimsTrue, Moved
    <2> QED
      BY <2>3, <2>4
  <1>3. ASSUME NEW k \in Jobs, LeaseLapses(k) PROVE Kept(j)
    BY <1>3 DEF LeaseLapses
  <1> QED
    BY <1>1, <1>2, <1>3 DEF Dispatch, EnqueueAccepted, EnqueueFails, DispatcherCrashes

LEMMA RowExecute == TypeOK /\ Execute => RowStep
  <1> SUFFICES ASSUME TypeOK, Execute, NEW j \in Jobs PROVE Kept(j) \/ LeasedAnew(j) \/ Moved(j)
    BY DEF RowStep
  <1> USE DEF TypeOK, Row, Kept
  <1>1. ASSUME NEW w \in Workers, NEW t \in tasks, StartTask(w, t) PROVE Kept(j) \/ Moved(j)
    <2>1. t.job \in Jobs /\ t = [job |-> t.job, attempt |-> t.attempt]
      BY DEF Task
    <2>2. [job |-> t.job, attempt |-> job[t.job].attempt] \in tasks
      BY <1>1, <2>1 DEF StartTask, Current
    <2>3. CASE job[t.job].status = "running" \/ j # t.job
      BY <1>1, <2>1, <2>3 DEF StartTask
    <2>4. CASE job[t.job].status # "running" /\ j = t.job
      <3>1. job[j].status \in {"dispatching", "queued"}
        BY <1>1, <2>4 DEF StartTask, Startable
      <3>2. job' = [job EXCEPT ![j] = [@ EXCEPT !.status = "running", !.token = 0, !.lapsed = FALSE]]
        BY <1>1, <2>4 DEF StartTask
      <3> QED
        BY <2>2, <2>4, <3>1, <3>2 DEF Moved
    <2> QED
      BY <2>3, <2>4
  <1>2. ASSUME NEW x \in work, Report(x) PROVE Kept(j) \/ Moved(j)
    BY <1>2 DEF Report, Accepts, Work, Moved
  <1>3. ASSUME NEW k \in Jobs, DeadlineLapses(k) PROVE Kept(j)
    BY <1>3 DEF DeadlineLapses
  <1> QED
    BY <1>1, <1>2, <1>3 DEF Execute, StartAnswersDone, StartConflicts, DeliveryLost, StoreAnswers,
       ReportReplayed, ReportConflicts, WorkerCrashes, StoreFails

LEMMA RowSteps == Dispatched /\ [Next]_vars => RowStep
  <1>1. ASSUME UNCHANGED vars PROVE RowStep
    BY <1>1 DEF vars, moving, RowStep, Kept
  <1> QED
    BY <1>1, RowCaller, RowDispatch, RowExecute DEF Next, Dispatched

\* Claims are made with the row they lease and told of the task they create.
LEMMA ClaimSteps ==
  ASSUME TypeOK, [Next]_vars, NEW c \in claims'
  PROVE  \/ \E b \in claims : /\ c.job = b.job /\ c.attempt = b.attempt /\ c.token = b.token
                              /\ c.reply = "ok" => b.reply = "ok"
                                   \/ [job |-> c.job, attempt |-> c.attempt] \in tasks'
         \/ /\ c.job \in Jobs /\ c.token = seq[c.job] /\ seq'[c.job] = seq[c.job] + 1
            /\ job'[c.job].attempt = c.attempt /\ c.reply = "unsent"
  <1> USE DEF TypeOK, Claim
  <1>1. ASSUME NEW d \in Dispatchers, NEW j \in Jobs, ClaimJob(d, j), c \notin claims
        PROVE  /\ c.job \in Jobs /\ c.token = seq[c.job] /\ seq'[c.job] = seq[c.job] + 1
               /\ job'[c.job].attempt = c.attempt /\ c.reply = "unsent"
    BY <1>1 DEF ClaimJob
  <1>2. ASSUME NEW b \in claims, NEW r, Replied(b, r), c \notin claims
        PROVE  c.job = b.job /\ c.attempt = b.attempt /\ c.token = b.token /\ c.reply = r
    BY <1>2 DEF Replied
  <1>3. ASSUME NEW b \in claims, EnqueueAccepted(b), c \notin claims
        PROVE  /\ c.job = b.job /\ c.attempt = b.attempt /\ c.token = b.token
               /\ [job |-> c.job, attempt |-> c.attempt] \in tasks'
    BY <1>2, <1>3 DEF EnqueueAccepted
  <1>4. ASSUME NEW b \in claims, NEW e \in ErrorKinds, EnqueueFails(b, e), c \notin claims
        PROVE  c.job = b.job /\ c.attempt = b.attempt /\ c.token = b.token /\ c.reply # "ok"
    BY <1>2, <1>4, MediaJobsAssumption DEF EnqueueFails
  <1>5. ASSUME Caller \/ Execute \/ UNCHANGED vars PROVE c \in claims
    BY <1>5 DEF Caller, Execute, CompleteUpload, RequestRetention, ConsumeReviewVideos, CompleteMove,
       RetentionElapses, Retry, StartTask, Report, DeadlineLapses, StartAnswersDone, StartConflicts,
       DeliveryLost, StoreAnswers, ReportReplayed, ReportConflicts, WorkerCrashes, StoreFails, vars, moving
  <1> QED
    BY <1>1, <1>3, <1>4, <1>5 DEF Next, Dispatch, Finalize, DispatcherCrashes, LeaseLapses

LEMMA TasksKept ==
  ASSUME TypeOK, [Next]_vars
  PROVE  tasks \subseteq tasks' /\ \A j \in Jobs : seq[j] <= seq'[j]
  <1>1. ASSUME NEW d \in Dispatchers, NEW j \in Jobs, ClaimJob(d, j)
        PROVE  tasks \subseteq tasks' /\ \A k \in Jobs : seq[k] <= seq'[k]
    BY <1>1 DEF TypeOK, ClaimJob
  <1>2. ASSUME NEW c \in claims, EnqueueAccepted(c) PROVE tasks \subseteq tasks' /\ seq' = seq
    BY <1>2 DEF EnqueueAccepted
  <1>3. ASSUME NEW c \in claims, NEW e \in ErrorKinds, EnqueueFails(c, e)
        PROVE  tasks \subseteq tasks' /\ seq' = seq
    BY <1>3 DEF EnqueueFails
  <1>4. ASSUME Caller \/ Execute PROVE tasks' = tasks /\ seq' = seq
    BY <1>4 DEF Caller, Execute, CompleteUpload, RequestRetention, ConsumeReviewVideos, CompleteMove,
       RetentionElapses, Retry, StartTask, Report, DeadlineLapses, StartAnswersDone, StartConflicts,
       DeliveryLost, StoreAnswers, ReportReplayed, ReportConflicts, WorkerCrashes, StoreFails
  <1>5. \A j \in Jobs : seq[j] <= seq[j]
    BY DEF TypeOK
  <1> QED
    BY <1>1, <1>2, <1>3, <1>4, <1>5 DEF Next, Dispatch, Finalize, DispatcherCrashes, LeaseLapses, vars, moving

LEMMA StepDispatched == Dispatched /\ [Next]_vars => Dispatched'
  <1> SUFFICES ASSUME Dispatched, [Next]_vars PROVE Dispatched'
    OBVIOUS
  <1>1. TypeOK /\ TypeOK' /\ RowStep
    BY StepType, RowSteps DEF Dispatched
  <1>0. NoRowBlank'
    BY <1>1 DEF Dispatched, NoRowBlank, RowStep, Kept, LeasedAnew, Moved
  <1>2. tasks \subseteq tasks' /\ \A j \in Jobs : seq[j] <= seq'[j] /\ seq[j] \in Nat /\ seq'[j] \in Nat
    BY <1>1, TasksKept DEF TypeOK
  <1>3. QueuedHasTask'
    BY <1>1, <1>2 DEF Dispatched, QueuedHasTask, RowStep, Kept, LeasedAnew, Moved
  <1>4. ASSUME NEW c \in claims'
        PROVE  /\ c.token < seq'[c.job]
               /\ job'[c.job].status = "dispatching" /\ job'[c.job].token = c.token
                    => job'[c.job].attempt = c.attempt
               /\ c.reply = "ok" => [job |-> c.job, attempt |-> c.attempt] \in tasks'
    <2>1. c.job \in Jobs /\ c.token \in Nat
      BY <1>1, <1>4 DEF TypeOK, Claim
    <2>2. ASSUME NEW b \in claims, c.job = b.job, c.attempt = b.attempt, c.token = b.token
          PROVE  /\ c.token < seq'[c.job]
                 /\ job'[c.job].status = "dispatching" /\ job'[c.job].token = c.token
                      => job'[c.job].attempt = c.attempt
      <3>1. /\ c.token < seq[c.job]
            /\ job[c.job].status = "dispatching" /\ job[c.job].token = c.token
                 => job[c.job].attempt = c.attempt
        BY <2>2 DEF Dispatched, ClaimsTrue
      <3>2. Kept(c.job) \/ LeasedAnew(c.job) \/ Moved(c.job)
        BY <1>1, <2>1 DEF RowStep
      <3> QED
        BY <1>2, <2>1, <3>1, <3>2 DEF Kept, LeasedAnew, Moved
    <2>3. ASSUME NEW b \in claims, c.job = b.job, c.attempt = b.attempt, b.reply = "ok"
          PROVE  [job |-> c.job, attempt |-> c.attempt] \in tasks'
      BY <1>2, <2>3 DEF Dispatched, ClaimsTrue
    <2> QED
      BY <1>1, <1>2, <2>1, <2>2, <2>3, ClaimSteps
  <1> QED
    BY <1>0, <1>1, <1>3, <1>4 DEF Dispatched, ClaimsTrue

LEMMA AlwaysDispatched == Spec => []Dispatched
  <1>1. Init => Dispatched
    BY InitType DEF Init, Dispatched, ClaimsTrue, QueuedHasTask, NoRowBlank, NoRow
  <1> QED
    BY <1>1, StepDispatched, PTL DEF Spec

\* finalize_background_job_dispatch: a row is queued or further only with its task.
THEOREM QueuedHasItsTask == Spec => []QueuedHasTask
  BY AlwaysDispatched, PTL DEF Dispatched

\* claim, start, finalize and retry: an attempt never moves backwards.
THEOREM AttemptsMoveForward == Spec => AttemptMovesForward
  <1>1. ASSUME Dispatched, [Next]_vars, NEW j \in Jobs
        PROVE  /\ job'[j].attempt \in {job[j].attempt, job[j].attempt + 1}
               /\ job'[j].attempt = job[j].attempt /\ job[j].status # "none"
                    => Rank(job[j].status) <= Rank(job'[j].status)
               /\ job'[j].attempt # job[j].attempt => job[j].status = "pending"
    <2>1. Kept(j) \/ LeasedAnew(j) \/ Moved(j)
      BY <1>1, RowSteps DEF RowStep
    <2>2. job[j].status \in JobStatus /\ job'[j].status \in JobStatus /\ job[j].attempt \in Nat
      BY <1>1, StepType DEF Dispatched, TypeOK, Row
    <2>3. CASE Kept(j)
      BY <2>2, <2>3 DEF Kept, Rank, JobStatus, Terminal
    <2>4. CASE LeasedAnew(j)
      BY <2>2, <2>4 DEF LeasedAnew, Rank
    <2>5. CASE Moved(j)
      BY <2>2, <2>5 DEF Moved, Rank, Terminal
    <2> QED
      BY <2>1, <2>3, <2>4, <2>5
  <1>2. Dispatched /\ [Next]_vars =>
          [\A j \in Jobs :
             /\ job'[j].attempt \in {job[j].attempt, job[j].attempt + 1}
             /\ job'[j].attempt = job[j].attempt /\ job[j].status # "none"
                  => Rank(job[j].status) <= Rank(job'[j].status)
             /\ job'[j].attempt # job[j].attempt => job[j].status = "pending"]_vars
    BY <1>1
  <1> QED
    BY <1>2, AlwaysDispatched, PTL DEF Spec, AttemptMovesForward

\* Every write of media_asset.status looks at the status first.
LEMMA DeletedStep ==
  ASSUME TypeOK, [Next]_vars, NEW a \in Assets, asset[a] = "deleted"
  PROVE  asset'[a] = "deleted"
  <1> USE DEF TypeOK
  <1>1. ASSUME NEW b \in Assets, CompleteUpload(b) PROVE asset'[a] = "deleted"
    BY <1>1 DEF CompleteUpload
  <1>2. ASSUME NEW S \in SUBSET Assets, ConsumeReviewVideos(S) PROVE asset'[a] = "deleted"
    BY <1>2 DEF ConsumeReviewVideos
  <1>3. ASSUME NEW j \in Jobs, Retry(j) PROVE asset'[a] = "deleted"
    BY <1>3 DEF Retry, Retryable, RetriedAsset, Expired, Jobs
  <1>4. ASSUME NEW w \in Workers, NEW t \in tasks, StartTask(w, t) PROVE asset'[a] = "deleted"
    BY <1>4 DEF StartTask, Startable, Task, Jobs
  <1>5. ASSUME NEW x \in work, Report(x) PROVE asset'[a] = "deleted"
    BY <1>5, JobNames DEF Report, Accepts, AssetAfter, Work, Jobs
  <1>6. ASSUME Dispatch \/ UNCHANGED vars PROVE asset' = asset
    BY <1>6 DEF Dispatch, ClaimJob, EnqueueAccepted, EnqueueFails, Finalize, DispatcherCrashes, LeaseLapses,
       vars, moving
  <1> QED
    BY <1>1, <1>2, <1>3, <1>4, <1>5, <1>6 DEF Next, Caller, Execute, RequestRetention, CompleteMove,
       RetentionElapses, DeadlineLapses, StartAnswersDone, StartConflicts, DeliveryLost, StoreAnswers,
       ReportReplayed, ReportConflicts, WorkerCrashes, StoreFails

\* complete_media_*: the first report of an attempt stands, and DELETED is final.
THEOREM OutcomesStand == Spec => OutcomeStands
  <1>1. ASSUME Dispatched, [Next]_vars, NEW j \in Jobs
        PROVE  /\ job[j].status = "succeeded" => job'[j].status = "succeeded"
               /\ job[j].status = "failed" =>
                    job'[j].status = "pending" \/ (job'[j].status = "failed" /\ job'[j].err = job[j].err)
    <2>1. Kept(j) \/ LeasedAnew(j) \/ Moved(j)
      BY <1>1, RowSteps DEF RowStep
    <2> QED
      BY <2>1 DEF Kept, LeasedAnew, Moved
  <1>2. Dispatched /\ [Next]_vars =>
          [/\ \A j \in Jobs :
                /\ job[j].status = "succeeded" => job'[j].status = "succeeded"
                /\ job[j].status = "failed" =>
                     job'[j].status = "pending" \/ (job'[j].status = "failed" /\ job'[j].err = job[j].err)
           /\ \A a \in Assets : asset[a] = "deleted" => asset'[a] = "deleted"]_vars
    BY <1>1, DeletedStep DEF Dispatched
  <1> QED
    BY <1>2, AlwaysDispatched, PTL DEF Spec, OutcomeStands
=============================================================================
