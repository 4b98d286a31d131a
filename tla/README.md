# A verification development for SEQRET_BE

SEQRET_BE is the backend of a moving-service product: FastAPI and asyncio, PostgreSQL as the
only durable state, Cloud Tasks and Pub/Sub between its processes, an object store for media,
Vertex AI for the analysis of inventory videos and NHN Cloud for messages to people.  This
directory holds TLA+ modules translated from `src/app`, the TLC configurations that check them
on small instances, and theorems checked by TLAPS for every value of the constants.

Contents: [the system](#1-the-system) · [plan](#2-plan) · [modules and code](#3-modules-and-code) ·
[runs](#4-runs) · [fairness](#5-fairness) · [proofs](#6-proofs) · [findings](#7-findings) ·
[what is not modelled](#8-what-is-not-modelled)

## 1. The system

Four kinds of process share the database:

* the **API** (`entrypoints/api.py`), any number of concurrent requests, a transaction or two each;
* the **worker** (`entrypoints/worker.py`), which receives Cloud Tasks, at least once and in any
  order, and answers 2xx (done), 4xx or 5xx (deliver again, up to five times);
* the **event pump** (`entrypoints/outbox_relay.py`), a Cloud Run job started every minute whose
  executions may overlap: it dispatches background jobs and analyses, relays the outbox, consumes
  notification events and delivers external notifications;
* **people** (customer, representative of the provider, field staff), through the API.

A transaction that takes its rows with `FOR UPDATE` is one step of a model.  What is read without
a lock, and everything between two transactions (a call to a queue, a provider or the object
store), is where other processes get in, and where a process may die.

| component | state it keeps | operations | hard behaviour | what makes it correct |
|---|---|---|---|---|
| Background jobs (`background_job`) | one row per (type, asset): status, attempt, dispatch token and lease, task name, schedule, error | create, claim, finalize, start, report, retry by an operator | leases that lapse, a worker faster than its dispatcher, stale reports, ambiguous enqueue replies | an accepted task is never lost, an attempt only moves forward, a reported outcome stands, media is not deleted early and its deletion is announced once |
| Media worker handlers (`media_processing`) | nothing durable; reads and deletes objects | validate, delete | the object store's reply is lost; two deliveries at once | success means the object is gone |
| Analysis workflow (`analysis_workflow`) | one dispatch row per capture: status, token, failure | submit, claim, finalize, start, complete (imports a draft scope), fail | the same lease protocol, and the scope chain read without a lock | one outcome per capture, announced once, a draft exactly on success |
| Analysis runs (`analysis`) | one run per capture: status, attempt, failure, output attempts | start, complete, fail, prepare a retry | a delivery that acts on a failure another delivery has already dealt with | attempts are bounded, a completed run is final |
| Outbox and relay (`platform/event_bus`) | outbox rows: status, token, lease, attempts | enqueue (in the caller's transaction), claim, publish, mark | overlap of pumps, publication whose reply is lost | an event is never lost and has its effect once |
| Notification consumer (`notification/consumer.py`, `service.py`) | `event_consumption` receipts, notification and delivery rows | pull, consume, acknowledge, nack | redelivery, ack deadline, partial failure of a pass, contacts read without a lock | one set of intents per event, to contacts that consented |
| External delivery (`notification/delivery.py`) | delivery rows: status, token, lease, attempts, next attempt | claim, send, record | leases counted from the start of a pass, late answers, lost passes | no message twice without a fault, decisions stand, every delivery ends |
| Contacts and memberships (`access/workspace.py`) | contact points per account and channel, memberships of participants | upsert, delete, join, revoke | withdrawal against pending deliveries | a withdrawn destination gets no new message |
| Scope (`scope`) | a chain of immutable versions, approvals per role, change requests | create version, approve, request and decide a change | two approvals, an edit during an approval, a change decided late | one locked version per approval round, no child of a stale parent |
| Scope review (`scope_review`) | proposals with quotes, revision requests | propose, request a revision, confirm | the customer confirms while the provider revises | a quote is confirmed with the version it was made for |
| Field changes (`field_change`) | field issues, change proposals with amounts | report, propose, decide, ask for an explanation | a decision after completion or after a newer version | an accepted change is the only child of its base |
| Dispatch (`dispatch`) | one setup, one plan and the check-ins of a job | set up, confirm, check in | the plan is confirmed for a version that is being replaced | a crew is sent out for an agreed version, and a stale dispatch stays stale |
| Completion (`completion`) | submissions, requests with expiry, confirmations per role, audit events | submit, request, decide, revoke, confirm directly | two paths to the same confirmations; expiry against a decision | a job completes once, with its evidence and both parties |
| Capture (`capture`) | sessions, media assets | create a session, sign an upload, complete it, submit | the storage is called between the first reads and the locks: uploads completed twice, or across the submission | what is submitted is what is analyzed, an upload is confirmed once |
| Analysis review (`analysis_review`) | nothing of its own: it adds a scope version and consumes videos | show the draft and its video, complete the review | a newer analysis or an edit between the reading and the review | a review takes its own videos, and nothing else does before the job is completed |
| Move jobs (`move_job`) | conditions, date and status of a job | create, patch, list, cancel | a cancellation races a quote, a new date a dispatch | a canceled job has no quote and no link |
| Access (`access/service.py`, `invitations.py`, `auth.py`, `router.py`) | links with generations, invitations as a tree of delegations, workspaces with sessions and move codes | issue, rotate, revoke; invite, accept, decline, reissue; connect | a request is let in by one transaction and acts in the next; the tree grows while it is being revoked | a live link has a live issuer, a session acts for whom its browser proved |
| Provider adapters (`platform/ai`, `storage`, `task_queue`, `notification`, `cache`) | nothing | one call each | timeouts, ambiguous answers | modelled as answers where they are used |

How they interact: the modules of the API enqueue outbox rows in their own transactions
(`enqueue_domain_event`); completion and analysis review create deletion jobs; a capture's
completed upload creates its validation job; a completed analysis imports a draft into the scope
chain; the notification consumer reads access's contacts, and changes of contacts and memberships
cancel deliveries.

`PROJECT.json` lists the hazards behind the column "hard behaviour", each at its line, with the
properties that would catch it.

## 2. Plan

The order is that of the damage a silent mistake would do and of how hard it is to test.

1. `MediaJobs`, media validation and retention deletion -- **done**, with `MediaJobsProofs`.
2. `AnalysisWorkflow` and the abstract `AnalysisOutcome` it implements -- **done**, with
   `AnalysisWorkflowProofs`.
3. `OutboxRelay`, from a committed event to its effect -- **done**, with `OutboxRelayProofs`;
   `Notifications`, from an event's intents to the provider -- **done**, with
   `NotificationsProofs`.
4. `Scope`: versions, approvals, quoted proposals, revisions, changes and direct completion of one
   job -- **done**, with `ScopeProofs`.
5. `Dispatch`, which extends `Scope`, and `Completion`, which extends `Dispatch`: submissions and
   expiring requests, the second path to a completed job, shown to implement `Scope`; and `Screens`,
   what the parties are shown -- **done**, with `CompletionProofs`.
6. `Access`: links, the invitation tree, workspaces -- **done**, with `AccessProofs`.
7. `Capture`, with the submission and the analysis review -- **done**, with `CaptureProofs`.
8. Left: the order in which requests lock the job row and the version row
   (`approve_scope_version` takes version then job, `create_scope_proposal` job then version; a
   cancellation and a reissue of an invitation also cross), which PostgreSQL resolves by aborting
   one of them; a delivery as "pending, then sent or failed, once" for `Notifications`; the jobs an
   operator creates with a link per role.

A run that checks safety under the fair specification also checks liveness: runs that share their
module are one.

## 3. Modules and code

Conventions.  A row is a record; status `"none"` is no row.  A token, a `uuid4()` in the code, is
a fresh number.  A clock is a flag saying that the deadline compared with it is past, set by an
action of its own, except in `Notifications`, where durations matter.  What a process remembers
between two transactions is a variable (`claims`, `work`, `pump`, `worker`, `relay`, `consumer`,
`pass`); a crash forgets it.  `faults` counts what goes wrong without anyone's fault and is
bounded by `MaxFaults`.  Formatting, logging, authorization headers and payloads are left out.
Comments marked "Mutant" precede altered copies of the next definition, which are never used in
the specification: they are what the properties are tested against.

**`MediaJobs`** (`background_job/service.py`, `media_processing`, `platform/task_queue`).  `job` is
the table, unique per type and asset; `asset` and `object` are the asset's status and the object
itself; `tasks`, `acked` and `tries` are the queue: a task name is created at most once, is
delivered any number of times up to `MaxDeliveries`, and stops at a 2xx.  Creation:
`CompleteUpload`, `ConsumeReviewVideos`, `CompleteMove` (with `RetentionElapses`),
`RequestRetention`, and `Retry` by an operator.  Dispatch: `ClaimJob` leases a pending row or one
whose lease lapsed; `EnqueueAccepted`/`EnqueueFails` is the call outside the transaction, where a
failure may still have created the task; `Finalize` is the second transaction, which must
recognize that a worker was faster.  Execution: `StartTask`, `StartConflicts`, `StartAnswersDone`
by the state of the row; `StoreAnswers`/`StoreFails`; `Report`, `ReportReplayed`,
`ReportConflicts`.  `DispatcherCrashes`, `WorkerCrashes` and `DeliveryLost` are faults;
`LeaseLapses` and `DeadlineLapses` are time.

**`AnalysisWorkflow`** (`analysis_workflow`, `analysis`, and the worker's `handle_analysis`).
`dispatch` and `run` are the two tables, `chain` the scope versions of the job, `ready` the
captures whose videos still exist, `events` what was announced.  A delivery goes through `Steps`:
`StartTask`, `Build`, `StartRun` or `Snapshot`, `ProviderAnswers`, `RecordOutcome`, then either
`PrepareRetry` (answers 5xx: the queue pays for the retry), or `FailDispatch`, or `LoadResult` and
`ImportDraft`.  `LoadResult` locks the dispatch row and reads the newest version of the job without
a lock; `ImportDraft` attaches the draft to it, and `ImportRefused` is the rolled back savepoint
when it is no longer the newest or a video is gone.  `Replayed` and `Conflicts` actions are the code's
idempotent returns and its 409 errors.  `ParticipantEdits` is an outside hand on the chain.
`reopen_analysis_run` has no caller and no action.

**`AnalysisOutcome`** is the promise: per capture none, open, completed or failed; a draft with a
completion; one announcement.  `AnalysisWorkflow!Outcome` instantiates it: the four open statuses
of a dispatch row map to "open", the captures in `chain` to `drafts`.

**`OutboxRelay`** (`platform/event_bus`, `notification/consumer.py`, `entrypoints/outbox_relay.py`).
`row` is `outbox_event`, `copies` the messages of each event in the subscription (a republished
event is a second message), each waiting, out with a consumer, acknowledged or dead.  `Claim` takes
a batch, `Published`/`PublishFails` its calls one by one, `Finalize` records them.  `Pull` takes
messages; `Consume` is one transaction that inserts the receipt and the intents, or finds the
receipt; `Acknowledge`, `AcknowledgeFails`, `Nack`, `PassAbandoned` are the consumer's ways out
(one failing nack abandons the rest of the batch); `DeadlineLapses` gives a message back.

**`Notifications`** (`notification/service.py`, `notification/delivery.py`, `access/workspace.py`).
`contact` and `member` are the people's side, one channel.  `ReadContacts`/`CommitIntents` are the
first read and the commit of one transaction: between them no lock protects the contacts.  A pass
claims rows one by one, at most `Width` calls at a time and `Batch` in all; `Claim` starts the call
at once, `Accepts`/`CallFails` is the provider, `Record` the second transaction.  Time is relative:
a pass has an age, and the lease and the next attempt of a row are counted from now.  One unit is
the longest provider call (10 s).  `Lease - age` is `locked_until = started_at + lease_seconds`
seen from the moment of the claim, and a failed row is due one unit after the pass started.
`Prompt` says what a pass does without delay; time passes over a pass that could still do
something only as a fault, a stall.

**`Scope`** (`scope`, `scope_review`, `field_change`, `completion.confirm_completion`, and the
patch and cancel of `move_job`).  The versions of a job form a chain, so they are numbered by
`sequence_number` up to `head` and "has no child" is "is the head"; `author`, `approvals` and
`locked` describe each, `proposal` and `revision` the quote whose result it is.  `change` is the
table of change requests, a plain one of the field worker or one quoted by the company for an
issue; `confirmed` is each side's completion confirmation.  `Extends` holds the checks of
`create_scope_version`, which six actions go through: `CreateScopeVersion`,
`ImportAnalysisDraft`, `PatchMoveJob`, `CreateScopeProposal`, `ApproveChange` and
`ApproveChangeProposal`.  `Approve` holds those of `approve_scope_version`.  A request is one
transaction and one action: the version row or the job row is locked, and the rows it inserts
refer to the job, which makes the insert wait for a holder of the job row.
`request_scope_revision` locks the proposal only and is two actions, `CheckScopeRevision` and
`RequestScopeRevision`.  Content, amounts, media and participants are abstracted to the roles
that act; an evidence check is a refusal, and a refused request is no step.

**`Dispatch`** (`dispatch`) extends `Scope` with the snapshot of the crew (`setup`), the plan, the
check-ins and the date.  `day` is today seen from the day the setup was made for: a new date after
the setup (`Reschedule`) does not move it, as in the code.  `CurrentLocked` is
`_current_locked_scope`.  Vehicles, skills and certificates are left out.

**`Completion`** (`completion`) extends `Dispatch` with the records of the work (`submission`), the
requests for the customer's review (`request`) and the evidence both carry.  The order of the rows
in time is the order of the sequences.  `ConfirmRequest` is `decide_completion_request`, which
writes both confirmations where they are missing and completes the job; `ConfirmDirectly` adds the
evidence to `Scope`'s `ConfirmCompletion`.  `asset` is the part of the media the completion looks
at; `retained` are the retention jobs it creates, whose execution is `MediaJobs`.

**`Screens`** reads the state of `Completion` as the list of moves, the scope review and history,
the field brief and the completion summary do, each with its own way to find the price.  It has no
steps.

**`Access`** (`access`).  `link` is the newest link of each participant of one job, `"other"` the
manager of a second job, who makes workspaces with several jobs possible; `invitation` the
invitation of the company and of the field worker.  A request is two transactions: `Authenticate`
or `AuthenticateByCookie` lets it in and remembers on what; the command follows as an action of its
own, when all of that may be gone.  A revocation, reissue or cancellation is two steps: `Begin`
locks the invitations it finds, `Commit` writes; meanwhile other commands go on, and a session
created in between may survive (`joined`, `kept`).  `crossed` records the participants whose link
was issued while their issuer's was being revoked or was already gone: the code checks the issuer
once, at authentication.  Who holds a session (`cookie`) and what was presented for it (`proven`)
are kept per browser.  Secrets are numbers; the cryptography of the move code is an admission by
`ReadMoveCode`.

**`Capture`** (`capture`, the submission and the import of `analysis_workflow`,
`analysis_review`).  `owner` are the sessions, `asset` the media with their capture, `frozen` what
`capture_submitted.v1` named, `asked` what each request to the provider was about, `chain` the
versions of the job as far as a draft and its child matter.  `call` is a client's request between
its two steps: `SignUpload` then `CreateUpload`, `CheckUpload` then `CompleteUpload` (the storage
is called in between and everything is read again under the locks), `BeginReview` (which locks the
dispatch row) then `CompleteAnalysisReview`.  `Validate` and `DeleteMedia` stand for `MediaJobs`,
and the three analysis actions keep the promise of `AnalysisOutcome` (`AnalysesKeepPromise`).

The `MC` modules declare the model values, the symmetry sets and, for `MCAccess` and `MCCompletion`,
bounded specifications.  Symmetry is used in runs without fairness only.

## 4. Runs

| run | instance | shows |
|---|---|---|
| `media_safety` | 1 asset, 1 dispatcher, 2 workers, 2 attempts, 2 deliveries, 1 fault | retention, one deletion announced once, no lost task, no attempt that goes backwards, an outcome that stands; a due job settles |
| `media_exhausted` (violation) | 1 asset, 1 dispatcher, 1 worker, 1 attempt | a job whose deliveries are used up stays QUEUED |
| `analysis_safety` | 1 capture, 2 pumps, 2 workers, limits 5/2/5 as deployed, 1 edit, 2 faults | the workflow implements `AnalysisOutcome`; completed runs stand; attempts bounded; a submitted analysis reaches an outcome |
| `analysis_reopened` (violation) | 1 capture, 2 workers, 3 attempts, 4 deliveries, two deliveries at a time | a run is reopened after its dispatch row was finalized |
| `capture_safety` | 2 captures, a video, a photograph and a piece of evidence, 2 requests at a time, 2 edits | what was submitted is analyzed, reviews and videos go together, uploads are confirmed once |
| `outbox_safety` | 1 event, 2 relays, 2 consumers, 4 deliveries, 3 faults | an effect for every event, once; nothing lost, duplicates only after faults |
| `notify_delivery` | 2 events, 1 recipient, 2 accounts, 2 passes, lease 3, a pass each unit, batch 2 one at a time, 2 attempts, 1 fault, 3 edits | rows tell the truth, decisions stand, no duplicates without a fault, every delivery ends |
| `notify_late_claim` (violation) | 3 events, lease 2, a pass every 2 units, batch 3, no fault | a row claimed late is sent twice |
| `notify_consent` (violation) | 1 event, 2 destinations, 1 pass, no fault | a delivery to a withdrawn contact stays pending |
| `completion_safety` | 3 versions, 2 changes, 1 issue, 2 workers, 1 medium, 2 records, 2 requests | the agreement of `Scope`, its dispatch, both ways to complete the job, the screens; the composition implements `Scope` |
| `scope_decider` (violation) | 3 versions, 1 change, 1 issue | the company decides on the change it quoted |
| `access_safety` | 2 browsers, 2 workspaces, 4 secrets | delegations, connections and sessions under revocation |

Why the bounds are enough to be interesting.  The races are between *two* parties: two holders of
a lease, two deliveries of one task, two requests to complete an upload, a stale report and its
successor; a third adds interleavings of the same pairs.  Two attempts make one retry, two
deliveries one duplicate.  Jobs of different assets and rows of different events share nothing but
the processes that carry them, hence one asset in `media_safety` and one event in `outbox_safety`,
whose copies make the batches.  Captures share the chain of versions: two of them compete in
`capture_safety`, one is followed through all its deliveries in `analysis_safety`, and
`WorkflowKeepsPromise` is proved for any number.  There a second delivery of a task while the first
is still running is one of the faults, and so is a crash, a lost reply or a lost delivery:
two faults are a duplicate and a crash, or two duplicates, which is what `analysis_reopened` needs.
In `notify_delivery` a lease covers a whole batch, in `notify_late_claim` it does not: the default
settings (batch 100, ten calls at a time, 10 s, lease 60 s, a pass every minute) are of the second
kind.

`completion_safety` explores every history of three versions and two competing changes until a crew
is set up, and from there on the histories with one change whose first version is the customer's
(`OrdinaryHistory`): what comes after the setup reads of the earlier versions only whether they are
agreed and quoted.  One medium gives two evidence sets, the empty one and the full one; that two
different non-empty sets are told apart is proved.  `access_safety` replaces one secret, by a
rotation or a reissue: the three links of the job make three secrets, the fourth is the
replacement.  Requests overlap freely until the first session exists, after it one thing happens at
a time (`QuietSessions`), and links lapse while nobody has a session (`EarlyLapses`); the theorems
hold without these bounds.  In `capture_safety` a video and a photograph are the two kinds of
inventory, and the evidence the only purpose that is announced; two edits are a version of each
party.

Deadlock checking is off in every configuration: when every job has settled the system stops,
and bounds on faults, edits and rows stop it as well.

Every property of a passing run has a mutant in `PROJECT.json`: a slip in one mapped definition
that makes TLC report that property.

## 5. Fairness

Liveness is checked under `LiveSpec`, and only for what something outside the process drives:

* **Claims and pulls** get strong fairness, over *some* dispatcher, relay or consumer: Cloud
  Scheduler starts an event pump every minute, for ever, and a pass takes what is due.  Strong,
  because a row is not continuously claimable while another pass comes and goes.
* **Starting a task** gets strong fairness: Cloud Tasks keeps delivering within its limit.  A
  delivery beside one that is still running is a fault, and no fault is owed.
* **Steps of a pump pass or a worker request that has begun** get weak fairness: the code has no
  waiting between them but calls with timeouts.  A process that dies instead is a fault.
* **Time**: leases, deadlines and acknowledgement deadlines pass (weak fairness).
* In `Notifications` a pass starts when the scheduler's interval is over, a live pass works, a
  pass at its time limit is ended, and time passes.

Nobody owes a fault, an edit, an operator's retry or an answer of a person.  Faults are finite,
which is the only sense in which liveness survives them: with as many faults as deliveries,
`media_exhausted` shows what happens.  `Settles` therefore excludes a task whose deliveries
faults, duplicates among them, used up, and `TakesEffect` is checked with fewer faults than deliveries.

## 6. Proofs

Eight modules, each extending its component's module.  They prove, for every value of the
constants that satisfies the named assumption of that module, what the passing runs check on small
instances.  The type invariant of every component is a theorem (`TypeCorrect` and its like) and
part of no run.

**`MediaJobsProofs`.**  The inductive invariant conjoins the type, `RetentionHonoured`,
`SuccessMeansGone`, `DeletedEventOnce` and `AssetTracksValidation` with three strengthenings.
`DeletionPermitted`: a deletion row past PENDING, or pending for "now", and every deletion a worker
holds, is permitted; without it nothing stops a worker that is already on its way.
`DeletionWorkKnows`: a worker that knows of a success has seen the object go.  `UploadComesFirst`:
an asset with a job is past its upload, the only step that brings an object.  One lemma per group
of actions and conjunct, combined in the theorem's step; TLC checked the invariant first.
`RowStep` says what a step may do to a row; with `ClaimsTrue` (the holder of a lease has the current
attempt, and what it was told of its task is so) it gives `QueuedHasTask`, `AttemptMovesForward` and
`OutcomeStands`.

**`AnalysisWorkflowProofs`.**  `WorkflowKeepsPromise` proves `Spec => OutcomeRefined`, that every
step of the workflow is a step or a stutter of `AnalysisOutcome`.  The invariant it needs says what
makes completion happen once: `ImportLocks` (a worker that imports has locked its capture's dispatch
row, alone, and the row is running), `WorkersStarted` (a worker in the middle of a delivery belongs
to a started row), `RepliesTrue` and `TaskBacked` (a pump that was told of an acceptance, and a row
that is queued or further, have a task).  The same invariant gives `StartedStaysStarted`,
`CompletedRunStands` and `AttemptsBounded`.

**`OutboxRelayProofs`.**  `NothingLost` is not inductive: it needs that what a relay was told is
in the subscription (`RepliesTrue`), that what a row calls published is (`PublishedTrue`), that
consumers hold messages that exist (`HeldExists`), that a pass acknowledges only what has a
receipt (`AckFollowsReceipt`), and that therefore an acknowledged message has one
(`AckedConsumed`).  The lemma `Grows` carries most steps: the subscription only grows, and a
message becomes acknowledged only with its event's receipt in place.
`NoNeedlessDuplicates` needs the other direction, as long as nothing went wrong (`Clean`): every
claim holds its lease, every lease has its claim, and the claim knows whether the message is
published.  A lease that lapses under its relay is counted as a fault, because the publications of a
batch run concurrently inside the lease (`platform/event_bus/service.py:265-266`).

**`ScopeProofs`.**  What `completion_safety` checks of the agreement, for any number of versions,
changes and issues.  The lemma `StepKinds` sorts the actions by what they do to the chain and to
the changes: `Edit` (a version on an unlocked head), `Discussed` (a change asked for, discussed or
rejected), `Approved` (a change approved), and the rest.  The invariant adds two strengthenings.
`FutureBlank`: nothing is recorded of a version before it exists, so that a new one starts without
approvals.  `RevisingStands`: the lock on the proposal row keeps it as `request_scope_revision`
checked it, although the version may get a child.  The conjuncts need each other: no edit follows
a confirmation because the confirmed head is locked, and no approval of a change does because none
is open.  `Succeeded` is `LockedSucceededByChange` change by change, without the sets of results.
`PriceInv` is what the screens need: a version has one price (`OnePrice`), a priced version has an
agreed proposal behind it with nothing proposed in between (`PricesRest`), and a change is quoted
on a version that is priced (`QuotedOnPrice`).  It is inductive on top of the invariant: only an
approved change follows a locked version, and it was quoted on that version.

**`CompletionProofs`.**  `ImplementsAgreement` proves `CompletionSpec => Spec`: every step of the
composition is a step or a stutter of `Scope`, so `Scope`'s invariant holds of it
(`AgreementKept`) and may be used for the rest.  The invariant of the composition conjoins its
properties with `SubmissionsDispatched`: every record is of the dispatched scope, by the
representative who leads and checked in.  `StaleStaysStale` rests on the head
only growing: a version that was replaced is never the head again.
`ScreensAgree` follows from `PriceInv`, state by state: each query looks for the nearest agreed
proposal in its own way, by a walk or by a maximum, and the proofs exhibit the row that all of them
find.  `CompletedPaperStands` needs that the quote of a locked version stays (`AgreedQuoteStands`)
and `PaperKept`: a job that was completed without a record has nothing open against its scope, and
the evidence of a decided request was validated.

**`CaptureProofs`.**  What an action does to an asset, an analysis, the deletions and the versions
is summed up in four relations between the two states of a step (`Moves`); one lemma per group of
actions shows that it is such a move, and the invariant is shown to be kept by moves.  The
strengthenings are `FrozenInv` (the inventory of a submitted capture is READY or deleted, which is
why no upload joins it and no validation changes it), `DoomedInv` (only what was uploaded is
deleted, by a deletion job), `ReviewedInv`, and `CallsInv`, what a request knows between its two
steps: an identifier nobody else has, an asset that is there, an analysis that stays completed.
`AnalysesKeepPromise` shows that `Capture` implements `AnalysisOutcome` as well: no edit or review
of the chain makes or loses a draft, so the two models agree on what an analysis is.

**`AccessProofs`.**  `LinksConnectOnce` needs that a link that was used has connected unless its
invitation is pending (`SecretsUsed`, `Unconnected`).  `SessionsStayProven` needs that an
account exists before it is used and that one browser holds its cookie: whoever attaches a
participant attaches it to an account nobody else is signed in to (`SessionInv`).
`RevokedTakesDelegates` needs, while a revocation is between its two steps, that the invitations it
holds cover the whole branch below its root, except for those issued across it (`DelInv`,
`WalkCovers`).

**`NotificationsProofs`.**  `CountsTrue` is strengthened by the attempts under way: each call of a
row has an attempt of its own (`OwnAttempts`), no later than the row counts, and messages taken
plus attempts still unanswered are no more than the attempts counted (`Budget`), which makes a lost
pass, any part of whose calls may arrive, harmless to the count.  `DecisionStands` needs that an
event without a receipt has no rows.

`NoDuplicateUnlessFault` proves `NoNeedlessDuplicates` under an assumption of its own,
`LeaseCoversBatch`: `Batch <= Width * (Lease - 1)` and `Batch <= Width * (MaxAge - 1)`, that is, the
calls of a full batch, `Width` at a time and a time unit each, are over before the leases, which
count from the start of the pass, and before the pass is stopped.  The invariant (`PaceInv`) is
that a pass is never late: at age *t* it has claimed at least `Width * t` rows while it claims, what
it still waits for is of the last unit, and a pending row that was claimed is held under a lease by
the pass that calls for it.  The assumption is no convenience.  TLC finds a duplicate as soon as
either half of it fails by one (lease 2, batch 2, width 1; limit 2 with lease 3), and the deployed
settings do not satisfy it: 100 rows, ten at a time, calls of up to 10 s, a lease of 60 s would need
`100 <= 10 * 5`.  That is finding 3, `notify_late_claim`.  A batch of 50 would satisfy its first half.

Every invariant and every action property of a passing run is stated by a theorem.  Only
model-checked is liveness (`DueJobsSettle`, `Settles`, `TakesEffect`, `EveryDeliveryEnds`): the prover
has neither fairness nor `ENABLED`.  The assumptions are those the component modules name, on the
types and ranges of their constants, and `LeaseCoversBatch` for the one theorem.

## 7. Findings

1. **A task whose deliveries are exhausted before its start commits cannot be re-run**
   (`media_exhausted`).  The row stays QUEUED: claims take PENDING and lapsed DISPATCHING rows,
   the operator's retry FAILED and overdue RUNNING ones.  `docs/TECH_STACK.md:99` promises that an
   operator can re-run exhausted tasks.
2. **A run is reopened after its dispatch row was finalized** (`analysis_reopened`).
   `prepare_analysis_retry` compares status and attempts, not the failure.  A delivery that still
   holds a retryable failure reopens a run that another delivery has since failed for good.  The
   comment at `entrypoints/worker.py:227-231` says this cannot happen.
3. **A lease that does not cover its call** (`notify_late_claim`).  `locked_until` of every claim
   is counted from the start of the pass.  `platform/event_bus/service.py:265-266` takes care of
   the same problem by publishing concurrently; `delivery.py` claims row by row to avoid it and
   then passes the old clock.
4. **A delivery to a withdrawn contact stays pending** (`notify_consent`), through the unlocked
   read of the contacts, and through memberships revoked before the withdrawal.
5. **The company can decide on the change it quoted** (`scope_decider`).  The decision endpoint of
   plain change requests lets both approver roles in and takes any pending request of the job.
   `docs/API_SPEC.md:795` and `docs/CONTRACTS.md:79` leave the decision on a quoted change to the
   customer alone.  An approval given there also leaves the result version unlocked, where the
   quoted path locks it in the same transaction.

Not counted as findings, because no run is spent on them or because no document decides:

* *Analysis.*  `docs/CONTRACTS.md:155` says that an output with bad sources is refused as
  `source_map / invalid_input / retryable=false`, while `_reject_output`
  (`platform/ai/vertex.py:209-222`) raises it retryable; the model lets the provider answer either
  way.  Duplicates of a task may use up its deliveries while the run is RUNNING; `Spent` names that
  case.
* *Notifications.*  The limit of five attempts is compared only when an answer is recorded, so lost
  passes may exceed it.
* *Dispatch and completion.*  A dispatch that became stale stays so, as `docs/API_SPEC.md:357` says,
  and there is one setup per job: after an approved change nothing can be submitted any more
  (`completion/service.py:621-622`), and only the direct confirmations complete the job.  Any worker
  of the crew may lead the plan, but only a plan led by the representative can be submitted
  (`docs/CONTRACTS.md:107` asks for the representative among the candidates, not as the lead).  A
  new date after the setup leaves the day of the check-in where it was.  After the retention
  deletion of its evidence the summary of a completed job is refused, while
  `docs/CONTRACTS.md:168` promises the state of the documents.
* *Screens.*  The field brief of a scope that both sides approved directly is refused while its
  proposal is still at the customer (`dispatch/service.py:78-82`).  After both sides directly
  confirmed a newer scope, the summary and the documents still name the scope and price of the
  latest record.  After an unpriced version the list of moves shows the quote of the latest
  proposal, the review none.  `ScreensAgree` states what remains.
* *Access.*  The invitation of a field worker that is issued or reissued across the revocation of
  the company survives it (`crossed`), and so may a workspace membership created meanwhile;
  `docs/CONTRACTS.md:20` asks for both to go in one transaction.  A move code that is read before a
  cancellation and used after it accepts an invitation of the canceled job.
* *Capture.*  The consent notice (`capture/router.py:104-107`) promises the deletion of the media
  some days after completion; the code schedules the evidence (`completion/service.py:296-306`,
  `1149-1158`), and everything else only when the company asks for it asset by asset.  A new
  analysis after a review cannot be imported, and the review answers 409 from then on, which
  `docs/API_SPEC.md` 6.6 documents.  Videos of a draft that was replaced unreviewed stay.  Condition
  media may become READY between two attempts, which then see different media.

## 8. What is not modelled

* The adapters (`platform/ai`, `storage`, `cache`) and the formatting of provider requests: they
  appear as the set of answers, errors and lost replies that their callers see.
* HTTP parsing, error bodies, logging and authorization headers; database migrations; the Redis
  rate limiter, which has no protocol.
* Rooms and zones, which nothing but the forms of the capture reads; the layout of the documents;
  vehicles, skills and certificates of a dispatch; amounts, other than which row they come from.
* Jobs that an operator creates with a link for each role and without invitations; sessions of
  captures older than the consent columns, which refuse every operation; listings that only read.
* Locks as such: a transaction that locks its rows is one step.  Deadlocks between transactions
  that lock the job row and a version or invitation row in opposite order end, in PostgreSQL, with
  one of them rolled back, which is a refused request here.
* Time in seconds appears only in `Notifications`, as the proportions of calls, leases and
  intervals.
