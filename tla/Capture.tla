------------------------------ MODULE Capture ------------------------------
(***************************************************************************)
(* The media of one move job from the upload to the customer's review of   *)
(* the draft made from them: capture/service.py, the submission of         *)
(* analysis_workflow/service.py, analysis_review/service.py.               *)
(*                                                                         *)
(* Two commands call the object storage between their first reads and the  *)
(* locks they write under, and a review locks its analysis before it looks *)
(* at the versions: `call` is what a client's request holds in between.    *)
(* Validation and deletion are those of MediaJobs, an analysis keeps the   *)
(* promise of AnalysisOutcome, the versions those of Scope; of a job that  *)
(* has agreed on a version only what matters to the media goes on.         *)
(***************************************************************************)
EXTENDS Naturals, Sequences, FiniteSets

CONSTANTS Captures,  \* capture_session rows
          Assets,    \* media_asset rows
          Purpose,   \* what each asset is uploaded for
          Clients,   \* concurrent requests of the participants
          MaxEdits   \* bound: versions made by the participants

Inventory == {"video", "photo"}          \* MediaPurpose.INVENTORY, by content type
Purposes  == Inventory \cup {"condition", "completion"}
Parties   == {"customer", "provider"}

ASSUME CaptureAssumption ==
  /\ Purpose \in [Assets -> Purposes]
  /\ MaxEdits \in Nat
  /\ Captures \cap (Parties \cup {"none"}) = {}

VARIABLES
  job,       \* move_job.status: open, completed or canceled
  owner,     \* capture_session.created_by_participant_id; "none" is no row
  asset,     \* media_asset.status and capture_session_id
  doomed,    \* assets with a MEDIA_RETENTION_DELETE job
  announced, \* completion_media_submitted.v1 events of each asset
  outcome,   \* capture_analysis_dispatch: none, open, completed or failed
  frozen,    \* inventory_media_asset_ids of capture_submitted.v1
  latest,    \* the capture the customer submitted last
  asked,     \* the analysis requests sent to the provider: sets of assets
  chain,     \* the scope versions, oldest first: a capture's draft or a party's edit
  locked,    \* scope_version.locked_at of the newest version
  reviewed,  \* captures whose review was answered as completed
  call       \* the request of each client between its two steps

media    == <<asset, doomed, announced>>
analysis == <<outcome, frozen, latest, asked>>
scope    == <<chain, locked, reviewed>>
vars     == <<job, owner, media, analysis, scope, call>>

Statuses == {"none", "pending_upload", "uploaded", "processing", "ready", "failed", "deleted"}
Asset    == [status : Statuses, capture : Captures \cup {"none"}]
Call     == [op : {"create", "complete", "review", "none"},
             asset : Assets \cup {"none"}, capture : Captures \cup {"none"}]
Idle     == [op |-> "none", asset |-> "none", capture |-> "none"]

Init ==
  /\ job = "open"
  /\ owner = [c \in Captures |-> "none"]
  /\ asset = [a \in Assets |-> [status |-> "none", capture |-> "none"]]
  /\ doomed = {}
  /\ announced = [a \in Assets |-> 0]
  /\ outcome = [c \in Captures |-> "none"]
  /\ frozen = [c \in Captures |-> {}]
  /\ latest = "none"
  /\ asked = [c \in Captures |-> {}]
  /\ chain = <<>> /\ locked = FALSE /\ reviewed = {}
  /\ call = [k \in Clients |-> Idle]

Of(c, purposes) == {a \in Assets : asset[a].capture = c /\ Purpose[a] \in purposes}
In(a, statuses) == asset[a].status \in statuses
Becomes(a, s)   == asset' = [asset EXCEPT ![a].status = s]

Free(k)         == call[k] = Idle
Holds(k, op)    == call[k].op = op
Starts(k, r)    == call' = [call EXCEPT ![k] = r]
Ends(k)         == call' = [call EXCEPT ![k] = Idle]

-----------------------------------------------------------------------------
(* Sessions and uploads *)

OpenJob == job = "open"
\* Mutant: the submission is not looked for under the lock of the capture.
SubmittedOrNot(c) == TRUE
Unsubmitted(c) == outcome[c] = "none"

CreateCaptureSession(c, p) ==
  /\ OpenJob
  /\ owner[c] = "none"
  /\ owner' = [owner EXCEPT ![c] = p]
  /\ UNCHANGED <<job, media, analysis, scope, call>>

\* create_media_upload reads the session and the job and has the upload URL signed.
SignUpload(k, c, a) ==
  /\ Free(k)
  /\ owner[c] # "none" /\ OpenJob
  /\ In(a, {"none"}) /\ \A l \in Clients : call[l].asset # a
  /\ Starts(k, [op |-> "create", asset |-> a, capture |-> c])
  /\ UNCHANGED <<job, owner, media, analysis, scope>>

CreateUpload(k) ==
  LET c == call[k].capture IN
  /\ Holds(k, "create")
  /\ OpenJob /\ Unsubmitted(c)
  /\ asset' = [asset EXCEPT ![call[k].asset] = [status |-> "pending_upload", capture |-> c]]
  /\ Ends(k)
  /\ UNCHANGED <<job, owner, doomed, announced, analysis, scope>>

\* complete_media_upload finds the object in the storage, as it was announced.
CheckUpload(k, a) ==
  /\ Free(k)
  /\ OpenJob /\ In(a, {"pending_upload"})
  /\ Starts(k, [op |-> "complete", asset |-> a, capture |-> asset[a].capture])
  /\ UNCHANGED <<job, owner, media, analysis, scope>>

\* Everything is read again under the locks.  The validation job comes with the
\* status, the event with evidence of the completion.
\* Mutant: the first read of the asset is trusted.
PendingBefore(a) == TRUE
Unconfirmed(a) == In(a, {"pending_upload"})

CompleteUpload(k) ==
  LET a == call[k].asset IN
  /\ Holds(k, "complete")
  /\ OpenJob /\ Unsubmitted(call[k].capture) /\ Unconfirmed(a)
  /\ Becomes(a, "uploaded")
  /\ announced' = IF Purpose[a] = "completion" THEN [announced EXCEPT ![a] = @ + 1] ELSE announced
  /\ Ends(k)
  /\ UNCHANGED <<job, owner, doomed, analysis, scope>>

\* The request ends with nothing done: refused by what it reads under the locks,
\* answered from what is there, a storage error, a lost process.
Refuse(k) ==
  /\ ~Free(k)
  /\ Ends(k)
  /\ UNCHANGED <<job, owner, media, analysis, scope>>

-----------------------------------------------------------------------------
(* Validation and deletion *)

Deletable == {"uploaded", "ready", "failed"}

Validate(a) ==
  /\ \/ In(a, {"uploaded", "failed"}) /\ Becomes(a, "processing")
     \/ In(a, {"processing"}) /\ \E s \in {"ready", "failed"} : Becomes(a, s)
  /\ UNCHANGED <<job, owner, doomed, announced, analysis, scope, call>>

RequestRetention(a) ==
  /\ job = "completed" /\ In(a, Deletable) /\ a \notin doomed
  /\ doomed' = doomed \cup {a}
  /\ UNCHANGED <<job, owner, asset, announced, analysis, scope, call>>

DeleteMedia(a) ==
  /\ a \in doomed
  /\ Becomes(a, "deleted")
  /\ UNCHANGED <<job, owner, doomed, announced, analysis, scope, call>>

\* The customer's confirmation schedules the deletion of the evidence it confirms.
CompleteMove(S) ==
  /\ OpenJob /\ locked
  /\ \A a \in S : Purpose[a] = "completion" /\ In(a, {"uploaded", "ready"})
  /\ job' = "completed"
  /\ doomed' = doomed \cup S
  /\ UNCHANGED <<owner, asset, announced, analysis, scope, call>>

CancelMoveJob ==
  /\ OpenJob
  /\ job' = "canceled"
  /\ UNCHANGED <<owner, media, analysis, scope, call>>

-----------------------------------------------------------------------------
(* Analysis *)

SubmitCaptureAnalysis(c) ==
  LET inventory == Of(c, Inventory) IN
  /\ owner[c] # "none"
  /\ OpenJob /\ Unsubmitted(c)
  /\ inventory # {} /\ \A a \in inventory : In(a, {"ready"})
  /\ outcome' = [outcome EXCEPT ![c] = "open"]
  /\ frozen' = [frozen EXCEPT ![c] = inventory]
  /\ latest' = IF owner[c] = "customer" THEN c ELSE latest
  /\ UNCHANGED <<job, owner, media, asked, scope, call>>

\* One per delivery and attempt, the last of which may come after the outcome.
BuildAnalysisRequest(c) ==
  LET sources == {a \in Of(c, Inventory \cup {"condition"}) : In(a, {"ready"})} IN
  /\ ~Unsubmitted(c)
  /\ sources # {}
  /\ asked' = [asked EXCEPT ![c] = @ \cup {sources}]
  /\ UNCHANGED <<job, owner, media, outcome, frozen, latest, scope, call>>

\* A draft without a parent is the first version; otherwise it replaces the newest
\* draft, if nobody has edited or agreed on that.
Newest == IF chain = <<>> THEN "none" ELSE chain[Len(chain)]
Attachable == chain = <<>> \/ (Newest \in Captures /\ ~locked)

CompleteAnalysis(c) ==
  /\ outcome[c] = "open"
  /\ \E sources \in asked[c] : \E a \in sources : In(a, {"uploaded", "ready"})
  /\ Attachable
  /\ outcome' = [outcome EXCEPT ![c] = "completed"]
  /\ chain' = Append(chain, c)
  /\ UNCHANGED <<job, owner, media, frozen, latest, asked, locked, reviewed, call>>

FailAnalysis(c) ==
  /\ outcome[c] = "open"
  /\ outcome' = [outcome EXCEPT ![c] = "failed"]
  /\ UNCHANGED <<job, owner, media, frozen, latest, asked, scope, call>>

-----------------------------------------------------------------------------
(* Versions and the review *)

Edits == {i \in DOMAIN chain : chain[i] \in Parties}

CreateScopeVersion(p) ==
  /\ ~locked /\ Cardinality(Edits) < MaxEdits
  /\ chain' = Append(chain, p)
  /\ UNCHANGED <<job, owner, media, analysis, locked, reviewed, call>>

\* approve_scope_version by the second party, which no draft of the analysis gets.
AgreeOnHead ==
  /\ Newest \in Parties /\ ~locked
  /\ locked' = TRUE
  /\ UNCHANGED <<job, owner, media, analysis, chain, reviewed, call>>

\* _latest_owned_analysis, with its lock: the newest submission or nothing.
Reviewable(c) == latest = c /\ outcome[c] = "completed"

BeginReview(k, c) ==
  /\ Free(k)
  /\ Reviewable(c)
  /\ Starts(k, [op |-> "review", asset |-> "none", capture |-> c])
  /\ UNCHANGED <<job, owner, media, analysis, scope>>

\* Who made the version that follows the draft of c.
HasChildBy(c, p) == \E i \in 1..Len(chain) - 1 : chain[i] = c /\ chain[i + 1] = p
\* Mutant: whoever made the child.
AnyChild(c) == HasChildBy(c, "customer") \/ HasChildBy(c, "provider")
Child(c) == HasChildBy(c, "customer")

\* _consume_review_videos
ConsumeReviewVideos(c) ==
  LET used == {a \in Of(c, {"video"}) : In(a, {"ready", "deleted"})} IN
  /\ doomed' = doomed \cup used
  /\ asset' = [a \in Assets |-> IF a \in used THEN [asset[a] EXCEPT !.status = "deleted"]
                                              ELSE asset[a]]

\* The customer's version follows the draft, or did already: a replay.
CompleteAnalysisReview(k) ==
  LET c == call[k].capture IN
  /\ Holds(k, "review")
  /\ \/ Child(c) /\ chain' = chain
     \/ Newest = c /\ ~locked /\ chain' = Append(chain, "customer")
  /\ ConsumeReviewVideos(c)
  /\ reviewed' = reviewed \cup {c}
  /\ Ends(k)
  /\ UNCHANGED <<job, owner, announced, analysis, locked>>

\* get_analysis_review serves a video while the review, if any, is the customer's.
Shown(c) == Reviewable(c) /\ (Newest = c \/ Child(c))
Preview(c) == IF Shown(c) THEN {a \in Of(c, {"video"}) : In(a, {"ready"})} ELSE {}

-----------------------------------------------------------------------------
Uploading(k) ==
  \/ \E c \in Captures, a \in Assets : SignUpload(k, c, a)
  \/ \E a \in Assets : CheckUpload(k, a)
  \/ CreateUpload(k) \/ CompleteUpload(k) \/ Refuse(k)

Submitting ==
  \E c \in Captures : \/ \E p \in Parties : CreateCaptureSession(c, p)
                      \/ SubmitCaptureAnalysis(c)

Analyzing == \E c \in Captures : BuildAnalysisRequest(c) \/ CompleteAnalysis(c) \/ FailAnalysis(c)

Background == \E a \in Assets : Validate(a) \/ RequestRetention(a) \/ DeleteMedia(a)

Agreeing ==
  \/ \E p \in Parties : CreateScopeVersion(p)
  \/ AgreeOnHead \/ CancelMoveJob
  \/ \E S \in SUBSET Assets : CompleteMove(S)

Reviewing(k) == (\E c \in Captures : BeginReview(k, c)) \/ CompleteAnalysisReview(k)

Next ==
  \/ Submitting \/ Analyzing \/ Background \/ Agreeing
  \/ \E k \in Clients : Uploading(k) \/ Reviewing(k)
Spec == Init /\ [][Next]_vars

-----------------------------------------------------------------------------
(* Properties *)

TypeOK ==
  /\ job \in {"open", "completed", "canceled"}
  /\ owner \in [Captures -> Parties \cup {"none"}]
  /\ asset \in [Assets -> Asset]
  /\ \A a \in Assets : asset[a].status = "none" <=> asset[a].capture = "none"
  /\ doomed \subseteq Assets
  /\ announced \in [Assets -> Nat]
  /\ outcome \in [Captures -> {"none", "open", "completed", "failed"}]
  /\ frozen \in [Captures -> SUBSET Assets]
  /\ latest \in Captures \cup {"none"}
  /\ asked \in [Captures -> SUBSET SUBSET Assets]
  /\ chain \in Seq(Captures \cup Parties) /\ locked \in BOOLEAN
  /\ reviewed \subseteq Captures
  /\ call \in [Clients -> Call]

\* docs/CONTRACTS.md: the submission freezes the inventory.  What the event named is the
\* inventory of the capture for good, whatever uploads were under way, and every
\* request, of whichever attempt, is about all of it that no deletion has claimed.
InventoryFrozen ==
  \A c \in Captures : outcome[c] # "none" =>
    /\ Of(c, Inventory) = frozen[c]
    /\ \A sources \in asked[c] : frozen[c] \ doomed \subseteq sources

\* A completed review leaves no video of its capture to be seen and none without a
\* deletion, and stands on the customer's version of its draft; while the job is not
\* completed nothing else takes a video away.
VideosGoWithReview ==
  /\ \A c \in reviewed : /\ HasChildBy(c, "customer")
                         /\ Of(c, {"video"}) \subseteq doomed /\ Preview(c) = {}
  /\ \A a \in Assets : /\ Purpose[a] = "video" /\ (In(a, {"deleted"}) \/ a \in doomed)
                       => asset[a].capture \in reviewed \/ job = "completed"

\* However many completions of one upload pass the storage check together, the upload
\* is confirmed, and the evidence announced, once.
ConfirmedOnce ==
  \A a \in Assets :
    announced[a] = IF Purpose[a] = "completion" /\ ~In(a, {"none", "pending_upload"}) THEN 1 ELSE 0
=============================================================================
