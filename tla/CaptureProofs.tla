--------------------------- MODULE CaptureProofs ---------------------------
(***************************************************************************)
(* Proofs about Capture.  What an action does to an asset, an analysis and *)
(* the versions is summed up once, as a relation between the two states of *)
(* a step (Moves); the invariant is kept by every step that is such a      *)
(* move, whichever action it is.                                           *)
(***************************************************************************)
EXTENDS Capture, TLAPS

\* What a request holds between its steps: an identifier nobody else has, an asset
\* that is there, an analysis that is completed.
Calls(k) ==
  /\ Holds(k, "create") => /\ call[k].asset \in Assets /\ call[k].capture \in Captures
                           /\ asset[call[k].asset].status = "none"
  /\ Holds(k, "complete") => /\ call[k].asset \in Assets /\ call[k].capture \in Captures
                             /\ asset[call[k].asset].capture = call[k].capture
  /\ Holds(k, "review") => /\ call[k].capture \in Captures
                           /\ outcome[call[k].capture] = "completed"
CallsInv ==
  /\ \A k \in Clients : Calls(k)
  /\ \A k, l \in Clients : Holds(k, "create") /\ Holds(l, "create")
                           /\ call[k].asset = call[l].asset => k = l

\* Only what was uploaded is deleted, and only by a deletion job.
DoomedInv ==
  /\ \A a \in doomed : asset[a].status \notin {"none", "pending_upload"}
  /\ \A a \in Assets : asset[a].status = "deleted" => a \in doomed

\* The inventory of a submitted capture is READY or deleted.
FrozenInv ==
  \A c \in Captures :
    /\ outcome[c] = "none" => asked[c] = {}
    /\ outcome[c] # "none" =>
         /\ Of(c, Inventory) = frozen[c]
         /\ \A a \in frozen[c] : asset[a].status \in {"ready", "deleted"}
         /\ \A sources \in asked[c] : frozen[c] \ doomed \subseteq sources

ReviewedInv ==
  /\ \A c \in reviewed : /\ outcome[c] = "completed"
                         /\ HasChildBy(c, "customer")
                         /\ \A a \in Of(c, {"video"}) : asset[a].status = "deleted"
  /\ \A a \in doomed : Purpose[a] = "video" => asset[a].capture \in reviewed \/ job = "completed"

CaptureInv == TypeOK /\ CallsInv /\ DoomedInv /\ FrozenInv /\ ReviewedInv /\ ConfirmedOnce

-----------------------------------------------------------------------------
(* What a step may do *)

\* An asset stays as it is, is created or confirmed for a capture that is not submitted,
\* is validated, or is deleted with a deletion job.
AssetMoves(a) ==
  \/ asset'[a] = asset[a] /\ announced'[a] = announced[a]
  \/ /\ asset[a].status = "none" /\ asset'[a].status = "pending_upload"
     /\ asset'[a].capture \in Captures /\ outcome[asset'[a].capture] = "none"
     /\ outcome' = outcome /\ announced'[a] = announced[a]
  \/ /\ asset'[a].capture = asset[a].capture
     /\ \/ /\ asset[a].status = "pending_upload" /\ asset'[a].status = "uploaded"
           /\ outcome[asset[a].capture] = "none" /\ outcome' = outcome
           /\ announced'[a] = IF Purpose[a] = "completion" THEN announced[a] + 1 ELSE announced[a]
        \/ /\ asset[a].status \in {"uploaded", "failed", "processing"}
           /\ asset'[a].status \in {"processing", "ready", "failed"}
           /\ announced'[a] = announced[a]
        \/ /\ asset[a].status \notin {"none", "pending_upload"}
           /\ asset'[a].status = "deleted" /\ a \in doomed'
           /\ announced'[a] = announced[a]

DoomedMoves ==
  /\ doomed \subseteq doomed'
  /\ job = "completed" => job' = "completed"
  /\ \A a \in doomed' \ doomed :
       /\ asset[a].status \notin {"none", "pending_upload"}
       /\ Purpose[a] = "video" => asset[a].capture \in reviewed' \/ job' = "completed"

\* An analysis waits, is submitted with a READY inventory, or goes on; what it asks the
\* provider about is READY then.
AnalysisMoves(c) ==
  \/ outcome[c] = "none" /\ outcome'[c] = "none" /\ asked'[c] = asked[c]
  \/ /\ outcome[c] = "none" /\ outcome'[c] = "open" /\ asked'[c] = asked[c]
     /\ asset' = asset /\ frozen'[c] = Of(c, Inventory)
     /\ \A a \in Of(c, Inventory) : asset[a].status = "ready"
  \/ /\ outcome[c] # "none" /\ outcome'[c] # "none" /\ frozen'[c] = frozen[c]
     /\ outcome[c] = "completed" => outcome'[c] = "completed"
     /\ \A sources \in asked'[c] :
          \/ sources \in asked[c]
          \/ /\ asset' = asset
             /\ \A a \in Of(c, Inventory) : asset[a].status = "ready" => a \in sources

ScopeMoves ==
  /\ chain' = chain \/ \E x \in Captures \cup Parties : chain' = Append(chain, x)
  /\ reviewed \subseteq reviewed'
  /\ \A c \in reviewed' \ reviewed :
       /\ outcome[c] = "completed" /\ outcome' = outcome /\ HasChildBy(c, "customer")'
       /\ \A a \in Of(c, {"video"}) :
            asset[a].status \in {"ready", "deleted"} => asset'[a].status = "deleted"

Moves ==
  /\ \A a \in Assets : AssetMoves(a)
  /\ \A c \in Captures : AnalysisMoves(c)
  /\ DoomedMoves /\ ScopeMoves

\* A status that changes changes alone.
LEMMA OneStatus ==
  ASSUME TypeOK, NEW a \in Assets, NEW s \in Statuses, Becomes(a, s)
  PROVE  /\ \A b \in Assets : b # a => asset'[b] = asset[b]
         /\ asset'[a].status = s /\ asset'[a].capture = asset[a].capture
         /\ asset' \in [Assets -> Asset]
  <1>1. asset \in [Assets -> Asset]
    BY DEF TypeOK
  <1>2. asset' = [asset EXCEPT ![a] = [asset[a] EXCEPT !.status = s]]
    BY DEF Becomes
  <1>3. asset[a] = [status |-> asset[a].status, capture |-> asset[a].capture]
    BY <1>1 DEF Asset
  <1>4. asset[a].capture \in Captures \cup {"none"}
    BY <1>1 DEF Asset
  <1>5. [asset[a] EXCEPT !.status = s] = [status |-> s, capture |-> asset[a].capture]
    BY <1>3
  <1>6. [asset[a] EXCEPT !.status = s] \in Asset
    BY <1>4, <1>5 DEF Asset
  <1> QED
    BY <1>1, <1>2, <1>5, <1>6

LEMMA UploadTyped ==
  ASSUME TypeOK, CallsInv, NEW k \in Clients, Uploading(k)
  PROVE  TypeOK'
  <1>1. ASSUME NEW c \in Captures, NEW a \in Assets, SignUpload(k, c, a) PROVE TypeOK'
    <2>1. [op |-> "create", asset |-> a, capture |-> c] \in Call
      BY DEF Call
    <2> QED
      BY <1>1, <2>1 DEF SignUpload, Starts, TypeOK, media, analysis, scope
  <1>2. ASSUME NEW a \in Assets, CheckUpload(k, a) PROVE TypeOK'
    <2>1. asset[a].capture \in Captures \cup {"none"}
      BY DEF TypeOK, Asset
    <2>2. [op |-> "complete", asset |-> a, capture |-> asset[a].capture] \in Call
      BY <2>1 DEF Call
    <2> QED
      BY <1>2, <2>2 DEF CheckUpload, Starts, TypeOK, media, analysis, scope
  <1>3. Idle \in Call
    BY DEF Idle, Call
  <1>4. CASE CreateUpload(k)
    <2>1. call[k].asset \in Assets /\ call[k].capture \in Captures
      BY <1>4 DEF CreateUpload, CallsInv, Calls
    <2>2. [status |-> "pending_upload", capture |-> call[k].capture] \in Asset
      BY <2>1 DEF Asset, Statuses
    <2>3. call[k].capture # "none"
      BY <2>1, CaptureAssumption
    <2> DEFINE row == [status |-> "pending_upload", capture |-> call[k].capture]
    <2>4. asset' = [asset EXCEPT ![call[k].asset] = row] /\ row \in Asset
          /\ row.status # "none" /\ row.capture # "none"
      BY <1>4, <2>2, <2>3 DEF CreateUpload
    <2> HIDE DEF row
    <2>5. asset' \in [Assets -> Asset]
          /\ \A a \in Assets : asset'[a].status = "none" <=> asset'[a].capture = "none"
      BY <2>1, <2>4 DEF TypeOK
    <2> QED
      BY <1>3, <1>4, <2>5 DEF CreateUpload, Ends, TypeOK, analysis, scope
  <1>5. CASE CompleteUpload(k)
    <2>1. call[k].asset \in Assets /\ asset[call[k].asset].status # "none"
      BY <1>5 DEF CompleteUpload, CallsInv, Calls, Unconfirmed, In
    <2>2. asset' \in [Assets -> Asset]
          /\ \A a \in Assets : asset'[a].status = "none" <=> asset'[a].capture = "none"
      BY <1>5, <2>1, OneStatus DEF CompleteUpload, TypeOK, Statuses
    <2>3. announced' \in [Assets -> Nat]
      BY <1>5, <2>1 DEF CompleteUpload, TypeOK
    <2> QED
      BY <1>3, <1>5, <2>2, <2>3 DEF CompleteUpload, Ends, TypeOK, analysis, scope
  <1>6. CASE Refuse(k)
    BY <1>3, <1>6 DEF Refuse, Ends, TypeOK, media, analysis, scope
  <1> QED
    BY <1>1, <1>2, <1>4, <1>5, <1>6 DEF Uploading

LEMMA SubmitTyped == TypeOK /\ Submitting => TypeOK'
  <1> SUFFICES ASSUME TypeOK, Submitting PROVE TypeOK'
    OBVIOUS
  <1>1. ASSUME NEW c \in Captures, NEW p \in Parties, CreateCaptureSession(c, p) PROVE TypeOK'
    BY <1>1 DEF CreateCaptureSession, TypeOK, media, analysis, scope
  <1>2. ASSUME NEW c \in Captures, SubmitCaptureAnalysis(c) PROVE TypeOK'
    BY <1>2 DEF SubmitCaptureAnalysis, TypeOK, media, scope, Of
  <1> QED
    BY <1>1, <1>2 DEF Submitting

LEMMA AnalyzeTyped == TypeOK /\ Analyzing => TypeOK'
  <1> SUFFICES ASSUME TypeOK, NEW c \in Captures,
                      BuildAnalysisRequest(c) \/ CompleteAnalysis(c) \/ FailAnalysis(c)
               PROVE  TypeOK'
    BY DEF Analyzing
  <1>1. CASE BuildAnalysisRequest(c)
    BY <1>1 DEF BuildAnalysisRequest, TypeOK, media, scope, Of
  <1>2. CASE CompleteAnalysis(c)
    <2>1. Append(chain, c) \in Seq(Captures \cup Parties)
      BY DEF TypeOK
    <2> QED
      BY <1>2, <2>1 DEF CompleteAnalysis, TypeOK, media
  <1>3. CASE FailAnalysis(c)
    BY <1>3 DEF FailAnalysis, TypeOK, media, scope
  <1> QED
    BY <1>1, <1>2, <1>3

LEMMA BackgroundTyped == TypeOK /\ DoomedInv /\ Background => TypeOK'
  <1> SUFFICES ASSUME TypeOK, DoomedInv, NEW a \in Assets,
                      Validate(a) \/ RequestRetention(a) \/ DeleteMedia(a)
               PROVE  TypeOK'
    BY DEF Background
  <1>1. ASSUME NEW s \in Statuses \ {"none"}, Becomes(a, s), asset[a].status # "none"
        PROVE  /\ asset' \in [Assets -> Asset]
               /\ \A b \in Assets : asset'[b].status = "none" <=> asset'[b].capture = "none"
    BY <1>1, OneStatus DEF TypeOK
  <1>2. CASE Validate(a)
    <2>1. asset[a].status # "none" /\ \E s \in Statuses \ {"none"} : Becomes(a, s)
      BY <1>2 DEF Validate, In, Statuses
    <2> QED
      BY <1>1, <1>2, <2>1 DEF Validate, TypeOK, analysis, scope
  <1>3. CASE RequestRetention(a)
    BY <1>3 DEF RequestRetention, TypeOK, analysis, scope
  <1>4. CASE DeleteMedia(a)
    <2>1. asset[a].status # "none" /\ Becomes(a, "deleted") /\ "deleted" \in Statuses \ {"none"}
      BY <1>4 DEF DeleteMedia, DoomedInv, Statuses
    <2> QED
      BY <1>1, <1>4, <2>1 DEF DeleteMedia, TypeOK, analysis, scope
  <1> QED
    BY <1>2, <1>3, <1>4

LEMMA AgreeTyped == TypeOK /\ Agreeing => TypeOK'
  <1> SUFFICES ASSUME TypeOK, Agreeing PROVE TypeOK'
    OBVIOUS
  <1>1. ASSUME NEW p \in Parties, CreateScopeVersion(p) PROVE TypeOK'
    <2>1. Append(chain, p) \in Seq(Captures \cup Parties)
      BY DEF TypeOK
    <2> QED
      BY <1>1, <2>1 DEF CreateScopeVersion, TypeOK, media, analysis
  <1>2. CASE AgreeOnHead
    BY <1>2 DEF AgreeOnHead, TypeOK, media, analysis
  <1>3. CASE CancelMoveJob
    BY <1>3 DEF CancelMoveJob, TypeOK, media, analysis, scope
  <1>4. ASSUME NEW S \in SUBSET Assets, CompleteMove(S) PROVE TypeOK'
    BY <1>4 DEF CompleteMove, TypeOK, analysis, scope
  <1> QED
    BY <1>1, <1>2, <1>3, <1>4 DEF Agreeing

\* The videos a review consumes, asset by asset.
LEMMA Consumed ==
  ASSUME TypeOK, NEW c \in Captures, ConsumeReviewVideos(c)
  PROVE  /\ asset' \in [Assets -> Asset]
         /\ \A a \in Assets :
              /\ asset'[a].capture = asset[a].capture
              /\ \/ asset'[a] = asset[a]
                    /\ ~(a \in Of(c, {"video"}) /\ asset[a].status \in {"ready", "deleted"})
                 \/ /\ a \in Of(c, {"video"}) /\ asset[a].status \in {"ready", "deleted"}
                    /\ asset'[a].status = "deleted" /\ a \in doomed'
         /\ doomed \subseteq doomed' /\ doomed' \subseteq Assets
         /\ \A a \in doomed' \ doomed : /\ a \in Of(c, {"video"})
                                        /\ asset[a].status \in {"ready", "deleted"}
  <1> DEFINE used == {a \in Of(c, {"video"}) : In(a, {"ready", "deleted"})}
             gone(a) == [status |-> "deleted", capture |-> asset[a].capture]
  <1>1. doomed' = doomed \cup used /\ used \subseteq Assets
    BY DEF ConsumeReviewVideos, Of
  <1>2. ASSUME NEW a \in Assets
        PROVE  [asset[a] EXCEPT !.status = "deleted"] = gone(a) /\ gone(a) \in Asset
    <2>1. asset[a] = [status |-> asset[a].status, capture |-> asset[a].capture]
          /\ asset[a].capture \in Captures \cup {"none"}
      BY DEF TypeOK, Asset
    <2> QED
      BY <2>1 DEF Asset, Statuses
  <1>3. asset' = [a \in Assets |-> IF a \in used THEN [asset[a] EXCEPT !.status = "deleted"]
                                                 ELSE asset[a]]
    BY DEF ConsumeReviewVideos
  <1>4. asset' = [a \in Assets |-> IF a \in used THEN gone(a) ELSE asset[a]]
    BY <1>2, <1>3
  <1>5. asset' \in [Assets -> Asset]
    BY <1>2, <1>4 DEF TypeOK
  <1>6. ASSUME NEW a \in used PROVE asset'[a].status = "deleted" /\ asset'[a].capture = asset[a].capture
    BY <1>4, <1>6, <1>1
  <1>7. ASSUME NEW a \in Assets \ used PROVE asset'[a] = asset[a]
    BY <1>4, <1>7
  <1> QED
    BY <1>1, <1>5, <1>6, <1>7 DEF TypeOK, In

LEMMA ReviewTyped ==
  ASSUME TypeOK, CallsInv, NEW k \in Clients, Reviewing(k)
  PROVE  TypeOK'
  <1>1. ASSUME NEW c \in Captures, BeginReview(k, c) PROVE TypeOK'
    <2>1. [op |-> "review", asset |-> "none", capture |-> c] \in Call
      BY DEF Call
    <2> QED
      BY <1>1, <2>1 DEF BeginReview, Starts, TypeOK, media, analysis, scope
  <1>2. CASE CompleteAnalysisReview(k)
    <2> DEFINE c == call[k].capture
    <2>1. c \in Captures /\ Idle \in Call
      BY <1>2 DEF CompleteAnalysisReview, CallsInv, Calls, Idle, Call
    <2>2. chain' \in Seq(Captures \cup Parties)
      <3>1. chain' = chain \/ chain' = Append(chain, "customer")
        BY <1>2 DEF CompleteAnalysisReview
      <3>2. "customer" \in Captures \cup Parties /\ chain \in Seq(Captures \cup Parties)
        BY DEF Parties, TypeOK
      <3>3. Append(chain, "customer") \in Seq(Captures \cup Parties)
        BY <3>2
      <3> QED
        BY <3>1, <3>2, <3>3
    <2>3. ConsumeReviewVideos(c)
      BY <1>2 DEF CompleteAnalysisReview
    <2> HIDE DEF c
    <2>4. asset' \in [Assets -> Asset] /\ doomed' \subseteq Assets
          /\ \A a \in Assets : asset'[a].status = "none" <=> asset'[a].capture = "none"
      <3>1. /\ asset' \in [Assets -> Asset]
            /\ \A a \in Assets :
                 /\ asset'[a].capture = asset[a].capture
                 /\ \/ asset'[a] = asset[a]
                    \/ asset[a].status \in {"ready", "deleted"} /\ asset'[a].status = "deleted"
            /\ doomed' \subseteq Assets
        BY <2>1, <2>3, Consumed
      <3> QED
        BY <3>1 DEF TypeOK
    <2>5. reviewed' \subseteq Captures
      BY <1>2, <2>1 DEF CompleteAnalysisReview, TypeOK, c
    <2> QED
      BY <1>2, <2>1, <2>2, <2>4, <2>5 DEF CompleteAnalysisReview, Ends, TypeOK, analysis
  <1> QED
    BY <1>1, <1>2 DEF Reviewing

LEMMA StepTyped == TypeOK /\ CallsInv /\ DoomedInv /\ [Next]_vars => TypeOK'
  <1> SUFFICES ASSUME TypeOK, CallsInv, DoomedInv, [Next]_vars PROVE TypeOK'
    OBVIOUS
  <1>1. CASE UNCHANGED vars
    BY <1>1 DEF vars, media, analysis, scope, TypeOK
  <1> QED
    BY <1>1, SubmitTyped, AnalyzeTyped, BackgroundTyped, AgreeTyped, UploadTyped, ReviewTyped
       DEF Next

-----------------------------------------------------------------------------
(* Every step is a move *)

LEMMA StillMedia == UNCHANGED media => \A a \in Assets : AssetMoves(a)
  BY DEF media, AssetMoves

LEMMA StillAnalysis == TypeOK /\ UNCHANGED analysis => \A c \in Captures : AnalysisMoves(c)
  BY DEF analysis, AnalysisMoves, TypeOK

LEMMA StillScope == UNCHANGED scope => ScopeMoves
  BY DEF scope, ScopeMoves

LEMMA StillDoomed == UNCHANGED <<doomed, job>> => DoomedMoves
  BY DEF DoomedMoves

\* A request goes on unless it ends, and an identifier is used by the one who holds it.
CallMoves ==
  /\ \A l \in Clients : call'[l] = call[l] \/ call'[l] = Idle
  /\ \A a \in Assets : asset[a].status = "none" =>
       \/ asset'[a].status = "none"
       \/ \E l \in Clients : Holds(l, "create") /\ call[l].asset = a /\ call'[l] = Idle

LEMMA StillCalls == UNCHANGED <<asset, call>> => CallMoves
  BY DEF CallMoves

LEMMA EndedCalls ==
  ASSUME TypeOK, NEW k \in Clients, Ends(k)
  PROVE  /\ call'[k] = Idle
         /\ \A l \in Clients : call'[l] = call[l] \/ call'[l] = Idle
  BY DEF Ends, TypeOK

LEMMA UploadMoves ==
  ASSUME CaptureInv, NEW k \in Clients, CreateUpload(k) \/ CompleteUpload(k) \/ Refuse(k)
  PROVE  Moves /\ CallMoves
  <1> USE DEF CaptureInv
  <1>1. DoomedMoves /\ ScopeMoves /\ \A c \in Captures : AnalysisMoves(c)
    <2>1. UNCHANGED <<doomed, job>> /\ UNCHANGED scope /\ UNCHANGED analysis
      BY DEF CreateUpload, CompleteUpload, Refuse, media
    <2> QED
      BY <2>1, StillDoomed, StillScope, StillAnalysis
  <1>2. Ends(k)
    BY DEF CreateUpload, CompleteUpload, Refuse
  <1>3. CASE CreateUpload(k)
    <2> DEFINE b == call[k].asset
               c == call[k].capture
               row == [status |-> "pending_upload", capture |-> c]
    <2>1. b \in Assets /\ c \in Captures /\ asset[b].status = "none" /\ Holds(k, "create")
      BY <1>3 DEF CreateUpload, CallsInv, Calls
    <2>2. asset' = [asset EXCEPT ![b] = row] /\ outcome[c] = "none"
          /\ announced' = announced /\ outcome' = outcome
          /\ row.status = "pending_upload" /\ row.capture = c
      BY <1>3 DEF CreateUpload, Unsubmitted, analysis
    <2>a. b = call[k].asset
      OBVIOUS
    <2> HIDE DEF row, b, c
    <2>3. asset'[b] = row /\ \A a \in Assets : a # b => asset'[a] = asset[a]
      BY <2>1, <2>2 DEF TypeOK
    <2>4. ASSUME NEW a \in Assets PROVE AssetMoves(a)
      BY <2>1, <2>2, <2>3 DEF AssetMoves
    <2>5. CallMoves
      BY <2>1, <2>3, <2>a, <1>2, EndedCalls DEF CallMoves
    <2> QED
      BY <1>1, <2>4, <2>5 DEF Moves
  <1>4. CASE CompleteUpload(k)
    <2> DEFINE b == call[k].asset
    <2>1. b \in Assets /\ asset[b].status = "pending_upload" /\ Becomes(b, "uploaded")
          /\ outcome[asset[b].capture] = "none" /\ outcome' = outcome
      BY <1>4 DEF CompleteUpload, Unconfirmed, Unsubmitted, In, CallsInv, Calls, analysis
    <2>2. /\ \A a \in Assets : a # b => asset'[a] = asset[a] /\ announced'[a] = announced[a]
          /\ announced'[b] = IF Purpose[b] = "completion" THEN announced[b] + 1 ELSE announced[b]
      BY <1>4, <2>1, OneStatus DEF CompleteUpload, TypeOK, Statuses
    <2>3. asset'[b].status = "uploaded" /\ asset'[b].capture = asset[b].capture
      BY <2>1, OneStatus DEF Statuses
    <2> HIDE DEF b
    <2>4. ASSUME NEW a \in Assets PROVE AssetMoves(a)
      BY <2>1, <2>2, <2>3 DEF AssetMoves
    <2>5. CallMoves
      BY <2>1, <2>2, <1>2, EndedCalls DEF CallMoves
    <2> QED
      BY <1>1, <2>4, <2>5 DEF Moves
  <1>5. CASE Refuse(k)
    <2>1. UNCHANGED media
      BY <1>5 DEF Refuse
    <2>2. CallMoves
      BY <1>2, <2>1, EndedCalls DEF CallMoves, media
    <2> QED
      BY <1>1, <2>1, <2>2, StillMedia DEF Moves
  <1> QED
    BY <1>3, <1>4, <1>5

LEMMA SubmitMoves == CaptureInv /\ Submitting => Moves /\ CallMoves
  <1> SUFFICES ASSUME CaptureInv, Submitting PROVE Moves /\ CallMoves
    OBVIOUS
  <1> USE DEF CaptureInv
  <1>1. ASSUME NEW c \in Captures, NEW p \in Parties, CreateCaptureSession(c, p)
        PROVE  Moves /\ CallMoves
    <2>1. UNCHANGED media /\ UNCHANGED analysis /\ UNCHANGED scope /\ UNCHANGED <<job, call>>
      BY <1>1 DEF CreateCaptureSession
    <2> QED
      BY <2>1, StillMedia, StillAnalysis, StillScope, StillDoomed, StillCalls DEF Moves, media
  <1>2. ASSUME NEW c \in Captures, SubmitCaptureAnalysis(c) PROVE Moves /\ CallMoves
    <2>1. UNCHANGED media /\ UNCHANGED scope /\ UNCHANGED <<job, call>>
      BY <1>2 DEF SubmitCaptureAnalysis
    <2>2. /\ outcome[c] = "none" /\ outcome'[c] = "open" /\ frozen'[c] = Of(c, Inventory)
          /\ \A a \in Of(c, Inventory) : asset[a].status = "ready"
          /\ asked' = asked /\ asset' = asset
          /\ \A d \in Captures : d # c => outcome'[d] = outcome[d] /\ frozen'[d] = frozen[d]
      BY <1>2 DEF SubmitCaptureAnalysis, Unsubmitted, In, TypeOK, media
    <2>3. ASSUME NEW d \in Captures PROVE AnalysisMoves(d)
      BY <2>2 DEF AnalysisMoves, TypeOK
    <2> QED
      BY <2>1, <2>3, StillMedia, StillScope, StillDoomed, StillCalls DEF Moves, media
  <1> QED
    BY <1>1, <1>2 DEF Submitting

LEMMA AnalyzeMoves == CaptureInv /\ Analyzing => Moves /\ CallMoves
  <1> SUFFICES ASSUME CaptureInv, NEW c \in Captures,
                      BuildAnalysisRequest(c) \/ CompleteAnalysis(c) \/ FailAnalysis(c)
               PROVE  Moves /\ CallMoves
    BY DEF Analyzing
  <1> USE DEF CaptureInv
  <1>1. UNCHANGED media /\ UNCHANGED <<job, call>>
    BY DEF BuildAnalysisRequest, CompleteAnalysis, FailAnalysis
  <1>2. (\A a \in Assets : AssetMoves(a)) /\ DoomedMoves /\ CallMoves
    BY <1>1, StillMedia, StillDoomed, StillCalls DEF media
  <1>3. ScopeMoves
    BY DEF BuildAnalysisRequest, CompleteAnalysis, FailAnalysis, scope, ScopeMoves
  <1>4. CASE BuildAnalysisRequest(c)
    <2> DEFINE sources == {a \in Of(c, Inventory \cup {"condition"}) : In(a, {"ready"})}
    <2>1. /\ asked' = [asked EXCEPT ![c] = @ \cup {sources}]
          /\ outcome[c] # "none" /\ outcome' = outcome /\ frozen' = frozen /\ asset' = asset
      BY <1>4 DEF BuildAnalysisRequest, Unsubmitted, media
    <2>2. \A a \in Of(c, Inventory) : asset[a].status = "ready" => a \in sources
      BY DEF Of, In
    <2> HIDE DEF sources
    <2>3. ASSUME NEW d \in Captures PROVE AnalysisMoves(d)
      BY <2>1, <2>2 DEF AnalysisMoves, TypeOK
    <2> QED
      BY <1>2, <1>3, <2>3 DEF Moves
  <1>5. CASE CompleteAnalysis(c) \/ FailAnalysis(c)
    <2>1. /\ outcome[c] = "open" /\ outcome'[c] \in {"completed", "failed"}
          /\ frozen' = frozen /\ asked' = asked
          /\ \A d \in Captures : d # c => outcome'[d] = outcome[d]
      BY <1>5 DEF CompleteAnalysis, FailAnalysis, TypeOK
    <2>2. ASSUME NEW d \in Captures PROVE AnalysisMoves(d)
      BY <2>1 DEF AnalysisMoves, TypeOK
    <2> QED
      BY <1>2, <1>3, <2>2 DEF Moves
  <1> QED
    BY <1>4, <1>5

LEMMA BackgroundMoves == CaptureInv /\ Background => Moves /\ CallMoves
  <1> SUFFICES ASSUME CaptureInv, NEW b \in Assets,
                      Validate(b) \/ RequestRetention(b) \/ DeleteMedia(b)
               PROVE  Moves /\ CallMoves
    BY DEF Background
  <1> USE DEF CaptureInv
  <1>1. UNCHANGED analysis /\ UNCHANGED scope /\ UNCHANGED <<job, call, announced>>
    BY DEF Validate, RequestRetention, DeleteMedia
  <1>2. (\A c \in Captures : AnalysisMoves(c)) /\ ScopeMoves
    BY <1>1, StillAnalysis, StillScope
  <1>3. CASE Validate(b)
    <2>1. PICK s \in {"processing", "ready", "failed"} : Becomes(b, s)
      BY <1>3 DEF Validate
    <2>2. asset[b].status \in {"uploaded", "failed", "processing"} /\ doomed' = doomed
      BY <1>3 DEF Validate, In
    <2>3. /\ \A a \in Assets : a # b => asset'[a] = asset[a]
          /\ asset'[b].status = s /\ asset'[b].capture = asset[b].capture
      BY <2>1, OneStatus DEF Statuses
    <2>4. ASSUME NEW a \in Assets PROVE AssetMoves(a)
      BY <1>1, <2>2, <2>3 DEF AssetMoves
    <2>5. CallMoves
      BY <1>1, <2>2, <2>3 DEF CallMoves
    <2> QED
      BY <1>1, <1>2, <2>2, <2>4, <2>5, StillDoomed DEF Moves
  <1>4. CASE RequestRetention(b)
    <2>1. DoomedMoves
      BY <1>4 DEF RequestRetention, Deletable, In, DoomedMoves
    <2>2. (\A a \in Assets : AssetMoves(a)) /\ CallMoves
      BY <1>1, <1>4, StillCalls DEF RequestRetention, AssetMoves
    <2> QED
      BY <1>2, <2>1, <2>2 DEF Moves
  <1>5. CASE DeleteMedia(b)
    <2>1. /\ b \in doomed' /\ doomed' = doomed /\ Becomes(b, "deleted")
          /\ asset[b].status \notin {"none", "pending_upload"}
      BY <1>5 DEF DeleteMedia, DoomedInv
    <2>2. /\ \A a \in Assets : a # b => asset'[a] = asset[a]
          /\ asset'[b].status = "deleted" /\ asset'[b].capture = asset[b].capture
      BY <2>1, OneStatus DEF Statuses
    <2>3. ASSUME NEW a \in Assets PROVE AssetMoves(a)
      BY <1>1, <2>1, <2>2 DEF AssetMoves
    <2>4. CallMoves
      BY <1>1, <2>1, <2>2 DEF CallMoves
    <2> QED
      BY <1>1, <1>2, <2>1, <2>3, <2>4, StillDoomed DEF Moves
  <1> QED
    BY <1>3, <1>4, <1>5

LEMMA AgreeMoves == CaptureInv /\ Agreeing => Moves /\ CallMoves
  <1> SUFFICES ASSUME CaptureInv, Agreeing PROVE Moves /\ CallMoves
    OBVIOUS
  <1> USE DEF CaptureInv
  <1>1. UNCHANGED analysis /\ UNCHANGED <<asset, announced, call>>
    BY DEF Agreeing, CreateScopeVersion, AgreeOnHead, CancelMoveJob, CompleteMove, media
  <1>2. /\ \A c \in Captures : AnalysisMoves(c)
        /\ \A a \in Assets : AssetMoves(a)
        /\ CallMoves
    BY <1>1, StillAnalysis, StillCalls DEF AssetMoves
  <1>3. ScopeMoves
    BY DEF Agreeing, CreateScopeVersion, AgreeOnHead, CancelMoveJob, CompleteMove, scope, ScopeMoves
  <1>4. DoomedMoves
    <2>1. ASSUME NEW p \in Parties, CreateScopeVersion(p) PROVE DoomedMoves
      BY <2>1, StillDoomed DEF CreateScopeVersion, media
    <2>2. CASE AgreeOnHead
      BY <2>2, StillDoomed DEF AgreeOnHead, media
    <2>3. CASE CancelMoveJob
      BY <2>3 DEF CancelMoveJob, OpenJob, media, DoomedMoves
    <2>4. ASSUME NEW S \in SUBSET Assets, CompleteMove(S) PROVE DoomedMoves
      BY <2>4 DEF CompleteMove, In, DoomedMoves
    <2> QED
      BY <2>1, <2>2, <2>3, <2>4 DEF Agreeing
  <1> QED
    BY <1>2, <1>3, <1>4 DEF Moves

\* A version that was added leaves the earlier ones where they are.
LEMMA ChildStays ==
  ASSUME TypeOK, NEW c, NEW p, NEW x \in Captures \cup Parties,
         chain' = chain \/ chain' = Append(chain, x), HasChildBy(c, p)
  PROVE  HasChildBy(c, p)'
  <1>1. CASE chain' = chain
    BY <1>1 DEF HasChildBy
  <1>2. CASE chain' = Append(chain, x)
    <2>1. PICK i \in 1..Len(chain) - 1 : chain[i] = c /\ chain[i + 1] = p
      BY DEF HasChildBy
    <2>2. chain \in Seq(Captures \cup Parties) /\ Len(chain) \in Nat
      BY DEF TypeOK
    <2>3. Len(chain') = Len(chain) + 1 /\ chain'[i] = c /\ chain'[i + 1] = p
      BY <1>2, <2>1, <2>2
    <2>4. i \in 1..Len(chain') - 1
      BY <2>1, <2>2, <2>3
    <2> QED
      BY <2>3, <2>4 DEF HasChildBy
  <1> QED
    BY <1>1, <1>2

LEMMA ReviewMoves ==
  ASSUME CaptureInv, NEW k \in Clients, CompleteAnalysisReview(k)
  PROVE  Moves /\ CallMoves
  <1> USE DEF CaptureInv
  <1>1. PICK c \in Captures :
          /\ outcome[c] = "completed"
          /\ ConsumeReviewVideos(c) /\ reviewed' = reviewed \cup {c}
          /\ \/ Child(c) /\ chain' = chain
             \/ Newest = c /\ chain' = Append(chain, "customer")
    BY DEF CompleteAnalysisReview, CallsInv, Calls
  <1>2. UNCHANGED analysis /\ UNCHANGED <<job, announced>> /\ Ends(k)
    BY DEF CompleteAnalysisReview
  <1>3. /\ \A a \in Assets :
            /\ asset'[a].capture = asset[a].capture
            /\ \/ asset'[a] = asset[a]
                  /\ ~(a \in Of(c, {"video"}) /\ asset[a].status \in {"ready", "deleted"})
               \/ /\ a \in Of(c, {"video"}) /\ asset[a].status \in {"ready", "deleted"}
                  /\ asset'[a].status = "deleted" /\ a \in doomed'
        /\ doomed \subseteq doomed'
        /\ \A a \in doomed' \ doomed : /\ a \in Of(c, {"video"})
                                       /\ asset[a].status \in {"ready", "deleted"}
    BY <1>1, Consumed
  <1>4. \A a \in Assets : AssetMoves(a)
    BY <1>2, <1>3 DEF AssetMoves
  <1>5. \A d \in Captures : AnalysisMoves(d)
    BY <1>2, StillAnalysis
  <1>6. DoomedMoves
    BY <1>1, <1>2, <1>3 DEF DoomedMoves, Of
  <1>7. HasChildBy(c, "customer")'
    <2>1. CASE Child(c) /\ chain' = chain
      BY <2>1 DEF Child, HasChildBy
    <2>2. CASE Newest = c /\ chain' = Append(chain, "customer")
      <3>1. chain \in Seq(Captures \cup Parties) /\ Len(chain) \in Nat
        BY DEF TypeOK
      <3>2. c # "none"
        BY <1>1, CaptureAssumption
      <3>3. chain # <<>> /\ chain[Len(chain)] = c
        BY <2>2, <3>2 DEF Newest
      <3>4. Len(chain) \in 1..Len(chain)
        BY <3>1, <3>3
      <3>5. Len(chain') = Len(chain) + 1 /\ chain'[Len(chain)] = c
            /\ chain'[Len(chain) + 1] = "customer"
        BY <2>2, <3>1, <3>3, <3>4
      <3> QED
        BY <3>1, <3>4, <3>5 DEF HasChildBy
    <2> QED
      BY <1>1, <2>1, <2>2
  <1>8. ScopeMoves
    <2>1. chain' = chain \/ chain' = Append(chain, "customer")
      BY <1>1
    <2>2. "customer" \in Captures \cup Parties
      BY DEF Parties
    <2>3. outcome' = outcome
      BY <1>2 DEF analysis
    <2>4. \A a \in Of(c, {"video"}) :
            asset[a].status \in {"ready", "deleted"} => asset'[a].status = "deleted"
      BY <1>3 DEF Of
    <2> QED
      BY <1>1, <1>7, <2>1, <2>2, <2>3, <2>4 DEF ScopeMoves
  <1>9. CallMoves
    <2>1. \A a \in Assets : asset[a].status = "none" => asset'[a].status = "none"
      BY <1>3
    <2> QED
      BY <1>2, <2>1, EndedCalls DEF CallMoves
  <1> QED
    BY <1>4, <1>5, <1>6, <1>8, <1>9 DEF Moves

-----------------------------------------------------------------------------
(* What a move keeps *)

\* An asset of a submitted capture has been that capture's, and remains so.
LEMMA SameCapture ==
  ASSUME TypeOK, Moves, NEW c \in Captures, outcome[c] # "none", NEW a \in Assets
  PROVE  asset'[a].capture = c <=> asset[a].capture = c
  <1>1. AssetMoves(a)
    BY DEF Moves
  <1>2. c # "none" /\ (asset[a].status = "none" <=> asset[a].capture = "none")
    BY CaptureAssumption DEF TypeOK
  <1> QED
    BY <1>1, <1>2 DEF AssetMoves

LEMMA SameAssets ==
  ASSUME TypeOK, Moves, NEW c \in Captures, outcome[c] # "none", NEW purposes
  PROVE  Of(c, purposes)' = Of(c, purposes)
  BY SameCapture DEF Of

LEMMA CallsKept == TypeOK /\ CallsInv /\ Moves /\ CallMoves => CallsInv'
  <1> SUFFICES ASSUME TypeOK, CallsInv, Moves, CallMoves PROVE CallsInv'
    OBVIOUS
  <1>1. ASSUME NEW k \in Clients PROVE Calls(k)'
    <2>1. CASE call'[k] = Idle
      BY <2>1 DEF Calls, Holds, Idle
    <2>2. CASE call'[k] = call[k] /\ Holds(k, "create")
      <3>1. call[k].asset \in Assets /\ call[k].capture \in Captures
            /\ asset[call[k].asset].status = "none" /\ call[k] # Idle
        BY <2>2 DEF CallsInv, Calls, Holds, Idle
      <3>2. asset'[call[k].asset].status = "none"
        BY <2>2, <3>1 DEF CallMoves, CallsInv
      <3> QED
        BY <2>2, <3>1, <3>2 DEF Calls, Holds
    <2>3. CASE call'[k] = call[k] /\ Holds(k, "complete")
      <3>1. call[k].asset \in Assets /\ call[k].capture \in Captures
            /\ asset[call[k].asset].capture = call[k].capture
        BY <2>3 DEF CallsInv, Calls
      <3>2. asset[call[k].asset].status # "none"
        BY <3>1, CaptureAssumption DEF TypeOK
      <3>3. asset'[call[k].asset].capture = call[k].capture
        BY <3>1, <3>2 DEF Moves, AssetMoves
      <3> QED
        BY <2>3, <3>1, <3>3 DEF Calls, Holds
    <2>4. CASE call'[k] = call[k] /\ Holds(k, "review")
      <3>1. call[k].capture \in Captures /\ outcome[call[k].capture] = "completed"
        BY <2>4 DEF CallsInv, Calls
      <3>2. outcome'[call[k].capture] = "completed"
        BY <3>1 DEF Moves, AnalysisMoves
      <3> QED
        BY <2>4, <3>1, <3>2 DEF Calls, Holds
    <2>5. CASE call'[k] = call[k] /\ ~Holds(k, "create") /\ ~Holds(k, "complete")
               /\ ~Holds(k, "review")
      BY <2>5 DEF Calls, Holds
    <2> QED
      BY <2>1, <2>2, <2>3, <2>4, <2>5 DEF CallMoves
  <1>2. ASSUME NEW k \in Clients, NEW l \in Clients, Holds(k, "create")', Holds(l, "create")',
               (call[k].asset = call[l].asset)'
        PROVE  k = l
    <2>1. Idle.op # "create"
      BY DEF Idle
    <2>2. call'[k] = call[k] /\ call'[l] = call[l]
      BY <1>2, <2>1 DEF CallMoves, Holds
    <2> QED
      BY <1>2, <2>2 DEF CallsInv, Holds
  <1> QED
    BY <1>1, <1>2 DEF CallsInv

LEMMA ConfirmedKept == TypeOK /\ ConfirmedOnce /\ Moves => ConfirmedOnce'
  <1> SUFFICES ASSUME TypeOK, ConfirmedOnce, Moves, NEW a \in Assets
               PROVE  announced'[a] = IF Purpose[a] = "completion"
                                         /\ asset'[a].status \notin {"none", "pending_upload"}
                                      THEN 1 ELSE 0
    BY DEF ConfirmedOnce, In
  <1>1. AssetMoves(a)
    BY DEF Moves
  <1>2. announced[a] = IF Purpose[a] = "completion"
                          /\ asset[a].status \notin {"none", "pending_upload"}
                       THEN 1 ELSE 0
    BY DEF ConfirmedOnce, In
  <1> QED
    BY <1>1, <1>2 DEF AssetMoves

LEMMA DoomedKept == DoomedInv /\ Moves /\ TypeOK' => DoomedInv'
  BY DEF DoomedInv, Moves, DoomedMoves, AssetMoves, TypeOK

LEMMA FrozenKept == CaptureInv /\ Moves => FrozenInv'
  <1> SUFFICES ASSUME CaptureInv, Moves, NEW c \in Captures
               PROVE  /\ outcome'[c] = "none" => asked'[c] = {}
                      /\ outcome'[c] # "none" =>
                           /\ Of(c, Inventory)' = frozen'[c]
                           /\ \A a \in frozen'[c] : asset'[a].status \in {"ready", "deleted"}
                           /\ \A sources \in asked'[c] : frozen'[c] \ doomed' \subseteq sources
    BY DEF FrozenInv
  <1> USE DEF CaptureInv
  <1>1. AnalysisMoves(c) /\ doomed \subseteq doomed'
    BY DEF Moves, DoomedMoves
  <1>2. CASE outcome[c] = "none" /\ outcome'[c] = "none"
    BY <1>1, <1>2 DEF FrozenInv, AnalysisMoves
  <1>3. CASE outcome[c] = "none" /\ outcome'[c] # "none"
    <2>1. /\ asset' = asset /\ frozen'[c] = Of(c, Inventory) /\ asked'[c] = {}
          /\ \A a \in Of(c, Inventory) : asset[a].status = "ready"
      BY <1>1, <1>3 DEF AnalysisMoves, FrozenInv
    <2> QED
      BY <1>3, <2>1 DEF Of
  <1>4. CASE outcome[c] # "none"
    <2>1. /\ outcome'[c] # "none" /\ frozen'[c] = frozen[c]
          /\ \A sources \in asked'[c] :
               \/ sources \in asked[c]
               \/ /\ asset' = asset
                  /\ \A a \in Of(c, Inventory) : asset[a].status = "ready" => a \in sources
      BY <1>1, <1>4 DEF AnalysisMoves
    <2>2. /\ Of(c, Inventory) = frozen[c]
          /\ \A a \in frozen[c] : asset[a].status \in {"ready", "deleted"}
          /\ \A sources \in asked[c] : frozen[c] \ doomed \subseteq sources
      BY <1>4 DEF FrozenInv
    <2>3. Of(c, Inventory)' = frozen'[c]
      BY <1>4, <2>1, <2>2, SameAssets
    <2>4. ASSUME NEW a \in frozen[c] PROVE asset'[a].status \in {"ready", "deleted"}
      <3>1. a \in Assets /\ asset[a].status \in {"ready", "deleted"}
        BY <2>2, <2>4 DEF Of
      <3> QED
        BY <3>1 DEF Moves, AssetMoves
    <2>5. ASSUME NEW sources \in asked'[c] PROVE frozen'[c] \ doomed' \subseteq sources
      <3>1. CASE sources \in asked[c]
        BY <1>1, <2>1, <2>2, <3>1
      <3>2. CASE /\ asset' = asset
                 /\ \A a \in Of(c, Inventory) : asset[a].status = "ready" => a \in sources
        <4> SUFFICES ASSUME NEW a \in frozen[c], a \notin doomed PROVE a \in sources
          BY <1>1, <2>1
        <4>1. a \in Of(c, Inventory) /\ a \in Assets /\ asset[a].status \in {"ready", "deleted"}
          BY <2>2 DEF Of
        <4>2. asset[a].status = "ready"
          BY <4>1 DEF DoomedInv
        <4> QED
          BY <3>2, <4>1, <4>2
      <3> QED
        BY <2>1, <3>1, <3>2
    <2> QED
      BY <2>1, <2>3, <2>4, <2>5
  <1> QED
    BY <1>2, <1>3, <1>4

LEMMA ReviewedKept == CaptureInv /\ Moves /\ TypeOK' => ReviewedInv'
  <1> SUFFICES ASSUME CaptureInv, Moves, TypeOK' PROVE ReviewedInv'
    OBVIOUS
  <1> USE DEF CaptureInv
  <1>1. PICK x \in Captures \cup Parties : chain' = chain \/ chain' = Append(chain, x)
    BY DEF Moves, ScopeMoves, Parties
  <1>2. reviewed \subseteq Captures /\ reviewed \subseteq reviewed'
    BY DEF TypeOK, Moves, ScopeMoves
  <1>4. reviewed' \subseteq Captures /\ doomed' \subseteq Assets
    BY DEF TypeOK
  <1>3. ASSUME NEW c \in reviewed'
        PROVE  /\ outcome'[c] = "completed" /\ HasChildBy(c, "customer")'
               /\ \A a \in Of(c, {"video"})' : asset'[a].status = "deleted"
    <2>1. CASE c \in reviewed
      <3>1. c \in Captures /\ outcome[c] = "completed" /\ HasChildBy(c, "customer")
            /\ \A a \in Of(c, {"video"}) : asset[a].status = "deleted"
        BY <1>2, <2>1 DEF ReviewedInv
      <3>2. outcome'[c] = "completed" /\ AnalysisMoves(c)
        BY <3>1 DEF Moves, AnalysisMoves
      <3>3. HasChildBy(c, "customer")'
        BY <1>1, <3>1, ChildStays
      <3>4. Of(c, {"video"})' = Of(c, {"video"})
        BY <3>1, SameAssets
      <3>5. ASSUME NEW a \in Of(c, {"video"}) PROVE asset'[a].status = "deleted"
        <4>1. a \in Assets /\ asset[a].status = "deleted"
          BY <3>1, <3>5 DEF Of
        <4> QED
          BY <4>1 DEF Moves, AssetMoves
      <3> QED
        BY <3>2, <3>3, <3>4, <3>5
    <2>2. CASE c \in reviewed' \ reviewed
      <3>1. /\ outcome[c] = "completed" /\ outcome' = outcome /\ HasChildBy(c, "customer")'
            /\ \A a \in Of(c, {"video"}) :
                 asset[a].status \in {"ready", "deleted"} => asset'[a].status = "deleted"
        BY <2>2 DEF Moves, ScopeMoves
      <3>2. c \in Captures
        BY <1>4, <2>2
      <3>3. Of(c, {"video"})' = Of(c, {"video"})
        BY <3>1, <3>2, SameAssets
      <3>4. ASSUME NEW a \in Of(c, {"video"}) PROVE asset[a].status \in {"ready", "deleted"}
        <4>1. a \in Of(c, Inventory)
          BY <3>4 DEF Of, Inventory
        <4> QED
          BY <3>1, <3>2, <4>1 DEF FrozenInv
      <3> QED
        BY <3>1, <3>3, <3>4
    <2> QED
      BY <2>1, <2>2
  <1>5. ASSUME NEW a \in doomed', Purpose[a] = "video"
        PROVE  asset'[a].capture \in reviewed' \/ job' = "completed"
    <2>1. doomed \subseteq Assets /\ a \in Assets
      BY <1>4 DEF TypeOK
    <2>2. asset[a].status \notin {"none", "pending_upload"}
      BY DEF DoomedInv, Moves, DoomedMoves
    <2>3. asset'[a].capture = asset[a].capture
      BY <2>1, <2>2 DEF Moves, AssetMoves
    <2>4. asset[a].capture \in reviewed' \/ job' = "completed"
      BY <1>2, <1>5 DEF ReviewedInv, Moves, DoomedMoves
    <2> QED
      BY <2>3, <2>4
  <1> QED
    BY <1>3, <1>5 DEF ReviewedInv

-----------------------------------------------------------------------------
(* The invariant *)

LEMMA InitInv == Init => CaptureInv
  <1> SUFFICES ASSUME Init PROVE CaptureInv
    OBVIOUS
  <1>1. TypeOK
    <2>1. [status |-> "none", capture |-> "none"] \in Asset
      BY DEF Asset, Statuses
    <2>2. asset \in [Assets -> Asset]
          /\ \A a \in Assets : asset[a].status = "none" <=> asset[a].capture = "none"
      BY <2>1 DEF Init
    <2>3. call \in [Clients -> Call]
      BY DEF Init, Idle, Call
    <2>4. chain \in Seq(Captures \cup Parties) /\ locked \in BOOLEAN
      <3>1. chain = <<>> /\ locked = FALSE
        BY DEF Init
      <3>2. chain \in Seq(Captures \cup Parties)
        BY <3>1
      <3> QED
        BY <3>1, <3>2
    <2>5. announced \in [Assets -> Nat] /\ frozen \in [Captures -> SUBSET Assets]
          /\ asked \in [Captures -> SUBSET SUBSET Assets]
      BY DEF Init
    <2>6. /\ job \in {"open", "completed", "canceled"} /\ latest \in Captures \cup {"none"}
          /\ owner \in [Captures -> Parties \cup {"none"}]
          /\ outcome \in [Captures -> {"none", "open", "completed", "failed"}]
          /\ doomed \subseteq Assets /\ reviewed \subseteq Captures
      BY DEF Init
    <2> QED
      BY <2>2, <2>3, <2>4, <2>5, <2>6 DEF TypeOK
  <1>2. CallsInv
    BY DEF Init, CallsInv, Calls, Holds, Idle
  <1>3. DoomedInv /\ FrozenInv /\ ReviewedInv
    BY DEF Init, DoomedInv, FrozenInv, ReviewedInv
  <1>4. ConfirmedOnce
    BY DEF Init, ConfirmedOnce, In
  <1> QED
    BY <1>1, <1>2, <1>3, <1>4 DEF CaptureInv

\* The first steps of the requests: nothing but the request changes.
LEMMA BeginKept ==
  ASSUME CaptureInv, TypeOK', NEW k \in Clients,
         \/ \E c \in Captures, a \in Assets : SignUpload(k, c, a)
         \/ \E a \in Assets : CheckUpload(k, a)
         \/ \E c \in Captures : BeginReview(k, c)
  PROVE  CaptureInv'
  <1> USE DEF CaptureInv
  <1>1. UNCHANGED media /\ UNCHANGED analysis /\ UNCHANGED scope /\ UNCHANGED job
    BY DEF SignUpload, CheckUpload, BeginReview
  <1>2. Moves
    BY <1>1, StillMedia, StillAnalysis, StillScope, StillDoomed DEF Moves, media
  <1>3. ASSUME NEW r, Starts(k, r),
               r.op = "create" => /\ r.asset \in Assets /\ r.capture \in Captures
                                  /\ asset[r.asset].status = "none"
                                  /\ \A l \in Clients : call[l].asset # r.asset,
               r.op = "complete" => /\ r.asset \in Assets /\ r.capture \in Captures
                                    /\ asset[r.asset].capture = r.capture,
               r.op = "review" => r.capture \in Captures /\ outcome[r.capture] = "completed"
        PROVE  CallsInv'
    <2>1. call'[k] = r /\ \A l \in Clients : l # k => call'[l] = call[l]
      BY <1>3 DEF Starts, TypeOK
    <2>2. UNCHANGED <<asset, outcome>>
      BY <1>1 DEF media, analysis
    <2>3. Calls(k)'
      BY <1>3, <2>1, <2>2 DEF Calls, Holds
    <2>4. ASSUME NEW l \in Clients, l # k PROVE Calls(l)'
      BY <2>1, <2>2, <2>4 DEF CallsInv, Calls, Holds
    <2>5. ASSUME NEW l \in Clients, NEW m \in Clients, Holds(l, "create")', Holds(m, "create")',
                 (call[l].asset = call[m].asset)'
          PROVE  l = m
      BY <1>3, <2>1, <2>5 DEF CallsInv, Holds
    <2> QED
      BY <2>3, <2>4, <2>5 DEF CallsInv
  <1>4. CallsInv'
    <2>1. ASSUME NEW c \in Captures, NEW a \in Assets, SignUpload(k, c, a) PROVE CallsInv'
      <3> DEFINE r == [op |-> "create", asset |-> a, capture |-> c]
      <3>1. Starts(k, r) /\ asset[a].status = "none" /\ \A l \in Clients : call[l].asset # a
        BY <2>1 DEF SignUpload, In
      <3>2. r.op = "create" /\ r.asset = a /\ r.capture = c
        OBVIOUS
      <3> HIDE DEF r
      <3> QED
        BY <1>3, <3>1, <3>2
    <2>2. ASSUME NEW a \in Assets, CheckUpload(k, a) PROVE CallsInv'
      <3> DEFINE r == [op |-> "complete", asset |-> a, capture |-> asset[a].capture]
      <3>1. Starts(k, r) /\ asset[a].status = "pending_upload"
        BY <2>2 DEF CheckUpload, In
      <3>2. asset[a].capture \in Captures
        BY <3>1 DEF TypeOK, Asset
      <3>3. r.op = "complete" /\ r.asset = a /\ r.capture = asset[a].capture
        OBVIOUS
      <3> HIDE DEF r
      <3> QED
        BY <1>3, <3>1, <3>2, <3>3
    <2>3. ASSUME NEW c \in Captures, BeginReview(k, c) PROVE CallsInv'
      <3> DEFINE r == [op |-> "review", asset |-> "none", capture |-> c]
      <3>1. Starts(k, r) /\ outcome[c] = "completed"
        BY <2>3 DEF BeginReview, Reviewable
      <3>2. r.op = "review" /\ r.capture = c
        OBVIOUS
      <3> HIDE DEF r
      <3> QED
        BY <1>3, <3>1, <3>2
    <2> QED
      BY <2>1, <2>2, <2>3
  <1> QED
    BY <1>2, <1>4, DoomedKept, FrozenKept, ReviewedKept, ConfirmedKept

LEMMA StepInv == CaptureInv /\ [Next]_vars => CaptureInv'
  <1> SUFFICES ASSUME CaptureInv, [Next]_vars PROVE CaptureInv'
    OBVIOUS
  <1>1. TypeOK'
    BY StepTyped DEF CaptureInv
  <1>2. ASSUME Moves, CallMoves PROVE CaptureInv'
    BY <1>1, <1>2, CallsKept, DoomedKept, FrozenKept, ReviewedKept, ConfirmedKept DEF CaptureInv
  <1>3. CASE UNCHANGED vars
    <2>1. UNCHANGED media /\ UNCHANGED analysis /\ UNCHANGED scope /\ UNCHANGED <<job, call>>
      BY <1>3 DEF vars
    <2>2. Moves /\ CallMoves
      BY <2>1, StillMedia, StillAnalysis, StillScope, StillDoomed, StillCalls
         DEF Moves, media, CaptureInv
    <2> QED
      BY <1>2, <2>2
  <1>4. CASE Submitting \/ Analyzing \/ Background \/ Agreeing
    BY <1>2, <1>4, SubmitMoves, AnalyzeMoves, BackgroundMoves, AgreeMoves
  <1>5. ASSUME NEW k \in Clients, Uploading(k) \/ Reviewing(k) PROVE CaptureInv'
    <2>1. CASE CreateUpload(k) \/ CompleteUpload(k) \/ Refuse(k)
      BY <1>2, <2>1, UploadMoves
    <2>2. CASE CompleteAnalysisReview(k)
      BY <1>2, <2>2, ReviewMoves
    <2>3. CASE \/ \E c \in Captures, a \in Assets : SignUpload(k, c, a)
               \/ \E a \in Assets : CheckUpload(k, a)
               \/ \E c \in Captures : BeginReview(k, c)
      BY <1>1, <2>3, BeginKept
    <2> QED
      BY <1>5, <2>1, <2>2, <2>3 DEF Uploading, Reviewing
  <1> QED
    BY <1>3, <1>4, <1>5 DEF Next

LEMMA InvariantHolds == Spec => []CaptureInv
  BY InitInv, StepInv, PTL DEF Spec

-----------------------------------------------------------------------------
(* Theorems *)

\* The rows and requests keep their shape: an asset has a capture from its row on.
THEOREM CaptureTypeCorrect == Spec => []TypeOK
  <1>1. CaptureInv => TypeOK
    BY DEF CaptureInv
  <1> QED
    BY <1>1, InvariantHolds, PTL

\* The submission freezes the inventory, for any number of captures, assets and clients.
THEOREM SubmissionFreezes == Spec => []InventoryFrozen
  <1>1. CaptureInv => InventoryFrozen
    BY DEF CaptureInv, FrozenInv, InventoryFrozen
  <1> QED
    BY <1>1, InvariantHolds, PTL

\* A completed review has consumed the videos of its capture, and nothing else takes a
\* video of a job that is not completed.
THEOREM ReviewTakesVideos == Spec => []VideosGoWithReview
  <1>1. CaptureInv => VideosGoWithReview
    <2> SUFFICES ASSUME CaptureInv PROVE VideosGoWithReview
      OBVIOUS
    <2> USE DEF CaptureInv
    <2>1. ASSUME NEW c \in reviewed
          PROVE  /\ HasChildBy(c, "customer")
                 /\ Of(c, {"video"}) \subseteq doomed /\ Preview(c) = {}
      <3>1. HasChildBy(c, "customer") /\ \A a \in Of(c, {"video"}) : asset[a].status = "deleted"
        BY <2>1 DEF ReviewedInv
      <3>2. Of(c, {"video"}) \subseteq doomed
        BY <3>1 DEF DoomedInv, Of
      <3>3. Preview(c) = {}
        BY <3>1 DEF Preview, In
      <3> QED
        BY <3>1, <3>2, <3>3
    <2>2. ASSUME NEW a \in Assets, Purpose[a] = "video", In(a, {"deleted"}) \/ a \in doomed
          PROVE  asset[a].capture \in reviewed \/ job = "completed"
      <3>1. a \in doomed
        BY <2>2 DEF DoomedInv, In
      <3> QED
        BY <2>2, <3>1 DEF ReviewedInv
    <2> QED
      BY <2>1, <2>2 DEF VideosGoWithReview
  <1> QED
    BY <1>1, InvariantHolds, PTL

\* An upload is confirmed once, and its evidence announced once, whichever requests
\* race to complete it.
THEOREM UploadsConfirmedOnce == Spec => []ConfirmedOnce
  <1>1. CaptureInv => ConfirmedOnce
    BY DEF CaptureInv
  <1> QED
    BY <1>1, InvariantHolds, PTL

-----------------------------------------------------------------------------
(* The analyses of a job implement AnalysisOutcome *)

\* In the chain of versions a capture has a draft once its analysis is a success; the
\* events, which concern no media, come with the outcome.
Drafts == {c \in Captures : \E i \in DOMAIN chain : chain[i] = c}
Events(s) == [completed |-> IF s = "completed" THEN 1 ELSE 0, failed |-> IF s = "failed" THEN 1 ELSE 0]
Outcome == INSTANCE AnalysisOutcome WITH
  outcome   <- outcome,
  drafts    <- Drafts,
  announced <- [c \in Captures |-> Events(outcome[c])]

\* A version of a party is no draft, one of a capture is that capture's.
LEMMA DraftsGrow ==
  ASSUME TypeOK, NEW x \in Captures \cup Parties, chain' = Append(chain, x)
  PROVE  Drafts' = Drafts \cup ({x} \cap Captures)
  <1>1. chain \in Seq(Captures \cup Parties)
    BY DEF TypeOK
  <1>2. /\ DOMAIN chain' = DOMAIN chain \cup {Len(chain) + 1}
        /\ chain'[Len(chain) + 1] = x /\ \A i \in DOMAIN chain : chain'[i] = chain[i]
    BY <1>1
  <1>3. ASSUME NEW c \in Captures
        PROVE  (\E i \in DOMAIN chain' : chain'[i] = c) <=> (\E i \in DOMAIN chain : chain[i] = c) \/ c = x
    BY <1>2
  <1> QED
    BY <1>3 DEF Drafts

LEMMA StillOutcome == UNCHANGED outcome /\ Drafts' = Drafts => UNCHANGED Outcome!ovars
  BY DEF Outcome!ovars

\* Only the analysis actions touch an outcome or add a draft.
LEMMA OthersStutter ==
  ASSUME TypeOK,
         \/ \E c \in Captures, p \in Parties : CreateCaptureSession(c, p)
         \/ \E c \in Captures : BuildAnalysisRequest(c)
         \/ Background \/ Agreeing \/ \E k \in Clients : Uploading(k) \/ Reviewing(k)
  PROVE  UNCHANGED Outcome!ovars
  <1>1. outcome' = outcome /\ (chain' = chain \/ \E p \in Parties : chain' = Append(chain, p))
    <2>1. ASSUME NEW k \in Clients, Uploading(k) PROVE outcome' = outcome /\ chain' = chain
      BY <2>1 DEF Uploading, SignUpload, CheckUpload, CreateUpload, CompleteUpload, Refuse, analysis, scope
    <2>2. ASSUME NEW k \in Clients, Reviewing(k)
          PROVE  outcome' = outcome /\ (chain' = chain \/ chain' = Append(chain, "customer"))
      BY <2>2 DEF Reviewing, BeginReview, CompleteAnalysisReview, analysis, scope
    <2>3. Background => outcome' = outcome /\ chain' = chain
      BY DEF Background, Validate, RequestRetention, DeleteMedia, analysis, scope
    <2>4. Agreeing => outcome' = outcome /\ (chain' = chain \/ \E p \in Parties : chain' = Append(chain, p))
      BY DEF Agreeing, CreateScopeVersion, AgreeOnHead, CancelMoveJob, CompleteMove, analysis, scope
    <2>5. ASSUME NEW c \in Captures, BuildAnalysisRequest(c) PROVE outcome' = outcome /\ chain' = chain
      BY <2>5 DEF BuildAnalysisRequest, scope
    <2>6. ASSUME NEW c \in Captures, NEW p \in Parties, CreateCaptureSession(c, p)
          PROVE  outcome' = outcome /\ chain' = chain
      BY <2>6 DEF CreateCaptureSession, analysis, scope
    <2> QED
      BY <2>1, <2>2, <2>3, <2>4, <2>5, <2>6 DEF Parties
  <1>2. CASE chain' = chain
    BY <1>1, <1>2, StillOutcome DEF Drafts
  <1>3. ASSUME NEW p \in Parties, chain' = Append(chain, p) PROVE Drafts' = Drafts
    <2>1. p \notin Captures
      BY CaptureAssumption
    <2> QED
      BY <1>3, <2>1, DraftsGrow
  <1> QED
    BY <1>1, <1>2, <1>3, StillOutcome

LEMMA AnalysisSteps ==
  ASSUME TypeOK, NEW c \in Captures,
         SubmitCaptureAnalysis(c) \/ CompleteAnalysis(c) \/ FailAnalysis(c)
  PROVE  Outcome!Next
  <1>1. outcome \in [Captures -> {"none", "open", "completed", "failed"}]
    BY DEF TypeOK
  <1> DEFINE told == [d \in Captures |-> Events(outcome[d])]
  <1>2. CASE SubmitCaptureAnalysis(c)
    <2>1. outcome[c] = "none" /\ outcome' = [outcome EXCEPT ![c] = "open"] /\ chain' = chain
      BY <1>2 DEF SubmitCaptureAnalysis, Unsubmitted, scope
    <2>2. Drafts' = Drafts
      BY <2>1 DEF Drafts
    <2>3. told' = told
      BY <1>1, <2>1 DEF Events
    <2> QED
      BY <2>1, <2>2, <2>3 DEF Outcome!Next, Outcome!Submit
  <1>3. CASE CompleteAnalysis(c)
    <2>1. outcome[c] = "open" /\ outcome' = [outcome EXCEPT ![c] = "completed"]
          /\ chain' = Append(chain, c)
      BY <1>3 DEF CompleteAnalysis
    <2>2. Drafts' = Drafts \cup {c}
      BY <2>1, DraftsGrow
    <2>3. told' = [told EXCEPT ![c].completed = @ + 1]
      <3>1. told[c] = [completed |-> 0, failed |-> 0]
        BY <2>1 DEF Events
      <3>2. [told[c] EXCEPT !.completed = @ + 1] = [completed |-> 1, failed |-> 0]
        BY <3>1
      <3>3. \A d \in Captures : told'[d] = IF d = c THEN [completed |-> 1, failed |-> 0] ELSE told[d]
        BY <1>1, <2>1 DEF Events
      <3> QED
        BY <3>2, <3>3
    <2> QED
      BY <2>1, <2>2, <2>3 DEF Outcome!Next, Outcome!Complete
  <1>4. CASE FailAnalysis(c)
    <2>1. outcome[c] = "open" /\ outcome' = [outcome EXCEPT ![c] = "failed"] /\ chain' = chain
      BY <1>4 DEF FailAnalysis, scope
    <2>2. Drafts' = Drafts
      BY <2>1 DEF Drafts
    <2>3. told' = [told EXCEPT ![c].failed = @ + 1]
      <3>1. told[c] = [completed |-> 0, failed |-> 0]
        BY <2>1 DEF Events
      <3>2. [told[c] EXCEPT !.failed = @ + 1] = [completed |-> 0, failed |-> 1]
        BY <3>1
      <3>3. \A d \in Captures : told'[d] = IF d = c THEN [completed |-> 0, failed |-> 1] ELSE told[d]
        BY <1>1, <2>1 DEF Events
      <3> QED
        BY <3>2, <3>3
    <2> QED
      BY <2>1, <2>2, <2>3 DEF Outcome!Next, Outcome!Fail
  <1> QED
    BY <1>2, <1>3, <1>4

\* Whatever the media, the edits and the reviews do to the chain, an analysis has one
\* outcome and a draft exactly when that is a success.  It is the promise that
\* AnalysisWorkflow keeps for the rows, the queue and the workers.
THEOREM AnalysesKeepPromise == Spec => Outcome!Spec
  <1>1. Init => Outcome!Init
    <2> SUFFICES ASSUME Init PROVE Outcome!Init
      OBVIOUS
    <2>1. outcome = [c \in Captures |-> "none"] /\ Drafts = {}
      BY DEF Init, Drafts
    <2>2. [c \in Captures |-> Events(outcome[c])] = [c \in Captures |-> [completed |-> 0, failed |-> 0]]
      BY <2>1 DEF Events
    <2> QED
      BY <2>1, <2>2 DEF Outcome!Init
  <1>2. TypeOK /\ [Next]_vars => [Outcome!Next]_(Outcome!ovars)
    <2> SUFFICES ASSUME TypeOK, [Next]_vars PROVE Outcome!Next \/ UNCHANGED Outcome!ovars
      OBVIOUS
    <2>1. CASE UNCHANGED vars
      BY <2>1, StillOutcome DEF vars, analysis, scope, Drafts
    <2>2. CASE Submitting
      BY <2>2, OthersStutter, AnalysisSteps DEF Submitting
    <2>3. CASE Analyzing
      BY <2>3, OthersStutter, AnalysisSteps DEF Analyzing
    <2> QED
      BY <2>1, <2>2, <2>3, OthersStutter DEF Next
  <1> QED
    BY <1>1, <1>2, CaptureTypeCorrect, PTL DEF Spec, Outcome!Spec
=============================================================================
