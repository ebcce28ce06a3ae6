---------------------------- MODULE ReportRender ----------------------------
(***************************************************************************)
(* services/report: one report from the request to its artifact. The API   *)
(* inserts the row and publishes a render job; the replicas of the worker  *)
(* claim the row, load the normalized BOM, render it, store the artifact   *)
(* and finish the row. The normalizer adds document versions meanwhile.    *)
(*                                                                         *)
(* Bytes are abstracted to the document version they were rendered from.   *)
(* Every database statement, blob write and bus call is a step of its own. *)
(***************************************************************************)
EXTENDS Naturals

CONSTANTS
  Workers,      \* replicas of the render worker
  MaxVersion,   \* bound on normalization versions of the scan's document
  MaxDeliver,   \* deliveries of the render job, 4 in the code
  MaxFaults     \* bound on crashes and failed calls

ASSUME RenderAssumption ==
  MaxVersion \in Nat /\ MaxDeliver \in Nat \ {0} /\ MaxFaults \in Nat

Versions == 1..MaxVersion
NoVersion == 0       \* no document, no artifact, no signature

VARIABLES
  status,     \* reports.status, "none" before the row exists
  pinned,     \* the document version the row names, or NoVersion: the latest
  sha, signature,   \* written with ready: what the artifact and the signature cover
  request,    \* the API's handler: idle, publish, unpublished, answered, dead
  job,        \* the message: unsent, ready, out, acked, dead (DLQ), spent
  delivered,  \* its deliveries so far
  latest,     \* newest normalization version
  blob,       \* the artifact at the report's storage key
  stage,      \* per worker: where Render is
  bom,        \* per worker: the version it loaded
  cause,      \* per worker: why it failed: none, dependency, other
  announced,  \* a report.ready event was published
  faults,
  stranded    \* a fault after which nobody will take the row up again

rowVars == <<status, pinned, sha, signature>>
busVars == <<job, delivered>>
workVars == <<stage, bom, cause>>
renderVars == <<rowVars, request, busVars, latest, blob, workVars, announced,
                faults, stranded>>

RenderInit ==
  /\ status = "none" /\ pinned = NoVersion /\ sha = NoVersion /\ signature = NoVersion
  /\ request = "idle" /\ job = "unsent" /\ delivered = 0
  /\ latest = NoVersion /\ blob = NoVersion
  /\ stage = [w \in Workers |-> "idle"] /\ bom = [w \in Workers |-> NoVersion]
  /\ cause = [w \in Workers |-> "none"]
  /\ announced = FALSE /\ faults = 0 /\ stranded = FALSE

Fault == faults < MaxFaults /\ faults' = faults + 1
Goto(w, label) == stage' = [stage EXCEPT ![w] = label]
Fails(w, why) == Goto(w, "fail") /\ cause' = [cause EXCEPT ![w] = why]

\* The normalizer writes version N + 1 and leaves N alone.
Renormalize ==
  /\ latest < MaxVersion /\ latest' = latest + 1
  /\ UNCHANGED <<rowVars, request, busVars, blob, workVars, announced, faults, stranded>>

(***************************************************************************)
(* Service.Queue                                                           *)
(***************************************************************************)
\* The row is committed before the job exists.
Create(v) ==
  /\ request = "idle" /\ v \in {NoVersion} \cup 1..latest
  /\ request' = "publish" /\ status' = "queued" /\ pinned' = v
  /\ UNCHANGED <<sha, signature, busVars, latest, blob, workVars, announced,
                 faults, stranded>>

\* A publish that fails may have reached the stream all the same.
PublishRender ==
  /\ request = "publish"
  /\ \/ request' = "answered" /\ job' = "ready" /\ UNCHANGED faults
     \/ request' = "unpublished" /\ job' \in {"unsent", "ready"} /\ Fault
  /\ UNCHANGED <<rowVars, delivered, latest, blob, workVars, announced, stranded>>

Unfinished == status \in {"queued", "rendering"}

\* Store.MarkFailed: a row that is finished is left alone.
MarkFailed == status' = IF Unfinished THEN "failed" ELSE status

\* The unpublished report is marked failed; when that fails too it is logged.
GiveUpQueueing ==
  /\ request = "unpublished" /\ request' = "answered"
  /\ \/ MarkFailed /\ UNCHANGED <<faults, stranded>>
     \/ Fault /\ stranded' = TRUE /\ UNCHANGED status
  /\ UNCHANGED <<pinned, sha, signature, busVars, latest, blob, workVars, announced>>

CrashAPI ==
  /\ request \in {"publish", "unpublished"} /\ request' = "dead" /\ Fault
  /\ stranded' = TRUE
  /\ UNCHANGED <<rowVars, busVars, latest, blob, workVars, announced>>

(***************************************************************************)
(* Consumer.handle and Worker.Render                                       *)
(***************************************************************************)
Redelivered == IF delivered < MaxDeliver THEN "ready" ELSE "spent"

Receive(w) ==
  /\ stage[w] = "idle" /\ job = "ready"
  /\ job' = "out" /\ delivered' = delivered + 1
  /\ Goto(w, "claim")
  /\ UNCHANGED <<rowVars, request, latest, blob, bom, cause, announced, faults, stranded>>

\* Slip: a redelivered job takes up a row that is being rendered.
ClaimUnfinished(w) ==
  /\ stage[w] = "claim"
  /\ \/ Unfinished /\ status' = "rendering" /\ Goto(w, "load")
     \/ ~Unfinished /\ Goto(w, "ack") /\ UNCHANGED status
  /\ UNCHANGED <<pinned, sha, signature, request, busVars, latest, blob, bom,
                 cause, announced, faults, stranded>>

\* ClaimForRender. Nothing to claim, or a claim that failed: nothing to render,
\* and the job is acked.
Claim(w) ==
  /\ stage[w] = "claim"
  /\ \/ /\ status = "queued" /\ status' = "rendering" /\ Goto(w, "load")
        /\ UNCHANGED <<faults, stranded>>
     \/ /\ status # "queued" /\ Goto(w, "ack")
        /\ UNCHANGED <<status, faults, stranded>>
     \/ Fault /\ Goto(w, "ack") /\ stranded' = TRUE /\ UNCHANGED status
  /\ UNCHANGED <<pinned, sha, signature, request, busVars, latest, blob, bom,
                 cause, announced>>

\* resolveDocument: the document the row names, else the newest version.
Document == IF pinned # NoVersion THEN pinned ELSE latest

\* No document, or one that cannot be read, fails the report for good.
Load(w) ==
  /\ stage[w] = "load"
  /\ \/ /\ Document # NoVersion /\ bom' = [bom EXCEPT ![w] = Document]
        /\ Goto(w, "render") /\ UNCHANGED <<cause, faults>>
     \/ Document = NoVersion /\ Fails(w, "other") /\ UNCHANGED <<bom, faults>>
     \/ Fault /\ Fails(w, "other") /\ UNCHANGED bom
  /\ UNCHANGED <<rowVars, request, busVars, latest, blob, announced, stranded>>

\* A BOM that the format cannot hold is refused.
RenderArtifact(w) ==
  /\ stage[w] = "render"
  /\ \/ Goto(w, "put") /\ UNCHANGED cause
     \/ Fails(w, "other")
  /\ UNCHANGED <<rowVars, request, busVars, latest, blob, bom, announced, faults, stranded>>

\* blob.Put under the key of the report. A failed Put may have been stored.
Put(w) ==
  /\ stage[w] = "put"
  /\ \/ blob' = bom[w] /\ Goto(w, "finish") /\ UNCHANGED <<cause, faults>>
     \/ blob' \in {blob, bom[w]} /\ Fault /\ Fails(w, "dependency")
  /\ UNCHANGED <<rowVars, request, busVars, latest, bom, announced, stranded>>

\* sign and MarkReady, which names what was stored and updates a rendering row
\* only. An artifact that could not be signed is ready without a signature; a
\* commit that reports an error may have happened.
Finish(w) ==
  /\ stage[w] = "finish"
  /\ \/ /\ status = "rendering" /\ status' = "ready" /\ sha' = bom[w]
        /\ signature' \in {NoVersion, bom[w]}
        /\ \/ Goto(w, "announce") /\ UNCHANGED <<cause, faults>>
           \/ Fault /\ Fails(w, "other")
     \/ /\ \/ status # "rendering" /\ UNCHANGED faults
           \/ Fault
        /\ Fails(w, "other") /\ UNCHANGED <<status, sha, signature>>
  /\ UNCHANGED <<pinned, request, busVars, latest, blob, bom, announced, stranded>>

\* Best effort, and only after Finish.
PublishReportReady(w) ==
  /\ stage[w] = "announce" /\ Goto(w, "ack")
  /\ \/ announced' = TRUE /\ UNCHANGED faults
     \/ Fault /\ UNCHANGED announced
  /\ UNCHANGED <<rowVars, request, busVars, latest, blob, bom, cause, stranded>>

\* Slip: a failure the consumer will retry is not marked.
FailUnlessRetryable(w) ==
  /\ stage[w] = "fail"
  /\ IF cause[w] = "dependency" THEN UNCHANGED status ELSE MarkFailed
  /\ Goto(w, IF cause[w] = "dependency" THEN "nak" ELSE "ack")
  /\ cause' = [cause EXCEPT ![w] = "none"]
  /\ UNCHANGED <<pinned, sha, signature, request, busVars, latest, blob, bom,
                 announced, faults, stranded>>

\* The deferred Fail: every error after the claim is recorded, and only then is
\* a dependency's failure handed back for a retry.
Fail(w) ==
  /\ stage[w] = "fail"
  /\ \/ MarkFailed /\ UNCHANGED <<faults, stranded>>
     \/ Fault /\ stranded' = TRUE /\ UNCHANGED status
  /\ Goto(w, IF cause[w] = "dependency" THEN "nak" ELSE "ack")
  /\ cause' = [cause EXCEPT ![w] = "none"]
  /\ UNCHANGED <<pinned, sha, signature, request, busVars, latest, blob, bom, announced>>

\* dispatch: the ack is good also when the ack wait has passed.
Ack(w) ==
  /\ stage[w] = "ack" /\ Goto(w, "idle") /\ job' = "acked"
  /\ bom' = [bom EXCEPT ![w] = NoVersion]
  /\ UNCHANGED <<rowVars, request, delivered, latest, blob, cause, announced,
                 faults, stranded>>

\* dispatch on ErrRetry: another delivery, or the DLQ after the last.
Nak(w) ==
  /\ stage[w] = "nak" /\ Goto(w, "idle")
  /\ job' = IF job # "out" THEN job
            ELSE IF delivered < MaxDeliver THEN "ready" ELSE "dead"
  /\ bom' = [bom EXCEPT ![w] = NoVersion]
  /\ UNCHANGED <<rowVars, request, delivered, latest, blob, cause, announced,
                 faults, stranded>>

\* The ack wait passes while a worker is still at it.
AckWaitPasses ==
  /\ job = "out" /\ job' = Redelivered
  /\ UNCHANGED <<rowVars, request, delivered, latest, blob, workVars, announced,
                 faults, stranded>>

\* A worker dies. What it had claimed stays rendering.
CrashWorker(w) ==
  /\ stage[w] # "idle" /\ Fault
  /\ Goto(w, "idle")
  /\ bom' = [bom EXCEPT ![w] = NoVersion] /\ cause' = [cause EXCEPT ![w] = "none"]
  /\ stranded' = TRUE
  /\ UNCHANGED <<rowVars, request, busVars, latest, blob, announced>>

-----------------------------------------------------------------------------
ApiStep == PublishRender \/ GiveUpQueueing
WorkerStep(w) ==
  \/ Receive(w) \/ Claim(w) \/ Load(w) \/ RenderArtifact(w) \/ Put(w)
  \/ Finish(w) \/ PublishReportReady(w) \/ Fail(w) \/ Ack(w) \/ Nak(w)
RenderNext ==
  \/ Renormalize \/ (\E v \in {NoVersion} \cup Versions : Create(v))
  \/ ApiStep \/ CrashAPI \/ AckWaitPasses
  \/ \E w \in Workers : WorkerStep(w) \/ CrashWorker(w)

RenderFairness ==
  /\ WF_renderVars(ApiStep)
  /\ \A w \in Workers : WF_renderVars(WorkerStep(w))

-----------------------------------------------------------------------------
(***************************************************************************)
(* Properties                                                              *)
(***************************************************************************)
Stages == {"idle", "claim", "load", "render", "put", "finish", "announce",
           "fail", "ack", "nak"}

\* The state is well formed.
RenderTypeOK ==
  /\ status \in {"none", "queued", "rendering", "ready", "failed"}
  /\ pinned \in 0..MaxVersion /\ sha \in 0..MaxVersion /\ signature \in 0..MaxVersion
  /\ request \in {"idle", "publish", "unpublished", "answered", "dead"}
  /\ job \in {"unsent", "ready", "out", "acked", "dead", "spent"}
  /\ delivered \in 0..MaxDeliver /\ latest \in 0..MaxVersion /\ blob \in 0..MaxVersion
  /\ stage \in [Workers -> Stages] /\ bom \in [Workers -> 0..MaxVersion]
  /\ cause \in [Workers -> {"none", "dependency", "other"}]
  /\ announced \in BOOLEAN /\ faults \in 0..MaxFaults /\ stranded \in BOOLEAN

\* A ready report is the artifact that is stored: its digest, its signature when
\* it has one and the object under its key are of one rendering, whatever
\* redeliveries and re-normalizations went on (store.go:357, worker.go:127).
ReadyIsStored ==
  status = "ready" =>
    /\ blob = sha /\ sha # NoVersion
    /\ signature \in {NoVersion, sha}
    /\ pinned # NoVersion => sha = pinned

\* A report that was announced is ready, also when the API marked it failed for
\* a publish that went through after all (worker.go:174).
AnnouncedIsReady == announced => status = "ready"

\* A finished report never changes again: a late worker, a redelivered job or
\* the API's own clean-up do not undo it (store.go:449, 477).
FinishedIsFinal ==
  [][(status \in {"ready", "failed"}) => (UNCHANGED rowVars)]_renderVars

\* A report that is asked for becomes ready or failed, unless a process died
\* over it or its row could not be written.
ReportSettles == Unfinished ~> (~Unfinished \/ stranded)

\* A report that says it is ready is, to whoever was told (MarkReady, publishReportReady).
ReadyReportStands == ReadyIsStored /\ AnnouncedIsReady

\* Whoever asks for a report gets one answer, and that answer stays (Queue, Render, MarkFailed).
RequestIsAnswered == FinishedIsFinal /\ ReportSettles
=============================================================================
