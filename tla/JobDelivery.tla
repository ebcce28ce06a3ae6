----------------------------- MODULE JobDelivery -----------------------------
(***************************************************************************)
(* One engine job, from SCAN_JOBS to the result on SCAN_RESULTS: the       *)
(* replicas of a family's worker (libs/py-shared/axebom_shared/bus.py and  *)
(* workers/sbom/runner.py) and the job's output directory they share.      *)
(*                                                                         *)
(* JetStream delivers the message at most MaxDeliver times; a delivery     *)
(* that is not acked within the ack wait is handed out again, even while   *)
(* the replica that got it first is still working. Each file access and    *)
(* each call to the bus is a step of its own. ScanLifecycle sees of all    *)
(* this only the results (its WorkerReports).                              *)
(***************************************************************************)
EXTENDS Naturals

CONSTANTS
  Workers,     \* replicas of the worker
  Contents,    \* what a run of the engine may print: two runs may differ
  None,        \* no file, no artifact, no result
  Torn,        \* a file that a crash left half written
  MaxDeliver,  \* deliveries of one message (4 in the code)
  MaxFaults    \* bound on crashes and failed writes or publishes

EngineOutcome == {"succeeded", "failed"}
Results == [status : EngineOutcome, artifact : Contents \cup {None}]
  \* returned before the engine ran: nothing was recorded
NotRun == [status |-> "unavailable", artifact |-> None]

Labels == {"idle", "manifest", "prepare", "run", "check", "store", "share",
           "record", "publish", "ack", "nak", "poison"}

ASSUME JobAssumption ==
  /\ None \notin Contents \cup Results \cup {NotRun}
  /\ Torn \notin Contents \cup Results \cup {None}
  /\ Contents \cap Results = {}
  /\ MaxDeliver \in Nat \ {0}
  /\ MaxFaults \in Nat

VARIABLES
  msg,         \* the job message: ready, out (delivered), acked, termed, or
               \* spent: every delivery used, kept by the stream, never handed out
  delivered,   \* its deliveries so far
  manifest, evidence, shared,   \* manifest.json, the raw output, the copy
                                \* grype reads from the scan's workspace
  published,   \* results accepted by SCAN_RESULTS
  window,      \* the Nats-Msg-Id is still in the duplicate window
  dlq,         \* a copy is on SCAN_DLQ
  pc, output, result,           \* per replica: step, the engine's output, result
  faults,
  overlapped   \* the ack wait ran out on a replica that was still working

fileVars == <<manifest, evidence, shared>>
busVars  == <<msg, delivered, published, window, dlq>>
vars == <<fileVars, busVars, pc, output, result, faults, overlapped>>

Init ==
  /\ msg = "ready" /\ delivered = 0
  /\ manifest = None /\ evidence = None /\ shared = None
  /\ published = {} /\ window = FALSE /\ dlq = FALSE
  /\ pc = [w \in Workers |-> "idle"]
  /\ output = [w \in Workers |-> None] /\ result = [w \in Workers |-> None]
  /\ faults = 0 /\ overlapped = FALSE

Fault == faults < MaxFaults /\ faults' = faults + 1
Goto(w, label) == pc' = [pc EXCEPT ![w] = label] /\ UNCHANGED overlapped

\* Where a message goes whose delivery failed.
Undelivered == IF delivered < MaxDeliver THEN "ready" ELSE "spent"
Usable(r) == r.status = "succeeded"

(***************************************************************************)
(* SBOMWorker.handle                                                       *)
(***************************************************************************)
Receive(w) ==
  /\ pc[w] = "idle" /\ msg = "ready"
  /\ msg' = "out" /\ delivered' = delivered + 1
  /\ Goto(w, "manifest")
  /\ UNCHANGED <<fileVars, published, window, dlq, output, result, faults>>

\* Slip: the idempotency check is forgotten.
SkipManifest(w) ==
  /\ pc[w] = "manifest"
  /\ Goto(w, "prepare")
  /\ UNCHANGED <<fileVars, busVars, output, result, faults>>

\* A manifest that parses is re-emitted; a torn one is as good as none.
ReadManifest(w) ==
  /\ pc[w] = "manifest"
  /\ IF manifest \in Results
       THEN result' = [result EXCEPT ![w] = manifest] /\ Goto(w, "publish")
       ELSE Goto(w, "prepare") /\ UNCHANGED result
  /\ UNCHANGED <<fileVars, busVars, output, faults>>

\* Unknown engine, no SBOM to read, no source archive: an outcome without a
\* run and without a manifest. Otherwise the engine starts.
Prepare(w) ==
  /\ pc[w] = "prepare"
  /\ \/ result' = [result EXCEPT ![w] = NotRun] /\ Goto(w, "publish")
     \/ Goto(w, "run") /\ UNCHANGED result
  /\ UNCHANGED <<fileVars, busVars, output, faults>>

\* adapter.generate up to the artifact: an engine that succeeds printed
\* something, one that failed may have.
RunEngine(w, status, c) ==
  /\ pc[w] = "run"
  /\ status = "succeeded" => c # None
  /\ output' = [output EXCEPT ![w] = c]
  /\ result' = [result EXCEPT ![w] = [status |-> status, artifact |-> None]]
  /\ Goto(w, IF c = None THEN "share" ELSE "check")
  /\ UNCHANGED <<fileVars, busVars, faults>>

\* ArtifactWriter.write: an artifact that is there already is kept. The same
\* bytes are referenced again, other bytes raise, which costs the result its
\* artifact and not its status.
CheckArtifact(w) ==
  /\ pc[w] = "check"
  /\ IF evidence = None THEN Goto(w, "store") /\ UNCHANGED result
     ELSE /\ result' = [result EXCEPT ![w].artifact =
                          IF evidence = output[w] THEN output[w] ELSE None]
          /\ Goto(w, "share")
  /\ UNCHANGED <<fileVars, busVars, output, faults>>

\* path.write_bytes, or an OSError, perhaps halfway through, that leaves no
\* artifact in the result.
StoreArtifact(w) ==
  /\ pc[w] = "store"
  /\ \/ /\ evidence' = output[w]
        /\ result' = [result EXCEPT ![w].artifact = output[w]]
        /\ UNCHANGED faults
     \/ Fault /\ evidence' \in {evidence, Torn} /\ UNCHANGED result
  /\ Goto(w, "share")
  /\ UNCHANGED <<manifest, shared, busVars, output>>

\* Slip: the engine's output is shared, stored or not.
ShareOutput(w) ==
  /\ pc[w] = "share"
  /\ shared' = IF Usable(result[w]) THEN output[w] ELSE shared
  /\ Goto(w, "record")
  /\ UNCHANGED <<manifest, evidence, busVars, output, result, faults>>

\* _publish_to_workspace copies the stored file and renames it into place;
\* a failure is logged and the job goes on.
ShareArtifact(w) ==
  /\ pc[w] = "share"
  /\ \/ /\ shared' = IF Usable(result[w]) /\ result[w].artifact # None THEN evidence ELSE shared
        /\ UNCHANGED faults
     \/ Fault /\ UNCHANGED shared
  /\ Goto(w, "record")
  /\ UNCHANGED <<manifest, evidence, busVars, output, result>>

\* _write_manifest, last: an error here is a handler that raised.
WriteManifest(w) ==
  /\ pc[w] = "record"
  /\ \/ manifest' = result[w] /\ Goto(w, "publish") /\ UNCHANGED faults
     \/ Fault /\ Goto(w, "poison") /\ manifest' \in {manifest, Torn}
  /\ UNCHANGED <<evidence, shared, busVars, output, result>>

(***************************************************************************)
(* WorkerBus._dispatch                                                     *)
(***************************************************************************)
\* Slip: acked whether or not the result could be published.
PublishBestEffort(w) ==
  /\ pc[w] = "publish"
  /\ \/ published' = published \cup {result[w]} /\ window' = TRUE /\ UNCHANGED faults
     \/ Fault /\ UNCHANGED <<published, window>>
  /\ Goto(w, "ack")
  /\ UNCHANGED <<fileVars, msg, delivered, dlq, output, result>>

\* publish_result under Nats-Msg-Id = job_id: dropped by JetStream while the
\* id is in its duplicate window. A failed publish naks the job.
PublishResult(w) ==
  /\ pc[w] = "publish"
  /\ \/ /\ published' = IF window THEN published ELSE published \cup {result[w]}
        /\ window' = TRUE
        /\ Goto(w, "ack") /\ UNCHANGED faults
     \/ Fault /\ Goto(w, "nak") /\ UNCHANGED <<published, window>>
  /\ UNCHANGED <<fileVars, msg, delivered, dlq, output, result>>

\* The replica is done with the message: it forgets the job.
Finish(w) ==
  /\ Goto(w, "idle")
  /\ output' = [output EXCEPT ![w] = None] /\ result' = [result EXCEPT ![w] = None]
  /\ UNCHANGED <<fileVars, delivered, published, window>>

\* An ack removes the message from the work queue, however late it comes.
Ack(w) ==
  /\ pc[w] = "ack"
  /\ msg' = IF msg = "termed" THEN msg ELSE "acked"
  /\ Finish(w) /\ UNCHANGED <<dlq, faults>>

\* nak after a failed publish, whatever the delivery count.
Nak(w) ==
  /\ pc[w] = "nak"
  /\ msg' = IF msg = "out" THEN Undelivered ELSE msg
  /\ Finish(w) /\ UNCHANGED <<dlq, faults>>

\* A handler that raised: _to_dlq, best effort, then term.
Poison(w) ==
  /\ pc[w] = "poison"
  /\ \/ dlq' = TRUE /\ UNCHANGED faults
     \/ Fault /\ UNCHANGED dlq
  /\ msg' = IF msg = "acked" THEN msg ELSE "termed"
  /\ Finish(w)

(***************************************************************************)
(* The environment                                                         *)
(***************************************************************************)
\* A replica dies. A file it was writing may be left torn.
Crash(w) ==
  /\ pc[w] # "idle" /\ Fault
  /\ \/ UNCHANGED <<manifest, evidence>>
     \/ pc[w] = "store" /\ evidence' = Torn /\ UNCHANGED manifest
     \/ pc[w] = "record" /\ manifest' = Torn /\ UNCHANGED evidence
  /\ Goto(w, "idle")
  /\ output' = [output EXCEPT ![w] = None] /\ result' = [result EXCEPT ![w] = None]
  /\ UNCHANGED <<shared, busVars>>

\* Slip: a message that was delivered once is never handed out again.
AckWaitForgets ==
  /\ msg = "out"
  /\ msg' = "out"
  /\ overlapped' = (overlapped \/ \E w \in Workers : pc[w] # "idle")
  /\ UNCHANGED <<fileVars, delivered, published, window, dlq, pc, output, result, faults>>

\* The ack wait of the current delivery runs out.
AckWaitExpires ==
  /\ msg = "out"
  /\ msg' = Undelivered
  /\ overlapped' = (overlapped \/ \E w \in Workers : pc[w] # "idle")
  /\ UNCHANGED <<fileVars, delivered, published, window, dlq, pc, output, result, faults>>

WindowCloses ==
  /\ window
  /\ window' = FALSE
  /\ UNCHANGED <<fileVars, msg, delivered, published, dlq, pc, output, result, faults, overlapped>>

-----------------------------------------------------------------------------
WorkerStep(w) ==
  \/ Receive(w) \/ ReadManifest(w) \/ Prepare(w)
  \/ \E status \in EngineOutcome, c \in Contents \cup {None} : RunEngine(w, status, c)
  \/ CheckArtifact(w) \/ StoreArtifact(w) \/ ShareArtifact(w) \/ WriteManifest(w)
  \/ PublishResult(w) \/ Ack(w) \/ Nak(w) \/ Poison(w)

Next ==
  \/ \E w \in Workers : WorkerStep(w) \/ Crash(w)
  \/ AckWaitExpires \/ WindowCloses

Spec == Init /\ [][Next]_vars

\* Some replica keeps pulling, engines end (the sandbox kills them), and the
\* server's ack timer fires.
FairSpec ==
  /\ Spec
  /\ \A w \in Workers : WF_vars(WorkerStep(w))
  /\ WF_vars(AckWaitExpires)

(***************************************************************************)
(* Properties                                                              *)
(***************************************************************************)
TypeOK ==
  /\ msg \in {"ready", "out", "acked", "termed", "spent"}
  /\ delivered \in 0..MaxDeliver
  /\ manifest \in Results \cup {None, Torn}
  /\ evidence \in Contents \cup {None, Torn}
  /\ shared \in Contents \cup {None, Torn}
  /\ published \subseteq Results \cup {NotRun}
  /\ window \in BOOLEAN /\ dlq \in BOOLEAN /\ overlapped \in BOOLEAN
  /\ pc \in [Workers -> Labels]
  /\ output \in [Workers -> Contents \cup {None}]
  /\ result \in [Workers -> Results \cup {NotRun, None}]
  /\ faults \in 0..MaxFaults

\* _dispatch publishes before it acks: an acked job has a result on the stream
\* whatever crashed, expired or was delivered twice in between.
AckedIsPublished == msg = "acked" => published # {}

\* SBOMWorker.handle checks the manifest first and writes it last: as long as
\* no two replicas worked on the job at once, every result published after a
\* run is the recorded one, however often the job was redelivered.
ReplaysAgree ==
  ~overlapped => \A r \in published : r # NotRun => r = manifest

\* ArtifactWriter.write and _publish_to_workspace: what grype reads, what the
\* result names and what is stored are one and the same document.
OneDocument ==
  ~overlapped =>
    /\ shared # None => shared = evidence
    /\ \A r \in published : r.artifact # None => r.artifact = evidence

\* ADR-0003, ArtifactWriter.write: raw output once stored is never rewritten,
\* by any number of redeliveries that do not run side by side.
EvidenceIsImmutable ==
  [][~overlapped /\ evidence # None => evidence' = evidence]_vars

\* Redelivery on ack-wait expiry: a job never stays out with a dead replica.
JobSettles == <>(msg \in {"acked", "termed", "spent"})
=============================================================================
