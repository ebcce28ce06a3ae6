---------------------------- MODULE ScanLifecycle ----------------------------
(***************************************************************************)
(* One scan, from POST /scans to its terminal status, as the              *)
(* scan-orchestrator runs it (services/scan-orchestrator/internal/orchestr *)
(* with the SQL of migrations/scan).                                       *)
(*                                                                         *)
(* Four kinds of actor share the scan's rows in Postgres:                  *)
(*   - the HTTP handlers (create, cancel);                                 *)
(*   - result handlers: goroutines of any orchestrator instance, each      *)
(*     working through one result message taken from SCAN_RESULTS;         *)
(*   - the deadline reaper (an advisory lock keeps sweeps apart);          *)
(*   - the fetcher and the engine workers, seen only through the results   *)
(*     they publish.                                                       *)
(* Every database transaction and every publish of a handler is one step,  *)
(* so what a handler read may be stale when it writes.                     *)
(***************************************************************************)
EXTENDS Integers, FiniteSets

CONSTANTS
  Engines,      \* engines the request may resolve to
  ProducerOf,   \* ConsumesOutputOf: the engine whose output e reads, or NoEngine
  SbomEngines,  \* engines of the sbom family, the one with a normalize trigger
  NoEngine,
  Fetcher,      \* the producer of the source archive (fetcher or webrecon)
  Commits,      \* commits a fetch may land on
  NoCommit,     \* source_commit_sha IS NULL
  Outcomes,     \* what an engine result may carry
  Handlers,     \* concurrent deliveries of result messages
  NoMsg,
  MaxDeliver,   \* deliveries JetStream makes of one message (4 in the code)
  Duplicated,   \* sources whose job may be redelivered and report again
  MaxCopies,    \* result messages such a job may give rise to
  MaxFaults,    \* bound on crashes, database errors and failed publishes
  MayCancel     \* whether a user presses cancel

Sources   == Engines \cup {Fetcher}
Msgs      == Sources \X (1..MaxCopies)
Usable    == {"succeeded", "partial"}
EngineStatus == {"succeeded", "partial", "failed", "timeout", "skipped", "unavailable"}
Malformed == "malformed"      \* fails ScanResultV1.Validate, or names no archive
RunStatus == EngineStatus \cup {"absent", "queued"}
Finished  == {"completed", "completed_with_errors", "failed"}
Terminal  == Finished \cup {"cancelled"}
ScanStatus == Terminal \cup {"absent", "queued", "running"}

Labels == {"idle", "reject", "pin", "fanread", "fanout", "failread", "failall",
  "upsert", "relread", "release", "derive", "write", "notify", "normread",
  "trigger", "claim", "ack"}

\* Outcomes the worker re-decides when a job is redelivered: it returns them
\* before it writes a manifest.
Unrecorded == {"skipped", "unavailable", Malformed}

ASSUME ConstantsAssumption ==
  /\ ProducerOf \in [Engines -> Engines \cup {NoEngine}]
  /\ NoEngine \notin Engines
  /\ Fetcher \notin Engines
  /\ SbomEngines \subseteq Engines
  /\ NoCommit \notin Commits
  /\ Outcomes \subseteq EngineStatus \cup {Malformed}
  /\ Commits \cap (EngineStatus \cup {Malformed}) = {}
  /\ NoMsg \notin Msgs
  /\ MaxDeliver \in Nat \ {0}
  /\ MaxCopies \in Nat \ {0}
  /\ Duplicated \subseteq Sources
  /\ MaxFaults \in Nat
  /\ MayCancel \in BOOLEAN

VARIABLES
  \* scan.scans, scan.engine_runs, scan.normalize_triggers
  scanStatus, commit, run, claimed,
  \* SCAN_JOBS: the fetch job and, per engine, the commits its jobs carry
  fetchJob, jobs,
  \* SCAN_RESULTS: where each result message is, how often it was delivered
  inbox, deliveries, body,
  \* scan.normalize.sbom and notify.scan.completed publishes
  triggers, notified,
  \* result handlers: program counter, message, engines left to act on, status
  pc, cur, todo, derived,
  \* reaper, cancel and create handlers; runs past deadline_at; faults so far
  reaper, reaped, canceller, creator, overdue, faults

scanVars    == <<scanStatus, commit, run, claimed>>
busVars     == <<fetchJob, jobs, inbox, deliveries, body, triggers, notified>>
handlerVars == <<pc, cur, todo, derived>>
otherVars   == <<reaper, reaped, canceller, creator, overdue>>
vars == <<scanVars, busVars, handlerVars, otherVars, faults>>

Requested == {e \in Engines : run[e] # "absent"}

(***************************************************************************)
(* Derivations                                                             *)
(***************************************************************************)
\* Slip: only a failure counts against a scan, a timeout or a skip does not.
DeriveIgnoringTimeouts ==
  IF \A e \in Requested : run[e] # "failed" THEN "completed"
  ELSE IF \E e \in Requested : run[e] \in Usable THEN "completed_with_errors"
  ELSE "failed"

\* events.DeriveScanStatus over TerminalStatuses (one attempt per engine).
DeriveScanStatus ==
  IF Requested # {} /\ \A e \in Requested : run[e] = "succeeded" THEN "completed"
  ELSE IF \E e \in Requested : run[e] \in Usable THEN "completed_with_errors"
  ELSE "failed"

AllRunsTerminal == \A e \in Engines : run[e] # "queued"

\* familyTerminal over latestRunsByEngine.
FamilyTerminal ==
  /\ Requested \cap SbomEngines # {}
  /\ \A e \in SbomEngines : run[e] # "queued"

(***************************************************************************)
(* Initial state                                                           *)
(***************************************************************************)
Init ==
  /\ scanStatus = "absent" /\ commit = NoCommit
  /\ run = [e \in Engines |-> "absent"] /\ claimed = FALSE
  /\ fetchJob = FALSE /\ jobs = [e \in Engines |-> {}]
  /\ inbox = [m \in Msgs |-> "absent"]
  /\ deliveries = [m \in Msgs |-> 0]
  /\ body = [m \in Msgs |-> NoMsg]
  /\ triggers = 0 /\ notified = FALSE
  /\ pc = [h \in Handlers |-> "idle"] /\ cur = [h \in Handlers |-> NoMsg]
  /\ todo = [h \in Handlers |-> {}] /\ derived = [h \in Handlers |-> "absent"]
  /\ reaper = "idle" /\ reaped = "absent" /\ canceller = "idle"
  /\ creator = "idle" /\ overdue = {} /\ faults = 0

Fault == faults < MaxFaults /\ faults' = faults + 1

(***************************************************************************)
(* HTTP handlers                                                           *)
(***************************************************************************)
\* Store.CreateScan: the scan and one queued run per engine, in one transaction.
CreateScan(requested) ==
  /\ scanStatus = "absent"
  /\ requested # {}
  /\ scanStatus' = "queued"
  /\ run' = [e \in Engines |-> IF e \in requested THEN "queued" ELSE "absent"]
  /\ creator' = "publish"
  /\ UNCHANGED <<commit, claimed, busVars, handlerVars,
                 reaper, reaped, canceller, overdue, faults>>

\* publishFetchJob / publishWebreconJob; a failure leaves the scan queued.
PublishFetchJob ==
  /\ creator = "publish"
  /\ creator' = "idle"
  /\ \/ fetchJob' = TRUE /\ UNCHANGED faults
     \/ Fault /\ UNCHANGED fetchJob
  /\ UNCHANGED <<scanVars, jobs, inbox, deliveries, body, triggers, notified,
                 handlerVars, reaper, reaped, canceller, overdue>>

\* Handler.Cancel reads the status and refuses a finished scan ...
CancelRead ==
  /\ MayCancel /\ canceller = "idle"
  /\ scanStatus \notin Finished \cup {"absent"}
  /\ canceller' = "decided"
  /\ UNCHANGED <<scanVars, busVars, handlerVars, reaper, reaped, creator, overdue, faults>>

\* ... and then writes the cancellation in a second transaction.
CancelWrite ==
  /\ canceller = "decided"
  /\ canceller' = "done"
  /\ scanStatus' = "cancelled"
  /\ UNCHANGED <<commit, run, claimed, busVars, handlerVars,
                 reaper, reaped, creator, overdue, faults>>

(***************************************************************************)
(* Fetcher and workers                                                     *)
(***************************************************************************)
\* A redelivered job publishes again: copies are published in order.
Emit(m, b) ==
  /\ inbox[m] = "absent"
  /\ m[2] > 1 => m[1] \in Duplicated /\ inbox[<<m[1], m[2] - 1>>] # "absent"
  /\ inbox' = [inbox EXCEPT ![m] = "ready"]
  /\ body' = [body EXCEPT ![m] = b]
  /\ UNCHANGED <<scanVars, fetchJob, jobs, deliveries, triggers, notified,
                 handlerVars, otherVars, faults>>

FetcherReports(n, b) ==
  /\ fetchJob
  /\ Emit(<<Fetcher, n>>, b)

\* SBOMWorker.handle: a stored manifest is re-emitted unchanged.
WorkerReports(e, n, o) ==
  /\ jobs[e] # {}
  /\ \A k \in 1..(n - 1) : body[<<e, k>>] \in Unrecorded \cup {o}
  /\ Emit(<<e, n>>, o)

(***************************************************************************)
(* Message delivery                                                        *)
(***************************************************************************)
FirstStep(m) ==
  IF body[m] = Malformed THEN "reject"
  ELSE IF m[1] # Fetcher THEN "upsert"
  ELSE IF body[m] \in Commits THEN "pin" ELSE "failread"

Deliver(h, m) ==
  /\ pc[h] = "idle" /\ inbox[m] = "ready"
  /\ inbox' = [inbox EXCEPT ![m] = "held"]
  /\ deliveries' = [deliveries EXCEPT ![m] = @ + 1]
  /\ cur' = [cur EXCEPT ![h] = m]
  /\ pc' = [pc EXCEPT ![h] = FirstStep(m)]
  /\ UNCHANGED <<scanVars, fetchJob, jobs, body, triggers, notified,
                 todo, derived, otherVars, faults>>

\* The message leaves the handler in state st; the handler is free again.
Release(h, st) ==
  /\ inbox' = [inbox EXCEPT ![cur[h]] = st]
  /\ pc' = [pc EXCEPT ![h] = "idle"]
  /\ cur' = [cur EXCEPT ![h] = NoMsg]
  /\ todo' = [todo EXCEPT ![h] = {}]
  /\ derived' = [derived EXCEPT ![h] = "absent"]
  /\ UNCHANGED <<scanVars, fetchJob, jobs, deliveries, body, triggers, notified, otherVars>>

\* dispatch: nil acks the message.
Ack(h) ==
  /\ pc[h] = "ack"
  /\ Release(h, "acked")
  /\ UNCHANGED faults

\* dispatch: a permanent error goes to the DLQ and terminates the message.
Reject(h) ==
  /\ pc[h] = "reject"
  /\ Release(h, "dead")
  /\ UNCHANGED faults

\* ErrRetry, a crash of the instance or a lost ack: redelivered until the
\* deliveries are used up, dead after that.
Abandon(h) ==
  /\ pc[h] # "idle"
  /\ Fault
  /\ Release(h, IF deliveries[cur[h]] < MaxDeliver THEN "ready" ELSE "dead")

\* A step of handler h that touches no message state beyond what it names.
Goto(h, label) ==
  /\ pc' = [pc EXCEPT ![h] = label]
  /\ UNCHANGED <<cur, fetchJob, inbox, deliveries, body, otherVars>>

\* UpsertEngineRun: unconditional on conflict of job_id.
UpsertEngineRun(e, st) == run' = [run EXCEPT ![e] = st]

\* publishJob: the job carries the commit of the scan row. A second publish of
\* the same job_id is dropped by JetStream or re-runs an idempotent job.
PublishJob(e) == jobs' = [jobs EXCEPT ![e] = @ \cup {commit}]

(***************************************************************************)
(* handleFetchResult                                                       *)
(***************************************************************************)
\* Slip: the UPDATE without its WHERE source_commit_sha IS NULL.
RepinSource(h) ==
  /\ pc[h] = "pin"
  /\ commit' = body[cur[h]] /\ scanStatus' = "running"
  /\ Goto(h, "fanread")
  /\ UNCHANGED <<run, claimed, jobs, triggers, notified, todo, derived, faults>>

\* SetSourceOnce: UPDATE ... WHERE source_commit_sha IS NULL.
SetSourceOnce(h) ==
  /\ pc[h] = "pin"
  /\ IF commit = NoCommit
       THEN commit' = body[cur[h]] /\ scanStatus' = "running"
       ELSE UNCHANGED <<commit, scanStatus>>
  /\ Goto(h, "fanread")
  /\ UNCHANGED <<run, claimed, jobs, triggers, notified, todo, derived, faults>>

\* Slip: the engines that read another one's output are dispatched at once.
FanOutAll(h) ==
  /\ pc[h] = "fanread"
  /\ todo' = [todo EXCEPT ![h] = {e \in Engines : run[e] = "queued"}]
  /\ Goto(h, "fanout")
  /\ UNCHANGED <<scanVars, jobs, triggers, notified, derived, faults>>

\* FanOut: load the runs; queued ones that read nobody's output get a job.
FanOutRead(h) ==
  /\ pc[h] = "fanread"
  /\ todo' = [todo EXCEPT ![h] = {e \in Engines : run[e] = "queued" /\ ProducerOf[e] = NoEngine}]
  /\ Goto(h, "fanout")
  /\ UNCHANGED <<scanVars, jobs, triggers, notified, derived, faults>>

\* One publish per engine; one engine failing to queue does not stop the rest.
FanOutPublish(h, e) ==
  /\ pc[h] = "fanout" /\ e \in todo[h]
  /\ \/ PublishJob(e) /\ UNCHANGED faults
     \/ Fault /\ UNCHANGED jobs
  /\ todo' = [todo EXCEPT ![h] = @ \ {e}]
  /\ Goto(h, "fanout")
  /\ UNCHANGED <<scanVars, triggers, notified, derived>>

FanOutDone(h) ==
  /\ pc[h] = "fanout" /\ todo[h] = {}
  /\ Goto(h, "ack")
  /\ UNCHANGED <<scanVars, jobs, triggers, notified, todo, derived, faults>>

\* failAllRuns: the runs queued when they were loaded are marked failed.
FailAllRead(h) ==
  /\ pc[h] = "failread"
  /\ todo' = [todo EXCEPT ![h] = {e \in Engines : run[e] = "queued"}]
  /\ Goto(h, "failall")
  /\ UNCHANGED <<scanVars, jobs, triggers, notified, derived, faults>>

FailAllUpsert(h, e) ==
  /\ pc[h] = "failall" /\ e \in todo[h]
  /\ UpsertEngineRun(e, "failed")
  /\ todo' = [todo EXCEPT ![h] = @ \ {e}]
  /\ Goto(h, "failall")
  /\ UNCHANGED <<scanStatus, commit, claimed, jobs, triggers, notified, derived, faults>>

FailAllDone(h) ==
  /\ pc[h] = "failall" /\ todo[h] = {}
  /\ Goto(h, "derive")
  /\ UNCHANGED <<scanVars, jobs, triggers, notified, todo, derived, faults>>

(***************************************************************************)
(* HandleResult                                                            *)
(***************************************************************************)
\* Slip: an unusable result returns before its dependents are looked at.
UpsertAndReturn(h) ==
  /\ pc[h] = "upsert"
  /\ UpsertEngineRun(cur[h][1], body[cur[h]])
  /\ Goto(h, IF body[cur[h]] \in Usable THEN "relread" ELSE "derive")
  /\ UNCHANGED <<scanStatus, commit, claimed, jobs, triggers, notified,
                 todo, derived, faults>>

\* HandleResult upserts the engine run first, whatever it said before.
UpsertResult(h) ==
  /\ pc[h] = "upsert"
  /\ UpsertEngineRun(cur[h][1], body[cur[h]])
  /\ Goto(h, "relread")
  /\ UNCHANGED <<scanStatus, commit, claimed, jobs, triggers, notified,
                 todo, derived, faults>>

\* releaseDependents: load the runs that wait for this engine's output.
ReleaseRead(h) ==
  /\ pc[h] = "relread"
  /\ todo' = [todo EXCEPT ![h] =
       {e \in Engines : run[e] = "queued" /\ ProducerOf[e] = cur[h][1]}]
  /\ Goto(h, "release")
  /\ UNCHANGED <<scanVars, jobs, triggers, notified, derived, faults>>

\* Slip: the dependents of a failed producer are dispatched too.
ReleaseRegardless(h, e) ==
  /\ pc[h] = "release" /\ e \in todo[h]
  /\ PublishJob(e)
  /\ todo' = [todo EXCEPT ![h] = @ \ {e}]
  /\ Goto(h, "release")
  /\ UNCHANGED <<scanVars, triggers, notified, derived, faults>>

\* The producer's output exists: publish the dependent's job, or log and wait.
ReleaseDependent(h, e) ==
  /\ pc[h] = "release" /\ e \in todo[h]
  /\ body[cur[h]] \in Usable
  /\ \/ PublishJob(e) /\ UNCHANGED faults
     \/ Fault /\ UNCHANGED jobs
  /\ todo' = [todo EXCEPT ![h] = @ \ {e}]
  /\ Goto(h, "release")
  /\ UNCHANGED <<scanVars, triggers, notified, derived>>

\* skipDependent: the producer produced nothing to read.
SkipDependent(h, e) ==
  /\ pc[h] = "release" /\ e \in todo[h]
  /\ body[cur[h]] \notin Usable
  /\ \/ UpsertEngineRun(e, "skipped") /\ UNCHANGED faults
     \/ Fault /\ UNCHANGED run
  /\ todo' = [todo EXCEPT ![h] = @ \ {e}]
  /\ Goto(h, "release")
  /\ UNCHANGED <<scanStatus, commit, claimed, jobs, triggers, notified, derived>>

ReleaseDone(h) ==
  /\ pc[h] = "release" /\ todo[h] = {}
  /\ Goto(h, "derive")
  /\ UNCHANGED <<scanVars, jobs, triggers, notified, todo, derived, faults>>

(***************************************************************************)
(* RecomputeScanStatus                                                     *)
(***************************************************************************)
AfterRecompute(h) == IF cur[h][1] \in SbomEngines THEN "normread" ELSE "ack"

\* AllRunsTerminal then TerminalStatuses. A run never returns to queued, so
\* the two reads see what one read at the time of the second would see.
ReadStatuses(h) ==
  /\ pc[h] = "derive"
  /\ IF AllRunsTerminal
       THEN /\ derived' = [derived EXCEPT ![h] = DeriveScanStatus]
            /\ Goto(h, "write")
       ELSE Goto(h, AfterRecompute(h)) /\ UNCHANGED derived
  /\ UNCHANGED <<scanVars, jobs, triggers, notified, todo, faults>>

\* UpdateScanStatus: unconditional.
WriteStatus(h) ==
  /\ pc[h] = "write"
  /\ scanStatus' = derived[h]
  /\ Goto(h, "notify")
  /\ UNCHANGED <<commit, run, claimed, jobs, triggers, notified, todo, derived, faults>>

\* publishScanCompleted, best effort.
PublishScanCompleted(h) ==
  /\ pc[h] = "notify"
  /\ \/ notified' = TRUE /\ UNCHANGED faults
     \/ Fault /\ UNCHANGED notified
  /\ Goto(h, AfterRecompute(h))
  /\ UNCHANGED <<scanVars, jobs, triggers, todo, derived>>

(***************************************************************************)
(* maybeTriggerNormalize                                                   *)
(***************************************************************************)
\* Slip: this result is terminal, so the family is taken to be.
ProbeOwnResult(h) ==
  /\ pc[h] = "normread"
  /\ Goto(h, IF run[cur[h][1]] # "queued" /\ ~claimed THEN "trigger" ELSE "ack")
  /\ UNCHANGED <<scanVars, jobs, triggers, notified, todo, derived, faults>>

\* familyTerminal and the NormalizeTriggerID probe. A failed read gives up.
NormalizeProbe(h) ==
  /\ pc[h] = "normread"
  /\ \/ /\ Goto(h, IF FamilyTerminal /\ ~claimed THEN "trigger" ELSE "ack")
        /\ UNCHANGED faults
     \/ Fault /\ Goto(h, "ack")
  /\ UNCHANGED <<scanVars, jobs, triggers, notified, todo, derived>>

\* Publish first, claim second; a failure to build or publish claims nothing.
PublishTrigger(h) ==
  /\ pc[h] = "trigger"
  /\ \/ triggers' = triggers + 1 /\ Goto(h, "claim") /\ UNCHANGED faults
     \/ Fault /\ Goto(h, "ack") /\ UNCHANGED triggers
  /\ UNCHANGED <<scanVars, jobs, notified, todo, derived>>

\* MarkNormalizeTriggered: INSERT ... ON CONFLICT DO NOTHING.
ClaimTrigger(h) ==
  /\ pc[h] = "claim"
  /\ \/ claimed' = TRUE /\ UNCHANGED faults
     \/ Fault /\ UNCHANGED claimed
  /\ Goto(h, "ack")
  /\ UNCHANGED <<scanStatus, commit, run, jobs, triggers, notified, todo, derived>>

(***************************************************************************)
(* Deadline reaper                                                         *)
(***************************************************************************)
DeadlinePasses(e) ==
  /\ run[e] = "queued" /\ e \notin overdue
  /\ overdue' = overdue \cup {e}
  /\ UNCHANGED <<scanVars, busVars, handlerVars, reaper, reaped, canceller, creator, faults>>

\* scan.reap_overdue_runs(), committed before anything else happens.
ReapOverdueRuns ==
  /\ reaper = "idle"
  /\ \E e \in overdue : run[e] = "queued"
  /\ run' = [e \in Engines |-> IF e \in overdue /\ run[e] = "queued" THEN "timeout" ELSE run[e]]
  /\ reaper' = "read"
  /\ UNCHANGED <<scanStatus, commit, claimed, busVars, handlerVars,
                 reaped, canceller, creator, overdue, faults>>

\* Slip: the sweep ends the runs and leaves the scan as it was.
ReapWithoutRecompute ==
  /\ reaper = "read"
  /\ reaper' = "idle"
  /\ UNCHANGED <<scanVars, busVars, handlerVars, reaped, canceller, creator, overdue, faults>>

\* terminal_statuses_for; no derivation while anything is still queued.
ReaperRead ==
  /\ reaper = "read"
  /\ IF AllRunsTerminal
       THEN reaper' = "write" /\ reaped' = DeriveScanStatus
       ELSE reaper' = "idle" /\ UNCHANGED reaped
  /\ UNCHANGED <<scanVars, busVars, handlerVars, canceller, creator, overdue, faults>>

\* scan.set_scan_status: unconditional.
ReaperWrite ==
  /\ reaper = "write"
  /\ reaper' = "idle"
  /\ scanStatus' = reaped
  /\ reaped' = "absent"
  /\ UNCHANGED <<commit, run, claimed, busVars, handlerVars, canceller, creator, overdue, faults>>

\* The instance dies mid-sweep (its lock goes with the connection), or a read
\* or write of one scan fails and the sweep moves on.
ReaperFails ==
  /\ reaper # "idle"
  /\ Fault
  /\ reaper' = "idle" /\ reaped' = "absent"
  /\ UNCHANGED <<scanVars, busVars, handlerVars, canceller, creator, overdue>>

-----------------------------------------------------------------------------
HandlerStep(h) ==
  \/ Ack(h) \/ Reject(h)
  \/ SetSourceOnce(h) \/ FanOutRead(h) \/ FanOutDone(h)
  \/ FailAllRead(h) \/ FailAllDone(h)
  \/ UpsertResult(h) \/ ReleaseRead(h) \/ ReleaseDone(h)
  \/ ReadStatuses(h) \/ WriteStatus(h) \/ PublishScanCompleted(h)
  \/ NormalizeProbe(h) \/ PublishTrigger(h) \/ ClaimTrigger(h)
  \/ \E e \in Engines : \/ FanOutPublish(h, e) \/ FailAllUpsert(h, e)
                        \/ ReleaseDependent(h, e) \/ SkipDependent(h, e)

ReaperStep == ReapOverdueRuns \/ ReaperRead \/ ReaperWrite

Next ==
  \/ \E requested \in SUBSET Engines : CreateScan(requested)
  \/ PublishFetchJob
  \/ CancelRead \/ CancelWrite
  \/ \E n \in 1..MaxCopies, b \in Commits \cup {"failed", Malformed} : FetcherReports(n, b)
  \/ \E e \in Engines, n \in 1..MaxCopies, o \in Outcomes : WorkerReports(e, n, o)
  \/ \E h \in Handlers, m \in Msgs : Deliver(h, m)
  \/ \E h \in Handlers : HandlerStep(h) \/ Abandon(h)
  \/ \E e \in Engines : DeadlinePasses(e)
  \/ ReaperStep \/ ReaperFails

Spec == Init /\ [][Next]_vars

\* Ready messages are delivered and handled, deadlines pass, the reaper
\* sweeps every 20 seconds. Nothing obliges a worker to report, a user to
\* cancel or a fault to happen.
Fairness ==
  /\ WF_vars(PublishFetchJob)
  /\ WF_vars(CancelWrite)
  /\ WF_vars(\E h \in Handlers, m \in Msgs : Deliver(h, m))
  /\ \A h \in Handlers : WF_vars(HandlerStep(h))
  /\ \A e \in Engines : WF_vars(DeadlinePasses(e))
  /\ WF_vars(ReaperStep)

FairSpec == Spec /\ Fairness

(***************************************************************************)
(* Properties                                                              *)
(***************************************************************************)
TypeOK ==
  /\ scanStatus \in ScanStatus
  /\ commit \in Commits \cup {NoCommit}
  /\ run \in [Engines -> RunStatus]
  /\ claimed \in BOOLEAN /\ fetchJob \in BOOLEAN /\ notified \in BOOLEAN
  /\ jobs \in [Engines -> SUBSET (Commits \cup {NoCommit})]
  /\ inbox \in [Msgs -> {"absent", "ready", "held", "acked", "dead"}]
  /\ deliveries \in [Msgs -> Nat]
  /\ body \in [Msgs -> Outcomes \cup Commits \cup {"failed", Malformed, NoMsg}]
  /\ triggers \in Nat /\ faults \in 0..MaxFaults
  /\ pc \in [Handlers -> Labels]
  /\ cur \in [Handlers -> Msgs \cup {NoMsg}]
  /\ todo \in [Handlers -> SUBSET Engines]
  /\ derived \in [Handlers -> Finished \cup {"absent"}]
  /\ reaper \in {"idle", "read", "write"}
  /\ reaped \in Finished \cup {"absent"}
  /\ canceller \in {"idle", "decided", "done"}
  /\ creator \in {"idle", "publish"}
  /\ overdue \subseteq Engines

\* Some result of engine e, published so far, carries a status in S.
Reported(e, S) ==
  \E n \in 1..MaxCopies : inbox[<<e, n>>] # "absent" /\ body[<<e, n>>] \in S

\* SetSourceOnce pins the scan and every ScanJobV1 carries the pin, so no
\* redelivered or second fetch lets two engines read two commits, and no
\* engine is dispatched before there is one.
SameCommit == \A e \in Engines : jobs[e] \subseteq {commit} \ {NoCommit}

\* FanOut holds back the engines of ConsumesOutputOf: one is dispatched by
\* releaseDependents on a usable result of its producer, and skipped without
\* having run only on an unusable one.
DependentFollowsProducer ==
  \A e \in Engines : ProducerOf[e] # NoEngine =>
    /\ jobs[e] # {} => Reported(ProducerOf[e], Usable)
    /\ run[e] = "skipped" /\ jobs[e] = {} => Reported(ProducerOf[e], EngineStatus \ Usable)

\* RecomputeScanStatus and Sweep read statuses in one transaction and write the
\* derived one in another: a scan still never says completed over a run that
\* failed, was skipped or timed out.
CompletedIsHonest ==
  scanStatus = "completed" => \A e \in Requested : run[e] = "succeeded"

\* maybeTriggerNormalize: the trigger lists the evidence of every engine of the
\* family, so none of them may still be queued when one is published.
TriggerAfterFamilyTerminal == triggers > 0 => FamilyTerminal

\* MarkNormalizeTriggered after the publish: a claimed trigger is a published
\* one, across crashes between the two, so nothing is claimed and never sent.
ClaimFollowsPublish == claimed => triggers > 0

\* handleResultMessage acks only a result that UpsertEngineRun recorded; what
\* the reaper or failAllRuns wrote in the meantime does not hide it.
AckedResultRecorded ==
  \A e \in Engines, n \in 1..MaxCopies :
    inbox[<<e, n>>] = "acked" => \E k \in 1..MaxCopies : run[e] = body[<<e, k>>]

\* FanOut and releaseDependents: once the message that makes an engine runnable
\* is acked and no call failed, the engine has a job or an outcome. Without this
\* only the deadline would end it (dependent.go, "nobody else will publish this").
NoRunForgotten ==
  faults = 0 =>
    \A m \in Msgs : inbox[m] = "acked" =>
      \A e \in Requested :
        (IF m[1] = Fetcher THEN ProducerOf[e] = NoEngine ELSE ProducerOf[e] = m[1])
          => run[e] # "queued" \/ jobs[e] # {}

\* What was reported takes effect: the result stands in its run, and the runs
\* that waited for it are dispatched (HandleResult, FanOut, releaseDependents).
ReportsTakeEffect == AckedResultRecorded /\ NoRunForgotten

\* The scan keeps the promises of ScanContract.
Contract == INSTANCE ScanContract WITH
  pin <- commit, dispatched <- jobs, requested <- Requested,
  ended <- {e \in Requested : run[e] # "queued"}
KeepsContract == Contract!Spec

\* Sweep: every run gets an outcome, whether or not its job was published, its
\* worker answered or its producer was ever requested.
EveryRunEnds == \A e \in Engines : run[e] = "queued" ~> run[e] # "queued"

\* Sweep and RecomputeScanStatus between them: some handler or the reaper
\* derives the scan's status after the last run ended.
ReachesTerminal == scanStatus = "queued" ~> scanStatus \in Terminal

\* Nothing stays open: every run ends and so does the scan (reap_overdue_runs, Sweep).
ScanEnds == EveryRunEnds /\ ReachesTerminal
=============================================================================
