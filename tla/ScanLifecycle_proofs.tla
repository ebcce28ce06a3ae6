------------------------ MODULE ScanLifecycle_proofs ------------------------
(***************************************************************************)
(* Proofs about ScanLifecycle, for every set of engines, commits, handlers *)
(* and outcomes, every dependency between engines and every bound.         *)
(***************************************************************************)
EXTENDS ScanLifecycle, TLAPS

(***************************************************************************)
(* Types, and what a handler knows at each of its steps                    *)
(***************************************************************************)
ResultSteps == {"upsert", "relread", "release"}

HandlerOK ==
  \A h \in Handlers :
    /\ pc[h] # "idle" => cur[h] \in Msgs /\ inbox[cur[h]] # "absent"
    /\ pc[h] = "pin" => body[cur[h]] \in Commits
    /\ pc[h] \in ResultSteps => cur[h][1] \in Engines /\ body[cur[h]] \in EngineStatus
    /\ pc[h] = "write" => derived[h] \in Finished

MessageOK ==
  \A m \in Msgs : inbox[m] # "absent" =>
    IF m[1] = Fetcher THEN body[m] \in Commits \cup {"failed", Malformed}
                      ELSE body[m] \in Outcomes

ReaperOK == reaper = "write" => reaped \in Finished

TypeInv == TypeOK /\ HandlerOK /\ MessageOK /\ ReaperOK

USE ConstantsAssumption
USE DEF TypeInv, TypeOK, HandlerOK, MessageOK, ReaperOK, ScanStatus, Terminal, Finished,
        RunStatus, EngineStatus, Malformed, Labels, ResultSteps

\* A message is an engine's or the fetcher's.
LEMMA MessageSource == \A m \in Msgs : m[1] \in Engines \/ m[1] = Fetcher
  BY DEF Msgs, Sources

LEMMA SourceMessage ==
  \A n \in 1..MaxCopies : <<Fetcher, n>> \in Msgs /\ \A e \in Engines : <<e, n>> \in Msgs
  BY DEF Msgs, Sources

\* DeriveScanStatus only ever derives a finished status.
LEMMA DeriveType == DeriveScanStatus \in Finished
  BY DEF DeriveScanStatus

LEMMA TypeInit == Init => TypeInv
<1> SUFFICES ASSUME Init PROVE TypeInv
  OBVIOUS
<1>1. claimed \in BOOLEAN /\ fetchJob \in BOOLEAN /\ notified \in BOOLEAN
  BY Zenon DEF Init
<1>2. HandlerOK /\ MessageOK /\ ReaperOK
  BY DEF Init
<1>3. TypeOK
  BY <1>1 DEF Init
<1> QED BY <1>2, <1>3

\* A published result has the type its publisher gave it.
LEMMA EmitType ==
  ASSUME TypeInv, NEW m \in Msgs, NEW b, Emit(m, b),
         b \in IF m[1] = Fetcher THEN Commits \cup {"failed", Malformed} ELSE Outcomes
  PROVE  TypeInv'
<1> USE DEF Emit, scanVars, handlerVars, otherVars
<1>1. TypeOK'
  OBVIOUS
<1>2. HandlerOK' /\ MessageOK' /\ ReaperOK'
  BY SMTT(60)
<1> QED BY <1>1, <1>2

\* The steps of the handlers and the reaper preserve the types.
LEMMA TypeStep ==
  ASSUME TypeInv, [Next]_vars
  PROVE  TypeInv'
<1> USE DEF scanVars, busVars, handlerVars, otherVars
<1>1. ASSUME NEW S \in SUBSET Engines, CreateScan(S) PROVE TypeInv'
  BY <1>1 DEF CreateScan
<1>2. CASE PublishFetchJob
  <2>1. fetchJob' \in BOOLEAN
    BY <1>2, Zenon DEF PublishFetchJob
  <2> QED BY <1>2, <2>1 DEF PublishFetchJob, Fault
<1>3. CASE CancelRead
  BY <1>3 DEF CancelRead
<1>4. CASE CancelWrite
  BY <1>4 DEF CancelWrite
<1>5. ASSUME NEW n \in 1..MaxCopies, NEW b \in Commits \cup {"failed", Malformed},
             FetcherReports(n, b)
      PROVE TypeInv'
  BY <1>5, SourceMessage, EmitType DEF FetcherReports
<1>6. ASSUME NEW e \in Engines, NEW n \in 1..MaxCopies, NEW o \in Outcomes,
             WorkerReports(e, n, o)
      PROVE TypeInv'
  BY <1>6, SourceMessage, EmitType DEF WorkerReports
<1>7. ASSUME NEW h \in Handlers, NEW m \in Msgs, Deliver(h, m) PROVE TypeInv'
  <2>1. FirstStep(m) \in {"reject", "upsert", "pin", "failread"}
    BY DEF FirstStep
  <2>2. FirstStep(m) = "pin" => body[m] \in Commits
    BY DEF FirstStep
  <2>3. FirstStep(m) = "upsert" => m[1] \in Engines /\ body[m] \in EngineStatus
    BY <1>7, MessageSource DEF FirstStep, Deliver
  <2>4. TypeOK' /\ MessageOK' /\ ReaperOK'
    BY <1>7, <2>1 DEF Deliver
  <2>5. HandlerOK'
    BY <1>7, <2>1, <2>2, <2>3 DEF Deliver
  <2> QED BY <2>4, <2>5
<1>8. ASSUME NEW h \in Handlers, Ack(h) PROVE TypeInv'
  BY <1>8 DEF Ack, Release
<1>9. ASSUME NEW h \in Handlers, Reject(h) PROVE TypeInv'
  BY <1>9 DEF Reject, Release
<1>10. ASSUME NEW h \in Handlers, Abandon(h) PROVE TypeInv'
  BY <1>10 DEF Abandon, Release, Fault
<1>11. ASSUME NEW h \in Handlers, SetSourceOnce(h) PROVE TypeInv'
  BY <1>11 DEF SetSourceOnce, Goto
<1>12. ASSUME NEW h \in Handlers, FanOutRead(h) PROVE TypeInv'
  BY <1>12 DEF FanOutRead, Goto
<1>13. ASSUME NEW h \in Handlers, NEW e \in Engines, FanOutPublish(h, e) PROVE TypeInv'
  BY <1>13 DEF FanOutPublish, PublishJob, Goto, Fault
<1>14. ASSUME NEW h \in Handlers, FanOutDone(h) PROVE TypeInv'
  BY <1>14 DEF FanOutDone, Goto
<1>15. ASSUME NEW h \in Handlers, FailAllRead(h) PROVE TypeInv'
  BY <1>15 DEF FailAllRead, Goto
<1>16. ASSUME NEW h \in Handlers, NEW e \in Engines, FailAllUpsert(h, e) PROVE TypeInv'
  BY <1>16 DEF FailAllUpsert, UpsertEngineRun, Goto
<1>17. ASSUME NEW h \in Handlers, FailAllDone(h) PROVE TypeInv'
  BY <1>17 DEF FailAllDone, Goto
<1>18. ASSUME NEW h \in Handlers, UpsertResult(h) PROVE TypeInv'
  BY <1>18 DEF UpsertResult, UpsertEngineRun, Goto
<1>19. ASSUME NEW h \in Handlers, ReleaseRead(h) PROVE TypeInv'
  BY <1>19 DEF ReleaseRead, Goto
<1>20. ASSUME NEW h \in Handlers, NEW e \in Engines, ReleaseDependent(h, e) PROVE TypeInv'
  BY <1>20 DEF ReleaseDependent, PublishJob, Goto, Fault
<1>21. ASSUME NEW h \in Handlers, NEW e \in Engines, SkipDependent(h, e) PROVE TypeInv'
  BY <1>21 DEF SkipDependent, UpsertEngineRun, Goto, Fault
<1>22. ASSUME NEW h \in Handlers, ReleaseDone(h) PROVE TypeInv'
  BY <1>22 DEF ReleaseDone, Goto
<1>23. ASSUME NEW h \in Handlers, ReadStatuses(h) PROVE TypeInv'
  BY <1>23, DeriveType DEF ReadStatuses, AfterRecompute, Goto
<1>24. ASSUME NEW h \in Handlers, WriteStatus(h) PROVE TypeInv'
  BY <1>24 DEF WriteStatus, Goto
<1>25. ASSUME NEW h \in Handlers, PublishScanCompleted(h) PROVE TypeInv'
  <2>1. notified' \in BOOLEAN
    BY <1>25, Zenon DEF PublishScanCompleted
  <2> QED BY <1>25, <2>1 DEF PublishScanCompleted, AfterRecompute, Goto, Fault
<1>26. ASSUME NEW h \in Handlers, NormalizeProbe(h) PROVE TypeInv'
  BY <1>26 DEF NormalizeProbe, Goto, Fault
<1>27. ASSUME NEW h \in Handlers, PublishTrigger(h) PROVE TypeInv'
  BY <1>27 DEF PublishTrigger, Goto, Fault
<1>28. ASSUME NEW h \in Handlers, ClaimTrigger(h) PROVE TypeInv'
  <2>1. claimed' \in BOOLEAN
    BY <1>28, Zenon DEF ClaimTrigger
  <2> QED BY <1>28, <2>1 DEF ClaimTrigger, Goto, Fault
<1>29. ASSUME NEW e \in Engines, DeadlinePasses(e) PROVE TypeInv'
  BY <1>29 DEF DeadlinePasses
<1>30. CASE ReapOverdueRuns
  BY <1>30 DEF ReapOverdueRuns
<1>31. CASE ReaperRead
  BY <1>31, DeriveType DEF ReaperRead
<1>32. CASE ReaperWrite
  BY <1>32 DEF ReaperWrite
<1>33. CASE ReaperFails
  BY <1>33 DEF ReaperFails, Fault
<1>34. CASE UNCHANGED vars
  BY <1>34 DEF vars
<1> QED
  BY <1>1, <1>2, <1>3, <1>4, <1>5, <1>6, <1>7, <1>8, <1>9, <1>10, <1>11, <1>12, <1>13,
     <1>14, <1>15, <1>16, <1>17, <1>18, <1>19, <1>20, <1>21, <1>22, <1>23, <1>24, <1>25,
     <1>26, <1>27, <1>28, <1>29, <1>30, <1>31, <1>32, <1>33, <1>34, ZenonT(60)
  DEF Next, HandlerStep, ReaperStep

\* Every field of the scan's rows, of the bus and of the handlers keeps its
\* type, and a handler at a step knows what that step relies on.
THEOREM TypeCorrect == Spec => []TypeOK
<1>1. Spec => []TypeInv
  BY TypeInit, TypeStep, PTL DEF Spec
<1>2. TypeInv => TypeOK
  OBVIOUS
<1> QED BY <1>1, <1>2, PTL

(***************************************************************************)
(* One commit per scan                                                     *)
(***************************************************************************)
USE DEF SameCommit

\* FanOut runs only once the commit is pinned.
FanOutPinned == \A h \in Handlers : pc[h] \in {"fanread", "fanout"} => commit # NoCommit

\* A worker answers a job, never out of nothing.
ResultHasJob ==
  \A e \in Engines, n \in 1..MaxCopies : inbox[<<e, n>>] # "absent" => jobs[e] # {}

PinInv == SameCommit /\ FanOutPinned /\ ResultHasJob

LEMMA MessageShape ==
  ASSUME NEW m \in Msgs
  PROVE  m[2] \in 1..MaxCopies /\ m = <<m[1], m[2]>>
  BY DEF Msgs, Sources

\* What a step that touches neither the pin nor the jobs does to PinInv.
LEMMA PinFrame ==
  ASSUME PinInv, UNCHANGED <<commit, jobs>>,
         \A m \in Msgs : inbox'[m] # "absent" => inbox[m] # "absent",
         \A h \in Handlers : pc'[h] \in {"fanread", "fanout"} => pc[h] \in {"fanread", "fanout"}
  PROVE  PinInv'
  BY SourceMessage DEF PinInv, FanOutPinned, ResultHasJob

LEMMA PinStep ==
  ASSUME TypeInv, PinInv, [Next]_vars
  PROVE  PinInv'
<1> USE DEF scanVars, busVars, handlerVars, otherVars
<1>1. CASE \/ \E S \in SUBSET Engines : CreateScan(S)
           \/ PublishFetchJob \/ CancelRead \/ CancelWrite
           \/ \E e \in Engines : DeadlinePasses(e)
           \/ ReapOverdueRuns \/ ReaperRead \/ ReaperWrite \/ ReaperFails
  BY <1>1, PinFrame DEF CreateScan, PublishFetchJob, CancelRead, CancelWrite, DeadlinePasses,
     ReapOverdueRuns, ReaperRead, ReaperWrite, ReaperFails
<1>2. ASSUME NEW n \in 1..MaxCopies, NEW b \in Commits \cup {"failed", Malformed},
             FetcherReports(n, b)
      PROVE PinInv'
  BY <1>2, SourceMessage DEF FetcherReports, Emit, PinInv, FanOutPinned, ResultHasJob
<1>3. ASSUME NEW e \in Engines, NEW n \in 1..MaxCopies, NEW o \in Outcomes,
             WorkerReports(e, n, o)
      PROVE PinInv'
  BY <1>3, SourceMessage DEF WorkerReports, Emit, PinInv, FanOutPinned, ResultHasJob
<1>4. ASSUME NEW h \in Handlers, NEW m \in Msgs, Deliver(h, m) PROVE PinInv'
  BY <1>4, PinFrame DEF Deliver, FirstStep
<1>5. ASSUME NEW h \in Handlers, Ack(h) \/ Reject(h) \/ Abandon(h) PROVE PinInv'
  <2>1. pc[h] # "idle"
    BY <1>5 DEF Ack, Reject, Abandon
  <2>2. UNCHANGED <<commit, jobs>> /\ \E st \in {"acked", "dead", "ready"} : Release(h, st)
    BY <1>5 DEF Ack, Reject, Abandon, Release
  <2> QED BY <2>1, <2>2, PinFrame DEF Release
<1>6. ASSUME NEW h \in Handlers, SetSourceOnce(h) PROVE PinInv'
  <2>1. body[cur[h]] \in Commits
    BY <1>6 DEF SetSourceOnce
  <2> QED BY <1>6, <2>1 DEF SetSourceOnce, Goto, PinInv, FanOutPinned, ResultHasJob
<1>7. ASSUME NEW h \in Handlers, FanOutRead(h) PROVE PinInv'
  BY <1>7, PinFrame DEF FanOutRead, Goto
<1>8. ASSUME NEW h \in Handlers, NEW e \in Engines, FanOutPublish(h, e) PROVE PinInv'
  <2>1. commit # NoCommit
    BY <1>8 DEF FanOutPublish, PinInv, FanOutPinned
  <2> QED
    BY <1>8, <2>1 DEF FanOutPublish, PublishJob, Goto, PinInv, FanOutPinned, ResultHasJob
<1>9. ASSUME NEW h \in Handlers, NEW e \in Engines, ReleaseDependent(h, e) PROVE PinInv'
  <2>1. commit # NoCommit
    <3>1. cur[h] \in Msgs /\ inbox[cur[h]] # "absent" /\ cur[h][1] \in Engines
      BY <1>9 DEF ReleaseDependent
    <3>2. jobs[cur[h][1]] # {}
      BY <3>1, MessageShape DEF PinInv, ResultHasJob
    <3> QED BY <3>1, <3>2 DEF PinInv
  <2> QED
    BY <1>9, <2>1 DEF ReleaseDependent, PublishJob, Goto, PinInv, FanOutPinned, ResultHasJob
<1>10. ASSUME NEW h \in Handlers,
              \/ FanOutDone(h) \/ FailAllRead(h) \/ FailAllDone(h)
              \/ UpsertResult(h) \/ ReleaseRead(h) \/ ReleaseDone(h)
              \/ ReadStatuses(h) \/ WriteStatus(h)
       PROVE PinInv'
  BY <1>10, PinFrame DEF FanOutDone, FailAllRead, FailAllDone, UpsertResult, ReleaseRead,
     ReleaseDone, ReadStatuses, WriteStatus, AfterRecompute, Goto
<1>11. ASSUME NEW h \in Handlers,
              \/ PublishScanCompleted(h) \/ NormalizeProbe(h)
              \/ PublishTrigger(h) \/ ClaimTrigger(h)
       PROVE PinInv'
  BY <1>11, PinFrame DEF PublishScanCompleted, NormalizeProbe, PublishTrigger, ClaimTrigger,
     AfterRecompute, Goto
<1>12. ASSUME NEW h \in Handlers, NEW e \in Engines, FailAllUpsert(h, e) \/ SkipDependent(h, e)
       PROVE PinInv'
  BY <1>12, PinFrame DEF FailAllUpsert, SkipDependent, Goto
<1>13. CASE UNCHANGED vars
  BY <1>13, PinFrame DEF vars
<1> QED
  BY <1>1, <1>2, <1>3, <1>4, <1>5, <1>6, <1>7, <1>8, <1>9, <1>10, <1>11, <1>12, <1>13
  DEF Next, HandlerStep, ReaperStep

(***************************************************************************)
(* A dependent engine follows its producer                                 *)
(***************************************************************************)
\* What a handler is about to dispatch or skip, it picked for that reason.
TodoOK ==
  \A h \in Handlers :
    /\ pc[h] = "fanout" => \A e \in todo[h] : ProducerOf[e] = NoEngine
    /\ pc[h] = "release" => \A e \in todo[h] : ProducerOf[e] = cur[h][1]

OrderInv == DependentFollowsProducer /\ TodoOK

\* What is reported stays reported.
LEMMA ReportedStays ==
  ASSUME \A m \in Msgs : inbox[m] # "absent" => inbox'[m] # "absent" /\ body'[m] = body[m],
         NEW e \in Engines, NEW S, Reported(e, S)
  PROVE  Reported(e, S)'
  BY SourceMessage DEF Reported

\* What a step that neither dispatches nor skips does to OrderInv.
LEMMA OrderFrame ==
  ASSUME OrderInv, UNCHANGED jobs,
         \A m \in Msgs : inbox[m] # "absent" => inbox'[m] # "absent" /\ body'[m] = body[m],
         \A e \in Engines : run'[e] = "skipped" => run[e] = "skipped" \/ jobs[e] # {},
         TodoOK'
  PROVE  OrderInv'
<1> USE DEF OrderInv, DependentFollowsProducer
<1> SUFFICES ASSUME NEW e \in Engines, ProducerOf[e] # NoEngine
             PROVE  /\ jobs'[e] # {} => Reported(ProducerOf[e], Usable)'
                    /\ run'[e] = "skipped" /\ jobs'[e] = {} =>
                         Reported(ProducerOf[e], EngineStatus \ Usable)'
  OBVIOUS
<1>1. ProducerOf[e] \in Engines
  OBVIOUS
<1> HIDE DEF EngineStatus
<1>2. jobs'[e] # {} => Reported(ProducerOf[e], Usable)'
  BY <1>1, ReportedStays
<1>3. run'[e] = "skipped" /\ jobs'[e] = {} =>
        Reported(ProducerOf[e], EngineStatus \ Usable)'
  BY <1>1, ReportedStays
<1> QED BY <1>2, <1>3

LEMMA OrderStep ==
  ASSUME TypeInv, PinInv, OrderInv, [Next]_vars
  PROVE  OrderInv'
<1> USE DEF scanVars, busVars, handlerVars, otherVars
<1>1. CASE \/ \E S \in SUBSET Engines : CreateScan(S)
           \/ PublishFetchJob \/ CancelRead \/ CancelWrite
           \/ \E e \in Engines : DeadlinePasses(e)
           \/ ReapOverdueRuns \/ ReaperRead \/ ReaperWrite \/ ReaperFails
  BY <1>1, OrderFrame DEF CreateScan, PublishFetchJob, CancelRead, CancelWrite, DeadlinePasses,
     ReapOverdueRuns, ReaperRead, ReaperWrite, ReaperFails, OrderInv, TodoOK
<1>2. ASSUME NEW m \in Msgs, NEW b, Emit(m, b) PROVE OrderInv'
  BY <1>2, OrderFrame DEF Emit, OrderInv, TodoOK
<1>3. ASSUME NEW h \in Handlers, NEW m \in Msgs, Deliver(h, m) PROVE OrderInv'
  BY <1>3, OrderFrame DEF Deliver, FirstStep, OrderInv, TodoOK
<1>4. ASSUME NEW h \in Handlers, Ack(h) \/ Reject(h) \/ Abandon(h) PROVE OrderInv'
  <2>1. UNCHANGED <<jobs, run, body>> /\ \E st \in {"acked", "dead", "ready"} : Release(h, st)
    BY <1>4 DEF Ack, Reject, Abandon, Release
  <2> QED BY <2>1, OrderFrame DEF Release, OrderInv, TodoOK
<1>5. ASSUME NEW h \in Handlers,
             \/ SetSourceOnce(h) \/ FanOutRead(h) \/ FanOutDone(h)
             \/ FailAllRead(h) \/ FailAllDone(h)
             \/ ReleaseRead(h) \/ ReleaseDone(h)
             \/ ReadStatuses(h) \/ WriteStatus(h)
      PROVE OrderInv'
  BY <1>5, OrderFrame DEF SetSourceOnce, FanOutRead, FanOutDone, FailAllRead, FailAllDone,
     ReleaseRead, ReleaseDone, ReadStatuses, WriteStatus, AfterRecompute, Goto, OrderInv, TodoOK
<1>6. ASSUME NEW h \in Handlers,
             \/ PublishScanCompleted(h) \/ NormalizeProbe(h)
             \/ PublishTrigger(h) \/ ClaimTrigger(h)
      PROVE OrderInv'
  BY <1>6, OrderFrame DEF PublishScanCompleted, NormalizeProbe, PublishTrigger, ClaimTrigger,
     AfterRecompute, Goto, OrderInv, TodoOK
<1>7. ASSUME NEW h \in Handlers, NEW e \in Engines, FailAllUpsert(h, e) PROVE OrderInv'
  BY <1>7, OrderFrame DEF FailAllUpsert, UpsertEngineRun, Goto, OrderInv, TodoOK
<1>8. ASSUME NEW h \in Handlers, UpsertResult(h) PROVE OrderInv'
  <2>1. jobs[cur[h][1]] # {}
    BY <1>8, MessageShape DEF UpsertResult, PinInv, ResultHasJob
  <2> QED BY <1>8, <2>1, OrderFrame DEF UpsertResult, UpsertEngineRun, Goto, OrderInv, TodoOK
<1>9. ASSUME NEW h \in Handlers, NEW e \in Engines, FanOutPublish(h, e) PROVE OrderInv'
  <2>1. ProducerOf[e] = NoEngine
    BY <1>9 DEF FanOutPublish, OrderInv, TodoOK
  <2>2. TodoOK'
    BY <1>9 DEF FanOutPublish, Goto, OrderInv, TodoOK
  <2>3. \A f \in Engines : f # e => jobs'[f] = jobs[f]
    BY <1>9 DEF FanOutPublish, PublishJob
  <2>4. UNCHANGED <<run, inbox, body>>
    BY <1>9 DEF FanOutPublish, Goto
  <2> QED
    BY <2>1, <2>2, <2>3, <2>4, ZenonT(60) DEF OrderInv, DependentFollowsProducer, Reported
<1>10. ASSUME NEW h \in Handlers, NEW e \in Engines,
              ReleaseDependent(h, e) \/ SkipDependent(h, e)
       PROVE OrderInv'
  <2>1. /\ cur[h] \in Msgs /\ inbox[cur[h]] # "absent" /\ cur[h][1] \in Engines
        /\ body[cur[h]] \in EngineStatus /\ ProducerOf[e] = cur[h][1]
    BY <1>10 DEF ReleaseDependent, SkipDependent, OrderInv, TodoOK
  <2>2. ASSUME NEW S, body[cur[h]] \in S PROVE Reported(ProducerOf[e], S)
    <3>1. cur[h][2] \in 1..MaxCopies /\ cur[h] = <<ProducerOf[e], cur[h][2]>>
      BY <2>1, MessageShape
    <3> QED BY <2>1, <2>2, <3>1, ZenonT(60) DEF Reported
  <2>3. TodoOK'
    BY <1>10 DEF ReleaseDependent, SkipDependent, Goto, OrderInv, TodoOK
  <2>4. UNCHANGED <<inbox, body>>
    BY <1>10 DEF ReleaseDependent, SkipDependent, Goto
  <2> HIDE DEF EngineStatus
  <2>5. ASSUME NEW f \in Engines
        PROVE  /\ Reported(ProducerOf[f], Usable)' <=> Reported(ProducerOf[f], Usable)
               /\ Reported(ProducerOf[f], EngineStatus \ Usable)' <=>
                    Reported(ProducerOf[f], EngineStatus \ Usable)
    BY <2>4 DEF Reported
  <2> SUFFICES ASSUME NEW f \in Engines, ProducerOf[f] # NoEngine
               PROVE  /\ jobs'[f] # {} => Reported(ProducerOf[f], Usable)
                      /\ run'[f] = "skipped" /\ jobs'[f] = {} =>
                           Reported(ProducerOf[f], EngineStatus \ Usable)
    BY <2>3, <2>5 DEF OrderInv, DependentFollowsProducer
  <2>6. /\ jobs[f] # {} => Reported(ProducerOf[f], Usable)
        /\ run[f] = "skipped" /\ jobs[f] = {} =>
             Reported(ProducerOf[f], EngineStatus \ Usable)
    BY DEF OrderInv, DependentFollowsProducer
  <2>7. CASE body[cur[h]] \in Usable
    <3>1. Reported(ProducerOf[e], Usable)
      BY <2>2, <2>7
    <3>2. run' = run /\ (f # e => jobs'[f] = jobs[f]) /\ (jobs'[f] = {} => jobs[f] = {})
      BY <1>10, <2>7 DEF ReleaseDependent, SkipDependent, PublishJob
    <3> QED BY <2>6, <3>1, <3>2
  <2>8. CASE body[cur[h]] \notin Usable
    <3>1. Reported(ProducerOf[e], EngineStatus \ Usable)
      BY <2>1, <2>2, <2>8
    <3>2. jobs' = jobs /\ (f # e => run'[f] = run[f])
      BY <1>10, <2>8 DEF ReleaseDependent, SkipDependent, UpsertEngineRun
    <3> QED BY <2>6, <3>1, <3>2
  <2> QED BY <2>7, <2>8
<1>11. CASE UNCHANGED vars
  BY <1>11, OrderFrame DEF vars, OrderInv, TodoOK
<1>12. ASSUME NEW n \in 1..MaxCopies, NEW b \in Commits \cup {"failed", Malformed},
              FetcherReports(n, b)
       PROVE OrderInv'
  BY <1>2, <1>12, SourceMessage DEF FetcherReports
<1>13. ASSUME NEW e \in Engines, NEW n \in 1..MaxCopies, NEW o \in Outcomes,
              WorkerReports(e, n, o)
       PROVE OrderInv'
  BY <1>2, <1>13, SourceMessage DEF WorkerReports
<1> QED
  BY <1>1, <1>3, <1>4, <1>5, <1>6, <1>7, <1>8, <1>9, <1>10, <1>11, <1>12, <1>13
  DEF Next, HandlerStep, ReaperStep

LEMMA OrderCorrect == Spec => [](TypeInv /\ PinInv /\ OrderInv)
<1>1. Init => PinInv /\ OrderInv
  <2> SUFFICES ASSUME Init PROVE PinInv /\ OrderInv
    OBVIOUS
  <2>1. PinInv
    BY SourceMessage DEF Init, PinInv, FanOutPinned, ResultHasJob
  <2>2. OrderInv
    BY DEF Init, OrderInv, DependentFollowsProducer, TodoOK
  <2> QED BY <2>1, <2>2
<1>2. Spec => []TypeInv
  BY TypeInit, TypeStep, PTL DEF Spec
<1>3. Spec => []PinInv
  BY <1>1, <1>2, PinStep, PTL DEF Spec
<1>4. Spec => []OrderInv
  BY <1>1, <1>2, <1>3, OrderStep, PTL DEF Spec
<1> QED BY <1>2, <1>3, <1>4, PTL

\* No scan ever dispatches an engine before its source is pinned, or two
\* engines against two commits.
THEOREM OneCommit == Spec => []SameCommit
<1>1. PinInv => SameCommit
  BY DEF PinInv
<1> QED BY <1>1, OrderCorrect, PTL

\* grype never matches against an SBOM that syft did not write, and is never
\* skipped for a producer that did.
THEOREM ProducerFirst == Spec => []DependentFollowsProducer
<1>1. OrderInv => DependentFollowsProducer
  BY DEF OrderInv
<1> QED BY <1>1, OrderCorrect, PTL

(***************************************************************************)
(* The normalize trigger                                                   *)
(***************************************************************************)
\* Before POST /scans there is nothing.
Untouched ==
  /\ run = [e \in Engines |-> "absent"] /\ jobs = [e \in Engines |-> {}]
  /\ fetchJob = FALSE /\ claimed = FALSE /\ triggers = 0
  /\ \A m \in Msgs : inbox[m] = "absent"
  /\ \A h \in Handlers : pc[h] = "idle"
  /\ reaper = "idle" /\ canceller = "idle" /\ creator = "idle"

StartInv == scanStatus = "absent" => Untouched

\* The first step of a scan is its creation.
LEMMA FirstStepCreates ==
  ASSUME TypeInv, StartInv, scanStatus = "absent", Next
  PROVE  \E S \in SUBSET Engines : CreateScan(S)
<1> USE DEF StartInv, Untouched
<1>1. ASSUME NEW h \in Handlers, HandlerStep(h) \/ Abandon(h) PROVE FALSE
  BY <1>1 DEF HandlerStep, Abandon, Ack, Reject, SetSourceOnce, FanOutRead, FanOutDone,
     FailAllRead, FailAllDone, UpsertResult, ReleaseRead, ReleaseDone, ReadStatuses, WriteStatus,
     PublishScanCompleted, NormalizeProbe, PublishTrigger, ClaimTrigger, FanOutPublish,
     FailAllUpsert, ReleaseDependent, SkipDependent
<1>2. ~ (PublishFetchJob \/ CancelRead \/ CancelWrite)
  BY DEF PublishFetchJob, CancelRead, CancelWrite
<1>3. ~ (ReaperStep \/ ReaperFails \/ \E e \in Engines : DeadlinePasses(e))
  BY DEF ReaperStep, ReapOverdueRuns, ReaperRead, ReaperWrite, ReaperFails, DeadlinePasses
<1>4. ASSUME NEW n \in 1..MaxCopies, NEW b, FetcherReports(n, b) PROVE FALSE
  BY <1>4 DEF FetcherReports
<1>5. ASSUME NEW e \in Engines, NEW n \in 1..MaxCopies, NEW o, WorkerReports(e, n, o) PROVE FALSE
  BY <1>5 DEF WorkerReports
<1>6. ASSUME NEW h \in Handlers, NEW m \in Msgs, Deliver(h, m) PROVE FALSE
  BY <1>6 DEF Deliver
<1> QED BY <1>1, <1>2, <1>3, <1>4, <1>5, <1>6 DEF Next

\* A created scan stays created, and a run only ever gains an outcome.
LEMMA RunsOnlyEnd ==
  ASSUME TypeInv, scanStatus # "absent", [Next]_vars
  PROVE  /\ scanStatus' # "absent"
         /\ \A e \in Engines : run'[e] = run[e] \/ run'[e] \in EngineStatus
<1> USE DEF scanVars, busVars, handlerVars, otherVars
<1>1. CASE \/ \E S \in SUBSET Engines : CreateScan(S)
           \/ PublishFetchJob \/ CancelRead \/ CancelWrite
           \/ \E e \in Engines : DeadlinePasses(e)
           \/ ReapOverdueRuns \/ ReaperRead \/ ReaperWrite \/ ReaperFails
  BY <1>1 DEF CreateScan, PublishFetchJob, CancelRead, CancelWrite, DeadlinePasses,
     ReapOverdueRuns, ReaperRead, ReaperWrite, ReaperFails
<1>2. CASE \/ \E n \in 1..MaxCopies, b \in Commits \cup {"failed", Malformed} : FetcherReports(n, b)
           \/ \E e \in Engines, n \in 1..MaxCopies, o \in Outcomes : WorkerReports(e, n, o)
           \/ \E h \in Handlers, m \in Msgs : Deliver(h, m)
  BY <1>2, ZenonT(60) DEF FetcherReports, WorkerReports, Emit, Deliver
<1>3. ASSUME NEW h \in Handlers,
             \/ Ack(h) \/ Reject(h) \/ Abandon(h)
             \/ SetSourceOnce(h) \/ FanOutRead(h) \/ FanOutDone(h)
             \/ FailAllRead(h) \/ FailAllDone(h) \/ UpsertResult(h)
             \/ ReleaseRead(h) \/ ReleaseDone(h) \/ ReadStatuses(h) \/ WriteStatus(h)
             \/ PublishScanCompleted(h) \/ NormalizeProbe(h)
             \/ PublishTrigger(h) \/ ClaimTrigger(h)
      PROVE  /\ scanStatus' # "absent"
             /\ \A e \in Engines : run'[e] = run[e] \/ run'[e] \in EngineStatus
  BY <1>3 DEF Ack, Reject, Abandon, Release, SetSourceOnce, FanOutRead, FanOutDone,
     FailAllRead, FailAllDone, UpsertResult, UpsertEngineRun, ReleaseRead, ReleaseDone,
     ReadStatuses, WriteStatus, PublishScanCompleted, NormalizeProbe, PublishTrigger, ClaimTrigger
<1>4. ASSUME NEW h \in Handlers, NEW e \in Engines,
             \/ FanOutPublish(h, e) \/ FailAllUpsert(h, e)
             \/ ReleaseDependent(h, e) \/ SkipDependent(h, e)
      PROVE  /\ scanStatus' # "absent"
             /\ \A f \in Engines : run'[f] = run[f] \/ run'[f] \in EngineStatus
  BY <1>4 DEF FanOutPublish, FailAllUpsert, ReleaseDependent, SkipDependent, UpsertEngineRun
<1>5. CASE UNCHANGED vars
  BY <1>5 DEF vars
<1> QED BY <1>1, <1>2, <1>3, <1>4, <1>5 DEF Next, HandlerStep, ReaperStep

LEMMA StartStep ==
  ASSUME TypeInv, StartInv, [Next]_vars
  PROVE  StartInv'
<1>1. CASE scanStatus # "absent"
  BY <1>1, RunsOnlyEnd DEF StartInv
<1>2. CASE scanStatus = "absent" /\ Next
  BY <1>2, FirstStepCreates DEF StartInv, CreateScan
<1>3. CASE UNCHANGED vars
  BY <1>3 DEF StartInv, Untouched, vars, scanVars, busVars, handlerVars, otherVars
<1> QED BY <1>1, <1>2, <1>3

\* A handler about to publish saw the family end; one about to claim published.
TriggerInv ==
  /\ TriggerAfterFamilyTerminal
  /\ ClaimFollowsPublish
  /\ \A h \in Handlers :
       /\ pc[h] = "trigger" => FamilyTerminal
       /\ pc[h] = "claim" => triggers > 0

\* A family that has ended stays ended.
LEMMA FamilyStaysTerminal ==
  ASSUME TypeInv, scanStatus # "absent", [Next]_vars, FamilyTerminal
  PROVE  FamilyTerminal'
  BY RunsOnlyEnd DEF FamilyTerminal, Requested

\* What a step outside maybeTriggerNormalize does to TriggerInv.
LEMMA TriggerFrame ==
  ASSUME TypeInv, scanStatus # "absent", [Next]_vars, TriggerInv,
         UNCHANGED <<triggers, claimed>>,
         \A h \in Handlers : pc'[h] \in {"trigger", "claim"} => pc'[h] = pc[h]
  PROVE  TriggerInv'
  BY FamilyStaysTerminal DEF TriggerInv, TriggerAfterFamilyTerminal, ClaimFollowsPublish

LEMMA TriggerStep ==
  ASSUME TypeInv, StartInv, TriggerInv, [Next]_vars
  PROVE  TriggerInv'
<1> USE DEF scanVars, busVars, handlerVars, otherVars
<1>1. CASE UNCHANGED vars
  BY <1>1 DEF vars, TriggerInv, TriggerAfterFamilyTerminal, ClaimFollowsPublish, FamilyTerminal,
     Requested
<1>2. CASE scanStatus = "absent" /\ Next
  <2>1. triggers = 0 /\ claimed = FALSE /\ \A h \in Handlers : pc[h] = "idle"
    BY <1>2 DEF StartInv, Untouched
  <2>2. triggers' = triggers /\ claimed' = claimed /\ pc' = pc
    BY <1>2, FirstStepCreates DEF CreateScan
  <2> QED
    BY <2>1, <2>2 DEF TriggerInv, TriggerAfterFamilyTerminal, ClaimFollowsPublish
<1>3. ASSUME scanStatus # "absent", Next PROVE TriggerInv'
  <2>1. CASE \/ PublishFetchJob \/ CancelRead \/ CancelWrite
             \/ \E e \in Engines : DeadlinePasses(e)
             \/ ReapOverdueRuns \/ ReaperRead \/ ReaperWrite \/ ReaperFails
    BY <1>3, <2>1, TriggerFrame DEF PublishFetchJob, CancelRead, CancelWrite, DeadlinePasses,
       ReapOverdueRuns, ReaperRead, ReaperWrite, ReaperFails
  <2>2. CASE \/ \E n \in 1..MaxCopies, b \in Commits \cup {"failed", Malformed} :
                  FetcherReports(n, b)
             \/ \E e \in Engines, n \in 1..MaxCopies, o \in Outcomes : WorkerReports(e, n, o)
    BY <1>3, <2>2, TriggerFrame DEF FetcherReports, WorkerReports, Emit
  <2>3. ASSUME NEW h \in Handlers, NEW m \in Msgs, Deliver(h, m) PROVE TriggerInv'
    <3>1. FirstStep(m) \notin {"trigger", "claim"}
      BY DEF FirstStep
    <3> QED BY <1>3, <2>3, <3>1, TriggerFrame DEF Deliver
  <2>4. ASSUME NEW h \in Handlers,
               \/ Ack(h) \/ Reject(h) \/ Abandon(h)
               \/ SetSourceOnce(h) \/ FanOutRead(h) \/ FanOutDone(h)
               \/ FailAllRead(h) \/ FailAllDone(h) \/ UpsertResult(h)
               \/ ReleaseRead(h) \/ ReleaseDone(h) \/ ReadStatuses(h) \/ WriteStatus(h)
               \/ PublishScanCompleted(h)
        PROVE TriggerInv'
    BY <1>3, <2>4, TriggerFrame DEF Ack, Reject, Abandon, Release, SetSourceOnce, FanOutRead,
       FanOutDone, FailAllRead, FailAllDone, UpsertResult, ReleaseRead, ReleaseDone,
       ReadStatuses, WriteStatus, PublishScanCompleted, AfterRecompute, Goto
  <2>5. ASSUME NEW h \in Handlers, NEW e \in Engines,
               \/ FanOutPublish(h, e) \/ FailAllUpsert(h, e)
               \/ ReleaseDependent(h, e) \/ SkipDependent(h, e)
        PROVE TriggerInv'
    BY <1>3, <2>5, TriggerFrame DEF FanOutPublish, FailAllUpsert, ReleaseDependent,
       SkipDependent, Goto
  <2>6. ASSUME NEW h \in Handlers, NormalizeProbe(h) PROVE TriggerInv'
    <3>1. \A g \in Handlers : pc'[g] \in {"trigger", "claim"} =>
            pc'[g] = pc[g] \/ (pc'[g] = "trigger" /\ FamilyTerminal)
      <4>1. CASE Goto(h, "ack")
        BY <4>1 DEF Goto
      <4>2. CASE FamilyTerminal /\ Goto(h, "trigger")
        <5>1. \A g \in Handlers : pc'[g] = pc[g] \/ pc'[g] = "trigger"
          BY <4>2 DEF Goto
        <5> QED BY <4>2, <5>1, Zenon
      <4> QED BY <2>6, <4>1, <4>2, Zenon DEF NormalizeProbe
    <3>2. UNCHANGED <<triggers, claimed>>
      BY <2>6 DEF NormalizeProbe
    <3> QED
      BY <1>3, <3>1, <3>2, FamilyStaysTerminal
      DEF TriggerInv, TriggerAfterFamilyTerminal, ClaimFollowsPublish
  <2>7. ASSUME NEW h \in Handlers, PublishTrigger(h) PROVE TriggerInv'
    <3>1. FamilyTerminal' /\ triggers' \in {triggers, triggers + 1} /\ UNCHANGED claimed
      BY <1>3, <2>7, FamilyStaysTerminal DEF PublishTrigger, TriggerInv
    <3>2. \A g \in Handlers : pc'[g] = "claim" => pc[g] = "claim" \/ triggers' = triggers + 1
      BY <2>7 DEF PublishTrigger, Goto
    <3> QED
      BY <3>1, <3>2 DEF TriggerInv, TriggerAfterFamilyTerminal, ClaimFollowsPublish
  <2>8. ASSUME NEW h \in Handlers, ClaimTrigger(h) PROVE TriggerInv'
    <3>1. triggers > 0 /\ triggers' = triggers
      BY <2>8 DEF ClaimTrigger, TriggerInv
    <3>2. \A g \in Handlers : pc'[g] \in {"trigger", "claim"} => pc'[g] = pc[g]
      BY <2>8 DEF ClaimTrigger, Goto
    <3> QED
      BY <1>3, <3>1, <3>2, FamilyStaysTerminal
      DEF TriggerInv, TriggerAfterFamilyTerminal, ClaimFollowsPublish
  <2>9. ASSUME NEW S \in SUBSET Engines, CreateScan(S) PROVE TriggerInv'
    BY <1>3, <2>9 DEF CreateScan
  <2> QED
    BY <1>3, <2>1, <2>2, <2>3, <2>4, <2>5, <2>6, <2>7, <2>8, <2>9 DEF Next, HandlerStep, ReaperStep
<1> QED BY <1>1, <1>2, <1>3

LEMMA TriggerInit == Init => StartInv /\ TriggerInv
<1> SUFFICES ASSUME Init PROVE StartInv /\ TriggerInv
  OBVIOUS
<1>1. claimed = FALSE /\ triggers = 0 /\ \A h \in Handlers : pc[h] = "idle"
  BY DEF Init
<1>2. TriggerInv
  BY <1>1 DEF TriggerInv, TriggerAfterFamilyTerminal, ClaimFollowsPublish
<1>3. StartInv
  BY DEF Init, StartInv, Untouched
<1> QED BY <1>2, <1>3

LEMMA TriggerCorrect == Spec => [](TypeInv /\ StartInv /\ TriggerInv)
<1>1. Spec => []TypeInv
  BY TypeInit, TypeStep, PTL DEF Spec
<1>2. Spec => []StartInv
  BY TriggerInit, StartStep, <1>1, PTL DEF Spec
<1>3. Spec => []TriggerInv
  BY TriggerInit, TriggerStep, <1>1, <1>2, PTL DEF Spec
<1> QED BY <1>1, <1>2, <1>3, PTL

\* No trigger is published while an engine of the family may still report.
THEOREM TriggerIsLast == Spec => []TriggerAfterFamilyTerminal
<1>1. TriggerInv => TriggerAfterFamilyTerminal
  BY DEF TriggerInv
<1> QED BY <1>1, TriggerCorrect, PTL

\* No crash or failed publish leaves a claimed trigger that was never sent.
THEOREM ClaimIsHonest == Spec => []ClaimFollowsPublish
<1>1. TriggerInv => ClaimFollowsPublish
  BY DEF TriggerInv
<1> QED BY <1>1, TriggerCorrect, PTL

(***************************************************************************)
(* ScanLifecycle implements ScanContract: each of its steps is a step of   *)
(* the contract or leaves the contract's state alone.                      *)
(***************************************************************************)
USE ConstantsAssumption
USE DEF TypeInv, TypeOK, HandlerOK, MessageOK, ReaperOK, ScanStatus, Terminal, Finished,
        RunStatus, EngineStatus, Malformed, Labels, ResultSteps, SameCommit

Ended == {e \in Requested : run[e] # "queued"}

\* A job, a todo entry or a recorded result belongs to an engine of the scan.
OwnInv ==
  /\ \A e \in Engines : jobs[e] # {} => run[e] # "absent"
  /\ \A h \in Handlers : \A e \in todo[h] : run[e] # "absent"
  /\ \A h \in Handlers : pc[h] \in {"relread", "release"} => run[cur[h][1]] \in EngineStatus

LEMMA OwnInit == Init => OwnInv
  BY DEF Init, OwnInv

\* What a step does to OwnInv that adds no job, no todo and no recorded result.
LEMMA OwnFrame ==
  ASSUME TypeInv, scanStatus # "absent", [Next]_vars, OwnInv,
         \A e \in Engines : jobs'[e] # {} => run[e] # "absent",
         \A h \in Handlers : \A e \in todo'[h] : run[e] # "absent",
         \A h \in Handlers : pc'[h] \in {"relread", "release"} =>
           pc[h] \in {"relread", "release"} /\ cur'[h] = cur[h]
  PROVE  OwnInv'
<1>1. \A e \in Engines : run[e] # "absent" => run'[e] # "absent"
  BY RunsOnlyEnd
<1>2. ASSUME NEW h \in Handlers, pc'[h] \in {"relread", "release"}
      PROVE  run'[cur'[h][1]] \in EngineStatus
  <2>1. cur'[h] = cur[h] /\ cur[h][1] \in Engines /\ run[cur[h][1]] \in EngineStatus
    BY <1>2 DEF OwnInv
  <2> QED BY <2>1, RunsOnlyEnd
<1>3. \A h \in Handlers : todo'[h] \subseteq Engines
  BY TypeStep
<1> QED BY <1>1, <1>2, <1>3 DEF OwnInv

LEMMA OwnStep ==
  ASSUME TypeInv, PinInv, StartInv, OwnInv, [Next]_vars
  PROVE  OwnInv'
<1> USE DEF scanVars, busVars, handlerVars, otherVars
<1>1. CASE UNCHANGED vars
  BY <1>1 DEF vars, OwnInv
<1>2. CASE scanStatus = "absent" /\ Next
  <2>1. PICK S \in SUBSET Engines : CreateScan(S)
    BY <1>2, FirstStepCreates
  <2>2. \A e \in Engines : jobs'[e] = {}
    BY <1>2, <2>1 DEF StartInv, Untouched, CreateScan
  <2>3. \A h \in Handlers : pc'[h] = "idle" /\ todo'[h] = todo[h]
    BY <1>2, <2>1 DEF StartInv, Untouched, CreateScan
  <2>4. \A e \in Engines : run[e] = "absent"
    BY <1>2 DEF StartInv, Untouched
  <2>5. \A h \in Handlers : todo[h] = {}
    BY <2>4 DEF OwnInv
  <2> QED BY <2>2, <2>3, <2>5 DEF OwnInv
<1>3. ASSUME scanStatus # "absent", Next PROVE OwnInv'
  <2>1. CASE \/ PublishFetchJob \/ CancelRead \/ CancelWrite
             \/ \E e \in Engines : DeadlinePasses(e)
             \/ ReapOverdueRuns \/ ReaperRead \/ ReaperWrite \/ ReaperFails
    BY <1>3, <2>1, OwnFrame DEF PublishFetchJob, CancelRead, CancelWrite, DeadlinePasses,
       ReapOverdueRuns, ReaperRead, ReaperWrite, ReaperFails, OwnInv
  <2>2. CASE \/ \E n \in 1..MaxCopies, b \in Commits \cup {"failed", Malformed} :
                  FetcherReports(n, b)
             \/ \E e \in Engines, n \in 1..MaxCopies, o \in Outcomes : WorkerReports(e, n, o)
    <3>1. UNCHANGED <<run, jobs, todo, pc, cur>>
      BY <2>2 DEF FetcherReports, WorkerReports, Emit
    <3> QED BY <3>1 DEF OwnInv
  <2>3. ASSUME NEW h \in Handlers, NEW m \in Msgs, Deliver(h, m) PROVE OwnInv'
    <3>1. FirstStep(m) \notin {"relread", "release"}
      BY DEF FirstStep
    <3> QED BY <1>3, <2>3, <3>1, OwnFrame DEF Deliver, OwnInv
  <2>4. ASSUME NEW h \in Handlers, Ack(h) \/ Reject(h) \/ Abandon(h) PROVE OwnInv'
    <3>1. UNCHANGED jobs /\ \E st \in {"acked", "dead", "ready"} : Release(h, st)
      BY <2>4 DEF Ack, Reject, Abandon, Release
    <3> QED BY <1>3, <3>1, OwnFrame DEF Release, OwnInv
  <2>5. ASSUME NEW h \in Handlers,
               \/ SetSourceOnce(h) \/ FanOutRead(h) \/ FanOutDone(h)
               \/ FailAllRead(h) \/ FailAllDone(h)
               \/ ReleaseRead(h) \/ ReleaseDone(h) \/ ReadStatuses(h) \/ WriteStatus(h)
        PROVE OwnInv'
    BY <1>3, <2>5, OwnFrame DEF SetSourceOnce, FanOutRead, FanOutDone, FailAllRead, FailAllDone,
       ReleaseRead, ReleaseDone, ReadStatuses, WriteStatus, AfterRecompute, Goto, OwnInv
  <2>6. ASSUME NEW h \in Handlers,
               \/ PublishScanCompleted(h) \/ NormalizeProbe(h)
               \/ PublishTrigger(h) \/ ClaimTrigger(h)
        PROVE OwnInv'
    BY <1>3, <2>6, OwnFrame DEF PublishScanCompleted, NormalizeProbe, PublishTrigger,
       ClaimTrigger, AfterRecompute, Goto, OwnInv
  <2>7. ASSUME NEW h \in Handlers, NEW e \in Engines,
               \/ FanOutPublish(h, e) \/ FailAllUpsert(h, e)
               \/ ReleaseDependent(h, e) \/ SkipDependent(h, e)
        PROVE OwnInv'
    BY <1>3, <2>7, OwnFrame DEF FanOutPublish, FailAllUpsert, ReleaseDependent, SkipDependent,
       PublishJob, Goto, OwnInv
  <2>8. ASSUME NEW h \in Handlers, UpsertResult(h) PROVE OwnInv'
    <3>1. cur[h][1] \in Engines /\ body[cur[h]] \in EngineStatus
      BY <2>8 DEF UpsertResult
    <3>2. run' = [run EXCEPT ![cur[h][1]] = body[cur[h]]]
      BY <2>8 DEF UpsertResult, UpsertEngineRun
    <3>3. UNCHANGED <<jobs, todo, cur>>
      BY <2>8 DEF UpsertResult, Goto
    <3>4. \A g \in Handlers : pc'[g] \in {"relread", "release"} =>
            g = h \/ pc[g] \in {"relread", "release"}
      BY <2>8 DEF UpsertResult, Goto
    <3>5. ASSUME NEW g \in Handlers, pc'[g] \in {"relread", "release"}
          PROVE  run'[cur'[g][1]] \in EngineStatus
      <4>1. CASE g = h
        BY <3>1, <3>2, <3>3, <4>1
      <4>2. CASE pc[g] \in {"relread", "release"}
        BY <3>1, <3>2, <3>3, <4>2 DEF OwnInv
      <4> QED BY <3>4, <3>5, <4>1, <4>2
    <3>6. \A e \in Engines : run'[e] = "absent" => run[e] = "absent"
      BY <3>1, <3>2
    <3> QED BY <3>3, <3>5, <3>6 DEF OwnInv
  <2>9. ASSUME NEW S \in SUBSET Engines, CreateScan(S) PROVE OwnInv'
    BY <1>3, <2>9 DEF CreateScan
  <2> QED
    BY <1>3, <2>1, <2>2, <2>3, <2>4, <2>5, <2>6, <2>7, <2>8, <2>9
    DEF Next, HandlerStep, ReaperStep
<1> QED BY <1>1, <1>2, <1>3

(***************************************************************************)
(* The refinement                                                          *)
(***************************************************************************)
\* A step that leaves the runs, the pin and the jobs alone stutters.
LEMMA Stutters ==
  ASSUME UNCHANGED <<run, commit, jobs>>
  PROVE  UNCHANGED Contract!cvars
  BY DEF Contract!cvars, Requested

\* A step that only gives requested engines an outcome is an End of theirs.
LEMMA EndsRuns ==
  ASSUME TypeInv, NEW E \in SUBSET Engines, UNCHANGED <<commit, jobs>>,
         \A e \in E : run[e] # "absent" /\ run'[e] \in EngineStatus,
         \A e \in Engines \ E : run'[e] = run[e]
  PROVE  Contract!Next
<1>1. E \subseteq Requested /\ UNCHANGED Requested
  BY DEF Requested
<1>2. {e \in Requested : run[e] # "queued"}' = {e \in Requested : run[e] # "queued"} \cup E
  BY <1>1 DEF Requested
<1>3. Contract!End(E)
  BY <1>1, <1>2 DEF Contract!End
<1> QED BY <1>3 DEF Contract!Next

LEMMA EndsRun ==
  ASSUME TypeInv, NEW e \in Engines, NEW st \in EngineStatus, UNCHANGED <<commit, jobs>>,
         run[e] # "absent", run' = [run EXCEPT ![e] = st]
  PROVE  Contract!Next
<1> DEFINE E == {e}
<1>1. E \in SUBSET Engines
  OBVIOUS
<1>2. \A f \in E : run[f] # "absent" /\ run'[f] \in EngineStatus
  OBVIOUS
<1>3. \A f \in Engines \ E : run'[f] = run[f]
  OBVIOUS
<1> HIDE DEF E, TypeInv
<1> QED BY <1>1, <1>2, <1>3, EndsRuns

\* A publish of a job is a Dispatch of its engine, for the pinned commit.
LEMMA Dispatches ==
  ASSUME TypeInv, PinInv, NEW e \in Engines, PublishJob(e), UNCHANGED <<commit, run>>,
         commit # NoCommit, ProducerOf[e] # NoEngine => ProducerOf[e] \in Ended
  PROVE  Contract!Next
<1>1. jobs[e] \cup {commit} = {commit}
  BY DEF PinInv
<1>2. jobs' = [jobs EXCEPT ![e] = {commit}]
  BY <1>1 DEF PublishJob
<1>3. Contract!Dispatch(e)
  BY <1>2 DEF Contract!Dispatch, Ended, Requested
<1> QED BY <1>3 DEF Contract!Next

LEMMA ContractStep ==
  ASSUME TypeInv, PinInv, OrderInv, StartInv, OwnInv, [Next]_vars
  PROVE  [Contract!Next]_(Contract!cvars)
<1> USE DEF scanVars, busVars, handlerVars, otherVars
<1>1. CASE UNCHANGED vars
  BY <1>1, Stutters DEF vars
<1>2. ASSUME NEW S \in SUBSET Engines, CreateScan(S) PROVE Contract!Next
  <2>1. Requested = {} /\ \A e \in Engines : run[e] = "absent"
    BY <1>2 DEF CreateScan, StartInv, Untouched, Requested
  <2>2. Requested' = S
    BY <1>2 DEF CreateScan, Requested
  <2>3. {e \in Requested : run[e] # "queued"}' = {} /\ {e \in Requested : run[e] # "queued"} = {}
    BY <1>2, <2>1 DEF CreateScan, Requested
  <2>4. UNCHANGED <<commit, jobs>>
    BY <1>2 DEF CreateScan
  <2>5. Contract!Request(S)
    BY <2>1, <2>2, <2>3, <2>4 DEF Contract!Request
  <2> QED BY <2>5 DEF Contract!Next
<1>3. CASE \/ PublishFetchJob \/ CancelRead \/ CancelWrite
           \/ \E e \in Engines : DeadlinePasses(e)
           \/ ReaperRead \/ ReaperWrite \/ ReaperFails
  BY <1>3, Stutters DEF PublishFetchJob, CancelRead, CancelWrite, DeadlinePasses,
     ReaperRead, ReaperWrite, ReaperFails
<1>4. CASE \/ \E n \in 1..MaxCopies, b \in Commits \cup {"failed", Malformed} :
                FetcherReports(n, b)
           \/ \E e \in Engines, n \in 1..MaxCopies, o \in Outcomes : WorkerReports(e, n, o)
           \/ \E h \in Handlers, m \in Msgs : Deliver(h, m)
  BY <1>4, Stutters DEF FetcherReports, WorkerReports, Emit, Deliver
<1>5. ASSUME NEW h \in Handlers,
             \/ Ack(h) \/ Reject(h) \/ Abandon(h)
             \/ FanOutRead(h) \/ FanOutDone(h) \/ FailAllRead(h) \/ FailAllDone(h)
             \/ ReleaseRead(h) \/ ReleaseDone(h) \/ ReadStatuses(h) \/ WriteStatus(h)
             \/ PublishScanCompleted(h) \/ NormalizeProbe(h)
             \/ PublishTrigger(h) \/ ClaimTrigger(h)
      PROVE  UNCHANGED Contract!cvars
  BY <1>5, Stutters DEF Ack, Reject, Abandon, Release, FanOutRead, FanOutDone, FailAllRead,
     FailAllDone, ReleaseRead, ReleaseDone, ReadStatuses, WriteStatus, PublishScanCompleted,
     NormalizeProbe, PublishTrigger, ClaimTrigger
<1>6. CASE ReapOverdueRuns
  <2>1. /\ \A e \in {f \in overdue : run[f] = "queued"} :
             run[e] # "absent" /\ run'[e] \in EngineStatus
        /\ \A e \in Engines \ {f \in overdue : run[f] = "queued"} : run'[e] = run[e]
    BY <1>6 DEF ReapOverdueRuns
  <2>2. UNCHANGED <<commit, jobs>>
    BY <1>6 DEF ReapOverdueRuns
  <2> QED BY <2>1, <2>2, EndsRuns
<1>7. ASSUME NEW h \in Handlers, SetSourceOnce(h) PROVE [Contract!Next]_(Contract!cvars)
  <2>1. body[cur[h]] \in Commits /\ UNCHANGED <<run, jobs>>
    BY <1>7 DEF SetSourceOnce
  <2>2. CASE commit = NoCommit
    <3>1. Contract!Pin(body[cur[h]])
      BY <1>7, <2>1, <2>2 DEF SetSourceOnce, Contract!Pin, Requested
    <3> QED BY <2>1, <3>1 DEF Contract!Next
  <2>3. CASE commit # NoCommit
    BY <1>7, <2>1, <2>3, Stutters DEF SetSourceOnce
  <2> QED BY <2>2, <2>3
<1>8. ASSUME NEW h \in Handlers, UpsertResult(h) PROVE Contract!Next
  <2>1. cur[h] \in Msgs /\ inbox[cur[h]] # "absent" /\ cur[h][1] \in Engines
        /\ body[cur[h]] \in EngineStatus
    BY <1>8 DEF UpsertResult
  <2>2. run[cur[h][1]] # "absent"
    BY <2>1, MessageShape DEF PinInv, ResultHasJob, OwnInv
  <2>3. run' = [run EXCEPT ![cur[h][1]] = body[cur[h]]] /\ UNCHANGED <<commit, jobs>>
    BY <1>8 DEF UpsertResult, UpsertEngineRun
  <2> QED BY <2>1, <2>2, <2>3, EndsRun, ZenonT(60)
<1>9. ASSUME NEW h \in Handlers, NEW e \in Engines, FailAllUpsert(h, e) PROVE Contract!Next
  <2>1. run[e] # "absent" /\ run' = [run EXCEPT ![e] = "failed"] /\ UNCHANGED <<commit, jobs>>
    BY <1>9 DEF FailAllUpsert, UpsertEngineRun, OwnInv
  <2> QED BY <2>1, EndsRun
<1>10. ASSUME NEW h \in Handlers, NEW e \in Engines, SkipDependent(h, e)
       PROVE  [Contract!Next]_(Contract!cvars)
  <2>1. run[e] # "absent" /\ UNCHANGED <<commit, jobs>>
    BY <1>10 DEF SkipDependent, OwnInv
  <2>2. CASE run' = run
    BY <2>1, <2>2, Stutters
  <2>3. CASE run' = [run EXCEPT ![e] = "skipped"]
    BY <2>1, <2>3, EndsRun
  <2> QED BY <1>10, <2>2, <2>3 DEF SkipDependent, UpsertEngineRun
<1>11. ASSUME NEW h \in Handlers, NEW e \in Engines, FanOutPublish(h, e)
       PROVE  [Contract!Next]_(Contract!cvars)
  <2>1. /\ commit # NoCommit /\ ProducerOf[e] = NoEngine
        /\ UNCHANGED <<commit, run>>
    BY <1>11 DEF FanOutPublish, PinInv, FanOutPinned, OrderInv, TodoOK
  <2>2. PublishJob(e) \/ UNCHANGED jobs
    BY <1>11 DEF FanOutPublish
  <2> QED BY <2>1, <2>2, Dispatches, Stutters
<1>12. ASSUME NEW h \in Handlers, NEW e \in Engines, ReleaseDependent(h, e)
       PROVE  [Contract!Next]_(Contract!cvars)
  <2>1. /\ cur[h] \in Msgs /\ inbox[cur[h]] # "absent" /\ cur[h][1] \in Engines
        /\ run[cur[h][1]] \in EngineStatus /\ ProducerOf[e] = cur[h][1]
    BY <1>12 DEF ReleaseDependent, OrderInv, TodoOK, OwnInv
  <2>2. commit # NoCommit
    BY <2>1, MessageShape DEF PinInv, ResultHasJob
  <2>3. ProducerOf[e] \in Ended
    BY <2>1 DEF Ended, Requested
  <2>4. (PublishJob(e) \/ UNCHANGED jobs) /\ UNCHANGED <<commit, run>>
    BY <1>12 DEF ReleaseDependent
  <2> QED BY <2>2, <2>3, <2>4, Dispatches, Stutters
<1> QED
  BY <1>1, <1>2, <1>3, <1>4, <1>5, <1>6, <1>7, <1>8, <1>9, <1>10, <1>11, <1>12
  DEF Next, HandlerStep, ReaperStep

LEMMA ContractInit == Init => Contract!Init
  BY DEF Init, Contract!Init, Requested

\* The scan keeps its contract: one pin, dispatches of the pin only, producers
\* before dependents, and outcomes that stay.
THEOREM ContractKept == Spec => KeepsContract
<1>1. Spec => [](TypeInv /\ PinInv /\ OrderInv)
  BY OrderCorrect
<1>2. Spec => []StartInv
  BY TriggerCorrect, PTL
<1>3. Spec => []OwnInv
  BY <1>1, <1>2, OwnInit, OwnStep, PTL DEF Spec
<1> QED
  BY <1>1, <1>2, <1>3, ContractInit, ContractStep, PTL
  DEF Spec, KeepsContract, Contract!Spec

(***************************************************************************)
(* What was reported takes effect: nothing that became runnable is         *)
(* forgotten, a recorded result stands, and a scan that says it completed  *)
(* rests on the results of every engine it was asked for.                  *)
(***************************************************************************)
USE ConstantsAssumption
USE DEF TypeInv, TypeOK, HandlerOK, MessageOK, ReaperOK, ScanStatus, Terminal, Finished,
        RunStatus, EngineStatus, Malformed, Labels, ResultSteps, SameCommit

(***************************************************************************)
(* Nothing is forgotten                                                    *)
(***************************************************************************)
\* Message m is the one that makes engine e runnable.
Runnable(m, e) == IF m[1] = Fetcher THEN ProducerOf[e] = NoEngine ELSE ProducerOf[e] = m[1]

\* Engine e has a job or an outcome, or was not asked for.
SeenTo(e) == run[e] # "queued" \/ jobs[e] # {}

\* The labels of a handler that has loaded the runs its message concerns, and of
\* one that has been through them.
Through == {"derive", "write", "notify", "normread", "trigger", "claim", "ack"}
Loaded  == {"fanout", "failall", "release"} \cup Through

\* Until a fault, an acked message has left nobody behind, and a handler leaves
\* behind only those it still has to come to.
ForgetInv == faults = 0 =>
  /\ \A m \in Msgs : inbox[m] = "acked" => \A e \in Engines : Runnable(m, e) => SeenTo(e)
  /\ \A h \in Handlers :
       /\ pc[h] \in Loaded => \A e \in Engines : Runnable(cur[h], e) => e \in todo[h] \/ SeenTo(e)
       /\ pc[h] \in Through => todo[h] = {}

\* The labels of the fetch path are those of a fetch result.
FetchPath == \A h \in Handlers :
  pc[h] \in {"pin", "fanread", "fanout", "failread", "failall"} => cur[h][1] = Fetcher

\* An engine that was seen to stays so.
LEMMA SeenStays ==
  ASSUME TypeInv, scanStatus # "absent", [Next]_vars, NEW e \in Engines, SeenTo(e)
  PROVE  SeenTo(e)'
<1> USE DEF scanVars, busVars, handlerVars, otherVars
<1>1. run'[e] = run[e] \/ run'[e] \in EngineStatus
  BY RunsOnlyEnd
<1>2. jobs[e] \subseteq jobs'[e]
  <2>1. UNCHANGED jobs \/ \E f \in Engines : PublishJob(f)
    <3>1. CASE \/ \E S \in SUBSET Engines : CreateScan(S)
               \/ PublishFetchJob \/ CancelRead \/ CancelWrite
               \/ \E f \in Engines : DeadlinePasses(f)
               \/ ReapOverdueRuns \/ ReaperRead \/ ReaperWrite \/ ReaperFails
      BY <3>1 DEF CreateScan, PublishFetchJob, CancelRead, CancelWrite, DeadlinePasses,
         ReapOverdueRuns, ReaperRead, ReaperWrite, ReaperFails
    <3>2. CASE \/ \E n \in 1..MaxCopies, b \in Commits \cup {"failed", Malformed} :
                    FetcherReports(n, b)
               \/ \E f \in Engines, n \in 1..MaxCopies, o \in Outcomes : WorkerReports(f, n, o)
               \/ \E h \in Handlers, m \in Msgs : Deliver(h, m)
      BY <3>2 DEF FetcherReports, WorkerReports, Emit, Deliver
    <3>3. ASSUME NEW h \in Handlers,
                 \/ Ack(h) \/ Reject(h) \/ Abandon(h)
                 \/ SetSourceOnce(h) \/ FanOutRead(h) \/ FanOutDone(h)
                 \/ FailAllRead(h) \/ FailAllDone(h) \/ UpsertResult(h)
                 \/ ReleaseRead(h) \/ ReleaseDone(h) \/ ReadStatuses(h) \/ WriteStatus(h)
                 \/ PublishScanCompleted(h) \/ NormalizeProbe(h)
                 \/ PublishTrigger(h) \/ ClaimTrigger(h)
          PROVE  UNCHANGED jobs
      BY <3>3 DEF Ack, Reject, Abandon, Release, SetSourceOnce, FanOutRead, FanOutDone,
         FailAllRead, FailAllDone, UpsertResult, ReleaseRead, ReleaseDone,
         ReadStatuses, WriteStatus, PublishScanCompleted, NormalizeProbe, PublishTrigger,
         ClaimTrigger
    <3>4. ASSUME NEW h \in Handlers, NEW f \in Engines,
                 \/ FanOutPublish(h, f) \/ FailAllUpsert(h, f)
                 \/ ReleaseDependent(h, f) \/ SkipDependent(h, f)
          PROVE  UNCHANGED jobs \/ PublishJob(f)
      BY <3>4 DEF FanOutPublish, FailAllUpsert, ReleaseDependent, SkipDependent
    <3>5. CASE UNCHANGED vars
      BY <3>5 DEF vars
    <3> QED BY <3>1, <3>2, <3>3, <3>4, <3>5 DEF Next, HandlerStep, ReaperStep
  <2> QED BY <2>1 DEF PublishJob
<1> QED BY <1>1, <1>2 DEF SeenTo

\* What a step does to ForgetInv that neither acks a message nor loads runs.
LEMMA ForgetFrame ==
  ASSUME TypeInv, scanStatus # "absent", [Next]_vars, ForgetInv, faults' = 0 => faults = 0,
         \A m \in Msgs : inbox'[m] = "acked" => inbox[m] = "acked",
         \A h \in Handlers : pc'[h] \in Loaded =>
           /\ pc[h] \in Loaded /\ cur'[h] = cur[h] /\ todo'[h] = todo[h]
           /\ pc'[h] \in Through => pc[h] \in Through \/ todo[h] = {}
  PROVE  ForgetInv'
<1> SUFFICES ASSUME faults' = 0
             PROVE  ForgetInv'
  BY DEF ForgetInv
<1>1. \A e \in Engines : SeenTo(e) => SeenTo(e)'
  BY SeenStays
<1>2. ASSUME NEW m \in Msgs, inbox'[m] = "acked", NEW e \in Engines, Runnable(m, e)
      PROVE  SeenTo(e)'
  BY <1>1, <1>2 DEF ForgetInv
<1>3. ASSUME NEW h \in Handlers, pc'[h] \in Loaded, NEW e \in Engines, Runnable(cur'[h], e)
      PROVE  e \in todo'[h] \/ SeenTo(e)'
  BY <1>1, <1>3 DEF ForgetInv
<1>4. ASSUME NEW h \in Handlers, pc'[h] \in Through PROVE todo'[h] = {}
  BY <1>4 DEF ForgetInv, Loaded
<1>5. \A m \in Msgs, e \in Engines : Runnable(m, e)' <=> Runnable(m, e)
  BY DEF Runnable
<1>6. \A h \in Handlers, e \in Engines : Runnable(cur[h], e)' <=> Runnable(cur'[h], e)
  BY DEF Runnable
<1> QED BY <1>2, <1>3, <1>4, <1>5, <1>6 DEF ForgetInv

LEMMA FetchPathStep ==
  ASSUME TypeInv, FetchPath, [Next]_vars
  PROVE  FetchPath'
<1> USE DEF scanVars, busVars, handlerVars, otherVars, FetchPath
<1>1. CASE \/ \E S \in SUBSET Engines : CreateScan(S)
           \/ PublishFetchJob \/ CancelRead \/ CancelWrite
           \/ \E e \in Engines : DeadlinePasses(e)
           \/ ReapOverdueRuns \/ ReaperRead \/ ReaperWrite \/ ReaperFails
  BY <1>1 DEF CreateScan, PublishFetchJob, CancelRead, CancelWrite, DeadlinePasses,
     ReapOverdueRuns, ReaperRead, ReaperWrite, ReaperFails
<1>2. CASE \/ \E n \in 1..MaxCopies, b \in Commits \cup {"failed", Malformed} : FetcherReports(n, b)
           \/ \E e \in Engines, n \in 1..MaxCopies, o \in Outcomes : WorkerReports(e, n, o)
  <2>1. UNCHANGED <<pc, cur>>
    BY <1>2 DEF FetcherReports, WorkerReports, Emit
  <2> QED BY <2>1
<1>3. ASSUME NEW h \in Handlers, NEW m \in Msgs, Deliver(h, m) PROVE FetchPath'
  BY <1>3 DEF Deliver, FirstStep
<1>4. ASSUME NEW h \in Handlers,
             \/ Ack(h) \/ Reject(h) \/ Abandon(h)
             \/ SetSourceOnce(h) \/ FanOutRead(h) \/ FanOutDone(h)
             \/ FailAllRead(h) \/ FailAllDone(h) \/ UpsertResult(h)
             \/ ReleaseRead(h) \/ ReleaseDone(h) \/ ReadStatuses(h) \/ WriteStatus(h)
      PROVE  FetchPath'
  BY <1>4 DEF Ack, Reject, Abandon, Release, SetSourceOnce, FanOutRead, FanOutDone,
     FailAllRead, FailAllDone, UpsertResult, ReleaseRead, ReleaseDone,
     ReadStatuses, WriteStatus, AfterRecompute, Goto
<1>5. ASSUME NEW h \in Handlers,
             \/ PublishScanCompleted(h) \/ NormalizeProbe(h)
             \/ PublishTrigger(h) \/ ClaimTrigger(h)
      PROVE  FetchPath'
  BY <1>5 DEF PublishScanCompleted, NormalizeProbe, PublishTrigger, ClaimTrigger,
     AfterRecompute, Goto
<1>6. ASSUME NEW h \in Handlers, NEW e \in Engines,
             \/ FanOutPublish(h, e) \/ FailAllUpsert(h, e)
             \/ ReleaseDependent(h, e) \/ SkipDependent(h, e)
      PROVE  FetchPath'
  BY <1>6 DEF FanOutPublish, FailAllUpsert, ReleaseDependent, SkipDependent, Goto
<1>7. CASE UNCHANGED vars
  BY <1>7 DEF vars
<1> QED BY <1>1, <1>2, <1>3, <1>4, <1>5, <1>6, <1>7 DEF Next, HandlerStep, ReaperStep

\* What a step of one handler does to ForgetInv, given what it does to its own
\* todo list.
LEMMA ForgetHandler ==
  ASSUME TypeInv, scanStatus # "absent", [Next]_vars, ForgetInv, faults' = faults,
         NEW h \in Handlers, NEW label, Goto(h, label),
         \A g \in Handlers : g # h => todo'[g] = todo[g],
         faults = 0 /\ label \in Loaded =>
           \A e \in Engines : Runnable(cur[h], e) => e \in todo'[h] \/ SeenTo(e)',
         faults = 0 /\ label \in Through => todo'[h] = {}
  PROVE  ForgetInv'
<1> USE DEF Goto
<1> SUFFICES ASSUME faults = 0
             PROVE  ForgetInv'
  BY DEF ForgetInv
<1>1. \A e \in Engines : SeenTo(e) => SeenTo(e)'
  BY SeenStays
<1>2. cur' = cur /\ inbox' = inbox
  OBVIOUS
<1>3. pc'[h] = label /\ \A g \in Handlers : g # h => pc'[g] = pc[g]
  OBVIOUS
<1>4. ASSUME NEW m \in Msgs, inbox[m] = "acked", NEW e \in Engines, Runnable(m, e)
      PROVE  SeenTo(e)'
  BY <1>1, <1>4 DEF ForgetInv
<1>5. ASSUME NEW g \in Handlers
      PROVE  /\ pc'[g] \in Loaded =>
                  \A e \in Engines : Runnable(cur[g], e) => e \in todo'[g] \/ SeenTo(e)'
             /\ pc'[g] \in Through => todo'[g] = {}
  <2>1. CASE g = h
    BY <1>3, <2>1
  <2>2. CASE g # h
    BY <1>1, <1>3, <2>2 DEF ForgetInv
  <2> QED BY <2>1, <2>2
<1>6. \A m \in Msgs, e \in Engines : Runnable(m, e)' <=> Runnable(m, e)
  BY DEF Runnable
<1>7. \A g \in Handlers, e \in Engines : Runnable(cur[g], e)' <=> Runnable(cur[g], e)
  BY <1>2 DEF Runnable
<1> QED BY <1>2, <1>4, <1>5, <1>6, <1>7 DEF ForgetInv

LEMMA ForgetStep ==
  ASSUME TypeInv, OrderInv, StartInv, FetchPath, ForgetInv, [Next]_vars
  PROVE  ForgetInv'
<1> USE DEF scanVars, busVars, handlerVars, otherVars
<1>1. CASE UNCHANGED vars
  BY <1>1 DEF vars, ForgetInv, Runnable, SeenTo
<1>2. CASE scanStatus = "absent" /\ Next
  <2>1. \A m \in Msgs : inbox'[m] = "absent"
    BY <1>2, FirstStepCreates, ZenonT(60) DEF StartInv, Untouched, CreateScan
  <2>2. \A h \in Handlers : pc'[h] = "idle"
    BY <1>2, FirstStepCreates, ZenonT(60) DEF StartInv, Untouched, CreateScan
  <2> QED BY <2>1, <2>2 DEF ForgetInv, Loaded, Through
<1>3. ASSUME scanStatus # "absent", Next PROVE ForgetInv'
  <2>0. \A e \in Engines : SeenTo(e) => SeenTo(e)'
    BY <1>3, SeenStays
  <2>1. CASE \/ PublishFetchJob \/ CancelRead \/ CancelWrite
             \/ \E e \in Engines : DeadlinePasses(e)
             \/ ReapOverdueRuns \/ ReaperRead \/ ReaperWrite \/ ReaperFails
    BY <1>3, <2>1, ForgetFrame DEF PublishFetchJob, CancelRead, CancelWrite, DeadlinePasses,
       ReapOverdueRuns, ReaperRead, ReaperWrite, ReaperFails, Fault
  <2>2. CASE \/ \E n \in 1..MaxCopies, b \in Commits \cup {"failed", Malformed} :
                  FetcherReports(n, b)
             \/ \E e \in Engines, n \in 1..MaxCopies, o \in Outcomes : WorkerReports(e, n, o)
    <3>1. UNCHANGED <<pc, cur, todo, faults>>
      BY <2>2 DEF FetcherReports, WorkerReports, Emit
    <3>2. ASSUME NEW m \in Msgs, NEW b, Emit(m, b)
          PROVE  \A k \in Msgs : inbox'[k] = "acked" => inbox[k] = "acked"
      BY <3>2 DEF Emit
    <3>3. \A m \in Msgs : inbox'[m] = "acked" => inbox[m] = "acked"
      BY <2>2, <3>2, SourceMessage DEF FetcherReports, WorkerReports
    <3> QED BY <1>3, <3>1, <3>3, ForgetFrame
  <2>3. ASSUME NEW h \in Handlers, NEW m \in Msgs, Deliver(h, m) PROVE ForgetInv'
    <3>1. FirstStep(m) \notin Loaded
      BY DEF FirstStep, Loaded, Through
    <3> QED BY <1>3, <2>3, <3>1, ForgetFrame DEF Deliver
  <2>4. ASSUME NEW h \in Handlers, Reject(h) \/ Abandon(h) PROVE ForgetInv'
    <3>1. (faults' = 0 => faults = 0) /\ \E st \in {"dead", "ready"} : Release(h, st)
      BY <2>4 DEF Reject, Abandon, Release, Fault
    <3> QED BY <1>3, <3>1, ForgetFrame DEF Release, Loaded, Through
  <2>5. ASSUME NEW h \in Handlers, Ack(h) PROVE ForgetInv'
    <3> SUFFICES ASSUME faults = 0 PROVE ForgetInv'
      BY <2>5 DEF Ack, ForgetInv
    <3>1. \A e \in Engines : Runnable(cur[h], e) => SeenTo(e)'
      BY <2>0, <2>5 DEF Ack, ForgetInv, Loaded, Through
    <3>2. \A m \in Msgs : inbox'[m] = "acked" => inbox[m] = "acked" \/ m = cur[h]
      BY <2>5 DEF Ack, Release
    <3>3. \A m \in Msgs : inbox'[m] = "acked" =>
            \A e \in Engines : Runnable(m, e) => SeenTo(e)'
      BY <2>0, <3>1, <3>2 DEF ForgetInv
    <3>4. \A g \in Handlers : pc'[g] # "idle" =>
            pc'[g] = pc[g] /\ cur'[g] = cur[g] /\ todo'[g] = todo[g]
      BY <2>5 DEF Ack, Release
    <3>5. \A g \in Handlers : pc'[g] \in Loaded =>
            \A e \in Engines : Runnable(cur'[g], e) => e \in todo'[g] \/ SeenTo(e)'
      BY <2>0, <3>4 DEF ForgetInv, Loaded, Through
    <3>6. \A g \in Handlers : pc'[g] \in Through => todo'[g] = {}
      BY <3>4 DEF ForgetInv, Through
    <3>7. \A m \in Msgs, e \in Engines : Runnable(m, e)' <=> Runnable(m, e)
      BY DEF Runnable
    <3>8. \A g \in Handlers, e \in Engines : Runnable(cur[g], e)' <=> Runnable(cur'[g], e)
      BY DEF Runnable
    <3> QED BY <3>3, <3>5, <3>6, <3>7, <3>8 DEF ForgetInv
  <2>6. ASSUME NEW h \in Handlers, SetSourceOnce(h) \/ UpsertResult(h) PROVE ForgetInv'
    <3>1. /\ faults' = faults /\ todo' = todo
          /\ \E label \in {"fanread", "relread"} : Goto(h, label)
      BY <2>6 DEF SetSourceOnce, UpsertResult
    <3> QED BY <1>3, <3>1, ForgetHandler DEF Loaded, Through
  <2>7. ASSUME NEW h \in Handlers, FanOutRead(h) PROVE ForgetInv'
    <3>1. cur[h][1] = Fetcher /\ faults' = faults /\ Goto(h, "fanout") /\ run' = run
      BY <2>7 DEF FanOutRead, FetchPath
    <3>2. \A g \in Handlers : g # h => todo'[g] = todo[g]
      BY <2>7 DEF FanOutRead
    <3>3. \A e \in Engines : Runnable(cur[h], e) => e \in todo'[h] \/ SeenTo(e)'
      BY <2>7, <3>1 DEF FanOutRead, Runnable, SeenTo
    <3> QED BY <1>3, <3>1, <3>2, <3>3, ForgetHandler DEF Loaded, Through
  <2>8. ASSUME NEW h \in Handlers, FailAllRead(h) PROVE ForgetInv'
    <3>1. faults' = faults /\ Goto(h, "failall") /\ run' = run
      BY <2>8 DEF FailAllRead
    <3>2. \A g \in Handlers : g # h => todo'[g] = todo[g]
      BY <2>8 DEF FailAllRead
    <3>3. \A e \in Engines : e \in todo'[h] \/ SeenTo(e)'
      BY <2>8, <3>1 DEF FailAllRead, SeenTo
    <3> QED BY <1>3, <3>1, <3>2, <3>3, ForgetHandler DEF Loaded, Through
  <2>9. ASSUME NEW h \in Handlers, ReleaseRead(h) PROVE ForgetInv'
    <3>1. cur[h][1] \in Engines /\ faults' = faults /\ Goto(h, "release") /\ run' = run
      BY <2>9 DEF ReleaseRead
    <3>2. \A g \in Handlers : g # h => todo'[g] = todo[g]
      BY <2>9 DEF ReleaseRead
    <3>3. \A e \in Engines : Runnable(cur[h], e) => e \in todo'[h] \/ SeenTo(e)'
      BY <2>9, <3>1 DEF ReleaseRead, Runnable, SeenTo
    <3> QED BY <1>3, <3>1, <3>2, <3>3, ForgetHandler DEF Loaded, Through
  <2>10. ASSUME NEW h \in Handlers, FanOutDone(h) \/ FailAllDone(h) \/ ReleaseDone(h)
         PROVE  ForgetInv'
    <3>1. pc[h] \in Loaded /\ todo[h] = {} /\ todo' = todo /\ faults' = faults
      BY <2>10 DEF FanOutDone, FailAllDone, ReleaseDone, Loaded
    <3>2. \E label \in {"ack", "derive"} : Goto(h, label)
      BY <2>10 DEF FanOutDone, FailAllDone, ReleaseDone
    <3>3. faults = 0 => \A e \in Engines : Runnable(cur[h], e) => e \in todo'[h] \/ SeenTo(e)'
      BY <2>0, <3>1 DEF ForgetInv
    <3> QED BY <1>3, <3>1, <3>2, <3>3, ForgetHandler
  <2>11. ASSUME NEW h \in Handlers,
                \/ ReadStatuses(h) \/ WriteStatus(h) \/ PublishScanCompleted(h)
                \/ NormalizeProbe(h) \/ PublishTrigger(h) \/ ClaimTrigger(h)
         PROVE  ForgetInv'
    <3>1. pc[h] \in Through /\ todo' = todo
      BY <2>11 DEF ReadStatuses, WriteStatus, PublishScanCompleted, NormalizeProbe,
         PublishTrigger, ClaimTrigger, Through
    <3>2. \E label \in Through : Goto(h, label)
      BY <2>11 DEF ReadStatuses, WriteStatus, PublishScanCompleted, NormalizeProbe,
         PublishTrigger, ClaimTrigger, AfterRecompute, Through
    <3>3. faults' = faults \/ faults' = faults + 1
      BY <2>11 DEF ReadStatuses, WriteStatus, PublishScanCompleted, NormalizeProbe,
         PublishTrigger, ClaimTrigger, Fault
    <3>4. CASE faults' = faults + 1
      BY <3>4 DEF ForgetInv
    <3>5. faults = 0 => /\ todo'[h] = {}
                        /\ \A e \in Engines : Runnable(cur[h], e) => SeenTo(e)'
      BY <2>0, <3>1 DEF ForgetInv, Loaded
    <3>6. CASE faults' = faults
      BY <1>3, <3>1, <3>2, <3>5, <3>6, ForgetHandler
    <3> QED BY <3>3, <3>4, <3>6
  <2>12. ASSUME NEW h \in Handlers, NEW f \in Engines,
                \/ FanOutPublish(h, f) \/ FailAllUpsert(h, f)
                \/ ReleaseDependent(h, f) \/ SkipDependent(h, f)
         PROVE  ForgetInv'
    <3>1. /\ pc[h] \in Loaded \ Through /\ Goto(h, pc[h])
          /\ todo' = [todo EXCEPT ![h] = @ \ {f}]
      BY <2>12 DEF FanOutPublish, FailAllUpsert, ReleaseDependent, SkipDependent,
         Loaded, Through
    <3>2. faults' = faults + 1 \/ (faults' = faults /\ SeenTo(f)')
      <4>1. CASE Fault
        BY <4>1 DEF Fault
      <4>2. CASE PublishJob(f) /\ faults' = faults
        <5>1. commit \in jobs'[f]
          BY <4>2 DEF PublishJob
        <5> QED BY <4>2, <5>1 DEF SeenTo
      <4>3. CASE UpsertEngineRun(f, "failed") /\ faults' = faults
        BY <4>3 DEF UpsertEngineRun, SeenTo
      <4>4. CASE UpsertEngineRun(f, "skipped") /\ faults' = faults
        BY <4>4 DEF UpsertEngineRun, SeenTo
      <4> QED
        BY <2>12, <4>1, <4>2, <4>3, <4>4
        DEF FanOutPublish, FailAllUpsert, ReleaseDependent, SkipDependent
    <3>3. CASE faults' = faults + 1
      BY <3>3 DEF ForgetInv
    <3>4. CASE faults' = faults /\ SeenTo(f)'
      <4>1. faults = 0 =>
              \A e \in Engines : Runnable(cur[h], e) => e \in todo'[h] \/ SeenTo(e)'
        BY <2>0, <3>1, <3>4 DEF ForgetInv
      <4>2. \A g \in Handlers : g # h => todo'[g] = todo[g]
        BY <3>1
      <4> QED BY <1>3, <3>1, <3>4, <4>1, <4>2, ForgetHandler
    <3> QED BY <3>2, <3>3, <3>4
  <2>13. ASSUME NEW S \in SUBSET Engines, CreateScan(S) PROVE ForgetInv'
    BY <1>3, <2>13 DEF CreateScan
  <2> QED
    BY <1>3, <2>1, <2>2, <2>3, <2>4, <2>5, <2>6, <2>7, <2>8, <2>9, <2>10, <2>11, <2>12, <2>13
    DEF Next, HandlerStep, ReaperStep
<1> QED BY <1>1, <1>2, <1>3

\* While no call has failed and nothing has crashed, an acked message has left
\* every engine it makes runnable with a job or an outcome: FanOut and
\* releaseDependents between them forget none.
THEOREM NothingForgotten == Spec => []NoRunForgotten
<1>1. Init => FetchPath /\ ForgetInv
  BY DEF Init, FetchPath, ForgetInv, Loaded, Through
<1>2. Spec => [](TypeInv /\ PinInv /\ OrderInv)
  BY OrderCorrect
<1>3. Spec => []StartInv
  BY TriggerCorrect, PTL
<1>4. Spec => []FetchPath
  BY <1>1, <1>2, FetchPathStep, PTL DEF Spec
<1>5. Spec => []ForgetInv
  BY <1>1, <1>2, <1>3, <1>4, ForgetStep, PTL DEF Spec
<1>6. ForgetInv => NoRunForgotten
  BY DEF ForgetInv, NoRunForgotten, Runnable, SeenTo, Requested
<1> QED BY <1>5, <1>6, PTL

(***************************************************************************)
(* A recorded result stands                                                *)
(***************************************************************************)
\* Two results of one source do not contradict each other: an engine repeats
\* itself, and the fetcher does not fail once and succeed another time. (A job
\* that is run again after an outcome it has not recorded may contradict it.)
NoContradiction ==
  \A s \in Sources, n, k \in 1..MaxCopies :
    inbox[<<s, n>>] # "absent" /\ inbox[<<s, k>>] # "absent" =>
      body[<<s, n>>] = body[<<s, k>>] \/ {body[<<s, n>>], body[<<s, k>>]} \subseteq Commits

\* A pinned commit was reported by the fetcher, and failAllRuns runs for a
\* fetch that reported none.
FetchInv ==
  /\ commit # NoCommit => \E n \in 1..MaxCopies :
       inbox[<<Fetcher, n>>] # "absent" /\ body[<<Fetcher, n>>] \in Commits
  /\ \A h \in Handlers : pc[h] \in {"failread", "failall"} =>
       cur[h][1] = Fetcher /\ body[cur[h]] \notin Commits

\* What the step does to the messages: those that are there stay, word for word.
LEMMA MessagesStay ==
  ASSUME TypeInv, [Next]_vars, NEW m \in Msgs, inbox[m] # "absent"
  PROVE  inbox'[m] # "absent" /\ body'[m] = body[m]
<1> USE DEF scanVars, busVars, handlerVars, otherVars
<1>1. CASE \/ \E S \in SUBSET Engines : CreateScan(S)
           \/ PublishFetchJob \/ CancelRead \/ CancelWrite
           \/ \E e \in Engines : DeadlinePasses(e)
           \/ ReapOverdueRuns \/ ReaperRead \/ ReaperWrite \/ ReaperFails
  BY <1>1 DEF CreateScan, PublishFetchJob, CancelRead, CancelWrite, DeadlinePasses,
     ReapOverdueRuns, ReaperRead, ReaperWrite, ReaperFails
<1>2. ASSUME NEW k \in Msgs, NEW b, Emit(k, b)
      PROVE  inbox'[m] # "absent" /\ body'[m] = body[m]
  BY <1>2 DEF Emit
<1>3. CASE \/ \E n \in 1..MaxCopies, b \in Commits \cup {"failed", Malformed} : FetcherReports(n, b)
           \/ \E e \in Engines, n \in 1..MaxCopies, o \in Outcomes : WorkerReports(e, n, o)
  BY <1>2, <1>3, SourceMessage DEF FetcherReports, WorkerReports
<1>4. ASSUME NEW h \in Handlers, NEW k \in Msgs, Deliver(h, k)
      PROVE  inbox'[m] # "absent" /\ body'[m] = body[m]
  BY <1>4 DEF Deliver
<1>5. ASSUME NEW h \in Handlers, Ack(h) \/ Reject(h) \/ Abandon(h)
      PROVE  inbox'[m] # "absent" /\ body'[m] = body[m]
  BY <1>5 DEF Ack, Reject, Abandon, Release
<1>6. ASSUME NEW h \in Handlers,
             \/ SetSourceOnce(h) \/ FanOutRead(h) \/ FanOutDone(h)
             \/ FailAllRead(h) \/ FailAllDone(h) \/ UpsertResult(h)
             \/ ReleaseRead(h) \/ ReleaseDone(h) \/ ReadStatuses(h) \/ WriteStatus(h)
             \/ PublishScanCompleted(h) \/ NormalizeProbe(h)
             \/ PublishTrigger(h) \/ ClaimTrigger(h)
      PROVE  UNCHANGED <<inbox, body>>
  BY <1>6 DEF SetSourceOnce, FanOutRead, FanOutDone,
     FailAllRead, FailAllDone, UpsertResult, ReleaseRead, ReleaseDone,
     ReadStatuses, WriteStatus, PublishScanCompleted, NormalizeProbe, PublishTrigger,
     ClaimTrigger, Goto
<1>7. ASSUME NEW h \in Handlers, NEW e \in Engines,
             \/ FanOutPublish(h, e) \/ FailAllUpsert(h, e)
             \/ ReleaseDependent(h, e) \/ SkipDependent(h, e)
      PROVE  UNCHANGED <<inbox, body>>
  BY <1>7 DEF FanOutPublish, FailAllUpsert, ReleaseDependent, SkipDependent, Goto
<1>8. CASE UNCHANGED vars
  BY <1>8 DEF vars
<1> QED BY <1>1, <1>3, <1>4, <1>5, <1>6, <1>7, <1>8 DEF Next, HandlerStep, ReaperStep

LEMMA FetchInvStep ==
  ASSUME TypeInv, FetchPath, FetchInv, [Next]_vars
  PROVE  FetchInv'
<1> USE DEF scanVars, busVars, handlerVars, otherVars
<1> DEFINE Pinned(c, n) == inbox[<<Fetcher, n>>] # "absent" /\ body[<<Fetcher, n>>] \in Commits
<1>1. ASSUME UNCHANGED commit,
             \A h \in Handlers : pc'[h] \in {"failread", "failall"} =>
               pc[h] \in {"failread", "failall"} /\ cur'[h] = cur[h]
      PROVE  FetchInv'
  <2>1. ASSUME NEW h \in Handlers, pc'[h] \in {"failread", "failall"}
        PROVE  cur'[h][1] = Fetcher /\ body'[cur'[h]] \notin Commits
    <3>1. cur'[h] = cur[h] /\ cur[h] \in Msgs /\ inbox[cur[h]] # "absent"
          /\ cur[h][1] = Fetcher /\ body[cur[h]] \notin Commits
      BY <1>1, <2>1 DEF FetchInv
    <3> QED BY <3>1, MessagesStay
  <2>2. ASSUME commit' # NoCommit
        PROVE  \E n \in 1..MaxCopies :
                 inbox'[<<Fetcher, n>>] # "absent" /\ body'[<<Fetcher, n>>] \in Commits
    <3>1. PICK n \in 1..MaxCopies :
            inbox[<<Fetcher, n>>] # "absent" /\ body[<<Fetcher, n>>] \in Commits
      BY <1>1, <2>2 DEF FetchInv
    <3>2. inbox'[<<Fetcher, n>>] # "absent" /\ body'[<<Fetcher, n>>] = body[<<Fetcher, n>>]
      BY <3>1, SourceMessage, MessagesStay
    <3> QED BY <3>1, <3>2
  <2> QED BY <2>1, <2>2 DEF FetchInv
<1>2. CASE \/ \E S \in SUBSET Engines : CreateScan(S)
           \/ PublishFetchJob \/ CancelRead \/ CancelWrite
           \/ \E e \in Engines : DeadlinePasses(e)
           \/ ReapOverdueRuns \/ ReaperRead \/ ReaperWrite \/ ReaperFails
  BY <1>1, <1>2 DEF CreateScan, PublishFetchJob, CancelRead, CancelWrite, DeadlinePasses,
     ReapOverdueRuns, ReaperRead, ReaperWrite, ReaperFails
<1>3. CASE \/ \E n \in 1..MaxCopies, b \in Commits \cup {"failed", Malformed} : FetcherReports(n, b)
           \/ \E e \in Engines, n \in 1..MaxCopies, o \in Outcomes : WorkerReports(e, n, o)
  <2>1. UNCHANGED <<pc, cur, commit>>
    BY <1>3 DEF FetcherReports, WorkerReports, Emit
  <2> QED BY <1>1, <2>1
<1>4. ASSUME NEW h \in Handlers, NEW m \in Msgs, Deliver(h, m) PROVE FetchInv'
  <2>1. UNCHANGED <<commit, body>> /\ inbox' = [inbox EXCEPT ![m] = "held"]
    BY <1>4 DEF Deliver
  <2>2. \A g \in Handlers : g # h => pc'[g] = pc[g] /\ cur'[g] = cur[g]
    BY <1>4 DEF Deliver
  <2>3. cur'[h] = m /\ pc'[h] = FirstStep(m)
    BY <1>4 DEF Deliver
  <2>4. FirstStep(m) # "failall" /\ (FirstStep(m) = "failread" =>
          m[1] = Fetcher /\ body[m] \notin Commits)
    BY DEF FirstStep
  <2>5. \A k \in Msgs : inbox[k] # "absent" => inbox'[k] # "absent"
    BY <2>1
  <2>6. \A n \in 1..MaxCopies : Pinned(commit, n) =>
          inbox'[<<Fetcher, n>>] # "absent" /\ body'[<<Fetcher, n>>] \in Commits
    BY <2>1, <2>5, SourceMessage
  <2>7. ASSUME NEW g \in Handlers, pc'[g] \in {"failread", "failall"}
        PROVE  cur'[g][1] = Fetcher /\ body'[cur'[g]] \notin Commits
    BY <2>1, <2>2, <2>3, <2>4, <2>7 DEF FetchInv
  <2> QED BY <2>1, <2>6, <2>7 DEF FetchInv
<1>5. ASSUME NEW h \in Handlers,
             \/ Ack(h) \/ Reject(h) \/ Abandon(h)
             \/ FanOutRead(h) \/ FanOutDone(h)
             \/ FailAllRead(h) \/ FailAllDone(h) \/ UpsertResult(h)
             \/ ReleaseRead(h) \/ ReleaseDone(h) \/ ReadStatuses(h) \/ WriteStatus(h)
      PROVE  FetchInv'
  BY <1>1, <1>5 DEF Ack, Reject, Abandon, Release, FanOutRead, FanOutDone,
     FailAllRead, FailAllDone, UpsertResult, ReleaseRead, ReleaseDone,
     ReadStatuses, WriteStatus, AfterRecompute, Goto
<1>6. ASSUME NEW h \in Handlers,
             \/ PublishScanCompleted(h) \/ NormalizeProbe(h)
             \/ PublishTrigger(h) \/ ClaimTrigger(h)
      PROVE  FetchInv'
  BY <1>1, <1>6 DEF PublishScanCompleted, NormalizeProbe, PublishTrigger, ClaimTrigger,
     AfterRecompute, Goto
<1>7. ASSUME NEW h \in Handlers, NEW e \in Engines,
             \/ FanOutPublish(h, e) \/ FailAllUpsert(h, e)
             \/ ReleaseDependent(h, e) \/ SkipDependent(h, e)
      PROVE  FetchInv'
  BY <1>1, <1>7 DEF FanOutPublish, FailAllUpsert, ReleaseDependent, SkipDependent, Goto
<1>8. ASSUME NEW h \in Handlers, SetSourceOnce(h) PROVE FetchInv'
  <2>1. /\ cur[h] \in Msgs /\ inbox[cur[h]] # "absent" /\ body[cur[h]] \in Commits
        /\ cur[h][1] = Fetcher
    BY <1>8 DEF SetSourceOnce, FetchPath
  <2>2. cur[h][2] \in 1..MaxCopies /\ cur[h] = <<Fetcher, cur[h][2]>>
    BY <2>1, MessageShape
  <2>3. UNCHANGED <<inbox, body, cur>>
    BY <1>8 DEF SetSourceOnce, Goto
  <2>4. \A g \in Handlers : pc'[g] \in {"failread", "failall"} => pc[g] = pc'[g]
    BY <1>8 DEF SetSourceOnce, Goto
  <2>5. \E n \in 1..MaxCopies : inbox'[<<Fetcher, n>>] # "absent" /\ body'[<<Fetcher, n>>] \in Commits
    <3>1. inbox[<<Fetcher, cur[h][2]>>] # "absent" /\ body[<<Fetcher, cur[h][2]>>] \in Commits
      BY <2>1, <2>2
    <3> QED BY <2>2, <2>3, <3>1
  <2>6. \A g \in Handlers :
          pc'[g] \in {"failread", "failall"} => cur'[g][1] = Fetcher /\ body'[cur'[g]] \notin Commits
    BY <2>3, <2>4 DEF FetchInv
  <2> QED BY <2>5, <2>6 DEF FetchInv
<1>9. CASE UNCHANGED vars
  BY <1>1, <1>9 DEF vars
<1> QED BY <1>2, <1>3, <1>4, <1>5, <1>6, <1>7, <1>8, <1>9 DEF Next, HandlerStep, ReaperStep

\* The ways in which a step changes the outcome of an engine's run.
LEMMA RunChanges ==
  ASSUME TypeInv, scanStatus # "absent", [Next]_vars, NEW e \in Engines, run'[e] # run[e]
  PROVE  \/ \E h \in Handlers : UpsertResult(h) /\ cur[h][1] = e /\ run'[e] = body[cur[h]]
         \/ \E h \in Handlers : FailAllUpsert(h, e) /\ run'[e] = "failed"
         \/ \E h \in Handlers : SkipDependent(h, e) /\ run'[e] = "skipped"
         \/ run[e] = "queued" /\ run'[e] = "timeout"
<1> USE DEF scanVars, busVars, handlerVars, otherVars
<1>1. CASE \/ \E S \in SUBSET Engines : CreateScan(S)
           \/ PublishFetchJob \/ CancelRead \/ CancelWrite
           \/ \E f \in Engines : DeadlinePasses(f)
           \/ ReaperRead \/ ReaperWrite \/ ReaperFails
  BY <1>1 DEF CreateScan, PublishFetchJob, CancelRead, CancelWrite, DeadlinePasses,
     ReaperRead, ReaperWrite, ReaperFails
<1>2. CASE ReapOverdueRuns
  BY <1>2 DEF ReapOverdueRuns
<1>3. CASE \/ \E n \in 1..MaxCopies, b \in Commits \cup {"failed", Malformed} : FetcherReports(n, b)
           \/ \E f \in Engines, n \in 1..MaxCopies, o \in Outcomes : WorkerReports(f, n, o)
           \/ \E h \in Handlers, m \in Msgs : Deliver(h, m)
  BY <1>3 DEF FetcherReports, WorkerReports, Emit, Deliver
<1>4. ASSUME NEW h \in Handlers,
             \/ Ack(h) \/ Reject(h) \/ Abandon(h)
             \/ SetSourceOnce(h) \/ FanOutRead(h) \/ FanOutDone(h)
             \/ FailAllRead(h) \/ FailAllDone(h)
             \/ ReleaseRead(h) \/ ReleaseDone(h) \/ ReadStatuses(h) \/ WriteStatus(h)
             \/ PublishScanCompleted(h) \/ NormalizeProbe(h)
             \/ PublishTrigger(h) \/ ClaimTrigger(h)
      PROVE  run' = run
  BY <1>4 DEF Ack, Reject, Abandon, Release, SetSourceOnce, FanOutRead, FanOutDone,
     FailAllRead, FailAllDone, ReleaseRead, ReleaseDone, ReadStatuses, WriteStatus,
     PublishScanCompleted, NormalizeProbe, PublishTrigger, ClaimTrigger
<1>5. ASSUME NEW h \in Handlers, UpsertResult(h)
      PROVE  cur[h][1] = e /\ run'[e] = body[cur[h]]
  BY <1>5 DEF UpsertResult, UpsertEngineRun
<1>6. ASSUME NEW h \in Handlers, NEW f \in Engines, FanOutPublish(h, f) \/ ReleaseDependent(h, f)
      PROVE  run' = run
  BY <1>6 DEF FanOutPublish, ReleaseDependent
<1>7. ASSUME NEW h \in Handlers, NEW f \in Engines, FailAllUpsert(h, f)
      PROVE  f = e /\ run'[e] = "failed"
  BY <1>7 DEF FailAllUpsert, UpsertEngineRun
<1>8. ASSUME NEW h \in Handlers, NEW f \in Engines, SkipDependent(h, f)
      PROVE  f = e /\ run'[e] = "skipped"
  BY <1>8 DEF SkipDependent, UpsertEngineRun
<1>9. CASE UNCHANGED vars
  BY <1>9 DEF vars
<1> QED
  BY <1>1, <1>2, <1>3, <1>4, <1>5, <1>6, <1>7, <1>8, <1>9 DEF Next, HandlerStep, ReaperStep

\* While no source contradicts itself, a result that stands in its run stays.
LEMMA ResultStands ==
  ASSUME TypeInv, PinInv, OrderInv, FetchInv, NoContradiction,
         scanStatus # "absent", [Next]_vars,
         NEW e \in Engines, NEW n \in 1..MaxCopies,
         inbox[<<e, n>>] # "absent", run[e] = body[<<e, n>>]
  PROVE  run'[e] = body[<<e, n>>]
<1> SUFFICES ASSUME run'[e] # run[e] PROVE FALSE
  OBVIOUS
<1>1. <<e, n>> \in Msgs /\ body[<<e, n>>] \in Outcomes /\ e \in Sources
  BY SourceMessage DEF Sources
<1>2. body[<<e, n>>] \notin Commits
  BY <1>1
<1>3. \A k \in 1..MaxCopies : inbox[<<e, k>>] # "absent" => body[<<e, k>>] = run[e]
  BY <1>1, <1>2 DEF NoContradiction
<1>4. jobs[e] # {}
  BY DEF PinInv, ResultHasJob
<1>5. ASSUME NEW h \in Handlers, UpsertResult(h), cur[h][1] = e, run'[e] = body[cur[h]]
      PROVE  FALSE
  <2>1. cur[h] \in Msgs /\ inbox[cur[h]] # "absent"
    BY <1>5 DEF UpsertResult
  <2>2. cur[h] = <<e, cur[h][2]>> /\ cur[h][2] \in 1..MaxCopies
    BY <1>5, <2>1, MessageShape
  <2> QED BY <1>3, <1>5, <2>1, <2>2
<1>6. ASSUME NEW h \in Handlers, FailAllUpsert(h, e) PROVE FALSE
  <2>1. /\ cur[h] \in Msgs /\ inbox[cur[h]] # "absent"
        /\ cur[h][1] = Fetcher /\ body[cur[h]] \notin Commits
    BY <1>6 DEF FailAllUpsert, FetchInv
  <2>2. cur[h] = <<Fetcher, cur[h][2]>> /\ cur[h][2] \in 1..MaxCopies
    BY <2>1, MessageShape
  <2>3. PICK k \in 1..MaxCopies :
          inbox[<<Fetcher, k>>] # "absent" /\ body[<<Fetcher, k>>] \in Commits
    BY <1>4 DEF PinInv, FetchInv
  <2> QED BY <2>1, <2>2, <2>3 DEF NoContradiction, Sources
<1>7. ASSUME NEW h \in Handlers, SkipDependent(h, e) PROVE FALSE
  <2>1. /\ cur[h] \in Msgs /\ inbox[cur[h]] # "absent" /\ cur[h][1] \in Engines
        /\ body[cur[h]] \in EngineStatus \ Usable /\ ProducerOf[e] = cur[h][1]
    BY <1>7 DEF SkipDependent, OrderInv, TodoOK
  <2>2. cur[h] = <<ProducerOf[e], cur[h][2]>> /\ cur[h][2] \in 1..MaxCopies
    BY <2>1, MessageShape
  <2>3. PICK k \in 1..MaxCopies :
          inbox[<<ProducerOf[e], k>>] # "absent" /\ body[<<ProducerOf[e], k>>] \in Usable
    BY <1>4, <2>1, SMTT(60) DEF OrderInv, DependentFollowsProducer, Reported
  <2>4. body[cur[h]] \notin Commits
    BY <2>1
  <2> QED BY <2>1, <2>2, <2>3, <2>4 DEF NoContradiction, Sources
<1>8. run[e] # "queued"
  BY <1>1
<1> QED BY <1>5, <1>6, <1>7, <1>8, RunChanges

\* The labels of a handler that has recorded its engine's result.
Recorded == {"relread", "release"} \cup Through

\* An acked result stands in its run, and so does one that a handler recorded.
StandInv ==
  /\ \A e \in Engines, n \in 1..MaxCopies :
       inbox[<<e, n>>] = "acked" => run[e] = body[<<e, n>>]
  /\ \A h \in Handlers :
       pc[h] \in Recorded /\ cur[h][1] \in Engines => run[cur[h][1]] = body[cur[h]]

\* What a step does to StandInv that acks and records nothing.
LEMMA StandFrame ==
  ASSUME TypeInv, PinInv, OrderInv, FetchInv, NoContradiction, StandInv,
         scanStatus # "absent", [Next]_vars,
         \A m \in Msgs : inbox'[m] = "acked" => inbox[m] = "acked",
         NEW H \in SUBSET Handlers,
         \A h \in Handlers \ H : pc'[h] \in Recorded => pc[h] \in Recorded /\ cur'[h] = cur[h],
         \A h \in H : cur'[h] \in Msgs /\ run'[cur'[h][1]] = body'[cur'[h]]
  PROVE  StandInv'
<1>1. ASSUME NEW e \in Engines, NEW n \in 1..MaxCopies, inbox'[<<e, n>>] = "acked"
      PROVE  run'[e] = body'[<<e, n>>]
  <2>1. <<e, n>> \in Msgs /\ inbox[<<e, n>>] = "acked"
    BY <1>1, SourceMessage
  <2>2. run[e] = body[<<e, n>>]
    BY <2>1 DEF StandInv
  <2> QED BY <2>1, <2>2, ResultStands, MessagesStay
<1>2. ASSUME NEW h \in Handlers, pc'[h] \in Recorded, cur'[h][1] \in Engines
      PROVE  run'[cur'[h][1]] = body'[cur'[h]]
  <2>1. CASE h \in H
    BY <2>1
  <2>2. CASE h \notin H
    <3>1. cur'[h] = cur[h] /\ pc[h] \in Recorded /\ pc[h] # "idle"
      BY <1>2, <2>2 DEF Recorded, Through
    <3>2. cur[h] \in Msgs /\ inbox[cur[h]] # "absent" /\ cur[h][1] \in Engines
      BY <1>2, <3>1
    <3>3. run[cur[h][1]] = body[cur[h]]
      BY <3>1, <3>2 DEF StandInv
    <3>4. PICK e \in Engines, n \in 1..MaxCopies : cur[h] = <<e, n>>
      BY <3>2, MessageShape
    <3>5. inbox[<<e, n>>] # "absent" /\ run[e] = body[<<e, n>>]
      BY <3>2, <3>3, <3>4
    <3>6. run'[e] = body[<<e, n>>]
      BY <3>5, ResultStands
    <3> QED BY <3>1, <3>2, <3>4, <3>6, MessagesStay
  <2> QED BY <2>1, <2>2
<1> QED BY <1>1, <1>2 DEF StandInv

LEMMA StandStep ==
  ASSUME TypeInv, PinInv, OrderInv, StartInv, FetchInv, FetchPath, NoContradiction, StandInv,
         [Next]_vars
  PROVE  StandInv'
<1> USE DEF scanVars, busVars, handlerVars, otherVars
<1>1. CASE UNCHANGED vars
  BY <1>1 DEF vars, StandInv
<1>2. CASE scanStatus = "absent" /\ Next
  <2>1. \A m \in Msgs : inbox'[m] = "absent"
    BY <1>2, FirstStepCreates, ZenonT(60) DEF StartInv, Untouched, CreateScan
  <2>2. \A h \in Handlers : pc'[h] = "idle"
    BY <1>2, FirstStepCreates, ZenonT(60) DEF StartInv, Untouched, CreateScan
  <2>3. \A e \in Engines, n \in 1..MaxCopies : inbox'[<<e, n>>] = "absent"
    BY <2>1, SourceMessage
  <2>4. \A h \in Handlers : pc'[h] \notin Recorded
    BY <2>2 DEF Recorded, Through
  <2> QED BY <2>3, <2>4 DEF StandInv
<1>3. ASSUME scanStatus # "absent", Next PROVE StandInv'
  <2>0. ASSUME \A m \in Msgs : inbox'[m] = "acked" => inbox[m] = "acked",
               \A h \in Handlers : pc'[h] \in Recorded => pc[h] \in Recorded /\ cur'[h] = cur[h]
        PROVE  StandInv'
    <3> DEFINE none == {}
    <3>1. none \in SUBSET Handlers /\ Handlers \ none = Handlers
      OBVIOUS
    <3>2. \A h \in none : cur'[h] \in Msgs /\ run'[cur'[h][1]] = body'[cur'[h]]
      OBVIOUS
    <3> HIDE DEF none
    <3> QED BY <1>3, <2>0, <3>1, <3>2, StandFrame, ZenonT(60)
  <2>1. CASE \/ PublishFetchJob \/ CancelRead \/ CancelWrite
             \/ \E e \in Engines : DeadlinePasses(e)
             \/ ReapOverdueRuns \/ ReaperRead \/ ReaperWrite \/ ReaperFails
    BY <2>0, <2>1 DEF PublishFetchJob, CancelRead, CancelWrite, DeadlinePasses,
       ReapOverdueRuns, ReaperRead, ReaperWrite, ReaperFails
  <2>2. CASE \/ \E n \in 1..MaxCopies, b \in Commits \cup {"failed", Malformed} :
                  FetcherReports(n, b)
             \/ \E e \in Engines, n \in 1..MaxCopies, o \in Outcomes : WorkerReports(e, n, o)
    <3>1. UNCHANGED <<pc, cur>>
      BY <2>2 DEF FetcherReports, WorkerReports, Emit
    <3>2. ASSUME NEW m \in Msgs, NEW b, Emit(m, b)
          PROVE  \A k \in Msgs : inbox'[k] = "acked" => inbox[k] = "acked"
      BY <3>2 DEF Emit
    <3>3. \A m \in Msgs : inbox'[m] = "acked" => inbox[m] = "acked"
      BY <2>2, <3>2, SourceMessage DEF FetcherReports, WorkerReports
    <3> QED BY <2>0, <3>1, <3>3
  <2>3. ASSUME NEW h \in Handlers, NEW m \in Msgs, Deliver(h, m) PROVE StandInv'
    <3>1. FirstStep(m) \notin Recorded
      BY DEF FirstStep, Recorded, Through
    <3> QED BY <2>0, <2>3, <3>1 DEF Deliver
  <2>4. ASSUME NEW h \in Handlers, Reject(h) \/ Abandon(h) PROVE StandInv'
    <3>1. \E st \in {"dead", "ready"} : Release(h, st)
      BY <2>4 DEF Reject, Abandon, Release
    <3> QED BY <2>0, <3>1 DEF Release, Recorded, Through
  <2>5. ASSUME NEW h \in Handlers, Ack(h) PROVE StandInv'
    <3>1. /\ cur[h] \in Msgs /\ run' = run /\ body' = body
          /\ inbox' = [inbox EXCEPT ![cur[h]] = "acked"]
      BY <2>5 DEF Ack, Release
    <3>2. ASSUME NEW e \in Engines, NEW n \in 1..MaxCopies, inbox'[<<e, n>>] = "acked"
          PROVE  run[e] = body[<<e, n>>]
      <4>1. <<e, n>> \in Msgs
        BY SourceMessage
      <4>2. CASE cur[h] = <<e, n>>
        <5>1. pc[h] \in Recorded /\ cur[h][1] = e
          BY <2>5, <4>2 DEF Ack, Recorded, Through
        <5> QED BY <4>2, <5>1 DEF StandInv
      <4>3. CASE cur[h] # <<e, n>>
        BY <3>1, <3>2, <4>1, <4>3 DEF StandInv
      <4> QED BY <4>2, <4>3
    <3>3. \A g \in Handlers : pc'[g] # "idle" => pc'[g] = pc[g] /\ cur'[g] = cur[g]
      BY <2>5 DEF Ack, Release
    <3>4. ASSUME NEW g \in Handlers, pc'[g] \in Recorded, cur'[g][1] \in Engines
          PROVE  run[cur'[g][1]] = body[cur'[g]]
      <4>1. pc[g] = pc'[g] /\ cur'[g] = cur[g]
        BY <3>3, <3>4 DEF Recorded, Through
      <4> QED BY <3>4, <4>1 DEF StandInv
    <3> QED BY <3>1, <3>2, <3>4 DEF StandInv
  <2>6. ASSUME NEW h \in Handlers, UpsertResult(h) PROVE StandInv'
    <3>1. /\ cur[h] \in Msgs /\ UNCHANGED <<cur, inbox, body>>
          /\ run' = [run EXCEPT ![cur[h][1]] = body[cur[h]]] /\ cur[h][1] \in Engines
      BY <2>6 DEF UpsertResult, UpsertEngineRun, Goto
    <3>2. \A g \in Handlers \ {h} : pc'[g] = pc[g]
      BY <2>6 DEF UpsertResult, Goto
    <3> DEFINE self == {h}
    <3>3. self \in SUBSET Handlers
      OBVIOUS
    <3>4. \A g \in self : cur'[g] \in Msgs /\ run'[cur'[g][1]] = body'[cur'[g]]
      BY <3>1
    <3>5. \A g \in Handlers \ self : pc'[g] \in Recorded => pc[g] \in Recorded /\ cur'[g] = cur[g]
      BY <3>1, <3>2
    <3> HIDE DEF self
    <3> QED BY <1>3, <3>1, <3>3, <3>4, <3>5, StandFrame
  <2>7. ASSUME NEW h \in Handlers,
               \/ SetSourceOnce(h) \/ FanOutRead(h) \/ FailAllRead(h)
               \/ ReleaseRead(h) \/ ReleaseDone(h) \/ ReadStatuses(h) \/ WriteStatus(h)
        PROVE  StandInv'
    BY <2>0, <2>7 DEF SetSourceOnce, FanOutRead, FailAllRead, ReleaseRead, ReleaseDone,
       ReadStatuses, WriteStatus, AfterRecompute, Goto, Recorded, Through
  <2>8. ASSUME NEW h \in Handlers,
               \/ PublishScanCompleted(h) \/ NormalizeProbe(h)
               \/ PublishTrigger(h) \/ ClaimTrigger(h)
        PROVE  StandInv'
    BY <2>0, <2>8 DEF PublishScanCompleted, NormalizeProbe, PublishTrigger, ClaimTrigger,
       AfterRecompute, Goto, Recorded, Through
  <2>9. ASSUME NEW h \in Handlers, FanOutDone(h) \/ FailAllDone(h) PROVE StandInv'
    <3>1. cur[h][1] = Fetcher /\ UNCHANGED <<run, cur, inbox, body>>
      BY <2>9 DEF FanOutDone, FailAllDone, FetchPath, Goto
    <3>2. \A g \in Handlers : g # h => pc'[g] = pc[g]
      BY <2>9 DEF FanOutDone, FailAllDone, Goto
    <3>3. \A g \in Handlers : cur[g][1] \in Engines => g # h
      BY <3>1
    <3> QED BY <3>1, <3>2, <3>3 DEF StandInv
  <2>10. ASSUME NEW h \in Handlers, NEW e \in Engines,
                \/ FanOutPublish(h, e) \/ FailAllUpsert(h, e)
                \/ ReleaseDependent(h, e) \/ SkipDependent(h, e)
         PROVE  StandInv'
    BY <2>0, <2>10 DEF FanOutPublish, FailAllUpsert, ReleaseDependent, SkipDependent, Goto,
       Recorded, Through
  <2>11. ASSUME NEW S \in SUBSET Engines, CreateScan(S) PROVE StandInv'
    BY <1>3, <2>11 DEF CreateScan
  <2> QED
    BY <1>3, <2>1, <2>2, <2>3, <2>4, <2>5, <2>6, <2>7, <2>8, <2>9, <2>10, <2>11
    DEF Next, HandlerStep, ReaperStep
<1> QED BY <1>1, <1>2, <1>3

LEMMA ReportsInvariant ==
  Spec /\ []NoContradiction =>
    [](TypeInv /\ PinInv /\ OrderInv /\ StartInv /\ OwnInv /\ FetchInv /\ StandInv)
<1>1. Init => FetchPath /\ FetchInv /\ StandInv
  <2> SUFFICES ASSUME Init PROVE FetchPath /\ FetchInv /\ StandInv
    OBVIOUS
  <2>1. commit = NoCommit /\ \A h \in Handlers : pc[h] = "idle"
    BY DEF Init
  <2>2. \A m \in Msgs : inbox[m] = "absent"
    BY DEF Init
  <2> QED BY <2>1, <2>2, SourceMessage DEF FetchPath, FetchInv, StandInv, Recorded, Through
<1>2. Spec => [](TypeInv /\ PinInv /\ OrderInv)
  BY OrderCorrect
<1>3. Spec => []StartInv
  BY TriggerCorrect, PTL
<1>4. Spec => []OwnInv
  BY <1>2, <1>3, OwnInit, OwnStep, PTL DEF Spec
<1>5. Spec => []FetchPath
  BY <1>1, <1>2, FetchPathStep, PTL DEF Spec
<1>6. Spec => []FetchInv
  BY <1>1, <1>2, <1>5, FetchInvStep, PTL DEF Spec
<1>7. Spec /\ []NoContradiction => []StandInv
  BY <1>1, <1>2, <1>3, <1>5, <1>6, StandStep, PTL DEF Spec
<1> QED BY <1>2, <1>3, <1>4, <1>6, <1>7, PTL

\* Whatever the reaper and failAllRuns write in the meantime, an acked result
\* is what its run says, as long as no source contradicts itself.
THEOREM ReportsStand == Spec /\ []NoContradiction => []ReportsTakeEffect
<1>1. StandInv => AckedResultRecorded
  BY DEF StandInv, AckedResultRecorded
<1>2. Spec => []NoRunForgotten
  BY NothingForgotten
<1>3. AckedResultRecorded /\ NoRunForgotten => ReportsTakeEffect
  BY DEF ReportsTakeEffect
<1> QED BY <1>1, <1>2, <1>3, ReportsInvariant, PTL

(***************************************************************************)
(* A completed scan rests on its results                                   *)
(***************************************************************************)
\* A run says succeeded only over a result that said so.
SuccessInv == \A e \in Engines : run[e] = "succeeded" =>
  \E n \in 1..MaxCopies : inbox[<<e, n>>] # "absent" /\ body[<<e, n>>] = "succeeded"

\* Whoever has derived a status holds it only until he is done with it.
HeldInv ==
  /\ \A h \in Handlers : pc[h] = "idle" => derived[h] = "absent"
  /\ reaper # "write" => reaped = "absent"

AllSucceeded == \A e \in Engines : run[e] \in {"absent", "succeeded"}

\* A completed status, written or still to be written, is earned.
CompletedInv ==
  /\ scanStatus = "completed" => AllSucceeded
  /\ \A h \in Handlers : derived[h] = "completed" => AllSucceeded
  /\ reaped = "completed" => AllSucceeded

\* An engine that was not asked for never gets a run.
LEMMA AbsentStays ==
  ASSUME TypeInv, PinInv, OwnInv, scanStatus # "absent", [Next]_vars,
         NEW e \in Engines, run[e] = "absent"
  PROVE  run'[e] = "absent"
<1> SUFFICES ASSUME run'[e] # run[e] PROVE FALSE
  OBVIOUS
<1>1. ASSUME NEW h \in Handlers, UpsertResult(h), cur[h][1] = e PROVE FALSE
  <2>1. cur[h] \in Msgs /\ inbox[cur[h]] # "absent"
    BY <1>1 DEF UpsertResult
  <2>2. PICK n \in 1..MaxCopies : cur[h] = <<e, n>>
    BY <1>1, <2>1, MessageShape
  <2>3. jobs[e] # {}
    BY <2>1, <2>2 DEF PinInv, ResultHasJob
  <2> QED BY <2>3 DEF OwnInv
<1>2. ASSUME NEW h \in Handlers, FailAllUpsert(h, e) \/ SkipDependent(h, e) PROVE FALSE
  BY <1>2 DEF FailAllUpsert, SkipDependent, OwnInv
<1> QED BY <1>1, <1>2, RunChanges

LEMMA SuccessStep ==
  ASSUME TypeInv, StartInv, SuccessInv, [Next]_vars
  PROVE  SuccessInv'
<1>1. CASE UNCHANGED vars
  BY <1>1 DEF vars, scanVars, busVars, SuccessInv
<1>2. CASE scanStatus = "absent" /\ Next
  <2>1. \A e \in Engines : run'[e] # "succeeded"
    BY <1>2, FirstStepCreates DEF CreateScan
  <2> QED BY <2>1 DEF SuccessInv
<1>3. CASE scanStatus # "absent"
  <2> SUFFICES ASSUME NEW e \in Engines, run'[e] = "succeeded"
               PROVE  \E n \in 1..MaxCopies :
                        inbox'[<<e, n>>] # "absent" /\ body'[<<e, n>>] = "succeeded"
    BY DEF SuccessInv
  <2>1. \E n \in 1..MaxCopies : inbox[<<e, n>>] # "absent" /\ body[<<e, n>>] = "succeeded"
    <3>1. CASE run[e] = "succeeded"
      BY <3>1 DEF SuccessInv
    <3>2. CASE run[e] # "succeeded"
      <4>1. PICK h \in Handlers : UpsertResult(h) /\ cur[h][1] = e /\ body[cur[h]] = "succeeded"
        BY <1>3, <3>2, RunChanges
      <4>2. cur[h] \in Msgs /\ inbox[cur[h]] # "absent"
        BY <4>1 DEF UpsertResult
      <4>3. cur[h] = <<e, cur[h][2]>> /\ cur[h][2] \in 1..MaxCopies
        BY <4>1, <4>2, MessageShape
      <4> QED BY <4>1, <4>2, <4>3, ZenonT(60)
    <3> QED BY <3>1, <3>2
  <2> QED BY <2>1, SourceMessage, MessagesStay, ZenonT(60)
<1> QED BY <1>1, <1>2, <1>3

LEMMA HeldStep ==
  ASSUME TypeInv, HeldInv, [Next]_vars
  PROVE  HeldInv'
<1> USE DEF scanVars, busVars, handlerVars, otherVars, HeldInv
<1>1. CASE \/ \E S \in SUBSET Engines : CreateScan(S)
           \/ PublishFetchJob \/ CancelRead \/ CancelWrite
           \/ \E e \in Engines : DeadlinePasses(e)
           \/ ReapOverdueRuns \/ ReaperRead \/ ReaperWrite \/ ReaperFails
  BY <1>1 DEF CreateScan, PublishFetchJob, CancelRead, CancelWrite, DeadlinePasses,
     ReapOverdueRuns, ReaperRead, ReaperWrite, ReaperFails
<1>2. CASE \/ \E n \in 1..MaxCopies, b \in Commits \cup {"failed", Malformed} : FetcherReports(n, b)
           \/ \E e \in Engines, n \in 1..MaxCopies, o \in Outcomes : WorkerReports(e, n, o)
  <2>1. UNCHANGED <<pc, derived, reaper, reaped>>
    BY <1>2 DEF FetcherReports, WorkerReports, Emit
  <2> QED BY <2>1
<1>3. ASSUME NEW h \in Handlers, NEW m \in Msgs, Deliver(h, m) PROVE HeldInv'
  BY <1>3 DEF Deliver
<1>4. ASSUME NEW h \in Handlers,
             \/ Ack(h) \/ Reject(h) \/ Abandon(h)
             \/ SetSourceOnce(h) \/ FanOutRead(h) \/ FanOutDone(h)
             \/ FailAllRead(h) \/ FailAllDone(h) \/ UpsertResult(h)
             \/ ReleaseRead(h) \/ ReleaseDone(h) \/ ReadStatuses(h) \/ WriteStatus(h)
      PROVE  HeldInv'
  BY <1>4 DEF Ack, Reject, Abandon, Release, SetSourceOnce, FanOutRead, FanOutDone,
     FailAllRead, FailAllDone, UpsertResult, ReleaseRead, ReleaseDone,
     ReadStatuses, WriteStatus, AfterRecompute, Goto
<1>5. ASSUME NEW h \in Handlers,
             \/ PublishScanCompleted(h) \/ NormalizeProbe(h)
             \/ PublishTrigger(h) \/ ClaimTrigger(h)
      PROVE  HeldInv'
  BY <1>5 DEF PublishScanCompleted, NormalizeProbe, PublishTrigger, ClaimTrigger,
     AfterRecompute, Goto
<1>6. ASSUME NEW h \in Handlers, NEW e \in Engines,
             \/ FanOutPublish(h, e) \/ FailAllUpsert(h, e)
             \/ ReleaseDependent(h, e) \/ SkipDependent(h, e)
      PROVE  HeldInv'
  BY <1>6 DEF FanOutPublish, FailAllUpsert, ReleaseDependent, SkipDependent, Goto
<1>7. CASE UNCHANGED vars
  BY <1>7 DEF vars
<1> QED BY <1>1, <1>2, <1>3, <1>4, <1>5, <1>6, <1>7 DEF Next, HandlerStep, ReaperStep

\* Once every engine has succeeded, that stands.
LEMMA SuccessStands ==
  ASSUME TypeInv, PinInv, OrderInv, OwnInv, FetchInv, SuccessInv, NoContradiction,
         scanStatus # "absent", [Next]_vars, AllSucceeded
  PROVE  AllSucceeded'
<1> SUFFICES ASSUME NEW e \in Engines PROVE run'[e] \in {"absent", "succeeded"}
  BY DEF AllSucceeded
<1>1. CASE run[e] = "absent"
  BY <1>1, AbsentStays
<1>2. CASE run[e] = "succeeded"
  <2>1. PICK n \in 1..MaxCopies : inbox[<<e, n>>] # "absent" /\ body[<<e, n>>] = "succeeded"
    BY <1>2 DEF SuccessInv
  <2> QED BY <1>2, <2>1, ResultStands
<1> QED BY <1>1, <1>2 DEF AllSucceeded

LEMMA DerivesCompleted ==
  DeriveScanStatus = "completed" => AllSucceeded
  BY DEF DeriveScanStatus, AllSucceeded, Requested

LEMMA CompletedStep ==
  ASSUME TypeInv, PinInv, OrderInv, StartInv, OwnInv, FetchInv, SuccessInv, HeldInv,
         NoContradiction, CompletedInv, [Next]_vars
  PROVE  CompletedInv'
<1> USE DEF scanVars, busVars, handlerVars, otherVars
<1>1. CASE UNCHANGED vars
  BY <1>1 DEF vars, CompletedInv, AllSucceeded
<1>2. CASE scanStatus = "absent" /\ Next
  <2>1. scanStatus' = "queued" /\ UNCHANGED <<derived, reaped>>
    BY <1>2, FirstStepCreates DEF CreateScan
  <2>2. reaped = "absent" /\ \A h \in Handlers : derived[h] = "absent"
    BY <1>2 DEF HeldInv, StartInv, Untouched
  <2> QED BY <2>1, <2>2 DEF CompletedInv
<1>3. ASSUME scanStatus # "absent", Next PROVE CompletedInv'
  <2>0. AllSucceeded => AllSucceeded'
    BY <1>3, SuccessStands
  <2>1. ASSUME scanStatus' = scanStatus \/ scanStatus' # "completed",
               \A h \in Handlers : derived'[h] \in {derived[h], "absent"},
               reaped' \in {reaped, "absent"}
        PROVE  CompletedInv'
    BY <2>0, <2>1 DEF CompletedInv
  <2>2. CASE \/ PublishFetchJob \/ CancelRead \/ CancelWrite
             \/ \E e \in Engines : DeadlinePasses(e)
             \/ ReapOverdueRuns \/ ReaperFails
             \/ \E S \in SUBSET Engines : CreateScan(S)
    BY <2>1, <2>2 DEF PublishFetchJob, CancelRead, CancelWrite, DeadlinePasses,
       ReapOverdueRuns, ReaperFails, CreateScan
  <2>3. CASE \/ \E n \in 1..MaxCopies, b \in Commits \cup {"failed", Malformed} :
                  FetcherReports(n, b)
             \/ \E e \in Engines, n \in 1..MaxCopies, o \in Outcomes : WorkerReports(e, n, o)
    <3>1. UNCHANGED <<scanStatus, derived, reaped>>
      BY <2>3 DEF FetcherReports, WorkerReports, Emit
    <3> QED BY <2>1, <3>1
  <2>4. ASSUME NEW h \in Handlers, NEW m \in Msgs, Deliver(h, m) PROVE CompletedInv'
    BY <2>1, <2>4 DEF Deliver
  <2>5. ASSUME NEW h \in Handlers,
               \/ Ack(h) \/ Reject(h) \/ Abandon(h)
               \/ SetSourceOnce(h) \/ FanOutRead(h) \/ FanOutDone(h)
               \/ FailAllRead(h) \/ FailAllDone(h) \/ UpsertResult(h)
               \/ ReleaseRead(h) \/ ReleaseDone(h)
        PROVE  CompletedInv'
    BY <2>1, <2>5 DEF Ack, Reject, Abandon, Release, SetSourceOnce, FanOutRead, FanOutDone,
       FailAllRead, FailAllDone, UpsertResult, ReleaseRead, ReleaseDone, Goto
  <2>6. ASSUME NEW h \in Handlers,
               \/ PublishScanCompleted(h) \/ NormalizeProbe(h)
               \/ PublishTrigger(h) \/ ClaimTrigger(h)
        PROVE  CompletedInv'
    BY <2>1, <2>6 DEF PublishScanCompleted, NormalizeProbe, PublishTrigger, ClaimTrigger, Goto
  <2>7. ASSUME NEW h \in Handlers, NEW e \in Engines,
               \/ FanOutPublish(h, e) \/ FailAllUpsert(h, e)
               \/ ReleaseDependent(h, e) \/ SkipDependent(h, e)
        PROVE  CompletedInv'
    BY <2>1, <2>7 DEF FanOutPublish, FailAllUpsert, ReleaseDependent, SkipDependent, Goto
  <2>8. ASSUME NEW h \in Handlers, ReadStatuses(h) PROVE CompletedInv'
    <3>1. UNCHANGED <<scanStatus, reaped>>
      BY <2>8 DEF ReadStatuses, Goto
    <3>2. \A g \in Handlers : derived'[g] = derived[g] \/ derived'[g] = DeriveScanStatus
      BY <2>8 DEF ReadStatuses
    <3> QED BY <2>0, <3>1, <3>2, DerivesCompleted DEF CompletedInv
  <2>9. ASSUME NEW h \in Handlers, WriteStatus(h) PROVE CompletedInv'
    BY <2>0, <2>9 DEF WriteStatus, Goto, CompletedInv
  <2>10. CASE ReaperRead
    <3>1. /\ UNCHANGED <<scanStatus, derived>>
          /\ reaped' = reaped \/ reaped' = DeriveScanStatus
      BY <2>10 DEF ReaperRead
    <3> QED BY <2>0, <3>1, DerivesCompleted DEF CompletedInv
  <2>11. CASE ReaperWrite
    BY <2>0, <2>11 DEF ReaperWrite, CompletedInv
  <2> QED
    BY <1>3, <2>2, <2>3, <2>4, <2>5, <2>6, <2>7, <2>8, <2>9, <2>10, <2>11
    DEF Next, HandlerStep, ReaperStep
<1> QED BY <1>1, <1>2, <1>3

\* As long as no source contradicts itself, a scan that says it completed does so
\* over runs that all succeeded, however late results, the reaper, a cancellation
\* and several recomputations interleave.
THEOREM CompletedMeansSucceeded == Spec /\ []NoContradiction => []CompletedIsHonest
<1>1. Init => SuccessInv /\ HeldInv /\ CompletedInv
  BY DEF Init, SuccessInv, HeldInv, CompletedInv
<1>2. Spec => [](TypeInv /\ StartInv)
  BY TriggerCorrect, PTL
<1>3. Spec => []SuccessInv
  BY <1>1, <1>2, SuccessStep, PTL DEF Spec
<1>4. Spec => []HeldInv
  BY <1>1, <1>2, HeldStep, PTL DEF Spec
<1>5. Spec /\ []NoContradiction => []CompletedInv
  BY <1>1, <1>3, <1>4, ReportsInvariant, CompletedStep, PTL DEF Spec
<1>6. CompletedInv => CompletedIsHonest
  BY DEF CompletedInv, CompletedIsHonest, AllSucceeded, Requested
<1> QED BY <1>5, <1>6, PTL

(***************************************************************************)
(* When no source contradicts itself                                       *)
(***************************************************************************)
\* Every verdict that a worker reaches is recorded in its manifest, and the
\* fetch job is not run twice.
OneVerdict == Outcomes \cap Unrecorded = {} /\ Fetcher \notin Duplicated

\* The copies of a job's result are published in order, and only the jobs that
\* may be redelivered have more than one.
CopyInv == \A m \in Msgs : inbox[m] # "absent" =>
  /\ m[2] > 1 => m[1] \in Duplicated
  /\ \A k \in 1..m[2] : inbox[<<m[1], k>>] # "absent"

LEMMA EmitCopies ==
  ASSUME TypeInv, CopyInv, NEW m \in Msgs, NEW b, Emit(m, b)
  PROVE  CopyInv'
<1>1. inbox' = [inbox EXCEPT ![m] = "ready"]
  BY DEF Emit
<1>2. \A k \in Msgs : inbox[k] # "absent" => inbox'[k] # "absent"
  BY <1>1
<1>3. ASSUME NEW k \in Msgs, inbox'[k] # "absent", NEW j \in 1..k[2]
      PROVE  (k[2] > 1 => k[1] \in Duplicated) /\ inbox'[<<k[1], j>>] # "absent"
  <2>1. k[1] \in Sources /\ k[2] \in 1..MaxCopies /\ <<k[1], j>> \in Msgs /\ k = <<k[1], k[2]>>
    BY DEF Msgs
  <2>2. CASE k # m
    BY <1>1, <1>2, <1>3, <2>1, <2>2 DEF CopyInv
  <2>3. CASE k = m
    <3>1. k[2] > 1 => k[1] \in Duplicated /\ inbox[<<k[1], k[2] - 1>>] # "absent"
      BY <2>3 DEF Emit
    <3>2. CASE j = k[2]
      BY <1>1, <2>1, <2>3, <3>1, <3>2
    <3>3. CASE j # k[2]
      <4>1. k[2] > 1 /\ j \in 1..(k[2] - 1) /\ k[2] - 1 \in 1..MaxCopies
        <5>1. \A c \in 1..MaxCopies : j \in 1..c /\ j # c =>
                c > 1 /\ j \in 1..(c - 1) /\ c - 1 \in 1..MaxCopies
          OBVIOUS
        <5> QED BY <1>3, <2>1, <3>3, <5>1
      <4> DEFINE p == <<k[1], k[2] - 1>>
      <4>2. p \in Msgs /\ p[1] = k[1] /\ p[2] = k[2] - 1 /\ inbox[p] # "absent"
        BY <2>1, <3>1, <4>1 DEF Msgs
      <4>3. inbox[<<p[1], j>>] # "absent"
        BY <4>1, <4>2 DEF CopyInv
      <4> QED BY <1>2, <2>1, <3>1, <4>1, <4>2, <4>3
    <3> QED BY <3>2, <3>3
  <2> QED BY <2>2, <2>3
<1> QED BY <1>3, MessageShape DEF CopyInv

\* A step publishes a result, or leaves what is on the stream where it was seen.
LEMMA EmitsOrKeeps ==
  ASSUME TypeInv, [Next]_vars
  PROVE  \/ \E m \in Msgs, b \in Commits \cup {"failed", Malformed} \cup Outcomes :
              /\ Emit(m, b)
              /\ m[1] # Fetcher => b \in Outcomes /\ \A k \in 1..(m[2] - 1) :
                                     body[<<m[1], k>>] \in Unrecorded \cup {b}
         \/ body' = body /\ \A m \in Msgs : inbox'[m] # "absent" <=> inbox[m] # "absent"
<1> USE DEF scanVars, busVars, handlerVars, otherVars
<1> DEFINE keeps == body' = body /\ \A m \in Msgs : inbox'[m] # "absent" <=> inbox[m] # "absent"
<1>1. CASE \/ \E S \in SUBSET Engines : CreateScan(S)
           \/ PublishFetchJob \/ CancelRead \/ CancelWrite
           \/ \E e \in Engines : DeadlinePasses(e)
           \/ ReapOverdueRuns \/ ReaperRead \/ ReaperWrite \/ ReaperFails
  BY <1>1 DEF CreateScan, PublishFetchJob, CancelRead, CancelWrite, DeadlinePasses,
     ReapOverdueRuns, ReaperRead, ReaperWrite, ReaperFails
<1>2. ASSUME NEW n \in 1..MaxCopies, NEW b \in Commits \cup {"failed", Malformed},
             FetcherReports(n, b)
      PROVE  \E m \in Msgs : Emit(m, b) /\ m[1] = Fetcher
  BY <1>2, SourceMessage DEF FetcherReports
<1>3. ASSUME NEW e \in Engines, NEW n \in 1..MaxCopies, NEW o \in Outcomes,
             WorkerReports(e, n, o)
      PROVE  \E m \in Msgs : /\ Emit(m, o)
                             /\ \A k \in 1..(m[2] - 1) : body[<<m[1], k>>] \in Unrecorded \cup {o}
  <2>1. /\ <<e, n>> \in Msgs /\ Emit(<<e, n>>, o)
        /\ \A k \in 1..(n - 1) : body[<<e, k>>] \in Unrecorded \cup {o}
    BY <1>3, SourceMessage DEF WorkerReports
  <2> QED BY <2>1
<1>4. ASSUME NEW h \in Handlers, NEW m \in Msgs, Deliver(h, m) PROVE keeps
  BY <1>4 DEF Deliver
<1>5. ASSUME NEW h \in Handlers, Ack(h) \/ Reject(h) \/ Abandon(h) PROVE keeps
  <2>1. /\ pc[h] # "idle" /\ body' = body
        /\ \E st \in {"acked", "dead", "ready"} : inbox' = [inbox EXCEPT ![cur[h]] = st]
    BY <1>5 DEF Ack, Reject, Abandon, Release
  <2> QED BY <2>1
<1>6. ASSUME NEW h \in Handlers,
             \/ SetSourceOnce(h) \/ FanOutRead(h) \/ FanOutDone(h)
             \/ FailAllRead(h) \/ FailAllDone(h) \/ UpsertResult(h)
             \/ ReleaseRead(h) \/ ReleaseDone(h) \/ ReadStatuses(h) \/ WriteStatus(h)
             \/ PublishScanCompleted(h) \/ NormalizeProbe(h)
             \/ PublishTrigger(h) \/ ClaimTrigger(h)
      PROVE  UNCHANGED <<inbox, body>>
  BY <1>6 DEF SetSourceOnce, FanOutRead, FanOutDone,
     FailAllRead, FailAllDone, UpsertResult, ReleaseRead, ReleaseDone,
     ReadStatuses, WriteStatus, PublishScanCompleted, NormalizeProbe, PublishTrigger,
     ClaimTrigger, Goto
<1>7. ASSUME NEW h \in Handlers, NEW e \in Engines,
             \/ FanOutPublish(h, e) \/ FailAllUpsert(h, e)
             \/ ReleaseDependent(h, e) \/ SkipDependent(h, e)
      PROVE  UNCHANGED <<inbox, body>>
  BY <1>7 DEF FanOutPublish, FailAllUpsert, ReleaseDependent, SkipDependent, Goto
<1>8. CASE UNCHANGED vars
  BY <1>8 DEF vars
<1> QED BY <1>1, <1>2, <1>3, <1>4, <1>5, <1>6, <1>7, <1>8, SMTT(60) DEF Next, HandlerStep, ReaperStep

LEMMA CopyStep ==
  ASSUME TypeInv, CopyInv, [Next]_vars
  PROVE  CopyInv'
<1>1. ASSUME \A m \in Msgs : inbox'[m] # "absent" <=> inbox[m] # "absent" PROVE CopyInv'
  <2>1. \A m \in Msgs : \A k \in 1..m[2] : <<m[1], k>> \in Msgs
    BY DEF Msgs
  <2> QED BY <1>1, <2>1 DEF CopyInv
<1> QED BY <1>1, EmitCopies, EmitsOrKeeps

LEMMA ContradictionStep ==
  ASSUME OneVerdict, TypeInv, CopyInv, CopyInv', NoContradiction, [Next]_vars
  PROVE  NoContradiction'
<1>1. CASE body' = body /\ \A m \in Msgs : inbox'[m] # "absent" <=> inbox[m] # "absent"
  BY <1>1 DEF NoContradiction, Msgs
<1>2. ASSUME NEW m \in Msgs, NEW b, Emit(m, b),
             m[1] # Fetcher => b \in Outcomes /\ \A k \in 1..(m[2] - 1) :
                                 body[<<m[1], k>>] \in Unrecorded \cup {b}
      PROVE  NoContradiction'
  <2>1. /\ inbox' = [inbox EXCEPT ![m] = "ready"] /\ body' = [body EXCEPT ![m] = b]
        /\ inbox[m] = "absent"
    BY <1>2 DEF Emit
  <2>2. m = <<m[1], m[2]>> /\ m[2] \in 1..MaxCopies /\ m[1] \in Sources
    BY MessageShape DEF Msgs
  <2>3. ASSUME NEW k \in 1..MaxCopies, inbox[<<m[1], k>>] # "absent"
        PROVE  body[<<m[1], k>>] = b
    <3>1. <<m[1], k>> \in Msgs
      BY <2>2 DEF Msgs
    <3>2. inbox'[<<m[1], k>>] # "absent" /\ k # m[2]
      BY <2>1, <2>2, <2>3, <3>1
    <3>3. k < m[2]
      <4>1. CASE k > m[2]
        <5> DEFINE c == <<m[1], k>>
        <5>1. c \in Msgs /\ inbox[c] # "absent" /\ c[1] = m[1] /\ m[2] \in 1..c[2]
          BY <2>2, <2>3, <3>1, <4>1
        <5>2. inbox[<<c[1], m[2]>>] # "absent"
          BY <5>1 DEF CopyInv
        <5> QED BY <2>1, <2>2, <5>1, <5>2
      <4>2. \A c, d \in 1..MaxCopies : c # d => c < d \/ c > d
        OBVIOUS
      <4> QED BY <2>2, <3>2, <4>1, <4>2
    <3>4. m[1] # Fetcher
      <4>1. m[2] > 1 /\ inbox'[m] # "absent"
        BY <2>1, <2>2, <3>3
      <4>2. m[1] \in Duplicated
        BY <4>1 DEF CopyInv
      <4> QED BY <4>2 DEF OneVerdict
    <3>5. body[<<m[1], k>>] \in Unrecorded \cup {b} /\ body[<<m[1], k>>] \in Outcomes
      BY <1>2, <2>2, <2>3, <3>1, <3>3, <3>4
    <3> QED BY <3>5 DEF OneVerdict
  <2>4. ASSUME NEW s \in Sources, NEW n \in 1..MaxCopies,
               inbox'[<<s, n>>] # "absent"
        PROVE  \/ <<s, n>> = m /\ body'[<<s, n>>] = b
               \/ inbox[<<s, n>>] # "absent" /\ body'[<<s, n>>] = body[<<s, n>>]
    <3>1. <<s, n>> \in Msgs
      BY DEF Msgs
    <3> QED BY <2>1, <2>4, <3>1
  <2>5. ASSUME NEW s \in Sources, NEW n \in 1..MaxCopies, NEW k \in 1..MaxCopies,
               inbox'[<<s, n>>] # "absent", inbox'[<<s, k>>] # "absent"
        PROVE  \/ body'[<<s, n>>] = body'[<<s, k>>]
               \/ {body'[<<s, n>>], body'[<<s, k>>]} \subseteq Commits
    <3>1. CASE <<s, n>> = m
      BY <2>2, <2>3, <2>4, <2>5, <3>1
    <3>2. CASE <<s, k>> = m
      BY <2>2, <2>3, <2>4, <2>5, <3>2
    <3>3. CASE <<s, n>> # m /\ <<s, k>> # m
      BY <2>4, <2>5, <3>3 DEF NoContradiction
    <3> QED BY <3>1, <3>2, <3>3
  <2> QED BY <2>5 DEF NoContradiction
<1> QED BY <1>1, <1>2, EmitsOrKeeps

\* Workers that record every verdict, and a fetch job that runs once, never
\* contradict themselves: a redelivered engine job re-emits its manifest.
THEOREM VerdictsAgree == ASSUME OneVerdict PROVE Spec => []NoContradiction
<1>1. Init => CopyInv /\ NoContradiction
  BY DEF Init, CopyInv, NoContradiction, Msgs
<1>2. Spec => []TypeInv
  BY TypeInit, TypeStep, PTL DEF Spec
<1>3. Spec => []CopyInv
  BY <1>1, <1>2, CopyStep, PTL DEF Spec
<1>4. TypeInv /\ CopyInv /\ CopyInv' /\ NoContradiction /\ [Next]_vars => NoContradiction'
  BY ContradictionStep
<1> QED BY <1>1, <1>2, <1>3, <1>4, PTL DEF Spec

\* With recorded verdicts and one fetch, both hold whatever is redelivered,
\* duplicated, late or interleaved.
THEOREM RecordedReportsStand ==
  ASSUME OneVerdict
  PROVE  Spec => [](ReportsTakeEffect /\ CompletedIsHonest)
<1>1. Spec => []NoContradiction
  BY VerdictsAgree
<1> QED BY <1>1, ReportsStand, CompletedMeansSucceeded, PTL
==============================================================================
