------------------------- MODULE JobDelivery_proofs -------------------------
(***************************************************************************)
(* Proofs about JobDelivery, for every number of replicas, every set of    *)
(* outputs and every bound on deliveries and faults.                       *)
(***************************************************************************)
EXTENDS JobDelivery, TLAPS

(***************************************************************************)
(* Types, and what a replica holds at each of its steps                    *)
(***************************************************************************)
Running == {"check", "store", "share", "record"}

\* A result is complete before it is shared, recorded or published.
StepOK ==
  \A w \in Workers :
    /\ pc[w] \in Running => result[w] \in Results
    /\ pc[w] = "publish" => result[w] \in Results \cup {NotRun}
    /\ pc[w] \in {"check", "store"} => output[w] \in Contents

\* A message is handed out only while deliveries are left.
DeliveryOK == msg = "ready" => delivered < MaxDeliver

TypeInv == TypeOK /\ StepOK /\ DeliveryOK

USE JobAssumption
USE DEF TypeInv, TypeOK, StepOK, DeliveryOK, Labels, Running

\* A result that was not obtained by a run is told apart from all that were.
LEMMA NotRunApart ==
  /\ NotRun \notin Results
  /\ NotRun.artifact = None /\ NotRun.status = "unavailable"
  BY DEF NotRun, Results, EngineOutcome

\* What RunEngine, CheckArtifact and StoreArtifact make of a result is one.
LEMMA ResultType ==
  /\ \A s \in EngineOutcome, c \in Contents \cup {None} :
       [status |-> s, artifact |-> c] \in Results
  /\ \A r \in Results, c \in Contents \cup {None} : [r EXCEPT !.artifact = c] \in Results
  /\ \A r \in Results : r.artifact \in Contents \cup {None}
  /\ \A r \in Results, c \in Contents \cup {None} : [r EXCEPT !.artifact = c].artifact = c
  BY DEF Results

LEMMA TypeInit == Init => TypeInv
<1> SUFFICES ASSUME Init PROVE TypeInv
  OBVIOUS
<1>1. window \in BOOLEAN /\ dlq \in BOOLEAN /\ overlapped \in BOOLEAN
  BY Zenon DEF Init
<1> QED BY <1>1 DEF Init

\* Every step keeps the types.
LEMMA TypeStep ==
  ASSUME TypeInv, [Next]_vars
  PROVE  TypeInv'
<1> USE DEF fileVars, busVars, Goto, Undelivered
<1>1. ASSUME NEW w \in Workers, Receive(w) PROVE TypeInv'
  BY <1>1 DEF Receive
<1>2. ASSUME NEW w \in Workers, ReadManifest(w) PROVE TypeInv'
  BY <1>2 DEF ReadManifest
<1>3. ASSUME NEW w \in Workers, Prepare(w) PROVE TypeInv'
  BY <1>3 DEF Prepare
<1>4. ASSUME NEW w \in Workers, NEW s \in EngineOutcome, NEW c \in Contents \cup {None},
             RunEngine(w, s, c)
      PROVE  TypeInv'
  BY <1>4, ResultType DEF RunEngine
<1>5. ASSUME NEW w \in Workers, CheckArtifact(w) PROVE TypeInv'
  BY <1>5, ResultType DEF CheckArtifact
<1>6. ASSUME NEW w \in Workers, StoreArtifact(w) PROVE TypeInv'
  BY <1>6, ResultType DEF StoreArtifact, Fault
<1>7. ASSUME NEW w \in Workers, ShareArtifact(w) PROVE TypeInv'
  BY <1>7 DEF ShareArtifact, Fault
<1>8. ASSUME NEW w \in Workers, WriteManifest(w) PROVE TypeInv'
  BY <1>8 DEF WriteManifest, Fault
<1>9. ASSUME NEW w \in Workers, PublishResult(w) PROVE TypeInv'
  <2>1. window' \in BOOLEAN
    BY <1>9, Zenon DEF PublishResult
  <2> QED BY <1>9, <2>1 DEF PublishResult, Fault
<1>10. ASSUME NEW w \in Workers, Ack(w) PROVE TypeInv'
  BY <1>10 DEF Ack, Finish
<1>11. ASSUME NEW w \in Workers, Nak(w) PROVE TypeInv'
  BY <1>11 DEF Nak, Finish
<1>12. ASSUME NEW w \in Workers, Poison(w) PROVE TypeInv'
  <2>1. dlq' \in BOOLEAN
    BY <1>12, Zenon DEF Poison
  <2> QED BY <1>12, <2>1 DEF Poison, Finish, Fault
<1>13. ASSUME NEW w \in Workers, Crash(w) PROVE TypeInv'
  BY <1>13 DEF Crash, Fault
<1>14. CASE AckWaitExpires
  BY <1>14 DEF AckWaitExpires
<1>15. CASE WindowCloses
  BY <1>15, ZenonT(60) DEF WindowCloses
<1>16. CASE UNCHANGED vars
  BY <1>16 DEF vars
<1> QED
  BY <1>1, <1>2, <1>3, <1>4, <1>5, <1>6, <1>7, <1>8, <1>9, <1>10, <1>11, <1>12, <1>13,
     <1>14, <1>15, <1>16 DEF Next, WorkerStep

\* The files, the message and the replicas keep their types.
THEOREM TypeCorrect == Spec => []TypeOK
<1>1. TypeInv /\ [Next]_vars => TypeInv'
  BY TypeStep
<1>2. TypeInv => TypeOK
  OBVIOUS
<1> QED BY TypeInit, <1>1, <1>2, PTL DEF Spec

(***************************************************************************)
(* Publish before ack                                                      *)
(***************************************************************************)
\* Whoever acks has published, or was told by JetStream that it had.
PublishInv ==
  /\ AckedIsPublished
  /\ window => published # {}
  /\ \A w \in Workers : pc[w] = "ack" => published # {}

LEMMA PublishInit == Init => PublishInv
  BY DEF Init, PublishInv, AckedIsPublished

\* Nothing is ever taken back from the stream, and only a publish leads to an ack.
LEMMA PublishStep ==
  ASSUME TypeInv, PublishInv, [Next]_vars
  PROVE  PublishInv'
<1> USE DEF fileVars, busVars, Goto, PublishInv, AckedIsPublished
<1>1. ASSUME NEW w \in Workers, PublishResult(w) PROVE PublishInv'
  BY <1>1 DEF PublishResult
<1>2. ASSUME NEW w \in Workers, Ack(w) PROVE PublishInv'
  BY <1>2 DEF Ack, Finish
<1>3. ASSUME NEW w \in Workers, Receive(w) \/ Nak(w) \/ Poison(w) PROVE PublishInv'
  BY <1>3 DEF Receive, Nak, Poison, Finish, Undelivered
<1>4. ASSUME NEW w \in Workers,
             \/ ReadManifest(w) \/ Prepare(w) \/ CheckArtifact(w)
             \/ StoreArtifact(w) \/ ShareArtifact(w) \/ WriteManifest(w) \/ Crash(w)
      PROVE  PublishInv'
  BY <1>4 DEF ReadManifest, Prepare, CheckArtifact, StoreArtifact, ShareArtifact,
     WriteManifest, Crash
<1>5. ASSUME NEW w \in Workers, NEW s \in EngineOutcome, NEW c \in Contents \cup {None},
             RunEngine(w, s, c)
      PROVE  PublishInv'
  BY <1>5 DEF RunEngine
<1>6. CASE AckWaitExpires \/ WindowCloses
  BY <1>6 DEF AckWaitExpires, WindowCloses, Undelivered
<1>7. CASE UNCHANGED vars
  BY <1>7 DEF vars
<1> QED
  BY <1>1, <1>2, <1>3, <1>4, <1>5, <1>6, <1>7 DEF Next, WorkerStep

\* WorkerBus never acks a job of which the orchestrator was told nothing: not
\* after a crash, an expired ack wait or a publish the duplicate window dropped.
THEOREM PublishedFirst == Spec => []AckedIsPublished
<1>1. TypeInv /\ PublishInv /\ [Next]_vars => TypeInv' /\ PublishInv'
  BY TypeStep, PublishStep
<1>2. PublishInv => AckedIsPublished
  BY DEF PublishInv
<1> QED BY TypeInit, PublishInit, <1>1, <1>2, PTL DEF Spec

(***************************************************************************)
(* One replica at a time, as long as no ack wait runs out on one           *)
(***************************************************************************)
SoloInv ==
  ~overlapped => \A w \in Workers : pc[w] # "idle" =>
    /\ msg = "out"
    /\ \A v \in Workers : pc[v] # "idle" => v = w

LEMMA SoloInit == Init => SoloInv
  BY DEF Init, SoloInv

\* A replica starts only on a message nobody holds, and keeps it till it is done.
LEMMA SoloStep ==
  ASSUME TypeInv, SoloInv, [Next]_vars
  PROVE  SoloInv'
<1> USE DEF fileVars, busVars, Goto, SoloInv
<1>1. ASSUME NEW w \in Workers, Receive(w) PROVE SoloInv'
  BY <1>1 DEF Receive
<1>2. ASSUME NEW w \in Workers, Ack(w) \/ Nak(w) \/ Poison(w) PROVE SoloInv'
  BY <1>2 DEF Ack, Nak, Poison, Finish
<1>3. ASSUME NEW w \in Workers, Crash(w) PROVE SoloInv'
  BY <1>3 DEF Crash
<1>4. ASSUME NEW w \in Workers,
             \/ ReadManifest(w) \/ Prepare(w) \/ CheckArtifact(w) \/ StoreArtifact(w)
             \/ ShareArtifact(w) \/ WriteManifest(w) \/ PublishResult(w)
      PROVE  SoloInv'
  BY <1>4 DEF ReadManifest, Prepare, CheckArtifact, StoreArtifact, ShareArtifact,
     WriteManifest, PublishResult
<1>5. ASSUME NEW w \in Workers, NEW s \in EngineOutcome, NEW c \in Contents \cup {None},
             RunEngine(w, s, c)
      PROVE  SoloInv'
  BY <1>5 DEF RunEngine
<1>6. CASE AckWaitExpires
  BY <1>6 DEF AckWaitExpires
<1>7. CASE WindowCloses \/ UNCHANGED vars
  BY <1>7 DEF WindowCloses, vars
<1> QED
  BY <1>1, <1>2, <1>3, <1>4, <1>5, <1>6, <1>7 DEF Next, WorkerStep

(***************************************************************************)
(* The manifest is the result                                              *)
(***************************************************************************)
\* A replica works only while there is no manifest, so that nothing but
\* outcomes without a run can have been published by then.
RecordInv ==
  ~overlapped =>
    /\ \A r \in published : r # NotRun => r = manifest
    /\ \A w \in Workers :
         /\ pc[w] \in Running \cup {"prepare", "run"} => manifest \notin Results
         /\ pc[w] = "publish" => result[w] \in {NotRun, manifest}

LEMMA RecordInit == Init => RecordInv
  BY DEF Init, RecordInv

LEMMA RecordStep ==
  ASSUME TypeInv, SoloInv, RecordInv, [Next]_vars
  PROVE  RecordInv'
<1> USE DEF fileVars, busVars, Goto, SoloInv, RecordInv
<1>1. ASSUME NEW w \in Workers, ReadManifest(w) PROVE RecordInv'
  BY <1>1 DEF ReadManifest
<1>2. ASSUME NEW w \in Workers, WriteManifest(w) PROVE RecordInv'
  BY <1>2 DEF WriteManifest
<1>3. ASSUME NEW w \in Workers, PublishResult(w) PROVE RecordInv'
  BY <1>3 DEF PublishResult
<1>4. ASSUME NEW w \in Workers, Crash(w) PROVE RecordInv'
  BY <1>4 DEF Crash
<1>5. ASSUME NEW w \in Workers,
             \/ Receive(w) \/ Prepare(w) \/ CheckArtifact(w) \/ StoreArtifact(w)
             \/ ShareArtifact(w) \/ Ack(w) \/ Nak(w) \/ Poison(w)
      PROVE  RecordInv'
  BY <1>5 DEF Receive, Prepare, CheckArtifact, StoreArtifact, ShareArtifact,
     Ack, Nak, Poison, Finish
<1>6. ASSUME NEW w \in Workers, NEW s \in EngineOutcome, NEW c \in Contents \cup {None},
             RunEngine(w, s, c)
      PROVE  RecordInv'
  BY <1>6 DEF RunEngine
<1>7. CASE AckWaitExpires \/ WindowCloses \/ UNCHANGED vars
  BY <1>7 DEF AckWaitExpires, WindowCloses, vars
<1> QED
  BY <1>1, <1>2, <1>3, <1>4, <1>5, <1>6, <1>7 DEF Next, WorkerStep

\* A redelivered job says again what it said, whichever replica gets it and
\* wherever the one before it died.
THEOREM ReplaysRepeat == Spec => []ReplaysAgree
<1>1. TypeInv /\ SoloInv /\ RecordInv /\ [Next]_vars => TypeInv' /\ SoloInv' /\ RecordInv'
  BY TypeStep, SoloStep, RecordStep
<1>2. RecordInv => ReplaysAgree
  BY DEF RecordInv, ReplaysAgree
<1> QED BY TypeInit, SoloInit, RecordInit, <1>1, <1>2, PTL DEF Spec

(***************************************************************************)
(* One document                                                            *)
(***************************************************************************)
\* What a result names is what is stored; a replica stores only where nothing is.
DocumentInv ==
  ~overlapped =>
    /\ shared # None => shared = evidence
    /\ manifest \in Results => manifest.artifact \in {None, evidence}
    /\ \A w \in Workers :
         /\ pc[w] \in {"check", "store"} => result[w].artifact = None
         /\ pc[w] = "store" => evidence = None
         /\ pc[w] \in {"share", "record"} => result[w].artifact \in {None, evidence}

LEMMA DocumentInit == Init => DocumentInv
  BY DEF Init, DocumentInv, Results

LEMMA DocumentStep ==
  ASSUME TypeInv, SoloInv, RecordInv, DocumentInv, [Next]_vars
  PROVE  DocumentInv'
<1> USE DEF fileVars, busVars, Goto, SoloInv, RecordInv, DocumentInv
<1>1. ASSUME NEW w \in Workers, NEW s \in EngineOutcome, NEW c \in Contents \cup {None},
             RunEngine(w, s, c)
      PROVE  DocumentInv'
  BY <1>1 DEF RunEngine
<1>2. ASSUME NEW w \in Workers, CheckArtifact(w) PROVE DocumentInv'
  <2>1. result[w] \in Results /\ output[w] \in Contents
    BY <1>2 DEF CheckArtifact
  <2>2. CASE evidence = None
    BY <1>2, <2>2 DEF CheckArtifact
  <2>3. CASE evidence # None
    <3> DEFINE a == IF evidence = output[w] THEN output[w] ELSE None
    <3>1. a \in Contents \cup {None} /\ a \in {None, evidence}
      BY <2>1
    <3>2. result'[w] = [result[w] EXCEPT !.artifact = a]
      BY <1>2, <2>3 DEF CheckArtifact
    <3>3. result'[w].artifact = a
      BY <2>1, <3>1, <3>2, ResultType
    <3> HIDE DEF a
    <3> QED BY <1>2, <2>3, <3>1, <3>3 DEF CheckArtifact
  <2> QED BY <2>2, <2>3
<1>3. ASSUME NEW w \in Workers, StoreArtifact(w) PROVE DocumentInv'
  <2>1. result[w] \in Results /\ output[w] \in Contents
    BY <1>3 DEF StoreArtifact
  <2>2. CASE evidence' = output[w] /\ result' = [result EXCEPT ![w].artifact = output[w]]
    <3>1. result'[w].artifact = output[w]
      BY <2>1, <2>2, ResultType
    <3> QED BY <1>3, <2>2, <3>1 DEF StoreArtifact
  <2>3. CASE UNCHANGED result
    BY <1>3, <2>3 DEF StoreArtifact
  <2> QED BY <1>3, <2>2, <2>3 DEF StoreArtifact
<1>4. ASSUME NEW w \in Workers, ShareArtifact(w) PROVE DocumentInv'
  BY <1>4 DEF ShareArtifact
<1>5. ASSUME NEW w \in Workers, WriteManifest(w) PROVE DocumentInv'
  BY <1>5 DEF WriteManifest
<1>6. ASSUME NEW w \in Workers, Crash(w) PROVE DocumentInv'
  BY <1>6 DEF Crash
<1>7. ASSUME NEW w \in Workers,
             \/ Receive(w) \/ ReadManifest(w) \/ Prepare(w) \/ PublishResult(w)
             \/ Ack(w) \/ Nak(w) \/ Poison(w)
      PROVE  DocumentInv'
  BY <1>7 DEF Receive, ReadManifest, Prepare, PublishResult, Ack, Nak, Poison, Finish
<1>8. CASE AckWaitExpires \/ WindowCloses \/ UNCHANGED vars
  BY <1>8 DEF AckWaitExpires, WindowCloses, vars
<1> QED
  BY <1>1, <1>2, <1>3, <1>4, <1>5, <1>6, <1>7, <1>8 DEF Next, WorkerStep

FileInv == TypeInv /\ SoloInv /\ RecordInv /\ DocumentInv

LEMMA FilesCorrect == Spec => []FileInv
<1>1. Init => FileInv
  BY TypeInit, SoloInit, RecordInit, DocumentInit DEF FileInv
<1>2. FileInv /\ [Next]_vars => FileInv'
  BY TypeStep, SoloStep, RecordStep, DocumentStep DEF FileInv
<1> QED BY <1>1, <1>2, PTL DEF Spec

\* grype reads the document that is stored as evidence and that the result of
\* syft names.
THEOREM SharedIsStored == Spec => []OneDocument
<1>1. FileInv => OneDocument
  <2> SUFFICES ASSUME FileInv, ~overlapped PROVE OneDocument
    BY DEF OneDocument
  <2>1. \A r \in published : r.artifact # None => r.artifact = evidence
    BY NotRunApart DEF FileInv, RecordInv, DocumentInv
  <2> QED BY <2>1 DEF FileInv, DocumentInv, OneDocument
<1> QED BY FilesCorrect, <1>1, PTL

\* No redelivery rewrites raw output that is there.
THEOREM EvidenceStays == Spec => EvidenceIsImmutable
<1>1. FileInv /\ [Next]_vars => [~overlapped /\ evidence # None => evidence' = evidence]_vars
  <2> SUFFICES ASSUME FileInv, Next, ~overlapped, evidence # None PROVE evidence' = evidence
    OBVIOUS
  <2> USE DEF fileVars, busVars, FileInv, DocumentInv
  <2>1. ASSUME NEW w \in Workers, StoreArtifact(w) \/ Crash(w) PROVE evidence' = evidence
    BY <2>1 DEF StoreArtifact, Crash
  <2>2. ASSUME NEW w \in Workers, NEW s \in EngineOutcome, NEW c \in Contents \cup {None},
               RunEngine(w, s, c)
        PROVE  evidence' = evidence
    BY <2>2 DEF RunEngine
  <2>3. ASSUME NEW w \in Workers,
               \/ Receive(w) \/ ReadManifest(w) \/ Prepare(w) \/ CheckArtifact(w)
               \/ ShareArtifact(w) \/ WriteManifest(w) \/ PublishResult(w)
               \/ Ack(w) \/ Nak(w) \/ Poison(w)
        PROVE  evidence' = evidence
    BY <2>3 DEF Receive, ReadManifest, Prepare, CheckArtifact, ShareArtifact, WriteManifest,
       PublishResult, Ack, Nak, Poison, Finish
  <2>4. CASE AckWaitExpires \/ WindowCloses
    BY <2>4 DEF AckWaitExpires, WindowCloses
  <2> QED BY <2>1, <2>2, <2>3, <2>4 DEF Next, WorkerStep
<1> QED BY FilesCorrect, <1>1, PTL DEF Spec, EvidenceIsImmutable
=============================================================================
