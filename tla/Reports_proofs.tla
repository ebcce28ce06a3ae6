--------------------------- MODULE Reports_proofs ---------------------------
(***************************************************************************)
(* Proofs about the way from the artifacts of a scan to a report: what     *)
(* ReportRender and ShareLinks state of the row, the artifact and the      *)
(* downloads, for any number of workers, links, visitors, faults and       *)
(* deliveries; and what AliasClosure and NormalizeConsumer state of the    *)
(* clusters that a report cites, for any scans, ids, edges and replicas.   *)
(***************************************************************************)
EXTENDS ShareLinks, NormalizeConsumer, FiniteSetTheorems, WellFoundedInduction, TLAPS

(***************************************************************************)
(* The inductive invariant                                                 *)
(***************************************************************************)
\* Stages from a successful claim to the end of Render.
Owning == {"load", "render", "put", "finish", "announce", "fail"}

\* A row is claimed once: no two workers are ever rendering it.
OneOwner == \A v, w \in Workers : stage[v] \in Owning /\ stage[w] \in Owning => v = w

\* Before the claim nobody is, and before the row exists nothing was sent.
NothingEarly ==
  /\ status \in {"none", "queued"} => \A w \in Workers : stage[w] \notin Owning
  /\ request = "idle" => status = "none"
  /\ request \in {"idle", "publish"} => job = "unsent"
  /\ job = "unsent" => delivered = 0 /\ \A w \in Workers : stage[w] = "idle"
  /\ job = "ready" => delivered < MaxDeliver

\* What the owner has done so far is what the row will name.
OwnerIsHonest ==
  \A w \in Workers :
    /\ stage[w] \in {"load", "render", "put", "finish"} => status \in {"rendering", "failed"}
    /\ stage[w] = "announce" => status = "ready"
    /\ stage[w] \in {"render", "put", "finish"} =>
         bom[w] # NoVersion /\ (pinned # NoVersion => bom[w] = pinned)
    /\ stage[w] = "finish" => blob = bom[w]

RenderInv == RenderTypeOK /\ OneOwner /\ NothingEarly /\ OwnerIsHonest /\ ReadyReportStands

Opening(l) == Cardinality({v \in Visitors : visit[v].at = "open" /\ visit[v].link = l})

\* A link stands for a ready report, a visit for a link that exists, and a link
\* that does not exist yet was never used.
LinksAreOfReady ==
  /\ \A l \in Links : link[l] # "none" => status = "ready"
  /\ \A l \in Links : ~Exists(l) => count[l] = 0
  /\ \A v \in Visitors : visit[v].at # "idle" => Exists(visit[v].link)
  /\ \A v \in Visitors : visit[v].at = "open" => visit[v].outcome = "granted"

\* What was streamed, or is about to be, has been audited or could not be.
ServedAfterAudit ==
  \A l \in Links : served[l] + Opening(l) <= log[l]["granted"] + unaudited[l]["granted"]

ShareInv ==
  /\ RenderInv /\ ShareTypeOK /\ CapHolds /\ DownloadsAccounted
  /\ LinksAreOfReady /\ ServedAfterAudit

-----------------------------------------------------------------------------
(***************************************************************************)
(* Rendering: every step of RenderNext keeps RenderInv                     *)
(***************************************************************************)
USE RenderAssumption DEF RenderInv, RenderTypeOK, OneOwner, NothingEarly, OwnerIsHonest,
    ReadyReportStands, ReadyIsStored, AnnouncedIsReady, Owning, Stages, NoVersion, Versions,
    renderVars, rowVars, busVars, workVars

\* Nothing of a report exists at the start.
LEMMA RenderInvInit == ASSUME RenderInit PROVE RenderInv
  <1>1. /\ status = "none" /\ request = "idle" /\ job = "unsent" /\ delivered = 0
        /\ pinned = 0 /\ sha = 0 /\ signature = 0 /\ latest = 0 /\ blob = 0 /\ faults = 0
        /\ \A w \in Workers : stage[w] = "idle"
        /\ stage \in [Workers -> Stages] /\ bom \in [Workers -> 0..MaxVersion]
        /\ cause \in [Workers -> {"none", "dependency", "other"}]
    BY DEF RenderInit
  <1>2. announced = FALSE /\ stranded = FALSE
    BY DEF RenderInit
  <1>3. announced \in BOOLEAN /\ stranded \in BOOLEAN
    BY <1>2
  <1>4. RenderTypeOK
    BY <1>1, <1>3
  <1>5. OneOwner /\ NothingEarly /\ OwnerIsHonest /\ ReadyIsStored /\ AnnouncedIsReady
    BY <1>1, <1>2
  <1> QED BY <1>4, <1>5

\* A new document version is nothing the row names.
LEMMA RenormalizeKeeps == ASSUME RenderInv, Renormalize PROVE RenderInv'
  BY DEF Renormalize

\* A job is published once, by the request that created the row.
LEMMA PublishRenderKeeps == ASSUME RenderInv, PublishRender PROVE RenderInv'
  BY DEF PublishRender, Fault

\* A dead handler changes no row.
LEMMA CrashAPIKeeps == ASSUME RenderInv, CrashAPI PROVE RenderInv'
  BY DEF CrashAPI, Fault

\* A redelivery starts nobody who is at work already.
LEMMA AckWaitPassesKeeps == ASSUME RenderInv, AckWaitPasses PROVE RenderInv'
  BY DEF AckWaitPasses, Redelivered

\* A row is created once, before anything else.
LEMMA CreateKeeps ==
  ASSUME NEW v \in {NoVersion} \cup Versions, RenderInv, Create(v) PROVE RenderInv'
  BY DEF Create

\* A delivery is taken up, not yet the row.
LEMMA ReceiveKeeps == ASSUME NEW w \in Workers, RenderInv, Receive(w) PROVE RenderInv'
  BY DEF Receive, Goto

\* The document that is loaded is the one the row names, if it names one.
LEMMA LoadKeeps == ASSUME NEW w \in Workers, RenderInv, Load(w) PROVE RenderInv'
  BY DEF Load, Document, Fault, Goto, Fails

\* Rendering changes nothing that is stored.
LEMMA RenderArtifactKeeps == ASSUME NEW w \in Workers, RenderInv, RenderArtifact(w) PROVE RenderInv'
  BY DEF RenderArtifact, Goto, Fails

\* The only writer of the artifact is the owner of the row.
LEMMA PutKeeps == ASSUME NEW w \in Workers, RenderInv, Put(w) PROVE RenderInv'
  BY DEF Put, Fault, Goto, Fails

\* What is marked ready is what the owner stored.
LEMMA FinishKeeps == ASSUME NEW w \in Workers, RenderInv, Finish(w) PROVE RenderInv'
  BY DEF Finish, Fault, Goto, Fails

\* Settling the message leaves the row alone.
LEMMA AckKeeps == ASSUME NEW w \in Workers, RenderInv, Ack(w) PROVE RenderInv'
  BY DEF Ack, Goto

\* Handing the message back leaves the row alone.
LEMMA NakKeeps == ASSUME NEW w \in Workers, RenderInv, Nak(w) PROVE RenderInv'
  BY DEF Nak, Goto

\* A dead worker owns nothing.
LEMMA CrashWorkerKeeps == ASSUME NEW w \in Workers, RenderInv, CrashWorker(w) PROVE RenderInv'
  BY DEF CrashWorker, Fault, Goto

\* The API marks failed only what nobody finished.
LEMMA GiveUpQueueingKeeps == ASSUME RenderInv, GiveUpQueueing PROVE RenderInv'
  <1>1. RenderTypeOK'
    <2>1. announced' \in BOOLEAN /\ stranded' \in BOOLEAN
      BY DEF GiveUpQueueing
    <2>2. /\ status' \in {"none", "queued", "rendering", "ready", "failed"}
          /\ stage' \in [Workers -> Stages] /\ faults' \in 0..MaxFaults
          /\ cause' \in [Workers -> {"none", "dependency", "other"}]
          /\ request' \in {"idle", "publish", "unpublished", "answered", "dead"}
      BY DEF GiveUpQueueing, Unfinished, MarkFailed, Fault
    <2> QED BY <2>1, <2>2 DEF GiveUpQueueing
  <1>2. OneOwner' /\ NothingEarly' /\ OwnerIsHonest' /\ ReadyReportStands'
    BY DEF GiveUpQueueing, Unfinished, MarkFailed, Fault
  <1> QED BY <1>1, <1>2

\* A claim makes the only owner: it was queued, so nobody owned it.
LEMMA ClaimKeeps == ASSUME NEW w \in Workers, RenderInv, Claim(w) PROVE RenderInv'
  <1>1. RenderTypeOK'
    <2>1. announced' \in BOOLEAN /\ stranded' \in BOOLEAN
      BY DEF Claim
    <2>2. /\ status' \in {"none", "queued", "rendering", "ready", "failed"}
          /\ stage' \in [Workers -> Stages] /\ faults' \in 0..MaxFaults
          /\ cause' \in [Workers -> {"none", "dependency", "other"}]
      BY DEF Claim, Fault, Goto
    <2> QED BY <2>1, <2>2 DEF Claim
  <1>2. OneOwner' /\ NothingEarly' /\ OwnerIsHonest' /\ ReadyReportStands'
    BY DEF Claim, Fault, Goto
  <1> QED BY <1>1, <1>2

\* Announced is what the announcer itself made ready.
LEMMA PublishReportReadyKeeps == ASSUME NEW w \in Workers, RenderInv, PublishReportReady(w) PROVE RenderInv'
  <1>1. RenderTypeOK'
    <2>1. announced' \in BOOLEAN /\ stranded' \in BOOLEAN
      BY DEF PublishReportReady
    <2>2. /\ status' \in {"none", "queued", "rendering", "ready", "failed"}
          /\ stage' \in [Workers -> Stages] /\ faults' \in 0..MaxFaults
          /\ cause' \in [Workers -> {"none", "dependency", "other"}]
      BY DEF PublishReportReady, Fault, Goto
    <2> QED BY <2>1, <2>2 DEF PublishReportReady
  <1>2. OneOwner' /\ NothingEarly' /\ OwnerIsHonest' /\ ReadyReportStands'
    BY DEF PublishReportReady, Fault, Goto
  <1> QED BY <1>1, <1>2

\* A failure does not undo what is finished.
LEMMA FailKeeps == ASSUME NEW w \in Workers, RenderInv, Fail(w) PROVE RenderInv'
  <1>1. RenderTypeOK'
    <2>1. announced' \in BOOLEAN /\ stranded' \in BOOLEAN
      BY DEF Fail
    <2>2. /\ status' \in {"none", "queued", "rendering", "ready", "failed"}
          /\ stage' \in [Workers -> Stages] /\ faults' \in 0..MaxFaults
          /\ cause' \in [Workers -> {"none", "dependency", "other"}]
      BY DEF Fail, Unfinished, MarkFailed, Fault, Goto
    <2> QED BY <2>1, <2>2 DEF Fail
  <1>2. OneOwner' /\ NothingEarly' /\ OwnerIsHonest' /\ ReadyReportStands'
    BY DEF Fail, Unfinished, MarkFailed, Fault, Goto
  <1> QED BY <1>1, <1>2

\* All steps of the API, the workers and the bus.
LEMMA RenderNextKeeps == ASSUME RenderInv, RenderNext PROVE RenderInv'
  <1> HIDE DEF RenderInv
  <1>1. CASE \E v \in {NoVersion} \cup Versions : Create(v)
    BY <1>1, CreateKeeps
  <1>2. CASE Renormalize \/ ApiStep \/ CrashAPI \/ AckWaitPasses
    BY <1>2, RenormalizeKeeps, PublishRenderKeeps, GiveUpQueueingKeeps, CrashAPIKeeps,
       AckWaitPassesKeeps DEF ApiStep
  <1>3. ASSUME NEW w \in Workers, WorkerStep(w) \/ CrashWorker(w) PROVE RenderInv'
    BY <1>3, ReceiveKeeps, LoadKeeps, RenderArtifactKeeps, PutKeeps, FinishKeeps, AckKeeps, NakKeeps, CrashWorkerKeeps, ClaimKeeps, PublishReportReadyKeeps, FailKeeps DEF WorkerStep
  <1> QED BY <1>1, <1>2, <1>3 DEF RenderNext

\* A fault that only the share handlers see.
LEMMA FaultKeeps ==
  ASSUME RenderInv, Fault,
         UNCHANGED <<rowVars, request, busVars, latest, blob, workVars, announced, stranded>>
  PROVE  RenderInv'
  BY DEF Fault

\* No step of the renderer changes the row of a report that is finished.
LEMMA FinishedKept ==
  ASSUME RenderInv, RenderNext, status \in {"ready", "failed"} PROVE UNCHANGED rowVars
  <1>1. CASE \E v \in {NoVersion} \cup Versions : Create(v)
    BY <1>1 DEF Create
  <1>2. CASE Renormalize \/ ApiStep \/ CrashAPI \/ AckWaitPasses
    BY <1>2 DEF Renormalize, ApiStep, PublishRender, GiveUpQueueing, CrashAPI, AckWaitPasses,
                MarkFailed, Unfinished
  <1>3. ASSUME NEW w \in Workers, WorkerStep(w) \/ CrashWorker(w) PROVE UNCHANGED rowVars
    BY <1>3 DEF WorkerStep, Receive, Claim, Load, RenderArtifact, Put, Finish,
                PublishReportReady, Fail, Ack, Nak, CrashWorker, MarkFailed, Unfinished
  <1> QED BY <1>1, <1>2, <1>3 DEF RenderNext

HIDE DEF RenderInv, RenderTypeOK, OneOwner, NothingEarly, OwnerIsHonest, ReadyReportStands,
    ReadyIsStored, AnnouncedIsReady, Owning, Stages, NoVersion, Versions

-----------------------------------------------------------------------------
(***************************************************************************)
(* Sharing: every step of ShareNext keeps ShareInv                         *)
(***************************************************************************)
USE ShareAssumption DEF ShareInv, ShareTypeOK, CapHolds, DownloadsAccounted, LinksAreOfReady,
    ServedAfterAudit, Exists, linkVars, shareVars, reportVars

AuditSet(l, o) == {v \in Visitors : visit[v].at = "audit" /\ visit[v].link = l
                                                         /\ visit[v].outcome = o}
OpenSet(l) == {v \in Visitors : visit[v].at = "open" /\ visit[v].link = l}

\* The visits in progress are finitely many, so they can be counted.
LEMMA VisitsAreCounted ==
  /\ \A l \in Links, o \in Outcomes :
       IsFiniteSet(AuditSet(l, o)) /\ Under(l, o) = Cardinality(AuditSet(l, o)) /\ Under(l, o) \in Nat
  /\ \A l \in Links :
       IsFiniteSet(OpenSet(l)) /\ Opening(l) = Cardinality(OpenSet(l)) /\ Opening(l) \in Nat
  <1>1. \A l, o : AuditSet(l, o) \subseteq Visitors /\ OpenSet(l) \subseteq Visitors
    BY DEF AuditSet, OpenSet
  <1>2. \A l, o : IsFiniteSet(AuditSet(l, o)) /\ IsFiniteSet(OpenSet(l))
    BY <1>1, FS_Subset
  <1>3. \A l, o : Under(l, o) = Cardinality(AuditSet(l, o)) /\ Opening(l) = Cardinality(OpenSet(l))
    BY DEF Under, Opening, AuditSet, OpenSet
  <1> QED BY <1>2, <1>3, FS_CardinalityType

\* The next state's sets are as finite as this one's.
LEMMA VisitsAreCountedNext ==
  /\ \A l \in Links, o \in Outcomes : Under(l, o)' = Cardinality(AuditSet(l, o)')
  /\ \A l \in Links : Opening(l)' = Cardinality(OpenSet(l)')
  BY DEF Under, Opening, AuditSet, OpenSet

\* A set that gains or loses one element.
LEMMA OneMore ==
  ASSUME NEW S, IsFiniteSet(S), NEW T, NEW x, x \notin S, T = S \cup {x}
  PROVE  Cardinality(T) = Cardinality(S) + 1
  BY FS_AddElement
LEMMA OneLess ==
  ASSUME NEW S, IsFiniteSet(S), NEW T, NEW x, x \in S, T = S \ {x}
  PROVE  Cardinality(T) = Cardinality(S) - 1
  BY FS_RemoveElement

\* Counting keeps a tally a tally.
LEMMA CountedTally ==
  ASSUME NEW tally \in [Links -> [Outcomes -> Nat]], NEW l \in Links, NEW o \in Outcomes
  PROVE  Counted(tally, l, o) \in [Links -> [Outcomes -> Nat]]
  <1>1. [tally[l] EXCEPT ![o] = @ + 1] \in [Outcomes -> Nat]
    OBVIOUS
  <1>2. Counted(tally, l, o) = [tally EXCEPT ![l] = [tally[l] EXCEPT ![o] = @ + 1]]
    BY DEF Counted
  <1> QED BY <1>1, <1>2

\* Nobody has a link at the start.
LEMMA ShareInvInit == ASSUME ShareInit PROVE ShareInv
  <1>1. RenderInv
    BY RenderInvInit DEF ShareInit
  <1>2. ShareTypeOK
    BY <1>1 DEF ShareInit, RenderInv, NoVisit, Visits, Outcomes
  <1>3. \A l \in Links, o \in Outcomes : AuditSet(l, o) = {} /\ OpenSet(l) = {}
    BY DEF ShareInit, NoVisit, AuditSet, OpenSet
  <1>4. \A l \in Links, o \in Outcomes : Under(l, o) = 0 /\ Opening(l) = 0
    BY <1>3, VisitsAreCounted, FS_EmptySet
  <1>5. CapHolds /\ LinksAreOfReady
    BY DEF ShareInit, NoVisit
  <1>6. DownloadsAccounted /\ ServedAfterAudit
    BY <1>4 DEF ShareInit, Outcomes
  <1> QED BY <1>1, <1>2, <1>5, <1>6

\* The renderer and the links of a report do not disturb each other: what is shared
\* is finished.
LEMMA RenderStepKeeps ==
  ASSUME ShareInv, RenderNext, UNCHANGED shareVars PROVE ShareInv'
  <1>1. RenderInv' /\ RenderTypeOK'
    BY RenderNextKeeps DEF RenderInv
  <1>2. status = "ready" => status' = "ready"
    BY FinishedKept
  <1>3. \A l, o : Under(l, o)' = Under(l, o) /\ Opening(l)' = Opening(l)
    BY DEF Under, Opening
  <1> QED BY <1>1, <1>2, <1>3

\* A step that changes no visit leaves the counts.
LEMMA SameVisits ==
  ASSUME UNCHANGED visit PROVE \A l, o : Under(l, o)' = Under(l, o) /\ Opening(l)' = Opening(l)
  BY DEF Under, Opening

\* Minting, revoking and expiry: a link is minted for a report that is ready, with no
\* download counted.
LEMMA ShareStepKeeps == ASSUME NEW l \in Links, ShareInv, ShareStep(l) PROVE ShareInv'
  <1>1. UNCHANGED renderVars /\ UNCHANGED <<count, visit, log, served, unaudited, asked>>
    BY DEF ShareStep, Share, RevokeShareLink, Expires, CreateShareLink
  <1>2. RenderInv' /\ RenderTypeOK' /\ status' = status
    BY <1>1 DEF RenderInv, RenderTypeOK, OneOwner, NothingEarly, OwnerIsHonest,
                ReadyReportStands, ReadyIsStored, AnnouncedIsReady
  <1>3. DownloadsAccounted' /\ ServedAfterAudit'
    BY <1>1, SameVisits
  <1>4. CASE Share(l)
    BY <1>1, <1>2, <1>3, <1>4 DEF Share
  <1>5. CASE RevokeShareLink(l)
    BY <1>1, <1>2, <1>3, <1>5 DEF RevokeShareLink
  <1>6. CASE Expires(l)
    BY <1>1, <1>2, <1>3, <1>6 DEF Expires
  <1>7. ASSUME NEW c \in Caps, CreateShareLink(l, c) PROVE ShareInv'
    <2>1. ShareTypeOK' /\ LinksAreOfReady'
      BY <1>1, <1>2, <1>7 DEF CreateShareLink
    <2>2. count[l] = 0 /\ cap' = [cap EXCEPT ![l] = c] /\ (c # Uncapped => c \in Nat)
      BY <1>7 DEF CreateShareLink
    <2>3. CapHolds'
      BY <1>1, <2>2
    <2> QED BY <1>2, <1>3, <2>1, <2>3
  <1> QED BY <1>4, <1>5, <1>6, <1>7 DEF ShareStep

\* A claim: one more request is under way, and the counter moves with a grant, which
\* the cap allowed in the same statement.
LEMMA ClaimDownloadKeeps ==
  ASSUME NEW v \in Visitors, NEW l \in Links, ShareInv, ClaimDownload(v, l) PROVE ShareInv'
  <1>1. PICK o \in Outcomes : o = Classify(l)
    BY DEF Classify, Outcomes
  <1>2. RenderInv' /\ RenderTypeOK' /\ status' = status
    BY DEF ClaimDownload, RenderInv, RenderTypeOK, OneOwner, NothingEarly, OwnerIsHonest,
           ReadyReportStands, ReadyIsStored, AnnouncedIsReady
  <1>3. ShareTypeOK'
    BY <1>1, <1>2 DEF ClaimDownload, Counted, Visits, NoVisit, Outcomes
  <1>4. visit' = [visit EXCEPT ![v] = [at |-> "audit", link |-> l, outcome |-> o]]
    BY <1>1 DEF ClaimDownload
  <1>5. \A k \in Links : OpenSet(k)' = OpenSet(k)
    BY <1>4 DEF ClaimDownload, OpenSet, NoVisit
  <1>6. AuditSet(l, o)' = AuditSet(l, o) \cup {v} /\ v \notin AuditSet(l, o)
    BY <1>4 DEF ClaimDownload, AuditSet, NoVisit
  <1>7. \A k \in Links, p \in Outcomes : k # l \/ p # o => AuditSet(k, p)' = AuditSet(k, p)
    BY <1>4 DEF ClaimDownload, AuditSet, NoVisit
  <1>8. Under(l, o)' = Under(l, o) + 1
    <2>1. IsFiniteSet(AuditSet(l, o)) /\ Under(l, o) = Cardinality(AuditSet(l, o))
      BY VisitsAreCounted
    <2>2. Under(l, o)' = Cardinality(AuditSet(l, o)')
      BY VisitsAreCountedNext
    <2>3. Cardinality(AuditSet(l, o)') = Cardinality(AuditSet(l, o)) + 1
      BY <1>6, <2>1, OneMore
    <2> QED BY <2>1, <2>2, <2>3
  <1>9. /\ \A k \in Links, p \in Outcomes : k # l \/ p # o => Under(k, p)' = Under(k, p)
        /\ \A k \in Links : Opening(k)' = Opening(k)
    BY <1>5, <1>7, VisitsAreCounted, VisitsAreCountedNext
  <1>10. DownloadsAccounted'
    <2>1. /\ asked' = [asked EXCEPT ![l][o] = @ + 1] /\ log' = log /\ unaudited' = unaudited
          /\ count' = [count EXCEPT ![l] = IF o = "granted" THEN @ + 1 ELSE @]
      BY <1>1 DEF ClaimDownload, Counted
    <2>2. ASSUME NEW k \in Links, NEW p \in Outcomes
          PROVE  asked'[k][p] = log'[k][p] + Under(k, p)' + unaudited'[k][p]
      <3>1. asked[k][p] = log[k][p] + Under(k, p) + unaudited[k][p] /\ Under(k, p) \in Nat
            /\ log[k][p] \in Nat /\ unaudited[k][p] \in Nat
        BY VisitsAreCounted
      <3>2. asked'[k][p] = IF k = l /\ p = o THEN asked[k][p] + 1 ELSE asked[k][p]
        BY <1>1, <2>1
      <3> QED BY <2>1, <3>1, <3>2, <1>8, <1>9
    <2>3. ASSUME NEW k \in Links PROVE count'[k] = asked'[k]["granted"]
      BY <1>1, <2>1 DEF Outcomes
    <2> QED BY <2>2, <2>3
  <1>11. LinksAreOfReady'
    BY <1>2 DEF ClaimDownload
  <1>12. CapHolds'
    <2>1. o = "granted" => cap[l] = Uncapped \/ count[l] < cap[l]
      <3> SUFFICES ASSUME o = "granted", cap[l] # Uncapped PROVE count[l] < cap[l]
        OBVIOUS
      <3>1. cap[l] \in Nat /\ count[l] \in Nat
        BY ZenonT(60)
      <3>2. ~ (count[l] >= cap[l])
        BY <1>1 DEF Classify
      <3> QED BY <3>1, <3>2
    <2>2. \A k \in Links : /\ served'[k] = served[k] /\ cap'[k] = cap[k]
                          /\ count'[k] = IF k = l /\ o = "granted" THEN count[k] + 1 ELSE count[k]
      BY <1>1 DEF ClaimDownload
    <2>3. \A k \in Links : served[k] <= count[k] /\ count[k] \in Nat /\ served[k] \in Nat
      OBVIOUS
    <2>4. ASSUME NEW k \in Links PROVE served'[k] <= count'[k]
      <3>1. served[k] <= count[k] /\ count[k] \in Nat /\ served[k] \in Nat /\ served'[k] = served[k]
        BY <2>2, <2>3
      <3>2. count'[k] \in {count[k], count[k] + 1}
        BY <2>2
      <3> QED BY <3>1, <3>2
    <2>5. ASSUME NEW k \in Links, cap'[k] # Uncapped PROVE count'[k] <= cap'[k]
      <3>1. cap[k] \in Nat /\ count[k] \in Nat /\ count[k] <= cap[k] /\ cap'[k] = cap[k]
        <4>1. cap'[k] = cap[k] /\ cap[k] # Uncapped
          BY <2>2, <2>5
        <4> QED BY <4>1
      <3>2. CASE k = l /\ o = "granted"
        BY <2>1, <2>2, <2>5, <3>1, <3>2
      <3>3. CASE ~(k = l /\ o = "granted")
        BY <2>2, <3>1, <3>3
      <3> QED BY <3>2, <3>3
    <2> QED BY <2>4, <2>5
  <1>13. ServedAfterAudit'
    BY <1>9 DEF ClaimDownload
  <1> QED BY <1>2, <1>3, <1>10, <1>11, <1>12, <1>13

\* The audit row, or that it could not be written: the request goes from one count to
\* the other, and a granted one goes on to the report.
LEMMA RecordShareAccessKeeps ==
  ASSUME NEW v \in Visitors, ShareInv, RecordShareAccess(v) PROVE ShareInv'
  <1>1. PICK l \in Links, o \in Outcomes : l = visit[v].link /\ o = visit[v].outcome
    BY DEF RecordShareAccess, Visits, NoVisit
  <1>2. RenderInv' /\ RenderTypeOK' /\ status' = status
    <2>1. CASE UNCHANGED renderVars
      BY <2>1 DEF RenderInv, RenderTypeOK, OneOwner, NothingEarly, OwnerIsHonest,
                  ReadyReportStands, ReadyIsStored, AnnouncedIsReady
    <2>2. CASE Fault /\ UNCHANGED <<rowVars, request, busVars, latest, blob, workVars,
                                    announced, stranded>>
      BY <2>2, FaultKeeps DEF RenderInv
    <2> QED BY <2>1, <2>2 DEF RecordShareAccess
  <1>3. /\ visit' = [visit EXCEPT ![v] = IF o = "granted" THEN [@ EXCEPT !.at = "open"] ELSE NoVisit]
        /\ visit[v].at = "audit"
    BY <1>1 DEF RecordShareAccess, AfterAudit
  <1>4. visit'[v].at # "idle" => visit'[v].at = "open" /\ visit'[v].link = l /\ visit'[v].outcome = "granted"
    <2>1. visit[v] = [at |-> "audit", link |-> l, outcome |-> o]
      BY <1>1, <1>3 DEF NoVisit, Visits
    <2>2. visit'[v] = IF o = "granted" THEN [at |-> "open", link |-> l, outcome |-> o] ELSE NoVisit
      BY <1>3, <2>1
    <2> QED BY <2>2 DEF NoVisit
  <1>5. visit' \in [Visitors -> Visits]
    <2>1. visit'[v] \in Visits
      <3>1. visit[v] = [at |-> "audit", link |-> l, outcome |-> o]
        BY <1>1, <1>3 DEF NoVisit, Visits
      <3>2. visit'[v] = IF o = "granted" THEN [at |-> "open", link |-> l, outcome |-> o] ELSE NoVisit
        BY <1>3, <3>1
      <3> QED BY <3>2 DEF Visits
    <2>2. visit' = [visit EXCEPT ![v] = visit'[v]]
      BY <1>3
    <2> QED BY <2>1, <2>2
  <1>6. \/ log' = Counted(log, l, o) /\ unaudited' = unaudited
        \/ unaudited' = Counted(unaudited, l, o) /\ log' = log
    BY <1>1 DEF RecordShareAccess
  <1>7. UNCHANGED <<linkVars, served, asked>>
    BY DEF RecordShareAccess
  <1>8. ShareTypeOK'
    <2>1. log' \in [Links -> [Outcomes -> Nat]] /\ unaudited' \in [Links -> [Outcomes -> Nat]]
      <3>1. /\ log \in [Links -> [Outcomes -> Nat]] /\ unaudited \in [Links -> [Outcomes -> Nat]]
            /\ l \in Links /\ o \in Outcomes
        BY <1>1
      <3>2. /\ Counted(log, l, o) \in [Links -> [Outcomes -> Nat]]
            /\ Counted(unaudited, l, o) \in [Links -> [Outcomes -> Nat]]
        BY <3>1, CountedTally
      <3> QED BY <1>6, <3>1, <3>2
    <2> QED BY <1>2, <1>5, <1>7, <2>1
  <1>9. AuditSet(l, o)' = AuditSet(l, o) \ {v} /\ v \in AuditSet(l, o)
    BY <1>1, <1>3, <1>4 DEF AuditSet
  <1>10. \A k \in Links, p \in Outcomes : k # l \/ p # o => AuditSet(k, p)' = AuditSet(k, p)
    BY <1>1, <1>3, <1>4 DEF AuditSet
  <1>11. Under(l, o)' = Under(l, o) - 1
    <2>1. IsFiniteSet(AuditSet(l, o)) /\ Under(l, o) = Cardinality(AuditSet(l, o))
      BY VisitsAreCounted
    <2>2. Under(l, o)' = Cardinality(AuditSet(l, o)')
      BY VisitsAreCountedNext
    <2>3. Cardinality(AuditSet(l, o)') = Cardinality(AuditSet(l, o)) - 1
      BY <1>9, <2>1, OneLess
    <2> QED BY <2>1, <2>2, <2>3
  <1>12. \A k \in Links, p \in Outcomes : k # l \/ p # o => Under(k, p)' = Under(k, p)
    BY <1>10, VisitsAreCounted, VisitsAreCountedNext
  <1>13. DownloadsAccounted'
    <2>1. ASSUME NEW k \in Links, NEW p \in Outcomes
          PROVE  asked'[k][p] = log'[k][p] + Under(k, p)' + unaudited'[k][p]
      <3>1. asked[k][p] = log[k][p] + Under(k, p) + unaudited[k][p] /\ Under(k, p) \in Nat
            /\ log[k][p] \in Nat /\ unaudited[k][p] \in Nat
        BY VisitsAreCounted
      <3>2. CASE k = l /\ p = o
        <4>1. log'[k][p] + unaudited'[k][p] = log[k][p] + unaudited[k][p] + 1
              /\ log'[k][p] \in Nat /\ unaudited'[k][p] \in Nat
          BY <1>6, <1>8, <3>1, <3>2 DEF Counted
        <4>2. Under(k, p)' = Under(k, p) - 1 /\ asked'[k][p] = asked[k][p]
          BY <1>7, <1>11, <3>2
        <4> QED BY <3>1, <4>1, <4>2
      <3>3. CASE ~(k = l /\ p = o)
        <4>1. log'[k][p] = log[k][p] /\ unaudited'[k][p] = unaudited[k][p]
          BY <1>6, <3>3 DEF Counted
        <4> QED BY <1>7, <1>12, <3>1, <3>3, <4>1
      <3> QED BY <3>2, <3>3
    <2> QED BY <1>7, <2>1
  <1>14. ServedAfterAudit'
    <2>1. ASSUME NEW k \in Links
          PROVE  served'[k] + Opening(k)' <= log'[k]["granted"] + unaudited'[k]["granted"]
      <3>1. /\ served[k] + Opening(k) <= log[k]["granted"] + unaudited[k]["granted"]
            /\ served[k] \in Nat /\ Opening(k) \in Nat
            /\ log[k]["granted"] \in Nat /\ unaudited[k]["granted"] \in Nat
        BY VisitsAreCounted DEF Outcomes
      <3>2. CASE k = l /\ o = "granted"
        <4>1. OpenSet(k)' = OpenSet(k) \cup {v} /\ v \notin OpenSet(k)
          BY <1>1, <1>3, <3>2 DEF OpenSet, Visits, NoVisit
        <4>2. Opening(k)' = Opening(k) + 1
          <5>1. IsFiniteSet(OpenSet(k)) /\ Opening(k) = Cardinality(OpenSet(k))
            BY VisitsAreCounted
          <5>2. Opening(k)' = Cardinality(OpenSet(k)')
            BY VisitsAreCountedNext
          <5>3. Cardinality(OpenSet(k)') = Cardinality(OpenSet(k)) + 1
            BY <4>1, <5>1, OneMore
          <5> QED BY <5>1, <5>2, <5>3
        <4>3. log'[k]["granted"] + unaudited'[k]["granted"] = log[k]["granted"] + unaudited[k]["granted"] + 1
          BY <1>6, <3>1, <3>2 DEF Counted, Outcomes
        <4> QED BY <1>7, <3>1, <4>2, <4>3
      <3>3. CASE ~(k = l /\ o = "granted")
        <4>1. OpenSet(k)' = OpenSet(k)
          BY <1>1, <1>3, <1>4, <3>3 DEF OpenSet, NoVisit
        <4>2. Opening(k)' = Opening(k)
          BY <4>1, VisitsAreCounted, VisitsAreCountedNext
        <4>3. log'[k]["granted"] = log[k]["granted"] /\ unaudited'[k]["granted"] = unaudited[k]["granted"]
          BY <1>1, <1>6, <3>3 DEF Counted, Outcomes
        <4> QED BY <1>7, <3>1, <4>2, <4>3
      <3> QED BY <3>2, <3>3
    <2> QED BY <2>1
  <1>15. CapHolds'
    BY <1>7
  <1>16. LinksAreOfReady'
    BY <1>1, <1>2, <1>3, <1>4, <1>7
  <1> QED BY <1>2, <1>8, <1>13, <1>14, <1>15, <1>16

\* The download: at most what was counted is served.
LEMMA StreamKeeps == ASSUME NEW v \in Visitors, ShareInv, Stream(v) PROVE ShareInv'
  <1>0. PICK l \in Links : l = visit[v].link
    BY DEF Stream, Visits, NoVisit
  <1>1. l = visit[v].link /\ visit[v].at = "open" /\ visit' = [visit EXCEPT ![v] = NoVisit]
    BY <1>0 DEF Stream
  <1>2. RenderInv' /\ RenderTypeOK' /\ status' = status
    <2>1. CASE UNCHANGED renderVars
      BY <2>1 DEF RenderInv, RenderTypeOK, OneOwner, NothingEarly, OwnerIsHonest,
                  ReadyReportStands, ReadyIsStored, AnnouncedIsReady
    <2>2. CASE Fault /\ UNCHANGED <<rowVars, request, busVars, latest, blob, workVars,
                                    announced, stranded>>
      BY <2>2, FaultKeeps DEF RenderInv
    <2> QED BY <2>1, <2>2 DEF Stream
  <1>3. served' = served \/ served' = [served EXCEPT ![l] = @ + 1]
    BY <1>1 DEF Stream
  <1>4. UNCHANGED <<linkVars, log, unaudited, asked>>
    BY DEF Stream
  <1>5. ShareTypeOK'
    <2>1. served' \in [Links -> Nat]
      BY <1>3
    <2>2. visit' \in [Visitors -> Visits]
      BY <1>1 DEF Visits
    <2> QED BY <1>2, <1>4, <2>1, <2>2
  <1>6. \A k \in Links, o \in Outcomes : AuditSet(k, o)' = AuditSet(k, o)
    BY <1>1 DEF AuditSet, NoVisit
  <1>7. DownloadsAccounted'
    BY <1>4, <1>6, VisitsAreCounted, VisitsAreCountedNext
  <1>8. OpenSet(l)' = OpenSet(l) \ {v} /\ v \in OpenSet(l)
    BY <1>1 DEF OpenSet, NoVisit
  <1>9. \A k \in Links : k # l => OpenSet(k)' = OpenSet(k)
    BY <1>1 DEF OpenSet, NoVisit
  <1>10a. Opening(l)' = Opening(l) - 1
    <2>1. IsFiniteSet(OpenSet(l)) /\ Opening(l) = Cardinality(OpenSet(l))
      BY VisitsAreCounted
    <2>2. Opening(l)' = Cardinality(OpenSet(l)')
      BY VisitsAreCountedNext
    <2>3. Cardinality(OpenSet(l)') = Cardinality(OpenSet(l)) - 1
      BY <1>8, <2>1, OneLess
    <2> QED BY <2>1, <2>2, <2>3
  <1>10. Opening(l)' = Opening(l) - 1 /\ \A k \in Links : k # l => Opening(k)' = Opening(k)
    BY <1>10a, <1>9, VisitsAreCounted, VisitsAreCountedNext
  <1>11. \A k \in Links : served'[k] + Opening(k)' <= served[k] + Opening(k)
    <2>1. ASSUME NEW k \in Links PROVE served'[k] + Opening(k)' <= served[k] + Opening(k)
      <3>1. served[k] \in Nat /\ Opening(k) \in Nat
        BY VisitsAreCounted
      <3>2. CASE k = l
        <4>1. Opening(k)' = Opening(k) - 1 /\ served'[k] \in {served[k], served[k] + 1}
          BY <1>3, <1>10, <3>2
        <4> QED BY <3>1, <4>1
      <3>3. CASE k # l
        BY <1>3, <1>10, <3>1, <3>3
      <3> QED BY <3>2, <3>3
    <2> QED BY <2>1
  <1>12. ServedAfterAudit'
    <2>1. ASSUME NEW k \in Links
          PROVE  served'[k] + Opening(k)' <= log'[k]["granted"] + unaudited'[k]["granted"]
      <3>1. /\ served[k] \in Nat /\ served'[k] \in Nat /\ Opening(k) \in Nat /\ Opening(k)' \in Int
            /\ log[k]["granted"] \in Nat /\ unaudited[k]["granted"] \in Nat
        BY <1>1, <1>5, <1>10, VisitsAreCounted DEF Outcomes
      <3> QED BY <1>4, <1>11, <3>1
    <2> QED BY <2>1
  <1>13. CapHolds'
    <2>1. ASSUME NEW k \in Links PROVE served'[k] <= count'[k]
      <3>1. Opening(k)' \in Nat
        <4>1. IsFiniteSet(OpenSet(k)')
          <5>1. OpenSet(k)' \subseteq Visitors
            BY DEF OpenSet
          <5> QED BY <5>1, FS_Subset
        <4> QED BY <4>1, VisitsAreCountedNext, FS_CardinalityType
      <3>2. /\ served'[k] + Opening(k)' <= log[k]["granted"] + unaudited[k]["granted"]
            /\ served'[k] \in Nat /\ log[k]["granted"] \in Nat /\ unaudited[k]["granted"] \in Nat
        BY <1>4, <1>5, <1>12 DEF Outcomes
      <3>3. /\ count[k] = log[k]["granted"] + Under(k, "granted") + unaudited[k]["granted"]
            /\ Under(k, "granted") \in Nat
        BY VisitsAreCounted DEF Outcomes
      <3> QED BY <1>4, <3>1, <3>2, <3>3
    <2> QED BY <1>4, <2>1
  <1>14. LinksAreOfReady'
    BY <1>1, <1>2, <1>4 DEF NoVisit
  <1> QED BY <1>2, <1>5, <1>7, <1>12, <1>13, <1>14

\* All steps together.
LEMMA ShareNextKeeps == ASSUME ShareInv, [ShareNext]_reportVars PROVE ShareInv'
  <1>1. CASE RenderNext /\ UNCHANGED shareVars
    BY <1>1, RenderStepKeeps DEF renderVars
  <1>2. ASSUME NEW l \in Links, ShareStep(l) PROVE ShareInv'
    BY <1>2, ShareStepKeeps
  <1>3. ASSUME NEW v \in Visitors, VisitStep(v) PROVE ShareInv'
    BY <1>3, ClaimDownloadKeeps, RecordShareAccessKeeps, StreamKeeps DEF VisitStep
  <1>4. CASE UNCHANGED reportVars
    <2>1. RenderInv' /\ RenderTypeOK' /\ status' = status
      BY <1>4 DEF RenderInv, RenderTypeOK, OneOwner, NothingEarly, OwnerIsHonest,
                  ReadyReportStands, ReadyIsStored, AnnouncedIsReady
    <2> QED BY <1>4, <2>1, SameVisits
  <1> QED BY <1>1, <1>2, <1>3, <1>4 DEF ShareNext

-----------------------------------------------------------------------------
(***************************************************************************)
(* Theorems                                                                *)
(***************************************************************************)
\* ShareInv is an invariant of a report and its links.
LEMMA ShareInvHolds == ShareSpec => []ShareInv
  <1> HIDE DEF ShareInv
  <1> QED BY ShareInvInit, ShareNextKeeps, PTL DEF ShareSpec

\* A ready report is what is stored under its key, one rendering in all its parts, of
\* the version that was asked for; and what was announced is ready (MarkReady,
\* publishReportReady).
THEOREM ReadyStands == ShareSpec => []ReadyReportStands
  <1>1. ShareInv => ReadyReportStands
    BY DEF RenderInv
  <1> QED BY <1>1, ShareInvHolds, PTL

\* A link is never used beyond its cap, every request with a link is on record or could
\* not be recorded, what is served was counted, and what is granted can be served
\* (claim_share_download, RecordShareAccess, GetShared).
THEOREM SharingAccounted == ShareSpec => []SharingIsAccounted
  <1>1. ShareInv => GrantedIsServable
    <2>1. SUFFICES ASSUME ShareInv, NEW v \in Visitors, visit[v].at # "idle" PROVE Servable
      BY DEF GrantedIsServable
    <2>2. visit[v].link \in Links
      BY <2>1 DEF Visits, NoVisit
    <2>3. status = "ready"
      BY <2>1, <2>2
    <2> QED BY <2>1, <2>3 DEF Servable, RenderInv, ReadyReportStands, ReadyIsStored
  <1>2. ShareInv => SharingIsAccounted
    BY <1>1 DEF SharingIsAccounted
  <1> QED BY <1>2, ShareInvHolds, PTL

\* A report that is ready or failed stays as it is, whatever late workers, redelivered
\* jobs and the API's own clean-up do (MarkReady, MarkFailed).
THEOREM FinishedStays == ShareSpec => FinishedIsFinal
  <1>1. ASSUME ShareInv, [ShareNext]_reportVars
        PROVE  [(status \in {"ready", "failed"}) => (UNCHANGED rowVars)]_renderVars
    <2>1. CASE RenderNext
      BY <1>1, <2>1, FinishedKept
    <2>2. ASSUME NEW v \in Visitors, VisitStep(v) PROVE UNCHANGED rowVars
      BY <2>2 DEF VisitStep, ClaimDownload, RecordShareAccess, Stream, renderVars
    <2>3. ASSUME NEW l \in Links, ShareStep(l) PROVE UNCHANGED rowVars
      BY <2>3 DEF ShareStep, Share, RevokeShareLink, Expires, CreateShareLink, renderVars
    <2> QED BY <1>1, <2>1, <2>2, <2>3 DEF ShareNext, renderVars
  <1> HIDE DEF ShareInv
  <1> QED BY <1>1, ShareInvHolds, PTL DEF ShareSpec, FinishedIsFinal

(***************************************************************************)
(* The closure of one scan's aliases                                       *)
(***************************************************************************)
\* Every set of naturals that is not empty has a least element.
LEMMA Least ==
  ASSUME NEW S, S \subseteq Nat, S # {}
  PROVE  \E x \in S : \A y \in S : x <= y
  <1> DEFINE Below == {q \in Nat \X Nat : q[1] < q[2]}
  <1>1. IsWellFoundedOn(Below, Nat)
    BY NatLessThanWellFounded DEF OpToRel
  <1>2. \A x, y \in Nat : ~ (<<y, x>> \in Below) => x <= y
    OBVIOUS
  <1> HIDE DEF Below
  <1>3. \E x \in S : \A y \in S : ~ (<<y, x>> \in Below)
    BY <1>1, WFMin
  <1> QED BY <1>2, <1>3

\* A set of ids is finite and no larger than all of them.
LEMMA IdsCounted ==
  /\ Cardinality(Ids) \in Nat
  /\ \A S \in SUBSET Ids : IsFiniteSet(S) /\ Cardinality(S) \in Nat /\ Cardinality(S) <= Cardinality(Ids)
  BY AliasAssumption, FS_CardinalityType, FS_Subset

\* A finite set of naturals that is not empty has a greatest element.
LEMMA Greatest ==
  ASSUME NEW S, IsFiniteSet(S), S \subseteq Nat, S # {}
  PROVE  \E x \in S : \A y \in S : y <= x
  <1> DEFINE Worst == {k \in Nat : \E T \in SUBSET S :
                         Cardinality(T) = k /\ T # {} /\ ~ \E x \in T : \A y \in T : y <= x}
  <1>1. ASSUME Worst # {} PROVE FALSE
    <2>1. PICK k \in Worst : \A l \in Worst : k <= l
      <3>1. Worst \subseteq Nat
        OBVIOUS
      <3> HIDE DEF Worst
      <3> QED BY <1>1, <3>1, Least
    <2>2. PICK T \in SUBSET S : /\ Cardinality(T) = k /\ T # {}
                                /\ ~ \E x \in T : \A y \in T : y <= x
      OBVIOUS
    <2>3. PICK t \in T : TRUE
      BY <2>2
    <2>4. IsFiniteSet(T)
      BY FS_Subset
    <2>5. Cardinality(T \ {t}) = k - 1 /\ k \in Nat /\ k - 1 \in Nat
      <3>1. IsFiniteSet(T \ {t}) /\ Cardinality(T \ {t}) = k - 1
        BY <2>2, <2>3, <2>4, FS_RemoveElement
      <3>2. Cardinality(T \ {t}) \in Nat
        BY <3>1, FS_CardinalityType
      <3> QED BY <3>1, <3>2
    <2>6. k - 1 \notin Worst
      <3> HIDE DEF Worst
      <3>1. ~ (k <= k - 1)
        BY <2>5
      <3> QED BY <2>1, <3>1
    <2>7. CASE T \ {t} = {}
      BY <2>2, <2>3, <2>7
    <2>8. CASE T \ {t} # {}
      <3>1. PICK x \in T \ {t} : \A y \in T \ {t} : y <= x
        BY <2>5, <2>6, <2>8
      <3>2. x \in Nat /\ t \in Nat
        BY <2>2, <2>3
      <3>3. T \subseteq Nat
        OBVIOUS
      <3>4. CASE x <= t
        <4>1. \A y \in T : y <= t
          BY <3>1, <3>2, <3>3, <3>4
        <4> QED BY <2>2, <2>3, <4>1
      <3>5. CASE ~ (x <= t)
        <4>1. \A y \in T : y <= x
          BY <3>1, <3>2, <3>3, <3>5
        <4> QED BY <2>2, <3>1, <4>1
      <3> QED BY <3>4, <3>5
    <2> QED BY <2>7, <2>8
  <1>2. Cardinality(S) \in Nat
    BY FS_CardinalityType
  <1>3. Cardinality(S) \notin Worst
    <2> HIDE DEF Worst
    <2> QED BY <1>1
  <1> QED BY <1>2, <1>3

\* The edges between ids are finitely many, and any of them have a last one.
LEMMA EdgesFinite == IsFiniteSet(Edges)
  <1>1. IsFiniteSet(Ids \X Ids)
    BY AliasAssumption, FS_Product
  <1>2. IsFiniteSet(BOOLEAN)
    <2>1. IsFiniteSet({TRUE})
      BY FS_Singleton
    <2>2. IsFiniteSet({TRUE} \cup {FALSE})
      BY <2>1, FS_AddElement
    <2>3. {TRUE} \cup {FALSE} = BOOLEAN
      OBVIOUS
    <2> QED BY <2>2, <2>3
  <1> DEFINE Pairs == (Ids \X Ids) \X BOOLEAN
             f == [p \in Pairs |-> <<p[1][1], p[1][2], p[2]>>]
  <1>3. IsFiniteSet(Pairs)
    BY <1>1, <1>2, FS_Product
  <1>4. f \in Surjection(Pairs, Ids \X Ids \X BOOLEAN)
    <2>1. f \in [Pairs -> Ids \X Ids \X BOOLEAN]
      OBVIOUS
    <2>2. ASSUME NEW e \in Ids \X Ids \X BOOLEAN PROVE \E p \in Pairs : f[p] = e
      <3>1. <<<<e[1], e[2]>>, e[3]>> \in Pairs
        OBVIOUS
      <3>2. f[<<<<e[1], e[2]>>, e[3]>>] = <<e[1], e[2], e[3]>>
        BY <3>1
      <3>3. <<e[1], e[2], e[3]>> = e
        OBVIOUS
      <3> HIDE DEF Pairs, f
      <3> QED BY <3>1, <3>2, <3>3
    <2> HIDE DEF Pairs, f
    <2> QED BY <2>1, <2>2 DEF Surjection
  <1>5. IsFiniteSet(Ids \X Ids \X BOOLEAN)
    <2> HIDE DEF Pairs, f
    <2> QED BY <1>3, <1>4, FS_Surjection
  <1> QED BY <1>5, FS_Subset DEF Edges

LEMMA LastEdgeIsOne ==
  ASSUME NEW S, S \subseteq Edges, S # {}
  PROVE  LastEdge(S) \in S
  <1> DEFINE Late == IF \E e \in S : ~e[3] THEN {e \in S : ~e[3]} ELSE S
             Firsts == {e[1] : e \in Late}
  <1>1. Late \subseteq S /\ Late # {}
    OBVIOUS
  <1>2. \A e \in S : e[1] \in Ids /\ e[2] \in Ids /\ e[3] \in BOOLEAN /\ e = <<e[1], e[2], e[3]>>
    BY DEF Edges
  <1>3. Firsts \subseteq Ids /\ Firsts # {}
    BY <1>1, <1>2
  <1>4. PICK a \in Firsts : \A b \in Firsts : b <= a
    <2> HIDE DEF Firsts
    <2> QED BY <1>3, IdsCounted, Greatest, AliasAssumption
  <1> DEFINE Seconds == {e[2] : e \in {d \in Late : d[1] = a}}
  <1>5. Seconds \subseteq Ids /\ Seconds # {}
    BY <1>1, <1>2, <1>4
  <1>6. PICK b \in Seconds : \A c \in Seconds : c <= b
    <2> HIDE DEF Seconds
    <2> QED BY <1>5, IdsCounted, Greatest, AliasAssumption
  <1>7. PICK e \in Late : e[1] = a /\ e[2] = b
    BY <1>6
  <1>8. e \in S
    BY <1>1, <1>7
  <1>9. ASSUME NEW f \in S \ {e} PROVE Before(f, e)
    <2>1. f[1] \in Nat /\ f[2] \in Nat /\ e[1] \in Nat /\ e[2] \in Nat /\ f[3] \in BOOLEAN /\ e[3] \in BOOLEAN
          /\ f = <<f[1], f[2], f[3]>> /\ e = <<e[1], e[2], e[3]>>
      BY <1>2, <1>8, AliasAssumption
    <2>2. CASE f \notin Late
      <3>1. f[3] = TRUE /\ e[3] = FALSE
        BY <1>2, <1>7, <1>8, <2>2
      <3> QED BY <3>1 DEF Before
    <2>3. CASE f \in Late
      <3>1. f[3] = e[3]
        BY <1>2, <1>7, <1>8, <2>3
      <3>2. f[1] <= e[1]
        BY <1>4, <1>7, <2>3
      <3>3. f[1] = e[1] => f[2] <= e[2]
        BY <1>6, <1>7, <2>3
      <3>4. f[1] # e[1] \/ f[2] # e[2]
        BY <2>1, <3>1
      <3> HIDE DEF Late
      <3>5. f[1] < e[1] \/ (f[1] = e[1] /\ f[2] < e[2])
        BY <2>1, <3>2, <3>3, <3>4
      <3> QED BY <3>1, <3>5 DEF Before
    <2> QED BY <2>2, <2>3
  <1> HIDE DEF Late
  <1> QED BY <1>8, <1>9 DEF LastEdge

\* f applies the edges of every set, the last one on top of the others.
Applies(f, S, start) ==
  f = [done \in SUBSET S |->
         IF done = {} THEN start
         ELSE Apply(f[done \ {LastEdge(done)}], LastEdge(done))]

\* Such a function
\* exists, although it is defined by itself: from the sets with one edge less it is
\* given for the next larger ones.
LEMMA ApplyAllExists ==
  ASSUME NEW S, S \subseteq Edges, NEW start
  PROVE  \E f : ApplyAll(start, S) = f[S] /\ Applies(f, S, start)
  <1> DEFINE Upto(k) == {done \in SUBSET S : Cardinality(done) <= k}
             Given(g, k) == g = [done \in Upto(k) |->
                                   IF done = {} THEN start
                                   ELSE Apply(g[done \ {LastEdge(done)}], LastEdge(done))]
             Bad == {k \in Nat : ~ \E g : Given(g, k)}
             h == CHOOSE f : f = [done \in SUBSET S |->
                                    IF done = {} THEN start
                                    ELSE Apply(f[done \ {LastEdge(done)}], LastEdge(done))]
  <1>1. \A T \in SUBSET S : IsFiniteSet(T) /\ Cardinality(T) \in Nat /\ Cardinality(T) <= Cardinality(S)
                            /\ (Cardinality(T) = 0 <=> T = {})
    <2>1. IsFiniteSet(S)
      BY EdgesFinite, FS_Subset
    <2> QED BY <2>1, FS_Subset, FS_CardinalityType, FS_EmptySet
  <1>2. \A done \in SUBSET S : done # {} =>
          /\ done \ {LastEdge(done)} \in SUBSET S
          /\ Cardinality(done \ {LastEdge(done)}) = Cardinality(done) - 1
    BY <1>1, LastEdgeIsOne, FS_RemoveElement
  <1>3. ASSUME Bad # {} PROVE FALSE
    <2>1. PICK b \in Bad : \A k \in Bad : b <= k
      <3>1. Bad \subseteq Nat
        OBVIOUS
      <3> HIDE DEF Bad
      <3> QED BY <1>3, <3>1, Least
    <2>2. CASE b = 0
      <3>1. \A done \in Upto(0) : done = {}
        BY <1>1
      <3>2. Given([done \in Upto(0) |-> start], 0)
        <4> HIDE DEF Upto
        <4> QED BY <3>1
      <3> HIDE DEF Given
      <3> QED BY <2>1, <2>2, <3>2
    <2>3. CASE b # 0
      <3>1. b \in Nat /\ b - 1 \in Nat /\ ~ (b <= b - 1)
        BY <2>1, <2>3
      <3>2. b - 1 \notin Bad
        <4> HIDE DEF Bad
        <4> QED BY <2>1, <3>1
      <3>3. PICK g : Given(g, b - 1)
        BY <3>1, <3>2
      <3> DEFINE e == [done \in Upto(b) |->
                         IF done = {} THEN start
                         ELSE Apply(g[done \ {LastEdge(done)}], LastEdge(done))]
      <3>4. \A done \in Upto(b) : done # {} => done \ {LastEdge(done)} \in Upto(b - 1)
        <4> TAKE done \in Upto(b)
        <4>1. done \in SUBSET S /\ Cardinality(done) <= b /\ Cardinality(done) \in Nat
          BY <1>1
        <4>2. HAVE done # {}
        <4>3. done \ {LastEdge(done)} \in SUBSET S /\ Cardinality(done \ {LastEdge(done)}) = Cardinality(done) - 1
          BY <1>2, <4>1, <4>2
        <4> QED BY <3>1, <4>1, <4>3
      <3>5. \A done \in Upto(b - 1) : done \in Upto(b)
        BY <1>1, <3>1
      <3>6. \A done \in Upto(b - 1) : e[done] = g[done]
        <4> HIDE DEF Upto
        <4>1. \A done \in Upto(b - 1) : g[done] = IF done = {} THEN start
                ELSE Apply(g[done \ {LastEdge(done)}], LastEdge(done))
          BY <3>3
        <4> QED BY <3>5, <4>1
      <3>7. \A done \in Upto(b) : e[done] = IF done = {} THEN start
              ELSE Apply(e[done \ {LastEdge(done)}], LastEdge(done))
        <4> HIDE DEF Upto, Given
        <4>1. \A done \in Upto(b) : e[done] = IF done = {} THEN start
                ELSE Apply(g[done \ {LastEdge(done)}], LastEdge(done))
          OBVIOUS
        <4> HIDE DEF e
        <4> QED BY <3>4, <3>6, <4>1
      <3>8. Given(e, b)
        <4>1. e = [done \in Upto(b) |-> e[done]]
          OBVIOUS
        <4> HIDE DEF e, Upto
        <4> QED BY <3>7, <4>1
      <3> HIDE DEF e, Given
      <3> QED BY <2>1, <3>8
    <2> QED BY <2>2, <2>3
  <1>4. PICK g : Given(g, Cardinality(S))
    <2>1. Cardinality(S) \in Nat
      BY <1>1
    <2> QED BY <1>3, <2>1
  <1>5. Upto(Cardinality(S)) = SUBSET S
    BY <1>1
  <1>6. g = [done \in SUBSET S |-> IF done = {} THEN start
               ELSE Apply(g[done \ {LastEdge(done)}], LastEdge(done))]
    <2> HIDE DEF Upto
    <2> QED BY <1>4, <1>5
  <1>7. h = [done \in SUBSET S |-> IF done = {} THEN start
               ELSE Apply(h[done \ {LastEdge(done)}], LastEdge(done))]
    <2> HIDE DEF Given, Bad, Upto
    <2> QED BY <1>6
  <1>8. ApplyAll(start, S) = h[S]
    BY DEF ApplyAll
  <1>9. Applies(h, S, start)
    BY <1>7 DEF Applies
  <1> HIDE DEF h
  <1> QED BY <1>8, <1>9

\* Two ids that an edge allows to be one vulnerability, and the sets that no
\* such edge leaves.
Tied(E, i, j) ==
  \/ <<i, j, TRUE>> \in E \/ <<j, i, TRUE>> \in E
  \/ ~({i, j} \subseteq CVEs) /\ (<<i, j, FALSE>> \in E \/ <<j, i, FALSE>> \in E)
Shut(E, X) == \A i \in X, j \in Ids : Tied(E, i, j) => j \in X

\* A grouping of ids: within the ceiling, and justified by the edges.
Grouping(uf, T, E) ==
  /\ uf \in [T -> T]
  /\ \A r \in T : Cardinality({i \in T : uf[i] = r}) <= MaxClusterSize
  /\ \A X \in SUBSET Ids : Shut(E, X) => \A i, j \in T : uf[i] = uf[j] /\ i \in X => j \in X

\* One edge keeps a grouping.
LEMMA ApplyKeeps ==
  ASSUME NEW T, T \subseteq Ids, NEW E, E \subseteq Edges, NEW e \in E, e[1] \in T, e[2] \in T,
         NEW acc \in [uf : [T -> T], flagged : SUBSET T], Grouping(acc.uf, T, E)
  PROVE  /\ Apply(acc, e) \in [uf : [T -> T], flagged : SUBSET T]
         /\ Grouping(Apply(acc, e).uf, T, E)
  <1> DEFINE a == e[1]
             b == e[2]
             uf == acc.uf
             G(r) == {i \in T : uf[i] = r}
  <1>1. uf \in [T -> T] /\ uf[a] \in T /\ uf[b] \in T /\ acc.flagged \subseteq T
    OBVIOUS
  <1>2. CASE ~MayMerge(e) \/ uf[a] = uf[b]
    BY <1>2 DEF Apply
  <1>3. CASE MayMerge(e) /\ uf[a] # uf[b] /\ Size(uf, a) + Size(uf, b) > MaxClusterSize
    <2>1. Apply(acc, e) = [acc EXCEPT !.flagged = @ \cup {uf[a], uf[b]}]
      BY <1>3 DEF Apply
    <2>2. Apply(acc, e).uf = uf /\ Apply(acc, e) \in [uf : [T -> T], flagged : SUBSET T]
      BY <1>1, <2>1
    <2> QED BY <2>2
  <1>4. CASE MayMerge(e) /\ uf[a] # uf[b] /\ ~(Size(uf, a) + Size(uf, b) > MaxClusterSize)
    <2> DEFINE vf == Union(uf, a, b)
    <2>1. Apply(acc, e) = [acc EXCEPT !.uf = vf]
      BY <1>4 DEF Apply
    <2>2. PICK root \in {uf[a], uf[b]} :
            vf = [i \in T |-> IF uf[i] \in {uf[a], uf[b]} THEN root ELSE uf[i]]
      <3>1. DOMAIN uf = T
        BY <1>1
      <3> QED BY <3>1 DEF Union
    <2>3. vf \in [T -> T] /\ root \in T
      BY <1>1, <2>2
    <2> HIDE DEF vf
    <2>4. Apply(acc, e).uf = vf /\ Apply(acc, e) \in [uf : [T -> T], flagged : SUBSET T]
      BY <1>1, <2>1, <2>3
    <2>5. Size(uf, a) = Cardinality(G(uf[a])) /\ Size(uf, b) = Cardinality(G(uf[b]))
      <3>1. DOMAIN uf = T
        BY <1>1
      <3> QED BY <3>1 DEF Size, Group
    <2>6. \A r \in T : IsFiniteSet(G(r)) /\ Cardinality(G(r)) \in Nat
      BY IdsCounted
    <2>7. Cardinality(G(uf[a]) \cup G(uf[b])) <= MaxClusterSize
      <3>1. G(uf[a]) \cap G(uf[b]) = {}
        BY <1>4
      <3>2. Cardinality(G(uf[a]) \cup G(uf[b]))
              = Cardinality(G(uf[a])) + Cardinality(G(uf[b])) - Cardinality(G(uf[a]) \cap G(uf[b]))
        <4> HIDE DEF G, uf, a, b
        <4> QED BY <1>1, <2>6, FS_Union
      <3>3. Cardinality(G(uf[a]) \cap G(uf[b])) = 0
        BY <3>1, FS_EmptySet
      <3>4. PICK p, q \in Nat : /\ p = Cardinality(G(uf[a])) /\ q = Cardinality(G(uf[b]))
                               /\ ~(p + q > MaxClusterSize)
        <4>1. Cardinality(G(uf[a])) \in Nat /\ Cardinality(G(uf[b])) \in Nat
          BY <1>1, <2>6
        <4>2. ~(Cardinality(G(uf[a])) + Cardinality(G(uf[b])) > MaxClusterSize)
          BY <1>4, <2>5
        <4> HIDE DEF G, uf, a, b
        <4> QED BY <4>1, <4>2
      <3>5. MaxClusterSize \in Nat
        BY AliasAssumption
      <3> HIDE DEF G, uf, a, b
      <3> QED BY <3>2, <3>3, <3>4, <3>5
    <2>8. ASSUME NEW r \in T PROVE Cardinality({i \in T : vf[i] = r}) <= MaxClusterSize
      <3>1. CASE r = root
        <4>1. {i \in T : vf[i] = r} = G(uf[a]) \cup G(uf[b])
          BY <1>1, <2>2, <3>1
        <4> QED BY <2>7, <4>1
      <3>2. CASE r # root
        <4>1. {i \in T : vf[i] = r} \in SUBSET G(r) /\ IsFiniteSet(G(r))
          BY <1>1, <2>2, <2>6, <3>2
        <4>2. Cardinality({i \in T : vf[i] = r}) <= Cardinality(G(r))
              /\ Cardinality({i \in T : vf[i] = r}) \in Nat
          <5> DEFINE V == {i \in T : vf[i] = r}
          <5> HIDE DEF V, G
          <5>1. V \in SUBSET G(r) /\ IsFiniteSet(G(r))
            BY <4>1 DEF V
          <5>2. IsFiniteSet(V) /\ Cardinality(V) <= Cardinality(G(r))
            BY <5>1, FS_Subset
          <5>3. Cardinality(V) \in Nat
            BY <5>2, FS_CardinalityType
          <5> QED BY <5>2, <5>3 DEF V
        <4>3. Cardinality(G(r)) <= MaxClusterSize
          BY DEF Grouping
        <4> HIDE DEF G
        <4> QED BY <2>6, <4>2, <4>3, AliasAssumption
      <3> QED BY <3>1, <3>2
    <2>9. Tied(E, a, b) /\ Tied(E, b, a)
      <3>1. e = <<a, b, e[3]>> /\ e[3] \in BOOLEAN
        BY DEF Edges
      <3>2. CASE e[3] = TRUE
        <4>1. <<a, b, TRUE>> \in E
          BY <3>1, <3>2
        <4> HIDE DEF a, b
        <4> QED BY <4>1 DEF Tied
      <3>3. CASE e[3] = FALSE
        <4>1. <<a, b, FALSE>> \in E
          BY <3>1, <3>3
        <4>2. ~({a, b} \subseteq CVEs)
          BY <1>4, <3>3 DEF MayMerge
        <4> HIDE DEF a, b
        <4>3. ~({b, a} \subseteq CVEs)
          BY <4>2
        <4> QED BY <4>1, <4>2, <4>3 DEF Tied
      <3> QED BY <3>1, <3>2, <3>3
    <2>10. ASSUME NEW X \in SUBSET Ids, Shut(E, X), NEW i \in T, NEW j \in T, vf[i] = vf[j], i \in X
           PROVE  j \in X
      <3>1. \A k, l \in T : uf[k] = uf[l] /\ k \in X => l \in X
        BY <2>10 DEF Grouping
      <3>2. a \in X <=> b \in X
        <4>1. a \in Ids /\ b \in Ids
          OBVIOUS
        <4> HIDE DEF a, b
        <4> QED BY <2>9, <2>10, <4>1 DEF Shut
      <3>3. CASE uf[i] \in {uf[a], uf[b]}
        <4>1. uf[j] \in {uf[a], uf[b]}
          BY <1>1, <2>2, <2>10, <3>3
        <4>2. a \in T /\ b \in T
          OBVIOUS
        <4> HIDE DEF a, b, uf
        <4>3. a \in X /\ b \in X
          BY <2>10, <3>1, <3>2, <3>3, <4>2
        <4> QED BY <2>10, <3>1, <4>1, <4>2, <4>3
      <3>4. CASE uf[i] \notin {uf[a], uf[b]}
        <4>1. uf[j] = uf[i]
          BY <1>1, <2>2, <2>10, <3>4
        <4> QED BY <2>10, <3>1, <4>1
      <3> QED BY <3>3, <3>4
    <2>11. Grouping(vf, T, E)
      BY <2>3, <2>8, <2>10 DEF Grouping
    <2> QED BY <2>4, <2>11
  <1> QED BY <1>2, <1>3, <1>4

\* What close returns is a grouping of what the scan's artifacts name, justified by
\* their edges (close).
LEMMA CloseGroups ==
  ASSUME NEW said \in Contents
  PROVE  /\ Touched(said) \subseteq Ids
         /\ Grouping(Close(said).uf, Touched(said), said.edges)
  <1> DEFINE T == Touched(said)
             E == said.edges
             S == Unique(E)
             start == [uf |-> [i \in T |-> i], flagged |-> {}]
             Sound(acc) == acc \in [uf : [T -> T], flagged : SUBSET T] /\ Grouping(acc.uf, T, E)
  <1>1. said.seeds \subseteq Ids /\ E \subseteq Edges
    BY NormalizeAssumption
  <1>2. \A e \in E : e[1] \in Ids /\ e[2] \in Ids /\ e[1] \in T /\ e[2] \in T
    BY <1>1 DEF Edges, Touched
  <1>3. T \subseteq Ids
    BY <1>1, <1>2 DEF Touched
  <1>4. S \subseteq E
    BY DEF Unique
  <1>5. Sound(start)
    <2>1. start \in [uf : [T -> T], flagged : SUBSET T] /\ start.uf = [i \in T |-> i]
      OBVIOUS
    <2>2. ASSUME NEW r \in T PROVE Cardinality({i \in T : [k \in T |-> k][i] = r}) <= MaxClusterSize
      <3>1. {i \in T : [k \in T |-> k][i] = r} = {r}
        OBVIOUS
      <3>2. Cardinality({r}) = 1
        BY FS_Singleton
      <3>3. 1 <= MaxClusterSize
        BY AliasAssumption
      <3> QED BY <3>1, <3>2, <3>3
    <2>3. Grouping([i \in T |-> i], T, E)
      <3> HIDE DEF T, E
      <3> QED BY <2>2 DEF Grouping
    <2> HIDE DEF start, T
    <2> QED BY <2>1, <2>3
  <1>6. PICK f : ApplyAll(start, S) = f[S] /\ Applies(f, S, start)
    <2> HIDE DEF start, S
    <2>1. S \subseteq Edges
      BY <1>1, <1>4
    <2> QED BY <2>1, ApplyAllExists
  <1> HIDE DEF start, S, T, E
  <1> DEFINE Bad == {k \in Nat : \E done \in SUBSET S : Cardinality(done) = k /\ ~Sound(f[done])}
  <1>7. \A done \in SUBSET S : IsFiniteSet(done) /\ Cardinality(done) \in Nat
    <2>1. IsFiniteSet(S)
      BY <1>1, <1>4, EdgesFinite, FS_Subset
    <2> QED BY <2>1, FS_Subset, FS_CardinalityType
  <1>8. ASSUME Bad # {} PROVE FALSE
    <2>1. PICK b \in Bad : \A k \in Bad : b <= k
      <3>1. Bad \subseteq Nat
        OBVIOUS
      <3> HIDE DEF Bad
      <3> QED BY <1>8, <3>1, Least
    <2>2. PICK done \in SUBSET S : Cardinality(done) = b /\ ~Sound(f[done])
      BY <2>1
    <2>3. f[done] = IF done = {} THEN start ELSE Apply(f[done \ {LastEdge(done)}], LastEdge(done))
      <3> HIDE DEF Bad, Sound
      <3> QED BY <1>6 DEF Applies
    <2>4. done # {}
      <3> HIDE DEF Sound
      <3> QED BY <1>5, <2>2, <2>3
    <2> DEFINE e == LastEdge(done)
    <2>5. e \in done
      BY <1>1, <1>4, <2>4, LastEdgeIsOne
    <2> HIDE DEF e
    <2>6. Sound(f[done \ {e}])
      <3>1. Cardinality(done \ {e}) = b - 1 /\ b \in Nat /\ b - 1 \in Nat /\ ~ (b <= b - 1)
        <4>1. IsFiniteSet(done \ {e}) /\ Cardinality(done \ {e}) = b - 1
          BY <1>7, <2>2, <2>5, FS_RemoveElement
        <4>2. Cardinality(done \ {e}) \in Nat
          BY <4>1, FS_CardinalityType
        <4>3. b \in Nat
          BY <1>7, <2>2
        <4> QED BY <4>1, <4>2, <4>3
      <3>2. b - 1 \notin Bad
        <4> HIDE DEF Bad
        <4> QED BY <2>1, <3>1
      <3> HIDE DEF Sound
      <3> QED BY <3>1, <3>2
    <2>7. e \in E
      BY <1>4, <2>5
    <2>8. Sound(Apply(f[done \ {e}], e))
      <3> DEFINE acc == f[done \ {e}]
      <3>1. acc \in [uf : [T -> T], flagged : SUBSET T] /\ Grouping(acc.uf, T, E)
        BY <2>6
      <3> HIDE DEF acc
      <3>2. Sound(Apply(acc, e))
        BY <1>1, <1>2, <1>3, <2>7, <3>1, ApplyKeeps
      <3> HIDE DEF Sound
      <3> QED BY <3>2 DEF acc
    <2>9. f[done] = Apply(f[done \ {e}], e)
      BY <2>3, <2>4 DEF e
    <2> HIDE DEF Sound
    <2> QED BY <2>2, <2>8, <2>9
  <1>9. Sound(f[S])
    <2> HIDE DEF Sound
    <2>1. Cardinality(S) \in Nat /\ S \in SUBSET S
      BY <1>7
    <2> QED BY <1>8, <2>1
  <1>10. Close(said) = [f[S] EXCEPT !.flagged = {f[S].uf[r] : r \in @}]
    <2>1. Close(said) = [ApplyAll(start, S) EXCEPT !.flagged = {ApplyAll(start, S).uf[r] : r \in @}]
      BY DEF Close, start, S, T, E
    <2> QED BY <1>6, <2>1
  <1>11. Close(said).uf = f[S].uf
    BY <1>9, <1>10
  <1> QED BY <1>3, <1>9, <1>11 DEF T, E

(***************************************************************************)
(* Forwarding rows                                                         *)
(***************************************************************************)
\* A cluster is only ever forwarded to an older one.
Forwards(g) == g.forward \in [Clusters -> Clusters] /\ \A c \in Clusters : g.forward[c] <= c

\* h takes each cluster to the end of its rows.
Ends(h, g) == h = [d \in Clusters |-> IF g.forward[d] = d THEN d ELSE h[g.forward[d]]]

LEMMA ResolveExists ==
  ASSUME NEW g, Forwards(g)
  PROVE  \E h : Ends(h, g) /\ \A c \in Clusters : Resolve(g, c) = h[c]
  <1> DEFINE F == g.forward
             Given(e, k) == e = [d \in 1..k |-> IF F[d] = d THEN d ELSE e[F[d]]]
             N == Cardinality(Ids)
             Bad == {k \in 0..N : ~ \E e : Given(e, k)}
             h == CHOOSE end : end = [d \in Clusters |-> IF g.forward[d] = d THEN d ELSE end[g.forward[d]]]
  <1>1. N \in Nat /\ Clusters = 1..N
    BY IdsCounted DEF Clusters
  <1>2. \A c \in 1..N : F[c] \in 1..N /\ F[c] <= c
    BY <1>1 DEF Forwards
  <1> HIDE DEF F, N
  <1>3. ASSUME Bad # {} PROVE FALSE
    <2>1. PICK b \in Bad : \A k \in Bad : b <= k
      <3>1. Bad \subseteq Nat
        BY <1>1
      <3> HIDE DEF Bad
      <3> QED BY <1>3, <3>1, Least
    <2>2. b # 0
      <3>1. ASSUME b = 0 PROVE FALSE
        <4>1. Given([d \in 1..0 |-> d], 0)
          OBVIOUS
        <4> HIDE DEF Given
        <4> QED BY <2>1, <3>1, <4>1
      <3> QED BY <3>1
    <2>3. b \in 1..N /\ b - 1 \in 0..N /\ ~ (b <= b - 1)
      BY <1>1, <2>1, <2>2
    <2>4. b - 1 \notin Bad
      <3> HIDE DEF Bad
      <3> QED BY <2>1, <2>3
    <2>5. PICK e : Given(e, b - 1)
      BY <2>3, <2>4
    <2> DEFINE s == [d \in 1..b |-> IF F[d] = d THEN d ELSE e[F[d]]]
    <2>6. \A d \in 1..(b - 1) : d \in 1..N /\ s[d] = e[d]
      <3>1. \A d \in 1..(b - 1) : e[d] = IF F[d] = d THEN d ELSE e[F[d]]
        BY <2>5
      <3>2. \A d \in 1..(b - 1) : d \in 1..b /\ d \in 1..N
        BY <1>1, <2>3
      <3> QED BY <3>1, <3>2
    <2>7. \A d \in 1..b : s[d] = IF F[d] = d THEN d ELSE s[F[d]]
      <3> TAKE d \in 1..b
      <3>1. d \in 1..N /\ (F[d] # d => F[d] \in 1..(b - 1))
        BY <1>1, <1>2, <2>3
      <3>2. s[d] = IF F[d] = d THEN d ELSE e[F[d]]
        OBVIOUS
      <3> HIDE DEF s
      <3> QED BY <2>6, <3>1, <3>2
    <2>8. Given(s, b)
      <3>1. s = [d \in 1..b |-> s[d]]
        OBVIOUS
      <3> HIDE DEF s
      <3> QED BY <2>7, <3>1
    <2> HIDE DEF s, Given
    <2> QED BY <2>1, <2>8
  <1>4. PICK e : Given(e, N)
    BY <1>1, <1>3
  <1>5. Ends(e, g)
    BY <1>1, <1>4 DEF Ends, F
  <1>6. Ends(h, g)
    BY <1>5 DEF Ends
  <1>7. \A c \in Clusters : Resolve(g, c) = h[c]
    BY DEF Resolve
  <1> HIDE DEF h
  <1> QED BY <1>6, <1>7

\* resolve_cluster follows one row, and then the rest.
LEMMA ResolveStep ==
  ASSUME NEW g, Forwards(g), NEW c \in Clusters
  PROVE  Resolve(g, c) = IF g.forward[c] = c THEN c ELSE Resolve(g, g.forward[c])
  <1>1. PICK h : Ends(h, g) /\ \A d \in Clusters : Resolve(g, d) = h[d]
    BY ResolveExists
  <1>2. h[c] = IF g.forward[c] = c THEN c ELSE h[g.forward[c]]
    BY <1>1 DEF Ends
  <1>3. g.forward[c] \in Clusters
    BY DEF Forwards
  <1> QED BY <1>1, <1>2, <1>3

\* It ends at a cluster that is forwarded nowhere.
LEMMA ResolveEnds ==
  ASSUME NEW g, Forwards(g), NEW c \in Clusters
  PROVE  /\ Resolve(g, c) \in Clusters /\ Resolve(g, c) <= c
         /\ g.forward[Resolve(g, c)] = Resolve(g, c)
         /\ Resolve(g, Resolve(g, c)) = Resolve(g, c)
  <1> DEFINE Good(d) == /\ Resolve(g, d) \in Clusters /\ Resolve(g, d) <= d
                        /\ g.forward[Resolve(g, d)] = Resolve(g, d)
             Bad == {d \in Clusters : ~Good(d)}
  <1>1. Clusters \subseteq Nat
    BY DEF Clusters
  <1>2. ASSUME Bad # {} PROVE FALSE
    <2>1. PICK b \in Bad : \A d \in Bad : b <= d
      <3>1. Bad \subseteq Nat
        BY <1>1
      <3> HIDE DEF Bad
      <3> QED BY <1>2, <3>1, Least
    <2>2. b \in Clusters /\ ~Good(b)
      BY <2>1
    <2>3. g.forward[b] \in Clusters /\ g.forward[b] <= b
      BY <2>2 DEF Forwards
    <2>4. Resolve(g, b) = IF g.forward[b] = b THEN b ELSE Resolve(g, g.forward[b])
      BY <2>2, ResolveStep
    <2>5. CASE g.forward[b] = b
      <3>1. Good(b)
        BY <1>1, <2>2, <2>4, <2>5
      <3> QED BY <2>2, <3>1
    <2>6. CASE g.forward[b] # b
      <3>1. ~ (b <= g.forward[b]) /\ b \in Nat /\ g.forward[b] \in Nat
        <4>1. b \in Clusters
          BY <2>2
        <4>2. b \in Nat /\ g.forward[b] \in Nat
          BY <1>1, <2>3, <4>1
        <4> HIDE DEF Good
        <4> QED BY <2>3, <2>6, <4>2
      <3>2. g.forward[b] \notin Bad
        <4> HIDE DEF Bad
        <4> QED BY <2>1, <3>1
      <3>3. Good(g.forward[b])
        <4> HIDE DEF Good
        <4> QED BY <2>3, <3>2
      <3>4. Resolve(g, b) = Resolve(g, g.forward[b])
        BY <2>4, <2>6
      <3>5. Resolve(g, b) \in Clusters /\ Resolve(g, b) <= g.forward[b] /\ g.forward[Resolve(g, b)] = Resolve(g, b)
        BY <3>3, <3>4
      <3>6. Resolve(g, b) \in Nat
        BY <1>1, <3>5
      <3>7. Resolve(g, b) <= b
        <4> HIDE DEF Good
        <4> QED BY <2>3, <3>1, <3>5, <3>6
      <3>8. Good(b)
        BY <3>5, <3>7
      <3> QED BY <2>2, <3>8
    <2> QED BY <2>5, <2>6
  <1>3. Good(c)
    <2> HIDE DEF Good
    <2> QED BY <1>2
  <1>4. Resolve(g, Resolve(g, c)) = Resolve(g, c)
    BY <1>3, ResolveStep
  <1> QED BY <1>3, <1>4

\* With forwarding rows from some ends to one of them, what ended in any of these ends in it.
LEMMA ResolveForwarded ==
  ASSUME NEW g, Forwards(g), NEW roots \in SUBSET Clusters,
         \A r \in roots : g.forward[r] = r,
         NEW w \in roots, \A r \in roots : w <= r,
         NEW h, h.forward = [c \in Clusters |-> IF c \in roots THEN w ELSE g.forward[c]]
  PROVE  /\ Forwards(h)
         /\ \A c \in Clusters : Resolve(h, c) = IF Resolve(g, c) \in roots THEN w ELSE Resolve(g, c)
  <1>1. Forwards(h)
    BY DEF Forwards
  <1>2. Clusters \subseteq Nat
    BY DEF Clusters
  <1>3. Resolve(h, w) = w
    <2>1. h.forward[w] = w /\ w \in Clusters
      OBVIOUS
    <2> QED BY <1>1, <2>1, ResolveStep
  <1> DEFINE Good(d) == Resolve(h, d) = IF Resolve(g, d) \in roots THEN w ELSE Resolve(g, d)
             Bad == {d \in Clusters : ~Good(d)}
  <1>4. ASSUME Bad # {} PROVE FALSE
    <2>1. PICK b \in Bad : \A d \in Bad : b <= d
      <3>1. Bad \subseteq Nat
        BY <1>2
      <3> HIDE DEF Bad
      <3> QED BY <1>4, <3>1, Least
    <2>2. b \in Clusters /\ ~Good(b)
      BY <2>1
    <2>3. g.forward[b] \in Clusters /\ g.forward[b] <= b
      BY <2>2 DEF Forwards
    <2>4. Resolve(g, b) = IF g.forward[b] = b THEN b ELSE Resolve(g, g.forward[b])
      BY <2>2, ResolveStep
    <2>5. Resolve(h, b) = IF h.forward[b] = b THEN b ELSE Resolve(h, h.forward[b])
      BY <1>1, <2>2, ResolveStep
    <2>6. CASE b \in roots
      <3>1. Resolve(g, b) = b /\ h.forward[b] = w
        BY <2>2, <2>4, <2>6
      <3>2. Resolve(h, b) = w
        BY <1>3, <2>5, <3>1
      <3> QED BY <2>2, <2>6, <3>1, <3>2
    <2>7. CASE b \notin roots /\ g.forward[b] = b
      <3>1. Resolve(g, b) = b /\ h.forward[b] = b
        BY <2>2, <2>4, <2>7
      <3> QED BY <2>2, <2>5, <2>7, <3>1
    <2>8. CASE b \notin roots /\ g.forward[b] # b
      <3>1. ~ (b <= g.forward[b]) /\ h.forward[b] = g.forward[b]
        BY <1>2, <2>2, <2>3, <2>8
      <3>2. g.forward[b] \notin Bad
        <4> HIDE DEF Bad
        <4> QED BY <2>1, <3>1
      <3>3. Good(g.forward[b])
        <4> HIDE DEF Good
        <4> QED BY <2>3, <3>2
      <3>4. Resolve(g, b) = Resolve(g, g.forward[b]) /\ Resolve(h, b) = Resolve(h, g.forward[b])
        BY <2>4, <2>5, <2>8, <3>1
      <3> QED BY <2>2, <3>3, <3>4
    <2> QED BY <2>6, <2>7, <2>8
  <1> QED BY <1>1, <1>4

LEMMA ResolveSame ==
  ASSUME NEW g, NEW h, h.forward = g.forward
  PROVE  \A c : Resolve(h, c) = Resolve(g, c)
  BY DEF Resolve

(***************************************************************************)
(* The cluster graph                                                       *)
(***************************************************************************)
Graphs == [idOf : [Ids -> Clusters \cup {NoCluster}], forward : [Clusters -> Clusters],
           count : [Clusters -> Nat], flagged : SUBSET Clusters, next : 1..(Cardinality(Ids) + 1)]

\* The ids that end in a cluster.
Ending(g, c) == {i \in Known(g) : Resolve(g, g.idOf[i]) = c}

\* The clusters below next are the ones that were minted, each for an id, and the
\* others are not yet forwarded.
Minted(g) ==
  /\ Forwards(g) /\ \A c \in Clusters : c >= g.next => g.forward[c] = c
  /\ \A i \in Known(g) : g.idOf[i] < g.next
  /\ \A c \in Clusters : c < g.next => \E i \in Ids : g.idOf[i] = c

\* What ends in a cluster is within the ceiling and counted.
Capped(g) ==
  \A c \in Clusters : /\ Cardinality(Ending(g, c)) <= MaxClusterSize
                      /\ Ending(g, c) # {} => g.count[c] = Cardinality(Ending(g, c))

\* What ends in one cluster, edges lead from one to the other.
Justified(g, E) ==
  \A X \in SUBSET Ids : Shut(E, X) =>
    \A i, j \in Known(g) : Resolve(g, g.idOf[i]) = Resolve(g, g.idOf[j]) /\ i \in X => j \in X

GraphInv(g, E) == g \in Graphs /\ Minted(g) /\ Capped(g) /\ Justified(g, E)

LEMMA GraphFields ==
  ASSUME NEW g \in Graphs
  PROVE  /\ g.idOf \in [Ids -> Clusters \cup {NoCluster}] /\ g.forward \in [Clusters -> Clusters]
         /\ g.count \in [Clusters -> Nat] /\ g.flagged \subseteq Clusters
         /\ g.next \in 1..(Cardinality(Ids) + 1) /\ g.next \in Nat
         /\ Clusters \subseteq Nat \ {0} /\ Cardinality(Ids) \in Nat
         /\ \A i \in Known(g) : i \in Ids /\ g.idOf[i] \in Clusters
         /\ \A i \in Ids : i \notin Known(g) => g.idOf[i] = NoCluster
  <1>1. /\ g.idOf \in [Ids -> Clusters \cup {NoCluster}] /\ g.forward \in [Clusters -> Clusters]
        /\ g.count \in [Clusters -> Nat] /\ g.flagged \subseteq Clusters
        /\ g.next \in 1..(Cardinality(Ids) + 1)
    BY DEF Graphs
  <1>2. Cardinality(Ids) \in Nat
    BY IdsCounted
  <1>3. Clusters \subseteq Nat \ {0}
    BY DEF Clusters
  <1>4. g.next \in Nat
    BY <1>1, <1>2
  <1>5. \A i \in Known(g) : i \in Ids /\ g.idOf[i] \in Clusters
    BY <1>1 DEF Known
  <1>6. \A i \in Ids : i \notin Known(g) => g.idOf[i] = NoCluster
    BY DEF Known
  <1> QED BY <1>1, <1>2, <1>3, <1>4, <1>5, <1>6

\* The empty graph is sound.
LEMMA GraphInit == ASSUME NEW E PROVE GraphInv(NoGraph, E)
  <1>1. Cardinality(Ids) \in Nat /\ Clusters \subseteq Nat
    BY IdsCounted DEF Clusters
  <1>2. /\ NoGraph.idOf = [i \in Ids |-> NoCluster] /\ NoGraph.forward = [c \in Clusters |-> c]
        /\ NoGraph.next = 1
    BY DEF NoGraph
  <1>3. NoGraph \in Graphs
    BY <1>1 DEF NoGraph, Graphs, NoCluster
  <1>4. Known(NoGraph) = {}
    BY <1>2 DEF Known, NoCluster
  <1>5. Minted(NoGraph)
    <2>1. \A c \in Clusters : c \in Nat /\ ~(c < 1)
      BY <1>1 DEF Clusters
    <2> QED BY <1>2, <1>4, <2>1 DEF Minted, Forwards
  <1>6. Capped(NoGraph)
    <2>1. \A c : Ending(NoGraph, c) = {}
      BY <1>4 DEF Ending
    <2>2. 0 <= MaxClusterSize
      BY AliasAssumption
    <2> QED BY <2>1, <2>2, FS_EmptySet DEF Capped
  <1>7. Justified(NoGraph, E)
    BY <1>4 DEF Justified
  <1> QED BY <1>3, <1>5, <1>6, <1>7 DEF GraphInv

\* A cluster can be minted as long as an id is in none.
LEMMA RoomForOne ==
  ASSUME NEW g \in Graphs, Minted(g), NEW m \in Ids, m \notin Known(g)
  PROVE  g.next \in Clusters
  <1> DEFINE N == Cardinality(Ids)
             K == Known(g)
             M == 1..(g.next - 1)
             f == [i \in K |-> g.idOf[i]]
  <1>1. N \in Nat /\ g.next \in 1..(N + 1) /\ Clusters = 1..N
    BY GraphFields DEF Clusters
  <1>2. K \in SUBSET Ids /\ IsFiniteSet(K) /\ Cardinality(K) \in Nat /\ Cardinality(K) < N
    <2>1. K \in SUBSET Ids
      BY DEF Known
    <2>2. IsFiniteSet(K) /\ Cardinality(K) \in Nat /\ Cardinality(K) <= N
      BY <2>1, IdsCounted
    <2>3. Cardinality(K) # N
      <3> HIDE DEF K
      <3>1. Ids # K
        BY DEF K
      <3> QED BY <2>1, <3>1, AliasAssumption, FS_Subset
    <2> HIDE DEF K, N
    <2> QED BY <1>1, <2>1, <2>2, <2>3
  <1>3. f \in Surjection(K, M)
    <2>1. f \in [K -> M]
      <3>1. \A i \in K : g.idOf[i] \in M
        <4> TAKE i \in K
        <4>1. g.idOf[i] \in 1..N /\ g.idOf[i] < g.next
          BY <1>1, GraphFields DEF Minted
        <4> HIDE DEF K, N
        <4> QED BY <1>1, <4>1
      <3> HIDE DEF K, M
      <3> QED BY <3>1
    <2>2. ASSUME NEW c \in M PROVE \E i \in K : f[i] = c
      <3>1. c \in 1..N /\ c < g.next /\ c # 0
        <4> HIDE DEF N
        <4> QED BY <1>1
      <3>2. PICK i \in Ids : g.idOf[i] = c
        BY <1>1, <3>1 DEF Minted
      <3>3. i \in K
        BY <3>1, <3>2 DEF Known, NoCluster
      <3> QED BY <3>2, <3>3
    <2> HIDE DEF f, K, M
    <2> QED BY <2>1, <2>2 DEF Surjection
  <1>4. Cardinality(M) <= Cardinality(K)
    <2> HIDE DEF f, K, M
    <2> QED BY <1>2, <1>3, FS_Surjection
  <1>5. Cardinality(M) = g.next - 1
    <2>1. 1 \in Int /\ g.next - 1 \in Int /\ g.next \in Nat /\ g.next >= 1
      <3> HIDE DEF N
      <3> QED BY <1>1
    <2>2. Cardinality(M) = IF 1 > g.next - 1 THEN 0 ELSE (g.next - 1) - 1 + 1
      BY <2>1, FS_Interval
    <2> HIDE DEF M
    <2> QED BY <2>1, <2>2
  <1> HIDE DEF N, K, M
  <1> QED BY <1>1, <1>2, <1>4, <1>5

\* Ids that are of one vulnerability, as the edges have it.
Alike(ids, E) == \A X \in SUBSET Ids : Shut(E, X) => \A i, j \in ids : i \in X => j \in X

\* A cluster minted for ids that are in none.
LEMMA NewClusterKeeps ==
  ASSUME NEW E, NEW g, GraphInv(g, E), NEW ids \in SUBSET Ids, ids # {}, ids \cap Known(g) = {},
         Cardinality(ids) <= MaxClusterSize, Alike(ids, E), NEW flag,
         NEW h, h = NewCluster(g, ids, flag)
  PROVE  /\ GraphInv(h, E) /\ h.forward = g.forward /\ g.next \in Clusters
         /\ \A i \in Ids : h.idOf[i] = IF i \in ids THEN g.next ELSE g.idOf[i]
         /\ Resolve(h, g.next) = g.next
  <1> DEFINE n == g.next
  <1>1. g \in Graphs /\ Minted(g) /\ Capped(g) /\ Justified(g, E)
    BY DEF GraphInv
  <1>2. n \in Clusters /\ n \in Nat /\ n # 0 /\ n \in 1..Cardinality(Ids)
    <2>1. \E m \in ids : m \in Ids /\ m \notin Known(g)
      OBVIOUS
    <2>2. n \in Clusters
      BY <1>1, <2>1, RoomForOne
    <2> QED BY <1>1, <2>2, GraphFields DEF Clusters
  <1>3. /\ h.idOf = [i \in Ids |-> IF i \in ids /\ g.idOf[i] = NoCluster THEN n ELSE g.idOf[i]]
        /\ h.forward = g.forward /\ h.next = n + 1
        /\ h.count = [g.count EXCEPT ![n] = Cardinality(ids)]
        /\ h.flagged = IF flag THEN g.flagged \cup {n} ELSE g.flagged
        /\ h = [idOf |-> h.idOf, forward |-> h.forward, count |-> h.count, flagged |-> h.flagged, next |-> h.next]
    <2>1. g = [idOf |-> g.idOf, forward |-> g.forward, count |-> g.count, flagged |-> g.flagged, next |-> g.next]
      BY <1>1 DEF Graphs
    <2> QED BY <2>1 DEF NewCluster, Attach
  <1>4. /\ g.idOf \in [Ids -> Clusters \cup {NoCluster}] /\ g.forward \in [Clusters -> Clusters]
        /\ g.count \in [Clusters -> Nat] /\ g.flagged \subseteq Clusters /\ Cardinality(Ids) \in Nat
        /\ Clusters \subseteq Nat \ {0}
        /\ \A i \in Known(g) : i \in Ids /\ g.idOf[i] \in Clusters
    BY <1>1, GraphFields
  <1>5. \A i \in Ids : h.idOf[i] = IF i \in ids THEN n ELSE g.idOf[i]
    <2>1. \A i \in ids : g.idOf[i] = NoCluster
      BY <1>1, GraphFields
    <2> QED BY <1>3, <2>1
  <1>6. Cardinality(ids) \in Nat
    BY IdsCounted
  <1> HIDE DEF n
  <1>7. h \in Graphs
    <2>1. h.idOf \in [Ids -> Clusters \cup {NoCluster}]
      BY <1>2, <1>3, <1>4
    <2>2. h.next \in 1..(Cardinality(Ids) + 1)
      BY <1>2, <1>3, <1>4
    <2>3. h.count \in [Clusters -> Nat] /\ h.flagged \subseteq Clusters /\ h.forward \in [Clusters -> Clusters]
      BY <1>2, <1>3, <1>4, <1>6
    <2> QED BY <1>3, <2>1, <2>2, <2>3 DEF Graphs
  <1>8. Known(h) = Known(g) \cup ids
    BY <1>2, <1>5 DEF Known, NoCluster
  <1>9. \A c : Resolve(h, c) = Resolve(g, c)
    BY <1>3, ResolveSame
  <1>10. Forwards(g)
    BY <1>1 DEF Minted
  <1>11. Resolve(h, n) = n
    <2>1. g.forward[n] = n
      BY <1>1, <1>2 DEF Minted, n
    <2> QED BY <1>2, <1>9, <1>10, <2>1, ResolveStep
  <1>12. \A i \in Known(g) : /\ i \notin ids /\ h.idOf[i] = g.idOf[i]
                             /\ Resolve(g, g.idOf[i]) \in Clusters /\ Resolve(g, g.idOf[i]) # n
    <2> TAKE i \in Known(g)
    <2>1. g.idOf[i] \in Clusters /\ g.idOf[i] < n /\ i \in Ids
      BY <1>1, <1>4 DEF Minted, n
    <2>2. Resolve(g, g.idOf[i]) \in Clusters /\ Resolve(g, g.idOf[i]) <= g.idOf[i]
      BY <1>10, <2>1, ResolveEnds
    <2>3. Resolve(g, g.idOf[i]) # n
      <3>1. g.idOf[i] \in Nat /\ Resolve(g, g.idOf[i]) \in Nat
        BY <1>4, <2>1, <2>2
      <3> QED BY <1>2, <2>1, <2>2, <3>1
    <2> QED BY <1>5, <2>1, <2>2, <2>3
  <1>13. \A i \in ids : i \in Ids /\ h.idOf[i] = n /\ Resolve(h, h.idOf[i]) = n
    BY <1>5, <1>11
  <1>14. Ending(h, n) = ids /\ Ending(g, n) = {}
    BY <1>8, <1>9, <1>12, <1>13 DEF Ending
  <1>15. \A c : c # n => Ending(h, c) = Ending(g, c)
    BY <1>8, <1>9, <1>12, <1>13 DEF Ending
  <1>16. Minted(h)
    <2>1. Forwards(h)
      BY <1>3, <1>10 DEF Forwards
    <2>2. \A c \in Clusters : c >= h.next => h.forward[c] = c
      <3> TAKE c \in Clusters
      <3>1. c \in Nat /\ (c >= n + 1 => c >= n)
        BY <1>2, <1>4
      <3> QED BY <1>1, <1>3, <3>1 DEF Minted, n
    <2>3. \A i \in Known(h) : h.idOf[i] < h.next
      <3> TAKE i \in Known(h)
      <3>1. CASE i \in ids
        BY <1>2, <1>3, <1>13, <3>1
      <3>2. CASE i \in Known(g)
        <4>1. g.idOf[i] < n /\ g.idOf[i] \in Nat
          BY <1>1, <1>4, <3>2 DEF Minted, n
        <4> QED BY <1>2, <1>3, <1>12, <3>2, <4>1
      <3> QED BY <1>8, <3>1, <3>2
    <2>4. \A c \in Clusters : c < h.next => \E i \in Ids : h.idOf[i] = c
      <3> TAKE c \in Clusters
      <3> HAVE c < h.next
      <3>1. CASE c = n
        BY <1>13, <3>1
      <3>2. CASE c # n
        <4>1. c \in Nat /\ c # 0 /\ c < n
          BY <1>2, <1>3, <1>4, <3>2
        <4>2. PICK i \in Ids : g.idOf[i] = c
          BY <1>1, <4>1 DEF Minted, n
        <4>3. i \in Known(g)
          BY <4>1, <4>2 DEF Known, NoCluster
        <4> QED BY <1>12, <4>2, <4>3
      <3> QED BY <3>1, <3>2
    <2> QED BY <2>1, <2>2, <2>3, <2>4 DEF Minted
  <1>17. Capped(h)
    <2> SUFFICES ASSUME NEW c \in Clusters
                 PROVE  /\ Cardinality(Ending(h, c)) <= MaxClusterSize
                        /\ Ending(h, c) # {} => h.count[c] = Cardinality(Ending(h, c))
      BY DEF Capped
    <2>1. CASE c = n
      <3>1. h.count[n] = Cardinality(ids)
        BY <1>2, <1>3, <1>4
      <3> QED BY <1>14, <2>1, <3>1
    <2>2. CASE c # n
      <3>1. h.count[c] = g.count[c]
        BY <1>3, <1>4, <2>2
      <3> QED BY <1>1, <1>15, <2>2, <3>1 DEF Capped
    <2> QED BY <2>1, <2>2
  <1>18. Justified(h, E)
    <2> SUFFICES ASSUME NEW X \in SUBSET Ids, Shut(E, X), NEW i \in Known(h), NEW j \in Known(h),
                        Resolve(h, h.idOf[i]) = Resolve(h, h.idOf[j]), i \in X
                 PROVE  j \in X
      BY DEF Justified
    <2>1. CASE i \in ids /\ j \in ids
      BY <2>1 DEF Alike
    <2>2. CASE i \in Known(g) /\ j \in Known(g)
      <3>1. Resolve(g, g.idOf[i]) = Resolve(g, g.idOf[j])
        BY <1>9, <1>12, <2>2
      <3> QED BY <1>1, <2>2, <3>1 DEF Justified
    <2>3. CASE i \in ids /\ j \in Known(g)
      BY <1>9, <1>12, <1>13, <2>3
    <2>4. CASE i \in Known(g) /\ j \in ids
      BY <1>9, <1>12, <1>13, <2>4
    <2> QED BY <1>8, <2>1, <2>2, <2>3, <2>4
  <1> QED BY <1>2, <1>3, <1>5, <1>7, <1>11, <1>16, <1>17, <1>18 DEF GraphInv, n

\* The members that a merge begins with are those that end in one of the roots.
LEMMA MembersEnd ==
  ASSUME NEW g, Forwards(g), NEW roots \in SUBSET Clusters, \A r \in roots : g.forward[r] = r
  PROVE  MembersOf(g, roots) = {i \in Known(g) : Resolve(g, g.idOf[i]) \in roots}
  <1>1. \A r \in roots : Resolve(g, r) = r
    BY ResolveStep
  <1>2. \A r \in roots : Members(g, r) = {i \in Known(g) : Resolve(g, g.idOf[i]) = r}
    BY <1>1 DEF Members
  <1>3. ASSUME NEW i PROVE i \in MembersOf(g, roots) <=> i \in Known(g) /\ Resolve(g, g.idOf[i]) \in roots
    <2>1. i \in MembersOf(g, roots) <=> \E r \in roots : i \in Members(g, r)
      BY DEF MembersOf
    <2> QED BY <1>2, <2>1
  <1> QED BY <1>3

\* Clusters merged into the oldest of them, with ids that are in none.
LEMMA MergeKeeps ==
  ASSUME NEW E, NEW g, GraphInv(g, E), NEW roots \in SUBSET Clusters, roots # {},
         \A r \in roots : g.forward[r] = r /\ r < g.next,
         NEW new \in SUBSET Ids, new \cap Known(g) = {},
         Cardinality(MembersOf(g, roots)) + Cardinality(new) <= MaxClusterSize,
         Alike(MembersOf(g, roots) \cup new, E), NEW flag,
         NEW h, h = Merge(g, roots, new, flag), NEW w, w = Min(roots)
  PROVE  /\ GraphInv(h, E) /\ w \in roots
         /\ \A i \in Ids : h.idOf[i] = IF i \in new THEN w ELSE g.idOf[i]
         /\ \A c \in Clusters : Resolve(h, c) = IF Resolve(g, c) \in roots THEN w ELSE Resolve(g, c)
         /\ Resolve(h, w) = w
  <1> DEFINE merged == Attach(Forward(g, roots, w), w, new)
             M == MembersOf(g, roots)
  <1>1. g \in Graphs /\ Minted(g) /\ Capped(g) /\ Justified(g, E) /\ Forwards(g)
    BY DEF GraphInv, Minted
  <1>2. /\ g.idOf \in [Ids -> Clusters \cup {NoCluster}] /\ g.forward \in [Clusters -> Clusters]
        /\ g.count \in [Clusters -> Nat] /\ g.flagged \subseteq Clusters /\ Cardinality(Ids) \in Nat
        /\ Clusters \subseteq Nat \ {0} /\ g.next \in 1..(Cardinality(Ids) + 1) /\ g.next \in Nat
        /\ \A i \in Known(g) : i \in Ids /\ g.idOf[i] \in Clusters
        /\ \A i \in Ids : i \notin Known(g) => g.idOf[i] = NoCluster
    BY <1>1, GraphFields
  <1>3. w \in roots /\ \A r \in roots : w <= r
    <2>1. roots \subseteq Nat
      BY <1>2
    <2>2. \E x \in roots : \A y \in roots : x <= y
      BY <2>1, Least
    <2> QED BY <2>2 DEF Min
  <1>4. w \in Clusters
    BY <1>3
  <1>5. /\ merged.idOf = [i \in Ids |-> IF i \in new /\ g.idOf[i] = NoCluster THEN w ELSE g.idOf[i]]
        /\ merged.forward = [c \in Clusters |-> IF c \in roots THEN w ELSE g.forward[c]]
        /\ merged.next = g.next /\ merged.count = g.count /\ merged.flagged = g.flagged
        /\ merged = [idOf |-> merged.idOf, forward |-> merged.forward, count |-> merged.count,
                     flagged |-> merged.flagged, next |-> merged.next]
    <2>1. g = [idOf |-> g.idOf, forward |-> g.forward, count |-> g.count, flagged |-> g.flagged, next |-> g.next]
      BY <1>1 DEF Graphs
    <2> DEFINE f == Forward(g, roots, w)
    <2>2. /\ f.idOf = g.idOf /\ f.forward = [c \in Clusters |-> IF c \in roots THEN w ELSE g.forward[c]]
          /\ f.next = g.next /\ f.count = g.count /\ f.flagged = g.flagged
          /\ f = [idOf |-> f.idOf, forward |-> f.forward, count |-> f.count, flagged |-> f.flagged, next |-> f.next]
      BY <2>1 DEF Forward
    <2>3. merged = [f EXCEPT !.idOf = [i \in Ids |-> IF i \in new /\ @[i] = NoCluster THEN w ELSE @[i]]]
      BY DEF Attach
    <2> HIDE DEF f, merged
    <2> QED BY <2>2, <2>3
  <1>6. h = [merged EXCEPT !.count[w] = Cardinality(Members(merged, w)),
                           !.flagged = IF flag THEN @ \cup {w} ELSE @ \ {w}]
    BY DEF Merge
  <1> HIDE DEF merged
  <1>7. /\ h.idOf = merged.idOf /\ h.forward = merged.forward /\ h.next = g.next
        /\ h.count = [g.count EXCEPT ![w] = Cardinality(Members(merged, w))]
        /\ h.flagged = IF flag THEN g.flagged \cup {w} ELSE g.flagged \ {w}
        /\ h = [idOf |-> h.idOf, forward |-> h.forward, count |-> h.count, flagged |-> h.flagged, next |-> h.next]
    BY <1>5, <1>6, ZenonT(60)
  <1>8. \A i \in Ids : h.idOf[i] = IF i \in new THEN w ELSE g.idOf[i]
    <2>1. \A i \in new : g.idOf[i] = NoCluster
      BY <1>2
    <2> QED BY <1>5, <1>7, <2>1
  <1>9. /\ Forwards(h)
        /\ \A c \in Clusters : Resolve(h, c) = IF Resolve(g, c) \in roots THEN w ELSE Resolve(g, c)
    BY <1>1, <1>3, <1>5, <1>7, ResolveForwarded
  <1>10. Resolve(g, w) = w /\ Resolve(h, w) = w
    <2>1. Resolve(g, w) = w
      BY <1>1, <1>3, <1>4, ResolveStep
    <2> QED BY <1>3, <1>4, <1>9, <2>1
  <1>11. Known(h) = Known(g) \cup new /\ Known(merged) = Known(h)
    BY <1>2, <1>4, <1>7, <1>8 DEF Known, NoCluster
  <1>12. M = {i \in Known(g) : Resolve(g, g.idOf[i]) \in roots}
    BY <1>1, MembersEnd
  <1>13. \A i \in Known(g) : /\ i \notin new /\ h.idOf[i] = g.idOf[i]
                             /\ Resolve(g, g.idOf[i]) \in Clusters
                             /\ Resolve(h, h.idOf[i]) = IF i \in M THEN w ELSE Resolve(g, g.idOf[i])
    <2> TAKE i \in Known(g)
    <2>1. i \in Ids /\ g.idOf[i] \in Clusters /\ i \notin new /\ h.idOf[i] = g.idOf[i]
      BY <1>2, <1>8
    <2>2. Resolve(g, g.idOf[i]) \in Clusters
      BY <1>1, <2>1, ResolveEnds
    <2> HIDE DEF M
    <2> QED BY <1>9, <1>12, <2>1, <2>2
  <1>14. \A i \in new : i \in Ids /\ h.idOf[i] = w /\ Resolve(h, h.idOf[i]) = w
    BY <1>8, <1>10
  <1> HIDE DEF M
  <1>15. Ending(h, w) = M \cup new
    <2>1. \A i \in Known(g) : Resolve(g, g.idOf[i]) = w => i \in M
      BY <1>3, <1>12
    <2>2. M \subseteq Known(g)
      BY <1>12
    <2> QED BY <1>11, <1>13, <1>14, <2>1, <2>2 DEF Ending
  <1>16. \A c \in Clusters : c # w => Ending(h, c) = IF c \in roots THEN {} ELSE Ending(g, c)
    <2> TAKE c \in Clusters
    <2> HAVE c # w
    <2>1. \A i \in Known(g) : Resolve(g, g.idOf[i]) = c => (i \in M <=> c \in roots)
      BY <1>12
    <2>2. \A i \in Known(g) : i \in M => Resolve(g, g.idOf[i]) \in roots
      BY <1>12
    <2> QED BY <1>11, <1>13, <1>14, <2>1, <2>2 DEF Ending
  <1>17. Members(merged, w) = M \cup new
    <2>1. \A c : Resolve(merged, c) = Resolve(h, c)
      BY <1>7, ResolveSame
    <2> QED BY <1>7, <1>10, <1>11, <1>15, <2>1 DEF Members, Ending
  <1>18. Cardinality(M \cup new) \in Nat /\ Cardinality(M \cup new) <= MaxClusterSize
    <2>1. M \in SUBSET Ids
      BY <1>2, <1>12
    <2>2. M \cup new \in SUBSET Ids /\ M \cap new \in SUBSET Ids
      BY <2>1
    <2>3. IsFiniteSet(M) /\ IsFiniteSet(new) /\ Cardinality(M) \in Nat /\ Cardinality(new) \in Nat
          /\ Cardinality(M \cup new) \in Nat /\ Cardinality(M \cap new) \in Nat
      BY <2>1, <2>2, IdsCounted
    <2>4. Cardinality(M \cup new) = Cardinality(M) + Cardinality(new) - Cardinality(M \cap new)
      BY <2>3, FS_Union
    <2>5. Cardinality(M) + Cardinality(new) <= MaxClusterSize /\ MaxClusterSize \in Nat
      BY AliasAssumption DEF M
    <2> QED BY <2>3, <2>4, <2>5
  <1>19. h \in Graphs
    <2>1. h.idOf \in [Ids -> Clusters \cup {NoCluster}]
      BY <1>2, <1>4, <1>5, <1>7
    <2>2. h.forward \in [Clusters -> Clusters]
      BY <1>2, <1>4, <1>5, <1>7
    <2>3. h.count \in [Clusters -> Nat] /\ h.flagged \subseteq Clusters
      BY <1>2, <1>4, <1>7, <1>17, <1>18
    <2> QED BY <1>2, <1>7, <2>1, <2>2, <2>3 DEF Graphs
  <1>20. Minted(h)
    <2>1. \A c \in Clusters : c >= h.next => h.forward[c] = c
      <3> TAKE c \in Clusters
      <3> HAVE c >= h.next
      <3>1. c >= g.next /\ c \in Nat
        BY <1>2, <1>7
      <3>2. c \notin roots
        <4>1. \A r \in roots : r < g.next
          OBVIOUS
        <4> QED BY <1>2, <3>1, <4>1
      <3> QED BY <1>1, <1>5, <1>7, <3>1, <3>2 DEF Minted
    <2>2. \A i \in Known(h) : h.idOf[i] < h.next
      <3>1. w < g.next
        BY <1>3
      <3> QED BY <1>1, <1>7, <1>11, <1>13, <1>14, <3>1 DEF Minted
    <2>3. \A c \in Clusters : c < h.next => \E i \in Ids : h.idOf[i] = c
      <3> TAKE c \in Clusters
      <3> HAVE c < h.next
      <3>1. PICK i \in Ids : g.idOf[i] = c
        BY <1>1, <1>7 DEF Minted
      <3>2. i \in Known(g)
        BY <1>2, <3>1 DEF Known, NoCluster
      <3> QED BY <1>13, <3>1, <3>2
    <2> QED BY <1>9, <2>1, <2>2, <2>3 DEF Minted
  <1>21. Capped(h)
    <2> SUFFICES ASSUME NEW c \in Clusters
                 PROVE  /\ Cardinality(Ending(h, c)) <= MaxClusterSize
                        /\ Ending(h, c) # {} => h.count[c] = Cardinality(Ending(h, c))
      BY DEF Capped
    <2>1. CASE c = w
      <3>1. h.count[w] = Cardinality(M \cup new)
        BY <1>2, <1>4, <1>7, <1>17
      <3> QED BY <1>15, <1>18, <2>1, <3>1
    <2>2. CASE c # w /\ c \in roots
      <3>1. Ending(h, c) = {}
        BY <1>16, <2>2
      <3>2. 0 <= MaxClusterSize
        BY AliasAssumption
      <3> QED BY <3>1, <3>2, FS_EmptySet
    <2>3. CASE c # w /\ c \notin roots
      <3>1. h.count[c] = g.count[c]
        BY <1>2, <1>7, <2>3
      <3>2. Ending(h, c) = Ending(g, c)
        BY <1>16, <2>3
      <3> QED BY <1>1, <3>1, <3>2 DEF Capped
    <2> QED BY <2>1, <2>2, <2>3
  <1>22. Justified(h, E)
    <2> SUFFICES ASSUME NEW X \in SUBSET Ids, Shut(E, X), NEW i \in Known(h), NEW j \in Known(h),
                        Resolve(h, h.idOf[i]) = Resolve(h, h.idOf[j]), i \in X
                 PROVE  j \in X
      BY DEF Justified
    <2>1. CASE i \in M \cup new /\ j \in M \cup new
      BY <2>1 DEF Alike, M
    <2>2. CASE i \notin M \cup new /\ j \notin M \cup new
      <3>1. i \in Known(g) /\ j \in Known(g) /\ Resolve(g, g.idOf[i]) = Resolve(g, g.idOf[j])
        BY <1>11, <1>13, <2>2
      <3> QED BY <1>1, <3>1 DEF Justified
    <2>3. \A k \in Known(h) : k \in M \cup new <=> Resolve(h, h.idOf[k]) = w
      BY <1>15 DEF Ending
    <2> QED BY <2>1, <2>2, <2>3
  <1> QED BY <1>3, <1>8, <1>9, <1>10, <1>19, <1>20, <1>21, <1>22 DEF GraphInv

(***************************************************************************)
(* persist_clusters                                                        *)
(***************************************************************************)
\* What persist_clusters has made of the groups in done: the ids of these groups
\* are in the graph and are reported under a cluster that resolves to their own;
\* nothing that was together at the start (g0) is taken apart.
Persisted(acc, g0, E, uf, done) ==
  /\ acc = [graph |-> acc.graph, result |-> acc.result, review |-> acc.review]
  /\ GraphInv(acc.graph, E) /\ acc.review \subseteq Clusters
  /\ DOMAIN acc.result = {i \in DOMAIN uf : uf[i] \in done}
  /\ \A i \in DOMAIN acc.result :
       /\ acc.result[i] \in Clusters /\ acc.graph.idOf[i] \in Clusters
       /\ Resolve(acc.graph, acc.result[i]) = Resolve(acc.graph, acc.graph.idOf[i])
  /\ \A i \in Ids : g0.idOf[i] # NoCluster \/ (i \in DOMAIN uf => uf[i] \notin done) =>
       acc.graph.idOf[i] = g0.idOf[i]
  /\ \A c, d \in Clusters : Resolve(g0, c) = Resolve(g0, d) =>
       Resolve(acc.graph, c) = Resolve(acc.graph, d)

\* One more group, told under the clusters in told, gives the same again.
LEMMA MorePersisted ==
  ASSUME NEW E, NEW T \in SUBSET Ids, NEW uf \in [T -> T], NEW done, NEW root \in T, root \notin done,
         NEW g0 \in Graphs, NEW acc, Persisted(acc, g0, E, uf, done),
         NEW h, GraphInv(h, E), NEW told \in [{i \in T : uf[i] = root} -> Clusters],
         \A i \in Ids : i \notin DOMAIN told \/ i \in Known(acc.graph) => h.idOf[i] = acc.graph.idOf[i],
         \A c, d \in Clusters : Resolve(acc.graph, c) = Resolve(acc.graph, d) => Resolve(h, c) = Resolve(h, d),
         \A i \in DOMAIN told : h.idOf[i] \in Clusters /\ Resolve(h, told[i]) = Resolve(h, h.idOf[i]),
         NEW review \in SUBSET Clusters,
         NEW new, new = [graph |-> h, result |-> Extended(acc.result, told), review |-> review]
  PROVE  Persisted(new, g0, E, uf, done \cup {root})
  <1> DEFINE g == acc.graph
             old == acc.result
  <1> HIDE DEF g, old
  <1>1. /\ new.graph = h /\ new.result = Extended(old, told)
        /\ new = [graph |-> new.graph, result |-> new.result, review |-> new.review]
        /\ new.review \subseteq Clusters
    BY DEF old
  <1>2. /\ DOMAIN old = {i \in T : uf[i] \in done}
        /\ \A i \in DOMAIN old : old[i] \in Clusters /\ g.idOf[i] \in Clusters
                                 /\ Resolve(g, old[i]) = Resolve(g, g.idOf[i])
        /\ \A i \in Ids : g0.idOf[i] # NoCluster \/ (i \in T => uf[i] \notin done) => g.idOf[i] = g0.idOf[i]
        /\ \A c, d \in Clusters : Resolve(g0, c) = Resolve(g0, d) => Resolve(g, c) = Resolve(g, d)
        /\ GraphInv(g, E)
    <2>1. DOMAIN uf = T
      OBVIOUS
    <2> QED BY <2>1 DEF Persisted, g, old
  <1>3. DOMAIN told = {i \in T : uf[i] = root}
    OBVIOUS
  <1>4. /\ DOMAIN Extended(old, told) = {i \in T : uf[i] \in done \cup {root}}
        /\ \A i \in DOMAIN Extended(old, told) :
             Extended(old, told)[i] = IF i \in DOMAIN told THEN told[i] ELSE old[i]
    <2>1. Extended(old, told) = [i \in DOMAIN old \cup DOMAIN told |-> IF i \in DOMAIN told THEN told[i] ELSE old[i]]
      BY DEF Extended
    <2>2. DOMAIN old \cup DOMAIN told = {i \in T : uf[i] \in done \cup {root}}
      BY <1>2, <1>3
    <2> QED BY <2>1, <2>2
  <1>5. ASSUME NEW i \in DOMAIN Extended(old, told)
        PROVE  /\ Extended(old, told)[i] \in Clusters /\ h.idOf[i] \in Clusters
               /\ Resolve(h, Extended(old, told)[i]) = Resolve(h, h.idOf[i])
    <2>1. CASE i \in DOMAIN told
      BY <1>4, <2>1
    <2>2. CASE i \notin DOMAIN told
      <3>1. i \in DOMAIN old /\ Extended(old, told)[i] = old[i]
        BY <1>2, <1>3, <1>4, <2>2
      <3>2. old[i] \in Clusters /\ g.idOf[i] \in Clusters /\ Resolve(g, old[i]) = Resolve(g, g.idOf[i])
        BY <1>2, <3>1
      <3>3. i \in Ids
        BY <1>2, <3>1
      <3>4. h.idOf[i] = g.idOf[i]
        BY <2>2, <3>3 DEF g
      <3>5. \A c, d \in Clusters : Resolve(g, c) = Resolve(g, d) => Resolve(h, c) = Resolve(h, d)
        BY DEF g
      <3> QED BY <3>1, <3>2, <3>4, <3>5
    <2> QED BY <2>1, <2>2
  <1>6. ASSUME NEW i \in Ids, g0.idOf[i] # NoCluster \/ (i \in T => uf[i] \notin done \cup {root})
        PROVE  h.idOf[i] = g0.idOf[i]
    <2>1. g.idOf[i] = g0.idOf[i]
      BY <1>2, <1>6
    <2>2. i \notin DOMAIN told \/ i \in Known(g)
      BY <1>3, <1>6, <2>1 DEF Known
    <2>3. h.idOf[i] = g.idOf[i]
      BY <2>2 DEF g
    <2> QED BY <2>1, <2>3
  <1>7. \A c, d \in Clusters : Resolve(g0, c) = Resolve(g0, d) => Resolve(h, c) = Resolve(h, d)
    BY <1>2 DEF g
  <1>8. DOMAIN uf = T
    OBVIOUS
  <1> QED BY <1>1, <1>4, <1>5, <1>6, <1>7, <1>8 DEF Persisted

\* A group of the scan against the graph: none of its ids known, known in one cluster, known
\* in several that may not or may be merged.
LEMMA GroupPersisted ==
  ASSUME NEW E, NEW T \in SUBSET Ids, NEW uf, Grouping(uf, T, E), NEW done,
         NEW root, root \in Range(uf), root \notin done,
         NEW g0 \in Graphs, NEW acc, Persisted(acc, g0, E, uf, done),
         NEW existing, existing = [i \in T |-> g0.idOf[i]],
         NEW flag
  PROVE  Persisted(PersistGroup(acc, existing, Group(uf, root), flag), g0, E, uf, done \cup {root})
  <1> DEFINE g == acc.graph
             members == {i \in T : uf[i] = root}
             new == {m \in members : existing[m] = NoCluster}
             roots == ResolvedRoots(g, existing, members \ new)
             told(c) == [m \in members |-> c]
             after == PersistGroup(acc, existing, Group(uf, root), flag)
  <1>1. /\ uf \in [T -> T] /\ DOMAIN uf = T /\ root \in T /\ members # {}
        /\ members \in SUBSET Ids /\ Cardinality(members) <= MaxClusterSize /\ Alike(members, E)
    <2>1. uf \in [T -> T] /\ DOMAIN uf = T
      BY DEF Grouping
    <2>2. root \in T /\ members # {}
      BY <2>1 DEF Range
    <2>3. Cardinality(members) <= MaxClusterSize
      BY <2>2 DEF Grouping
    <2>4. Alike(members, E)
      BY DEF Grouping, Alike
    <2> QED BY <2>1, <2>2, <2>3, <2>4
  <1>2. Group(uf, root) = members
    BY <1>1 DEF Group
  <1>3. /\ GraphInv(g, E) /\ acc.review \subseteq Clusters
        /\ acc = [graph |-> g, result |-> acc.result, review |-> acc.review]
        /\ \A i \in members : g.idOf[i] = g0.idOf[i] /\ existing[i] = g.idOf[i] /\ i \in Ids
    <2>1. \A i \in members : i \in Ids /\ uf[i] \notin done
      BY <1>1
    <2> QED BY <2>1 DEF Persisted
  <1>4. /\ g \in Graphs /\ Minted(g) /\ Forwards(g) /\ Justified(g, E)
    BY <1>3 DEF GraphInv, Minted
  <1>5. /\ \A i \in Known(g) : i \in Ids /\ g.idOf[i] \in Clusters /\ g.idOf[i] < g.next
        /\ Clusters \subseteq Nat \ {0} /\ g.next \in Nat
    BY <1>4, GraphFields DEF Minted
  <1>6. /\ new \subseteq members /\ new \in SUBSET Ids /\ new \cap Known(g) = {}
        /\ \A i \in members \ new : i \in Known(g)
    BY <1>3 DEF Known
  <1>7. roots = {Resolve(g, g.idOf[m]) : m \in members \ new}
    BY <1>3 DEF ResolvedRoots
  <1>8. /\ roots \in SUBSET Clusters
        /\ \A r \in roots : g.forward[r] = r /\ r < g.next /\ r \in Clusters
    <2> SUFFICES ASSUME NEW m \in members \ new
                 PROVE  LET r == Resolve(g, g.idOf[m])
                        IN  r \in Clusters /\ g.forward[r] = r /\ r < g.next
      <3> HIDE DEF members, new, g, roots
      <3> QED BY <1>7
    <2>1. g.idOf[m] \in Clusters /\ g.idOf[m] < g.next
      BY <1>5, <1>6
    <2>2. /\ Resolve(g, g.idOf[m]) \in Clusters /\ Resolve(g, g.idOf[m]) <= g.idOf[m]
          /\ g.forward[Resolve(g, g.idOf[m])] = Resolve(g, g.idOf[m])
      BY <1>4, <2>1, ResolveEnds
    <2>3. Resolve(g, g.idOf[m]) < g.next
      <3>1. Resolve(g, g.idOf[m]) \in Nat /\ g.idOf[m] \in Nat
        BY <1>5, <2>1, <2>2
      <3> HIDE DEF g
      <3> QED BY <1>5, <2>1, <2>2, <3>1
    <2> QED BY <2>2, <2>3
  <1>9. Cardinality(new) <= MaxClusterSize /\ Alike(new, E)
    <2>1. IsFiniteSet(members) /\ Cardinality(members) \in Nat /\ Cardinality(new) \in Nat
      BY <1>1, <1>6, IdsCounted
    <2>2. Cardinality(new) <= Cardinality(members)
      <3> HIDE DEF members, new
      <3>1. new \in SUBSET members
        BY <1>6
      <3> QED BY <2>1, <3>1, FS_Subset
    <2>3. Alike(new, E)
      BY <1>1, <1>6 DEF Alike
    <2>4. MaxClusterSize \in Nat
      BY AliasAssumption
    <2> HIDE DEF members, new
    <2> QED BY <1>1, <2>1, <2>2, <2>3, <2>4
  <1>10. after = IF roots = {}
           THEN [acc EXCEPT !.graph = NewCluster(g, new, flag), !.result = Extended(acc.result, told(g.next))]
           ELSE IF Cardinality(roots) = 1 /\ new = {}
           THEN [acc EXCEPT !.result = Extended(acc.result, told(Min(roots)))]
           ELSE IF Cardinality(MembersOf(g, roots)) + Cardinality(new) > MaxClusterSize
           THEN [graph |-> IF new = {} THEN g ELSE NewCluster(g, new, TRUE),
                 result |-> Extended(acc.result, [m \in members |-> IF m \in new THEN g.next ELSE existing[m]]),
                 review |-> acc.review \cup roots]
           ELSE [acc EXCEPT !.graph = Merge(g, roots, new, flag), !.result = Extended(acc.result, told(Min(roots)))]
    BY <1>2 DEF PersistGroup
  <1> HIDE DEF g, members, new, roots, after
  <1>11. \A c : DOMAIN told(c) = members
    OBVIOUS
  <1>12. CASE roots = {}
    <2> DEFINE h == NewCluster(g, new, flag)
    <2>1. new = members
      <3>1. \A m \in members \ new : Resolve(g, g.idOf[m]) \in roots
        BY <1>7
      <3>2. \A m \in members : m \in new
        BY <1>12, <3>1
      <3>3. new \subseteq members
        BY <1>6
      <3> QED BY <3>2, <3>3
    <2>2. /\ GraphInv(h, E) /\ h.forward = g.forward /\ g.next \in Clusters
          /\ \A i \in Ids : h.idOf[i] = IF i \in new THEN g.next ELSE g.idOf[i]
          /\ Resolve(h, g.next) = g.next
      BY <1>1, <1>3, <1>6, <1>9, <2>1, NewClusterKeeps
    <2>3. after = [graph |-> h, result |-> Extended(acc.result, told(g.next)), review |-> acc.review]
      BY <1>3, <1>10, <1>12
    <2> HIDE DEF h
    <2>4. told(g.next) \in [members -> Clusters]
      BY <2>2
    <2>5. \A i \in Ids : i \notin members \/ i \in Known(g) => h.idOf[i] = g.idOf[i]
      BY <1>6, <2>1, <2>2
    <2>6. \A c : Resolve(h, c) = Resolve(g, c)
      BY <2>2, ResolveSame
    <2>7. \A i \in members : h.idOf[i] \in Clusters /\ Resolve(h, told(g.next)[i]) = Resolve(h, h.idOf[i])
      BY <1>1, <2>1, <2>2
    <2> DEFINE t == told(g.next)
    <2> HIDE DEF told, t
    <2>8. t \in [{i \in T : uf[i] = root} -> Clusters] /\ DOMAIN t = members
      BY <1>11, <2>4 DEF t, members
    <2>9. /\ \A i \in Ids : i \notin DOMAIN t \/ i \in Known(acc.graph) => h.idOf[i] = acc.graph.idOf[i]
          /\ \A c, d \in Clusters : Resolve(acc.graph, c) = Resolve(acc.graph, d) => Resolve(h, c) = Resolve(h, d)
          /\ \A i \in DOMAIN t : h.idOf[i] \in Clusters /\ Resolve(h, t[i]) = Resolve(h, h.idOf[i])
      BY <2>5, <2>6, <2>7, <2>8 DEF g, t
    <2>10. after = [graph |-> h, result |-> Extended(acc.result, t), review |-> acc.review]
      BY <2>3 DEF t
    <2>11. Persisted(after, g0, E, uf, done \cup {root})
      BY <1>1, <1>3, <2>2, <2>8, <2>9, <2>10, MorePersisted
    <2> QED BY <2>11 DEF after
  <1>13. CASE roots # {} /\ Cardinality(roots) = 1 /\ new = {}
    <2>1. IsFiniteSet(roots)
      <3>1. Cardinality(Ids) \in Nat
        BY IdsCounted
      <3>2. IsFiniteSet(Clusters)
        BY <3>1, FS_Interval DEF Clusters
      <3> QED BY <1>8, <3>2, FS_Subset
    <2>2. PICK r : roots = {r}
      BY <1>13, <2>1, FS_Singleton
    <2>3. Min(roots) = r
      <3>1. r \in Nat
        BY <1>5, <1>8, <2>2
      <3> QED BY <2>2, <3>1 DEF Min
    <2>4. r \in Clusters /\ Resolve(g, r) = r
      <3>1. r \in Clusters /\ g.forward[r] = r
        BY <1>8, <2>2
      <3> QED BY <1>4, <3>1, ResolveStep
    <2>5. after = [graph |-> g, result |-> Extended(acc.result, told(r)), review |-> acc.review]
      BY <1>3, <1>10, <1>13, <2>3
    <2> DEFINE t == told(r)
    <2>6. t \in [members -> Clusters] /\ DOMAIN t = members /\ \A i \in members : t[i] = r
      BY <2>4
    <2>7. \A i \in members : g.idOf[i] \in Clusters /\ Resolve(g, g.idOf[i]) = r
      BY <1>5, <1>6, <1>7, <1>13, <2>2
    <2> HIDE DEF t
    <2>8. /\ \A i \in Ids : i \notin DOMAIN t \/ i \in Known(acc.graph) => g.idOf[i] = acc.graph.idOf[i]
          /\ \A c, d \in Clusters : Resolve(acc.graph, c) = Resolve(acc.graph, d) => Resolve(g, c) = Resolve(g, d)
          /\ \A i \in DOMAIN t : g.idOf[i] \in Clusters /\ Resolve(g, t[i]) = Resolve(g, g.idOf[i])
      BY <2>4, <2>6, <2>7 DEF g
    <2>9. t \in [{i \in T : uf[i] = root} -> Clusters]
      BY <2>6 DEF members
    <2>10. after = [graph |-> g, result |-> Extended(acc.result, t), review |-> acc.review]
      BY <2>5 DEF t
    <2>11. Persisted(after, g0, E, uf, done \cup {root})
      BY <1>1, <1>3, <2>8, <2>9, <2>10, MorePersisted
    <2> QED BY <2>11 DEF after
  <1>14. CASE /\ roots # {} /\ ~(Cardinality(roots) = 1 /\ new = {})
              /\ Cardinality(MembersOf(g, roots)) + Cardinality(new) > MaxClusterSize
    <2> DEFINE h == IF new = {} THEN g ELSE NewCluster(g, new, TRUE)
               t == [m \in members |-> IF m \in new THEN g.next ELSE existing[m]]
    <2>1. /\ GraphInv(h, E) /\ h.forward = g.forward
          /\ \A i \in Ids : h.idOf[i] = IF i \in new THEN g.next ELSE g.idOf[i]
          /\ new # {} => g.next \in Clusters
      <3>1. CASE new = {}
        BY <1>3, <3>1
      <3>2. CASE new # {}
        <4>1. \A yes, k : k = NewCluster(g, new, yes) =>
                /\ GraphInv(k, E) /\ k.forward = g.forward /\ g.next \in Clusters
                /\ \A i \in Ids : k.idOf[i] = IF i \in new THEN g.next ELSE g.idOf[i]
          BY <1>3, <1>6, <1>9, <3>2, NewClusterKeeps
        <4> DEFINE n == NewCluster(g, new, TRUE)
        <4>2. /\ GraphInv(n, E) /\ n.forward = g.forward /\ g.next \in Clusters
              /\ \A i \in Ids : n.idOf[i] = IF i \in new THEN g.next ELSE g.idOf[i]
          BY <4>1
        <4>3. h = n
          BY <3>2
        <4> HIDE DEF n, h
        <4> QED BY <4>2, <4>3
      <3> QED BY <3>1, <3>2
    <2>2. after = [graph |-> h, result |-> Extended(acc.result, t), review |-> acc.review \cup roots]
      BY <1>10, <1>14
    <2> HIDE DEF h
    <2>3. \A i \in members : /\ i \in Ids /\ t[i] \in Clusters /\ h.idOf[i] = t[i]
      <3> TAKE i \in members
      <3>1. i \in Ids /\ existing[i] = g.idOf[i]
        BY <1>3
      <3>2. t[i] = IF i \in new THEN g.next ELSE existing[i]
        OBVIOUS
      <3>3. CASE i \in new
        BY <2>1, <3>1, <3>2, <3>3
      <3>4. CASE i \notin new
        BY <1>5, <1>6, <2>1, <3>1, <3>2, <3>4
      <3> QED BY <3>3, <3>4
    <2>4. t \in [members -> Clusters] /\ DOMAIN t = members
      <3>1. DOMAIN t = members /\ t = [m \in members |-> t[m]]
        OBVIOUS
      <3> HIDE DEF t
      <3> QED BY <2>3, <3>1
    <2> HIDE DEF t
    <2>5. \A i \in Ids : i \notin members \/ i \in Known(g) => h.idOf[i] = g.idOf[i]
      BY <1>6, <2>1
    <2>6. \A c : Resolve(h, c) = Resolve(g, c)
      BY <2>1, ResolveSame
    <2>7. /\ \A i \in Ids : i \notin DOMAIN t \/ i \in Known(acc.graph) => h.idOf[i] = acc.graph.idOf[i]
          /\ \A c, d \in Clusters : Resolve(acc.graph, c) = Resolve(acc.graph, d) => Resolve(h, c) = Resolve(h, d)
          /\ \A i \in DOMAIN t : h.idOf[i] \in Clusters /\ Resolve(h, t[i]) = Resolve(h, h.idOf[i])
      BY <2>3, <2>4, <2>5, <2>6 DEF g
    <2>8. t \in [{i \in T : uf[i] = root} -> Clusters]
      BY <2>4 DEF members
    <2>9. acc.review \cup roots \in SUBSET Clusters
      BY <1>3, <1>8
    <2>10. Persisted(after, g0, E, uf, done \cup {root})
      BY <1>1, <2>1, <2>2, <2>7, <2>8, <2>9, MorePersisted
    <2> QED BY <2>10 DEF after
  <1>15. CASE /\ roots # {} /\ ~(Cardinality(roots) = 1 /\ new = {})
              /\ ~(Cardinality(MembersOf(g, roots)) + Cardinality(new) > MaxClusterSize)
    <2> DEFINE h == Merge(g, roots, new, flag)
               M == MembersOf(g, roots)
               w == Min(roots)
    <2>1. M = {i \in Known(g) : Resolve(g, g.idOf[i]) \in roots}
      BY <1>4, <1>8, MembersEnd
    <2>2. Cardinality(M) + Cardinality(new) <= MaxClusterSize
      <3>1. M \in SUBSET Ids
        BY <1>5, <2>1
      <3>2. Cardinality(M) \in Nat /\ Cardinality(new) \in Nat /\ MaxClusterSize \in Nat
        BY <1>6, <3>1, IdsCounted, AliasAssumption
      <3> QED BY <1>15, <3>2
    <2> HIDE DEF M
    <2>3. Alike(M \cup new, E)
      <3> SUFFICES ASSUME NEW X \in SUBSET Ids, Shut(E, X), NEW i \in M \cup new, NEW j \in M \cup new, i \in X
                   PROVE  j \in X
        BY DEF Alike
      <3>1. \A k \in M \cup new : \E m \in members : k \in X <=> m \in X
        <4> TAKE k \in M \cup new
        <4>1. CASE k \in new
          BY <1>6, <4>1
        <4>2. CASE k \in M
          <5>1. PICK m \in members \ new : Resolve(g, g.idOf[k]) = Resolve(g, g.idOf[m])
            BY <1>7, <2>1, <4>2
          <5>2. k \in Known(g) /\ m \in Known(g)
            BY <1>6, <2>1, <4>2
          <5>3. \A a, b \in Known(g) : Resolve(g, g.idOf[a]) = Resolve(g, g.idOf[b]) /\ a \in X => b \in X
            BY <1>4 DEF Justified
          <5> QED BY <5>1, <5>2, <5>3
        <4> QED BY <4>1, <4>2
      <3>2. \A k, m \in members : k \in X => m \in X
        BY <1>1 DEF Alike
      <3> QED BY <3>1, <3>2
    <2>4. /\ GraphInv(h, E) /\ w \in roots
          /\ \A i \in Ids : h.idOf[i] = IF i \in new THEN w ELSE g.idOf[i]
          /\ \A c \in Clusters : Resolve(h, c) = IF Resolve(g, c) \in roots THEN w ELSE Resolve(g, c)
          /\ Resolve(h, w) = w
      <3>1. Cardinality(MembersOf(g, roots)) + Cardinality(new) <= MaxClusterSize
            /\ Alike(MembersOf(g, roots) \cup new, E)
        BY <2>2, <2>3 DEF M
      <3>2. \A r \in roots : g.forward[r] = r /\ r < g.next
        BY <1>8
      <3> QED BY <1>3, <1>6, <1>8, <1>15, <3>1, <3>2, MergeKeeps
    <2>5. after = [graph |-> h, result |-> Extended(acc.result, told(w)), review |-> acc.review]
      BY <1>3, <1>10, <1>15
    <2> DEFINE t == told(w)
    <2>6. t \in [members -> Clusters] /\ DOMAIN t = members /\ \A i \in members : t[i] = w
      BY <1>8, <2>4
    <2> HIDE DEF h, w, t
    <2>7. \A i \in members : h.idOf[i] \in Clusters /\ Resolve(h, h.idOf[i]) = w
      <3> TAKE i \in members
      <3>1. i \in Ids
        BY <1>3
      <3>2. CASE i \in new
        BY <1>8, <2>4, <3>1, <3>2
      <3>3. CASE i \notin new
        <4>1. g.idOf[i] \in Clusters /\ Resolve(g, g.idOf[i]) \in roots
          BY <1>5, <1>6, <1>7, <3>3
        <4> QED BY <2>4, <3>1, <3>3, <4>1
      <3> QED BY <3>2, <3>3
    <2>8. \A i \in Ids : i \notin members \/ i \in Known(g) => h.idOf[i] = g.idOf[i]
      BY <1>6, <2>4
    <2>9. /\ \A i \in Ids : i \notin DOMAIN t \/ i \in Known(acc.graph) => h.idOf[i] = acc.graph.idOf[i]
          /\ \A c, d \in Clusters : Resolve(acc.graph, c) = Resolve(acc.graph, d) => Resolve(h, c) = Resolve(h, d)
          /\ \A i \in DOMAIN t : h.idOf[i] \in Clusters /\ Resolve(h, t[i]) = Resolve(h, h.idOf[i])
      BY <2>4, <2>6, <2>7, <2>8 DEF g
    <2>10. t \in [{i \in T : uf[i] = root} -> Clusters]
      BY <2>6 DEF members
    <2>11. after = [graph |-> h, result |-> Extended(acc.result, t), review |-> acc.review]
      BY <2>5 DEF t
    <2>12. Persisted(after, g0, E, uf, done \cup {root})
      BY <1>1, <1>3, <2>4, <2>9, <2>10, <2>11, MorePersisted
    <2> QED BY <2>12 DEF after
  <1> QED BY <1>12, <1>13, <1>14, <1>15 DEF after

\* f persists the groups of every set of roots, that of the last root on top of the others.
PersistsAll(f, S, start, existing, closed) ==
  f = [done \in SUBSET S |->
         IF done = {} THEN start
         ELSE PersistGroup(f[done \ {Max(done)}], existing, Group(closed.uf, Max(done)),
                           Max(done) \in closed.flagged)]

LEMMA MaxIsOne ==
  ASSUME NEW S \in SUBSET Ids, S # {}
  PROVE  Max(S) \in S
  <1>1. IsFiniteSet(S) /\ S \subseteq Nat
    BY IdsCounted, AliasAssumption
  <1>2. PICK x \in S : \A y \in S : y <= x
    BY <1>1, Greatest
  <1>3. \A y \in S : x >= y
    BY <1>1, <1>2
  <1> QED BY <1>3 DEF Max

\* Such a function exists: from the sets with one root less it is given for the next larger ones.
LEMMA PersistAllExists ==
  ASSUME NEW g, NEW existing, NEW closed, Range(closed.uf) \subseteq Ids,
         NEW start, start = [graph |-> g, result |-> <<>>, review |-> {}]
  PROVE  \E f : /\ PersistAll(g, existing, closed) = f[Range(closed.uf)]
                /\ PersistsAll(f, Range(closed.uf), start, existing, closed)
  <1> DEFINE S == Range(closed.uf)
             More(acc, r) == PersistGroup(acc, existing, Group(closed.uf, r), r \in closed.flagged)
             Upto(k) == {done \in SUBSET S : Cardinality(done) <= k}
             Given(e, k) == e = [done \in Upto(k) |->
                                   IF done = {} THEN start ELSE More(e[done \ {Max(done)}], Max(done))]
             Bad == {k \in Nat : ~ \E e : Given(e, k)}
             h == CHOOSE after : after = [done \in SUBSET Range(closed.uf) |->
                    IF done = {} THEN [graph |-> g, result |-> <<>>, review |-> {}]
                    ELSE PersistGroup(after[done \ {Max(done)}], existing,
                                      Group(closed.uf, Max(done)), Max(done) \in closed.flagged)]
  <1>0. S \in SUBSET Ids
    OBVIOUS
  <1>1. \A T \in SUBSET S : IsFiniteSet(T) /\ Cardinality(T) \in Nat /\ Cardinality(T) <= Cardinality(S)
                            /\ (Cardinality(T) = 0 <=> T = {})
    <2>1. IsFiniteSet(S)
      BY <1>0, IdsCounted
    <2> HIDE DEF S
    <2> QED BY <2>1, FS_Subset, FS_CardinalityType, FS_EmptySet
  <1> HIDE DEF S, More, h
  <1>2. \A done \in SUBSET S : done # {} =>
          /\ done \ {Max(done)} \in SUBSET S
          /\ Cardinality(done \ {Max(done)}) = Cardinality(done) - 1
    BY <1>0, <1>1, MaxIsOne, FS_RemoveElement
  <1>3. ASSUME Bad # {} PROVE FALSE
    <2>1. PICK b \in Bad : \A k \in Bad : b <= k
      <3>1. Bad \subseteq Nat
        OBVIOUS
      <3> HIDE DEF Bad
      <3> QED BY <1>3, <3>1, Least
    <2>2. CASE b = 0
      <3>1. \A done \in Upto(0) : done = {}
        BY <1>1
      <3>2. Given([done \in Upto(0) |-> start], 0)
        <4> HIDE DEF Upto
        <4> QED BY <3>1
      <3> HIDE DEF Given
      <3> QED BY <2>1, <2>2, <3>2
    <2>3. CASE b # 0
      <3>1. b \in Nat /\ b - 1 \in Nat /\ ~ (b <= b - 1)
        BY <2>1, <2>3
      <3>2. b - 1 \notin Bad
        <4> HIDE DEF Bad
        <4> QED BY <2>1, <3>1
      <3>3. PICK p : Given(p, b - 1)
        BY <3>1, <3>2
      <3> DEFINE e == [done \in Upto(b) |->
                         IF done = {} THEN start ELSE More(p[done \ {Max(done)}], Max(done))]
      <3>4. \A done \in Upto(b) : done # {} => done \ {Max(done)} \in Upto(b - 1)
        <4> TAKE done \in Upto(b)
        <4>1. done \in SUBSET S /\ Cardinality(done) <= b /\ Cardinality(done) \in Nat
          BY <1>1
        <4>2. HAVE done # {}
        <4>3. done \ {Max(done)} \in SUBSET S /\ Cardinality(done \ {Max(done)}) = Cardinality(done) - 1
          BY <1>2, <4>1, <4>2
        <4> QED BY <3>1, <4>1, <4>3
      <3>5. \A done \in Upto(b - 1) : done \in Upto(b)
        BY <1>1, <3>1
      <3>6. \A done \in Upto(b - 1) : e[done] = p[done]
        <4> HIDE DEF Upto
        <4>1. \A done \in Upto(b - 1) : p[done] = IF done = {} THEN start
                ELSE More(p[done \ {Max(done)}], Max(done))
          BY <3>3
        <4> QED BY <3>5, <4>1
      <3>7. \A done \in Upto(b) : e[done] = IF done = {} THEN start
              ELSE More(e[done \ {Max(done)}], Max(done))
        <4> HIDE DEF Upto, Given
        <4>1. \A done \in Upto(b) : e[done] = IF done = {} THEN start
                ELSE More(p[done \ {Max(done)}], Max(done))
          OBVIOUS
        <4> HIDE DEF e
        <4> QED BY <3>4, <3>6, <4>1
      <3>8. Given(e, b)
        <4>1. e = [done \in Upto(b) |-> e[done]]
          OBVIOUS
        <4> HIDE DEF e, Upto
        <4> QED BY <3>7, <4>1
      <3> HIDE DEF e, Given
      <3> QED BY <2>1, <3>8
    <2> QED BY <2>2, <2>3
  <1>4. PICK e : Given(e, Cardinality(S))
    <2>1. Cardinality(S) \in Nat
      BY <1>1
    <2> QED BY <1>3, <2>1
  <1>5. Upto(Cardinality(S)) = SUBSET S
    BY <1>1
  <1>6. e = [done \in SUBSET S |-> IF done = {} THEN start ELSE More(e[done \ {Max(done)}], Max(done))]
    <2> HIDE DEF Upto
    <2> QED BY <1>4, <1>5
  <1>7. PersistsAll(e, S, start, existing, closed)
    BY <1>6 DEF PersistsAll, More
  <1>8. PersistsAll(h, S, start, existing, closed)
    <2> HIDE DEF Given, Bad, Upto
    <2> QED BY <1>7, ZenonT(60) DEF PersistsAll, h, S
  <1>9. PersistAll(g, existing, closed) = h[S]
    BY DEF PersistAll, h, S
  <1> QED BY <1>8, <1>9 DEF S

\* Sets that more edges do not leave, fewer do not.
LEMMA ShutLess ==
  ASSUME NEW E, NEW F, E \subseteq F, NEW X, Shut(F, X)
  PROVE  Shut(E, X)
  BY DEF Shut, Tied

\* The flag for review is not part of any of this.
LEMMA FlagKeeps ==
  ASSUME NEW E, NEW g, GraphInv(g, E), NEW h \in Graphs,
         h.idOf = g.idOf, h.forward = g.forward, h.count = g.count, h.next = g.next
  PROVE  /\ GraphInv(h, E) /\ h.idOf = g.idOf /\ \A c : Resolve(h, c) = Resolve(g, c)
  <1>2. /\ h \in Graphs /\ h.idOf = g.idOf /\ h.forward = g.forward /\ h.count = g.count /\ h.next = g.next
    OBVIOUS
  <1>3. \A c : Resolve(h, c) = Resolve(g, c)
    BY <1>2, ResolveSame
  <1>4. Known(h) = Known(g)
    BY <1>2 DEF Known
  <1>5. \A c : Ending(h, c) = Ending(g, c)
    BY <1>2, <1>3, <1>4 DEF Ending
  <1>6. Minted(h)
    BY <1>2, <1>4 DEF GraphInv, Minted, Forwards
  <1>7. Capped(h)
    BY <1>2, <1>5 DEF GraphInv, Capped
  <1>8. Justified(h, E)
    BY <1>2, <1>3, <1>4 DEF GraphInv, Justified
  <1> QED BY <1>2, <1>3, <1>6, <1>7, <1>8 DEF GraphInv

\* What a transaction of persist_clusters leaves behind (persist_clusters).
PersistedWell(p, g, E, T) ==
  /\ GraphInv(p.graph, E) /\ DOMAIN p.result = T
  /\ \A i \in T : /\ p.result[i] \in Clusters /\ p.graph.idOf[i] \in Clusters
                  /\ Resolve(p.graph, p.result[i]) = Resolve(p.graph, p.graph.idOf[i])
  /\ \A i \in Known(g) : p.graph.idOf[i] = g.idOf[i]
  /\ \A c, d \in Clusters : Resolve(g, c) = Resolve(g, d) => Resolve(p.graph, c) = Resolve(p.graph, d)

LEMMA PersistKeeps ==
  ASSUME NEW said \in Contents, NEW E0, NEW g, GraphInv(g, E0),
         NEW existing, existing = [i \in Touched(said) |-> g.idOf[i]],
         NEW p, p = Persist(g, existing, said)
  PROVE  PersistedWell(p, g, E0 \cup said.edges, Touched(said))
  <1> DEFINE T == Touched(said)
             E == E0 \cup said.edges
             closed == Close(said)
             uf == closed.uf
             S == Range(uf)
             start == [graph |-> g, result |-> <<>>, review |-> {}]
  <1>1. T \in SUBSET Ids /\ Grouping(uf, T, said.edges)
    BY CloseGroups
  <1>2. Grouping(uf, T, E)
    <2>1. \A X \in SUBSET Ids : Shut(E, X) => Shut(said.edges, X)
      BY ShutLess
    <2> HIDE DEF T, E, uf
    <2> QED BY <1>1, <2>1 DEF Grouping
  <1>3. uf \in [T -> T] /\ DOMAIN uf = T /\ S \subseteq T /\ S \in SUBSET Ids
    <2>1. uf \in [T -> T] /\ DOMAIN uf = T
      BY <1>1 DEF Grouping
    <2>2. S \subseteq T
      BY <2>1 DEF Range
    <2> QED BY <1>1, <2>1, <2>2
  <1>4. GraphInv(g, E)
    <2>1. \A X \in SUBSET Ids : Shut(E, X) => Shut(E0, X)
      BY ShutLess
    <2> HIDE DEF E
    <2> QED BY <2>1 DEF GraphInv, Justified
  <1>5. g \in Graphs
    BY DEF GraphInv
  <1> HIDE DEF T, E, uf
  <1>6. Persisted(start, g, E, uf, {})
    <2>1. /\ start.graph = g /\ start.review = {} /\ start.result = <<>> /\ DOMAIN start.result = {}
          /\ start = [graph |-> start.graph, result |-> start.result, review |-> start.review]
      OBVIOUS
    <2> HIDE DEF start
    <2> QED BY <1>4, <2>1 DEF Persisted
  <1>7. PICK f : PersistAll(g, existing, closed) = f[S] /\ PersistsAll(f, S, start, existing, closed)
    <2>1. S \subseteq Ids /\ S = Range(closed.uf)
      BY <1>3 DEF uf
    <2> HIDE DEF S, start, closed
    <2>2. start = [graph |-> g, result |-> <<>>, review |-> {}]
      BY DEF start
    <2> QED BY <2>1, <2>2, PersistAllExists
  <1> HIDE DEF start, S, closed
  <1> DEFINE Good(done) == Persisted(f[done], g, E, uf, done)
             Bad == {k \in Nat : \E done \in SUBSET S : Cardinality(done) = k /\ ~Good(done)}
  <1>8. \A done \in SUBSET S : IsFiniteSet(done) /\ Cardinality(done) \in Nat
    BY <1>3, IdsCounted
  <1>9. ASSUME Bad # {} PROVE FALSE
    <2>1. PICK b \in Bad : \A k \in Bad : b <= k
      <3>1. Bad \subseteq Nat
        OBVIOUS
      <3> HIDE DEF Bad
      <3> QED BY <1>9, <3>1, Least
    <2>2. PICK done \in SUBSET S : Cardinality(done) = b /\ ~Good(done)
      BY <2>1
    <2>3. f[done] = IF done = {} THEN start
                    ELSE PersistGroup(f[done \ {Max(done)}], existing, Group(closed.uf, Max(done)),
                                      Max(done) \in closed.flagged)
      <3> HIDE DEF Bad, Good
      <3> QED BY <1>7 DEF PersistsAll
    <2>4. done # {}
      <3>1. ASSUME done = {} PROVE FALSE
        <4>1. f[done] = start
          BY <2>3, <3>1
        <4> QED BY <1>6, <2>2, <3>1, <4>1
      <3> QED BY <3>1
    <2> DEFINE r == Max(done)
    <2>5. r \in done
      BY <1>3, <2>4, MaxIsOne
    <2> HIDE DEF r
    <2>6. Good(done \ {r})
      <3>1. Cardinality(done \ {r}) = b - 1 /\ b - 1 \in Nat /\ ~ (b <= b - 1)
        <4>1. IsFiniteSet(done \ {r}) /\ Cardinality(done \ {r}) = b - 1
          BY <1>8, <2>2, <2>5, FS_RemoveElement
        <4>2. Cardinality(done \ {r}) \in Nat
          BY <4>1, FS_CardinalityType
        <4>3. b \in Nat
          BY <1>8, <2>2
        <4> QED BY <4>1, <4>2, <4>3
      <3>2. b - 1 \notin Bad
        <4> HIDE DEF Bad
        <4> QED BY <2>1, <3>1
      <3> HIDE DEF Good
      <3> QED BY <3>1, <3>2
    <2>7. \A flag : Persisted(PersistGroup(f[done \ {r}], existing, Group(uf, r), flag), g, E, uf, (done \ {r}) \cup {r})
      <3>1. r \in Range(uf) /\ r \notin done \ {r}
        BY <2>5 DEF S
      <3>2. existing = [i \in T |-> g.idOf[i]]
        BY DEF T
      <3>3. Persisted(f[done \ {r}], g, E, uf, done \ {r})
        BY <2>6
      <3> HIDE DEF Good, Bad
      <3> QED BY <1>1, <1>2, <1>5, <3>1, <3>2, <3>3, GroupPersisted
    <2>8. (done \ {r}) \cup {r} = done
      BY <2>5
    <2>9. f[done] = PersistGroup(f[done \ {r}], existing, Group(uf, r), r \in closed.flagged)
      BY <2>3, <2>4 DEF r, uf
    <2>10. Persisted(f[done], g, E, uf, done)
      <3> DEFINE flag == r \in closed.flagged
      <3>1. f[done] = PersistGroup(f[done \ {r}], existing, Group(uf, r), flag)
        BY <2>9
      <3> HIDE DEF Good, Bad, flag
      <3> QED BY <2>7, <2>8, <3>1
    <2> QED BY <2>2, <2>10
  <1>10. Persisted(f[S], g, E, uf, S)
    <2>1. Cardinality(S) \in Nat /\ S \in SUBSET S
      BY <1>8
    <2> HIDE DEF Good
    <2>2. Good(S)
      BY <1>9, <2>1
    <2> QED BY <2>2 DEF Good
  <1> DEFINE acc == f[S]
  <1>11. /\ p.graph = [acc.graph EXCEPT !.flagged = @ \cup acc.review] /\ p.result = acc.result
    BY <1>7 DEF Persist, closed
  <1> HIDE DEF acc
  <1>12. Persisted(acc, g, E, uf, S)
    BY <1>10 DEF acc
  <1>13. GraphInv(acc.graph, E) /\ acc.review \in SUBSET Clusters
    BY <1>12 DEF Persisted
  <1>14. /\ GraphInv(p.graph, E) /\ p.graph.idOf = acc.graph.idOf
         /\ \A c : Resolve(p.graph, c) = Resolve(acc.graph, c)
    <2> DEFINE m == acc.graph
               h == p.graph
    <2>1. m \in Graphs
      BY <1>13 DEF GraphInv
    <2>2. h = [m EXCEPT !.flagged = @ \cup acc.review]
      BY <1>11
    <2> HIDE DEF m, h
    <2>3. h \in Graphs /\ h.idOf = m.idOf /\ h.forward = m.forward /\ h.count = m.count /\ h.next = m.next
      BY <1>13, <2>1, <2>2 DEF Graphs
    <2>4. GraphInv(m, E)
      BY <1>13 DEF m
    <2> QED BY <2>3, <2>4, FlagKeeps DEF m, h
  <1>15. DOMAIN acc.result = T
    <2>1. DOMAIN acc.result = {i \in T : uf[i] \in S}
      BY <1>3, <1>12 DEF Persisted
    <2>2. \A i \in T : uf[i] \in S
      BY <1>3 DEF S, Range
    <2> QED BY <2>1, <2>2
  <1>16. \A i \in T : /\ acc.result[i] \in Clusters /\ acc.graph.idOf[i] \in Clusters
                      /\ Resolve(acc.graph, acc.result[i]) = Resolve(acc.graph, acc.graph.idOf[i])
    BY <1>12, <1>15 DEF Persisted
  <1>17. \A i \in Known(g) : acc.graph.idOf[i] = g.idOf[i]
    <2>1. \A i \in Known(g) : i \in Ids /\ g.idOf[i] # NoCluster
      BY DEF Known
    <2> QED BY <1>12, <2>1 DEF Persisted
  <1>18. \A c, d \in Clusters : Resolve(g, c) = Resolve(g, d) => Resolve(acc.graph, c) = Resolve(acc.graph, d)
    BY <1>12 DEF Persisted
  <1>19. PersistedWell(p, g, E, T)
    BY <1>11, <1>14, <1>15, <1>16, <1>17, <1>18 DEF PersistedWell
  <1> QED BY <1>19 DEF E, T

(***************************************************************************)
(* The consumers                                                           *)
(***************************************************************************)
\* What a consumer has read is what is there, and what it was told stands.
ReadOK(w, g, said) == w.existing = [i \in Touched(said) |-> g.idOf[i]]
ResultOK(w, g, said) ==
  /\ DOMAIN w.result = Touched(said)
  /\ \A i \in Touched(said) : /\ w.result[i] \in Clusters /\ g.idOf[i] \in Clusters
                              /\ Resolve(g, w.result[i]) = Resolve(g, g.idOf[i])

\* Triggers that wait have a delivery left.
BusInv ==
  /\ trigger \in [Scans -> {"ready", "out", "acked", "dlq", "lost", "spent"}]
  /\ deliveries \in [Scans -> 0..MAX_DELIVER]
  /\ \A s \in Scans : trigger[s] = "ready" => deliveries[s] < MAX_DELIVER
  /\ refused \subseteq Scans /\ content \in [Scans -> Contents] /\ failures \in 0..MaxFailures

\* A consumer is idle or at a stage of a scan, and one with its connection holds the
\* lock exactly between its reads and its writes.
WorkInv ==
  /\ work = [c \in Consumers |-> work[c]] /\ broken \subseteq Consumers
  /\ \A c \in Consumers :
       \/ work[c] = Idle
       \/ work[c].scan \in Scans /\ work[c].at \in ConsumerStages \cup {"persist", "write"}
  /\ lock \in Consumers \cup {Nobody} /\ lock \notin broken
  /\ \A c \in Consumers \ broken : work[c].at = "persist" <=> lock = c

\* What the lock protects, and what outlives it.
KnowsInv ==
  \A c \in Consumers :
    /\ work[c].at = "persist" /\ c \notin broken => ReadOK(work[c], graph, content[work[c].scan])
    /\ work[c].at = "write" => ResultOK(work[c], graph, content[work[c].scan])

\* Before a trigger is acked there is a document, or its refusal.
AckInv ==
  /\ \A c \in Consumers : work[c].at = "ack" => work[c].scan \in DOMAIN document \cup refused
  /\ \A s \in Scans : trigger[s] = "acked" => s \in DOMAIN document \cup refused

ConsumerInv == BusInv /\ WorkInv /\ GraphInv(graph, seen) /\ KnowsInv /\ AckInv

LEMMA ConsumerTyped ==
  ASSUME ConsumerInv
  PROVE  TypeOK
  <1>1. graph \in Graphs
    BY DEF ConsumerInv, GraphInv
  <1>2. /\ graph.idOf \in [Ids -> Clusters \cup {NoCluster}] /\ graph.forward \in [Clusters -> Clusters]
        /\ graph.flagged \subseteq Clusters /\ graph.next \in 1..(Cardinality(Ids) + 1)
    BY <1>1 DEF Graphs
  <1>3. /\ trigger \in [Scans -> {"ready", "out", "acked", "dlq", "lost", "spent"}]
        /\ deliveries \in [Scans -> 0..MAX_DELIVER] /\ refused \subseteq Scans /\ failures \in 0..MaxFailures
    BY DEF ConsumerInv, BusInv
  <1>4. /\ lock \in Consumers \cup {Nobody} /\ broken \subseteq Consumers
        /\ \A c \in Consumers :
             \/ work[c] = Idle
             \/ Scan(c) \in Scans /\ work[c].at \in ConsumerStages \cup {"persist", "write"}
        /\ \A c \in Consumers \ broken : work[c].at = "persist" <=> lock = c
    BY DEF ConsumerInv, WorkInv, Scan
  <1> QED BY <1>2, <1>3, <1>4 DEF TypeOK

LEMMA ConsumerInit == ASSUME Init PROVE ConsumerInv
  <1> USE DEF Init
  <1>1. \A c \in Consumers : work[c] = Idle
    OBVIOUS
  <1>2. Idle.at = "idle"
    BY DEF Idle
  <1>3. BusInv
    <2>1. 0 \in 0..MAX_DELIVER /\ 0 < MAX_DELIVER /\ 0 \in 0..MaxFailures
      BY NormalizeAssumption
    <2> QED BY <2>1 DEF BusInv
  <1>4. WorkInv
    <2>1. \A c \in Consumers : lock # c
      BY NormalizeAssumption DEF Nobody
    <2> QED BY <1>1, <1>2, <2>1 DEF WorkInv
  <1>5. GraphInv(graph, seen)
    BY GraphInit
  <1>6. KnowsInv
    BY <1>1, <1>2 DEF KnowsInv
  <1>7. AckInv
    BY <1>1, <1>2 DEF AckInv
  <1> QED BY <1>3, <1>4, <1>5, <1>6, <1>7 DEF ConsumerInv

\* What a consumer was told stands when another one persists.
LEMMA ResultStands ==
  ASSUME NEW g, NEW p, NEW E, NEW T, PersistedWell(p, g, E, T), NEW w, NEW said, ResultOK(w, g, said),
         NEW F, GraphInv(g, F), said \in Contents
  PROVE  ResultOK(w, p.graph, said)
  <1> SUFFICES ASSUME NEW i \in Touched(said)
               PROVE  /\ w.result[i] \in Clusters /\ p.graph.idOf[i] \in Clusters
                      /\ Resolve(p.graph, w.result[i]) = Resolve(p.graph, p.graph.idOf[i])
    BY DEF ResultOK
  <1>1. w.result[i] \in Clusters /\ g.idOf[i] \in Clusters /\ Resolve(g, w.result[i]) = Resolve(g, g.idOf[i])
    BY DEF ResultOK
  <1>2. i \in Ids
    BY CloseGroups
  <1>3. i \in Known(g)
    BY <1>1, <1>2 DEF Known, NoCluster, Clusters
  <1>4. p.graph.idOf[i] = g.idOf[i]
    BY <1>3 DEF PersistedWell
  <1>5. Resolve(p.graph, w.result[i]) = Resolve(p.graph, g.idOf[i])
    BY <1>1 DEF PersistedWell
  <1> QED BY <1>1, <1>4, <1>5

\* A step that leaves the graph alone, and moves one consumer to a stage where nothing is
\* known, keeps what the others know.
LEMMA KnowsFrame ==
  ASSUME KnowsInv, WorkInv, UNCHANGED <<graph, content>>, NEW c \in Consumers, NEW r,
         work' = [work EXCEPT ![c] = r], r.at \notin {"persist", "write"}, broken' = broken \/ broken' = broken \cup {c} \/ broken' = broken \ {c}
  PROVE  KnowsInv'
  <1>1. \A d \in Consumers : work'[d] = IF d = c THEN r ELSE work[d]
    BY DEF WorkInv
  <1>2. \A d \in Consumers : d # c => (d \in broken' <=> d \in broken)
    OBVIOUS
  <1> QED BY <1>1, <1>2 DEF KnowsInv

LEMMA CheckKeeps ==
  ASSUME ConsumerInv, NEW c \in Consumers, Check(c)
  PROVE  ConsumerInv'
  <1>1. BusInv /\ WorkInv /\ GraphInv(graph, seen) /\ KnowsInv /\ AckInv
    BY DEF ConsumerInv
  <1>2. /\ work[c].at = "check" /\ c \notin broken /\ work[c].scan \in Scans /\ work[c].at # "idle"
        /\ UNCHANGED <<content, trigger, deliveries, graph, lock, document, refused, broken, seen, failures>>
    BY <1>1 DEF Check, WorkInv, Idle
  <1>3. PICK r : /\ work' = [work EXCEPT ![c] = r] /\ r.scan = work[c].scan /\ r.at \in {"ack", "lock", "write"}
                 /\ r.at = "ack" => r.scan \in DOMAIN document
                 /\ r.at = "write" => r.result = <<>> /\ Touched(content[r.scan]) = {}
    <2> DEFINE s == work[c].scan
               r1 == [at |-> "ack", scan |-> s]
               r2 == [at |-> "lock", scan |-> s]
               r3 == [at |-> "write", scan |-> s, result |-> <<>>]
    <2>1. CASE Written(Scan(c)) /\ Does(c, "ack")
      <3>1. work' = [work EXCEPT ![c] = r1] /\ s \in DOMAIN document
        BY <2>1 DEF Does, Written, Scan
      <3>2. r1.at = "ack" /\ r1.scan = s
        OBVIOUS
      <3> HIDE DEF r1
      <3> QED BY <3>1, <3>2
    <2>2. CASE Does(c, "lock")
      <3>1. work' = [work EXCEPT ![c] = r2]
        BY <2>2 DEF Does
      <3>2. r2.at = "lock" /\ r2.scan = s
        OBVIOUS
      <3> HIDE DEF r2
      <3> QED BY <3>1, <3>2
    <2>3. CASE /\ Touched(content[Scan(c)]) = {}
               /\ work' = [work EXCEPT ![c] = [at |-> "write", scan |-> @.scan, result |-> <<>>]]
      <3>1. work' = [work EXCEPT ![c] = r3] /\ Touched(content[s]) = {}
        BY <2>3 DEF Scan
      <3>2. r3.at = "write" /\ r3.scan = s /\ r3.result = <<>>
        OBVIOUS
      <3> HIDE DEF r3
      <3> QED BY <3>1, <3>2
    <2> QED BY <2>1, <2>2, <2>3 DEF Check
  <1>4. \A d \in Consumers : work'[d] = IF d = c THEN r ELSE work[d]
    BY <1>1, <1>3 DEF WorkInv
  <1>5. work' = [d \in Consumers |-> work'[d]]
    BY <1>1, <1>3 DEF WorkInv
  <1>6. BusInv'
    BY <1>1, <1>2 DEF BusInv
  <1>7. WorkInv'
    BY <1>1, <1>2, <1>3, <1>4, <1>5 DEF WorkInv, ConsumerStages
  <1>8. KnowsInv'
    <2>1. r.at = "write" => ResultOK(r, graph, content[r.scan])
      <3>1. HAVE r.at = "write"
      <3>2. r.result = <<>> /\ Touched(content[r.scan]) = {}
        BY <1>3, <3>1
      <3>3. DOMAIN <<>> = {}
        OBVIOUS
      <3> QED BY <3>2, <3>3 DEF ResultOK
    <2> QED BY <1>1, <1>2, <1>3, <1>4, <2>1 DEF KnowsInv
  <1>9. AckInv'
    BY <1>1, <1>2, <1>3, <1>4 DEF AckInv
  <1> QED BY <1>1, <1>2, <1>6, <1>7, <1>8, <1>9 DEF ConsumerInv

LEMMA LockKeeps ==
  ASSUME ConsumerInv, NEW c \in Consumers, Lock(c)
  PROVE  ConsumerInv'
  <1>1. BusInv /\ WorkInv /\ GraphInv(graph, seen) /\ KnowsInv /\ AckInv
    BY DEF ConsumerInv
  <1>2. /\ work[c].at = "lock" /\ c \notin broken /\ work[c].scan \in Scans /\ lock = Nobody /\ lock' = c
        /\ UNCHANGED <<content, trigger, deliveries, graph, document, refused, broken, seen, failures>>
    BY <1>1 DEF Lock, WorkInv, Idle
  <1>3. PICK r : /\ work' = [work EXCEPT ![c] = r] /\ r.scan = work[c].scan /\ r.at = "persist"
                 /\ r.existing = [i \in Touched(content[r.scan]) |-> graph.idOf[i]]
    <2> DEFINE s == work[c].scan
               r == [at |-> "persist", scan |-> s,
                     existing |-> [i \in Touched(content[s]) |-> graph.idOf[i]]]
    <2>1. work' = [work EXCEPT ![c] = r]
      BY DEF Lock, Reads
    <2>2. /\ r.at = "persist" /\ r.scan = s
          /\ r.existing = [i \in Touched(content[s]) |-> graph.idOf[i]]
      OBVIOUS
    <2> HIDE DEF r
    <2> QED BY <2>1, <2>2
  <1>4. \A d \in Consumers : work'[d] = IF d = c THEN r ELSE work[d]
    BY <1>1, <1>3 DEF WorkInv
  <1>5. work' = [d \in Consumers |-> work'[d]]
    BY <1>1, <1>3 DEF WorkInv
  <1>6. BusInv'
    BY <1>1, <1>2 DEF BusInv
  <1>7. WorkInv'
    <2>1. \A d \in Consumers \ broken : work[d].at # "persist"
      BY <1>1, <1>2, NormalizeAssumption DEF WorkInv, Nobody
    <2> QED BY <1>1, <1>2, <1>3, <1>4, <1>5, <2>1 DEF WorkInv, ConsumerStages
  <1>8. KnowsInv'
    <2>1. ReadOK(r, graph, content[r.scan])
      BY <1>3 DEF ReadOK
    <2> QED BY <1>1, <1>2, <1>3, <1>4, <2>1 DEF KnowsInv
  <1>9. AckInv'
    BY <1>1, <1>2, <1>3, <1>4 DEF AckInv
  <1> QED BY <1>1, <1>2, <1>6, <1>7, <1>8, <1>9 DEF ConsumerInv

LEMMA PersistStepKeeps ==
  ASSUME ConsumerInv, NEW c \in Consumers, PersistClusters(c)
  PROVE  /\ ConsumerInv'
         /\ \A i \in Known(graph) : i \in Ids /\ graph'.idOf[i] = graph.idOf[i] /\ graph.idOf[i] \in Clusters
         /\ \A a, b \in Clusters : Resolve(graph, a) = Resolve(graph, b) => Resolve(graph', a) = Resolve(graph', b)
  <1> DEFINE said == content[work[c].scan]
             T == Touched(said)
             p == Persist(graph, work[c].existing, said)
  <1>1. BusInv /\ WorkInv /\ GraphInv(graph, seen) /\ KnowsInv /\ AckInv
    BY DEF ConsumerInv
  <1>2. /\ work[c].at = "persist" /\ c \notin broken /\ work[c].scan \in Scans /\ lock = c /\ lock' = Nobody
        /\ UNCHANGED <<content, trigger, deliveries, document, refused, broken, failures>>
        /\ said \in Contents
    <2>1. /\ work[c].at = "persist" /\ c \notin broken /\ lock' = Free(c)
          /\ UNCHANGED <<content, trigger, deliveries, document, refused, broken, failures>>
      BY DEF PersistClusters
    <2>2. work[c].scan \in Scans /\ lock = c
      BY <1>1, <2>1 DEF WorkInv, Idle
    <2>3. said \in Contents
      BY <1>1, <2>2 DEF BusInv
    <2> QED BY <2>1, <2>2, <2>3 DEF Free
  <1>3. \A d \in Consumers \ broken : work[d].at = "persist" => d = c
    BY <1>1, <1>2 DEF WorkInv
  <1>4. PersistedWell(p, graph, seen \cup said.edges, T)
    <2>1. work[c].existing = [i \in Touched(said) |-> graph.idOf[i]]
      BY <1>1, <1>2 DEF KnowsInv, ReadOK
    <2> HIDE DEF said
    <2> QED BY <1>1, <1>2, <2>1, PersistKeeps
  <1>5. graph \in Graphs
    BY <1>1 DEF GraphInv
  <1> DEFINE r1 == [at |-> "write", scan |-> work[c].scan, result |-> p.result]
             r2 == [at |-> "fail", scan |-> work[c].scan]
  <1>6. r1.at = "write" /\ r1.scan = work[c].scan /\ r1.result = p.result
        /\ r2.at = "fail" /\ r2.scan = work[c].scan
    OBVIOUS
  <1>7. \/ graph' = p.graph /\ seen' = seen \cup said.edges /\ work' = [work EXCEPT ![c] = r1]
        \/ UNCHANGED <<graph, seen>> /\ work' = [work EXCEPT ![c] = r2]
    BY DEF PersistClusters, Scan, Does
  <1> HIDE DEF p, r1, r2, said
  <1>8. ASSUME NEW r, r.scan = work[c].scan, r.at \in {"write", "fail"}, work' = [work EXCEPT ![c] = r]
        PROVE  /\ \A d \in Consumers : work'[d] = IF d = c THEN r ELSE work[d]
               /\ BusInv' /\ WorkInv' /\ AckInv'
    <2>1. \A d \in Consumers : work'[d] = IF d = c THEN r ELSE work[d]
      BY <1>1, <1>8 DEF WorkInv
    <2>2. work' = [d \in Consumers |-> work'[d]]
      BY <1>1, <1>8 DEF WorkInv
    <2>3. BusInv'
      BY <1>1, <1>2 DEF BusInv
    <2>4. WorkInv'
      <3>1. \A d \in Consumers : d # Nobody
        BY NormalizeAssumption DEF Nobody
      <3>2. Nobody \notin broken
        BY <1>1, <3>1 DEF WorkInv
      <3> QED BY <1>1, <1>2, <1>3, <1>8, <2>1, <2>2, <3>1, <3>2 DEF WorkInv, ConsumerStages
    <2>5. AckInv'
      BY <1>1, <1>2, <1>8, <2>1 DEF AckInv
    <2> QED BY <2>1, <2>3, <2>4, <2>5
  <1>9. CASE graph' = p.graph /\ seen' = seen \cup said.edges /\ work' = [work EXCEPT ![c] = r1]
    <2>1. /\ \A d \in Consumers : work'[d] = IF d = c THEN r1 ELSE work[d]
          /\ BusInv' /\ WorkInv' /\ AckInv'
      BY <1>6, <1>8, <1>9
    <2>2. GraphInv(graph', seen')
      BY <1>4, <1>9 DEF PersistedWell
    <2>3. ResultOK(r1, graph', content'[r1.scan])
      <3>1. ResultOK(r1, p.graph, said)
        BY <1>4, <1>6 DEF PersistedWell, ResultOK, said
      <3> QED BY <1>2, <1>6, <1>9, <3>1 DEF said
    <2>4. ASSUME NEW d \in Consumers, d # c, work[d].at = "write"
          PROVE  ResultOK(work[d], graph', content'[work[d].scan])
      <3>1. work[d].scan \in Scans
        BY <1>1, <2>4 DEF WorkInv, Idle
      <3>2. content[work[d].scan] \in Contents
        BY <1>1, <3>1 DEF BusInv
      <3>3. ResultOK(work[d], graph, content[work[d].scan])
        BY <1>1, <2>4 DEF KnowsInv
      <3>4. ResultOK(work[d], p.graph, content[work[d].scan])
        BY <1>1, <1>4, <3>2, <3>3, ResultStands
      <3> QED BY <1>2, <1>9, <3>4
    <2>5. KnowsInv'
      BY <1>2, <1>3, <1>6, <2>1, <2>3, <2>4 DEF KnowsInv
    <2>6. ConsumerInv'
      BY <2>1, <2>2, <2>5 DEF ConsumerInv
    <2> QED BY <1>4, <1>5, <1>9, <2>6, GraphFields DEF PersistedWell
  <1>10. CASE UNCHANGED <<graph, seen>> /\ work' = [work EXCEPT ![c] = r2]
    <2>1. /\ \A d \in Consumers : work'[d] = IF d = c THEN r2 ELSE work[d]
          /\ BusInv' /\ WorkInv' /\ AckInv'
      BY <1>6, <1>8, <1>10
    <2>2. KnowsInv'
      BY <1>1, <1>2, <1>6, <1>10, KnowsFrame
    <2>3. ConsumerInv'
      BY <1>1, <1>10, <2>1, <2>2 DEF ConsumerInv
    <2> QED BY <1>5, <1>10, <2>3, GraphFields
  <1> QED BY <1>7, <1>9, <1>10

LEMMA WriteKeeps ==
  ASSUME ConsumerInv, NEW c \in Consumers, WriteDocument(c)
  PROVE  /\ ConsumerInv' /\ DOMAIN document \subseteq DOMAIN document'
         /\ \A s \in DOMAIN document : document'[s] = document[s]
  <1> DEFINE s == work[c].scan
  <1>1. BusInv /\ WorkInv /\ GraphInv(graph, seen) /\ KnowsInv /\ AckInv
    BY DEF ConsumerInv
  <1>2. /\ work[c].at = "write" /\ c \notin broken /\ s \in Scans
        /\ UNCHANGED <<content, trigger, deliveries, graph, lock, broken, seen, failures>>
    BY <1>1 DEF WriteDocument, WorkInv, Idle
  <1>3. /\ DOMAIN document \subseteq DOMAIN document' /\ refused \subseteq refused' /\ refused' \subseteq Scans
        /\ \A t \in DOMAIN document : document'[t] = document[t]
        /\ \/ Does(c, "ack") /\ s \in DOMAIN document' \cup refused'
           \/ Does(c, "fail")
    <2>1. CASE /\ ~Written(s) /\ Does(c, "ack")
               /\ document' = [t \in DOMAIN document \cup {s} |->
                                 IF t = s THEN Documented(work[c].result, content[s]) ELSE document[t]]
               /\ UNCHANGED refused
      BY <1>1, <2>1 DEF Written, BusInv
    <2>2. CASE Does(c, "ack") /\ refused' = refused \cup {s} /\ UNCHANGED document
      BY <1>1, <1>2, <2>2 DEF BusInv
    <2>3. CASE Does(c, "fail") /\ UNCHANGED <<document, refused>>
      BY <1>1, <2>3 DEF BusInv
    <2> QED BY <2>1, <2>2, <2>3 DEF WriteDocument, Scan
  <1>4. PICK r : /\ work' = [work EXCEPT ![c] = r] /\ r.scan = s /\ r.at \in {"ack", "fail"}
                 /\ r.at = "ack" => s \in DOMAIN document' \cup refused'
    <2> DEFINE r1 == [at |-> "ack", scan |-> s]
               r2 == [at |-> "fail", scan |-> s]
    <2>1. r1.at = "ack" /\ r1.scan = s /\ r2.at = "fail" /\ r2.scan = s
      OBVIOUS
    <2>2. (Does(c, "ack") => work' = [work EXCEPT ![c] = r1]) /\ (Does(c, "fail") => work' = [work EXCEPT ![c] = r2])
      BY DEF Does
    <2> HIDE DEF r1, r2
    <2> QED BY <1>3, <2>1, <2>2
  <1>5. /\ \A d \in Consumers : work'[d] = IF d = c THEN r ELSE work[d]
        /\ work' = [d \in Consumers |-> work'[d]]
    BY <1>1, <1>4 DEF WorkInv
  <1>6. BusInv'
    BY <1>1, <1>2, <1>3 DEF BusInv
  <1>7. WorkInv'
    BY <1>1, <1>2, <1>4, <1>5 DEF WorkInv, ConsumerStages
  <1>8. KnowsInv'
    BY <1>1, <1>2, <1>4, KnowsFrame
  <1>9. AckInv'
    BY <1>1, <1>2, <1>3, <1>4, <1>5 DEF AckInv
  <1> QED BY <1>1, <1>2, <1>3, <1>6, <1>7, <1>8, <1>9 DEF ConsumerInv

LEMMA BrokenKeeps ==
  ASSUME ConsumerInv, NEW c \in Consumers, FailBroken(c)
  PROVE  ConsumerInv'
  <1>1. BusInv /\ WorkInv /\ GraphInv(graph, seen) /\ KnowsInv /\ AckInv
    BY DEF ConsumerInv
  <1>2. /\ work[c].at # "idle" /\ work[c].scan \in Scans /\ c \in broken
        /\ UNCHANGED <<content, trigger, deliveries, graph, lock, document, refused, broken, seen, failures>>
    BY <1>1 DEF FailBroken, WorkInv, Idle
  <1>3. PICK r : work' = [work EXCEPT ![c] = r] /\ r.scan = work[c].scan /\ r.at = "fail"
    <2> DEFINE r == [at |-> "fail", scan |-> work[c].scan]
    <2>1. r.at = "fail" /\ r.scan = work[c].scan
      OBVIOUS
    <2>2. work' = [work EXCEPT ![c] = r]
      BY DEF FailBroken, Does
    <2> HIDE DEF r
    <2> QED BY <2>1, <2>2
  <1>4. /\ \A d \in Consumers : work'[d] = IF d = c THEN r ELSE work[d]
        /\ work' = [d \in Consumers |-> work'[d]]
    BY <1>1, <1>3 DEF WorkInv
  <1>5. BusInv'
    BY <1>1, <1>2 DEF BusInv
  <1>6. WorkInv'
    BY <1>1, <1>2, <1>3, <1>4 DEF WorkInv, ConsumerStages
  <1>7. KnowsInv'
    BY <1>1, <1>2, <1>3, KnowsFrame
  <1>8. AckInv'
    BY <1>1, <1>2, <1>3, <1>4 DEF AckInv
  <1> QED BY <1>1, <1>2, <1>5, <1>6, <1>7, <1>8 DEF ConsumerInv

\* A consumer that goes idle, whatever becomes of its trigger, connection and lock.
LEMMA IdleKeeps ==
  ASSUME ConsumerInv, NEW c \in Consumers, work' = [work EXCEPT ![c] = Idle],
         UNCHANGED <<content, deliveries, graph, document, refused, seen>>, failures' \in 0..MaxFailures,
         \/ UNCHANGED <<lock, broken>> /\ work[c].at # "persist"
         \/ lock' = Free(c) /\ broken' = broken \ {c},
         \A s \in Scans : trigger'[s] = trigger[s] \/ /\ trigger'[s] \in {"acked", "dlq", "lost"}
                                                      /\ trigger'[s] = "acked" => s \in DOMAIN document \cup refused,
         trigger' = [s \in Scans |-> trigger'[s]]
  PROVE  ConsumerInv'
  <1>1. BusInv /\ WorkInv /\ GraphInv(graph, seen) /\ KnowsInv /\ AckInv
    BY DEF ConsumerInv
  <1>2. Idle.at = "idle"
    BY DEF Idle
  <1>3. /\ \A d \in Consumers : work'[d] = IF d = c THEN Idle ELSE work[d]
        /\ work' = [d \in Consumers |-> work'[d]]
    BY <1>1 DEF WorkInv
  <1>4. BusInv'
    <2>1. \A s \in Scans : trigger'[s] \in {"ready", "out", "acked", "dlq", "lost", "spent"}
      BY <1>1 DEF BusInv
    <2>2. trigger' \in [Scans -> {"ready", "out", "acked", "dlq", "lost", "spent"}]
      BY <2>1
    <2>3. \A s \in Scans : trigger'[s] = "ready" => trigger[s] = "ready"
      OBVIOUS
    <2> QED BY <1>1, <2>2, <2>3 DEF BusInv
  <1>5. WorkInv'
    <2>1. \A d \in Consumers : d # Nobody
      BY NormalizeAssumption DEF Nobody
    <2>2. Nobody \notin broken
      BY <1>1, <2>1 DEF WorkInv
    <2>3. CASE UNCHANGED <<lock, broken>> /\ work[c].at # "persist"
      BY <1>1, <1>2, <1>3, <2>3 DEF WorkInv
    <2>4. CASE lock' = Free(c) /\ broken' = broken \ {c}
      <3>1. lock' \in Consumers \cup {Nobody} /\ lock' \notin broken' /\ broken' \subseteq Consumers
        BY <1>1, <2>2, <2>4 DEF WorkInv, Free
      <3>2. \A d \in Consumers \ broken' : work'[d].at = "persist" <=> lock' = d
        <4> TAKE d \in Consumers \ broken'
        <4>1. CASE d = c
          BY <1>2, <1>3, <2>1, <2>4, <4>1 DEF Free
        <4>2. CASE d # c
          <5>1. d \notin broken /\ work'[d] = work[d] /\ (lock' = d <=> lock = d)
            BY <1>3, <2>1, <2>4, <4>2 DEF Free
          <5> QED BY <1>1, <5>1 DEF WorkInv
        <4> QED BY <4>1, <4>2
      <3>3. \A d \in Consumers :
              \/ work'[d] = Idle
              \/ work'[d].scan \in Scans /\ work'[d].at \in ConsumerStages \cup {"persist", "write"}
        BY <1>1, <1>3 DEF WorkInv
      <3> QED BY <1>3, <3>1, <3>2, <3>3 DEF WorkInv
    <2> QED BY <2>3, <2>4
  <1>6. KnowsInv'
    BY <1>1, <1>2, KnowsFrame
  <1>7. AckInv'
    BY <1>1, <1>2, <1>3 DEF AckInv
  <1> QED BY <1>1, <1>4, <1>5, <1>6, <1>7 DEF ConsumerInv

LEMMA EndKeeps ==
  ASSUME ConsumerInv, NEW c \in Consumers, ToDlq(c) \/ AckTrigger(c) \/ Crash(c)
  PROVE  ConsumerInv'
  <1>1. BusInv /\ WorkInv /\ AckInv
    BY DEF ConsumerInv
  <1>2. failures \in 0..MaxFailures /\ (Failure => failures' \in 0..MaxFailures)
    BY <1>1, NormalizeAssumption DEF BusInv, Failure
  <1> DEFINE t == Scan(c)
  <1>3. CASE ToDlq(c)
    <2>1. /\ work[c].at = "fail" /\ work' = [work EXCEPT ![c] = Idle]
          /\ UNCHANGED <<content, deliveries, graph, lock, document, refused, broken, seen>>
      BY <1>3 DEF ToDlq
    <2>2. failures' \in 0..MaxFailures
      BY <1>2, <1>3 DEF ToDlq
    <2>3. PICK v \in {"acked", "dlq", "lost"} :
            trigger' = [trigger EXCEPT ![t] = v] /\ (v = "acked" => trigger[t] = "acked")
      <3>1. \/ trigger' = [trigger EXCEPT ![t] = IF @ = "acked" THEN @ ELSE "dlq"]
            \/ trigger' = [trigger EXCEPT ![t] = IF @ \in {"acked", "dlq"} THEN @ ELSE "lost"]
        BY <1>3 DEF ToDlq
      <3> HIDE DEF t
      <3> QED BY <3>1
    <2>4. /\ \A s \in Scans : trigger'[s] = trigger[s] \/ /\ trigger'[s] \in {"acked", "dlq", "lost"}
                                                          /\ trigger'[s] = "acked" => s \in DOMAIN document \cup refused
          /\ trigger' = [s \in Scans |-> trigger'[s]]
      <3> HIDE DEF t
      <3> QED BY <1>1, <2>3 DEF BusInv, AckInv
    <2> QED BY <2>1, <2>2, <2>4, IdleKeeps
  <1>4. CASE AckTrigger(c)
    <2>1. /\ work[c].at = "ack" /\ work' = [work EXCEPT ![c] = Idle]
          /\ UNCHANGED <<content, deliveries, graph, lock, document, refused, broken, seen, failures>>
          /\ trigger' = [trigger EXCEPT ![t] = IF Settled(t) THEN @ ELSE "acked"]
      BY <1>4 DEF AckTrigger
    <2>2. t \in DOMAIN document \cup refused
      BY <1>1, <2>1 DEF AckInv, Scan
    <2>3. /\ \A s \in Scans : trigger'[s] = trigger[s] \/ /\ trigger'[s] \in {"acked", "dlq", "lost"}
                                                          /\ trigger'[s] = "acked" => s \in DOMAIN document \cup refused
          /\ trigger' = [s \in Scans |-> trigger'[s]]
      <3> HIDE DEF t
      <3> QED BY <1>1, <2>1, <2>2 DEF BusInv
    <2>4. failures' \in 0..MaxFailures /\ work[c].at # "persist"
      BY <1>2, <2>1
    <2> QED BY <2>1, <2>3, <2>4, IdleKeeps
  <1>5. CASE Crash(c)
    <2>1. /\ work' = [work EXCEPT ![c] = Idle] /\ lock' = Free(c) /\ broken' = broken \ {c}
          /\ UNCHANGED <<content, trigger, deliveries, graph, document, refused, seen>>
          /\ failures' \in 0..MaxFailures
      BY <1>2, <1>5 DEF Crash
    <2>2. trigger' = [s \in Scans |-> trigger'[s]]
      BY <1>1, <2>1 DEF BusInv
    <2> QED BY <2>1, <2>2, IdleKeeps
  <1> QED BY <1>3, <1>4, <1>5

LEMMA TakeKeeps ==
  ASSUME ConsumerInv, NEW c \in Consumers, NEW s \in Scans, TakeTrigger(c, s)
  PROVE  ConsumerInv'
  <1>1. BusInv /\ WorkInv /\ GraphInv(graph, seen) /\ KnowsInv /\ AckInv
    BY DEF ConsumerInv
  <1> DEFINE r == [at |-> "check", scan |-> s]
  <1>2. /\ work[c].at = "idle" /\ trigger[s] = "ready" /\ work' = [work EXCEPT ![c] = r]
        /\ trigger' = [trigger EXCEPT ![s] = "out"] /\ deliveries' = [deliveries EXCEPT ![s] = @ + 1]
        /\ UNCHANGED <<content, graph, lock, document, refused, broken, seen, failures>>
    BY DEF TakeTrigger, Idle
  <1>3. r.at = "check" /\ r.scan = s
    OBVIOUS
  <1> HIDE DEF r
  <1>4. /\ \A d \in Consumers : work'[d] = IF d = c THEN r ELSE work[d]
        /\ work' = [d \in Consumers |-> work'[d]]
    BY <1>1, <1>2 DEF WorkInv
  <1>5. /\ \A t \in Scans : trigger'[t] = IF t = s THEN "out" ELSE trigger[t]
        /\ \A t \in Scans : deliveries'[t] = IF t = s THEN deliveries[s] + 1 ELSE deliveries[t]
        /\ trigger' = [t \in Scans |-> trigger'[t]] /\ deliveries' = [t \in Scans |-> deliveries'[t]]
    BY <1>1, <1>2 DEF BusInv
  <1>6. BusInv'
    <2>1. deliveries[s] + 1 \in 0..MAX_DELIVER
      BY <1>1, <1>2, NormalizeAssumption DEF BusInv
    <2>2. \A t \in Scans : deliveries'[t] \in 0..MAX_DELIVER /\ trigger'[t] \in {"ready", "out", "acked", "dlq", "lost", "spent"}
                           /\ (trigger'[t] = "ready" => deliveries'[t] < MAX_DELIVER)
      BY <1>1, <1>5, <2>1 DEF BusInv
    <2>3. /\ deliveries' \in [Scans -> 0..MAX_DELIVER]
          /\ trigger' \in [Scans -> {"ready", "out", "acked", "dlq", "lost", "spent"}]
      BY <1>5, <2>2
    <2> QED BY <1>1, <1>2, <2>2, <2>3 DEF BusInv
  <1>7. WorkInv'
    BY <1>1, <1>2, <1>3, <1>4 DEF WorkInv, ConsumerStages
  <1>8. KnowsInv'
    BY <1>1, <1>2, <1>3, KnowsFrame
  <1>9. AckInv'
    BY <1>1, <1>2, <1>3, <1>4, <1>5 DEF AckInv
  <1> QED BY <1>1, <1>2, <1>6, <1>7, <1>8, <1>9 DEF ConsumerInv

LEMMA OutsideKeeps ==
  ASSUME ConsumerInv,
         (\E s \in Scans : TriggerWaitPasses(s)) \/ (\E c \in Consumers : ConnectionLost(c))
  PROVE  ConsumerInv'
  <1>1. BusInv /\ WorkInv /\ GraphInv(graph, seen) /\ KnowsInv /\ AckInv
    BY DEF ConsumerInv
  <1>2. failures \in 0..MaxFailures /\ (Failure => failures' \in 0..MaxFailures)
    BY <1>1, NormalizeAssumption DEF BusInv, Failure
  <1>3. ASSUME NEW s \in Scans, TriggerWaitPasses(s) PROVE ConsumerInv'
    <2>1. /\ UNCHANGED <<content, deliveries, graph, lock, document, refused, work, broken, seen>>
          /\ trigger' = [trigger EXCEPT ![s] = IF deliveries[s] < MAX_DELIVER THEN "ready" ELSE "spent"]
          /\ failures' \in 0..MaxFailures
      BY <1>2, <1>3 DEF TriggerWaitPasses
    <2>2. /\ \A t \in Scans : trigger'[t] = trigger[t] \/ trigger'[t] = "spent"
                              \/ (trigger'[t] = "ready" /\ deliveries[t] < MAX_DELIVER)
          /\ trigger' = [t \in Scans |-> trigger'[t]]
      BY <1>1, <2>1 DEF BusInv
    <2>3. BusInv'
      <3>1. \A t \in Scans : trigger'[t] \in {"ready", "out", "acked", "dlq", "lost", "spent"}
        BY <1>1, <2>2 DEF BusInv
      <3>2. trigger' \in [Scans -> {"ready", "out", "acked", "dlq", "lost", "spent"}]
        BY <2>2, <3>1
      <3> QED BY <1>1, <2>1, <2>2, <3>2 DEF BusInv
    <2>4. WorkInv'
      BY <1>1, <2>1 DEF WorkInv
    <2>5. KnowsInv'
      BY <1>1, <2>1 DEF KnowsInv
    <2>6. AckInv'
      BY <1>1, <2>1, <2>2 DEF AckInv
    <2> QED BY <1>1, <2>1, <2>3, <2>4, <2>5, <2>6 DEF ConsumerInv
  <1>4. ASSUME NEW c \in Consumers, ConnectionLost(c) PROVE ConsumerInv'
    <2>1. /\ UNCHANGED <<content, trigger, deliveries, graph, document, refused, work, seen>>
          /\ broken' = broken \cup {c} /\ lock' = Free(c) /\ failures' \in 0..MaxFailures
      BY <1>2, <1>4 DEF ConnectionLost
    <2>2. BusInv'
      BY <1>1, <2>1 DEF BusInv
    <2>3. WorkInv'
      <3>1. \A d \in Consumers : d # Nobody
        BY NormalizeAssumption DEF Nobody
      <3>2. Nobody \notin broken
        BY <1>1, <3>1 DEF WorkInv
      <3>3. lock' \in Consumers \cup {Nobody} /\ lock' \notin broken' /\ broken' \subseteq Consumers
        BY <1>1, <2>1, <3>1, <3>2 DEF WorkInv, Free
      <3>4. \A d \in Consumers \ broken' : d # c /\ d \notin broken /\ (lock' = d <=> lock = d)
        BY <2>1, <3>1 DEF Free
      <3> QED BY <1>1, <2>1, <3>3, <3>4 DEF WorkInv
    <2>4. KnowsInv'
      BY <1>1, <2>1 DEF KnowsInv
    <2>5. AckInv'
      BY <1>1, <2>1 DEF AckInv
    <2> QED BY <1>1, <2>1, <2>2, <2>3, <2>4, <2>5 DEF ConsumerInv
  <1> QED BY <1>3, <1>4

(***************************************************************************)
(* The properties of the runs                                              *)
(***************************************************************************)
\* What edges lead to from an id: a set that no edge leaves, as many rounds as there
\* are ids are enough to fill it.
Wider(X) == X \cup UNION {Near(j) : j \in X}
Rounds(f, i, k) == f = [n \in 0..k |-> IF n = 0 THEN {i} ELSE Wider(f[n - 1])]

LEMMA ReachExists ==
  ASSUME NEW i \in Ids
  PROVE  \E f : Reach(i) = f[Cardinality(Ids)] /\ Rounds(f, i, Cardinality(Ids))
  <1> DEFINE N == Cardinality(Ids)
             Bad == {k \in Nat : ~ \E f : Rounds(f, i, k)}
             h == CHOOSE ball : ball = [n \in 0..Cardinality(Ids) |->
                                          IF n = 0 THEN {i}
                                          ELSE LET b == ball[n - 1] IN b \cup UNION {Near(j) : j \in b}]
  <1>1. N \in Nat
    BY IdsCounted
  <1>2. ASSUME Bad # {} PROVE FALSE
    <2>1. PICK k \in Bad : \A l \in Bad : k <= l
      <3>1. Bad \subseteq Nat
        OBVIOUS
      <3> HIDE DEF Bad
      <3> QED BY <1>2, <3>1, Least
    <2>2. CASE k = 0
      <3>1. Rounds([n \in 0..0 |-> {i}], i, 0)
        BY DEF Rounds
      <3> QED BY <2>1, <2>2, <3>1
    <2>3. CASE k # 0
      <3>1. k \in Nat /\ k - 1 \in Nat /\ ~ (k <= k - 1)
        BY <2>1, <2>3
      <3>2. k - 1 \notin Bad
        <4> HIDE DEF Bad
        <4> QED BY <2>1, <3>1
      <3>3. PICK f : Rounds(f, i, k - 1)
        BY <3>1, <3>2
      <3> DEFINE e == [n \in 0..k |-> IF n = 0 THEN {i} ELSE Wider(f[n - 1])]
      <3>4. \A n \in 0..(k - 1) : e[n] = f[n]
        <4>1. \A n \in 0..(k - 1) : n \in 0..k /\ f[n] = IF n = 0 THEN {i} ELSE Wider(f[n - 1])
          <5>1. \A n \in 0..(k - 1) : n \in 0..k
            BY <3>1
          <5>2. f = [n \in 0..(k - 1) |-> IF n = 0 THEN {i} ELSE Wider(f[n - 1])]
            BY <3>3 DEF Rounds
          <5> QED BY <5>1, <5>2
        <4> QED BY <4>1
      <3>5. \A n \in 0..k : e[n] = IF n = 0 THEN {i} ELSE Wider(e[n - 1])
        <4>1. \A n \in 0..k : e[n] = IF n = 0 THEN {i} ELSE Wider(f[n - 1])
          OBVIOUS
        <4>2. \A n \in 0..k : n # 0 => n - 1 \in 0..(k - 1)
          BY <3>1
        <4> HIDE DEF e
        <4> QED BY <3>4, <4>1, <4>2
      <3>6. e = [n \in 0..k |-> e[n]]
        OBVIOUS
      <3> HIDE DEF e
      <3>7. Rounds(e, i, k)
        BY <3>5, <3>6 DEF Rounds
      <3> QED BY <2>1, <3>7
    <2> QED BY <2>2, <2>3
  <1>3. PICK f : Rounds(f, i, N)
    BY <1>1, <1>2
  <1>4. Rounds(h, i, N)
    <2>1. f = [n \in 0..Cardinality(Ids) |->
                 IF n = 0 THEN {i} ELSE LET b == f[n - 1] IN b \cup UNION {Near(j) : j \in b}]
      BY <1>3 DEF Rounds, Wider
    <2>2. h = [n \in 0..Cardinality(Ids) |->
                 IF n = 0 THEN {i} ELSE LET b == h[n - 1] IN b \cup UNION {Near(j) : j \in b}]
      BY <2>1
    <2> HIDE DEF h
    <2> QED BY <2>2 DEF Rounds, Wider
  <1>5. Reach(i) = h[N]
    BY DEF Reach
  <1> HIDE DEF h
  <1> QED BY <1>4, <1>5

LEMMA ReachIsShut ==
  ASSUME NEW i \in Ids
  PROVE  i \in Reach(i) /\ Shut(seen, Reach(i)) /\ Reach(i) \in SUBSET Ids
  <1> DEFINE N == Cardinality(Ids)
  <1>1. PICK h : Reach(i) = h[N] /\ Rounds(h, i, N)
    BY ReachExists
  <1>2. N \in Nat
    BY IdsCounted
  <1>3. \A j \in Ids : Near(j) = {k \in Ids : Tied(seen, j, k)}
    BY DEF Near, Linked, Tied
  <1>4. h[0] = {i} /\ \A n \in 1..N : h[n] = Wider(h[n - 1])
    <2>1. h = [n \in 0..N |-> IF n = 0 THEN {i} ELSE Wider(h[n - 1])]
      BY <1>1 DEF Rounds
    <2>2. \A n \in 0..N : h[n] = IF n = 0 THEN {i} ELSE Wider(h[n - 1])
      BY <2>1
    <2>3. 0 \in 0..N /\ \A n \in 1..N : n \in 0..N /\ n # 0
      BY <1>2
    <2> HIDE DEF N
    <2> QED BY <2>2, <2>3
  <1> DEFINE Good(n) == /\ i \in h[n] /\ h[n] \in SUBSET Ids
                        /\ Shut(seen, h[n]) \/ Cardinality(h[n]) >= n + 1
             Bad == {n \in 0..N : ~Good(n)}
  <1> HIDE DEF N
  <1>5. ASSUME Bad # {} PROVE FALSE
    <2>1. PICK b \in Bad : \A n \in Bad : b <= n
      <3>1. Bad \subseteq Nat
        BY <1>2
      <3> HIDE DEF Bad
      <3> QED BY <1>5, <3>1, Least
    <2>2. b \in 0..N /\ ~Good(b)
      BY <2>1
    <2>3. CASE b = 0
      <3>1. Cardinality({i}) = 1
        BY FS_Singleton
      <3>2. Good(0)
        BY <1>4, <3>1
      <3> QED BY <2>2, <2>3, <3>2
    <2>4. CASE b # 0
      <3>1. b \in 1..N /\ b \in Nat /\ b - 1 \in 0..N /\ ~ (b <= b - 1)
        <4> HIDE DEF Good
        <4> QED BY <1>2, <2>2, <2>4
      <3>2. b - 1 \notin Bad
        <4> HIDE DEF Bad
        <4> QED BY <2>1, <3>1
      <3>3. Good(b - 1)
        <4> HIDE DEF Good
        <4> QED BY <3>1, <3>2
      <3> DEFINE X == h[b - 1]
      <3>4. h[b] = Wider(X)
        BY <1>4, <3>1
      <3>5. /\ i \in X /\ X \in SUBSET Ids /\ (Shut(seen, X) \/ Cardinality(X) >= b)
        <4>1. (b - 1) + 1 = b
          BY <3>1
        <4> QED BY <3>3, <4>1
      <3> HIDE DEF X
      <3>6. i \in Wider(X) /\ X \subseteq Wider(X) /\ Wider(X) \in SUBSET Ids
        BY <1>3, <3>5 DEF Wider
      <3>7. CASE Shut(seen, X)
        <4>1. \A j \in X : Near(j) \subseteq X
          BY <1>3, <3>5, <3>7 DEF Shut
        <4>2. Wider(X) = X
          BY <4>1 DEF Wider
        <4>3. Good(b)
          BY <3>4, <3>5, <3>7, <4>2
        <4> QED BY <2>2, <4>3
      <3>8. CASE ~Shut(seen, X)
        <4>1. PICK j \in X, k \in Ids : Tied(seen, j, k) /\ k \notin X
          BY <3>8 DEF Shut
        <4>2. k \in Wider(X)
          BY <1>3, <3>5, <4>1 DEF Wider
        <4>3. X \cup {k} \in SUBSET Wider(X) /\ IsFiniteSet(X) /\ IsFiniteSet(Wider(X)) /\ Cardinality(X) \in Nat
          BY <3>5, <3>6, <4>2, IdsCounted
        <4>4. Cardinality(X \cup {k}) = Cardinality(X) + 1
          BY <4>1, <4>3, FS_AddElement
        <4>5. Cardinality(X \cup {k}) <= Cardinality(Wider(X))
          BY <4>3, FS_Subset
        <4>6. Cardinality(Wider(X)) \in Nat
          BY <3>6, IdsCounted
        <4>7. Cardinality(Wider(X)) >= b + 1
          <5>1. Cardinality(X) >= b
            BY <3>5, <3>8
          <5> HIDE DEF Good, Bad
          <5> QED BY <3>1, <4>3, <4>4, <4>5, <4>6, <5>1
        <4>8. Good(b)
          BY <3>4, <3>6, <4>7
        <4> QED BY <2>2, <4>8
      <3> QED BY <3>7, <3>8
    <2> QED BY <2>3, <2>4
  <1>6. Good(N)
    <2> HIDE DEF Good
    <2> QED BY <1>2, <1>5
  <1>7. Cardinality(h[N]) \in Nat /\ Cardinality(h[N]) <= N
    <2>1. h[N] \in SUBSET Ids
      BY <1>6
    <2> QED BY <2>1, IdsCounted DEF N
  <1>8. ~ (Cardinality(h[N]) >= N + 1)
    <2> HIDE DEF Good, Bad
    <2> QED BY <1>2, <1>7
  <1>9. Reach(i) = h[N]
    BY <1>1
  <1> QED BY <1>6, <1>8, <1>9

\* The parts of the properties that the invariant of the graph gives.
LEMMA GraphMeans ==
  ASSUME GraphInv(graph, seen)
  PROVE  ClusterCapHolds /\ CountIsTrue /\ MergesJustified
  <1> DEFINE root == RootOf(graph)
  <1>1. graph \in Graphs /\ Forwards(graph) /\ Capped(graph) /\ Justified(graph, seen)
    BY DEF GraphInv, Minted
  <1>2. DOMAIN root = Known(graph) /\ \A i \in Known(graph) : root[i] = Resolve(graph, graph.idOf[i])
    BY DEF RootOf
  <1>3. \A i \in Known(graph) : i \in Ids /\ graph.idOf[i] \in Clusters
    BY <1>1, GraphFields
  <1> HIDE DEF root
  <1>4. \A c : Group(root, c) = Ending(graph, c)
    BY <1>2 DEF Group, Ending
  <1>5. \A c \in Range(root) : c \in Clusters /\ Ending(graph, c) # {}
    <2> TAKE c \in Range(root)
    <2>1. PICK i \in Known(graph) : root[i] = c
      BY <1>2 DEF Range
    <2>2. c = Resolve(graph, graph.idOf[i])
      BY <1>2, <2>1
    <2>3. c \in Clusters
      BY <1>1, <1>3, <2>2, ResolveEnds
    <2>4. i \in Ending(graph, c)
      BY <2>2 DEF Ending
    <2> QED BY <2>3, <2>4
  <1>6. ClusterCapHolds
    <2>1. \A c \in Range(root) : Cardinality(Group(root, c)) <= MaxClusterSize
      BY <1>1, <1>4, <1>5 DEF Capped
    <2> QED BY <2>1 DEF ClusterCapHolds, root
  <1>7. CountIsTrue
    <2>1. \A c \in Range(root) : graph.count[c] = Cardinality(Group(root, c))
      BY <1>1, <1>4, <1>5 DEF Capped
    <2> QED BY <2>1 DEF CountIsTrue, root
  <1>8. MergesJustified
    <2>1. ASSUME NEW i \in Known(graph), NEW j \in Known(graph), root[i] = root[j]
          PROVE  j \in Reach(i)
      <3>1. i \in Reach(i) /\ Shut(seen, Reach(i)) /\ Reach(i) \in SUBSET Ids
        BY <1>3, ReachIsShut
      <3>2. Resolve(graph, graph.idOf[i]) = Resolve(graph, graph.idOf[j])
        BY <1>2, <2>1
      <3> QED BY <1>1, <3>1, <3>2 DEF Justified
    <2> QED BY <2>1 DEF MergesJustified, root
  <1> QED BY <1>6, <1>7, <1>8

LEMMA KnowledgeMeans ==
  ASSUME ConsumerInv
  PROVE  WritesAreSound
  <1>1. KnowsInv /\ AckInv
    BY DEF ConsumerInv
  <1>2. ResultIsDurable
    BY <1>1 DEF KnowsInv, ResultOK, ResultIsDurable
  <1>3. AckedIsWritten
    BY <1>1 DEF AckInv, AckedIsWritten, Written
  <1> QED BY <1>2, <1>3 DEF WritesAreSound

\* A step of the system: what it keeps, and what it never takes back.
NothingGoes ==
  /\ \A i \in Known(graph) : graph'.idOf[i] = graph.idOf[i] /\ graph.idOf[i] \in Clusters
  /\ \A a, b \in Clusters : Resolve(graph, a) = Resolve(graph, b) => Resolve(graph', a) = Resolve(graph', b)
  /\ \A s \in DOMAIN document : s \in DOMAIN document' /\ document'[s] = document[s]

LEMMA NextKeeps ==
  ASSUME ConsumerInv, [Next]_vars
  PROVE  ConsumerInv' /\ NothingGoes
  <1>1. \A i \in Known(graph) : graph.idOf[i] \in Clusters
    <2>1. graph \in Graphs
      BY DEF ConsumerInv, GraphInv
    <2> QED BY <2>1, GraphFields
  <1>2. UNCHANGED <<graph, document>> => NothingGoes
    BY <1>1 DEF NothingGoes
  <1>3. CASE UNCHANGED vars
    <2>1. UNCHANGED <<content, trigger, deliveries, graph, lock, document, refused, work, broken, seen, failures>>
      BY <1>3 DEF vars
    <2>2. BusInv' /\ WorkInv' /\ KnowsInv' /\ AckInv'
      BY <2>1 DEF ConsumerInv, BusInv, WorkInv, KnowsInv, AckInv
    <2>3. GraphInv(graph, seen)'
      BY <2>1 DEF ConsumerInv
    <2> QED BY <1>2, <2>1, <2>2, <2>3 DEF ConsumerInv
  <1>4. ASSUME NEW c \in Consumers, Step(c) PROVE ConsumerInv' /\ NothingGoes
    <2>1. CASE Check(c)
      BY <1>2, <2>1, CheckKeeps DEF Check
    <2>2. CASE Lock(c)
      BY <1>2, <2>2, LockKeeps DEF Lock
    <2>3. CASE PersistClusters(c)
      <3>1. document' = document
        BY <2>3 DEF PersistClusters
      <3> QED BY <2>3, <3>1, PersistStepKeeps DEF NothingGoes
    <2>4. CASE WriteDocument(c)
      <3>1. graph' = graph
        BY <2>4 DEF WriteDocument
      <3> QED BY <1>1, <2>4, <3>1, WriteKeeps DEF NothingGoes
    <2>5. CASE FailBroken(c)
      BY <1>2, <2>5, BrokenKeeps DEF FailBroken
    <2>6. CASE ToDlq(c) \/ AckTrigger(c)
      BY <1>2, <2>6, EndKeeps DEF ToDlq, AckTrigger
    <2>7. CASE \E s \in Scans : TakeTrigger(c, s)
      BY <1>2, <2>7, TakeKeeps DEF TakeTrigger
    <2> QED BY <1>4, <2>1, <2>2, <2>3, <2>4, <2>5, <2>6, <2>7 DEF Step
  <1>5. ASSUME NEW c \in Consumers, ConnectionLost(c) PROVE ConsumerInv' /\ NothingGoes
    BY <1>2, <1>5, OutsideKeeps DEF ConnectionLost
  <1>6. ASSUME NEW c \in Consumers, Crash(c) PROVE ConsumerInv' /\ NothingGoes
    BY <1>2, <1>6, EndKeeps DEF Crash
  <1>7. ASSUME NEW s \in Scans, TriggerWaitPasses(s) PROVE ConsumerInv' /\ NothingGoes
    BY <1>2, <1>7, OutsideKeeps DEF TriggerWaitPasses
  <1> QED BY <1>3, <1>4, <1>5, <1>6, <1>7 DEF Next

\* The replicas keep to the lock and to what they have read (normalize_consumer.py,
\* persist_clusters): the inductive invariant of the consumer and of its graph.
THEOREM ConsumerHolds == Spec => []ConsumerInv
  <1>1. Init => ConsumerInv
    BY ConsumerInit
  <1>2. ConsumerInv /\ [Next]_vars => ConsumerInv'
    BY NextKeeps
  <1> QED BY <1>1, <1>2, PTL DEF Spec

\* However many scans, replicas, crashes and lost connections there are, the shared
\* clusters stay within the ceiling, count their members rightly, and hold together
\* only what allowed edges lead to (aliases.close, persist_clusters).
THEOREM GraphSound == Spec => []GraphStaysSound
  <1>1. ConsumerInv => GraphStaysSound
    BY ConsumerTyped, GraphMeans DEF ConsumerInv, GraphStaysSound
  <1> QED BY <1>1, ConsumerHolds, PTL

\* What a replica writes under an id still is the id's cluster when it writes it, and
\* it acks no trigger without a document or its refusal (persist_clusters, _dispatch).
THEOREM WritesSound == Spec => []WritesAreSound
  <1>1. ConsumerInv => WritesAreSound
    BY KnowledgeMeans
  <1> QED BY <1>1, ConsumerHolds, PTL

\* No step takes two ids apart that were one vulnerability, or replaces a document
\* (persist_clusters, handle_trigger).
THEOREM NothingTakenBack == Spec => NothingIsTakenBack
  <1> DEFINE Stays == \A i, j \in Known(graph) : RootOf(graph)[i] = RootOf(graph)[j]
                                                => RootOf(graph')[i] = RootOf(graph')[j]
             Final == \A s \in DOMAIN document : Written(s)' /\ document'[s] = document[s]
  <1>1. ConsumerInv /\ [Next]_vars => Stays /\ Final
    <2> SUFFICES ASSUME ConsumerInv, [Next]_vars PROVE Stays /\ Final
      OBVIOUS
    <2>1. NothingGoes
      BY NextKeeps
    <2>2. \A i \in Known(graph) : i \in Known(graph')
      BY <2>1 DEF Known, NothingGoes
    <2>3. /\ \A i \in Known(graph) : RootOf(graph)[i] = Resolve(graph, graph.idOf[i])
          /\ \A i \in Known(graph') : RootOf(graph')[i] = Resolve(graph', graph'.idOf[i])
      BY DEF RootOf
    <2>4. Stays
      BY <2>1, <2>2, <2>3 DEF NothingGoes
    <2>5. Final
      BY <2>1 DEF NothingGoes, Written
    <2> QED BY <2>4, <2>5
  <1>2. Spec => [][Stays]_vars /\ [][Final]_vars
    <2> HIDE DEF Stays, Final
    <2> QED BY <1>1, ConsumerHolds, PTL DEF Spec
  <1> QED BY <1>2 DEF NothingIsTakenBack, NeverSplit, DocumentIsFinal
=============================================================================
