------------------------- MODULE SourceFetch_proofs -------------------------
(***************************************************************************)
(* Proofs about the sources of projects, what the fetcher makes of them    *)
(* and what becomes of webrecon's document, for any number of projects,    *)
(* requests, workers, jobs and crashes.                                    *)
(***************************************************************************)
EXTENDS SourceFetch, WebDiscovery, SequenceTheorems, TLAPS

Classes == UNION ClassSets

\* A request is at one of the steps of Update, Connect or Upload.
RequestPcs == {"idle", "update", "clear", "commit", "connect", "secret", "attach",
               "upload", "bytes", "record"}
RequestRecords ==
  [pc : RequestPcs, project : Projects \cup {None}, name : Names \cup {None},
   classes : SUBSET Classes, seen : SUBSET Classes, url : Urls \cup {None},
   token : Tokens \cup {None}, version : Versions \cup {None}, key : Nat]
ProjectRecords ==
  [state : {"absent", "live", "deleted"}, kind : Kinds \cup {None}, name : Names \cup {None},
   classes : SUBSET Classes, lock : Requests \cup {None}]
ConnRows == [url : Urls, ref : BOOLEAN]

StoreTypeOK ==
  /\ projects \in [Projects -> ProjectRecords]
  /\ conns \in [Projects -> Seq(ConnRows)]
  /\ vault \in [Projects \X Urls -> Tokens \cup {None}]
  /\ uploads \in [Projects -> Seq(Nat)] /\ blob \in Seq(Versions)
  /\ req \in [Requests -> RequestRecords]
  /\ submitted \in [Projects -> SUBSET (Names \X SUBSET Classes)]

\* A request under way knows what it is about.
RequestsAreNamed ==
  /\ \A q \in Requests : req[q].pc # "idle" => req[q].project \in Projects
  /\ \A q \in Requests : req[q].pc \in {"update", "clear", "commit"} => req[q].name \in Names
  /\ \A q \in Requests : req[q].pc \in {"connect", "secret", "attach"} => req[q].url \in Urls
  /\ \A q \in Requests : req[q].pc \in {"upload", "bytes"} => req[q].version \in Versions

\* A project that exists has one of the source types.
KindIsKnown == \A p \in Projects : projects[p].state = "live" => projects[p].kind \in Kinds

\* The row lock: an update holds it from its UPDATE to its commit, nobody else does, and
\* what it deleted is what the row has until then.
LockIsHeld ==
  /\ \A q \in Requests : req[q].pc \in {"clear", "commit"} => projects[req[q].project].lock = q
  /\ \A p \in Projects, q \in Requests : projects[p].lock = q =>
       req[q].pc \in {"clear", "commit"} /\ req[q].project = p /\ projects[p].state = "live"
  /\ \A q \in Requests : req[q].pc = "commit" => req[q].seen = projects[req[q].project].classes

\* What an update writes was asked for.
AskedFor ==
  \A q \in Requests : req[q].pc \in {"update", "clear", "commit"} =>
    <<req[q].name, req[q].classes>> \in submitted[req[q].project]

\* A token is stored under the path of the repository it is for.
VaultIsHome ==
  \A p \in Projects, u \in Urls : vault[<<p, u>>] # None => Home[vault[<<p, u>>]] = u

\* A request carries a token for its repository, and stores it before it refers to it.
TokensAreHome ==
  /\ \A q \in Requests : req[q].pc \in {"connect", "secret", "attach"} /\ req[q].token # None =>
       Home[req[q].token] = req[q].url
  /\ \A q \in Requests : req[q].pc \in {"secret", "attach"} => req[q].token # None
  /\ \A q \in Requests : req[q].pc = "attach" => vault[<<req[q].project, req[q].url>>] # None

\* Bytes are stored before the row that names them.
BytesFirst == \A q \in Requests : req[q].pc = "record" => req[q].key \in DOMAIN blob

StoreInv ==
  /\ StoreTypeOK /\ RequestsAreNamed /\ KindIsKnown /\ LockIsHeld /\ AskedFor
  /\ VaultIsHome /\ TokensAreHome /\ BytesFirst
  /\ StoreIsConsistent

(***************************************************************************)
(* Requests: what their steps do to the request itself                     *)
(***************************************************************************)
\* The step changes and what the request is about does not.
Advances(q, label) ==
  /\ req' \in [Requests -> RequestRecords]
  /\ req'[q].pc = label
  /\ req'[q].project = req[q].project /\ req'[q].name = req[q].name
  /\ req'[q].classes = req[q].classes /\ req'[q].url = req[q].url
  /\ req'[q].token = req[q].token /\ req'[q].version = req[q].version
  /\ \A o \in Requests \ {q} : req'[o] = req[o]

LEMMA GotoEffect ==
  ASSUME NEW q \in Requests, StoreTypeOK, NEW label \in RequestPcs, Goto(q, label)
  PROVE  Advances(q, label) /\ req'[q].seen = req[q].seen
  <1>1. req[q] \in RequestRecords /\ req' = [req EXCEPT ![q].pc = label]
    BY DEF StoreTypeOK, Goto
  <1>2. [req[q] EXCEPT !.pc = label] \in RequestRecords
    BY <1>1 DEF RequestRecords
  <1> QED BY <1>1, <1>2 DEF StoreTypeOK, RequestRecords, Advances

LEMMA FinishEffect ==
  ASSUME NEW q \in Requests, StoreTypeOK, Finish(q)
  PROVE  /\ req' \in [Requests -> RequestRecords]
         /\ req'[q].pc = "idle"
         /\ \A o \in Requests \ {q} : req'[o] = req[o]
  <1>1. Idle \in RequestRecords
    BY DEF Idle, RequestRecords, RequestPcs
  <1>2. req' = [req EXCEPT ![q] = Idle]
    BY DEF Finish
  <1> QED BY <1>1, <1>2 DEF StoreTypeOK, Idle

LEMMA ArriveEffect ==
  ASSUME NEW q \in Requests, StoreTypeOK, NEW r \in RequestRecords, Arrive(q, r)
  PROVE  /\ req' \in [Requests -> RequestRecords]
         /\ req'[q] = r /\ req[q].pc = "idle"
         /\ \A o \in Requests \ {q} : req'[o] = req[o]
  BY DEF StoreTypeOK, Arrive

\* Records with a field replaced are records.
LEMMA LockTyped ==
  ASSUME NEW r \in ProjectRecords, NEW lock \in Requests \cup {None}
  PROVE  /\ [r EXCEPT !.lock = lock] \in ProjectRecords
         /\ [r EXCEPT !.lock = lock].lock = lock /\ [r EXCEPT !.lock = lock].state = r.state
         /\ [r EXCEPT !.lock = lock].kind = r.kind
         /\ [r EXCEPT !.lock = lock].name = r.name /\ [r EXCEPT !.lock = lock].classes = r.classes
  BY DEF ProjectRecords
LEMMA KeyTyped ==
  ASSUME NEW r \in RequestRecords, NEW key \in Nat
  PROVE  LET s == [r EXCEPT !.pc = "record", !.key = key]
         IN  /\ s \in RequestRecords /\ s.pc = "record" /\ s.key = key
             /\ s.project = r.project /\ s.name = r.name /\ s.classes = r.classes
             /\ s.url = r.url /\ s.token = r.token /\ s.version = r.version
  BY DEF RequestRecords, RequestPcs

\* Adding or overwriting a connection's row.
LEMMA UpsertEffect ==
  ASSUME NEW rows \in Seq(ConnRows), NEW url \in Urls, NEW ref \in BOOLEAN
  PROVE  /\ Upsert(rows, url, ref) \in Seq(ConnRows)
         /\ \A i \in DOMAIN Upsert(rows, url, ref) :
              \/ Upsert(rows, url, ref)[i] = [url |-> url, ref |-> ref]
              \/ i \in DOMAIN rows /\ Upsert(rows, url, ref)[i] = rows[i]
  <1> DEFINE row == [url |-> url, ref |-> ref]
  <1>1. row \in ConnRows
    BY DEF ConnRows
  <1>2. CASE \E i \in DOMAIN rows : rows[i].url = url
    <2>1. Upsert(rows, url, ref) = [i \in 1..Len(rows) |-> IF rows[i].url = url THEN row ELSE rows[i]]
      BY <1>2, SMTT(60) DEF Upsert
    <2>2. \A i \in 1..Len(rows) : rows[i] \in ConnRows
      OBVIOUS
    <2> QED BY <1>1, <2>1, <2>2
  <1>3. CASE ~ \E i \in DOMAIN rows : rows[i].url = url
    <2>1. Upsert(rows, url, ref) = Append(rows, row)
      BY <1>3 DEF Upsert
    <2> QED BY <1>1, <2>1, AppendProperties
  <1> QED BY <1>2, <1>3

(***************************************************************************)
(* Every step of StoreNext keeps StoreInv                                  *)
(***************************************************************************)
USE StoreAssumption DEF StoreInv, StoreIsConsistent

\* The row is locked for the request, which keeps it until it commits.
LEMMA UpdateLocksKeeps == ASSUME NEW q \in Requests, StoreInv, req[q].pc = "update",
    projects[req[q].project].lock = None, Exists(req[q].project), Goto(q, "clear"),
    projects' = [projects EXCEPT ![req[q].project].lock = q],
    UNCHANGED <<conns, vault, uploads, blob, webs, arrived, submitted>> PROVE StoreInv'
  <1>1. Advances(q, "clear")
    BY GotoEffect DEF RequestPcs
  <1>2. PICK p \in Projects : p = req[q].project
    BY DEF RequestsAreNamed
  <1>3. /\ projects' \in [Projects -> ProjectRecords] /\ projects[p].state = "live"
        /\ projects'[p].lock = q /\ projects'[p].state = "live" /\ projects[p].lock = None
        /\ projects'[p].name = projects[p].name /\ projects'[p].classes = projects[p].classes
        /\ projects'[p].kind = projects[p].kind
        /\ \A o \in Projects \ {p} : projects'[o] = projects[o]
    <2>1. projects[p] \in ProjectRecords /\ projects[p].state = "live" /\ projects[p].lock = None
          /\ projects' = [projects EXCEPT ![p] = [projects[p] EXCEPT !.lock = q]]
      <3>1. projects[p] \in ProjectRecords /\ projects[p].state = "live" /\ projects[p].lock = None
        BY <1>2 DEF StoreTypeOK, Exists
      <3>2. projects' = [projects EXCEPT ![p].lock = q]
        BY <1>2
      <3> QED BY <3>1, <3>2
    <2> DEFINE r == [projects[p] EXCEPT !.lock = q]
    <2>2. /\ r \in ProjectRecords /\ r.lock = q /\ r.state = projects[p].state
          /\ r.name = projects[p].name /\ r.classes = projects[p].classes /\ r.kind = projects[p].kind
      BY <2>1, LockTyped
    <2>3. projects' = [projects EXCEPT ![p] = r]
      BY <2>1
    <2> HIDE DEF r
    <2> QED BY <2>1, <2>2, <2>3 DEF StoreTypeOK
  <1>4. UNCHANGED <<conns, vault, uploads, blob, webs, arrived, submitted>>
    OBVIOUS
  <1>5. StoreTypeOK'
    BY <1>1, <1>2, <1>3, <1>4 DEF Advances, StoreTypeOK
  <1>6. RequestsAreNamed'
    BY <1>1, <1>4 DEF Advances, RequestsAreNamed
  <1>7. KindIsKnown'
    BY <1>1, <1>2, <1>3, <1>4 DEF Advances, KindIsKnown
  <1>8. LockIsHeld'
    BY <1>1, <1>2, <1>3, <1>4 DEF Advances, LockIsHeld, RequestsAreNamed
  <1>9. AskedFor'
    BY <1>1, <1>4 DEF Advances, AskedFor, RequestsAreNamed
  <1>10. VaultIsHome'
    BY <1>1, <1>4 DEF Advances, VaultIsHome
  <1>11. TokensAreHome'
    BY <1>1, <1>4 DEF Advances, TokensAreHome, RequestsAreNamed
  <1>12. BytesFirst'
    BY <1>1, <1>4 DEF Advances, BytesFirst
  <1>13. WholeUpdate'
    BY <1>1, <1>2, <1>3, <1>4 DEF Advances, WholeUpdate
  <1>14. RefNamesSecret'
    BY <1>1, <1>2, <1>3, <1>4, SMTT(60) DEF Advances, RefNamesSecret, VaultGet, Path
  <1>15. UploadHasBytes'
    BY <1>1, <1>2, <1>3, <1>4 DEF Advances, UploadHasBytes
  <1> QED BY <1>5, <1>6, <1>7, <1>8, <1>9, <1>10, <1>11, <1>12, <1>13, <1>14, <1>15

\* A request that is over has changed nothing.
LEMMA FinishedKeeps == ASSUME NEW q \in Requests, StoreInv, req[q].pc \notin {"clear", "commit"}, Finish(q),
    UNCHANGED <<projects, conns, vault, uploads, blob, webs, submitted>> PROVE StoreInv'
  <1>1. /\ req' \in [Requests -> RequestRecords]
        /\ req'[q].pc = "idle"
        /\ \A o \in Requests \ {q} : req'[o] = req[o]
    BY FinishEffect
  <1>2. UNCHANGED <<projects, conns, vault, uploads, blob, webs, submitted>>
    OBVIOUS
  <1>3. StoreTypeOK'
    BY <1>1, <1>2 DEF StoreTypeOK
  <1>4. RequestsAreNamed'
    BY <1>1, <1>2 DEF RequestsAreNamed
  <1>5. KindIsKnown'
    BY <1>1, <1>2 DEF KindIsKnown
  <1>6. LockIsHeld'
    BY <1>1, <1>2 DEF LockIsHeld, RequestsAreNamed
  <1>7. AskedFor'
    BY <1>1, <1>2 DEF AskedFor, RequestsAreNamed
  <1>8. VaultIsHome'
    BY <1>1, <1>2 DEF VaultIsHome
  <1>9. TokensAreHome'
    BY <1>1, <1>2 DEF TokensAreHome, RequestsAreNamed
  <1>10. BytesFirst'
    BY <1>1, <1>2 DEF BytesFirst
  <1>11. WholeUpdate'
    BY <1>1, <1>2 DEF WholeUpdate
  <1>12. RefNamesSecret'
    BY <1>1, <1>2 DEF RefNamesSecret, VaultGet, Path
  <1>13. UploadHasBytes'
    BY <1>1, <1>2 DEF UploadHasBytes
  <1> QED BY <1>3, <1>4, <1>5, <1>6, <1>7, <1>8, <1>9, <1>10, <1>11, <1>12, <1>13

\* The UPDATE of a project, or that there is none.
LEMMA UpdateProjectKeeps == ASSUME NEW q \in Requests, StoreInv, UpdateProject(q) PROVE StoreInv'
  BY UpdateLocksKeeps, FinishedKeeps DEF UpdateProject

\* What is deleted is what the locked row has.
LEMMA ClearClassificationsKeeps == ASSUME NEW q \in Requests, StoreInv, ClearClassifications(q) PROVE StoreInv'
  <1>1. Advances(q, "commit") /\ req'[q].seen = projects[req[q].project].classes
    <2>1. /\ req[q] \in RequestRecords /\ projects[req[q].project].classes \in SUBSET Classes
          /\ req' = [req EXCEPT ![q] = [req[q] EXCEPT !.pc = "commit",
                                       !.seen = projects[req[q].project].classes]]
      BY DEF ClearClassifications, StoreTypeOK, RequestsAreNamed, ProjectRecords
    <2>2. [req[q] EXCEPT !.pc = "commit", !.seen = projects[req[q].project].classes] \in RequestRecords
      BY <2>1 DEF RequestRecords, RequestPcs
    <2> QED BY <2>1, <2>2 DEF StoreTypeOK, RequestRecords, Advances
  <1>2. req[q].pc = "clear" /\ UNCHANGED <<projects, conns, vault, uploads, blob, webs, arrived, submitted>>
    BY DEF ClearClassifications
  <1>3. PICK p \in Projects : p = req[q].project
    BY <1>2 DEF RequestsAreNamed
  <1>4. StoreTypeOK'
    BY <1>1, <1>2, <1>3 DEF Advances, StoreTypeOK
  <1>5. RequestsAreNamed'
    BY <1>1, <1>2, <1>3 DEF Advances, RequestsAreNamed
  <1>6. KindIsKnown'
    BY <1>1, <1>2, <1>3 DEF Advances, KindIsKnown
  <1>7. LockIsHeld'
    BY <1>1, <1>2, <1>3 DEF Advances, LockIsHeld, RequestsAreNamed
  <1>8. AskedFor'
    BY <1>1, <1>2, <1>3 DEF Advances, AskedFor, RequestsAreNamed
  <1>9. VaultIsHome'
    BY <1>1, <1>2, <1>3 DEF Advances, VaultIsHome
  <1>10. TokensAreHome'
    BY <1>1, <1>2, <1>3 DEF Advances, TokensAreHome, RequestsAreNamed
  <1>11. BytesFirst'
    BY <1>1, <1>2, <1>3 DEF Advances, BytesFirst
  <1>12. WholeUpdate'
    BY <1>1, <1>2, <1>3 DEF Advances, WholeUpdate
  <1>13. RefNamesSecret'
    BY <1>1, <1>2, <1>3 DEF Advances, RefNamesSecret, VaultGet, Path
  <1>14. UploadHasBytes'
    BY <1>1, <1>2, <1>3 DEF Advances, UploadHasBytes
  <1> QED BY <1>4, <1>5, <1>6, <1>7, <1>8, <1>9, <1>10, <1>11, <1>12, <1>13, <1>14

\* The commit writes what was asked for together, and nothing of what was there.
LEMMA CommitUpdateKeeps == ASSUME NEW q \in Requests, StoreInv, CommitUpdate(q) PROVE StoreInv'
  <1>1. /\ req' \in [Requests -> RequestRecords]
        /\ req'[q].pc = "idle"
        /\ \A o \in Requests \ {q} : req'[o] = req[o]
    BY FinishEffect DEF CommitUpdate
  <1>2. req[q].pc = "commit" /\ UNCHANGED <<conns, vault, uploads, blob, webs, submitted>>
    BY DEF CommitUpdate
  <1>3. PICK p \in Projects : p = req[q].project
    BY <1>2 DEF RequestsAreNamed
  <1>4. /\ projects[p].lock = q /\ projects[p].state = "live" /\ req[q].seen = projects[p].classes
    BY <1>2, <1>3 DEF LockIsHeld
  <1>5. /\ projects' \in [Projects -> ProjectRecords] /\ projects'[p].lock = None
        /\ projects'[p].name = req[q].name /\ projects'[p].classes = req[q].classes
        /\ projects'[p].kind = projects[p].kind /\ projects'[p].state = "live" /\ projects'[p].kind = projects[p].kind
        /\ \A o \in Projects \ {p} : projects'[o] = projects[o]
    <2>1. /\ req[q].name \in Names /\ req[q].classes \in SUBSET Classes
          /\ projects[p] \in ProjectRecords
      BY <1>2 DEF StoreTypeOK, RequestsAreNamed, RequestRecords
    <2>2. (projects[p].classes \ req[q].seen) \cup req[q].classes = req[q].classes
      BY <1>4
    <2>3. projects' = [projects EXCEPT ![p] = [projects[p] EXCEPT !.name = req[q].name, !.lock = None,
                         !.classes = (projects[p].classes \ req[q].seen) \cup req[q].classes]]
      <3>1. projects' = [projects EXCEPT ![p].name = req[q].name, ![p].lock = None,
                                         ![p].classes = (@ \ req[q].seen) \cup req[q].classes]
        BY <1>3 DEF CommitUpdate
      <3> QED BY <2>1, <3>1 DEF ProjectRecords, StoreTypeOK
    <2>4. [projects[p] EXCEPT !.name = req[q].name, !.lock = None, !.classes = req[q].classes]
            \in ProjectRecords
      BY <2>1 DEF ProjectRecords
    <2> QED BY <1>4, <2>1, <2>2, <2>3, <2>4, ZenonT(60) DEF StoreTypeOK, ProjectRecords
  <1>6. StoreTypeOK'
    BY <1>1, <1>2, <1>3, <1>4, <1>5 DEF StoreTypeOK
  <1>7. RequestsAreNamed'
    BY <1>1, <1>2, <1>3, <1>4, <1>5 DEF RequestsAreNamed
  <1>8. KindIsKnown'
    BY <1>1, <1>2, <1>3, <1>4, <1>5 DEF KindIsKnown
  <1>9. LockIsHeld'
    BY <1>1, <1>2, <1>3, <1>4, <1>5 DEF LockIsHeld, RequestsAreNamed
  <1>10. AskedFor'
    BY <1>1, <1>2, <1>3, <1>4, <1>5 DEF AskedFor, RequestsAreNamed
  <1>11. VaultIsHome'
    BY <1>1, <1>2, <1>3, <1>4, <1>5 DEF VaultIsHome
  <1>12. TokensAreHome'
    BY <1>1, <1>2, <1>3, <1>4, <1>5 DEF TokensAreHome, RequestsAreNamed
  <1>13. BytesFirst'
    BY <1>1, <1>2, <1>3, <1>4, <1>5 DEF BytesFirst
  <1>14. WholeUpdate'
    BY <1>1, <1>2, <1>3, <1>4, <1>5, ZenonT(60) DEF WholeUpdate, AskedFor
  <1>15. RefNamesSecret'
    BY <1>1, <1>2, <1>3, <1>4, <1>5 DEF RefNamesSecret, VaultGet, Path
  <1>16. UploadHasBytes'
    BY <1>1, <1>2, <1>3, <1>4, <1>5 DEF UploadHasBytes
  <1> QED BY <1>6, <1>7, <1>8, <1>9, <1>10, <1>11, <1>12, <1>13, <1>14, <1>15, <1>16

\* The row of a connection: written with a reference only when the secret is there.
LEMMA RowWritten ==
  ASSUME NEW q \in Requests, StoreInv, NEW ref \in BOOLEAN, NEW next \in {"done", "secret"},
         req[q].pc \in {"connect", "attach"}, CreateConnection(q, ref, next),
         UNCHANGED vault,
         ref => vault[<<req[q].project, req[q].url>>] # None
  PROVE  conns' \in [Projects -> Seq(ConnRows)] /\ RefNamesSecret'
  <1>1. PICK p \in Projects, url \in Urls : p = req[q].project /\ url = req[q].url
    BY DEF RequestsAreNamed
  <1>2. CASE ~Exists(p)
    BY <1>1, <1>2 DEF CreateConnection, StoreTypeOK, RefNamesSecret, VaultGet, Path
  <1>3. CASE Exists(p)
    <2>1. conns' = [conns EXCEPT ![p] = Upsert(conns[p], url, ref)] /\ conns[p] \in Seq(ConnRows)
      BY <1>1, <1>3 DEF CreateConnection, StoreTypeOK
    <2>2. /\ conns'[p] \in Seq(ConnRows)
          /\ \A i \in DOMAIN conns'[p] :
               \/ conns'[p][i] = [url |-> url, ref |-> ref]
               \/ i \in DOMAIN conns[p] /\ conns'[p][i] = conns[p][i]
          /\ \A o \in Projects \ {p} : conns'[o] = conns[o]
      BY <2>1, UpsertEffect DEF StoreTypeOK
    <2>3. conns' \in [Projects -> Seq(ConnRows)]
      BY <2>1, <2>2 DEF StoreTypeOK
    <2>4. ASSUME NEW o \in Projects, NEW i \in DOMAIN conns'[o], conns'[o][i].ref
          PROVE  vault[<<o, conns'[o][i].url>>] # None
      <3>1. CASE o # p
        BY <2>2, <2>4, <3>1, SMTT(60) DEF RefNamesSecret, VaultGet, Path
      <3>2. CASE o = p /\ conns'[p][i] = [url |-> url, ref |-> ref]
        BY <1>1, <2>4, <3>2
      <3>3. CASE o = p /\ i \in DOMAIN conns[p] /\ conns'[p][i] = conns[p][i]
        BY <2>4, <3>3 DEF RefNamesSecret, VaultGet, Path
      <3> QED BY <2>2, <3>1, <3>2, <3>3
    <2> QED BY <2>3, <2>4 DEF RefNamesSecret, VaultGet, Path
  <1> QED BY <1>2, <1>3

\* The first row has no reference.
LEMMA ConnectRowKeeps == ASSUME NEW q \in Requests, StoreInv, ConnectRow(q) PROVE StoreInv'
  <1>1. req[q].pc = "connect" /\ UNCHANGED <<projects, vault, uploads, blob, webs, submitted>>
    BY DEF ConnectRow
  <1>2. conns' \in [Projects -> Seq(ConnRows)] /\ RefNamesSecret'
    BY <1>1, RowWritten DEF ConnectRow, TokensAreHome
  <1>3. /\ req' \in [Requests -> RequestRecords]
        /\ \A o \in Requests \ {q} : req'[o] = req[o]
        /\ \/ req'[q].pc = "idle"
           \/ Advances(q, "secret") /\ req[q].token # None
    BY GotoEffect, FinishEffect DEF ConnectRow, CreateConnection, RequestPcs, Advances
  <1>4. StoreTypeOK'
    BY <1>1, <1>2, <1>3 DEF Advances, StoreTypeOK
  <1>5. RequestsAreNamed'
    BY <1>1, <1>3 DEF Advances, RequestsAreNamed
  <1>6. KindIsKnown'
    BY <1>1, <1>2, <1>3 DEF Advances, KindIsKnown
  <1>7. LockIsHeld'
    BY <1>1, <1>3 DEF Advances, LockIsHeld, RequestsAreNamed
  <1>8. AskedFor'
    BY <1>1, <1>3 DEF Advances, AskedFor, RequestsAreNamed
  <1>9. VaultIsHome'
    BY <1>1, <1>3 DEF Advances, VaultIsHome
  <1>10. TokensAreHome'
    BY <1>1, <1>3 DEF Advances, TokensAreHome, RequestsAreNamed
  <1>11. BytesFirst'
    BY <1>1, <1>3 DEF Advances, BytesFirst
  <1>12. WholeUpdate'
    BY <1>1, <1>2, <1>3 DEF Advances, WholeUpdate
  <1>13. RefNamesSecret'
    BY <1>2
  <1>14. UploadHasBytes'
    BY <1>1, <1>2, <1>3 DEF Advances, UploadHasBytes
  <1> QED BY <1>4, <1>5, <1>6, <1>7, <1>8, <1>9, <1>10, <1>11, <1>12, <1>13, <1>14

\* The secret, under the path of the repository it was given for.
LEMMA PutSecretKeeps == ASSUME NEW q \in Requests, StoreInv, PutSecret(q) PROVE StoreInv'
  <1>1. req[q].pc = "secret" /\ UNCHANGED <<projects, conns, uploads, blob, webs, submitted>>
    BY DEF PutSecret
  <1>2. Advances(q, "attach")
    BY GotoEffect DEF PutSecret, RequestPcs
  <1>3. /\ req[q].project \in Projects /\ req[q].url \in Urls /\ req[q].token \in Tokens
        /\ Home[req[q].token] = req[q].url
    BY <1>1 DEF StoreTypeOK, RequestsAreNamed, RequestRecords, TokensAreHome
  <1>4. /\ vault' = [vault EXCEPT ![<<req[q].project, req[q].url>>] = req[q].token]
    BY DEF PutSecret, Path
  <1>5. VaultIsHome'
    BY <1>3, <1>4 DEF StoreTypeOK, VaultIsHome
  <1>6. /\ vault' \in [Projects \X Urls -> Tokens \cup {None}]
        /\ vault'[<<req[q].project, req[q].url>>] = req[q].token
        /\ \A p \in Projects, u \in Urls : vault'[<<p, u>>] = vault[<<p, u>>] \/ (vault'[<<p, u>>] = req[q].token /\ u = req[q].url)
    BY <1>3, <1>4 DEF StoreTypeOK
  <1>7. StoreTypeOK'
    BY <1>1, <1>2, <1>3, <1>4, <1>5, <1>6 DEF Advances, StoreTypeOK
  <1>8. RequestsAreNamed'
    BY <1>1, <1>2 DEF Advances, RequestsAreNamed
  <1>9. KindIsKnown'
    BY <1>1, <1>2, <1>3, <1>4, <1>5, <1>6 DEF Advances, KindIsKnown
  <1>10. LockIsHeld'
    BY <1>1, <1>2 DEF Advances, LockIsHeld, RequestsAreNamed
  <1>11. AskedFor'
    BY <1>1, <1>2 DEF Advances, AskedFor, RequestsAreNamed
  <1>12. VaultIsHome'
    BY <1>1, <1>2, <1>3, <1>4, <1>5, <1>6 DEF Advances, VaultIsHome
  <1>13. TokensAreHome'
    <2>1. ASSUME NEW o \in Requests
          PROVE  /\ req'[o].pc \in {"connect", "secret", "attach"} /\ req'[o].token # None =>
                      Home[req'[o].token] = req'[o].url
                 /\ req'[o].pc \in {"secret", "attach"} => req'[o].token # None
      <3>1. CASE o = q
        BY <1>1, <1>2, <1>3, <3>1 DEF Advances
      <3>2. CASE o # q
        BY <1>2, <3>2 DEF Advances, TokensAreHome
      <3> QED BY <3>1, <3>2
    <2>2. ASSUME NEW o \in Requests, req'[o].pc = "attach"
          PROVE  vault'[<<req'[o].project, req'[o].url>>] # None
      <3>1. CASE o = q
        BY <1>2, <1>3, <1>6, <3>1 DEF Advances
      <3>2. CASE o # q
        <4>1. req'[o] = req[o]
          BY <1>2, <3>2 DEF Advances
        <4>2. PICK p \in Projects, u \in Urls : p = req[o].project /\ u = req[o].url
          BY <2>2, <4>1 DEF RequestsAreNamed
        <4>3. vault[<<p, u>>] # None
          BY <2>2, <4>1, <4>2 DEF TokensAreHome
        <4> QED BY <1>3, <1>6, <4>1, <4>2, <4>3
      <3> QED BY <3>1, <3>2
    <2> QED BY <2>1, <2>2 DEF TokensAreHome
  <1>14. BytesFirst'
    BY <1>1, <1>2 DEF Advances, BytesFirst
  <1>15. WholeUpdate'
    BY <1>1, <1>2, <1>3, <1>4, <1>5, <1>6 DEF Advances, WholeUpdate
  <1>16. RefNamesSecret'
    BY <1>1, <1>2, <1>3, <1>4, <1>5, <1>6 DEF Advances, RefNamesSecret, VaultGet, Path, StoreTypeOK, ConnRows
  <1>17. UploadHasBytes'
    BY <1>1, <1>2, <1>3, <1>4, <1>5, <1>6 DEF Advances, UploadHasBytes
  <1> QED BY <1>7, <1>8, <1>9, <1>10, <1>11, <1>12, <1>13, <1>14, <1>15, <1>16, <1>17

\* The second row has the path that Vault returned.
LEMMA AttachRefKeeps == ASSUME NEW q \in Requests, StoreInv, AttachRef(q) PROVE StoreInv'
  <1>1. req[q].pc = "attach" /\ UNCHANGED <<projects, vault, uploads, blob, webs, submitted>>
    BY DEF AttachRef
  <1>2. conns' \in [Projects -> Seq(ConnRows)] /\ RefNamesSecret'
    BY <1>1, RowWritten DEF AttachRef, TokensAreHome
  <1>3. /\ req' \in [Requests -> RequestRecords]
        /\ \A o \in Requests \ {q} : req'[o] = req[o]
        /\ req'[q].pc = "idle"
    BY GotoEffect, FinishEffect DEF AttachRef, CreateConnection, RequestPcs, Advances
  <1>4. StoreTypeOK'
    BY <1>1, <1>2, <1>3 DEF StoreTypeOK
  <1>5. RequestsAreNamed'
    BY <1>1, <1>3 DEF RequestsAreNamed
  <1>6. KindIsKnown'
    BY <1>1, <1>2, <1>3 DEF KindIsKnown
  <1>7. LockIsHeld'
    BY <1>1, <1>3 DEF LockIsHeld, RequestsAreNamed
  <1>8. AskedFor'
    BY <1>1, <1>3 DEF AskedFor, RequestsAreNamed
  <1>9. VaultIsHome'
    BY <1>1, <1>3 DEF VaultIsHome
  <1>10. TokensAreHome'
    BY <1>1, <1>3 DEF TokensAreHome, RequestsAreNamed
  <1>11. BytesFirst'
    BY <1>1, <1>3 DEF BytesFirst
  <1>12. WholeUpdate'
    BY <1>1, <1>2, <1>3 DEF WholeUpdate
  <1>13. RefNamesSecret'
    BY <1>2
  <1>14. UploadHasBytes'
    BY <1>1, <1>2, <1>3 DEF UploadHasBytes
  <1> QED BY <1>4, <1>5, <1>6, <1>7, <1>8, <1>9, <1>10, <1>11, <1>12, <1>13, <1>14

\* An upload into a project that is there goes on.
LEMMA UploadVisibleKeeps == ASSUME NEW q \in Requests, StoreInv, UploadVisible(q) PROVE StoreInv'
  <1>1. req[q].pc = "upload" /\ UNCHANGED <<projects, conns, vault, uploads, blob, webs, submitted>>
    BY DEF UploadVisible
  <1>2. CASE Finish(q)
    BY <1>1, <1>2, FinishedKeeps
  <1>3. CASE Goto(q, "bytes")
    <2>1. Advances(q, "bytes")
      BY <1>3, GotoEffect DEF RequestPcs
    <2>2. StoreTypeOK'
      BY <1>1, <2>1 DEF Advances, StoreTypeOK
    <2>3. RequestsAreNamed'
      BY <1>1, <2>1 DEF Advances, RequestsAreNamed
    <2>4. KindIsKnown'
      BY <1>1, <2>1 DEF Advances, KindIsKnown
    <2>5. LockIsHeld'
      BY <1>1, <2>1 DEF Advances, LockIsHeld, RequestsAreNamed
    <2>6. AskedFor'
      BY <1>1, <2>1 DEF Advances, AskedFor, RequestsAreNamed
    <2>7. VaultIsHome'
      BY <1>1, <2>1 DEF Advances, VaultIsHome
    <2>8. TokensAreHome'
      BY <1>1, <2>1 DEF Advances, TokensAreHome, RequestsAreNamed
    <2>9. BytesFirst'
      BY <1>1, <2>1 DEF Advances, BytesFirst
    <2>10. WholeUpdate'
      BY <1>1, <2>1 DEF Advances, WholeUpdate
    <2>11. RefNamesSecret'
      BY <1>1, <2>1 DEF Advances, RefNamesSecret, VaultGet, Path
    <2>12. UploadHasBytes'
      BY <1>1, <2>1 DEF Advances, UploadHasBytes
    <2> QED BY <2>2, <2>3, <2>4, <2>5, <2>6, <2>7, <2>8, <2>9, <2>10, <2>11, <2>12
  <1> QED BY <1>2, <1>3 DEF UploadVisible

\* The bytes come first, under a key of their own.
LEMMA PutBytesKeeps == ASSUME NEW q \in Requests, StoreInv, PutBytes(q) PROVE StoreInv'
  <1>1. req[q].pc = "bytes" /\ UNCHANGED <<projects, conns, vault, uploads, webs, submitted>>
    BY DEF PutBytes
  <1>2. /\ blob' \in Seq(Versions) /\ Len(blob') = Len(blob) + 1 /\ DOMAIN blob \subseteq DOMAIN blob'
        /\ Len(blob) + 1 \in DOMAIN blob' /\ Len(blob) \in Nat
    <2>1. blob' = Append(blob, req[q].version) /\ req[q].version \in Versions /\ blob \in Seq(Versions)
      BY <1>1 DEF PutBytes, StoreTypeOK, RequestsAreNamed
    <2> QED BY <2>1, AppendProperties, LenProperties
  <1>3. Advances(q, "record") /\ req'[q].key = Len(blob) + 1
    <2>1. /\ req[q] \in RequestRecords
          /\ req' = [req EXCEPT ![q] = [req[q] EXCEPT !.pc = "record", !.key = Len(blob) + 1]]
      BY DEF PutBytes, StoreTypeOK
    <2>2. Len(blob) + 1 \in Nat
      BY <1>2
    <2> DEFINE s == [req[q] EXCEPT !.pc = "record", !.key = Len(blob) + 1]
    <2>3. /\ s \in RequestRecords /\ s.pc = "record" /\ s.key = Len(blob) + 1
          /\ s.project = req[q].project /\ s.name = req[q].name /\ s.classes = req[q].classes
          /\ s.url = req[q].url /\ s.token = req[q].token /\ s.version = req[q].version
      BY <2>1, <2>2, KeyTyped
    <2>4. req' = [req EXCEPT ![q] = s]
      BY <2>1
    <2> HIDE DEF s
    <2> QED BY <2>3, <2>4 DEF StoreTypeOK, Advances
  <1>4. StoreTypeOK'
    BY <1>1, <1>2, <1>3 DEF Advances, StoreTypeOK
  <1>5. RequestsAreNamed'
    BY <1>1, <1>3 DEF Advances, RequestsAreNamed
  <1>6. KindIsKnown'
    BY <1>1, <1>2, <1>3 DEF Advances, KindIsKnown
  <1>7. LockIsHeld'
    BY <1>1, <1>3 DEF Advances, LockIsHeld, RequestsAreNamed
  <1>8. AskedFor'
    BY <1>1, <1>3 DEF Advances, AskedFor, RequestsAreNamed
  <1>9. VaultIsHome'
    BY <1>1, <1>3 DEF Advances, VaultIsHome
  <1>10. TokensAreHome'
    BY <1>1, <1>3 DEF Advances, TokensAreHome, RequestsAreNamed
  <1>11. BytesFirst'
    BY <1>1, <1>2, <1>3 DEF Advances, BytesFirst
  <1>12. WholeUpdate'
    BY <1>1, <1>2, <1>3 DEF Advances, WholeUpdate
  <1>13. RefNamesSecret'
    BY <1>1, <1>2, <1>3, SMTT(60) DEF Advances, RefNamesSecret, VaultGet, Path
  <1>14. UploadHasBytes'
    BY <1>1, <1>2, <1>3 DEF Advances, UploadHasBytes
  <1> QED BY <1>4, <1>5, <1>6, <1>7, <1>8, <1>9, <1>10, <1>11, <1>12, <1>13, <1>14

\* The row names bytes that are there.
LEMMA CreateUploadKeeps == ASSUME NEW q \in Requests, StoreInv, CreateUpload(q) PROVE StoreInv'
  <1>1. req[q].pc = "record" /\ UNCHANGED <<projects, conns, vault, blob, webs, submitted>>
    BY DEF CreateUpload
  <1>2. /\ req' \in [Requests -> RequestRecords]
        /\ req'[q].pc = "idle"
        /\ \A o \in Requests \ {q} : req'[o] = req[o]
    BY FinishEffect DEF CreateUpload
  <1>3. req[q].project \in Projects /\ req[q].key \in DOMAIN blob /\ req[q].key \in Nat
    BY <1>1 DEF RequestsAreNamed, BytesFirst, StoreTypeOK, RequestRecords
  <1>4. \/ uploads' = uploads
        \/ uploads' = [uploads EXCEPT ![req[q].project] = Append(uploads[req[q].project], req[q].key)]
    BY DEF CreateUpload
  <1>5. /\ uploads' \in [Projects -> Seq(Nat)]
        /\ \A p \in Projects : \A i \in DOMAIN uploads'[p] :
             uploads'[p][i] = req[q].key \/ (i \in DOMAIN uploads[p] /\ uploads'[p][i] = uploads[p][i])
    <2>1. CASE uploads' = uploads
      BY <2>1 DEF StoreTypeOK
    <2>2. CASE uploads' = [uploads EXCEPT ![req[q].project] = Append(uploads[req[q].project], req[q].key)]
      <3>1. PICK p \in Projects, k \in Nat : p = req[q].project /\ k = req[q].key
        BY <1>3
      <3>2. uploads[p] \in Seq(Nat) /\ uploads' = [uploads EXCEPT ![p] = Append(uploads[p], k)]
        BY <2>2, <3>1 DEF StoreTypeOK
      <3>3. /\ Append(uploads[p], k) \in Seq(Nat)
            /\ \A i \in DOMAIN Append(uploads[p], k) :
                 Append(uploads[p], k)[i] = k \/ (i \in DOMAIN uploads[p] /\ Append(uploads[p], k)[i] = uploads[p][i])
        BY <3>2, AppendProperties
      <3> QED BY <3>1, <3>2, <3>3 DEF StoreTypeOK
    <2> QED BY <1>4, <2>1, <2>2
  <1>6. StoreTypeOK'
    BY <1>1, <1>2, <1>3, <1>4, <1>5 DEF StoreTypeOK
  <1>7. RequestsAreNamed'
    BY <1>1, <1>2 DEF RequestsAreNamed
  <1>8. KindIsKnown'
    BY <1>1, <1>2, <1>3, <1>4, <1>5 DEF KindIsKnown
  <1>9. LockIsHeld'
    BY <1>1, <1>2 DEF LockIsHeld, RequestsAreNamed
  <1>10. AskedFor'
    BY <1>1, <1>2 DEF AskedFor, RequestsAreNamed
  <1>11. VaultIsHome'
    BY <1>1, <1>2 DEF VaultIsHome
  <1>12. TokensAreHome'
    BY <1>1, <1>2 DEF TokensAreHome, RequestsAreNamed
  <1>13. BytesFirst'
    BY <1>1, <1>2 DEF BytesFirst
  <1>14. WholeUpdate'
    BY <1>1, <1>2 DEF WholeUpdate
  <1>15. RefNamesSecret'
    BY <1>1, <1>2 DEF RefNamesSecret, VaultGet, Path
  <1>16. UploadHasBytes'
    BY <1>1, <1>2, <1>3, <1>4, <1>5 DEF UploadHasBytes
  <1> QED BY <1>6, <1>7, <1>8, <1>9, <1>10, <1>11, <1>12, <1>13, <1>14, <1>15, <1>16

\* A transaction that is rolled back gives the row back.
LEMMA AbandonKeeps == ASSUME NEW q \in Requests, StoreInv, Abandon(q) PROVE StoreInv'
  <1>1. /\ req' \in [Requests -> RequestRecords]
        /\ req'[q].pc = "idle"
        /\ \A o \in Requests \ {q} : req'[o] = req[o]
    BY FinishEffect DEF Abandon
  <1>2. UNCHANGED <<conns, vault, uploads, blob, webs, submitted>>
    BY DEF Abandon
  <1>3. /\ projects' \in [Projects -> ProjectRecords]
        /\ \A p \in Projects : /\ projects'[p].state = projects[p].state
                               /\ projects'[p].name = projects[p].name /\ projects'[p].kind = projects[p].kind
                               /\ projects'[p].classes = projects[p].classes
                               /\ projects'[p].lock \in {None, projects[p].lock} /\ projects'[p].lock # q
        /\ \A p \in Projects : projects[p].lock # q => projects'[p] = projects[p]
    <2>1. \A p \in Projects : projects[p] \in ProjectRecords
      BY DEF StoreTypeOK
    <2>2. \A p \in Projects : [projects[p] EXCEPT !.lock = None] \in ProjectRecords
      BY <2>1 DEF ProjectRecords
    <2>3. projects' = [p \in Projects |->
            IF projects[p].lock = q THEN [projects[p] EXCEPT !.lock = None] ELSE projects[p]]
      BY DEF Abandon
    <2> QED BY <2>1, <2>2, <2>3 DEF ProjectRecords
  <1>4. StoreTypeOK'
    BY <1>1, <1>2, <1>3 DEF StoreTypeOK
  <1>5. RequestsAreNamed'
    BY <1>1, <1>2, <1>3 DEF RequestsAreNamed
  <1>6. KindIsKnown'
    BY <1>1, <1>2, <1>3 DEF KindIsKnown
  <1>7. LockIsHeld'
    BY <1>1, <1>2, <1>3 DEF LockIsHeld, RequestsAreNamed
  <1>8. AskedFor'
    BY <1>1, <1>2, <1>3 DEF AskedFor, RequestsAreNamed
  <1>9. VaultIsHome'
    BY <1>1, <1>2, <1>3 DEF VaultIsHome
  <1>10. TokensAreHome'
    BY <1>1, <1>2, <1>3 DEF TokensAreHome, RequestsAreNamed
  <1>11. BytesFirst'
    BY <1>1, <1>2, <1>3 DEF BytesFirst
  <1>12. WholeUpdate'
    BY <1>1, <1>2, <1>3 DEF WholeUpdate, StoreTypeOK, ProjectRecords
  <1>13. RefNamesSecret'
    BY <1>1, <1>2, <1>3 DEF RefNamesSecret, VaultGet, Path
  <1>14. UploadHasBytes'
    BY <1>1, <1>2, <1>3 DEF UploadHasBytes
  <1> QED BY <1>4, <1>5, <1>6, <1>7, <1>8, <1>9, <1>10, <1>11, <1>12, <1>13, <1>14

\* What an update asks for is on record before it is written.
LEMMA UpdateKeeps == ASSUME NEW q \in Requests, NEW p \in Projects, NEW name \in Names, NEW classes \in ClassSets, StoreInv, Update(q, p, name, classes) PROVE StoreInv'
  <1>1. [Idle EXCEPT !.pc = "update", !.project = p, !.name = name, !.classes = classes] \in RequestRecords
    BY DEF Idle, RequestRecords, RequestPcs, Classes
  <1>2. /\ req' \in [Requests -> RequestRecords] /\ req[q].pc = "idle"
        /\ req'[q].pc = "update" /\ req'[q].project = p /\ req'[q].name = name /\ req'[q].classes = classes
        /\ \A o \in Requests \ {q} : req'[o] = req[o]
    <2>1. Arrive(q, [Idle EXCEPT !.pc = "update", !.project = p, !.name = name, !.classes = classes])
      BY DEF Update, Classes
    <2> DEFINE r == [Idle EXCEPT !.pc = "update", !.project = p, !.name = name, !.classes = classes]
    <2>2. r \in RequestRecords /\ Arrive(q, r)
      BY <1>1, <2>1
    <2> HIDE DEF r
    <2>3. /\ req' \in [Requests -> RequestRecords] /\ req'[q] = r /\ req[q].pc = "idle"
          /\ \A o \in Requests \ {q} : req'[o] = req[o]
      BY <2>2, ArriveEffect
    <2> QED BY <2>3 DEF r, Idle
  <1>3. /\ submitted' = [submitted EXCEPT ![p] = @ \cup {<<name, classes>>}]
        /\ classes \subseteq Classes /\ UNCHANGED <<projects, conns, vault, uploads, blob, webs>>
    BY DEF Update, Classes
  <1>4. StoreTypeOK'
    BY <1>1, <1>2, <1>3 DEF StoreTypeOK
  <1>5. RequestsAreNamed'
    BY <1>1, <1>2, <1>3 DEF RequestsAreNamed
  <1>6. KindIsKnown'
    BY <1>1, <1>2, <1>3 DEF KindIsKnown
  <1>7. LockIsHeld'
    BY <1>1, <1>2, <1>3 DEF LockIsHeld, RequestsAreNamed
  <1>8. AskedFor'
    BY <1>1, <1>2, <1>3 DEF AskedFor, RequestsAreNamed, StoreTypeOK
  <1>9. VaultIsHome'
    BY <1>1, <1>2, <1>3 DEF VaultIsHome
  <1>10. TokensAreHome'
    BY <1>1, <1>2, <1>3 DEF TokensAreHome, RequestsAreNamed
  <1>11. BytesFirst'
    BY <1>1, <1>2, <1>3 DEF BytesFirst
  <1>12. WholeUpdate'
    BY <1>1, <1>2, <1>3 DEF WholeUpdate, StoreTypeOK
  <1>13. RefNamesSecret'
    BY <1>1, <1>2, <1>3, SMTT(60) DEF RefNamesSecret, VaultGet, Path
  <1>14. UploadHasBytes'
    BY <1>1, <1>2, <1>3 DEF UploadHasBytes
  <1> QED BY <1>4, <1>5, <1>6, <1>7, <1>8, <1>9, <1>10, <1>11, <1>12, <1>13, <1>14

\* A token is given to the repository it is for.
LEMMA ConnectKeeps == ASSUME NEW q \in Requests, NEW p \in Projects, NEW url \in Urls, NEW token \in Tokens \cup {None}, StoreInv, Connect(q, p, url, token) PROVE StoreInv'
  <1>1. [Idle EXCEPT !.pc = "connect", !.project = p, !.url = url, !.token = token] \in RequestRecords
    BY DEF Idle, RequestRecords, RequestPcs, Classes
  <1>2. /\ req' \in [Requests -> RequestRecords] /\ req[q].pc = "idle"
        /\ req'[q].pc = "connect" /\ req'[q].project = p /\ req'[q].url = url /\ req'[q].token = token
        /\ \A o \in Requests \ {q} : req'[o] = req[o]
    <2>1. Arrive(q, [Idle EXCEPT !.pc = "connect", !.project = p, !.url = url, !.token = token])
      BY DEF Connect
    <2> DEFINE r == [Idle EXCEPT !.pc = "connect", !.project = p, !.url = url, !.token = token]
    <2>2. r \in RequestRecords /\ Arrive(q, r)
      BY <1>1, <2>1
    <2> HIDE DEF r
    <2>3. /\ req' \in [Requests -> RequestRecords] /\ req'[q] = r /\ req[q].pc = "idle"
          /\ \A o \in Requests \ {q} : req'[o] = req[o]
      BY <2>2, ArriveEffect
    <2> QED BY <2>3 DEF r, Idle
  <1>3. /\ token # None => Home[token] = url
        /\ UNCHANGED <<projects, conns, vault, uploads, blob, webs, submitted>>
    BY DEF Connect
  <1>4. StoreTypeOK'
    BY <1>1, <1>2, <1>3 DEF StoreTypeOK
  <1>5. RequestsAreNamed'
    BY <1>1, <1>2, <1>3 DEF RequestsAreNamed
  <1>6. KindIsKnown'
    BY <1>1, <1>2, <1>3 DEF KindIsKnown
  <1>7. LockIsHeld'
    BY <1>1, <1>2, <1>3 DEF LockIsHeld, RequestsAreNamed
  <1>8. AskedFor'
    BY <1>1, <1>2, <1>3 DEF AskedFor, RequestsAreNamed
  <1>9. VaultIsHome'
    BY <1>1, <1>2, <1>3 DEF VaultIsHome
  <1>10. TokensAreHome'
    BY <1>1, <1>2, <1>3 DEF TokensAreHome, RequestsAreNamed
  <1>11. BytesFirst'
    BY <1>1, <1>2, <1>3 DEF BytesFirst
  <1>12. WholeUpdate'
    BY <1>1, <1>2, <1>3 DEF WholeUpdate
  <1>13. RefNamesSecret'
    BY <1>1, <1>2, <1>3 DEF RefNamesSecret, VaultGet, Path
  <1>14. UploadHasBytes'
    BY <1>1, <1>2, <1>3 DEF UploadHasBytes
  <1> QED BY <1>4, <1>5, <1>6, <1>7, <1>8, <1>9, <1>10, <1>11, <1>12, <1>13, <1>14

\* An upload starts with nothing stored.
LEMMA UploadKeeps == ASSUME NEW q \in Requests, NEW p \in Projects, NEW version \in Versions, StoreInv, Upload(q, p, version) PROVE StoreInv'
  <1>1. [Idle EXCEPT !.pc = "upload", !.project = p, !.version = version] \in RequestRecords
    BY DEF Idle, RequestRecords, RequestPcs, Classes
  <1>2. /\ req' \in [Requests -> RequestRecords] /\ req[q].pc = "idle"
        /\ req'[q].pc = "upload" /\ req'[q].project = p /\ req'[q].version = version
        /\ \A o \in Requests \ {q} : req'[o] = req[o]
    <2>1. Arrive(q, [Idle EXCEPT !.pc = "upload", !.project = p, !.version = version])
      BY DEF Upload
    <2> DEFINE r == [Idle EXCEPT !.pc = "upload", !.project = p, !.version = version]
    <2>2. r \in RequestRecords /\ Arrive(q, r)
      BY <1>1, <2>1
    <2> HIDE DEF r
    <2>3. /\ req' \in [Requests -> RequestRecords] /\ req'[q] = r /\ req[q].pc = "idle"
          /\ \A o \in Requests \ {q} : req'[o] = req[o]
      BY <2>2, ArriveEffect
    <2> QED BY <2>3 DEF r, Idle
  <1>3. UNCHANGED <<projects, conns, vault, uploads, blob, webs, submitted>>
    BY DEF Upload
  <1>4. StoreTypeOK'
    BY <1>1, <1>2, <1>3 DEF StoreTypeOK
  <1>5. RequestsAreNamed'
    BY <1>1, <1>2, <1>3 DEF RequestsAreNamed
  <1>6. KindIsKnown'
    BY <1>1, <1>2, <1>3 DEF KindIsKnown
  <1>7. LockIsHeld'
    BY <1>1, <1>2, <1>3 DEF LockIsHeld, RequestsAreNamed
  <1>8. AskedFor'
    BY <1>1, <1>2, <1>3 DEF AskedFor, RequestsAreNamed
  <1>9. VaultIsHome'
    BY <1>1, <1>2, <1>3 DEF VaultIsHome
  <1>10. TokensAreHome'
    BY <1>1, <1>2, <1>3 DEF TokensAreHome, RequestsAreNamed
  <1>11. BytesFirst'
    BY <1>1, <1>2, <1>3 DEF BytesFirst
  <1>12. WholeUpdate'
    BY <1>1, <1>2, <1>3 DEF WholeUpdate
  <1>13. RefNamesSecret'
    BY <1>1, <1>2, <1>3 DEF RefNamesSecret, VaultGet, Path
  <1>14. UploadHasBytes'
    BY <1>1, <1>2, <1>3 DEF UploadHasBytes
  <1> QED BY <1>4, <1>5, <1>6, <1>7, <1>8, <1>9, <1>10, <1>11, <1>12, <1>13, <1>14

\* A new project has the name and the types it was created with.
LEMMA CreateKeeps == ASSUME NEW p \in Projects, StoreInv, Create(p) PROVE StoreInv'
  <1>1. PICK kind \in Kinds, name \in Names, classes \in ClassSets : CreateProject(p, kind, name, classes)
    BY DEF Create
  <1>2. classes \subseteq Classes /\ projects[p].state = "absent"
    BY <1>1 DEF Classes, CreateProject
  <1>3. /\ projects' \in [Projects -> ProjectRecords]
        /\ projects'[p] = [state |-> "live", kind |-> kind, name |-> name, classes |-> classes, lock |-> None]
        /\ \A o \in Projects \ {p} : projects'[o] = projects[o]
    BY <1>1, <1>2 DEF CreateProject, StoreTypeOK, ProjectRecords
  <1>4. /\ submitted' = [submitted EXCEPT ![p] = @ \cup {<<name, classes>>}]
        /\ UNCHANGED <<conns, vault, uploads, blob, webs, req>>
    BY <1>1 DEF CreateProject
  <1>5. StoreTypeOK'
    BY <1>2, <1>3, <1>4 DEF StoreTypeOK
  <1>6. RequestsAreNamed'
    BY <1>2, <1>3, <1>4 DEF RequestsAreNamed
  <1>7. KindIsKnown'
    BY <1>2, <1>3, <1>4 DEF KindIsKnown
  <1>8. LockIsHeld'
    BY <1>2, <1>3, <1>4 DEF LockIsHeld, RequestsAreNamed
  <1>9. AskedFor'
    BY <1>2, <1>3, <1>4 DEF AskedFor, RequestsAreNamed, StoreTypeOK
  <1>10. VaultIsHome'
    BY <1>2, <1>3, <1>4 DEF VaultIsHome
  <1>11. TokensAreHome'
    BY <1>2, <1>3, <1>4 DEF TokensAreHome, RequestsAreNamed
  <1>12. BytesFirst'
    BY <1>2, <1>3, <1>4 DEF BytesFirst
  <1>13. WholeUpdate'
    BY <1>2, <1>3, <1>4 DEF WholeUpdate, StoreTypeOK
  <1>14. RefNamesSecret'
    BY <1>2, <1>3, <1>4 DEF RefNamesSecret, VaultGet, Path
  <1>15. UploadHasBytes'
    BY <1>2, <1>3, <1>4 DEF UploadHasBytes
  <1> QED BY <1>5, <1>6, <1>7, <1>8, <1>9, <1>10, <1>11, <1>12, <1>13, <1>14, <1>15

\* Nobody deletes a row that an update holds.
LEMMA DeleteProjectKeeps == ASSUME NEW p \in Projects, StoreInv, DeleteProject(p) PROVE StoreInv'
  <1>1. /\ projects' \in [Projects -> ProjectRecords]
        /\ projects'[p].state = "deleted" /\ projects'[p].lock = None
        /\ projects'[p].name = projects[p].name /\ projects'[p].classes = projects[p].classes
        /\ \A o \in Projects \ {p} : projects'[o] = projects[o]
        /\ projects[p].lock = None /\ projects[p].state = "live"
    <2>1. /\ projects[p] \in ProjectRecords /\ projects[p].state = "live" /\ projects[p].lock = None
          /\ projects' = [projects EXCEPT ![p] = [projects[p] EXCEPT !.state = "deleted"]]
      BY DEF DeleteProject, Exists, StoreTypeOK
    <2>2. [projects[p] EXCEPT !.state = "deleted"] \in ProjectRecords
      BY <2>1 DEF ProjectRecords
    <2> QED BY <2>1, <2>2 DEF StoreTypeOK, ProjectRecords
  <1>2. UNCHANGED <<conns, vault, uploads, blob, webs, req, submitted>>
    BY DEF DeleteProject
  <1>3. StoreTypeOK'
    BY <1>1, <1>2 DEF StoreTypeOK
  <1>4. RequestsAreNamed'
    BY <1>1, <1>2 DEF RequestsAreNamed
  <1>5. KindIsKnown'
    BY <1>1, <1>2 DEF KindIsKnown
  <1>6. LockIsHeld'
    BY <1>1, <1>2 DEF LockIsHeld, RequestsAreNamed
  <1>7. AskedFor'
    BY <1>1, <1>2 DEF AskedFor, RequestsAreNamed
  <1>8. VaultIsHome'
    BY <1>1, <1>2 DEF VaultIsHome
  <1>9. TokensAreHome'
    BY <1>1, <1>2 DEF TokensAreHome, RequestsAreNamed
  <1>10. BytesFirst'
    BY <1>1, <1>2 DEF BytesFirst
  <1>11. WholeUpdate'
    BY <1>1, <1>2 DEF WholeUpdate, StoreTypeOK, ProjectRecords
  <1>12. RefNamesSecret'
    BY <1>1, <1>2 DEF RefNamesSecret, VaultGet, Path
  <1>13. UploadHasBytes'
    BY <1>1, <1>2 DEF UploadHasBytes
  <1> QED BY <1>3, <1>4, <1>5, <1>6, <1>7, <1>8, <1>9, <1>10, <1>11, <1>12, <1>13

\* A web source is a row of its own.
LEMMA CreateWebSourceKeeps == ASSUME NEW p \in Projects, StoreInv, CreateWebSource(p) PROVE StoreInv'
  <1>1. UNCHANGED <<projects, conns, vault, uploads, blob, req, submitted>>
    BY DEF CreateWebSource
  <1>2. StoreTypeOK'
    BY <1>1 DEF StoreTypeOK
  <1>3. RequestsAreNamed'
    BY <1>1 DEF RequestsAreNamed
  <1>4. KindIsKnown'
    BY <1>1 DEF KindIsKnown
  <1>5. LockIsHeld'
    BY <1>1 DEF LockIsHeld, RequestsAreNamed
  <1>6. AskedFor'
    BY <1>1 DEF AskedFor, RequestsAreNamed
  <1>7. VaultIsHome'
    BY <1>1 DEF VaultIsHome
  <1>8. TokensAreHome'
    BY <1>1 DEF TokensAreHome, RequestsAreNamed
  <1>9. BytesFirst'
    BY <1>1 DEF BytesFirst
  <1>10. WholeUpdate'
    BY <1>1 DEF WholeUpdate
  <1>11. RefNamesSecret'
    BY <1>1 DEF RefNamesSecret, VaultGet, Path
  <1>12. UploadHasBytes'
    BY <1>1 DEF UploadHasBytes
  <1> QED BY <1>2, <1>3, <1>4, <1>5, <1>6, <1>7, <1>8, <1>9, <1>10, <1>11, <1>12

\* All steps of the project service.
LEMMA StoreNextKeeps == ASSUME StoreInv, StoreNext PROVE StoreInv'
  <1> HIDE DEF StoreInv
  <1>1. ASSUME NEW q \in Requests, StoreStep(q) PROVE StoreInv'
    BY <1>1, UpdateProjectKeeps, ClearClassificationsKeeps, CommitUpdateKeeps, ConnectRowKeeps,
       PutSecretKeeps, AttachRefKeeps, UploadVisibleKeeps, PutBytesKeeps, CreateUploadKeeps,
       AbandonKeeps DEF StoreStep
  <1>2. ASSUME NEW q \in Requests, NEW p \in Projects, NEW name \in Names, NEW classes \in ClassSets,
               Update(q, p, name, classes)
        PROVE  StoreInv'
    BY <1>2, UpdateKeeps
  <1>3. ASSUME NEW q \in Requests, NEW p \in Projects, NEW url \in Urls, NEW token \in Tokens \cup {None},
               Connect(q, p, url, token)
        PROVE  StoreInv'
    BY <1>3, ConnectKeeps
  <1>4. ASSUME NEW q \in Requests, NEW p \in Projects, NEW version \in Versions, Upload(q, p, version)
        PROVE  StoreInv'
    BY <1>4, UploadKeeps
  <1>5. ASSUME NEW p \in Projects, Create(p) \/ DeleteProject(p) \/ CreateWebSource(p) PROVE StoreInv'
    BY <1>5, CreateKeeps, DeleteProjectKeeps, CreateWebSourceKeeps
  <1> QED BY <1>1, <1>2, <1>3, <1>4, <1>5 DEF StoreNext

\* No project has anything at the start.
LEMMA StoreInvInit == ASSUME StoreInit PROVE StoreInv
  <1>1. /\ \A p \in Projects : projects[p] = Absent /\ conns[p] = << >> /\ uploads[p] = << >>
        /\ \A q \in Requests : req[q] = Idle
        /\ \A p \in Projects, u \in Urls : vault[<<p, u>>] = None
    BY DEF StoreInit
  <1>2. Idle \in RequestRecords /\ Absent \in ProjectRecords
    BY DEF Idle, Absent, RequestRecords, ProjectRecords, RequestPcs
  <1>3. StoreTypeOK
    <2>1. projects \in [Projects -> ProjectRecords] /\ req \in [Requests -> RequestRecords]
      BY <1>2 DEF StoreInit
    <2>2. conns \in [Projects -> Seq(ConnRows)] /\ uploads \in [Projects -> Seq(Nat)] /\ blob \in Seq(Versions)
      BY EmptySeq DEF StoreInit
    <2>3. vault \in [Projects \X Urls -> Tokens \cup {None}]
      BY DEF StoreInit
    <2>4. submitted \in [Projects -> SUBSET (Names \X SUBSET Classes)]
      BY DEF StoreInit
    <2> QED BY <2>1, <2>2, <2>3, <2>4 DEF StoreTypeOK
  <1>4. RequestsAreNamed /\ KindIsKnown /\ LockIsHeld /\ AskedFor /\ VaultIsHome /\ TokensAreHome /\ BytesFirst
    BY <1>1 DEF RequestsAreNamed, KindIsKnown, LockIsHeld, AskedFor, VaultIsHome, TokensAreHome, BytesFirst, Idle, Absent
  <1>5. WholeUpdate /\ RefNamesSecret /\ UploadHasBytes
    BY <1>1 DEF WholeUpdate, RefNamesSecret, UploadHasBytes, Absent
  <1> QED BY <1>3, <1>4, <1>5

HIDE DEF StoreInv, StoreIsConsistent

-----------------------------------------------------------------------------
FetchPcs == {"idle", "resolve", "credential", "start", "boot", "wait", "copy", "remove",
             "extract", "archive", "report", "clean", "settle"}
SourceRecords == [kind : {"none", "git", "upload", "url"}, project : Projects \cup {None},
            url : Urls \cup {None}, ref : BOOLEAN, key : Nat]
Attempts ==
  [pc : FetchPcs, job : Jobs \cup {None}, src : SourceRecords, token : Tokens \cup {None},
   version : Versions \cup {None}, ok : BOOLEAN, content : SUBSET Files,
   verdict : {"ack", "retry", "term"}]
Results == [ok : BOOLEAN, version : Versions \cup {None}, content : SUBSET Files]
JobRecords ==
  [state : {"none", "queued", "running", "done", "dead"}, project : Projects \cup {None},
   tries : 0..MaxDeliver, result : Results \cup {None}]

FetchTypeOK ==
  /\ head \in [Urls -> Versions]
  /\ job \in [Jobs -> JobRecords] /\ att \in [Fetchers -> Attempts]
  /\ box \in [Jobs \X (1..MaxDeliver) -> {"none", "created", "running", "exited"}]
  /\ ws \in [Jobs -> SUBSET Files] /\ archives \subseteq SUBSET Files
  /\ died \subseteq Jobs \X (1..MaxDeliver)

\* A job that was dispatched is of a project.
JobsAreNamed == \A j \in Jobs : job[j].state # "none" => job[j].project \in Projects

\* A job is in the hands of one worker at most, and only while it is delivered.
OneWorker ==
  /\ \A f \in Fetchers : att[f].pc # "idle" =>
       /\ att[f].job \in Jobs /\ job[att[f].job].state = "running"
       /\ job[att[f].job].tries > 0
  /\ \A f, g \in Fetchers : att[f].pc # "idle" /\ att[g].pc # "idle" /\ att[f].job = att[g].job => f = g

Before == {"resolve", "credential", "start", "boot", "wait"}
Died(j) == \E k \in 1 .. MaxDeliver : <<j, k>> \in died

\* A job that nobody works on has nothing on disk, unless a worker died over it.
DiskIsClean == \A j \in Jobs : job[j].state # "running" => ws[j] = {} \/ Died(j)

\* What is on disk for the job of a worker, and what it carries, step by step.
WorkKnown(f) ==
  /\ att[f].pc \in Before \cup {"copy", "remove", "extract", "settle"} =>
       ws[att[f].job] = {} \/ Died(att[f].job)
  /\ att[f].pc \in Before => ~att[f].ok
  /\ att[f].pc \in {"copy", "extract", "archive"} => att[f].ok
  /\ att[f].pc \in {"copy", "remove", "extract", "archive", "report"} /\ att[f].ok =>
       att[f].version \in Versions
  /\ att[f].pc \in {"remove", "extract", "archive"} /\ att[f].ok =>
       att[f].content = Tree[att[f].version]
  /\ att[f].pc = "archive" => ws[att[f].job] = att[f].content \/ Died(att[f].job)
  /\ att[f].pc = "report" /\ att[f].ok =>
       /\ att[f].content \in archives
       /\ att[f].content = Tree[att[f].version] \/ Died(att[f].job)
WorkIsKnown == \A f \in Fetchers : WorkKnown(f)

\* The source a worker has resolved, and the token it was given for it.
SourceKnown(f) ==
  /\ att[f].src.ref => att[f].src.project \in Projects
  /\ att[f].src.kind = "git" => att[f].src.url \in Urls
  /\ att[f].src.ref => att[f].src.kind = "git"
  /\ att[f].pc \in {"boot", "wait"} => att[f].src.kind = "git"
  /\ att[f].pc = "resolve" => att[f].token = None
  /\ att[f].token # None => Home[att[f].token] = att[f].src.url
SourceIsKnown == \A f \in Fetchers : SourceKnown(f)

FetchInv ==
  /\ FetchTypeOK /\ JobsAreNamed /\ OneWorker /\ DiskIsClean /\ WorkIsKnown /\ SourceIsKnown
  /\ ArchiveMatchesSource /\ ContainersAreRemoved
(***************************************************************************)
(* Workers: what their steps do to the attempt itself                      *)
(***************************************************************************)
USE FetchAssumption DEF FetchInv

\* A worker goes on with its job, and the others stay where they are.
Moves(f, label) ==
  /\ att' \in [Fetchers -> Attempts]
  /\ att'[f].pc = label /\ att'[f].job = att[f].job
  /\ \A g \in Fetchers \ {f} : att'[g] = att[g]
\* What it carries is what it carried.
Carries(f) ==
  /\ att'[f].src = att[f].src /\ att'[f].token = att[f].token
  /\ att'[f].version = att[f].version /\ att'[f].ok = att[f].ok /\ att'[f].content = att[f].content
\* It carries nothing.
Emptied(f) == att'[f].src = NoSource /\ att'[f].token = None /\ att'[f].ok = FALSE

LEMMA BecomeEffect ==
  ASSUME NEW f \in Fetchers, FetchTypeOK, NEW a \in Attempts, Become(f, a)
  PROVE  /\ att' \in [Fetchers -> Attempts] /\ att'[f] = a
         /\ \A g \in Fetchers \ {f} : att'[g] = att[g]
  BY DEF FetchTypeOK, Become

LEMMA ThenEffect ==
  ASSUME NEW f \in Fetchers, FetchTypeOK, NEW label \in FetchPcs, Then(f, label)
  PROVE  Moves(f, label) /\ Carries(f)
  <1> DEFINE a == [att[f] EXCEPT !.pc = label]
  <1>1. att[f] \in Attempts
    BY DEF FetchTypeOK
  <1>2. /\ a \in Attempts /\ a.pc = label /\ a.job = att[f].job /\ a.src = att[f].src
        /\ a.token = att[f].token /\ a.version = att[f].version /\ a.ok = att[f].ok
        /\ a.content = att[f].content
    BY <1>1 DEF Attempts
  <1>3. Become(f, a)
    BY DEF Then
  <1> HIDE DEF a
  <1> QED BY <1>2, <1>3, BecomeEffect DEF Moves, Carries

LEMMA RestingTyped ==
  ASSUME NEW j \in Jobs \cup {None}, NEW label \in FetchPcs, NEW v \in {"ack", "retry", "term"}
  PROVE  /\ Resting \in Attempts
         /\ [Resting EXCEPT !.pc = label, !.job = j, !.verdict = v] \in Attempts
         /\ [Resting EXCEPT !.pc = label, !.job = j] \in Attempts
  BY ZenonT(60) DEF Resting, NoSource, Attempts, FetchPcs, SourceRecords

LEMMA RefuseEffect ==
  ASSUME NEW f \in Fetchers, FetchTypeOK, Refuse(f)
  PROVE  Moves(f, "report") /\ Emptied(f)
  <1> DEFINE a == [Resting EXCEPT !.pc = "report", !.job = att[f].job]
  <1>1. att[f].job \in Jobs \cup {None}
    BY DEF FetchTypeOK, Attempts
  <1>2. a \in Attempts
    BY <1>1, RestingTyped DEF FetchPcs
  <1>3. /\ a.pc = "report" /\ a.job = att[f].job /\ a.src = NoSource /\ a.token = None /\ a.ok = FALSE
    BY DEF Resting
  <1>4. Become(f, a)
    BY DEF Refuse
  <1> HIDE DEF a
  <1> QED BY <1>2, <1>3, <1>4, BecomeEffect DEF Moves, Emptied

LEMMA CleanEffect ==
  ASSUME NEW f \in Fetchers, FetchTypeOK, NEW v \in {"ack", "retry", "term"},
         \/ Become(f, [Resting EXCEPT !.pc = "clean", !.job = att[f].job, !.verdict = v])
         \/ Become(f, [Resting EXCEPT !.pc = "clean", !.job = att[f].job])
  PROVE  Moves(f, "clean") /\ Emptied(f)
  <1> DEFINE a == [Resting EXCEPT !.pc = "clean", !.job = att[f].job, !.verdict = v]
             b == [Resting EXCEPT !.pc = "clean", !.job = att[f].job]
  <1>1. att[f].job \in Jobs \cup {None}
    BY DEF FetchTypeOK, Attempts
  <1>2. a \in Attempts /\ b \in Attempts
    BY <1>1, RestingTyped DEF FetchPcs
  <1>3. /\ a.pc = "clean" /\ a.job = att[f].job /\ a.src = NoSource /\ a.token = None /\ a.ok = FALSE
        /\ b.pc = "clean" /\ b.job = att[f].job /\ b.src = NoSource /\ b.token = None /\ b.ok = FALSE
    BY DEF Resting
  <1>4. Become(f, a) \/ Become(f, b)
    OBVIOUS
  <1> HIDE DEF a, b
  <1> QED BY <1>2, <1>3, <1>4, BecomeEffect DEF Moves, Emptied

LEMMA RestEffect ==
  ASSUME NEW f \in Fetchers, FetchTypeOK, Become(f, Resting)
  PROVE  /\ att' \in [Fetchers -> Attempts] /\ att'[f].pc = "idle" /\ Emptied(f)
         /\ \A g \in Fetchers \ {f} : att'[g] = att[g]
  <1>1. Resting \in Attempts
    BY RestingTyped DEF FetchPcs
  <1> QED BY <1>1, BecomeEffect, SMTT(60) DEF Resting, Emptied

\* What Handler.Source answers is a source, with a reference only for a connection.
LEMMA SourceEffect ==
  ASSUME StoreInv, NEW p \in Projects
  PROVE  /\ Source(p) \in SourceRecords
         /\ Source(p).kind = "git" => Source(p).url \in Urls
         /\ Source(p).ref => Source(p).kind = "git" /\ Source(p).project \in Projects
  <1>1. /\ projects[p] \in ProjectRecords /\ conns[p] \in Seq(ConnRows) /\ uploads[p] \in Seq(Nat)
    BY DEF StoreInv, StoreTypeOK
  <1>2. conns[p] # << >> => conns[p][1] \in ConnRows
    BY <1>1
  <1>3. uploads[p] # << >> => uploads[p][Len(uploads[p])] \in Nat
    BY <1>1
  <1>4. CASE projects[p].state # "live"
    BY <1>4 DEF Source, NoSource, SourceRecords, Exists
  <1>5. CASE Exists(p) /\ projects[p].kind = "upload"
    BY <1>1, <1>3, <1>5 DEF Source, NoSource, SourceRecords, NewestUpload, Exists
  <1>6. CASE Exists(p) /\ projects[p].kind = "url"
    BY <1>6 DEF Source, NoSource, SourceRecords, Exists
  <1>7. CASE Exists(p) /\ projects[p].kind = "git"
    BY <1>1, <1>2, <1>7 DEF Source, NoSource, SourceRecords, FirstConnection, ConnRows, Exists
  <1>8. projects[p].state = "live" => projects[p].kind \in {"git", "upload", "url"}
    BY DEF StoreInv, KindIsKnown
  <1> QED BY <1>4, <1>5, <1>6, <1>7, <1>8 DEF Exists
(***************************************************************************)
(* One step of a worker that keeps its job: what is left to show is what   *)
(* it does to its own attempt, workspace and container.                    *)
(***************************************************************************)
LEMMA HasJob ==
  ASSUME NEW f \in Fetchers, FetchInv, att[f].pc # "idle"
  PROVE  /\ att[f].job \in Jobs /\ job[att[f].job].state = "running"
         /\ job[att[f].job].tries \in 1..MaxDeliver
         /\ Attempt(f) \in Jobs \X (1..MaxDeliver)
         /\ job[att[f].job].project \in Projects
  BY DEF OneWorker, FetchTypeOK, JobRecords, Attempt, JobsAreNamed

\* A container under the name of an attempt that runs none was left by a dead worker.
LEMMA NoContainer ==
  ASSUME NEW f \in Fetchers, FetchInv, att[f].pc # "idle",
         att[f].pc \notin {"boot", "wait", "copy", "remove"}
  PROVE  box[Attempt(f)] # "none" => Attempt(f) \in died
  <1> SUFFICES ASSUME box[Attempt(f)] # "none", Attempt(f) \notin died PROVE FALSE
    OBVIOUS
  <1>1. Attempt(f) \in DOMAIN box
    BY HasJob DEF FetchTypeOK
  <1>2. PICK g \in Fetchers : att[g].pc \in {"boot", "wait", "copy", "remove"} /\ Attempt(g) = Attempt(f)
    BY <1>1 DEF ContainersAreRemoved
  <1>3. att[g].job = att[f].job
    BY <1>2 DEF Attempt
  <1>4. f = g
    BY <1>2, <1>3 DEF OneWorker
  <1> QED BY <1>2, <1>4

LEMMA StepKeeps ==
  ASSUME NEW f \in Fetchers, NEW label \in FetchPcs \ {"idle"}, FetchInv, att[f].pc # "idle",
         Moves(f, label), UNCHANGED <<head, job, died>>,
         box' \in [Jobs \X (1..MaxDeliver) -> {"none", "created", "running", "exited"}],
         \A b \in (Jobs \X (1..MaxDeliver)) \ {Attempt(f)} : box'[b] = box[b],
         box'[Attempt(f)] # "none" =>
           Attempt(f) \in died \/ label \in {"boot", "wait", "copy", "remove"},
         ws' \in [Jobs -> SUBSET Files], \A j \in Jobs \ {att[f].job} : ws'[j] = ws[j],
         archives \subseteq archives', archives' \subseteq SUBSET Files,
         WorkKnown(f)', SourceKnown(f)'
  PROVE  FetchInv'
  <1>1. /\ att[f].job \in Jobs /\ job[att[f].job].state = "running"
        /\ \A g \in Fetchers \ {f} : att[g].pc # "idle" => att[g].job \in Jobs \ {att[f].job}
    BY DEF OneWorker
  <1>2. FetchTypeOK'
    BY DEF FetchTypeOK, Moves
  <1>3. JobsAreNamed'
    BY DEF JobsAreNamed
  <1>4. OneWorker'
    BY <1>1 DEF OneWorker, Moves
  <1>5. DiskIsClean'
    BY <1>1 DEF DiskIsClean, Died
  <1>6. WorkIsKnown'
    <2> SUFFICES ASSUME NEW g \in Fetchers PROVE WorkKnown(g)'
      BY DEF WorkIsKnown
    <2>1. CASE g = f
      BY <2>1
    <2>2. CASE g # f /\ att[g].pc = "idle"
      BY <2>2 DEF Moves, WorkKnown, Before
    <2>3. CASE g # f /\ att[g].pc # "idle"
      <3>1. att'[g] = att[g] /\ ws'[att[g].job] = ws[att[g].job] /\ WorkKnown(g)
        BY <1>1, <2>3 DEF Moves, WorkIsKnown
      <3> QED BY <3>1 DEF WorkKnown, Died
    <2> QED BY <2>1, <2>2, <2>3
  <1>7. SourceIsKnown'
    BY DEF SourceIsKnown, SourceKnown, Moves
  <1>8. ArchiveMatchesSource'
    BY DEF ArchiveMatchesSource
  <1>9. ContainersAreRemoved'
    <2> SUFFICES ASSUME NEW b \in Jobs \X (1..MaxDeliver), box'[b] # "none", b \notin died
                 PROVE  \E g \in Fetchers : att'[g].pc \in {"boot", "wait", "copy", "remove"} /\ Attempt(g)' = b
      BY DEF ContainersAreRemoved
    <2>1. CASE b = Attempt(f)
      BY <2>1 DEF Attempt, Moves
    <2>2. CASE b # Attempt(f)
      <3>1. PICK g \in Fetchers : att[g].pc \in {"boot", "wait", "copy", "remove"} /\ Attempt(g) = b
        BY <2>2 DEF ContainersAreRemoved, FetchTypeOK
      <3>2. g # f
        BY <2>2, <3>1
      <3> QED BY <3>1, <3>2 DEF Moves, Attempt
    <2> QED BY <2>1, <2>2
  <1> QED BY <1>2, <1>3, <1>4, <1>5, <1>6, <1>7, <1>8, <1>9

\* The same for a step that leaves disk and containers alone.
LEMMA QuietStepKeeps ==
  ASSUME NEW f \in Fetchers, NEW label \in FetchPcs \ {"idle"}, FetchInv, att[f].pc # "idle",
         Moves(f, label), UNCHANGED <<head, job, died, box, ws, archives>>,
         att[f].pc \in {"boot", "wait", "copy", "remove"} => label \in {"boot", "wait", "copy", "remove"},
         WorkKnown(f)', SourceKnown(f)'
  PROVE  FetchInv'
  <1>1. box[Attempt(f)] # "none" => Attempt(f) \in died \/ label \in {"boot", "wait", "copy", "remove"}
    BY NoContainer
  <1>2. FetchTypeOK
    OBVIOUS
  <1> QED BY <1>1, <1>2, StepKeeps DEF FetchTypeOK

(***************************************************************************)
(* The steps of handle                                                     *)
(***************************************************************************)
HIDE DEF FetchInv

\* A failed result carries nothing, whatever was left on the disk.
LEMMA RefuseKeeps ==
  ASSUME NEW f \in Fetchers, FetchInv, att[f].pc \in {"resolve", "credential", "start"}, Refuse(f),
         UNCHANGED <<head, job, died, box, ws, archives>>
  PROVE  FetchInv'
  <1>1. Moves(f, "report") /\ Emptied(f)
    BY RefuseEffect DEF FetchInv
  <1>2. WorkKnown(f)' /\ SourceKnown(f)'
    BY <1>1 DEF Moves, Emptied, WorkKnown, SourceKnown, Before, NoSource
  <1> QED BY <1>1, <1>2, QuietStepKeeps DEF FetchPcs

LEMMA RetryKeeps == ASSUME NEW f \in Fetchers, FetchInv, Retry(f) PROVE FetchInv'
  <1>1. att[f].pc \in {"resolve", "start", "archive"} /\ UNCHANGED <<head, job, died, box, ws, archives>>
    BY SMTT(60) DEF Retry
  <1>2. Moves(f, "clean") /\ Emptied(f)
    BY CleanEffect DEF Retry, FetchInv
  <1>3. WorkKnown(f)' /\ SourceKnown(f)'
    BY <1>2 DEF Moves, Emptied, WorkKnown, SourceKnown, Before, NoSource
  <1> QED BY <1>1, <1>2, <1>3, QuietStepKeeps DEF FetchPcs

\* The source is the project's, as it is now.
LEMMA ResolveKeeps == ASSUME NEW f \in Fetchers, FetchInv, StoreInv, Resolve(f) PROVE FetchInv'
  <1>1. att[f].pc = "resolve" /\ UNCHANGED <<head, job, died, box, ws, archives>>
    BY DEF Resolve, At
  <1>2. PICK p \in Projects : p = job[att[f].job].project
    BY <1>1, HasJob
  <1>3. CASE Refuse(f)
    BY <1>1, <1>3, RefuseKeeps
  <1>4. CASE Become(f, [att[f] EXCEPT !.pc = "credential", !.src = Source(p)])
    <2>1. /\ Source(p) \in SourceRecords
          /\ Source(p).kind = "git" => Source(p).url \in Urls
          /\ Source(p).ref => Source(p).kind = "git" /\ Source(p).project \in Projects
      BY SourceEffect
    <2>2. att[f] \in Attempts /\ WorkKnown(f) /\ SourceKnown(f)
      BY DEF FetchInv, FetchTypeOK, WorkIsKnown, SourceIsKnown
    <2> DEFINE a == [att[f] EXCEPT !.pc = "credential", !.src = Source(p)]
    <2>3. /\ a \in Attempts /\ a.pc = "credential" /\ a.src = Source(p) /\ a.job = att[f].job
          /\ a.token = att[f].token /\ a.ok = att[f].ok
      BY <2>1, <2>2 DEF Attempts, FetchPcs
    <2>4. Become(f, a)
      BY <1>4
    <2> HIDE DEF a
    <2>5. /\ Moves(f, "credential") /\ att'[f].src = Source(p) /\ att'[f].token = att[f].token
          /\ att'[f].ok = att[f].ok
      BY <2>3, <2>4, BecomeEffect DEF Moves, FetchInv
    <2>6. att[f].token = None
      BY <1>1, <2>2 DEF SourceKnown
    <2>7. WorkKnown(f)'
      BY <1>1, <2>2, <2>5 DEF Moves, WorkKnown, Before, Died
    <2>8. SourceKnown(f)'
      BY <2>1, <2>5, <2>6 DEF Moves, SourceKnown
    <2> QED BY <1>1, <2>5, <2>7, <2>8, QuietStepKeeps DEF FetchPcs
  <1> QED BY <1>2, <1>3, <1>4 DEF Resolve

\* The token is the one stored for the repository; only an archive or a clone goes on.
LEMMA CredentialKeeps == ASSUME NEW f \in Fetchers, FetchInv, StoreInv, Credential(f) PROVE FetchInv'
  <1>1. att[f].pc = "credential" /\ UNCHANGED <<head, job, died, box, ws, archives>>
    BY DEF Credential, At
  <1>2. att[f] \in Attempts /\ WorkKnown(f) /\ SourceKnown(f)
    BY DEF FetchInv, FetchTypeOK, WorkIsKnown, SourceIsKnown
  <1>3. CASE Refuse(f)
    BY <1>1, <1>3, RefuseKeeps
  <1>4. CASE ~Refuse(f)
    <2>1. PICK token : /\ token = IF att[f].src.ref THEN VaultGet(att[f].src.project, att[f].src.url) ELSE None
                       /\ Become(f, [att[f] EXCEPT !.pc = "start", !.token = token])
      BY <1>4 DEF Credential
    <2>2. /\ token \in Tokens \cup {None}
          /\ token # None => Home[token] = att[f].src.url
      <3>1. CASE att[f].src.ref
        <4>1. PICK p \in Projects, u \in Urls : p = att[f].src.project /\ u = att[f].src.url
          BY <1>2, <3>1 DEF SourceKnown
        <4>2. token = vault[<<p, u>>]
          BY <2>1, <3>1, <4>1 DEF VaultGet, Path
        <4>3. vault[<<p, u>>] \in Tokens \cup {None} /\ (vault[<<p, u>>] # None => Home[vault[<<p, u>>]] = u)
          BY DEF StoreInv, StoreTypeOK, VaultIsHome
        <4> QED BY <4>1, <4>2, <4>3
      <3>2. CASE ~att[f].src.ref
        BY <2>1, <3>2
      <3> QED BY <3>1, <3>2
    <2> DEFINE a == [att[f] EXCEPT !.pc = "start", !.token = token]
    <2>3. /\ a \in Attempts /\ a.pc = "start" /\ a.src = att[f].src /\ a.job = att[f].job
          /\ a.token = token /\ a.ok = att[f].ok
      BY <1>2, <2>2 DEF Attempts, FetchPcs
    <2>4. Become(f, a)
      BY <2>1
    <2> HIDE DEF a
    <2>5. /\ Moves(f, "start") /\ att'[f].src = att[f].src /\ att'[f].token = token
          /\ att'[f].ok = att[f].ok
      BY <2>3, <2>4, BecomeEffect DEF Moves, FetchInv
    <2>6. WorkKnown(f)'
      BY <1>1, <1>2, <2>5 DEF Moves, WorkKnown, Before, Died
    <2>7. SourceKnown(f)'
      BY <1>2, <2>2, <2>5 DEF Moves, SourceKnown
    <2> QED BY <1>1, <2>5, <2>6, <2>7, QuietStepKeeps, SMTT(60) DEF FetchPcs
  <1> QED BY <1>3, <1>4

(***************************************************************************)
(* The container                                                           *)
(***************************************************************************)
LEMMA BoxEffect ==
  ASSUME NEW f \in Fetchers, FetchInv, att[f].pc # "idle",
         NEW s \in {"none", "created", "running", "exited"}, SetBox(f, s)
  PROVE  /\ box' \in [Jobs \X (1..MaxDeliver) -> {"none", "created", "running", "exited"}]
         /\ \A b \in (Jobs \X (1..MaxDeliver)) \ {Attempt(f)} : box'[b] = box[b]
         /\ box'[Attempt(f)] = s
  <1>1. Attempt(f) \in Jobs \X (1..MaxDeliver)
    BY HasJob
  <1>2. box \in [Jobs \X (1..MaxDeliver) -> {"none", "created", "running", "exited"}]
    BY DEF FetchInv, FetchTypeOK
  <1> HIDE DEF Attempt
  <1> QED BY <1>1, <1>2 DEF SetBox

\* A step of the run of a container: the container goes to another state, or nothing of it
\* changes, and the worker knows what it knew.
LEMMA BoxStepKeeps ==
  ASSUME NEW f \in Fetchers, NEW label \in FetchPcs \ {"idle"}, FetchInv,
         att[f].pc \in {"start", "boot", "wait", "copy", "remove"},
         Moves(f, label), UNCHANGED <<head, job, died, ws, archives>>,
         NEW s \in {"none", "created", "running", "exited"}, SetBox(f, s) \/ UNCHANGED box,
         \/ label \in {"boot", "wait", "copy", "remove"}
         \/ SetBox(f, "none"),
         WorkKnown(f)', SourceKnown(f)'
  PROVE  FetchInv'
  <1>1. CASE SetBox(f, "none")
    <2>1. /\ box' \in [Jobs \X (1..MaxDeliver) -> {"none", "created", "running", "exited"}]
          /\ \A b \in (Jobs \X (1..MaxDeliver)) \ {Attempt(f)} : box'[b] = box[b]
          /\ box'[Attempt(f)] = "none"
      BY <1>1, BoxEffect
    <2> QED BY <2>1, StepKeeps DEF FetchInv, FetchTypeOK
  <1>2. CASE label \in {"boot", "wait", "copy", "remove"} /\ SetBox(f, s)
    <2>1. /\ box' \in [Jobs \X (1..MaxDeliver) -> {"none", "created", "running", "exited"}]
          /\ \A b \in (Jobs \X (1..MaxDeliver)) \ {Attempt(f)} : box'[b] = box[b]
      BY <1>2, BoxEffect, ZenonT(60)
    <2> QED BY <1>2, <2>1, StepKeeps DEF FetchInv, FetchTypeOK
  <1>3. CASE label \in {"boot", "wait", "copy", "remove"} /\ UNCHANGED box
    BY <1>3, StepKeeps DEF FetchInv, FetchTypeOK
  <1> QED BY <1>1, <1>2, <1>3

\* A container is created for a repository, or the fetch is over.
LEMMA CreateBoxKeeps == ASSUME NEW f \in Fetchers, FetchInv, CreateBox(f) PROVE FetchInv'
  <1>1. att[f].pc = "start" /\ att[f].src.kind = "git" /\ UNCHANGED <<head, job, died, ws, archives>>
    BY DEF CreateBox, At
  <1>2. WorkKnown(f) /\ SourceKnown(f) /\ FetchTypeOK
    BY DEF FetchInv, WorkIsKnown, SourceIsKnown
  <1>3. CASE SetBox(f, "created") /\ Then(f, "boot")
    <2>1. Moves(f, "boot") /\ Carries(f)
      BY <1>2, <1>3, ThenEffect DEF FetchPcs
    <2>2. WorkKnown(f)' /\ SourceKnown(f)'
      BY <1>1, <1>2, <2>1 DEF Moves, Carries, WorkKnown, SourceKnown, Before, Died
    <2> QED BY <1>1, <1>3, <2>1, <2>2, BoxStepKeeps DEF FetchPcs
  <1>4. CASE UNCHANGED box /\ Refuse(f)
    BY <1>1, <1>4, RefuseKeeps
  <1> QED BY <1>3, <1>4 DEF CreateBox

LEMMA StartBoxKeeps == ASSUME NEW f \in Fetchers, FetchInv, StartBox(f) PROVE FetchInv'
  <1>1. att[f].pc = "boot" /\ UNCHANGED <<head, job, died, ws, archives>>
    BY DEF StartBox, At
  <1>2. WorkKnown(f) /\ SourceKnown(f) /\ FetchTypeOK
    BY DEF FetchInv, WorkIsKnown, SourceIsKnown
  <1>3. PICK label \in {"wait", "remove"} : Then(f, label) /\ (SetBox(f, "running") \/ UNCHANGED box)
    BY DEF StartBox
  <1>4. Moves(f, label) /\ Carries(f)
    BY <1>2, <1>3, ThenEffect DEF FetchPcs
  <1>5. WorkKnown(f)' /\ SourceKnown(f)'
    BY <1>1, <1>2, <1>4 DEF Moves, Carries, WorkKnown, SourceKnown, Before, Died
  <1> QED BY <1>1, <1>3, <1>4, <1>5, BoxStepKeeps DEF FetchPcs

\* The version that is cloned is the head of the repository as it is when git ends.
LEMMA GitExitsKeeps == ASSUME NEW f \in Fetchers, FetchInv, GitExits(f) PROVE FetchInv'
  <1>1. att[f].pc = "wait" /\ SetBox(f, "exited") /\ UNCHANGED <<head, job, died, ws, archives>>
    BY DEF GitExits, At
  <1>2. WorkKnown(f) /\ SourceKnown(f) /\ FetchTypeOK /\ att[f] \in Attempts
    BY DEF FetchInv, WorkIsKnown, SourceIsKnown, FetchTypeOK
  <1>3. PICK v \in Versions : v = head[att[f].src.url]
    BY <1>1, <1>2 DEF SourceKnown, FetchTypeOK
  <1>4. CASE Become(f, [att[f] EXCEPT !.pc = "copy", !.ok = TRUE, !.version = head[att[f].src.url]])
    <2> DEFINE a == [att[f] EXCEPT !.pc = "copy", !.ok = TRUE, !.version = v]
    <2>1. /\ a \in Attempts /\ a.pc = "copy" /\ a.src = att[f].src /\ a.job = att[f].job
          /\ a.token = att[f].token /\ a.version = v /\ a.ok = TRUE
      BY <1>2 DEF Attempts, FetchPcs
    <2>2. Become(f, a)
      BY <1>3, <1>4
    <2> HIDE DEF a
    <2>3. /\ Moves(f, "copy") /\ att'[f].src = att[f].src /\ att'[f].token = att[f].token
          /\ att'[f].version = v /\ att'[f].ok = TRUE
      BY <1>2, <2>1, <2>2, BecomeEffect DEF Moves
    <2>4. WorkKnown(f)'
      BY <1>1, <1>2, <2>3 DEF Moves, WorkKnown, Before, Died
    <2>5. SourceKnown(f)'
      BY <1>2, <2>3 DEF Moves, SourceKnown
    <2> QED BY <1>1, <2>3, <2>4, <2>5, BoxStepKeeps DEF FetchPcs
  <1>5. CASE Then(f, "remove")
    <2>1. Moves(f, "remove") /\ Carries(f)
      BY <1>2, <1>5, ThenEffect DEF FetchPcs
    <2>2. WorkKnown(f)' /\ SourceKnown(f)'
      BY <1>1, <1>2, <2>1 DEF Moves, Carries, WorkKnown, SourceKnown, Before, Died
    <2> QED BY <1>1, <2>1, <2>2, BoxStepKeeps DEF FetchPcs
  <1> QED BY <1>4, <1>5 DEF GitExits

\* A killed clone has no result to copy.
LEMMA WallClockKeeps == ASSUME NEW f \in Fetchers, FetchInv, WallClock(f) PROVE FetchInv'
  <1>1. /\ att[f].pc = "wait" /\ SetBox(f, "exited") /\ Then(f, "remove")
        /\ UNCHANGED <<head, job, died, ws, archives>>
    BY DEF WallClock, At
  <1>2. WorkKnown(f) /\ SourceKnown(f) /\ FetchTypeOK
    BY DEF FetchInv, WorkIsKnown, SourceIsKnown
  <1>3. Moves(f, "remove") /\ Carries(f)
    BY <1>1, <1>2, ThenEffect DEF FetchPcs
  <1>4. WorkKnown(f)' /\ SourceKnown(f)'
    BY <1>1, <1>2, <1>3 DEF Moves, Carries, WorkKnown, SourceKnown, Before, Died
  <1> QED BY <1>1, <1>3, <1>4, BoxStepKeeps DEF FetchPcs

\* What is copied is the tree of the version, or the attempt has failed.
LEMMA CopyOutKeeps == ASSUME NEW f \in Fetchers, FetchInv, CopyOut(f) PROVE FetchInv'
  <1>1. att[f].pc = "copy" /\ UNCHANGED <<head, job, died, box, ws, archives>>
    BY DEF CopyOut, At
  <1>2. WorkKnown(f) /\ SourceKnown(f) /\ FetchTypeOK /\ att[f] \in Attempts
    BY DEF FetchInv, WorkIsKnown, SourceIsKnown, FetchTypeOK
  <1>3. att[f].ok /\ att[f].version \in Versions /\ Tree[att[f].version] \in SUBSET Files
    BY <1>1, <1>2 DEF WorkKnown
  <1> DEFINE a == [att[f] EXCEPT !.pc = "remove", !.content = Tree[att[f].version]]
             b == [att[f] EXCEPT !.pc = "remove", !.ok = FALSE]
  <1>4. /\ a \in Attempts /\ a.pc = "remove" /\ a.src = att[f].src /\ a.job = att[f].job
        /\ a.token = att[f].token /\ a.version = att[f].version /\ a.content = Tree[att[f].version]
    BY <1>2, <1>3 DEF Attempts, FetchPcs
  <1>5. /\ b \in Attempts /\ b.pc = "remove" /\ b.src = att[f].src /\ b.job = att[f].job
        /\ b.token = att[f].token /\ b.ok = FALSE
    BY <1>2 DEF Attempts, FetchPcs
  <1>6. Become(f, a) \/ Become(f, b)
    BY DEF CopyOut
  <1> HIDE DEF a, b
  <1>7. /\ Moves(f, "remove") /\ att'[f].src = att[f].src /\ att'[f].token = att[f].token
        /\ \/ ~att'[f].ok
           \/ att'[f].version = att[f].version /\ att'[f].content = Tree[att[f].version]
    BY <1>2, <1>4, <1>5, <1>6, BecomeEffect DEF Moves
  <1>8. WorkKnown(f)'
    BY <1>1, <1>2, <1>3, <1>7 DEF Moves, WorkKnown, Before, Died
  <1>9. SourceKnown(f)'
    BY <1>2, <1>7 DEF Moves, SourceKnown
  <1> QED BY <1>1, <1>7, <1>8, <1>9, QuietStepKeeps DEF FetchPcs

\* The container is gone before its files are used.
LEMMA RemoveBoxKeeps == ASSUME NEW f \in Fetchers, FetchInv, RemoveBox(f) PROVE FetchInv'
  <1>1. att[f].pc = "remove" /\ SetBox(f, "none") /\ UNCHANGED <<head, job, died, ws, archives>>
    BY DEF RemoveBox, At
  <1>2. WorkKnown(f) /\ SourceKnown(f) /\ FetchTypeOK
    BY DEF FetchInv, WorkIsKnown, SourceIsKnown
  <1>3. CASE att[f].ok /\ Then(f, "extract")
    <2>1. Moves(f, "extract") /\ Carries(f)
      BY <1>2, <1>3, ThenEffect DEF FetchPcs
    <2>2. WorkKnown(f)' /\ SourceKnown(f)'
      BY <1>1, <1>2, <1>3, <2>1 DEF Moves, Carries, WorkKnown, SourceKnown, Before, Died
    <2> QED BY <1>1, <2>1, <2>2, BoxStepKeeps DEF FetchPcs
  <1>4. CASE Refuse(f)
    <2>1. Moves(f, "report") /\ Emptied(f)
      BY <1>2, <1>4, RefuseEffect
    <2>2. WorkKnown(f)' /\ SourceKnown(f)'
      BY <2>1 DEF Moves, Emptied, WorkKnown, SourceKnown, Before, NoSource
    <2> QED BY <1>1, <2>1, <2>2, BoxStepKeeps DEF FetchPcs
  <1> QED BY <1>3, <1>4 DEF RemoveBox

(***************************************************************************)
(* The workspace                                                           *)
(***************************************************************************)
\* The bytes of an upload are one version, all of it.
LEMMA ReadUploadKeeps == ASSUME NEW f \in Fetchers, FetchInv, StoreInv, ReadUpload(f) PROVE FetchInv'
  <1>1. att[f].pc = "start" /\ UNCHANGED <<head, job, died, box, ws, archives>>
    BY DEF ReadUpload, At
  <1>2. WorkKnown(f) /\ SourceKnown(f) /\ FetchTypeOK /\ att[f] \in Attempts
    BY DEF FetchInv, WorkIsKnown, SourceIsKnown, FetchTypeOK
  <1>3. CASE Refuse(f)
    BY <1>1, <1>3, RefuseKeeps
  <1>4. CASE ~Refuse(f)
    <2>1. att[f].src.key \in DOMAIN blob /\ blob \in Seq(Versions)
      BY <1>4 DEF ReadUpload, StoreInv, StoreTypeOK
    <2>2. PICK v \in Versions : v = blob[att[f].src.key]
      BY <2>1
    <2> DEFINE a == [att[f] EXCEPT !.pc = "extract", !.ok = TRUE, !.version = v, !.content = Tree[v]]
    <2>3. Tree[v] \in SUBSET Files
      OBVIOUS
    <2>4. /\ a \in Attempts /\ a.pc = "extract" /\ a.src = att[f].src /\ a.job = att[f].job
          /\ a.token = att[f].token /\ a.version = v /\ a.ok = TRUE /\ a.content = Tree[v]
      BY <1>2, <2>3 DEF Attempts, FetchPcs
    <2>5. Become(f, a)
      BY <1>4, <2>2 DEF ReadUpload
    <2> HIDE DEF a
    <2>6. /\ Moves(f, "extract") /\ att'[f].src = att[f].src /\ att'[f].token = att[f].token
          /\ att'[f].version = v /\ att'[f].ok = TRUE /\ att'[f].content = Tree[v]
      BY <1>2, <2>4, <2>5, BecomeEffect DEF Moves
    <2>7. WorkKnown(f)'
      BY <1>1, <1>2, <2>6 DEF Moves, WorkKnown, Before, Died
    <2>8. SourceKnown(f)'
      BY <1>2, <2>6 DEF Moves, SourceKnown
    <2> QED BY <1>1, <2>6, <2>7, <2>8, QuietStepKeeps DEF FetchPcs
  <1> QED BY <1>3, <1>4

\* Files are added to what the workspace of the job has.
LEMMA WrittenEffect ==
  ASSUME NEW f \in Fetchers, FetchInv, att[f].pc # "idle", NEW files \in SUBSET Files, Written(f, files)
  PROVE  /\ ws' \in [Jobs -> SUBSET Files] /\ ws'[att[f].job] = ws[att[f].job] \cup files
         /\ \A j \in Jobs \ {att[f].job} : ws'[j] = ws[j]
  BY HasJob DEF FetchInv, FetchTypeOK, Written

\* A step over the workspace and the archives, once the container is gone.
LEMMA DiskStepKeeps ==
  ASSUME NEW f \in Fetchers, NEW label \in FetchPcs \ {"idle"}, FetchInv,
         att[f].pc \in {"extract", "archive", "clean"}, Moves(f, label), UNCHANGED <<head, job, died, box>>,
         ws' \in [Jobs -> SUBSET Files], \A j \in Jobs \ {att[f].job} : ws'[j] = ws[j],
         archives \subseteq archives', archives' \subseteq SUBSET Files,
         WorkKnown(f)', SourceKnown(f)'
  PROVE  FetchInv'
  <1>1. box[Attempt(f)] # "none" => Attempt(f) \in died
    BY NoContainer
  <1> QED BY <1>1, StepKeeps DEF FetchInv, FetchTypeOK

\* The tree goes into a clean workspace, unless a worker died over it.
LEMMA ExtractKeeps == ASSUME NEW f \in Fetchers, FetchInv, Extract(f) PROVE FetchInv'
  <1>1. att[f].pc = "extract" /\ UNCHANGED <<head, job, died, box, archives>>
    BY DEF Extract, At
  <1>2. WorkKnown(f) /\ SourceKnown(f) /\ FetchTypeOK /\ att[f] \in Attempts
    BY DEF FetchInv, WorkIsKnown, SourceIsKnown, FetchTypeOK
  <1>3. att[f].content \in SUBSET Files /\ archives \subseteq SUBSET Files
    BY <1>2 DEF Attempts, FetchTypeOK
  <1>4. CASE Written(f, att[f].content) /\ Then(f, "archive")
    <2>1. Moves(f, "archive") /\ Carries(f)
      BY <1>2, <1>4, ThenEffect DEF FetchPcs
    <2>2. /\ ws' \in [Jobs -> SUBSET Files] /\ ws'[att[f].job] = ws[att[f].job] \cup att[f].content
          /\ \A j \in Jobs \ {att[f].job} : ws'[j] = ws[j]
      BY <1>1, <1>3, <1>4, WrittenEffect
    <2>3. WorkKnown(f)'
      BY <1>1, <1>2, <2>1, <2>2, ZenonT(60) DEF Moves, Carries, WorkKnown, Before, Died
    <2>4. SourceKnown(f)'
      BY <1>2, <2>1 DEF Moves, Carries, SourceKnown
    <2> QED BY <1>1, <1>3, <2>1, <2>2, <2>3, <2>4, DiskStepKeeps DEF FetchPcs
  <1>5. CASE \E some \in SUBSET att[f].content : Written(f, some) /\ Refuse(f)
    <2>1. PICK some \in SUBSET Files : Written(f, some) /\ Refuse(f)
      BY <1>3, <1>5
    <2>2. Moves(f, "report") /\ Emptied(f)
      BY <1>2, <2>1, RefuseEffect
    <2>3. ws' \in [Jobs -> SUBSET Files] /\ \A j \in Jobs \ {att[f].job} : ws'[j] = ws[j]
      BY <1>1, <2>1, WrittenEffect
    <2>4. WorkKnown(f)' /\ SourceKnown(f)'
      BY <2>2 DEF Moves, Emptied, WorkKnown, SourceKnown, Before, NoSource
    <2> QED BY <1>1, <1>3, <2>2, <2>3, <2>4, DiskStepKeeps DEF FetchPcs
  <1> QED BY <1>4, <1>5 DEF Extract

\* What is archived is what the workspace has.
LEMMA CreateArchiveKeeps == ASSUME NEW f \in Fetchers, FetchInv, CreateArchive(f) PROVE FetchInv'
  <1>1. /\ att[f].pc = "archive" /\ UNCHANGED <<head, job, died, box, ws>>
        /\ archives' = archives \cup {ws[att[f].job]}
    BY DEF CreateArchive, At, Walk
  <1>2. WorkKnown(f) /\ SourceKnown(f) /\ FetchTypeOK /\ att[f] \in Attempts
    BY DEF FetchInv, WorkIsKnown, SourceIsKnown, FetchTypeOK
  <1>3. ws[att[f].job] \in SUBSET Files /\ archives \subseteq SUBSET Files
    BY <1>1, <1>2, HasJob DEF FetchTypeOK
  <1> DEFINE a == [att[f] EXCEPT !.pc = "report", !.content = ws[att[f].job]]
  <1>4. /\ a \in Attempts /\ a.pc = "report" /\ a.src = att[f].src /\ a.job = att[f].job
        /\ a.token = att[f].token /\ a.version = att[f].version /\ a.ok = att[f].ok
        /\ a.content = ws[att[f].job]
    BY <1>2, <1>3 DEF Attempts, FetchPcs
  <1>5. Become(f, a)
    BY DEF CreateArchive, Walk
  <1> HIDE DEF a
  <1>6. /\ Moves(f, "report") /\ att'[f].src = att[f].src /\ att'[f].token = att[f].token
        /\ att'[f].version = att[f].version /\ att'[f].content = ws[att[f].job]
    BY <1>2, <1>4, <1>5, BecomeEffect DEF Moves
  <1>7. WorkKnown(f)'
    BY <1>1, <1>2, <1>6 DEF Moves, WorkKnown, Before, Died
  <1>8. SourceKnown(f)'
    BY <1>2, <1>6 DEF Moves, SourceKnown
  <1>9. ws' \in [Jobs -> SUBSET Files] /\ archives \subseteq archives' /\ archives' \subseteq SUBSET Files
    BY <1>1, <1>2, <1>3 DEF FetchTypeOK
  <1> QED BY <1>1, <1>6, <1>7, <1>8, <1>9, DiskStepKeeps DEF FetchPcs

LEMMA CleanKeeps == ASSUME NEW f \in Fetchers, FetchInv, Clean(f) PROVE FetchInv'
  <1>1. /\ att[f].pc = "clean" /\ UNCHANGED <<head, job, died, box, archives>>
        /\ ws' = [ws EXCEPT ![att[f].job] = {}] /\ Then(f, "settle")
    BY DEF Clean, At
  <1>2. WorkKnown(f) /\ SourceKnown(f) /\ FetchTypeOK
    BY DEF FetchInv, WorkIsKnown, SourceIsKnown
  <1>3. Moves(f, "settle") /\ Carries(f)
    BY <1>1, <1>2, ThenEffect DEF FetchPcs
  <1>4. /\ ws' \in [Jobs -> SUBSET Files] /\ ws'[att[f].job] = {}
        /\ \A j \in Jobs \ {att[f].job} : ws'[j] = ws[j]
        /\ archives \subseteq archives' /\ archives' \subseteq SUBSET Files
    BY <1>1, <1>2, HasJob DEF FetchTypeOK
  <1>5. WorkKnown(f)' /\ SourceKnown(f)'
    BY <1>1, <1>2, <1>3, <1>4 DEF Moves, Carries, WorkKnown, SourceKnown, Before
  <1> QED BY <1>1, <1>3, <1>4, <1>5, DiskStepKeeps DEF FetchPcs

(***************************************************************************)
(* The job                                                                 *)
(***************************************************************************)
\* The first result stands; a successful one is what the worker knows.
LEMMA PublishKeeps == ASSUME NEW f \in Fetchers, FetchInv, Publish(f) PROVE FetchInv'
  <1>1. att[f].pc = "report" /\ UNCHANGED <<head, died, box, ws, archives>>
    BY DEF Publish, At
  <1>2. WorkKnown(f) /\ SourceKnown(f) /\ FetchTypeOK /\ att[f] \in Attempts
    BY DEF FetchInv, WorkIsKnown, SourceIsKnown, FetchTypeOK
  <1>3. PICK j \in Jobs : j = att[f].job /\ job[j] \in JobRecords
    BY <1>1, <1>2, HasJob, SMTT(60) DEF FetchTypeOK
  <1>4. Moves(f, "clean") /\ Emptied(f)
    BY <1>2, CleanEffect DEF Publish
  <1>5. WorkKnown(f)' /\ SourceKnown(f)'
    BY <1>4 DEF Moves, Emptied, WorkKnown, SourceKnown, Before, NoSource
  <1>6. CASE UNCHANGED job
    BY <1>1, <1>4, <1>5, <1>6, QuietStepKeeps DEF FetchPcs
  <1>7. CASE ~ UNCHANGED job
    <2> DEFINE result == [ok |-> att[f].ok, version |-> att[f].version, content |-> att[f].content]
    <2>1. job' = [job EXCEPT ![j].result = IF @ = None THEN result ELSE @]
      BY <1>3, <1>7 DEF Publish
    <2>2. PICK r : r = result
      OBVIOUS
    <2>3. r \in Results /\ r.ok = att[f].ok /\ r.version = att[f].version /\ r.content = att[f].content
      BY <1>2, <2>2 DEF Results, Attempts
    <2>4. job' = [job EXCEPT ![j] = [job[j] EXCEPT !.result = IF job[j].result = None THEN r ELSE job[j].result]]
      BY <2>1, <2>2
    <2> HIDE DEF result
    <2> DEFINE new == [job[j] EXCEPT !.result = IF job[j].result = None THEN r ELSE job[j].result]
    <2>5. /\ new \in JobRecords /\ new.state = job[j].state /\ new.project = job[j].project
          /\ new.tries = job[j].tries /\ new.result \in {r, job[j].result}
      BY <1>3, <2>3 DEF JobRecords
    <2>6. job' = [job EXCEPT ![j] = new]
      BY <2>4
    <2> HIDE DEF new
    <2>7. /\ job' \in [Jobs -> JobRecords]
          /\ \A k \in Jobs : job'[k].state = job[k].state /\ job'[k].project = job[k].project
                             /\ job'[k].tries = job[k].tries
          /\ \A k \in Jobs \ {j} : job'[k] = job[k]
          /\ job'[j].result \in {r, job[j].result}
      BY <1>2, <2>5, <2>6 DEF FetchTypeOK
    <2>8. FetchTypeOK'
      BY <1>1, <1>2, <1>4, <2>7 DEF FetchTypeOK, Moves
    <2>9. JobsAreNamed' /\ DiskIsClean'
      BY <1>1, <2>7 DEF JobsAreNamed, DiskIsClean, Died, FetchInv
    <2>10. OneWorker'
      BY <1>1, <1>4, <2>7 DEF OneWorker, Moves, FetchInv
    <2>11. WorkIsKnown'
      <3>1. ASSUME NEW g \in Fetchers, g # f PROVE WorkKnown(g)'
        <4>1. att'[g] = att[g] /\ WorkKnown(g)
          BY <1>4, <3>1 DEF Moves, FetchInv, WorkIsKnown
        <4> QED BY <1>1, <4>1 DEF WorkKnown, Died
      <3> QED BY <1>5, <3>1 DEF WorkIsKnown
    <2>12. SourceIsKnown'
      BY <1>4, <1>5 DEF SourceIsKnown, SourceKnown, Moves, FetchInv
    <2>13. ArchiveMatchesSource'
      <3>1. ASSUME NEW k \in Jobs, k # j PROVE job'[k] = job[k]
        BY <2>7, <3>1
      <3>2. r.ok => r.content \in archives /\ (r.content = Tree[r.version] \/ Died(j))
        BY <1>1, <1>2, <1>3, <2>3 DEF WorkKnown
      <3>3. job[j].result # None /\ job[j].result.ok =>
              /\ job[j].result.content \in archives
              /\ job[j].result.content = Tree[job[j].result.version] \/ Died(j)
        BY DEF FetchInv, ArchiveMatchesSource, Died
      <3>4. job'[j].result # None /\ job'[j].result.ok =>
              /\ job'[j].result.content \in archives
              /\ job'[j].result.content = Tree[job'[j].result.version] \/ Died(j)
        BY <2>7, <3>2, <3>3
      <3> QED BY <1>1, <3>1, <3>4 DEF ArchiveMatchesSource, Died, FetchInv
    <2>14. ContainersAreRemoved'
      <3> SUFFICES ASSUME NEW b \in DOMAIN box, box[b] # "none", b \notin died
                   PROVE  \E g \in Fetchers : att'[g].pc \in {"boot", "wait", "copy", "remove"} /\ Attempt(g)' = b
        BY <1>1 DEF ContainersAreRemoved
      <3>1. PICK g \in Fetchers : att[g].pc \in {"boot", "wait", "copy", "remove"} /\ Attempt(g) = b
        BY DEF ContainersAreRemoved, FetchInv
      <3>2. g # f /\ att'[g] = att[g] /\ att[g].job \in Jobs
        BY <1>1, <1>4, <3>1, HasJob DEF Moves
      <3> QED BY <2>7, <3>1, <3>2 DEF Attempt
    <2> QED BY <2>8, <2>9, <2>10, <2>11, <2>12, <2>13, <2>14 DEF FetchInv
  <1> QED BY <1>6, <1>7

\* A worker that is done with its job, or dead, has left the disk clean or is on record.
LEMMA LeaveKeeps ==
  ASSUME NEW f \in Fetchers, NEW j \in Jobs, j = att[f].job, FetchInv, att[f].pc # "idle",
         Become(f, Resting),
         NEW s \in {"queued", "done", "dead"}, job' = [job EXCEPT ![j].state = s],
         UNCHANGED <<head, box, archives>>,
         ws' \in [Jobs -> SUBSET Files], \A k \in Jobs \ {j} : ws'[k] = ws[k],
         died \subseteq died', died' \subseteq Jobs \X (1..MaxDeliver),
         ws'[j] = {} \/ Died(j)',
         att[f].pc \in {"boot", "wait", "copy", "remove"} => Attempt(f) \in died'
  PROVE  FetchInv'
  <1>1. FetchTypeOK /\ OneWorker
    BY DEF FetchInv
  <1>2. job[j] \in JobRecords /\ job[j].state = "running"
    BY <1>1, HasJob DEF FetchTypeOK
  <1>3. job' = [job EXCEPT ![j] = [job[j] EXCEPT !.state = s]]
    BY <1>2
  <1> DEFINE new == [job[j] EXCEPT !.state = s]
  <1>4. /\ new \in JobRecords /\ new.state = s /\ new.project = job[j].project
        /\ new.tries = job[j].tries /\ new.result = job[j].result
    BY <1>2 DEF JobRecords
  <1>5. job' = [job EXCEPT ![j] = new]
    BY <1>3
  <1> HIDE DEF new
  <1>6. /\ job' \in [Jobs -> JobRecords]
        /\ \A k \in Jobs : job'[k].project = job[k].project /\ job'[k].tries = job[k].tries
                           /\ job'[k].result = job[k].result
        /\ \A k \in Jobs \ {j} : job'[k] = job[k]
        /\ job'[j].state = s
    <2>1. job' \in [Jobs -> JobRecords] /\ job'[j] = new /\ \A k \in Jobs \ {j} : job'[k] = job[k]
      BY <1>1, <1>4, <1>5 DEF FetchTypeOK
    <2> QED BY <1>4, <2>1
  <1>7. /\ att' \in [Fetchers -> Attempts] /\ att'[f].pc = "idle" /\ Emptied(f)
        /\ \A g \in Fetchers \ {f} : att'[g] = att[g]
    BY <1>1, RestEffect
  <1>8. \A g \in Fetchers \ {f} : att[g].pc # "idle" => att[g].job \in Jobs \ {j}
    BY <1>1, <1>2 DEF OneWorker
  <1>9. FetchTypeOK'
    BY <1>1, <1>6, <1>7 DEF FetchTypeOK
  <1>10. JobsAreNamed'
    <2>1. job[j].project \in Projects
      BY HasJob, <1>2
    <2> QED BY <1>6, <2>1 DEF JobsAreNamed, FetchInv
  <1>11. OneWorker'
    BY <1>1, <1>6, <1>7, <1>8 DEF OneWorker
  <1>12. DiskIsClean'
    <2>1. ASSUME NEW k \in Jobs \ {j}, job'[k].state # "running" PROVE ws'[k] = {} \/ Died(k)'
      BY <1>2, <1>6, <2>1 DEF DiskIsClean, Died, FetchInv
    <2> QED BY <1>2, <2>1 DEF DiskIsClean
  <1>13. WorkIsKnown'
    <2>1. WorkKnown(f)'
      BY <1>7 DEF WorkKnown, Before
    <2>2. ASSUME NEW g \in Fetchers, g # f PROVE WorkKnown(g)'
      <3>1. att'[g] = att[g] /\ WorkKnown(g)
        BY <1>7, <2>2 DEF FetchInv, WorkIsKnown
      <3>2. CASE att[g].pc = "idle"
        BY <3>1, <3>2 DEF WorkKnown, Before
      <3>3. CASE att[g].pc # "idle"
        <4>1. ws'[att[g].job] = ws[att[g].job]
          BY <1>2, <1>8, <2>2, <3>3
        <4>2. Died(att[g].job) => Died(att[g].job)'
          BY <3>1 DEF Died
        <4> QED BY <3>1, <4>1, <4>2 DEF WorkKnown
      <3> QED BY <3>2, <3>3
    <2> QED BY <2>1, <2>2 DEF WorkIsKnown
  <1>14. SourceIsKnown'
    BY <1>7 DEF SourceIsKnown, SourceKnown, Emptied, NoSource, FetchInv
  <1>15. ArchiveMatchesSource'
    BY <1>6 DEF ArchiveMatchesSource, FetchInv
  <1>16. ContainersAreRemoved'
    <2> SUFFICES ASSUME NEW b \in DOMAIN box, box[b] # "none", b \notin died'
                 PROVE  \E g \in Fetchers : att'[g].pc \in {"boot", "wait", "copy", "remove"} /\ Attempt(g)' = b
      BY DEF ContainersAreRemoved
    <2>1. PICK g \in Fetchers : att[g].pc \in {"boot", "wait", "copy", "remove"} /\ Attempt(g) = b
      BY DEF ContainersAreRemoved, FetchInv
    <2>2. g # f
      BY <2>1
    <2>3. att'[g] = att[g] /\ att[g].job \in Jobs
      BY <1>7, <1>8, <2>1, <2>2
    <2> QED BY <1>6, <2>1, <2>3 DEF Attempt
  <1> QED BY <1>9, <1>10, <1>11, <1>12, <1>13, <1>14, <1>15, <1>16 DEF FetchInv

\* The message is acknowledged, put back or dead.
LEMMA SettleKeeps == ASSUME NEW f \in Fetchers, FetchInv, Settle(f) PROVE FetchInv'
  <1>1. /\ att[f].pc = "settle" /\ Become(f, Resting) /\ UNCHANGED <<head, died, box, ws, archives>>
    BY DEF Settle, At
  <1>2. att[f].verdict \in {"ack", "retry", "term"} /\ WorkKnown(f) /\ FetchTypeOK
    BY DEF FetchInv, FetchTypeOK, Attempts, WorkIsKnown
  <1>3. PICK j \in Jobs : j = att[f].job
    BY <1>1, HasJob
  <1>4. PICK s \in {"queued", "done", "dead"} : job' = [job EXCEPT ![j].state = s]
    BY <1>2, <1>3 DEF Settle
  <1>5. ws[j] = {} \/ Died(j)
    BY <1>1, <1>2, <1>3 DEF WorkKnown
  <1>6. ws'[j] = {} \/ Died(j)'
    BY <1>1, <1>5 DEF Died
  <1> QED BY <1>1, <1>2, <1>3, <1>4, <1>6, LeaveKeeps DEF FetchTypeOK

\* The worker dies with a container and files left behind: its attempt is on record.
LEMMA CrashKeeps == ASSUME NEW f \in Fetchers, FetchInv, Crash(f) PROVE FetchInv'
  <1>1. /\ att[f].pc # "idle" /\ Become(f, Resting) /\ UNCHANGED <<head, box, archives>>
        /\ died' = died \cup {Attempt(f)}
    BY DEF Crash, At
  <1>2. FetchTypeOK /\ att[f] \in Attempts
    BY DEF FetchInv, FetchTypeOK
  <1>3. PICK j \in Jobs : /\ j = att[f].job /\ job[j].tries \in 1..MaxDeliver
                         /\ Attempt(f) = <<j, job[j].tries>>
    BY <1>1, HasJob DEF Attempt
  <1>4. PICK s \in {"queued", "done", "dead"} : job' = [job EXCEPT ![j].state = s]
    BY <1>3 DEF Crash
  <1>5. PICK some \in SUBSET Files : ws' = [ws EXCEPT ![j] = @ \cup some]
    <2>1. att[f].content \in SUBSET Files
      BY <1>2 DEF Attempts
    <2> QED BY <1>3, <2>1 DEF Crash
  <1>6. ws' \in [Jobs -> SUBSET Files] /\ \A k \in Jobs \ {j} : ws'[k] = ws[k]
    BY <1>2, <1>5 DEF FetchTypeOK
  <1>7. Died(j)'
    BY <1>1, <1>3 DEF Died
  <1>8. died' \subseteq Jobs \X (1..MaxDeliver)
    BY <1>1, <1>2, <1>3 DEF FetchTypeOK
  <1> QED BY <1>1, <1>3, <1>4, <1>6, <1>7, <1>8, LeaveKeeps

\* A delivery finds the job unattended and its disk clean, or a death on record.
LEMMA DeliverKeeps ==
  ASSUME NEW f \in Fetchers, NEW j \in Jobs, FetchInv, Deliver(f, j)
  PROVE  FetchInv'
  <1>1. /\ att[f].pc = "idle" /\ job[j].state = "queued" /\ job[j].tries < MaxDeliver
        /\ UNCHANGED <<head, box, ws, archives, died>>
    BY DEF Deliver, At
  <1>2. FetchTypeOK /\ OneWorker /\ job[j] \in JobRecords
    BY DEF FetchInv, FetchTypeOK
  <1> DEFINE new == [job[j] EXCEPT !.state = "running", !.tries = job[j].tries + 1]
             a == [Resting EXCEPT !.pc = "resolve", !.job = j]
  <1>3. /\ new \in JobRecords /\ new.state = "running" /\ new.project = job[j].project
        /\ new.tries = job[j].tries + 1 /\ new.result = job[j].result
    <2>1. job[j].tries \in Nat /\ MaxDeliver \in Nat /\ job[j].tries + 1 \in 0..MaxDeliver
      BY <1>1, <1>2 DEF JobRecords
    <2> QED BY <1>2, <2>1 DEF JobRecords
  <1>4. job' = [job EXCEPT ![j] = new] /\ Become(f, a)
    <2>1. /\ job' = [job EXCEPT ![j].state = "running", ![j].tries = job[j].tries + 1] /\ Become(f, a)
      BY <1>2 DEF Deliver, FetchTypeOK
    <2> QED BY <1>2, <2>1 DEF FetchTypeOK, JobRecords
  <1>5. /\ a \in Attempts /\ a.pc = "resolve" /\ a.job = j /\ a.src = NoSource /\ a.token = None
        /\ a.ok = FALSE
    BY RestingTyped DEF Resting, FetchPcs
  <1> HIDE DEF new, a
  <1>6. /\ job' \in [Jobs -> JobRecords] /\ job'[j] = new
        /\ \A k \in Jobs \ {j} : job'[k] = job[k]
    BY <1>2, <1>3, <1>4 DEF FetchTypeOK
  <1>7. /\ att' \in [Fetchers -> Attempts] /\ att'[f] = a
        /\ \A g \in Fetchers \ {f} : att'[g] = att[g]
    BY <1>2, <1>4, <1>5, BecomeEffect
  <1>8. \A g \in Fetchers : att[g].pc # "idle" => att[g].job \in Jobs \ {j}
    BY <1>1, <1>2 DEF OneWorker
  <1>9. FetchTypeOK'
    BY <1>1, <1>2, <1>6, <1>7 DEF FetchTypeOK
  <1>10. JobsAreNamed'
    BY <1>1, <1>3, <1>6 DEF JobsAreNamed, FetchInv
  <1>11. OneWorker'
    <2>1. job'[j].state = "running" /\ job'[j].tries > 0
      BY <1>2, <1>3, <1>6 DEF JobRecords
    <2>2. \A g \in Fetchers \ {f} : att'[g].pc # "idle" =>
            att'[g].job \in Jobs \ {j} /\ job'[att'[g].job].state = "running" /\ job'[att'[g].job].tries > 0
      BY <1>2, <1>6, <1>7, <1>8 DEF OneWorker
    <2> QED BY <1>2, <1>5, <1>7, <2>1, <2>2 DEF OneWorker
  <1>12. DiskIsClean'
    BY <1>1, <1>3, <1>6 DEF DiskIsClean, Died, FetchInv
  <1>13. WorkIsKnown'
    <2>1. WorkKnown(f)'
      BY <1>1, <1>5, <1>7 DEF WorkKnown, Before, Died, FetchInv, DiskIsClean
    <2>2. ASSUME NEW g \in Fetchers, g # f PROVE WorkKnown(g)'
      BY <1>1, <1>7, <2>2 DEF WorkKnown, Died, FetchInv, WorkIsKnown
    <2> QED BY <2>1, <2>2 DEF WorkIsKnown
  <1>14. SourceIsKnown'
    BY <1>5, <1>7 DEF SourceIsKnown, SourceKnown, NoSource, FetchInv
  <1>15. ArchiveMatchesSource'
    <2>1. \A k \in Jobs : job'[k].result = job[k].result
      BY <1>3, <1>6
    <2> QED BY <1>1, <2>1 DEF ArchiveMatchesSource, FetchInv
  <1>16. ContainersAreRemoved'
    <2> SUFFICES ASSUME NEW b \in DOMAIN box, box[b] # "none", b \notin died
                 PROVE  \E g \in Fetchers : att'[g].pc \in {"boot", "wait", "copy", "remove"} /\ Attempt(g)' = b
      BY <1>1 DEF ContainersAreRemoved
    <2>1. PICK g \in Fetchers : att[g].pc \in {"boot", "wait", "copy", "remove"} /\ Attempt(g) = b
      BY DEF ContainersAreRemoved, FetchInv
    <2>2. g # f /\ att'[g] = att[g] /\ att[g].job \in Jobs \ {j}
      BY <1>1, <1>7, <1>8, <2>1
    <2> QED BY <1>6, <2>1, <2>2 DEF Attempt
  <1> QED BY <1>9, <1>10, <1>11, <1>12, <1>13, <1>14, <1>15, <1>16 DEF FetchInv

\* A new job is of a project; a push moves a repository and nothing else.
LEMMA DispatchKeeps ==
  ASSUME NEW j \in Jobs, NEW p \in Projects, FetchInv, Dispatch(j, p)
  PROVE  FetchInv'
  <1>1. job[j].state = "none" /\ UNCHANGED <<head, att, box, ws, archives, died>>
    BY DEF Dispatch
  <1>2. FetchTypeOK /\ OneWorker /\ job[j] \in JobRecords
    BY DEF FetchInv, FetchTypeOK
  <1> DEFINE new == [job[j] EXCEPT !.state = "queued", !.project = p]
  <1>3. /\ new \in JobRecords /\ new.state = "queued" /\ new.project = p
        /\ new.tries = job[j].tries /\ new.result = job[j].result
    BY <1>2 DEF JobRecords
  <1>4. job' = [job EXCEPT ![j] = new]
    BY DEF Dispatch
  <1> HIDE DEF new
  <1>5. /\ job' \in [Jobs -> JobRecords] /\ job'[j] = new
        /\ \A k \in Jobs \ {j} : job'[k] = job[k]
    BY <1>2, <1>3, <1>4 DEF FetchTypeOK
  <1>6. \A g \in Fetchers : att[g].pc # "idle" => att[g].job \in Jobs \ {j}
    BY <1>1, <1>2 DEF OneWorker
  <1>7. FetchTypeOK'
    BY <1>1, <1>2, <1>5 DEF FetchTypeOK
  <1>8. JobsAreNamed'
    BY <1>3, <1>5 DEF JobsAreNamed, FetchInv
  <1>9. OneWorker'
    BY <1>1, <1>2, <1>5, <1>6 DEF OneWorker
  <1>10. DiskIsClean'
    BY <1>1, <1>3, <1>5 DEF DiskIsClean, Died, FetchInv
  <1>11. WorkIsKnown' /\ SourceIsKnown'
    BY <1>1 DEF WorkIsKnown, WorkKnown, Died, SourceIsKnown, SourceKnown, FetchInv
  <1>12. ArchiveMatchesSource'
    <2>1. \A k \in Jobs : job'[k].result = job[k].result
      BY <1>3, <1>5
    <2> QED BY <1>1, <2>1 DEF ArchiveMatchesSource, FetchInv
  <1>13. ContainersAreRemoved'
    <2> SUFFICES ASSUME NEW b \in DOMAIN box, box[b] # "none", b \notin died
                 PROVE  \E g \in Fetchers : att[g].pc \in {"boot", "wait", "copy", "remove"} /\ Attempt(g)' = b
      BY <1>1 DEF ContainersAreRemoved
    <2>1. PICK g \in Fetchers : att[g].pc \in {"boot", "wait", "copy", "remove"} /\ Attempt(g) = b
      BY DEF ContainersAreRemoved, FetchInv
    <2> QED BY <1>1, <1>5, <1>6, <2>1 DEF Attempt
  <1> QED BY <1>7, <1>8, <1>9, <1>10, <1>11, <1>12, <1>13 DEF FetchInv

LEMMA PushKeeps == ASSUME NEW u \in Urls, FetchInv, Push(u) PROVE FetchInv'
  <1>1. head' \in [Urls -> Versions] /\ UNCHANGED <<job, att, box, ws, archives, died>>
    BY DEF Push, FetchInv, FetchTypeOK
  <1> QED BY <1>1, ZenonT(60) DEF FetchInv, FetchTypeOK, JobsAreNamed, OneWorker, DiskIsClean, WorkIsKnown, WorkKnown,
                      Died, SourceIsKnown, SourceKnown, ArchiveMatchesSource, ContainersAreRemoved, Attempt

\* The project service leaves the fetcher alone.
LEMMA FetchRests == ASSUME FetchInv, UNCHANGED fetchVars PROVE FetchInv'
  BY ZenonT(60) DEF FetchInv, fetchVars, FetchTypeOK, JobsAreNamed, OneWorker, DiskIsClean, WorkIsKnown, WorkKnown,
         Died, SourceIsKnown, SourceKnown, ArchiveMatchesSource, ContainersAreRemoved, Attempt

\* And the fetcher leaves the project service alone.
LEMMA StoreRests == ASSUME StoreInv, UNCHANGED storeVars PROVE StoreInv'
  BY DEF StoreInv, storeVars, StoreTypeOK, RequestsAreNamed, KindIsKnown, LockIsHeld, AskedFor, VaultIsHome,
         TokensAreHome, BytesFirst, StoreIsConsistent, WholeUpdate, RefNamesSecret, UploadHasBytes,
         VaultGet, Path

(***************************************************************************)
(* The theorems                                                            *)
(***************************************************************************)
LEMMA FetchInvInit == ASSUME Init PROVE FetchInv
  <1>1. Resting \in Attempts /\ NoSource \in SourceRecords
    BY RestingTyped DEF FetchPcs, NoSource, SourceRecords
  <1>2. [state |-> "none", project |-> None, tries |-> 0, result |-> None] \in JobRecords
    BY DEF JobRecords
  <1>3. /\ att \in [Fetchers -> Attempts] /\ job \in [Jobs -> JobRecords]
    BY <1>1, <1>2 DEF Init
  <1>4. FetchTypeOK
    BY <1>3 DEF Init, FetchTypeOK
  <1>5. \A f \in Fetchers : att[f] = Resting
    BY DEF Init
  <1>6. \A j \in Jobs : job[j].state = "none" /\ job[j].result = None /\ ws[j] = {}
    BY DEF Init
  <1>7. JobsAreNamed /\ DiskIsClean /\ ArchiveMatchesSource
    BY <1>6 DEF JobsAreNamed, DiskIsClean, ArchiveMatchesSource
  <1>8. OneWorker /\ WorkIsKnown /\ SourceIsKnown
    BY <1>5 DEF OneWorker, WorkIsKnown, WorkKnown, SourceIsKnown, SourceKnown, Before, Resting, NoSource
  <1>9. ContainersAreRemoved
    BY DEF Init, ContainersAreRemoved
  <1> QED BY <1>4, <1>7, <1>8, <1>9, SMTT(60) DEF FetchInv

\* One worker's step.
LEMMA WorkKeeps == ASSUME NEW f \in Fetchers, FetchInv, StoreInv, Work(f) PROVE FetchInv' /\ UNCHANGED storeVars
  <1>1. FetchInv'
    BY DeliverKeeps, ResolveKeeps, CredentialKeeps, CreateBoxKeeps, StartBoxKeeps, WallClockKeeps,
       CopyOutKeeps, RemoveBoxKeeps, ReadUploadKeeps, ExtractKeeps, CreateArchiveKeeps, PublishKeeps,
       CleanKeeps, SettleKeeps DEF Work
  <1>2. UNCHANGED storeVars
    <2>1. CASE \E j \in Jobs : Deliver(f, j)
      BY <2>1 DEF Deliver
    <2>2. CASE Resolve(f)
      BY <2>2 DEF Resolve
    <2>3. CASE Credential(f)
      BY <2>3 DEF Credential
    <2>4. CASE CreateBox(f)
      BY <2>4 DEF CreateBox
    <2>5. CASE StartBox(f)
      BY <2>5 DEF StartBox
    <2>6. CASE WallClock(f)
      BY <2>6 DEF WallClock
    <2>7. CASE CopyOut(f)
      BY <2>7 DEF CopyOut
    <2>8. CASE RemoveBox(f)
      BY <2>8 DEF RemoveBox
    <2>9. CASE ReadUpload(f)
      BY <2>9 DEF ReadUpload
    <2>10. CASE Extract(f)
      BY <2>10 DEF Extract
    <2>11. CASE CreateArchive(f)
      BY <2>11 DEF CreateArchive
    <2>12. CASE Publish(f)
      BY <2>12 DEF Publish
    <2>13. CASE Clean(f)
      BY <2>13 DEF Clean
    <2>14. CASE Settle(f)
      BY <2>14 DEF Settle
    <2> QED
      BY <2>1, <2>2, <2>3, <2>4, <2>5, <2>6, <2>7, <2>8, <2>9, <2>10, <2>11, <2>12, <2>13, <2>14 DEF Work
  <1> QED BY <1>1, <1>2

LEMMA SourcesStay == Spec => [](StoreInv /\ FetchInv)
  <1>1. Init => StoreInv /\ FetchInv
    BY StoreInvInit, FetchInvInit DEF Init
  <1>2. StoreInv /\ FetchInv /\ [Next]_vars => StoreInv' /\ FetchInv'
    <2> SUFFICES ASSUME StoreInv, FetchInv, [Next]_vars PROVE StoreInv' /\ FetchInv'
      OBVIOUS
    <2>1. CASE StoreNext /\ UNCHANGED fetchVars
      BY <2>1, StoreNextKeeps, FetchRests
    <2>2. CASE \E j \in Jobs, p \in Projects : Dispatch(j, p)
      BY <2>2, DispatchKeeps, StoreRests DEF Dispatch
    <2>3. CASE \E u \in Urls : Push(u)
      BY <2>3, PushKeeps, StoreRests DEF Push
    <2>4. ASSUME NEW f \in Fetchers, Work(f) PROVE StoreInv' /\ FetchInv'
      BY <2>4, WorkKeeps, StoreRests
    <2>5. ASSUME NEW f \in Fetchers, GitExits(f) \/ Retry(f) \/ Crash(f) PROVE StoreInv' /\ FetchInv'
      <3>1. UNCHANGED storeVars
        BY <2>5 DEF GitExits, Retry, Crash
      <3> QED BY <2>5, <3>1, GitExitsKeeps, RetryKeeps, CrashKeeps, StoreRests
    <2>6. CASE UNCHANGED vars
      BY <2>6, StoreRests, FetchRests DEF vars
    <2> QED BY <2>1, <2>2, <2>3, <2>4, <2>5, <2>6 DEF Next
  <1> QED BY <1>1, <1>2, PTL DEF Spec

\* UpdateProject, Connect, CreateUpload: the name and the types of a project were asked for
\* together, a connection that refers to a secret has one, a row of an upload has its
\* bytes, whatever requests overlap and whoever dies between two steps.
THEOREM StoreConsistent == Spec => []StoreIsConsistent
  <1>1. StoreInv => StoreIsConsistent
    BY DEF StoreInv
  <1> QED BY <1>1, SourcesStay, PTL

\* CreateArchive, credential, Runner.Run: what is archived is the version that the result
\* names, all of it and nothing else, unless an attempt died over it, a container gets no
\* token but one for the repository it clones, and it outlives its run only when the
\* worker over it died; for any number of workers, crashes and pushes.
THEOREM FetchHonest == Spec => []FetchIsHonest
  <1>1. FetchInv => FetchIsHonest
    <2> SUFFICES ASSUME FetchInv PROVE FetchIsHonest
      OBVIOUS
    <2>1. TokenGoesHome
      BY DEF FetchInv, SourceIsKnown, SourceKnown, TokenGoesHome
    <2> QED BY <2>1 DEF FetchInv, FetchIsHonest
  <1> QED BY <1>1, SourcesStay, PTL

-----------------------------------------------------------------------------
(***************************************************************************)
(* WebDiscovery                                                            *)
(***************************************************************************)
\* The steps of a scan's engine that come after it was handed a document.
HandedOver == {"queued", "unavailable", "partial", "succeeded"}

\* What is at job j's key is what hosts says, unless a later delivery overwrote it.
Kept(j, hosts) ==
  document[j] # Nothing /\ (document[j].hosts = hosts \/ j \in overtaken)

WebShape ==
  /\ DOMAIN recon = Recons /\ DOMAIN webJob = ReconJobs
  /\ DOMAIN document = ReconJobs /\ DOMAIN webScan = ReconJobs
  /\ \A w \in Recons : /\ DOMAIN recon[w] = {"pc", "job", "hosts", "doc", "ok", "verdict"}
                       /\ recon[w].ok \in BOOLEAN
                       /\ recon[w].verdict \in {"ack", "retry", "term"}
  /\ \A j \in ReconJobs :
       /\ DOMAIN webJob[j] = {"state", "tries", "result"}
       /\ DOMAIN webScan[j] = {"pc", "tries", "started", "rows", "engine", "read",
                               "claimed", "components", "found"}

\* A worker that says it stored a document did, and nobody else's object is there.
WorkerStored(w) ==
  /\ recon[w].pc # "idle" => recon[w].job \in ReconJobs
  /\ recon[w].ok => recon[w].pc = "report" /\ Kept(recon[w].job, recon[w].doc)

\* A published document is stored.
ResultStored(j) ==
  webJob[j].result = Nothing \/ webJob[j].result.status = "failed"
  \/ (webJob[j].result.status = "succeeded" /\ Kept(j, webJob[j].result.hosts))

\* The rows of a scan all say what the one result of its job says.
ScanRecorded(j) ==
  LET s == webScan[j]
      r == webJob[j].result
  IN /\ s.rows \in Seq({r.hosts})
     /\ s.rows # <<>> => r.status = "succeeded"
     /\ s.pc \in {"record", "fanout"} => s.started = TRUE /\ r.status = "succeeded"
     /\ s.engine \in HandedOver => s.started = TRUE /\ s.rows # <<>>
     /\ s.read # Nothing => /\ s.engine \in HandedOver
                            /\ s.read.hosts = r.hosts \/ j \in overtaken

WebInv ==
  /\ WebShape
  /\ \A w \in Recons : WorkerStored(w)
  /\ \A j \in ReconJobs : ResultStored(j) /\ ScanRecorded(j)

LEMMA WebInvImplies == WebInv => DocumentStands
<1> SUFFICES ASSUME WebInv, NEW j \in ReconJobs, webScan[j].engine \in HandedOver
             PROVE  /\ webScan[j].started /\ webScan[j].rows # <<>> /\ j \in Stored
                    /\ webScan[j].read # Nothing =>
                         webScan[j].read.hosts = webScan[j].rows[1] \/ j \in overtaken
  BY DEF DocumentStands, HandedOver
<1>1. /\ webScan[j].started = TRUE /\ webScan[j].rows # <<>>
      /\ webScan[j].rows \in Seq({webJob[j].result.hosts})
      /\ webJob[j].result.status = "succeeded"
      /\ webScan[j].read # Nothing => webScan[j].read.hosts = webJob[j].result.hosts \/ j \in overtaken
  BY DEF WebInv, ScanRecorded
<1>2. webScan[j].rows[1] = webJob[j].result.hosts
  BY <1>1
<1>3. j \in Stored
  BY <1>1 DEF WebInv, ResultStored, Kept, Stored, Nothing
<1> QED
  BY <1>1, <1>2, <1>3

LEMMA WebInvHoldsInitially == WebInit => WebInv
<1> SUFFICES ASSUME WebInit PROVE WebInv
  OBVIOUS
<1>1. WebShape
  BY DEF WebInit, WebShape, Resigned
<1>2. \A w \in Recons : WorkerStored(w)
  BY DEF WebInit, WorkerStored, Resigned
<1>3. \A j \in ReconJobs : ResultStored(j)
  BY DEF WebInit, ResultStored
<1>4. ASSUME NEW j \in ReconJobs PROVE ScanRecorded(j)
  <2>1. /\ webScan[j].rows = <<>> /\ webScan[j].pc = "wait" /\ webScan[j].engine = "held"
        /\ webScan[j].read = Nothing
    BY DEF WebInit
  <2> QED
    BY <2>1 DEF ScanRecorded, HandedOver
<1> QED
  BY <1>1, <1>2, <1>3, <1>4 DEF WebInv

\* A worker's step that leaves job, document and scan alone and drops what the
\* worker said it stored, or never said it.
LEMMA WorkerMovesOn ==
  ASSUME WebInv, NEW w \in Recons, NEW a,
         DOMAIN a = {"pc", "job", "hosts", "doc", "ok", "verdict"},
         a.pc # "idle" => a.job \in ReconJobs, a.ok = FALSE,
         a.verdict \in {"ack", "retry", "term"},
         recon' = [recon EXCEPT ![w] = a],
         DOMAIN webJob' = ReconJobs,
         \A j \in ReconJobs : /\ DOMAIN webJob'[j] = {"state", "tries", "result"}
                              /\ webJob'[j].result = webJob[j].result,
         UNCHANGED <<document, webScan, overtaken>>
  PROVE  WebInv'
<1>1. WebShape'
  BY DEF WebInv, WebShape
<1>2. ASSUME NEW v \in Recons PROVE WorkerStored(v)'
  <2>1. CASE v = w
    BY <2>1 DEF WebInv, WebShape, WorkerStored
  <2>2. CASE v # w
    <3>1. recon'[v] = recon[v]
      BY <2>2 DEF WebInv, WebShape
    <3> QED
      BY <3>1 DEF WebInv, WorkerStored, Kept
  <2> QED
    BY <2>1, <2>2
<1>3. ASSUME NEW j \in ReconJobs PROVE ResultStored(j)' /\ ScanRecorded(j)'
  <2>1. webJob'[j].result = webJob[j].result
    OBVIOUS
  <2>2. ResultStored(j) /\ ScanRecorded(j)
    BY DEF WebInv
  <2>3. ResultStored(j)'
    BY <2>1, <2>2 DEF ResultStored, Kept, Nothing
  <2>4. ScanRecorded(j)'
    BY <2>1, <2>2 DEF ScanRecorded, HandedOver, Nothing
  <2> QED
    BY <2>3, <2>4
<1> QED
  BY <1>1, <1>2, <1>3 DEF WebInv

\* What every step of a worker finds.
LEMMA WorkerFacts ==
  ASSUME WebInv, NEW w \in Recons
  PROVE  /\ DOMAIN recon = Recons /\ DOMAIN webJob = ReconJobs
         /\ \A j \in ReconJobs : DOMAIN webJob[j] = {"state", "tries", "result"}
         /\ DOMAIN recon[w] = {"pc", "job", "hosts", "doc", "ok", "verdict"}
         /\ recon[w].pc # "idle" => recon[w].job \in ReconJobs
         /\ recon[w].pc # "report" => recon[w].ok = FALSE
         /\ recon[w].verdict \in {"ack", "retry", "term"}
<1>1. recon[w].ok \in BOOLEAN /\ (recon[w].ok => recon[w].pc = "report")
  BY DEF WebInv, WebShape, WorkerStored
<1>2. recon[w].pc # "report" => recon[w].ok = FALSE
  BY <1>1
<1> QED
  BY <1>2 DEF WebInv, WebShape, WorkerStored

LEMMA TakeJobKeepsWeb ==
  ASSUME WebInv, NEW w \in Recons, NEW j \in ReconJobs, TakeJob(w, j)
  PROVE  WebInv'
<1> DEFINE a == [Resigned EXCEPT !.pc = "resolve", !.job = j]
<1>1. recon' = [recon EXCEPT ![w] = a] /\ UNCHANGED <<document, webScan, overtaken>>
  BY DEF TakeJob, Now
<1>2. /\ DOMAIN a = {"pc", "job", "hosts", "doc", "ok", "verdict"}
      /\ a.job = j /\ a.ok = FALSE /\ a.verdict \in {"ack", "retry", "term"}
  BY DEF Resigned
<1>3. /\ DOMAIN webJob' = ReconJobs
      /\ \A k \in ReconJobs : /\ DOMAIN webJob'[k] = {"state", "tries", "result"}
                              /\ webJob'[k].result = webJob[k].result
  BY WorkerFacts DEF TakeJob
<1> HIDE DEF a
<1> QED
  BY <1>1, <1>2, <1>3, WorkerMovesOn

LEMMA ResolveWebKeepsWeb ==
  ASSUME WebInv, NEW w \in Recons, ResolveWeb(w)
  PROVE  WebInv'
<1> DEFINE a == IF webSource[recon[w].job].kind = "url" THEN [recon[w] EXCEPT !.pc = "hosts"]
                ELSE [Resigned EXCEPT !.pc = "report", !.job = recon[w].job]
<1>1. /\ recon[w].pc = "resolve" /\ recon' = [recon EXCEPT ![w] = a]
      /\ UNCHANGED <<webJob, document, webScan, overtaken>>
  BY DEF ResolveWeb, Now, GiveUp, Doing
<1>2. /\ DOMAIN a = {"pc", "job", "hosts", "doc", "ok", "verdict"}
      /\ a.job = recon[w].job /\ a.ok = FALSE /\ a.verdict \in {"ack", "retry", "term"}
  BY <1>1, WorkerFacts DEF Resigned
<1> HIDE DEF a
<1> QED
  BY <1>1, <1>2, WorkerFacts, WorkerMovesOn

LEMMA TryLaterKeepsWeb ==
  ASSUME WebInv, NEW w \in Recons, TryLater(w)
  PROVE  WebInv'
<1> DEFINE a == [Resigned EXCEPT !.pc = "settle", !.job = recon[w].job, !.verdict = "retry"]
<1>1. /\ recon[w].pc # "idle" /\ recon' = [recon EXCEPT ![w] = a]
      /\ UNCHANGED <<webJob, document, webScan, overtaken>>
  BY DEF TryLater, Now
<1>2. /\ DOMAIN a = {"pc", "job", "hosts", "doc", "ok", "verdict"}
      /\ a.job = recon[w].job /\ a.ok = FALSE /\ a.verdict \in {"ack", "retry", "term"}
  BY DEF Resigned
<1> HIDE DEF a
<1> QED
  BY <1>1, <1>2, WorkerFacts, WorkerMovesOn

LEMMA ResolveHostsKeepsWeb ==
  ASSUME WebInv, NEW w \in Recons, ResolveHosts(w)
  PROVE  WebInv'
<1>1. PICK hosts : recon' = [recon EXCEPT ![w] = [recon[w] EXCEPT !.pc = "fetch", !.hosts = hosts]]
  BY DEF ResolveHosts, Now
<1>2. recon[w].pc = "hosts" /\ UNCHANGED <<webJob, document, webScan, overtaken>>
  BY DEF ResolveHosts, Doing
<1> DEFINE a == [recon[w] EXCEPT !.pc = "fetch", !.hosts = hosts]
<1>3. /\ DOMAIN a = {"pc", "job", "hosts", "doc", "ok", "verdict"}
      /\ a.job = recon[w].job /\ a.ok = FALSE /\ a.verdict \in {"ack", "retry", "term"}
  BY <1>2, WorkerFacts
<1> HIDE DEF a
<1> QED
  BY <1>1, <1>2, <1>3, WorkerFacts, WorkerMovesOn DEF a

LEMMA FingerprintHostKeepsWeb ==
  ASSUME WebInv, NEW w \in Recons, FingerprintHost(w)
  PROVE  WebInv'
<1>1. PICK doc, pc : pc \in {"store", "fetch"}
                     /\ recon' = [recon EXCEPT ![w] = [recon[w] EXCEPT !.doc = doc, !.pc = pc]]
  BY ZenonT(60) DEF FingerprintHost, Now
<1>2. recon[w].pc = "fetch" /\ UNCHANGED <<webJob, document, webScan, overtaken>>
  BY DEF FingerprintHost, Doing
<1> DEFINE a == [recon[w] EXCEPT !.doc = doc, !.pc = pc]
<1>3. /\ DOMAIN a = {"pc", "job", "hosts", "doc", "ok", "verdict"}
      /\ a.job = recon[w].job /\ a.ok = FALSE /\ a.verdict \in {"ack", "retry", "term"}
  BY <1>2, WorkerFacts
<1> HIDE DEF a
<1> QED
  BY <1>1, <1>2, <1>3, WorkerFacts, WorkerMovesOn DEF a

LEMMA SettleWebKeepsWeb ==
  ASSUME WebInv, NEW w \in Recons, SettleWeb(w)
  PROVE  WebInv'
<1>1. recon' = [recon EXCEPT ![w] = Resigned] /\ UNCHANGED <<document, webScan, overtaken>>
  BY DEF SettleWeb, Now
<1>2. \E state : webJob' = [webJob EXCEPT ![recon[w].job].state = state]
  <2>1. CASE recon[w].verdict = "ack"
    BY <2>1 DEF SettleWeb
  <2>2. CASE recon[w].verdict = "retry"
    BY <2>2 DEF SettleWeb
  <2>3. CASE recon[w].verdict = "term"
    BY <2>3 DEF SettleWeb
  <2> QED
    BY <2>1, <2>2, <2>3, WorkerFacts
<1>3. /\ DOMAIN webJob' = ReconJobs
      /\ \A k \in ReconJobs : /\ DOMAIN webJob'[k] = {"state", "tries", "result"}
                              /\ webJob'[k].result = webJob[k].result
  <2>1. PICK state : webJob' = [webJob EXCEPT ![recon[w].job].state = state]
    BY <1>2
  <2>2. ASSUME NEW k \in ReconJobs
        PROVE  /\ DOMAIN webJob'[k] = {"state", "tries", "result"}
               /\ webJob'[k].result = webJob[k].result
    BY <2>1, WorkerFacts, ZenonT(60)
  <2> QED
    BY <2>1, <2>2, WorkerFacts
<1>4. /\ DOMAIN Resigned = {"pc", "job", "hosts", "doc", "ok", "verdict"}
      /\ Resigned.pc = "idle" /\ Resigned.ok = FALSE /\ Resigned.verdict \in {"ack", "retry", "term"}
  BY DEF Resigned
<1> QED
  BY <1>1, <1>3, <1>4, WorkerMovesOn

LEMMA ReconDiesKeepsWeb ==
  ASSUME WebInv, NEW w \in Recons, ReconDies(w)
  PROVE  WebInv'
<1>1. recon' = [recon EXCEPT ![w] = Resigned] /\ UNCHANGED <<document, webScan, overtaken>>
  BY DEF ReconDies, Now
<1>2. \E state : webJob' = [webJob EXCEPT ![recon[w].job].state = state]
  BY DEF ReconDies
<1>3. /\ DOMAIN webJob' = ReconJobs
      /\ \A k \in ReconJobs : /\ DOMAIN webJob'[k] = {"state", "tries", "result"}
                              /\ webJob'[k].result = webJob[k].result
  <2>1. PICK state : webJob' = [webJob EXCEPT ![recon[w].job].state = state]
    BY <1>2
  <2>2. ASSUME NEW k \in ReconJobs
        PROVE  /\ DOMAIN webJob'[k] = {"state", "tries", "result"}
               /\ webJob'[k].result = webJob[k].result
    BY <2>1, WorkerFacts, ZenonT(60)
  <2> QED
    BY <2>1, <2>2, WorkerFacts
<1>4. /\ DOMAIN Resigned = {"pc", "job", "hosts", "doc", "ok", "verdict"}
      /\ Resigned.pc = "idle" /\ Resigned.ok = FALSE /\ Resigned.verdict \in {"ack", "retry", "term"}
  BY DEF Resigned
<1> QED
  BY <1>1, <1>3, <1>4, WorkerMovesOn

\* An object that is overwritten is one whose job is from then on overtaken.
LEMMA StoreDocumentKeepsWeb ==
  ASSUME WebInv, NEW w \in Recons, StoreDocument(w)
  PROVE  WebInv'
<1> DEFINE i == recon[w].job
           a == [recon[w] EXCEPT !.pc = "report", !.ok = TRUE]
<1>1. /\ recon[w].pc = "store" /\ recon' = [recon EXCEPT ![w] = a]
      /\ document' = [document EXCEPT ![i] = [status |-> "stored", hosts |-> recon[w].doc]]
      /\ overtaken' = overtaken \cup (IF document[i] = Nothing THEN {} ELSE {i})
      /\ UNCHANGED <<webJob, webScan>>
  BY DEF StoreDocument, Doing, Now
<1>2. /\ DOMAIN a = {"pc", "job", "hosts", "doc", "ok", "verdict"}
      /\ a.job = i /\ a.pc = "report" /\ a.doc = recon[w].doc /\ a.ok = TRUE /\ i \in ReconJobs
      /\ a.verdict \in {"ack", "retry", "term"}
  BY <1>1, WorkerFacts
<1> HIDE DEF a
<1>3. WebShape'
  BY <1>1, <1>2 DEF WebInv, WebShape
<1>4. DOMAIN document = ReconJobs
  BY DEF WebInv, WebShape
<1>5. ASSUME NEW j, NEW hosts, Kept(j, hosts), j \in ReconJobs PROVE Kept(j, hosts)'
  <2>1. CASE j = i
    BY <1>1, <1>2, <1>4, <1>5, <2>1 DEF Kept, Nothing
  <2>2. CASE j # i
    BY <1>1, <1>2, <1>4, <1>5, <2>2 DEF Kept
  <2> QED
    BY <2>1, <2>2
<1>6. ASSUME NEW v \in Recons PROVE WorkerStored(v)'
  <2>1. CASE v = w
    <3>1. recon'[v] = a
      BY <1>1, <2>1, WorkerFacts
    <3>2. document'[i] # Nothing /\ document'[i].hosts = a.doc
      BY <1>1, <1>2, <1>4 DEF Nothing
    <3> QED
      BY <1>2, <3>1, <3>2 DEF WorkerStored, Kept
  <2>2. CASE v # w
    <3>1. recon'[v] = recon[v]
      BY <1>1, <2>2, WorkerFacts
    <3>2. WorkerStored(v)
      BY DEF WebInv
    <3>3. ASSUME recon[v].ok PROVE Kept(recon[v].job, recon[v].doc)'
      <4>1. Kept(recon[v].job, recon[v].doc) /\ recon[v].job \in ReconJobs
        BY <3>2, <3>3 DEF WorkerStored
      <4>2. \A j, hosts : Kept(j, hosts) /\ j \in ReconJobs
                          => (document'[j] # Nothing /\ (document'[j].hosts = hosts \/ j \in overtaken'))
        BY <1>5 DEF Kept
      <4>3. /\ document'[recon[v].job] # Nothing
            /\ document'[recon[v].job].hosts = recon[v].doc \/ recon[v].job \in overtaken'
        BY <4>1, <4>2
      <4> QED
        BY <3>1, <4>3 DEF Kept
    <3> QED
      BY <3>1, <3>2, <3>3 DEF WorkerStored, Kept
  <2> QED
    BY <2>1, <2>2
<1>7. ASSUME NEW j \in ReconJobs PROVE ResultStored(j)' /\ ScanRecorded(j)'
  <2>1. ResultStored(j) /\ ScanRecorded(j)
    BY DEF WebInv
  <2>2. Kept(j, webJob[j].result.hosts) =>
          document'[j] # Nothing /\ (document'[j].hosts = webJob[j].result.hosts \/ j \in overtaken')
    BY <1>5 DEF Kept
  <2>3. ResultStored(j)'
    BY <1>1, <2>1, <2>2 DEF ResultStored, Kept
  <2>4. j \in overtaken => j \in overtaken'
    BY <1>1
  <2>5. webJob' = webJob /\ webScan' = webScan
    BY <1>1
  <2>6. ScanRecorded(j)'
    BY <2>1, <2>4, <2>5 DEF ScanRecorded, HandedOver
  <2> QED
    BY <2>3, <2>6
<1> QED
  BY <1>3, <1>6, <1>7 DEF WebInv

\* The first result stands, and one that says succeeded is what the worker stored.
LEMMA PublishDocumentKeepsWeb ==
  ASSUME WebInv, NEW w \in Recons, PublishDocument(w)
  PROVE  WebInv'
<1> DEFINE i == recon[w].job
           result == IF recon[w].ok THEN [status |-> "succeeded", hosts |-> recon[w].doc]
                     ELSE [status |-> "failed"]
           a == [Resigned EXCEPT !.pc = "settle", !.job = i]
           b == [Resigned EXCEPT !.pc = "settle", !.job = i, !.verdict = "term"]
<1>1. /\ recon[w].pc = "report" /\ UNCHANGED <<document, webScan, overtaken>>
      /\ \/ /\ webJob' = [webJob EXCEPT ![i].result = IF @ = Nothing THEN result ELSE @]
            /\ recon' = [recon EXCEPT ![w] = a]
         \/ recon' = [recon EXCEPT ![w] = b] /\ UNCHANGED webJob
  BY DEF PublishDocument, Doing, Now
<1>2. /\ DOMAIN a = {"pc", "job", "hosts", "doc", "ok", "verdict"}
      /\ a.job = i /\ a.ok = FALSE /\ a.verdict = "ack"
  BY DEF Resigned
<1>3. /\ DOMAIN b = {"pc", "job", "hosts", "doc", "ok", "verdict"}
      /\ b.job = i /\ b.ok = FALSE /\ b.verdict = "term"
  BY DEF Resigned
<1>4. i \in ReconJobs /\ WorkerStored(w) /\ recon[w].ok \in BOOLEAN
  BY <1>1, WorkerFacts DEF WebInv, WebShape
<1>5. /\ result.status \in {"succeeded", "failed"}
      /\ result.status = "succeeded" => Kept(i, result.hosts)
  <2>1. CASE recon[w].ok
    BY <1>4, <2>1 DEF WorkerStored
  <2>2. CASE ~ recon[w].ok
    BY <2>2
  <2> QED
    BY <2>1, <2>2
<1> HIDE DEF a, b, result
<1>6. CASE recon' = [recon EXCEPT ![w] = b] /\ UNCHANGED webJob
  BY <1>1, <1>3, <1>4, <1>6, WorkerFacts, WorkerMovesOn
<1>7. CASE /\ webJob' = [webJob EXCEPT ![i].result = IF @ = Nothing THEN result ELSE @]
           /\ recon' = [recon EXCEPT ![w] = a]
  <2>1. \A k \in ReconJobs :
          /\ DOMAIN webJob'[k] = {"state", "tries", "result"}
          /\ webJob'[k].result = IF k = i /\ webJob[k].result = Nothing THEN result
                                 ELSE webJob[k].result
    <3>1. ASSUME NEW k \in ReconJobs, k = i
          PROVE  /\ DOMAIN webJob'[k] = {"state", "tries", "result"}
                 /\ webJob'[k].result = IF webJob[k].result = Nothing THEN result
                                        ELSE webJob[k].result
      BY <1>7, <3>1, WorkerFacts, ZenonT(60)
    <3>2. ASSUME NEW k \in ReconJobs, k # i PROVE webJob'[k] = webJob[k]
      BY <1>7, <3>2, WorkerFacts
    <3> QED
      BY <3>1, <3>2, WorkerFacts
  <2>2. WebShape'
    BY <1>1, <1>2, <1>7, <2>1 DEF WebInv, WebShape
  <2>3. ASSUME NEW v \in Recons PROVE WorkerStored(v)'
    <3>1. CASE v = w
      BY <1>2, <1>4, <1>7, <3>1, WorkerFacts DEF WorkerStored
    <3>2. CASE v # w
      <4>1. recon'[v] = recon[v]
        BY <1>7, <3>2, WorkerFacts
      <4> QED
        BY <1>1, <4>1 DEF WebInv, WorkerStored, Kept
    <3> QED
      BY <3>1, <3>2
  <2>4. ASSUME NEW j \in ReconJobs PROVE ResultStored(j)' /\ ScanRecorded(j)'
    <3>1. ResultStored(j) /\ ScanRecorded(j)
      BY DEF WebInv
    <3>2. CASE j = i /\ webJob[j].result = Nothing
      <4>1. webJob'[j].result = result
        BY <2>1, <3>2
      <4>2. ResultStored(j)'
        BY <1>1, <1>5, <3>2, <4>1 DEF ResultStored, Kept
      <4>3. /\ webScan[j].rows = <<>> /\ webScan[j].pc \notin {"record", "fanout"}
            /\ webScan[j].engine \notin HandedOver
        BY <3>1, <3>2 DEF ScanRecorded, Nothing
      <4>4. webScan[j].read = Nothing
        BY <3>1, <3>2, <4>3 DEF ScanRecorded
      <4>5. ScanRecorded(j)'
        BY <1>1, <4>3, <4>4 DEF ScanRecorded, HandedOver, Nothing
      <4> QED
        BY <4>2, <4>5
    <3>3. CASE ~ (j = i /\ webJob[j].result = Nothing)
      <4>1. webJob'[j].result = webJob[j].result
        BY <2>1, <3>3
      <4>2. ResultStored(j)'
        BY <1>1, <3>1, <4>1 DEF ResultStored, Kept
      <4>3. ScanRecorded(j)'
        BY <1>1, <3>1, <4>1 DEF ScanRecorded, HandedOver
      <4> QED
        BY <4>2, <4>3
    <3> QED
      BY <3>2, <3>3
  <2> QED
    BY <2>2, <2>3, <2>4 DEF WebInv
<1> QED
  BY <1>1, <1>6, <1>7

-----------------------------------------------------------------------------
\* A step of one scan.
LEMMA ScanMovesOn ==
  ASSUME WebInv, NEW i \in ReconJobs, NEW s, Scan(i, s),
         DOMAIN s = {"pc", "tries", "started", "rows", "engine", "read",
                     "claimed", "components", "found"},
         s.rows \in Seq({webJob[i].result.hosts}),
         s.rows # <<>> => webJob[i].result.status = "succeeded",
         s.pc \in {"record", "fanout"} =>
           s.started = TRUE /\ webJob[i].result.status = "succeeded",
         s.engine \in HandedOver => s.started = TRUE /\ s.rows # <<>>,
         s.read # Nothing => /\ s.engine \in HandedOver
                             /\ s.read.hosts = webJob[i].result.hosts \/ i \in overtaken
  PROVE  WebInv'
<1>1. /\ webScan' = [webScan EXCEPT ![i] = s]
      /\ UNCHANGED <<recon, webJob, document, overtaken>>
  BY DEF Scan
<1>2. WebShape'
  BY <1>1 DEF WebInv, WebShape
<1>3. ASSUME NEW w \in Recons PROVE WorkerStored(w)'
  BY <1>1 DEF WebInv, WorkerStored, Kept
<1>4. ASSUME NEW j \in ReconJobs PROVE ResultStored(j)' /\ ScanRecorded(j)'
  <2>1. ResultStored(j)'
    BY <1>1 DEF WebInv, ResultStored, Kept
  <2>2. CASE j = i
    <3>1. webScan'[j] = s
      BY <1>1, <2>2 DEF WebInv, WebShape
    <3>2. ScanRecorded(j)'
      BY <1>1, <2>2, <3>1 DEF ScanRecorded, HandedOver
    <3> QED
      BY <2>1, <3>2
  <2>3. CASE j # i
    <3>1. webScan'[j] = webScan[j]
      BY <1>1, <2>3 DEF WebInv, WebShape
    <3>2. ScanRecorded(j)'
      BY <1>1, <3>1, ZenonT(60) DEF WebInv, ScanRecorded, HandedOver
    <3> QED
      BY <2>1, <3>2
  <2> QED
    BY <2>2, <2>3
<1> QED
  BY <1>2, <1>3, <1>4 DEF WebInv

\* What every step of a scan finds.
LEMMA ScanFacts ==
  ASSUME WebInv, NEW j \in ReconJobs
  PROVE  /\ DOMAIN webScan[j] = {"pc", "tries", "started", "rows", "engine", "read",
                                 "claimed", "components", "found"}
         /\ webScan[j].rows \in Seq({webJob[j].result.hosts})
         /\ webScan[j].rows # <<>> => webJob[j].result.status = "succeeded"
         /\ webScan[j].pc \in {"record", "fanout"} =>
              webScan[j].started = TRUE /\ webJob[j].result.status = "succeeded"
         /\ webScan[j].engine \in HandedOver => webScan[j].started = TRUE /\ webScan[j].rows # <<>>
         /\ webScan[j].read # Nothing =>
              /\ webScan[j].engine \in HandedOver
              /\ webScan[j].read.hosts = webJob[j].result.hosts \/ j \in overtaken
  BY DEF WebInv, WebShape, ScanRecorded

LEMMA HandleWebResultKeepsWeb ==
  ASSUME WebInv, NEW j \in ReconJobs, HandleWebResult(j)
  PROVE  WebInv'
<1> DEFINE s == webScan[j]
           a == [s EXCEPT !.pc = "acked", !.tries = @ + 1,
                          !.engine = IF @ = "held" THEN "failed" ELSE @]
           b == [s EXCEPT !.pc = "record", !.tries = @ + 1, !.started = TRUE]
<1>1. webJob[j].result # Nothing
      /\ IF webJob[j].result.status = "failed" THEN Scan(j, a) ELSE Scan(j, b)
  BY DEF HandleWebResult
<1>2. /\ DOMAIN a = {"pc", "tries", "started", "rows", "engine", "read",
                     "claimed", "components", "found"}
      /\ a.pc = "acked" /\ a.started = s.started /\ a.rows = s.rows /\ a.read = s.read
      /\ a.engine = IF s.engine = "held" THEN "failed" ELSE s.engine
  BY ScanFacts
<1>3. /\ DOMAIN b = {"pc", "tries", "started", "rows", "engine", "read",
                     "claimed", "components", "found"}
      /\ b.started = TRUE /\ b.rows = s.rows /\ b.read = s.read /\ b.engine = s.engine
  BY ScanFacts
<1> HIDE DEF a, b
<1>4. CASE Scan(j, a)
  BY <1>2, <1>4, ScanFacts, ScanMovesOn, ZenonT(60) DEF HandedOver
<1>5. CASE webJob[j].result.status # "failed" /\ Scan(j, b)
  <2>1. webJob[j].result.status = "succeeded"
    BY <1>1, <1>5 DEF WebInv, ResultStored
  <2> QED
    BY <1>3, <1>5, <2>1, ScanFacts, ScanMovesOn
<1> QED
  BY <1>1, <1>4, <1>5

LEMMA RecordDocumentKeepsWeb ==
  ASSUME WebInv, NEW j \in ReconJobs, RecordDocument(j)
  PROVE  WebInv'
<1> DEFINE s == webScan[j]
           a == [s EXCEPT !.pc = "fanout", !.rows = Append(@, webJob[j].result.hosts)]
<1>1. s.pc = "record" /\ Scan(j, a)
  BY DEF RecordDocument, Handling
<1>2. /\ DOMAIN a = {"pc", "tries", "started", "rows", "engine", "read",
                     "claimed", "components", "found"}
      /\ a.started = s.started /\ a.rows = Append(s.rows, webJob[j].result.hosts)
      /\ a.read = s.read /\ a.engine = s.engine
  BY ScanFacts
<1> HIDE DEF a
<1>3. a.rows \in Seq({webJob[j].result.hosts}) /\ a.rows # <<>>
  <2>1. \A S : \A rows \in Seq(S), x \in S : Append(rows, x) \in Seq(S) /\ Append(rows, x) # <<>>
    BY AppendProperties
  <2>2. s.rows \in Seq({webJob[j].result.hosts})
    BY ScanFacts
  <2> HIDE DEF s
  <2> QED
    BY <1>2, <2>1, <2>2
<1> QED
  BY <1>1, <1>2, <1>3, ScanFacts, ScanMovesOn

\* Only a scan with a recorded document hands its engine a job.
LEMMA FanOutWebKeepsWeb ==
  ASSUME WebInv, NEW j \in ReconJobs, FanOutWeb(j)
  PROVE  WebInv'
<1> DEFINE s == webScan[j]
           a == [s EXCEPT !.pc = "acked", !.engine = IF @ = "held" THEN "queued" ELSE @]
<1>1. s.pc = "fanout" /\ s.rows # <<>> /\ Scan(j, a)
  BY DEF FanOutWeb, Handling, nativeSBOMRef
<1>2. /\ DOMAIN a = {"pc", "tries", "started", "rows", "engine", "read",
                     "claimed", "components", "found"}
      /\ a.pc = "acked" /\ a.started = s.started /\ a.rows = s.rows /\ a.read = s.read
      /\ a.engine = IF s.engine = "held" THEN "queued" ELSE s.engine
  BY ScanFacts
<1>3. s.read # Nothing => a.engine \in HandedOver
  BY <1>2, ScanFacts DEF HandedOver
<1> HIDE DEF a
<1> QED
  BY <1>1, <1>2, <1>3, ScanFacts, ScanMovesOn

LEMMA ResultReturnsKeepsWeb ==
  ASSUME WebInv, NEW j \in ReconJobs, ResultReturns(j)
  PROVE  WebInv'
<1> DEFINE s == webScan[j]
           a == [s EXCEPT !.pc = "wait"]
           b == [s EXCEPT !.pc = "dead", !.engine = IF @ = "held" THEN "timeout" ELSE @]
<1>1. Scan(j, a) \/ Scan(j, b)
  BY DEF ResultReturns
<1>2. /\ DOMAIN a = {"pc", "tries", "started", "rows", "engine", "read",
                     "claimed", "components", "found"}
      /\ a.pc = "wait" /\ a.started = s.started /\ a.rows = s.rows /\ a.read = s.read
      /\ a.engine = s.engine
  BY ScanFacts
<1>3. /\ DOMAIN b = {"pc", "tries", "started", "rows", "engine", "read",
                     "claimed", "components", "found"}
      /\ b.pc = "dead" /\ b.started = s.started /\ b.rows = s.rows /\ b.read = s.read
      /\ b.engine = IF s.engine = "held" THEN "timeout" ELSE s.engine
  BY ScanFacts
<1> HIDE DEF a, b
<1>4. CASE Scan(j, a)
  BY <1>2, <1>4, ScanFacts, ScanMovesOn
<1>5. CASE Scan(j, b)
  BY <1>3, <1>5, ScanFacts, ScanMovesOn, ZenonT(60) DEF HandedOver
<1> QED
  BY <1>1, <1>4, <1>5

\* The engine reads what is at the key: the published document or a later one.
LEMMA GenerateKeepsWeb ==
  ASSUME WebInv, NEW j \in ReconJobs, Generate(j)
  PROVE  WebInv'
<1> DEFINE s == webScan[j]
<1>1. PICK n, engine : /\ engine \in {"partial", "succeeded"}
                       /\ \/ Scan(j, [s EXCEPT !.engine = "unavailable"])
                          \/ Scan(j, [s EXCEPT !.engine = engine, !.claimed = n,
                                               !.read = document[j]])
  BY DEF Generate
<1> DEFINE a == [s EXCEPT !.engine = "unavailable"]
           b == [s EXCEPT !.engine = engine, !.claimed = n, !.read = document[j]]
<1>2. /\ DOMAIN a = {"pc", "tries", "started", "rows", "engine", "read",
                     "claimed", "components", "found"}
      /\ a.pc = s.pc /\ a.started = s.started /\ a.rows = s.rows /\ a.read = s.read
      /\ a.engine \in HandedOver
  BY ScanFacts DEF HandedOver
<1>3. /\ DOMAIN b = {"pc", "tries", "started", "rows", "engine", "read",
                     "claimed", "components", "found"}
      /\ b.pc = s.pc /\ b.started = s.started /\ b.rows = s.rows /\ b.read = document[j]
      /\ b.engine \in HandedOver
  BY <1>1, ScanFacts DEF HandedOver
<1>4. s.engine = "queued"
  BY DEF Generate
<1>5. s.started = TRUE /\ s.rows # <<>> /\ webJob[j].result.status = "succeeded"
  BY <1>4, ScanFacts DEF HandedOver
<1>6. document[j].hosts = webJob[j].result.hosts \/ j \in overtaken
  BY <1>5 DEF WebInv, ResultStored, Kept, Nothing
<1>7. Scan(j, a) \/ Scan(j, b)
  BY <1>1
<1> HIDE DEF a, b
<1>8. CASE Scan(j, a)
  BY <1>2, <1>5, <1>8, ScanFacts, ScanMovesOn
<1>9. CASE Scan(j, b)
  BY <1>3, <1>5, <1>6, <1>9, ScanFacts, ScanMovesOn
<1> QED
  BY <1>7, <1>8, <1>9

LEMMA IngestKeepsWeb ==
  ASSUME WebInv, NEW j \in ReconJobs, Ingest(j)
  PROVE  WebInv'
<1> DEFINE s == webScan[j]
<1>1. PICK components, found : Scan(j, [s EXCEPT !.components = components, !.found = found])
  BY DEF Ingest
<1> DEFINE a == [s EXCEPT !.components = components, !.found = found]
<1>2. /\ DOMAIN a = {"pc", "tries", "started", "rows", "engine", "read",
                     "claimed", "components", "found"}
      /\ a.pc = s.pc /\ a.started = s.started /\ a.rows = s.rows /\ a.read = s.read
      /\ a.engine = s.engine
  BY ScanFacts
<1> HIDE DEF a
<1> QED
  BY <1>1, <1>2, ScanFacts, ScanMovesOn DEF a

-----------------------------------------------------------------------------
\* webrecon's key is the job's, an object that is there is overwritten, and only
\* the first result of a job is heard: whatever deliveries, crashes and lost
\* acks there are, an engine is queued only for a scan that runs and whose
\* document is stored, and reads the document that was recorded unless another
\* delivery of the job had come after a stored one.
THEOREM DocumentsStand == WebSpec => []DocumentStands
<1>1. WebInit => WebInv
  BY WebInvHoldsInitially
<1>2. ASSUME WebInv, [WebNext]_webVars PROVE WebInv'
  <2>1. CASE UNCHANGED webVars
    BY <1>2, <2>1 DEF webVars, WebInv, WebShape, WorkerStored, ResultStored, ScanRecorded, Kept, HandedOver
  <2>2. CASE \E w \in Recons : Reconnoitre(w) \/ TryLater(w) \/ ReconDies(w)
    BY <1>2, <2>2, TakeJobKeepsWeb, ResolveWebKeepsWeb, ResolveHostsKeepsWeb,
       FingerprintHostKeepsWeb, StoreDocumentKeepsWeb, PublishDocumentKeepsWeb,
       SettleWebKeepsWeb, TryLaterKeepsWeb, ReconDiesKeepsWeb DEF Reconnoitre
  <2>3. CASE \E j \in ReconJobs : \/ HandleWebResult(j) \/ RecordDocument(j) \/ FanOutWeb(j)
                                  \/ ResultReturns(j) \/ Generate(j) \/ Ingest(j)
    BY <1>2, <2>3, HandleWebResultKeepsWeb, RecordDocumentKeepsWeb, FanOutWebKeepsWeb,
       ResultReturnsKeepsWeb, GenerateKeepsWeb, IngestKeepsWeb
  <2> QED
    BY <1>2, <2>1, <2>2, <2>3 DEF WebNext
<1>3. WebInv => DocumentStands
  BY WebInvImplies
<1> QED
  BY <1>1, <1>2, <1>3, PTL DEF WebSpec
=============================================================================
