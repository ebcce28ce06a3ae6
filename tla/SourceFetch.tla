---------------------------- MODULE SourceFetch -----------------------------
(***************************************************************************)
(* services/fetcher over ProjectStore: a fetch job resolves the source of  *)
(* its project, reads the credential, materialises the source (a clone in  *)
(* a container, or an upload), archives the workspace and publishes a      *)
(* result. Jobs come at least once; the worker may die anywhere and comes  *)
(* back on the same disk.                                                  *)
(***************************************************************************)
EXTENDS ProjectStore

CONSTANTS
  Fetchers,    \* worker processes over one workspace root, one message each
  Jobs,        \* fetch jobs, one per scan
  Files,       \* paths a source may have
  Tree,        \* Tree[v]: the files of version v
  MaxDeliver,  \* deliveries of a job
  MaxCrashes,  \* worker crashes
  MaxPushes    \* times a repository moves

ASSUME FetchAssumption ==
  /\ Tree \in [Versions -> SUBSET Files]
  /\ MaxDeliver \in Nat \ {0} /\ MaxCrashes \in Nat /\ MaxPushes \in Nat

VARIABLES
  head,      \* the version each repository is at
  job,       \* each fetch job: its message and the first result published for it
  att,       \* what each worker is doing
  box,       \* the container of an attempt, <<job, delivery>>
  ws,        \* the workspace of a job: the files on disk
  archives,  \* source archives, by content
  died,      \* history: attempts whose worker died
  crashes, pushes

fetchVars == <<head, job, att, box, ws, archives, died, crashes, pushes>>
vars == <<storeVars, fetchVars>>

Resting == [pc |-> "idle", job |-> None, src |-> NoSource, token |-> None,
            version |-> None, ok |-> FALSE, content |-> {}, verdict |-> "ack"]

Init ==
  /\ StoreInit
  /\ head \in [Urls -> Versions]
  /\ job = [j \in Jobs |-> [state |-> "none", project |-> None, tries |-> 0, result |-> None]]
  /\ att = [f \in Fetchers |-> Resting]
  /\ box = [b \in Jobs \X (1 .. MaxDeliver) |-> "none"]
  /\ ws = [j \in Jobs |-> {}]
  /\ archives = {} /\ died = {} /\ crashes = 0 /\ pushes = 0

Attempt(f) == <<att[f].job, job[att[f].job].tries>>
At(f, label) == att[f].pc = label
Become(f, a) == att' = [att EXCEPT ![f] = a]
Then(f, label) == Become(f, [att[f] EXCEPT !.pc = label])

\* A failed result is published: the fetch is over.
Refuse(f) == Become(f, [Resting EXCEPT !.pc = "report", !.job = att[f].job])

\* ErrRetry, with the deferred RemoveAll on the way out.
Retry(f) ==
  /\ att[f].pc \in {"resolve", "start", "archive"}
  /\ Become(f, [Resting EXCEPT !.pc = "clean", !.job = att[f].job, !.verdict = "retry"])
  /\ UNCHANGED <<storeVars, head, job, box, ws, archives, died, crashes, pushes>>

(***************************************************************************)
(* Around the worker                                                       *)
(***************************************************************************)
\* publishFetchJob. The kind of the scan is the client's word, so the job may
\* be for a project of any kind.
Dispatch(j, p) ==
  /\ job[j].state = "none" /\ projects[p].state # "absent"
  /\ job' = [job EXCEPT ![j].state = "queued", ![j].project = p]
  /\ UNCHANGED <<storeVars, head, att, box, ws, archives, died, crashes, pushes>>

\* Somebody pushes to the repository.
Push(u) ==
  /\ pushes < MaxPushes /\ pushes' = pushes + 1
  /\ \E v \in Versions \ {head[u]} : head' = [head EXCEPT ![u] = v]
  /\ UNCHANGED <<storeVars, job, att, box, ws, archives, died, crashes>>

Deliver(f, j) ==
  /\ At(f, "idle") /\ job[j].state = "queued" /\ job[j].tries < MaxDeliver
  /\ job' = [job EXCEPT ![j].state = "running", ![j].tries = @ + 1]
  /\ Become(f, [Resting EXCEPT !.pc = "resolve", !.job = j])
  /\ UNCHANGED <<storeVars, head, box, ws, archives, died, crashes, pushes>>

(***************************************************************************)
(* handle: source and credential                                           *)
(***************************************************************************)
\* Resolve over Handler.Source.
Resolve(f) ==
  /\ At(f, "resolve")
  /\ LET src == Source(job[att[f].job].project)
     IN IF src.kind = "none" THEN Refuse(f)
        ELSE Become(f, [att[f] EXCEPT !.pc = "credential", !.src = src])
  /\ UNCHANGED <<storeVars, head, job, box, ws, archives, died, crashes, pushes>>

\* credential: no reference, no token; a reference that cannot be read, or a
\* Vault that does not answer, ends the fetch.
Credential(f) ==
  /\ At(f, "credential")
  /\ LET src == att[f].src
         token == IF src.ref THEN VaultGet(src.project, src.url) ELSE None
     IN \/ src.ref /\ Refuse(f)
        \/ /\ src.ref => token # None
           /\ IF src.kind = "url" THEN Refuse(f)
              ELSE Become(f, [att[f] EXCEPT !.pc = "start", !.token = token])
  /\ UNCHANGED <<storeVars, head, job, box, ws, archives, died, crashes, pushes>>

(***************************************************************************)
(* Clone: one container run                                                *)
(***************************************************************************)
SetBox(f, s) == box' = [box EXCEPT ![Attempt(f)] = s]

\* ContainerCreate. A policy, limit or command that is refused, like a create
\* that fails, leaves no container.
CreateBox(f) ==
  /\ At(f, "start") /\ att[f].src.kind = "git"
  /\ \/ SetBox(f, "created") /\ Then(f, "boot")
     \/ UNCHANGED box /\ Refuse(f)
  /\ UNCHANGED <<storeVars, head, job, ws, archives, died, crashes, pushes>>

\* ContainerStart; the removal is already deferred.
StartBox(f) ==
  /\ At(f, "boot")
  /\ \/ SetBox(f, "running") /\ Then(f, "wait")
     \/ UNCHANGED box /\ Then(f, "remove")
  /\ UNCHANGED <<storeVars, head, job, ws, archives, died, crashes, pushes>>

\* git ends: with the commit it cloned on its last line, or with an error.
GitExits(f) ==
  /\ At(f, "wait") /\ box[Attempt(f)] = "running"
  /\ SetBox(f, "exited")
  /\ \/ Become(f, [att[f] EXCEPT !.pc = "copy", !.ok = TRUE, !.version = head[att[f].src.url]])
     \/ Then(f, "remove")
  /\ UNCHANGED <<storeVars, head, job, ws, archives, died, crashes, pushes>>

\* Slip: the clock is looked at once git has ended.
ClockAfterExit(f) ==
  /\ At(f, "wait") /\ box[Attempt(f)] = "exited"
  /\ Then(f, "remove")
  /\ UNCHANGED <<storeVars, head, job, box, ws, archives, died, crashes, pushes>>

\* Slip: what the killed clone had written is copied out too.
CopyAnyway(f) ==
  /\ At(f, "wait") /\ box[Attempt(f)] = "running"
  /\ SetBox(f, "exited")
  /\ \E some \in SUBSET Tree[head[att[f].src.url]] :
       Become(f, [att[f] EXCEPT !.pc = "remove", !.ok = TRUE, !.content = some,
                                !.version = head[att[f].src.url]])
  /\ UNCHANGED <<storeVars, head, job, ws, archives, died, crashes, pushes>>

\* The wall clock: the run context ends, and the container is killed.
WallClock(f) ==
  /\ At(f, "wait") /\ box[Attempt(f)] = "running"
  /\ SetBox(f, "exited") /\ Then(f, "remove")
  /\ UNCHANGED <<storeVars, head, job, ws, archives, died, crashes, pushes>>

\* copyOut: the tree as the commit has it, or an error when it is too large.
CopyOut(f) ==
  /\ At(f, "copy")
  /\ \/ Become(f, [att[f] EXCEPT !.pc = "remove", !.content = Tree[att[f].version]])
     \/ Become(f, [att[f] EXCEPT !.pc = "remove", !.ok = FALSE])
  /\ UNCHANGED <<storeVars, head, job, box, ws, archives, died, crashes, pushes>>

\* The deferred force remove.
RemoveBox(f) ==
  /\ At(f, "remove")
  /\ SetBox(f, "none")
  /\ IF att[f].ok THEN Then(f, "extract") ELSE Refuse(f)
  /\ UNCHANGED <<storeVars, head, job, ws, archives, died, crashes, pushes>>

(***************************************************************************)
(* Materialise, archive, report                                            *)
(***************************************************************************)
\* materializeUpload up to the extraction: bytes that are gone end the fetch.
ReadUpload(f) ==
  /\ At(f, "start") /\ att[f].src.kind = "upload"
  /\ IF att[f].src.key \in DOMAIN blob
       THEN LET v == blob[att[f].src.key]
            IN Become(f, [att[f] EXCEPT !.pc = "extract", !.ok = TRUE, !.version = v,
                                        !.content = Tree[v]])
       ELSE Refuse(f)
  /\ UNCHANGED <<storeVars, head, job, box, ws, archives, died, crashes, pushes>>

\* copyGuarded: a file that is there already is overwritten.
Written(f, files) == ws' = [ws EXCEPT ![att[f].job] = @ \cup files]

\* ExtractTar and ExtractArchive over what is in the workspace; a tree past a
\* limit, or with a path that escapes, ends the fetch where it stands.
Extract(f) ==
  /\ At(f, "extract")
  /\ \/ Written(f, att[f].content) /\ Then(f, "archive")
     \/ \E some \in SUBSET att[f].content : Written(f, some) /\ Refuse(f)
  /\ UNCHANGED <<storeVars, head, job, box, archives, died, crashes, pushes>>

\* walkInto: every file of the workspace.
Walk(f) == ws[att[f].job]

\* CreateArchive: stored under the digest of its bytes, once.
CreateArchive(f) ==
  /\ At(f, "archive")
  /\ archives' = archives \cup {Walk(f)}
  /\ Become(f, [att[f] EXCEPT !.pc = "report", !.content = Walk(f)])
  /\ UNCHANGED <<storeVars, head, job, box, ws, died, crashes, pushes>>

\* publish: the job id is the message id, so the first result stands. A publish
\* that fails is not ErrRetry.
Publish(f) ==
  /\ At(f, "report")
  /\ LET a == att[f]
         result == [ok |-> a.ok, version |-> a.version, content |-> a.content]
     IN \/ /\ job' = [job EXCEPT ![a.job].result = IF @ = None THEN result ELSE @]
           /\ Become(f, [Resting EXCEPT !.pc = "clean", !.job = a.job])
        \/ UNCHANGED job /\ Become(f, [Resting EXCEPT !.pc = "clean", !.job = a.job, !.verdict = "term"])
  /\ UNCHANGED <<storeVars, head, box, ws, archives, died, crashes, pushes>>

\* The deferred RemoveAll.
Clean(f) ==
  /\ At(f, "clean")
  /\ ws' = [ws EXCEPT ![att[f].job] = {}]
  /\ Then(f, "settle")
  /\ UNCHANGED <<storeVars, head, job, box, archives, died, crashes, pushes>>

\* dispatch: ack, nak until the deliveries are used up, or dead letter. An ack
\* that is lost brings the message back.
Settle(f) ==
  /\ At(f, "settle")
  /\ LET j == att[f].job
         again == job[j].tries < MaxDeliver
         Set(s) == job' = [job EXCEPT ![j].state = s]
     IN CASE att[f].verdict = "ack" -> Set("done") \/ (again /\ Set("queued"))
          [] att[f].verdict = "retry" -> Set(IF again THEN "queued" ELSE "dead")
          [] att[f].verdict = "term" -> Set("dead")
  /\ Become(f, Resting)
  /\ UNCHANGED <<storeVars, head, box, ws, archives, died, crashes, pushes>>

\* The worker dies; no deferred call runs, an extraction stops half way, and the
\* message comes back after AckWait if a delivery is left.
Crash(f) ==
  /\ ~ At(f, "idle") /\ crashes < MaxCrashes /\ crashes' = crashes + 1
  /\ LET j == att[f].job
     IN /\ died' = died \cup {Attempt(f)}
        /\ job' = [job EXCEPT ![j].state = IF job[j].tries < MaxDeliver THEN "queued" ELSE "dead"]
        /\ \E some \in SUBSET (IF At(f, "extract") THEN att[f].content ELSE {}) :
             ws' = [ws EXCEPT ![j] = @ \cup some]
  /\ Become(f, Resting)
  /\ UNCHANGED <<storeVars, head, box, archives, pushes>>

-----------------------------------------------------------------------------
\* handle, in the order of its steps.
Work(f) ==
  \/ \E j \in Jobs : Deliver(f, j)
  \/ Resolve(f) \/ Credential(f) \/ CreateBox(f) \/ StartBox(f) \/ WallClock(f) \/ CopyOut(f)
  \/ RemoveBox(f) \/ ReadUpload(f) \/ Extract(f) \/ CreateArchive(f) \/ Publish(f)
  \/ Clean(f) \/ Settle(f)

Next ==
  \/ StoreNext /\ UNCHANGED fetchVars
  \/ \E j \in Jobs, p \in Projects : Dispatch(j, p)
  \/ \E u \in Urls : Push(u)
  \/ \E f \in Fetchers : Work(f) \/ GitExits(f) \/ Retry(f) \/ Crash(f)

Spec == Init /\ [][Next]_vars

(***************************************************************************)
(* Properties                                                              *)
(***************************************************************************)
\* CreateArchive over what was materialised: a successful result names a stored
\* archive, and its content is the version the result reports, all of it and
\* nothing else, unless an attempt at the job died and left files behind.
ArchiveMatchesSource ==
  \A j \in Jobs :
    job[j].result # None /\ job[j].result.ok =>
      /\ job[j].result.content \in archives
      /\ \/ job[j].result.content = Tree[job[j].result.version]
         \/ \E k \in 1 .. MaxDeliver : <<j, k>> \in died

\* credential and Connect: a container gets no token but one that was stored for
\* the repository it clones.
TokenGoesHome ==
  \A f \in Fetchers :
    att[f].pc \in {"boot", "wait"} /\ att[f].token # None => Home[att[f].token] = att[f].src.url

\* Runner.Run: a container outlives its run only when the worker died.
ContainersAreRemoved ==
  \A b \in DOMAIN box :
    box[b] # "none" =>
      b \in died \/ \E f \in Fetchers : /\ att[f].pc \in {"boot", "wait", "copy", "remove"}
                                        /\ Attempt(f) = b

\* Run: a fetch never hangs. Whatever git does, or does not do, a worker with a
\* job has a step of its own to take.
NeverHangs == \A f \in Fetchers : ~ At(f, "idle") => ENABLED Work(f)

\* What is archived is what the result says, a token goes to the repository it was stored
\* for, and no container is left over (CreateArchive, credential, Runner.Run).
FetchIsHonest == ArchiveMatchesSource /\ TokenGoesHome /\ ContainersAreRemoved
=============================================================================
