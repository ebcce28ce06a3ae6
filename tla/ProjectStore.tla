---------------------------- MODULE ProjectStore ----------------------------
(***************************************************************************)
(* services/project: projects, the source each is scanned from, and where  *)
(* the credentials (Vault) and the uploaded bytes (object store) go.       *)
(*                                                                         *)
(* A write request is a process: each transaction, Vault write and object  *)
(* put is a step, and it may die between two of them. A connection is      *)
(* known by its project and URL (UNIQUE in the table, never deleted), so   *)
(* that pair stands for its id and for the Vault path derived from the id. *)
(***************************************************************************)
EXTENDS Integers, Sequences, FiniteSets, TLC

CONSTANTS
  Projects,    \* project ids
  Names,       \* names users give them
  ClassSets,   \* sets of BOM types they are classified into
  Kinds,       \* source types in play: a subset of {"git", "upload", "url"}
  Urls,        \* repository URLs
  Tokens,      \* access tokens for repositories
  Home,        \* Home[t]: the URL token t was issued for
  Versions,    \* contents: of a commit, or of an uploaded file
  Requests,    \* write requests in flight at once
  MaxRequests, \* write requests, in all
  None

ASSUME StoreAssumption ==
  /\ Home \in [Tokens -> Urls] /\ MaxRequests \in Nat
  /\ Kinds \subseteq {"git", "upload", "url"}
  /\ None \notin Projects \cup Tokens \cup Requests \cup Versions

VARIABLES
  projects,  \* project.projects with their classifications; lock: the transaction
             \* that holds the row
  conns,     \* project.repository_connections of each project, oldest first
  vault,     \* the token stored for a connection, or None
  uploads,   \* project.uploads of each project: storage keys, oldest first
  blob,      \* the object store: what the n-th key of an upload holds
  webs,      \* projects with a row in project.web_sources
  req,       \* the requests in flight
  arrived,   \* requests so far
  submitted  \* history: what was asked for each project, as [name, classes]

storeVars == <<projects, conns, vault, uploads, blob, webs, req, arrived, submitted>>

Absent == [state |-> "absent", kind |-> None, name |-> None, classes |-> {}, lock |-> None]
Idle == [pc |-> "idle", project |-> None, name |-> None, classes |-> {}, seen |-> {},
         url |-> None, token |-> None, version |-> None, key |-> 0]

StoreInit ==
  /\ projects = [p \in Projects |-> Absent]
  /\ conns = [p \in Projects |-> << >>]
  /\ vault = [c \in Projects \X Urls |-> None]
  /\ uploads = [p \in Projects |-> << >>]
  /\ blob = << >>
  /\ webs = {}
  /\ req = [q \in Requests |-> Idle]
  /\ arrived = 0
  /\ submitted = [p \in Projects |-> {}]

\* GetProject.
Exists(p) == projects[p].state = "live"

\* UNIQUE(tenant_id, name) counts the rows of deleted projects too.
NameTaken(name, p) == \E o \in Projects \ {p} : projects[o].name = name

Arrive(q, r) ==
  /\ req[q].pc = "idle" /\ arrived < MaxRequests
  /\ req' = [req EXCEPT ![q] = r] /\ arrived' = arrived + 1

Goto(q, label) == req' = [req EXCEPT ![q].pc = label]
Finish(q) == req' = [req EXCEPT ![q] = Idle]

(***************************************************************************)
(* Projects                                                                *)
(***************************************************************************)
\* parseClassifications: at least one type.
Classified(classes) == classes # {}

\* Service.Create, its checks: a source type there is, and a classification.
Creatable(kind, classes) == kind \in Kinds /\ Classified(classes)

\* CreateProject with insertClassifications: one transaction.
CreateProject(p, kind, name, classes) ==
  /\ projects[p].state = "absent" /\ ~ NameTaken(name, p)
  /\ projects' = [projects EXCEPT ![p] = [state |-> "live", kind |-> kind, name |-> name,
                                          classes |-> classes, lock |-> None]]
  /\ submitted' = [submitted EXCEPT ![p] = @ \cup {<<name, classes>>}]
  /\ UNCHANGED <<conns, vault, uploads, blob, webs, req, arrived>>

\* Handler.Create.
Create(p) ==
  \E kind \in Kinds, name \in Names, classes \in ClassSets :
    Creatable(kind, classes) /\ CreateProject(p, kind, name, classes)

\* Service.Update, its checks: the source type is not among what can change.
Updatable(classes) == Classified(classes)

\* Handler.Update.
Update(q, p, name, classes) ==
  /\ Updatable(classes)
  /\ Arrive(q, [Idle EXCEPT !.pc = "update", !.project = p, !.name = name, !.classes = classes])
  /\ submitted' = [submitted EXCEPT ![p] = @ \cup {<<name, classes>>}]
  /\ UNCHANGED <<projects, conns, vault, uploads, blob, webs>>

\* Slip: the classifications are replaced before the row is updated.
UpdateUnlocked(q) ==
  /\ req[q].pc = "update"
  /\ IF Exists(req[q].project) /\ ~ NameTaken(req[q].name, req[q].project)
       THEN Goto(q, "clear") ELSE Finish(q)
  /\ UNCHANGED <<projects, conns, vault, uploads, blob, webs, arrived, submitted>>

\* UpdateProject, its UPDATE: waits for the row and keeps it until the commit.
UpdateProject(q) ==
  /\ req[q].pc = "update"
  /\ LET p == req[q].project
     IN /\ projects[p].lock = None
        /\ IF Exists(p) /\ ~ NameTaken(req[q].name, p)
             THEN Goto(q, "clear") /\ projects' = [projects EXCEPT ![p].lock = q]
             ELSE Finish(q) /\ UNCHANGED projects
  /\ UNCHANGED <<conns, vault, uploads, blob, webs, arrived, submitted>>

\* The DELETE takes the classifications committed when it starts.
ClearClassifications(q) ==
  /\ req[q].pc = "clear"
  /\ req' = [req EXCEPT ![q].pc = "commit", ![q].seen = projects[req[q].project].classes]
  /\ UNCHANGED <<projects, conns, vault, uploads, blob, webs, arrived, submitted>>

\* insertClassifications and the commit.
CommitUpdate(q) ==
  /\ req[q].pc = "commit"
  /\ LET p == req[q].project
     IN projects' = [projects EXCEPT ![p].name = req[q].name, ![p].lock = None,
                                     ![p].classes = (@ \ req[q].seen) \cup req[q].classes]
  /\ Finish(q)
  /\ UNCHANGED <<conns, vault, uploads, blob, webs, arrived, submitted>>

\* DeleteProject: soft, and it waits for the row too.
DeleteProject(p) ==
  /\ Exists(p) /\ projects[p].lock = None
  /\ projects' = [projects EXCEPT ![p].state = "deleted"]
  /\ UNCHANGED <<conns, vault, uploads, blob, webs, req, arrived, submitted>>

(***************************************************************************)
(* Repository connections: row, Vault, reference                           *)
(***************************************************************************)
\* ON CONFLICT (project_id, repo_url) DO UPDATE: the reference is overwritten,
\* with NULL when there is none.
Upsert(rows, url, ref) ==
  IF \E i \in DOMAIN rows : rows[i].url = url
    THEN [i \in DOMAIN rows |-> IF rows[i].url = url THEN [url |-> url, ref |-> ref] ELSE rows[i]]
    ELSE Append(rows, [url |-> url, ref |-> ref])

CreateConnection(q, ref, next) ==
  LET p == req[q].project
  IN /\ conns' = IF Exists(p) THEN [conns EXCEPT ![p] = Upsert(@, req[q].url, ref)] ELSE conns
     /\ IF Exists(p) /\ next # "done" THEN Goto(q, next) ELSE Finish(q)

\* Path: derived from the id of the connection.
Path(p, url) == <<p, url>>

\* vault.Get: what is stored under the path derived from the owner; checkOwnership
\* refuses a stored path that is another, which no row holds.
VaultGet(p, url) == vault[Path(p, url)]

\* Handler.Connect. Users give a token to the repository it is for.
Connect(q, p, url, token) ==
  /\ token # None => Home[token] = url
  /\ Arrive(q, [Idle EXCEPT !.pc = "connect", !.project = p, !.url = url, !.token = token])
  /\ UNCHANGED <<projects, conns, vault, uploads, blob, webs, submitted>>

\* Connect, the first write: the row without a credential.
ConnectRow(q) ==
  /\ req[q].pc = "connect"
  /\ CreateConnection(q, FALSE, IF req[q].token = None THEN "done" ELSE "secret")
  /\ UNCHANGED <<projects, vault, uploads, blob, webs, arrived, submitted>>

\* vault.Put.
PutSecret(q) ==
  /\ req[q].pc = "secret"
  /\ vault' = [vault EXCEPT ![Path(req[q].project, req[q].url)] = req[q].token]
  /\ Goto(q, "attach")
  /\ UNCHANGED <<projects, conns, uploads, blob, webs, arrived, submitted>>

\* Connect, the second write: the path Vault returned.
AttachRef(q) ==
  /\ req[q].pc = "attach"
  /\ CreateConnection(q, TRUE, "done")
  /\ UNCHANGED <<projects, vault, uploads, blob, webs, arrived, submitted>>

(***************************************************************************)
(* Uploads and URL sources                                                 *)
(***************************************************************************)
\* Handler.Upload.
Upload(q, p, version) ==
  /\ Arrive(q, [Idle EXCEPT !.pc = "upload", !.project = p, !.version = version])
  /\ UNCHANGED <<projects, conns, vault, uploads, blob, webs, submitted>>

\* Upload, its GetProject.
UploadVisible(q) ==
  /\ req[q].pc = "upload"
  /\ IF Exists(req[q].project) THEN Goto(q, "bytes") ELSE Finish(q)
  /\ UNCHANGED <<projects, conns, vault, uploads, blob, webs, arrived, submitted>>

\* blob.Put under a key of its own; what is too large is an abandoned request.
PutBytes(q) ==
  /\ req[q].pc = "bytes"
  /\ blob' = Append(blob, req[q].version)
  /\ req' = [req EXCEPT ![q].pc = "record", ![q].key = Len(blob) + 1]
  /\ UNCHANGED <<projects, conns, vault, uploads, webs, arrived, submitted>>

\* The row that points at the bytes, if the project is still there.
CreateUpload(q) ==
  /\ req[q].pc = "record"
  /\ LET p == req[q].project
     IN uploads' = IF Exists(p) THEN [uploads EXCEPT ![p] = Append(@, req[q].key)] ELSE uploads
  /\ Finish(q)
  /\ UNCHANGED <<projects, conns, vault, blob, webs, arrived, submitted>>

\* Handler.CreateWebSource down to the row.
CreateWebSource(p) ==
  /\ Exists(p) /\ projects[p].kind = "url"
  /\ webs' = webs \cup {p}
  /\ UNCHANGED <<projects, conns, vault, uploads, blob, req, arrived, submitted>>

\* A call fails or the instance dies: an open transaction rolls back, and what
\* was committed before stays.
Abandon(q) ==
  /\ req[q].pc # "idle"
  /\ Finish(q)
  /\ projects' = [p \in Projects |->
       IF projects[p].lock = q THEN [projects[p] EXCEPT !.lock = None] ELSE projects[p]]
  /\ UNCHANGED <<conns, vault, uploads, blob, webs, arrived, submitted>>

-----------------------------------------------------------------------------
\* ListConnections is in the order of creation, ListUploads newest first.
FirstConnection(p) == conns[p][1]

NewestUpload(p) == uploads[p][Len(uploads[p])]

\* Handler.Source: what a scan of the project fetches. The newest upload, the
\* first connection.
NoSource == [kind |-> "none", project |-> None, url |-> None, ref |-> FALSE, key |-> 0]

Source(p) ==
  LET kind == projects[p].kind
  IN IF ~ Exists(p) THEN NoSource
     ELSE CASE kind = "upload" -> IF uploads[p] = << >> THEN NoSource
                 ELSE [NoSource EXCEPT !.kind = kind, !.project = p, !.key = NewestUpload(p)]
            [] kind = "url" -> IF p \notin webs THEN NoSource
                 ELSE [NoSource EXCEPT !.kind = kind, !.project = p]
            [] kind = "git" -> IF conns[p] = << >> THEN NoSource
                 ELSE [NoSource EXCEPT !.kind = kind, !.project = p,
                                       !.url = FirstConnection(p).url, !.ref = FirstConnection(p).ref]

StoreStep(q) ==
  \/ UpdateProject(q) \/ ClearClassifications(q) \/ CommitUpdate(q)
  \/ ConnectRow(q) \/ PutSecret(q) \/ AttachRef(q)
  \/ UploadVisible(q) \/ PutBytes(q) \/ CreateUpload(q) \/ Abandon(q)

StoreNext ==
  \/ \E q \in Requests :
       \/ StoreStep(q)
       \/ \E p \in Projects :
            \/ \E name \in Names, classes \in ClassSets : Update(q, p, name, classes)
            \/ \E url \in Urls, token \in Tokens \cup {None} : Connect(q, p, url, token)
            \/ \E version \in Versions : Upload(q, p, version)
  \/ \E p \in Projects :
       \/ Create(p) \/ DeleteProject(p) \/ CreateWebSource(p)

(***************************************************************************)
(* Properties                                                              *)
(***************************************************************************)
\* UpdateProject: the name and the classifications of a project were asked for
\* together, whatever updates overlapped.
WholeUpdate ==
  \A p \in Projects :
    projects[p].state # "absent" => <<projects[p].name, projects[p].classes>> \in submitted[p]

\* Connect: a connection that has a credential reference has the secret, however
\* the requests for it interleaved or died.
RefNamesSecret ==
  \A p \in Projects : \A i \in DOMAIN conns[p] :
    conns[p][i].ref => VaultGet(p, conns[p][i].url) # None

\* Upload: every row of project.uploads points at bytes that are there.
UploadHasBytes == \A p \in Projects : \A i \in DOMAIN uploads[p] : uploads[p][i] \in DOMAIN blob

\* Rows, secrets and bytes of a project agree however requests interleave or die
\* (UpdateProject, Connect, Upload).
StoreIsConsistent == WholeUpdate /\ RefNamesSecret /\ UploadHasBytes
=============================================================================
