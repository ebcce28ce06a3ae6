--------------------------- MODULE ProjectDocuments ---------------------------
(***************************************************************************)
(* The documents of one project. Scans leave CBOM and AIBOM documents that *)
(* the normalizer writes; the hardware tree (HBOM), the quantum device     *)
(* (QBOM) and four answers about an AI model are written by people through *)
(* the project service, under the project's own id.                        *)
(*                                                                         *)
(* A write is a transaction at READ COMMITTED: its reads are one step, its *)
(* statements with the commit another. UNIQUE(scan_id, bom_type,           *)
(* normalization_version) fails the later of two inserts of one version.   *)
(***************************************************************************)
EXTENDS Integers, Sequences, FiniteSets

CONSTANTS
  Lists,        \* parts lists: sequences of levels, Blank rows and NoLevel
  MaxDepth,     \* hbom.MaxDepth
  Writers,      \* requests in flight at once
  MaxRequests,  \* bound on requests
  MaxScans,     \* bound on scans of the project
  MaxDocuments  \* bound on documents of its scans

VARIABLES
  scans,        \* scans of the project so far; ids are ordered in time
  documents,    \* of CBOM and AIBOM: [id, type, scan, version, answers]
  hardware,     \* HBOM versions: the imported list, << >> for none
  parts,        \* hardware_components: [doc, parent, row]
  devices,      \* QBOM versions: [values, status]
  writing,      \* the requests in flight
  acked,        \* history: the saves that were answered with success
  ticks         \* history: requests so far

docVars == <<scans, documents, hardware, parts, devices, writing, acked, ticks>>

Blank == -1
NoLevel == -2
Root == 0
NoDocument == [id |-> 0, type |-> "none", scan |-> 0, version |-> 0, answers |-> 0]
Quiet == [op |-> "none"]
Types == {"CBOM", "AIBOM"}

ASSUME DocAssumption ==
  Lists \subseteq Seq(Nat \cup {Blank, NoLevel}) /\ MaxDepth \in Nat

DocInit ==
  /\ scans = 0 /\ documents = {} /\ hardware = << >> /\ parts = << >>
  /\ devices = << >> /\ writing = [w \in Writers |-> Quiet]
  /\ acked = {} /\ ticks = 0

----------------------------------------------------------------------------
\* Parse: the tree of a parts list, as the parent row of every row it accepts.
RefusesLevel(s, level) ==
  level = NoLevel \/ (s.previous # NoLevel /\ level > s.previous + 1)

Nest(s, row, level) ==
  IF level = 0 \/ s.stack = << >>
  THEN [s EXCEPT !.parent = Append(@, <<row, Root>>), !.stack = <<row>>, !.previous = level]
  ELSE IF level > Len(s.stack) THEN [s EXCEPT !.outcome = "panic"]
  ELSE [s EXCEPT !.parent = Append(@, <<row, s.stack[level]>>),
                 !.stack = Append(SubSeq(@, 1, level), row), !.previous = level]

ReadRow(s, row, level) ==
  IF s.outcome # "ok" \/ level = Blank THEN s
  ELSE IF RefusesLevel(s, level) THEN [s EXCEPT !.outcome = "refused"]
  ELSE IF level > MaxDepth THEN [s EXCEPT !.previous = level]
  ELSE Nest(s, row, level)

ReadList(list) ==
  LET read[n \in 0..Len(list)] ==
        IF n = 0 THEN [outcome |-> "ok", stack |-> << >>, parent |-> << >>, previous |-> NoLevel]
        ELSE ReadRow(read[n - 1], n, list[n])
  IN read[Len(list)]

Parse == [list \in Lists |-> ReadList(list)]

----------------------------------------------------------------------------
\* Slip: what was written last.
WrittenLater(d, e) == d.id >= e.id

\* resolveCurrentBOMDocument: the newest scan that has a document, and of its
\* documents the highest version.
Supersedes(d, e) == d.scan > e.scan \/ (d.scan = e.scan /\ d.version >= e.version)

resolveCurrentBOMDocument(type) ==
  LET mine == {d \in documents : d.type = type}
  IN IF mine = {} THEN NoDocument ELSE CHOOSE d \in mine : \A e \in mine : Supersedes(d, e)

resolveHBOMDocument == Len(hardware)

nextHBOMVersion == Len(hardware) + 1
nextQBOMVersion == Len(devices) + 1

Nodes(doc) == {i \in DOMAIN parts : parts[i].doc = doc}

\* Slip: such a node is left where it was.
linkHardwareTree(doc) == [i \in Nodes(doc) |-> parts[i].parent]

\* buildHardwareTree: a node whose parent is not of this document is a root.
buildHardwareTree(doc) ==
  [i \in Nodes(doc) |-> IF parts[i].parent \in Nodes(doc) THEN parts[i].parent ELSE Root]

\* The nodes a reader meets who unfolds the tree from its roots.
Reached(tree) ==
  LET Climb(i) ==
        LET up[n \in 0..Cardinality(DOMAIN tree)] ==
              IF n = 0 THEN i ELSE LET k == up[n - 1] IN IF k \in DOMAIN tree THEN tree[k] ELSE k
        IN up[Cardinality(DOMAIN tree)]
  IN {i \in DOMAIN tree : Climb(i) = Root}

GetHardwareTree == buildHardwareTree(resolveHBOMDocument)

\* NormalizeDevice: what was captured, and the references of the current CBOM.
NormalizeDevice(values, refs) ==
  [values |-> values, status |-> values \cup (IF refs THEN {"crypto"} ELSE {})]

GetQuantumDevice == IF devices = << >> THEN NormalizeDevice({}, FALSE) ELSE devices[Len(devices)]

----------------------------------------------------------------------------
StartScan ==
  /\ scans < MaxScans
  /\ scans' = scans + 1
  /\ UNCHANGED <<documents, hardware, parts, devices, writing, acked, ticks>>

\* The normalizer stores version N+1 for a scan, whichever scan is newer.
NormalizeScan(scan, type) ==
  LET version == Cardinality({d \in documents : d.scan = scan /\ d.type = type}) + 1
  IN /\ Cardinality(documents) < MaxDocuments
     /\ documents' = documents \cup
          {[id |-> Cardinality(documents) + 1, type |-> type, scan |-> scan, version |-> version, answers |-> 0]}
     /\ UNCHANGED <<scans, hardware, parts, devices, writing, acked, ticks>>

Begin(w, request) ==
  /\ writing[w] = Quiet /\ ticks < MaxRequests
  /\ ticks' = ticks + 1
  /\ writing' = [writing EXCEPT ![w] = request]
  /\ UNCHANGED <<scans, documents, hardware, parts, devices, acked>>

\* A commit, and the answer to the client.
Answer(w, save) ==
  /\ writing' = [writing EXCEPT ![w] = Quiet]
  /\ acked' = acked \cup {save}
  /\ UNCHANGED <<scans, ticks>>

Save(w, kind, doc, key) ==
  [kind |-> kind, doc |-> doc, key |-> key, from |-> writing[w].from, at |-> ticks]

\* A request fails or dies, and its transaction is rolled back.
RollBack(w) ==
  /\ writing[w] # Quiet
  /\ writing' = [writing EXCEPT ![w] = Quiet]
  /\ UNCHANGED <<scans, documents, hardware, parts, devices, acked, ticks>>

\* SaveHardwareComponent resolves the document to write to. The page names the
\* part (Root for a new one) and its parent, as some tree once showed them.
SaveHardwareComponent(w, id, parent, child) ==
  Begin(w, [op |-> "save", from |-> ticks + 1, doc |-> resolveHBOMDocument,
            id |-> id, parent |-> parent, child |-> child])

\* updateHardwareNode is scoped to the document and leaves the parent alone.
ScopedToDocument(id, doc) == id \in Nodes(doc)

\* upsertNodeRecursive: the node, then the child below it.
UpsertNode(w) ==
  LET r == writing[w]
      doc == IF r.doc = 0 THEN 1 ELSE r.doc
      new == [doc |-> doc, parent |-> r.parent, row |-> 0]
      upserted == IF r.id = Root THEN Append(parts, new) ELSE parts
      node == IF r.id = Root THEN Len(upserted) ELSE r.id
  IN /\ r.op = "save"
     /\ r.doc = 0 => hardware = << >>
     /\ r.id # Root => ScopedToDocument(r.id, doc)
     /\ hardware' = IF r.doc = 0 THEN <<(<< >>)>> ELSE hardware
     /\ parts' = IF r.child THEN Append(upserted, [new EXCEPT !.parent = node]) ELSE upserted
     /\ Answer(w, Save(w, "part", doc, node))
     /\ UNCHANGED <<documents, devices>>

\* ImportHBOM: a list that does not parse stores nothing.
ImportHBOM(w, list) ==
  /\ Parse[list].outcome = "ok"
  /\ Begin(w, [op |-> "import", from |-> ticks + 1, version |-> nextHBOMVersion, list |-> list])

\* insertHardwareTree: parents before children, all in the new document.
InsertTree(version, tree) ==
  LET n == Len(tree)
      idOf(row) == Len(parts) + (CHOOSE i \in 1..n : tree[i][1] = row)
  IN parts \o [i \in 1..n |->
       [doc |-> version, row |-> tree[i][1],
        parent |-> IF tree[i][2] = Root THEN Root ELSE idOf(tree[i][2])]]

ReplaceHardwareTree(w) ==
  LET r == writing[w]
  IN /\ r.op = "import" /\ r.version = Len(hardware) + 1
     /\ hardware' = Append(hardware, r.list)
     /\ parts' = InsertTree(r.version, Parse[r.list].parent)
     /\ Answer(w, Save(w, "import", r.version, Root))
     /\ UNCHANGED <<documents, devices>>

\* SaveQuantumDevice: references of the current CBOM, and the next version.
SaveQuantumDevice(w, values) ==
  Begin(w, [op |-> "device", from |-> ticks + 1, version |-> nextQBOMVersion,
            device |-> NormalizeDevice(values, resolveCurrentBOMDocument("CBOM") # NoDocument)])

InsertDevice(w) ==
  LET r == writing[w]
  IN /\ r.op = "device" /\ r.version = Len(devices) + 1
     /\ devices' = Append(devices, r.device)
     /\ Answer(w, Save(w, "device", r.version, Root))
     /\ UNCHANGED <<documents, hardware, parts>>

\* UpdateAIModelUserFields: a targeted update of the current document's model.
UpdateAIModelUserFields(w) ==
  /\ resolveCurrentBOMDocument("AIBOM") # NoDocument
  /\ Begin(w, [op |-> "answer", from |-> ticks + 1, doc |-> resolveCurrentBOMDocument("AIBOM").id])

WriteAnswers(w) ==
  LET r == writing[w]
  IN /\ r.op = "answer"
     /\ documents' = {IF d.id = r.doc THEN [d EXCEPT !.answers = r.from] ELSE d : d \in documents}
     /\ Answer(w, Save(w, "answer", r.doc, r.from))
     /\ UNCHANGED <<hardware, parts, devices>>

DocNext ==
  \/ StartScan
  \/ \E scan \in 1..scans, type \in Types : NormalizeScan(scan, type)
  \/ \E w \in Writers :
       \/ \E shown \in {Root} \cup DOMAIN parts, child \in BOOLEAN :
            SaveHardwareComponent(w, Root, shown, child) \/ SaveHardwareComponent(w, shown, Root, child)
       \/ \E list \in Lists : ImportHBOM(w, list)
       \/ \E values \in SUBSET {"model"} : SaveQuantumDevice(w, values)
       \/ UpdateAIModelUserFields(w)
       \/ UpsertNode(w) \/ ReplaceHardwareTree(w) \/ InsertDevice(w) \/ WriteAnswers(w)
       \/ RollBack(w)

DocSpec == DocInit /\ [][DocNext]_docVars

----------------------------------------------------------------------------
\* A save that was answered with success is what the page shows, unless a write
\* of the same kind was committed after the save had begun.
CommittedSince(save, kinds) == \E other \in acked \ {save} : other.kind \in kinds /\ other.at >= save.from

Shows(save) ==
  CASE save.kind = "part" -> save.key \in DOMAIN GetHardwareTree \/ CommittedSince(save, {"import"})
    [] save.kind = "import" -> resolveHBOMDocument = save.doc \/ CommittedSince(save, {"import"})
    [] save.kind = "device" -> GetQuantumDevice = devices[save.doc] \/ CommittedSince(save, {"device"})
    [] save.kind = "answer" ->
         LET d == resolveCurrentBOMDocument("AIBOM")
         IN d.answers = save.key \/ d.id # save.doc \/ CommittedSince(save, {"answer"})

SavedIsShown == \A save \in acked : Shows(save)

\* The hardware page shows every part of the current version once, and an
\* imported row sits below the nearest row before it one level up
\* (Parse, insertHardwareTree, buildHardwareTree), for lists that start at level 0.
Above(list, row) ==
  LET up == {n \in 1..(row - 1) : list[n] = list[row] - 1}
  IN IF list[row] = 0 THEN Root ELSE CHOOSE n \in up : \A m \in up : m <= n

Kept(list) == {n \in 1..Len(list) : list[n] \in 0..MaxDepth}

StartsAtRoot(list) == Kept(list) # {} /\ \A n \in Kept(list) : list[n] = 0 \/ \E m \in Kept(list) : m < n /\ list[m] = 0

TreeIsWhole == Reached(GetHardwareTree) = Nodes(resolveHBOMDocument)

ImportKeepsTree ==
  \A v \in DOMAIN hardware : StartsAtRoot(hardware[v]) =>
    \A row \in Kept(hardware[v]) :
      \E i \in Nodes(v) : /\ parts[i].row = row
                          /\ LET up == Above(hardware[v], row)
                             IN IF up = Root THEN parts[i].parent = Root ELSE parts[parts[i].parent].row = up

TreeIsFaithful == TreeIsWhole /\ ImportKeepsTree

\* The pages of a project's documents: what was saved is on them, and the hardware
\* tree is the one that was imported (SaveHardwareComponent, ImportHBOM,
\* SaveQuantumDevice, UpdateAIModelUserFields, Parse, buildHardwareTree).
DocumentsAreSound == SavedIsShown /\ TreeIsFaithful

\* A scan that finishes late, or is normalized again, does not put the findings
\* of an older scan back on the pages (resolveCurrentBOMDocument).
PageNeverGoesBack ==
  [][\A t \in Types :
       LET shown == resolveCurrentBOMDocument(t)
       IN /\ shown.scan <= shown'.scan
          /\ shown.scan = shown'.scan => shown.version <= shown'.version]_docVars
=============================================================================
