---------------------------- MODULE ReportFormats ----------------------------
(***************************************************************************)
(* What stands in the artifact of a report. The report service loads the   *)
(* rows of one BOM document, and the renderers lay them out: as the sheets *)
(* of a workbook, as the pages of a PDF with a page cap, or as the bundle  *)
(* without limits. A CBOM, a QBOM and an AIBOM have inventories of their   *)
(* own in place of the generic one.                                        *)
(*                                                                         *)
(* A row of a table names what it is about and holds the texts of its      *)
(* cells. Of a text it counts how it begins, how long it is and whether a  *)
(* character in it cannot be written. Widths, fonts and wording are left   *)
(* out; a page holds RowsPerPage rows.                                     *)
(***************************************************************************)
EXTENDS Naturals, Sequences, FiniteSets, SequencesExt, FiniteSetsExt

CONSTANTS
  ProfileFields,  \* BOM type, or type of a crypto asset -> profile fields in order
  DeviceFields,   \* the elements of Table 8 that the device form records
  PracticeFields, \* the settings of Table 5
  VexFields,      \* remediation, workarounds, downtime, mitigation
  Sources,        \* documents as the schemas hold them
  MaxCell,        \* characters of a cell, 32 767
  RowLimit,       \* rows of a worksheet, 1 048 576
  RowsPerPage,    \* 40 in estimatePages
  PageCap         \* pages of a PDF, 300

VARIABLES
  source,    \* the rows of the document, of its scan and of its project
  loaded,    \* the render.BOM
  artifact   \* what renderArtifact returned

formatVars == <<source, loaded, artifact>>

AssetTypes == <<"algorithm", "key", "protocol", "certificate">>
ReadinessGroups == <<"vulnerable", "post_quantum", "grover_note", "unassessed">>
VexStatuses == <<"affected", "under_investigation", "fixed", "not_affected">>
Formats == {"pdf", "xlsx", "json", "spdx", "cyclonedx"}

Each(s, Op(_)) == [i \in DOMAIN s |-> Op(s[i])]
Count(s, Test(_)) == Len(SelectSeq(s, Test))

(***************************************************************************)
(* Texts                                                                   *)
(***************************************************************************)
Text(said, lead, size) == [said |-> said, lead |-> lead, size |-> size, cut |-> FALSE]
Blank == Text("blank", "plain", 0)
NotProvided == Text("not-provided", "plain", 1)
Given == Text("value", "plain", 1)

orNotProvided(text) == IF text.said = "blank" THEN NotProvided ELSE text

\* A map of Go: what is not in it is empty.
Field(fields, f) == IF f \in DOMAIN fields THEN fields[f] ELSE Blank

\* A leading "control" is a character XML cannot hold in front of a formula. It
\* is replaced, so what follows it does not come to the front.
stripControl(text) == IF text.lead = "control" THEN [text EXCEPT !.lead = "plain"] ELSE text
IsDangerous(text) == text.lead = "formula"
SafeCell(text) ==
  IF IsDangerous(text) THEN [text EXCEPT !.lead = "quote", !.size = @ + 1] ELSE text
truncate(text, room) ==
  IF text.size > room THEN [text EXCEPT !.size = room, !.cut = TRUE] ELSE text
cell(text) == truncate(SafeCell(stripControl(text)), MaxCell)

(***************************************************************************)
(* LoadBOM: the document's tables, one query each                          *)
(***************************************************************************)
\* NULL columns arrive as Blank; the columns of every asset type are read.
loadCryptoAssets(s) == s.assets

\* Elements 6 and 18 of Table 10 have no column. The data sets are joined.
loadAIModels(s) ==
  Each(s.models, LAMBDA m :
    [m EXCEPT !.fields =
       [f \in DOMAIN m.fields \ {"software_dependencies", "vulnerabilities"} |->
          IF f # "data_sets" THEN m.fields[f]
          ELSE IF m.datasets = <<>> THEN Blank ELSE Given]])

\* The statement is the one that vex.Resolve finds; the mitigation is of the
\* advisory that was generated for it.
loadFindings(s) ==
  Each(s.findings, LAMBDA f :
    IF f.statement \in DOMAIN s.statements
      THEN [id |-> f.id, status |-> s.statements[f.statement].status,
            texts |-> s.statements[f.statement].texts
                        @@ ("mitigation" :> Field(s.advisories, f.statement))]
      ELSE [id |-> f.id, status |-> "", texts |-> <<>>])

\* One row with every setting, or none.
loadPractices(s) ==
  IF s.practices = <<>> THEN <<>>
  ELSE [p \in Range(PracticeFields) |->
          [value |-> s.practices[p],
           gap |-> CASE s.practices[p].said = "blank" -> "never recorded"
                     [] s.practices[p].said = "not-provided" -> "declared"
                     [] OTHER -> ""]]

\* A breakdown that cannot be read is as none: the two numbers stand.
loadDocumentMeta(s) ==
  [computed |-> s.completeness \/ s.declaration,
   fields |-> IF s.readable THEN s.breakdown ELSE <<>>]

\* Hardware is not read from anywhere. The components are those that BomDocument
\* leaves after the projection to a level.
LoadReport(s) ==
  [type |-> s.type, components |-> s.components, assets |-> loadCryptoAssets(s),
   device |-> s.device, models |-> loadAIModels(s), hardware |-> <<>>,
   findings |-> loadFindings(s), licenses |-> s.licenses, engines |-> s.engines,
   uncovered |-> s.uncovered, practices |-> loadPractices(s),
   coverage |-> loadDocumentMeta(s), levelNote |-> s.levelNote,
   notes |-> <<"deduplicated components", "deduplicated findings">>]

(***************************************************************************)
(* Sheets                                                                  *)
(***************************************************************************)
\* A row is about something (kind, id) and may state a fact or a tally.
Row(kind, id, texts) == [kind |-> kind, id |-> id, texts |-> texts, states |-> <<>>]
Stating(kind, id, facts) == [kind |-> kind, id |-> id, texts |-> {}, states |-> facts]
Columns(fields, asked) == {orNotProvided(Field(fields, f)) : f \in Range(asked)}

\* An unscored document prints zeroes all the same.
summarySheet(b) ==
  <<Stating("summary", "completeness", <<>>), Stating("summary", "declaration", <<>>)>>
  \o (IF b.levelNote THEN <<Stating("note", "level", <<>>)>> ELSE <<>>)
  \o <<Stating("note", "scope", <<>>)>>

listedEngines(b) ==
  Each(b.engines, LAMBDA e : Row("engine", e.id, {orNotProvided(e.version)}))
  \o Each(b.uncovered, LAMBDA e : Row("uncovered", e, {}))
engineCoverageSheet(b) ==
  IF listedEngines(b) = <<>> THEN <<Stating("note", "no engine ran", <<>>)>>
  ELSE listedEngines(b)

\* The normalizer's counts, for the fields of the profile.
FieldCounts(b, kind, fields) ==
  Each(fields, LAMBDA f : Stating(kind, f, IF f \in DOMAIN b.coverage.fields
                                           THEN b.coverage.fields[f] ELSE <<>>))
fieldCoverageSheet(b) == FieldCounts(b, "coverage", ProfileFields[b.type])

practicesSheet(b) ==
  Each(PracticeFields, LAMBDA p :
    IF p \in DOMAIN b.practices
      THEN [Row("practice", p, {orNotProvided(b.practices[p].value)})
              EXCEPT !.states = [gap |-> b.practices[p].gap]]
      ELSE [Row("practice", p, {NotProvided}) EXCEPT !.states = [gap |-> "never recorded"]])

componentSheet(b) ==
  Each(b.components, LAMBDA c :
    Row("component", c.id, Columns(c.fields, ProfileFields[b.type])))

findingSheet(b) ==
  Each(b.findings, LAMBDA f : [Row("finding", f.id, Columns(f.texts, VexFields))
                                 EXCEPT !.states = [status |-> f.status]])

\* Over the findings with a statement only.
vexFieldCoverageSheet(b) ==
  LET triaged == SelectSeq(b.findings, LAMBDA f : f.status # "")
  IN Each(VexFields, LAMBDA v :
       Stating("vex", v,
         [present |-> Count(triaged, LAMBDA f : Field(f.texts, v).said = "value"),
          declared |-> Count(triaged, LAMBDA f : Field(f.texts, v).said # "blank"),
          total |-> Len(triaged)]))

licenseSheet(b) ==
  Each(b.licenses, LAMBDA l : Row("license", l.id, {orNotProvided(l.note)}))

(***************************************************************************)
(* The inventories of the other types                                      *)
(***************************************************************************)
\* One asset type against its own fields.
OfType(assets, t) == SelectSeq(assets, LAMBDA a : a.type = t)
cryptoInventorySheet(t, assets) ==
  Each(OfType(assets, t), LAMBDA a :
    [Row("asset", a.id, Columns(a.fields, ProfileFields[t]))
       EXCEPT !.states = [group |-> a.group]])

CBOMSheets(b) ==
  <<FlattenSeq(Each(AssetTypes, LAMBDA t : FieldCounts(b, "coverage", ProfileFields[t])))>>
  \o Each(AssetTypes, LAMBDA t : cryptoInventorySheet(t, b.assets))

\* An asset in none of the four groups is in none of the tables.
groupByReadiness(assets, g) == SelectSeq(assets, LAMBDA a : a.group = g)
quantumReadinessSheet(b) ==
  FlattenSeq(Each(ReadinessGroups, LAMBDA g :
    <<Stating("bucket", g, [number |-> Len(groupByReadiness(b.assets, g))])>>
    \o Each(groupByReadiness(b.assets, g), LAMBDA a : Row("asset", a.id, {}))))

\* No device is every element not provided, and a gap that says so.
quantumDeviceSheet(b) ==
  Each(DeviceFields, LAMBDA f : Row("device", f, {orNotProvided(Field(b.device, f))}))
  \o (IF b.device = <<>> THEN <<Stating("note", "no device recorded", <<>>)>> ELSE <<>>)

aiModelInventorySheet(b) ==
  Each(b.models, LAMBDA m : Row("model", m.id, Columns(m.fields, ProfileFields["aibom"])))
aiDatasetSheet(b) ==
  FlattenSeq(Each(b.models, LAMBDA m :
    Each(m.datasets, LAMBDA d : Stating("dataset", d, [model |-> m.id]))))
aiDependencySheet(b) ==
  FlattenSeq(Each(b.models, LAMBDA m :
    Each(m.dependencies, LAMBDA d : Stating("dependency", d, [model |-> m.id]))))

hardwareTreeSheet(b) == Each(b.hardware, LAMBDA h : Row("hardware", h, {}))
hardwareOriginSheet(b) == Each(b.hardware, LAMBDA h : Row("origin", h, {}))

\* The caveat of the type, after the notes of the report.
notesSheet(b) ==
  Each(<<"weighting">> \o (IF b.levelNote THEN <<"level">> ELSE <<>>) \o b.notes
         \o (IF b.type \in {"cbom", "qbom", "aibom"} THEN <<b.type>> ELSE <<>>),
       LAMBDA n : Stating("note", n, <<>>))

Sheets(b) ==
  <<summarySheet(b), engineCoverageSheet(b)>>
  \o (IF b.type = "cbom" THEN <<>> ELSE <<fieldCoverageSheet(b)>>)
  \o <<practicesSheet(b)>>
  \o (CASE b.type = "cbom" -> CBOMSheets(b)
        [] b.type = "qbom" -> <<quantumDeviceSheet(b), quantumReadinessSheet(b)>>
        [] b.type = "aibom" ->
             <<aiModelInventorySheet(b), aiDatasetSheet(b), aiDependencySheet(b)>>
        [] OTHER -> <<componentSheet(b)>>)
  \o <<findingSheet(b), vexFieldCoverageSheet(b), licenseSheet(b)>>
  \o (IF b.type = "hbom" THEN <<hardwareTreeSheet(b), hardwareOriginSheet(b)>> ELSE <<>>)
  \o <<notesSheet(b)>>

(***************************************************************************)
(* The artifacts                                                           *)
(***************************************************************************)
NoArtifact == [outcome |-> "none"]
Refused(why) == [outcome |-> why]
Rendered(format, rows, notes) ==
  [outcome |-> "rendered", format |-> format, rows |-> rows, notes |-> notes,
   truncated |-> \E n \in notes : n.why = "page cap"]
Notice(why, kind, shown, total) ==
  [why |-> why, kind |-> kind, shown |-> shown, total |-> total]
TextsOf(rows) == UNION {r.texts : r \in Range(rows)}

\* Row 1 is the header. What cell changed is counted and noted.
WriteXLSX(b) ==
  LET rows == FlattenSeq(Sheets(b))
      texts == TextsOf(rows)
      changed(why, happens) == IF happens THEN {Notice(why, "cell", 0, 0)} ELSE {}
  IN IF \E s \in Range(Sheets(b)) : Len(s) + 1 > RowLimit THEN Refused("too large")
     ELSE Rendered("xlsx", Each(rows, LAMBDA r : [r EXCEPT !.texts = {cell(t) : t \in @}]),
            changed("stripped", \E t \in texts : stripControl(t) # t)
            \cup changed("escaped", \E t \in texts : IsDangerous(stripControl(t)))
            \cup changed("truncated", \E t \in texts : cell(t).cut))

\* The bundle holds the BOM as it is, whatever its type: no text is changed, and
\* the caveat of the type is not among the notes.
WriteJSON(b) ==
  Rendered("json",
    listedEngines(b)
    \o Each(b.components, LAMBDA c : Row("component", c.id, Range(c.fields)))
    \o Each(b.findings, LAMBDA f :
              [Row("finding", f.id, Range(f.texts)) EXCEPT !.states = [status |-> f.status]])
    \o Each(b.licenses, LAMBDA l : Row("license", l.id, {l.note}))
    \o Each(b.assets, LAMBDA a :
              [Row("asset", a.id, Range(a.fields)) EXCEPT !.states = [group |-> a.group]])
    \o (IF b.device = <<>> THEN <<>>
        ELSE Each(DeviceFields, LAMBDA f : Row("device", f, {b.device[f]})))
    \o Each(b.models, LAMBDA m : Row("model", m.id, Range(m.fields)))
    \o aiDatasetSheet(b) \o aiDependencySheet(b)
    \o Each(b.notes, LAMBDA n : Stating("note", n, <<>>)), {})

\* toExportDocument: the standard formats carry the components.
standardDocument(format, b) ==
  Rendered(format, Each(b.components, LAMBDA c : Row("component", c.id, {})), {})

(***************************************************************************)
(* The PDF: sections that each begin on a new page                         *)
(***************************************************************************)
Section(kind, rows) == [kind |-> kind, rows |-> rows]

\* Of an asset type the CBOM's pages tell how many there are and list every
\* asset with its name, its type and its group.
cryptoCoveragePage(b) ==
  Each(AssetTypes, LAMBDA t :
    Stating("tally", t,
      [number |-> Len(OfType(b.assets, t)),
       weak |-> Count(OfType(b.assets, t), LAMBDA a : a.weak)]))
cryptoInventoryPage(b) ==
  Each(b.assets, LAMBDA a : [Row("asset", a.id, {}) EXCEPT !.states = [group |-> a.group]])
aibomInventoryPage(b) ==
  Each(b.models, LAMBDA m :
    [Row("model", m.id, Columns(m.fields, <<"name">>))
       EXCEPT !.states = [number |-> Len(m.datasets)]])
findingPages(b) == Each(b.findings, LAMBDA f : Row("finding", f.id, {}))
componentPages(b) ==
  Each(b.components, LAMBDA c : Row("component", c.id, Columns(c.fields, <<"name">>)))

\* The device and how many assets are in each group.
quantumPage(b) ==
  (IF b.device = <<>> THEN <<Stating("note", "no device recorded", <<>>)>>
   ELSE Each(DeviceFields, LAMBDA f : Row("device", f, {orNotProvided(b.device[f])})))
  \o Each(ReadinessGroups, LAMBDA g :
       Stating("bucket", g, [number |-> Len(groupByReadiness(b.assets, g))]))

\* Every status with findings, and those without one. Texts are printed for the
\* findings that ask for something to be done.
HasText(f) == \E v \in Range(VexFields) : Field(f.texts, v).said # "blank"
remediationSection(b) ==
  Each(SelectSeq(b.findings,
         LAMBDA f : f.status \in {"affected", "under_investigation"} /\ HasText(f)),
       LAMBDA f : Row("remediation", f.id, Columns(f.texts, VexFields)))
vexPage(b) ==
  LET with(s) == Count(b.findings, LAMBDA f : f.status = s)
      tallies == Each(VexStatuses, LAMBDA s : Stating("tally", s, [number |-> with(s)]))
                 \o <<Stating("tally", "untriaged", [number |-> with("")])>>
  IN (IF with("") = Len(b.findings) THEN <<Stating("note", "no statements", <<>>)>>
      ELSE SelectSeq(tallies, LAMBDA r : r.states.number > 0))
     \o remediationSection(b)

Sections(b) ==
  <<Section("cover", summarySheet(b)),
    Section("coverage",
            IF b.type = "cbom" THEN cryptoCoveragePage(b) ELSE fieldCoverageSheet(b)),
    Section("engines", engineCoverageSheet(b)), Section("practices", practicesSheet(b)),
    CASE b.type = "cbom" -> Section("asset", cryptoInventoryPage(b))
      [] b.type = "aibom" -> Section("model", aibomInventoryPage(b))
      [] OTHER -> Section("component", componentPages(b))>>
  \o (IF b.type = "qbom" THEN <<Section("quantum", quantumPage(b))>> ELSE <<>>)
  \o <<Section("finding", findingPages(b)), Section("licenses", licenseSheet(b)),
       Section("vex", vexPage(b)),
       Section("methodology", Each(b.notes, LAMBDA n : Stating("note", n, <<>>)))>>

\* estimatePages; what is four times over the cap is refused.
FixedPages == 8
PageOverrunFactor == 4
estimatePages(b) ==
  FixedPages + (Len(b.components) + Len(b.findings) + Len(b.licenses) + Len(b.assets))
                 \div RowsPerPage

PagesOf(rows) == Max({1, (rows + RowsPerPage - 1) \div RowsPerPage})

\* overCap is asked before each row of these tables: a row is written while the
\* last page is below the cap, also when it is the one that begins the next.
Capped == {"component", "asset", "model", "finding"}
Room(pages, s) ==
  IF s.kind \notin Capped THEN Len(s.rows)
  ELSE IF pages + 1 >= PageCap THEN 0
  ELSE Min({Len(s.rows), (PageCap - pages - 1) * RowsPerPage + 1})

AddSection(pdf, s) ==
  LET shown == Room(pdf.pages, s)
      total == Len(s.rows)
  IN [pages |-> pdf.pages + PagesOf(shown),
      rows |-> pdf.rows \o SubSeq(s.rows, 1, shown),
      notes |-> IF shown = total THEN pdf.notes
                ELSE pdf.notes \cup {Notice("page cap", s.kind, shown, total)}]

\* sanitizePDF and clip.
Drawn(text) == truncate(stripControl(text), MaxCell)

WritePDF(b) ==
  LET pdf == FoldLeft(AddSection, [pages |-> 0, rows |-> <<>>, notes |-> {}], Sections(b))
  IN IF estimatePages(b) > PageCap * PageOverrunFactor THEN Refused("too large")
     ELSE Rendered("pdf",
            Each(pdf.rows, LAMBDA r : [r EXCEPT !.texts = {Drawn(t) : t \in @}]), pdf.notes)

renderArtifact(format, b) ==
  CASE format = "pdf" -> WritePDF(b)
    [] format = "xlsx" -> WriteXLSX(b)
    [] format = "json" -> WriteJSON(b)
    [] OTHER -> standardDocument(format, b)

-----------------------------------------------------------------------------
NotLoaded == [type |-> "none"]

FormatsInit == source \in Sources /\ loaded = NotLoaded /\ artifact = NoArtifact

LoadRows ==
  /\ loaded = NotLoaded /\ loaded' = LoadReport(source)
  /\ UNCHANGED <<source, artifact>>

RenderFormat(format) ==
  /\ loaded # NotLoaded /\ artifact = NoArtifact
  /\ artifact' = renderArtifact(format, loaded)
  /\ UNCHANGED <<source, loaded>>

FormatsNext == LoadRows \/ \E f \in Formats : RenderFormat(f)

-----------------------------------------------------------------------------
(***************************************************************************)
(* Properties                                                              *)
(***************************************************************************)
IsRendered(formats) == artifact.outcome = "rendered" /\ artifact.format \in formats

\* What a report of this type is about. The sheets of a QBOM list the assets by
\* group, so those in none are not in them; its pages only count them.
Holds(kind) ==
  CASE kind = "component" -> {c.id : c \in Range(source.components)}
    [] kind = "asset" -> {a.id : a \in {x \in Range(source.assets) :
                            source.type = "qbom" /\ artifact.format # "json"
                              => x.group \in Range(ReadinessGroups)}}
    [] kind = "model" -> {m.id : m \in Range(source.models)}
    [] kind = "finding" -> {f.id : f \in Range(source.findings)}
    [] kind = "license" -> {l.id : l \in Range(source.licenses)}
    [] kind = "engine" -> {e.id : e \in Range(source.engines)}
    [] kind = "uncovered" -> Range(source.uncovered)
Inventory ==
  CASE source.type = "sbom" -> {"component"}
    [] source.type = "hbom" -> {}
    [] source.type = "cbom" -> {"asset"}
    [] source.type = "qbom" -> IF artifact.format = "pdf" THEN {} ELSE {"asset"}
    [] source.type = "aibom" -> {"model"}
Shown(kind) == {r.id : r \in {x \in Range(artifact.rows) : x.kind = kind}}

\* What the document holds is in the report, and nothing else is; a table that the
\* page cap cuts says how much of it is there (bom.go:318, pdf.go:601).
NothingIsLeftOutSilently ==
  IsRendered({"pdf", "xlsx", "json"}) =>
    /\ \A kind \in {"finding", "license", "engine", "uncovered"} \cup Inventory :
         \/ Shown(kind) = Holds(kind)
         \/ /\ Shown(kind) \subseteq Holds(kind) /\ artifact.truncated
            /\ Notice("page cap", kind, Cardinality(Shown(kind)), Cardinality(Holds(kind)))
                 \in artifact.notes
    /\ artifact.truncated => artifact.format = "pdf"

\* No cell of a workbook starts a formula, holds what XML cannot, or is longer than
\* a cell, and a workbook without a note has the texts that were loaded, each
\* absent one spelled out (sheet.go:110, worker.go:388).
CellsAreFaithful ==
  IsRendered({"xlsx"}) =>
    /\ \A t \in TextsOf(artifact.rows) :
         t.lead \notin {"formula", "control"} /\ t.size <= MaxCell /\ t.said # "blank"
    /\ artifact.notes = {} => TextsOf(artifact.rows) = TextsOf(FlattenSeq(Sheets(loaded)))

\* The tallies of a report are of what it lists: the statuses of the findings, the
\* types and groups of the assets, and what was declared about triaged findings.
TalliesAddUp ==
  LET tallied(kind, ids) ==
        MapThenSumSet(LAMBDA r : r.states.number,
          {r \in Range(artifact.rows) : r.kind = kind /\ r.id \in ids})
      note == \E r \in Range(artifact.rows) : r.kind = "note" /\ r.id = "no statements"
  IN /\ IsRendered({"pdf"}) =>
          /\ \/ note
             \/ tallied("tally", Range(VexStatuses) \cup {"untriaged"}) = Len(source.findings)
          /\ source.type = "cbom" => tallied("tally", Range(AssetTypes)) = Len(source.assets)
     /\ IsRendered({"pdf", "xlsx"}) /\ source.type = "qbom" =>
          tallied("bucket", Range(ReadinessGroups)) = Cardinality(Holds("asset"))
     /\ IsRendered({"xlsx"}) => \A r \in Range(artifact.rows) : r.kind = "vex" =>
          r.states.present <= r.states.declared /\ r.states.declared <= r.states.total

\* A report says what was found, in full or with a note, whatever its format
\* (LoadBOM, Sheets, WritePDF, WriteJSON, renderArtifact).
FormatsAgree == NothingIsLeftOutSilently /\ CellsAreFaithful /\ TalliesAddUp
=============================================================================
