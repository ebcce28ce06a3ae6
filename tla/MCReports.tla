------------------------------ MODULE MCReports ------------------------------
(***************************************************************************)
(* Reports: how one is requested, rendered and shared (ShareLinks), what   *)
(* stands in it (BomDocument) and how that is laid out (ReportFormats).    *)
(* The parts share no state, so a behaviour is about one of them, chosen   *)
(* in its initial state.                                                   *)
(***************************************************************************)
EXTENDS MCBomDocument, ShareLinks, ReportFormats

CONSTANTS w1, w2, l1, v1, v2

VARIABLE part

\* Texts of a scan: an ordinary one, one declared absent, one that is empty, one
\* that a spreadsheet would evaluate and fills a cell, one with a control
\* character before such a one, one that is too long.
MCTexts ==
  {Given, NotProvided, Blank, Text("value", "formula", 4), Text("value", "control", 2),
   Text("value", "plain", 5)}

MCProfileFields ==
  [t \in {"sbom", "qbom", "aibom", "hbom", "algorithm", "key", "protocol", "certificate"} |->
     CASE t = "aibom" -> <<"name", "software_dependencies", "data_sets">>
       [] t = "key" -> <<"name", "key_size">>
       [] OTHER -> <<"name", "version">>]

MCDeviceFields == <<"model", "vendor">>
MCPracticeFields == <<"depth", "frequency">>
MCVexFields == <<"remediation", "workarounds", "downtime", "mitigation">>

NoTexts == [v \in {"remediation", "workarounds", "downtime"} |-> Blank]
SomeTexts == [NoTexts EXCEPT !["remediation"] = Given, !["downtime"] = NotProvided]

MCComponents(n, text) ==
  [i \in 1..n |-> [id |-> ToString(i), fields |-> ("name" :> text) @@ ("version" :> Blank)]]
MCFindings(statements) ==
  [i \in DOMAIN statements |-> [id |-> ToString(i), statement |-> statements[i]]]
MCAsset(id, type, group) ==
  [id |-> id, type |-> type, group |-> group, weak |-> group = "vulnerable",
   fields |-> "name" :> Given]
MCModel(id, datasets) ==
  [id |-> id, datasets |-> datasets, dependencies |-> <<"c">>,
   fields |-> ("name" :> Given) @@ ("software_dependencies" :> Given) @@ ("data_sets" :> Blank)]

\* Nothing recorded yet; every document below adds to it.
Bare ==
  [type |-> "sbom", components |-> <<>>, assets |-> <<>>, device |-> <<>>, models |-> <<>>,
   findings |-> <<>>, statements |-> <<>>, advisories |-> <<>>, licenses |-> <<>>,
   engines |-> <<>>, uncovered |-> <<>>, practices |-> <<>>, completeness |-> FALSE,
   declaration |-> FALSE, readable |-> FALSE, breakdown |-> <<>>, levelNote |-> FALSE]
Scanned ==
  [Bare EXCEPT
     !.findings = MCFindings(<<"s1", "s2", "none">>),
     !.statements = ("s1" :> [status |-> "affected", texts |-> SomeTexts])
                    @@ ("s2" :> [status |-> "fixed", texts |-> NoTexts]),
     !.advisories = "s1" :> Given,
     !.licenses = <<[id |-> "MIT", note |-> Blank]>>,
     !.engines = <<[id |-> "syft", version |-> Given], [id |-> "grype", version |-> Blank]>>,
     !.uncovered = <<"cargo">>,
     !.practices = ("depth" :> Given) @@ ("frequency" :> NotProvided),
     !.completeness = TRUE, !.readable = TRUE,
     !.breakdown = "name" :> [present |-> 1, declared |-> 2, total |-> 3],
     !.levelNote = TRUE]

\* Few components and many: enough that the page cap cuts the table, a worksheet
\* is full or a row short of it, and the PDF is refused.
MCSources ==
  {[b EXCEPT !.components = MCComponents(n, t)] :
     b \in {Bare, Scanned}, n \in {0, 2, 4, 6, 12, 13, 50}, t \in MCTexts}
  \cup {[b EXCEPT !.type = type, !.assets = assets] :
          b \in {Bare, Scanned}, type \in {"cbom", "qbom"},
          assets \in {<<>>, <<MCAsset("a", "key", "vulnerable"), MCAsset("b", "algorithm", ""),
                              MCAsset("c", "certificate", "grover_note"),
                              MCAsset("d", "protocol", "unassessed"),
                              MCAsset("e", "key", "post_quantum")>>}}
  \cup {[b EXCEPT !.type = "qbom", !.device = [f \in {"model", "vendor"} |-> t]] :
          b \in {Bare, Scanned}, t \in {Given, Blank}}
  \cup {[b EXCEPT !.type = "aibom", !.models = m] :
          b \in {Bare, Scanned}, m \in {<<MCModel("m", <<>>), MCModel("n", <<"d", "e">>)>>}}
  \cup {[b EXCEPT !.type = "hbom"] : b \in {Bare, Scanned}}
  \cup {[Scanned EXCEPT !.findings = MCFindings([i \in 1..n |-> IF i = 2 THEN "s2" ELSE "s1"])] :
          n \in {6, 8}}

ReportsInit ==
  /\ part \in {"request", "content", "format"}
  /\ Init /\ ShareInit
  /\ IF part = "format" THEN FormatsInit
     ELSE source = Bare /\ loaded = NotLoaded /\ artifact = NoArtifact

Request == part = "request" /\ ShareNext /\ UNCHANGED <<part, vars, formatVars>>
Content == part = "content" /\ Next /\ UNCHANGED <<part, reportVars, formatVars>>
Format == part = "format" /\ FormatsNext /\ UNCHANGED <<part, vars, reportVars>>

\* The API and the workers keep running; users, engines and faults owe nothing.
ReportsSpec ==
  ReportsInit /\ [][Request \/ Content \/ Format]_<<part, vars, reportVars, formatVars>>
  /\ RenderFairness

\* What engines said reaches the report, nothing else does, what is exported stands
\* alone, and every format shows all of it or says what it left out (merge, dedup,
\* LoadBOM, applyLevel, toProtobom, renderArtifact).
ReportIsFaithful == EvidenceReachesReport /\ ReportIsClosed /\ FormatsAgree
=============================================================================
