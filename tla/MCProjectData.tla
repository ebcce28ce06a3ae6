---------------------------- MODULE MCProjectData ----------------------------
(***************************************************************************)
(* What people decide, write, choose and hear of around the scans of a     *)
(* project: triage, documents, comments, engines, notifications, and the   *)
(* advisories that are published. The parts share no state, so a behaviour *)
(* is about one of them, chosen in its initial state.                      *)
(***************************************************************************)
EXTENDS VexTriage, ProjectDocuments, Comments, EngineSelection, NotificationDelivery,
        Advisories, TLC

CONSTANTS a1, a2
CONSTANTS web, mail, c1, ev

VARIABLE part

\* A finished scan is mailed and a finished report is posted; the mail
\* subscription asks for reports too, for which there is no mail.
MCKind == web :> "webhook" @@ mail :> "email"
MCFilter == web :> {"report.ready"} @@ mail :> {"scan.completed", "report.ready"}

Post(c, k, scope, status) ==
  [cluster |-> c, key |-> k, scope |-> scope, status |-> status, reason |-> TRUE]

\* Two scopes about one component, two decisions in each, a narrower one, one of
\* the other cluster, and one without the justification it needs.
MCDecisions ==
  {Post(1, 0, "", "not_affected"), Post(1, 0, "project", "affected"),
   Post(1, 1, "component", "affected"), Post(1, 1, "version", "fixed"),
   Post(2, 2, "component", "affected"),
   [Post(1, 0, "project", "not_affected") EXCEPT !.reason = FALSE]}

MCClusters == {1, 2}
MCKeys == {1, 2}

\* Two trees with a blank row, with a level too deep; lists that are refused;
\* and one that starts at level 1.
MCLists == {<<0, 1, -1, 0, 1>>, <<0, 1, 2, 1>>, <<0, 2>>, <<1, 1>>, <<0, -2>>}

Wish(families, engines, kind) == [families |-> families, engines |-> engines, kind |-> kind]

MCWishes ==
  {Wish({"sbom"}, {}, "git"), Wish({"sbom", "cbom"}, {}, "image"), Wish({"sbom"}, {}, "url"),
   Wish({"sbom", "qbom"}, {}, "git"), Wish({"sbom"}, {"trivy_fs", "syft", "grype"}, "upload"),
   Wish({"sbom"}, {"cbomkit"}, "git"), Wish({"sbom"}, {"syft"}, "url"),
   Wish({"cbom"}, {"qbom_derive"}, "git"), Wish({}, {}, "git")}

\* A request for the one engine that only reads another engine's output.
MCLoneConsumer == {Wish({"sbom"}, {"grype"}, "git")}

MCOverrides ==
  {[family |-> "sbom", engines |-> {"syft", "trivy_image"}, enabled |-> TRUE],
   [family |-> "sbom", engines |-> {"cbomkit"}, enabled |-> TRUE],
   [family |-> "cbom", engines |-> {}, enabled |-> TRUE],
   [family |-> "sbom", engines |-> {"grype", "syft"}, enabled |-> FALSE]}

----------------------------------------------------------------------------
\* Two CVEs, a GHSA, an OSV and another identifier.
MCSchemeOf == <<"CVE", "GHSA", "CVE", "OSV", "other">>

\* What the service may be asked to publish: not_affected only with a reason.
MCStatements ==
  {s \in [status: DOMAIN StatusMap, justification: {"", "why"}, remediation: {"", "how"},
          tenant: {"org"}, display: DOMAIN MCSchemeOf, aliases: {<<>>, <<2>>, <<4, 2>>},
          component: {"", "component"}, statement: {"vex"}, now: {5}] :
     /\ s.status = "not_affected" => s.justification # ""
     /\ s.display \notin ToSet(s.aliases)}

MCDecision(display, aliases, status, justification, products, revisions) ==
  [display |-> display, aliases |-> aliases, status |-> status, justification |-> justification,
   remediation |-> "how", workarounds |-> "", downtime |-> "", products |-> products,
   version |-> 2, revisions |-> revisions]
MCRevisions == <<[number |-> 1, date |-> 4], [number |-> 3, date |-> 2]>>

\* One decision over every identifier, status and reason, and pairs of decisions.
MCSingle ==
  {[MCDecision(d, a, s, j, p, r) EXCEPT !.downtime = w] :
     d \in {0, 1, 2}, a \in {<<>>, <<3, 1>>, <<4>>}, s \in DOMAIN StatusMap \cup {"none"},
     j \in {"", " ", "why"}, p \in {<<>>, <<2, 0, 1>>}, r \in {<<>>, MCRevisions}, w \in {"", "soon"}}
MCPairs ==
  {<<MCDecision(d, <<4>>, "affected", "", <<2>>, r), MCDecision(1, <<2>>, s, "why", <<1, 2>>, q)>> :
     d \in {2, 3}, s \in DOMAIN StatusMap, r \in {<<>>, MCRevisions},
     q \in {<<>>, <<[number |-> 4, date |-> 3]>>}}
MCOptions(id, publisher, title) == [id |-> id, publisher |-> publisher, title |-> title, now |-> 5]
MCDecisionLists ==
  [inputs: {<<in>> : in \in MCSingle} \cup MCPairs, opts: {MCOptions("vex", "org", <<"title">>)}]
  \cup [inputs: {<<MCDecision(1, <<>>, "fixed", "", <<1>>, <<>>)>>, <<>>},
        opts: {MCOptions(i, p, t) : i \in {"", "vex"}, p \in {"", "org"}, t \in {<<>>, <<"title">>}}]

\* Documents with every choice of keys that are known, or not, at each depth.
MCPaths ==
  {<<"document", "title">>, <<"document", "lang">>, <<"document", "tracking", "id">>,
   <<"document", "tracking", "generator">>, <<"x_vendor">>,
   <<"product_tree", "full_product_names", "0", "name">>, <<"product_tree", "branches">>,
   <<"vulnerabilities", "0", "cve">>, <<"vulnerabilities", "0", "cwe">>,
   <<"vulnerabilities", "0", "notes", "0", "audience">>}
MCRawDocuments == UNION {[paths -> {"value"}] : paths \in SUBSET MCPaths}

ActorSymmetry == Permutations({a1, a2})

Init ==
  /\ part \in {"triage", "documents", "hardware", "comments", "engines", "notifications",
              "advisories"}
  /\ CsafInit /\ VexInit /\ DocInit /\ CommentInit /\ SelectionInit /\ NotifyInit
  /\ part # "triage" => findings = {}

Triage ==
  /\ part = "triage" /\ VexNext
  /\ UNCHANGED <<part, csafVars, docVars, commentVars, selectionVars, notifyVars>>
\* The hardware tree and the documents of scans are of one module and do not meet.
Documents ==
  /\ part \in {"documents", "hardware"} /\ DocNext
  /\ LET ops == IF part = "documents" THEN {"device", "answer"} ELSE {"save", "import"}
     IN \A w \in Writers : writing'[w].op \in ops \cup {"none"}
  /\ part = "hardware" => scans' = 0
  /\ UNCHANGED <<part, csafVars, vexVars, commentVars, selectionVars, notifyVars>>
Talk ==
  /\ part = "comments" /\ CommentNext
  /\ UNCHANGED <<part, csafVars, vexVars, docVars, selectionVars, notifyVars>>
Selection ==
  /\ part = "engines" /\ SelectionNext
  /\ UNCHANGED <<part, csafVars, vexVars, docVars, commentVars, notifyVars>>
Notifications ==
  /\ part = "notifications" /\ NotifyNext
  /\ UNCHANGED <<part, csafVars, vexVars, docVars, commentVars, selectionVars>>
Publishing ==
  /\ part = "advisories" /\ CsafNext
  /\ UNCHANGED <<part, vexVars, docVars, commentVars, selectionVars, notifyVars>>

Next == Triage \/ Documents \/ Talk \/ Selection \/ Notifications \/ Publishing
Spec == Init /\ [][Next]_<<part, csafVars, vexVars, docVars, commentVars, selectionVars, notifyVars>>

----------------------------------------------------------------------------
\* What a page once showed or hid it does not take back: no older document returns,
\* and no deleted comment (resolveCurrentBOMDocument, Update, Delete).
PagesNeverGoBack == PageNeverGoesBack /\ DeletedStaysHidden
=============================================================================
