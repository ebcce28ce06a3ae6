---------------------------- MODULE BomDocument ----------------------------
(***************************************************************************)
(* From the raw artifacts of a scan to the rendered report: the normalizer *)
(* reads every artifact (Normalizer), bulk.plan turns the result into rows *)
(* and writer.write_bom_document inserts them in one transaction; the      *)
(* report service reads the rows back, narrows them to the level of the    *)
(* report and hands components, roots and edges to the exporter.           *)
(***************************************************************************)
EXTENDS Normalizer

CONSTANTS
  Payloads,       \* engine -> the payloads it may upload
  Levels,         \* of a report: "complete", "top"
  MaxComponents,  \* MAX_COMPONENTS
  MaxFindings     \* MAX_FINDINGS

VARIABLES
  artifacts,   \* engine -> payload, the raw artifacts of the scan
  phase,       \* "scanning", "normalized", "written", "refused", "failed", "rendered"
  result,      \* what pipeline.normalize returned
  rows,        \* the document's rows in the normalize schema
  report,      \* the render.BOM of the report
  exported     \* the document that the exporter builds from it

vars == <<artifacts, phase, result, rows, report, exported>>

NoRows == [components |-> <<>>, findings |-> {}, dependencies |-> <<>>]
NoReport == [level |-> None, components |-> {}, findings |-> {}, roots |-> {},
             dependencies |-> {}, transitive |-> 0, orphans |-> 0, outOfScope |-> 0,
             licenses |-> <<>>, uncovered |-> {}]
NoExport == [nodes |-> {}, roots |-> {}, edges |-> <<>>]

Init ==
  /\ artifacts = <<>>
  /\ phase = "scanning"
  /\ result = <<>>
  /\ rows = NoRows
  /\ report = NoReport
  /\ exported = NoExport

\* An engine of the scan has stored its output.
Store(engine, payload) ==
  /\ phase = "scanning" /\ engine \notin DOMAIN artifacts
  /\ artifacts' = artifacts @@ (engine :> payload)
  /\ UNCHANGED <<phase, result, rows, report, exported>>

Normalize ==
  /\ phase = "scanning" /\ DOMAIN artifacts # {}
  /\ result' = normalize(artifacts)
  /\ phase' = "normalized"
  /\ UNCHANGED <<artifacts, rows, report, exported>>

(***************************************************************************)
(* The write                                                               *)
(***************************************************************************)
OverCap(r) ==
  \/ Cardinality(DOMAIN r.components) > MaxComponents
  \/ Cardinality(r.findings) > MaxFindings

\* _components_batch. It has no column for depth and orphan: they keep their
\* defaults, NULL and false.
components_batch(r) ==
  [k \in DOMAIN r.components |->
     [scope |-> r.components[k].scope, direct |-> k \in r.direct, depth |-> None,
      orphan |-> FALSE, eco |-> Eco(k), authors |-> r.components[k].observedBy,
      license |-> effective(r.components[k].licenses)]]

\* _findings_batch and _dependencies_batch: a row whose component is not of this
\* document is dropped with a diagnostic.
findings_batch(r) == {f \in r.findings : f.key \in DOMAIN r.components}
dependencies_batch(r) ==
  Map(SelectSeq(r.edges, LAMBDA e : {e.from, e.to} \subseteq DOMAIN r.components),
      LAMBDA e : <<e.from, e.to>>)

plan(r) == [components |-> components_batch(r), findings |-> findings_batch(r),
            dependencies |-> dependencies_batch(r)]

\* The constraints of the schema: UNIQUE (document, from, to, relationship) on the
\* dependencies, CHECK on severity_effective. One row that breaks one of them
\* fails the transaction.
Accepted(p) ==
  /\ IsInjective(p.dependencies)
  /\ \A f \in p.findings : f.severity \in {"critical", "high", "medium", "low", "none", "unknown"}

Write ==
  /\ phase = "normalized"
  /\ LET p == plan(result)
     IN  CASE OverCap(result) -> phase' = "refused" /\ rows' = NoRows
           [] ~OverCap(result) /\ ~Accepted(p) -> phase' = "failed" /\ rows' = NoRows
           [] OTHER -> phase' = "written" /\ rows' = p
  /\ UNCHANGED <<artifacts, result, report, exported>>

(***************************************************************************)
(* The report                                                              *)
(***************************************************************************)
\* ecosystems_from_purls in the adapters: the type as it is spelled in the purl.
Covers(engine, payload) ==
  IF engine \in {"syft", "trivy-fs", "trivy-image", "grype"}
  THEN {payload.entries[i].ids.purl.type :
          i \in {j \in DOMAIN payload.entries : "purl" \in DOMAIN payload.entries[j].ids}}
  ELSE {}

\* ecosystemsWithNoEngine: of all components, also of the ones the level drops.
ecosystemsWithNoEngine(components) ==
  {c.eco : c \in Range(components)}
    \ ({None} \cup UNION {Covers(e, artifacts[e]) : e \in DOMAIN artifacts})

\* deriveRoots: what is at depth zero and what has no depth.
deriveRoots(components) == {k \in DOMAIN components : components[k].depth \in {None, 0}}

\* level.Project, by the reason a component is left out.
OutOfScope(components) == {k \in DOMAIN components : components[k].scope = "excluded"}
Orphans(components, level) ==
  IF level = "complete" THEN {}
  ELSE {k \in DOMAIN components \ OutOfScope(components) :
          components[k].orphan \/ components[k].depth = None}
Transitive(components, level) ==
  IF level = "complete" THEN {}
  ELSE {k \in DOMAIN components \ (OutOfScope(components) \cup Orphans(components, level)) :
          components[k].depth > 1}

\* applyLevel: findings, roots and edges of a dropped component go with it; if no
\* root is left, every component is one.
FindingsOf(findings, kept) == {f \in findings : f.key \in kept}

RootsOf(roots, kept) == IF roots \cap kept = {} THEN kept ELSE roots \cap kept

\* licenseInventory: no licence is listed as NOASSERTION.
licenseInventory(components, kept) ==
  LET name(k) == IF components[k].license = <<>> THEN <<"NOASSERTION">>
                 ELSE components[k].license
  IN  [l \in {name(k) : k \in kept} |-> Cardinality({k \in kept : name(k) = l})]

LoadBOM(r, level) ==
  LET out == OutOfScope(r.components)
      orphans == Orphans(r.components, level)
      transitive == Transitive(r.components, level)
      kept == DOMAIN r.components \ (out \cup orphans \cup transitive)
  IN  [level |-> level, components |-> kept, findings |-> FindingsOf(r.findings, kept),
       roots |-> RootsOf(deriveRoots(r.components), kept),
       dependencies |-> {d \in ToSet(r.dependencies) : d[1] \in kept /\ d[2] \in kept},
       transitive |-> Cardinality(transitive), orphans |-> Cardinality(orphans),
       outOfScope |-> Cardinality(out), licenses |-> licenseInventory(r.components, kept),
       uncovered |-> ecosystemsWithNoEngine(r.components)]

\* toExportDocument and toProtobom: a node per component, the roots as declared,
\* and the edges grouped by their source.
toProtobom(b) ==
  [nodes |-> b.components, roots |-> b.roots,
   edges |-> [from \in {d[1] : d \in b.dependencies} |->
                {d[2] : d \in {x \in b.dependencies : x[1] = from}}]]

Render(level) ==
  /\ phase = "written"
  /\ report' = LoadBOM(rows, level)
  /\ exported' = toProtobom(report')
  /\ phase' = "rendered"
  /\ UNCHANGED <<artifacts, result, rows>>

Done == phase \in {"refused", "failed", "rendered"} /\ UNCHANGED vars

Next ==
  \/ \E e \in DOMAIN Payloads : \E p \in Payloads[e] : Store(e, p)
  \/ Normalize
  \/ Write
  \/ \E l \in Levels : Render(l)
  \/ Done

Spec == Init /\ [][Next]_vars

(***************************************************************************)
(* Properties                                                              *)
(***************************************************************************)
\* What an engine said, apart from what its parser skips by rule.
Said ==
  UNION {{<<e, x>> : x \in {y \in ToSet(artifacts[e].entries) :
             /\ e = "github-dependency-graph-sbom" => y.type # "target"
             /\ e = "dependency-check" => HasPackage(y)}}
         : e \in DOMAIN artifacts}

\* Two records may be one component only if they spell one thing: same version,
\* same architecture, same ecosystem, and names that the ecosystem cannot tell
\* apart. What has no usable identifier is the engine's own.
SameThing(s, t) ==
  LET rules(x) == {r \in DOMAIN x.ids : Usable(r, x.ids[r])}
      a == s[2]
      b == t[2]
  IN  IF rules(a) = {} \/ rules(b) = {}
      THEN s[1] = t[1] /\ a.ref = b.ref
      ELSE "purl" \in rules(a) =>
             LET p == a.ids.purl
                 q == b.ids.purl
             IN  /\ "purl" \in rules(b)
                 /\ p.name.text = q.name.text /\ p.version.number = q.version.number
                 /\ {x \in p.quals : x[1] = "arch"} = {x \in q.quals : x[1] = "arch"}
                 /\ Ecosystem(p.type) = Ecosystem(q.type)
                 /\ \/ p.name.style = q.name.style
                    \/ Ecosystem(p.type) \in CaseInsensitive
                    \/ {p.name.style, q.name.style} = {"escaped", "upper"}

Vulnerabilities(said) ==
  LET p == artifacts[said[1]]
  IN  IF said[1] \in {"syft", "trivy-fs", "trivy-image"}
      THEN {a.vuln.id : a \in {x \in ToSet(p.affects) : x.ref = said[2].ref}}
      ELSE IF said[1] = "github-dependency-graph-sbom" THEN {}
      ELSE {v.id : v \in ToSet(said[2].vulns)}

\* The words that mean one licence and no other.
Words(id) == {id} \cup {w \in DOMAIN Unambiguous : Unambiguous[w] = id}
                  \cup {w \in DOMAIN LicenseAliases : LicenseAliases[w] = id}

\* Nothing that an engine said is lost and nothing is invented on the way into the
\* tables: every record of every artifact is in a component that names the engine,
\* two records share one only if they are the same thing, and every vulnerability
\* reported on a record is a finding on that component, by exactly the engines
\* that reported it. The report of level complete has all of it but what is out of
\* scope, and lists a licence only if an engine named that licence, not one that
\* could also be read as another. (merge and findings promise no false merge and no silent drop.)
EvidenceReachesReport ==
  phase \in {"written", "rendered"} =>
    /\ \A s \in Said : LET k == resolve(s[1], s[2])
                       IN  /\ k \in DOMAIN rows.components
                           /\ s[1] \in rows.components[k].authors
                           /\ \A id \in Vulnerabilities(s) \ {None} :
                                \E f \in rows.findings :
                                  /\ f.key = k /\ f.cluster = Cluster(id)
                                  /\ s[1] \in f.detectedBy
                           /\ phase = "rendered" /\ report.level = "complete"
                                => k \in report.components \/ rows.components[k].scope = "excluded"
    /\ \A s, t \in Said : resolve(s[1], s[2]) = resolve(t[1], t[2]) => SameThing(s, t)
    /\ \A f \in rows.findings : \A e \in f.detectedBy :
         \E s \in Said : /\ s[1] = e /\ resolve(e, s[2]) = f.key
                         /\ f.cluster \in {Cluster(id) : id \in Vulnerabilities(s)}
    /\ \A l \in DOMAIN report.licenses : \A w \in ToSet(l) \cap KnownIds :
         \E s \in Said : \E k \in Kinds : Words(w) \cap ToSet(s[2].licenses[k]) # {}

\* The components at a distance of at most n edges from a root.
Within[n \in Nat] ==
  IF n = 0 THEN result.roots
  ELSE Within[n - 1] \cup UNION {Targets(result.edges, k) : k \in Within[n - 1]}

\* The graph is one engine's per ecosystem, of the engines that have edges there the
\* most trusted; a depth is the length of a shortest path from a root, a component
\* without one is not reachable, and this holds for cyclic graphs too.
GraphIsSound ==
  phase # "scanning" =>
    LET said == FlattenSeq(Map(SelectSeq(EngineOrder, LAMBDA e : e \in DOMAIN artifacts),
                               LAMBDA e : ingest(e, artifacts[e]).edges))
    IN  /\ \A e \in ToSet(said) :
             \/ e \in ToSet(result.edges)
             \/ \E x \in ToSet(result.edges) : /\ x.eco = e.eco /\ x.engine # e.engine
                                               /\ Rank(x.engine, x.eco) <= Rank(e.engine, e.eco)
        /\ \A e, x \in ToSet(result.edges) : e.eco = x.eco => e.engine = x.engine
        /\ \A k \in DOMAIN result.components :
             IF k \in DOMAIN result.depth
             THEN LET d == result.depth[k]
                  IN  k \in Within[d] /\ (d = 0 \/ k \notin Within[d - 1])
             ELSE k \notin Within[Cardinality(DOMAIN result.components)]

\* The coverage numbers do not flatter: completeness is at most declaration, and
\* neither is full while something in the inventory was not identified or scored,
\* or while a component says NOASSERTION where the profile asks for a licence.
CoverageIsHonest ==
  phase # "scanning" /\ DOMAIN result.components # {} =>
    LET c == result.coverage
        unscored == {k \in DOMAIN result.components :
                       Rule(k) = "opaque" \/ result.components[k].scope = "excluded"}
        silent == {k \in DOMAIN result.components :
                     effective(result.components[k].licenses) \in {<<>>, <<"NOASSERTION">>}}
    IN  /\ c.complete <= c.declared /\ c.declared <= c.denominator
        /\ c.declared = c.denominator => unscored = {}
        /\ c.complete = c.denominator
             => silent = {} \/ \A f \in Fields : f.path # "license"

\* What a stored document says of its components is what the evidence bears: the
\* edges and depths, and the numbers that sum it up (build_graph, walk, coverage).
DocumentIsSound == GraphIsSound /\ CoverageIsHonest

\* What is exported stands alone: findings, roots and edges name components that it
\* lists, there is a root whenever there is a component, and the components it lists
\* and the ones it says it left out are all the components of the document.
ReportIsClosed ==
  phase = "rendered" =>
    /\ \A f \in report.findings : f.key \in report.components
    /\ DOMAIN exported.edges \cup UNION Range(exported.edges) \subseteq exported.nodes
    /\ exported.roots \subseteq exported.nodes
    /\ exported.nodes # {} => exported.roots # {}
    /\ exported.nodes = report.components
    /\ Cardinality(report.components) + report.transitive + report.orphans + report.outOfScope
         = Cardinality(DOMAIN rows.components)

=============================================================================
