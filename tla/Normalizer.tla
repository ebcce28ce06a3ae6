----------------------------- MODULE Normalizer -----------------------------
(***************************************************************************)
(* axebom_shared.normalize: ingest, merge, graph, findings, coverage and   *)
(* pipeline.normalize. The raw artifacts of one scan become components, a  *)
(* dependency graph, findings and two coverage numbers.                    *)
(*                                                                         *)
(* A payload is [entries, deps, affects, root]: the components an engine   *)
(* lists, its dependency pairs and the vulnerabilities it reports by       *)
(* reference, and the reference of the scanned project. An entry has a     *)
(* reference, identifiers, a type, a scope, the licences of each kind,     *)
(* digests or not, and the vulnerabilities reported in place. A            *)
(* vulnerability is [id, severity, cvss, fixed].                           *)
(***************************************************************************)
EXTENDS Identifiers

CONSTANTS
  EngineOrder,  \* the engines, in the order of their ids
  GraphTrust,   \* engine -> ecosystem -> rank, _DEFAULT_GRAPH_TRUST in the code
  ClusterOf,    \* vulnerability id -> durable cluster, from persist_clusters
  Fields        \* the profile's fields: [path, weight]

ASSUME NormalizerAssumption == \A f \in Fields : f.weight \in Nat \ {0}

Kinds == {"declared", "concluded", "observed"}
Map(s, Op(_)) == [i \in DOMAIN s |-> Op(s[i])]

(***************************************************************************)
(* ingest: one engine's artifact                                           *)
(***************************************************************************)
Nothing == [contributions |-> <<>>, edges |-> <<>>, findings |-> <<>>, roots |-> {}]

\* What a parser reads of an entry: the kinds of licence of its format, and the
\* digests where it has any. A parser that reads no scope says "required".
Contribution(engine, entry, scope, kinds, hashes) ==
  [key |-> resolve(engine, entry), engine |-> engine, scope |-> scope,
   hashed |-> hashes /\ entry.hashed,
   licenses |-> [k \in Kinds |-> IF k \in kinds THEN resolve_license(entry.licenses[k])
                                 ELSE NoLicense]]

\* _cyclonedx_scope: as declared; a file or a system image is evidence only.
cyclonedx_scope(entry) ==
  IF entry.scope # None THEN entry.scope
  ELSE IF entry.type \in {"file", "operating-system", "device", "firmware"} THEN "excluded"
  ELSE "required"

Raw(engine, key, vuln, eco) ==
  [id |-> vuln.id, key |-> key, engine |-> engine, severity |-> vuln.severity,
   cvss |-> vuln.cvss, fixed |-> vuln.fixed, eco |-> eco]

\* Of two entries under one reference the last counts.
RefToKey(engine, entries) ==
  [r \in {entries[i].ref : i \in DOMAIN entries} \ {None} |->
     resolve(engine, entries[Max({i \in DOMAIN entries : entries[i].ref = r})])]

\* _cyclonedx_vulnerabilities: one finding per affected reference, and none for a
\* reference that no entry has. No fixed versions are read.
cyclonedx_vulnerabilities(engine, refs, affects) ==
  Map(SelectSeq(affects, LAMBDA a : a.ref \in DOMAIN refs),
      LAMBDA a : Raw(engine, refs[a.ref], [a.vuln EXCEPT !.fixed = {}], KeyEcosystem(refs[a.ref])))

\* _cyclonedx_dependencies: pairs of known references, in the ecosystem of the
\* target. Two references may be one key, so an edge may be there twice.
cyclonedx_dependencies(engine, refs, deps) ==
  Map(SelectSeq(deps, LAMBDA d : d[1] \in DOMAIN refs /\ d[2] \in DOMAIN refs),
      LAMBDA d : [from |-> refs[d[1]], to |-> refs[d[2]], engine |-> engine,
                  eco |-> KeyEcosystem(refs[d[2]])])

ingest_cyclonedx(engine, p) ==
  LET refs == RefToKey(engine, p.entries)
      read(e) == Contribution(engine, e, cyclonedx_scope(e), {"declared"}, TRUE)
  IN  [contributions |-> Map(p.entries, read),
       edges |-> cyclonedx_dependencies(engine, refs, p.deps),
       findings |-> cyclonedx_vulnerabilities(engine, refs, p.affects),
       roots |-> IF p.root \in DOMAIN refs THEN {refs[p.root]} ELSE {}]

\* _ingest_spdx: an inventory without the scan target, and no graph.
ingest_spdx(engine, p) ==
  LET read(e) == Contribution(engine, e, "required", {"declared", "concluded"}, TRUE)
  IN  [Nothing EXCEPT !.contributions =
         Map(SelectSeq(p.entries, LAMBDA e : e.type # "target"), read)]

\* The engines that report vulnerabilities in place.
InPlace(engine, entries, hashes) ==
  LET read(e) == Contribution(engine, e, "required", {}, hashes)
      found(e) == Map(SelectSeq(e.vulns, LAMBDA v : v.id # None),
                      LAMBDA v : Raw(engine, resolve(engine, e), v, Eco(resolve(engine, e))))
  IN  [Nothing EXCEPT !.contributions = Map(entries, read),
                      !.findings = FlattenSeq(Map(entries, found))]

\* A match of grype's, a package of osv-scanner's: every entry counts. OSV's own
\* ecosystem and name stand for the purl that it does not carry.
ingest_grype(engine, p) == InPlace(engine, p.entries, FALSE)
ingest_osv(engine, p) == InPlace(engine, p.entries, FALSE)

\* A file of dependency-check's is skipped when it has neither purl nor CPE.
HasPackage(entry) == DOMAIN entry.ids \cap {"purl", "cpe"} # {}
ingest_dependency_check(engine, p) == InPlace(engine, SelectSeq(p.entries, HasPackage), TRUE)

\* A library of webrecon's is skipped when it has no name.
HasName(entry) == "name" \in DOMAIN entry.ids
ingest_webrecon_fingerprint(engine, p) == InPlace(engine, SelectSeq(p.entries, HasName), FALSE)

\* _PARSERS. An engine without a parser gives nothing, and so does a payload that
\* is no object or lacks its array: it has no entries.
ingest(engine, payload) ==
  IF payload.entries = <<>> THEN Nothing ELSE
  CASE engine \in {"syft", "trivy-fs", "trivy-image"} -> ingest_cyclonedx(engine, payload)
    [] engine \in {"syft-spdx", "github-dependency-graph-sbom"} -> ingest_spdx(engine, payload)
    [] engine = "grype" -> ingest_grype(engine, payload)
    [] engine = "osv-scanner" -> ingest_osv(engine, payload)
    [] engine = "dependency-check" -> ingest_dependency_check(engine, payload)
    [] engine = "webrecon-fingerprint" -> ingest_webrecon_fingerprint(engine, payload)
    [] OTHER -> Nothing

(***************************************************************************)
(* merge: contributions with one key are one component                     *)
(***************************************************************************)
ScopeOrder == [required |-> 3, optional |-> 2, excluded |-> 1]

\* required beats optional beats excluded.
MergedScope(items) ==
  CHOOSE s \in {x.scope : x \in ToSet(items)} :
    \A x \in ToSet(items) : ScopeOrder[s] >= ScopeOrder[x.scope]

\* _merge_licenses: per kind, the first engine that says something.
MergedLicense(items, kind) ==
  LET said == SelectSeq(items, LAMBDA x : x.licenses[kind] # NoLicense)
  IN  IF said = <<>> THEN NoLicense ELSE said[1].licenses[kind]

merge(contributions) ==
  [key \in {c.key : c \in ToSet(contributions)} |->
     LET items == SelectSeq(contributions, LAMBDA c : c.key = key)
     IN  [scope |-> MergedScope(items),
          observedBy |-> {x.engine : x \in ToSet(items)},
          hashed |-> \E x \in ToSet(items) : x.hashed,
          licenses |-> [k \in Kinds |-> MergedLicense(items, k)]]]

(***************************************************************************)
(* graph: one engine's subgraph per ecosystem, then a breadth-first walk   *)
(***************************************************************************)
Rank(engine, eco) ==
  IF engine \in DOMAIN GraphTrust /\ eco \in DOMAIN GraphTrust[engine]
  THEN GraphTrust[engine][eco] ELSE 99
Position(engine) == CHOOSE i \in DOMAIN EngineOrder : EngineOrder[i] = engine

\* merge_edges: replacement, not union. The lowest rank wins, then the first id.
merge_edges(edges) ==
  LET engines(eco) == {e.engine : e \in {x \in ToSet(edges) : x.eco = eco}}
      better(a, b, eco) == \/ Rank(a, eco) < Rank(b, eco)
                           \/ Rank(a, eco) = Rank(b, eco) /\ Position(a) <= Position(b)
      winner(eco) == CHOOSE a \in engines(eco) : \A b \in engines(eco) : better(a, b, eco)
  IN  SelectSeq(edges, LAMBDA e : e.engine = winner(e.eco))

\* pipeline.normalize: without a declared root, what nothing depends on.
RootSet(keys, edges, declared) ==
  IF declared # {} THEN declared \cap keys
  ELSE IF edges = <<>> THEN {} ELSE keys \ {e.to : e \in ToSet(edges)}

Targets(edges, key) == {e.to : e \in {x \in ToSet(edges) : x.from = key}}

\* Slip: the walk is depth first.
walk_deep(edges, state, step) ==
  IF state.queue = <<>> THEN state
  ELSE LET node == Head(state.queue)
           new == Targets(edges, node) \ DOMAIN state.depth
       IN  [queue |-> SetToSeq(new) \o Tail(state.queue),
            depth |-> state.depth @@ [k \in new |-> state.depth[node] + 1]]

\* One turn of build's loop: the first of the queue, its new targets to the end.
walk(edges, state, step) ==
  IF state.queue = <<>> THEN state
  ELSE LET node == Head(state.queue)
           new == Targets(edges, node) \ DOMAIN state.depth
       IN  [queue |-> Tail(state.queue) \o SetToSeq(new),
            depth |-> state.depth @@ [k \in new |-> state.depth[node] + 1]]

\* build: every node enters the queue once, so as many turns as there are keys.
build(keys, edges, roots) ==
  FoldLeft(LAMBDA state, step : walk(edges, state, step),
           [queue |-> SetToSeq(roots), depth |-> [r \in roots |-> 0]],
           [i \in 1..Cardinality(keys) |-> i]).depth

\* Directness comes from the root set, never from the depth.
DirectSet(edges, roots) == UNION {Targets(edges, r) : r \in roots}

(***************************************************************************)
(* findings: one per cluster and component                                 *)
(***************************************************************************)
SeverityOrder == <<"none", "negligible", "unknown", "low", "medium", "high", "critical">>
normalize_severity(word) == IF word \in ToSet(SeverityOrder) THEN word ELSE "unknown"

\* A rating is [version, nvd, severity]: v4, then NVD's v3, then any v3.
Rated(items, Test(_)) ==
  LET all == FlattenSeq(Map(items, LAMBDA x : x.cvss))
  IN  SelectSeq(all, LAMBDA c : Test(c) /\ c.severity # None)

\* resolve_severity: the first authority with an answer; no average and no maximum
\* over versions. The tool strings come last, and without one it is unknown.
resolve_severity(items) ==
  LET ladder == <<Rated(items, LAMBDA c : c.version = 4),
                  Rated(items, LAMBDA c : c.version = 3 /\ c.nvd),
                  Rated(items, LAMBDA c : c.version = 3),
                  SelectSeq(items, LAMBDA x : x.severity # None)>>
      said == SelectSeq(ladder, LAMBDA s : s # <<>>)
  IN  IF said = <<>> THEN "unknown" ELSE normalize_severity(said[1][1].severity)

HasConflict(items) ==
  Cardinality({normalize_severity(x.severity) : x \in {y \in ToSet(items) : y.severity # None}}
                \ {"unknown"}) > 1

Comparable == {"npm", "cargo", "hex", "pypi", "maven", "golang", "rpm", "deb"}

\* resolve_fix_version: no order, no answer. Versions are numbered in their order.
FixedInMin(eco, fixed) ==
  IF fixed = {} THEN [min |-> 0, ordering |-> "none"]
  ELSE IF eco \in Comparable THEN [min |-> Min(fixed), ordering |-> "comparator"]
  ELSE [min |-> 0, ordering |-> "unknown"]

Cluster(id) == IF id \in DOMAIN ClusterOf THEN ClusterOf[id] ELSE id

dedup(raw) ==
  {LET items == SelectSeq(raw, LAMBDA x : <<Cluster(x.id), x.key>> = pair)
       known == SelectSeq(items, LAMBDA x : x.eco # None)
       eco == IF known = <<>> THEN None ELSE known[1].eco
   IN  [cluster |-> pair[1], key |-> pair[2], severity |-> resolve_severity(items),
        conflict |-> HasConflict(items), detectedBy |-> {x.engine : x \in ToSet(items)},
        fix |-> FixedInMin(eco, UNION {x.fixed : x \in ToSet(items)})]
   : pair \in {<<Cluster(x.id), x.key>> : x \in ToSet(raw)}}

(***************************************************************************)
(* coverage: what is known of the components, over all of them             *)
(***************************************************************************)
\* _flatten: a component on the profile's paths. A field that the model does not
\* carry is absent, and absent scores zero.
Value(key, component, path) ==
  CASE path = "name" -> Rule(key)
    [] path = "purl" -> IF Rule(key) = "purl" THEN "purl" ELSE None
    [] path = "ecosystem" -> Eco(key)
    [] path = "hashes" -> IF component.hashed THEN "hashes" ELSE None
    [] path = "license" -> LET value == effective(component.licenses)
                           IN  IF value = <<>> THEN None ELSE Head(value)
    [] OTHER -> None

Declared(value) == value # None
\* NOASSERTION and unknown are declared and not substantive; NONE is both.
Substantive(value) == Declared(value) /\ value \notin {"NOASSERTION", "unknown"}

Weights(fields) == MapThenSumSet(LAMBDA f : f.weight, fields)

\* Slip: what was not scored leaves the denominator.
DenominatorOf(components, scored) == Cardinality(scored) * Weights(Fields)

\* What could not be scored stays in the denominator.
Denominator(components, scored) == Cardinality(DOMAIN components) * Weights(Fields)

score(components) ==
  LET scored == {k \in DOMAIN components : Rule(k) # "opaque" /\ components[k].scope # "excluded"}
      sum(Test(_)) == MapThenSumSet(
        LAMBDA k : Weights({f \in Fields : Test(Value(k, components[k], f.path))}), scored)
  IN  [complete |-> sum(Substantive), declared |-> sum(Declared),
       denominator |-> Denominator(components, scored),
       unidentified |-> Cardinality({k \in DOMAIN components : Rule(k) = "opaque"})]

(***************************************************************************)
(* pipeline.normalize over the artifacts, engine -> payload                *)
(***************************************************************************)
normalize(artifacts) ==
  LET order == SelectSeq(EngineOrder, LAMBDA e : e \in DOMAIN artifacts)
      ingested == Map(order, LAMBDA e : ingest(e, artifacts[e]))
      components == merge(FlattenSeq(Map(ingested, LAMBDA r : r.contributions)))
      edges == merge_edges(FlattenSeq(Map(ingested, LAMBDA r : r.edges)))
      roots == RootSet(DOMAIN components, edges, UNION {r.roots : r \in ToSet(ingested)})
  IN  [components |-> components, edges |-> edges, roots |-> roots,
       depth |-> build(DOMAIN components, edges, roots),
       direct |-> DirectSet(edges, roots),
       findings |-> dedup(FlattenSeq(Map(ingested, LAMBDA r : r.findings))),
       coverage |-> score(components)]
=============================================================================
