----------------------------- MODULE Advisories -----------------------------
(***************************************************************************)
(* CSAF 2.0 documents: the one the report service publishes for a triage   *)
(* decision (csafgen), the one the shared library makes of several (csaf), *)
(* what both are validated against, and a document read and written again. *)
(* Identifiers, products and dates are numbers, in the order they sort.    *)
(***************************************************************************)
EXTENDS Integers, SequencesExt

CONSTANTS
  SchemeOf,       \* SchemeOf[i], for a vulnerability identifier: "CVE", "GHSA", "OSV" or "other"
  Statements,     \* statements the service may publish
  DecisionLists,  \* lists of decisions the library may be given, with options
  RawDocuments    \* documents that may be read: a value for each path

VARIABLE advisory

csafVars == <<advisory>>

NoId == 0
NoAdvisory == [by |-> "nobody"]
CsafInit == advisory = NoAdvisory

\* CERT-In's four statuses in CSAF's spelling.
StatusMap ==
  [s \in {"not_affected", "affected", "fixed", "under_investigation"} |->
     CASE s = "not_affected" -> "known_not_affected"
       [] s = "affected" -> "known_affected"
       [] OTHER -> s]
CsafStatuses == {StatusMap[s] : s \in DOMAIN StatusMap}

\* A product status in which one list is filled.
Under(status, products) ==
  [s \in CsafStatuses |-> IF s = status THEN products ELSE <<>>]

\* An optional entry: a list of one or of none.
Optional(given, e) == IF given THEN <<e>> ELSE <<>>
\* What TrimSpace leaves nothing of.
IsBlank(text) == text \in {"", " "}

(***************************************************************************)
(* Validate                                                                *)
(***************************************************************************)
\* hasImpactStatement: a threat says so, or any note of two kinds says anything.
HasImpactStatement(v) ==
  \/ \E t \in ToSet(v.threats) : t.category = "impact" /\ ~ IsBlank(t.text)
  \/ \E n \in ToSet(v.notes) : n.category \in {"other", "description"} /\ ~ IsBlank(n.text)

\* What is wrong with a document, as a set.
Problems(d) ==
  LET known == {p.id : p \in ToSet(d.tree)}
      named(v) == UNION {ToSet(v.status[s]) : s \in CsafStatuses}
  IN {problem \in {"version", "title", "id", "history", "publisher"} :
        CASE problem = "version" -> d.version # "2.0"
          [] problem = "title" -> d.title = <<>>
          [] problem = "id" -> d.tracking.id = ""
          [] problem = "history" -> d.tracking.history = <<>>
          [] problem = "publisher" -> d.publisher = ""}
     \cup UNION {{problem \in {"identifier", "product", "impact"} :
        CASE problem = "identifier" -> v.cve = NoId /\ v.ids = <<>>
          [] problem = "product" -> ~ named(v) \subseteq known
          [] problem = "impact" -> v.status["known_not_affected"] # <<>> /\ ~ HasImpactStatement(v)} :
        v \in ToSet(d.vulns)}

(***************************************************************************)
(* csafgen: one decision, one product                                      *)
(***************************************************************************)
Product1 == 1

\* Slip: no display id to fall back on.
AliasIds(in) == [cve |-> IF SchemeOf[in.display] = "CVE" THEN in.display ELSE NoId, ids |-> in.aliases]

\* The identifiers of an entry: the display id when it is a CVE, the aliases, and
\* the display id again when neither says anything.
ServiceIds(in) ==
  LET cve == IF SchemeOf[in.display] = "CVE" THEN in.display ELSE NoId
  IN [cve |-> cve,
      ids |-> IF cve = NoId /\ in.aliases = <<>> THEN <<in.display>> ELSE in.aliases]

\* Generate. The status line is a note of every document.
GenerateForStatement(in) ==
  LET status == StatusMap[in.status]
      identity == ServiceIds(in)
      about == [products |-> <<Product1>>, text |-> in.justification, category |-> "impact"]
  IN [version |-> "2.0", publisher |-> in.tenant,
      title |-> <<in.display, in.component>>,
      tracking |-> [id |-> in.statement, version |-> 1, initial |-> in.now, current |-> in.now,
                    history |-> <<[number |-> 1, date |-> in.now]>>],
      tree |-> <<[id |-> Product1, name |-> IF in.component = "" THEN "project" ELSE in.component]>>,
      vulns |-> <<[cve |-> identity.cve, ids |-> identity.ids,
                   notes |-> <<[category |-> "description", text |-> "status"]>>,
                   status |-> Under(status, <<Product1>>),
                   threats |-> Optional(status = "known_not_affected", about),
                   remediations |->
                     Optional(in.remediation # "",
                           [products |-> <<Product1>>, text |-> in.remediation,
                            category |-> IF in.status = "fixed" THEN "vendor_fix" ELSE "workaround"])]>>]

PublishStatement(in) ==
  /\ advisory = NoAdvisory
  /\ advisory' = [by |-> "service", in |-> in, doc |-> GenerateForStatement(in)]

(***************************************************************************)
(* csaf.Generate: several decisions, the products of each                  *)
(***************************************************************************)
Ascending(S) == SetToSortSeq(S, <)

\* sort.SliceStable by a key.
SortedBy(s, Key(_)) ==
  LET before(i, k) == Key(s[i]) < Key(s[k]) \/ (Key(s[i]) = Key(s[k]) /\ i < k)
      places == SetToSortSeq(DOMAIN s, before)
  IN [i \in DOMAIN s |-> s[places[i]]]

\* The first CVE is the cve field; the other identifiers, that one left out, are
\* ids, in order.
LibraryIds(in) ==
  LET all == Optional(in.display # NoId, in.display) \o in.aliases
      cves == SelectSeq(all, LAMBDA i : SchemeOf[i] = "CVE")
      cve == IF cves = <<>> THEN NoId ELSE Head(cves)
      rest == SelectSeq(all, LAMBDA i : i # cve)
  IN [cve |-> cve, ids |-> SortedBy(rest, LAMBDA i : i)]

\* vulnerability, for a status that is one of the four.
Vulnerability(in) ==
  LET products == SortedBy(SelectSeq(in.products, LAMBDA p : p # NoId), LAMBDA p : p)
      identity == LibraryIds(in)
      said(text, category) ==
        Optional(text # "", [products |-> products, text |-> text, category |-> category])
      category == CASE in.status = "fixed" -> "vendor_fix"
                    [] in.status = "not_affected" -> "none_available"
                    [] OTHER -> "mitigation"
  IN [cve |-> identity.cve, ids |-> identity.ids,
      notes |-> Optional(in.downtime # "", [category |-> "other", text |-> in.downtime]),
      status |-> Under(StatusMap[in.status], products),
      threats |-> said(in.justification, "impact"),
      remediations |-> said(in.remediation, category) \o said(in.workarounds, "workaround")]

\* tracking: the revisions of all decisions by date, and the highest version seen.
TrackingOf(inputs, opts) ==
  LET revisions == FlattenSeq([i \in DOMAIN inputs |-> inputs[i].revisions])
      versions == {r.number : r \in ToSet(revisions)} \cup {in.version : in \in ToSet(inputs)}
      history == IF revisions = <<>> THEN <<[number |-> 1, date |-> opts.now]>>
                 ELSE SortedBy(revisions, LAMBDA r : r.date)
  IN [id |-> opts.id, version |-> IF revisions = <<>> THEN 1 ELSE Max(versions),
      initial |-> history[1].date, current |-> opts.now, history |-> history]

\* Refused is the error: no identity, no publisher, no decision, a status that is
\* none, or a document that does not validate.
Refused == [by |-> "refused"]

Assembled(inputs, opts) ==
  [version |-> "2.0", publisher |-> opts.publisher, title |-> opts.title,
   tracking |-> TrackingOf(inputs, opts),
   tree |-> LET ids == Ascending(UNION {ToSet(in.products) : in \in ToSet(inputs)} \ {NoId})
            IN [i \in DOMAIN ids |-> [id |-> ids[i], name |-> "component"]],
   vulns |-> SortedBy([i \in DOMAIN inputs |-> Vulnerability(inputs[i])], LAMBDA v : v.cve)]

PublishDecisions(inputs, opts) ==
  /\ advisory = NoAdvisory
  /\ LET doc == Assembled(inputs, opts)
         ok == /\ opts.id # "" /\ opts.publisher # "" /\ inputs # <<>>
               /\ \A in \in ToSet(inputs) : in.status \in DOMAIN StatusMap
               /\ Problems(doc) = {}
     IN advisory' = IF ok THEN [by |-> "library", in |-> inputs, opts |-> opts, doc |-> doc]
                    ELSE Refused

(***************************************************************************)
(* Parse and Marshal. A document is a value for each path of keys; "0" is  *)
(* the place of an element in a list.                                      *)
(***************************************************************************)
TopKeys == {"document", "product_tree", "vulnerabilities"}
MetaKeys == {"category", "csaf_version", "title", "publisher", "tracking", "notes"}
VulnKeys == {"cve", "ids", "notes", "product_status", "remediations", "threats", "scores"}
NestedKeys == {"name", "id", "full_product_names", "text", "fixed", "details"}

\* The paths the struct tags name.
IsModelled(p) ==
  \/ /\ p[1] = "document" /\ p[2] \in MetaKeys
     /\ \A i \in 3 .. Len(p) : p[i] \in NestedKeys \cup {"0"}
  \/ /\ p[1] = "vulnerabilities" /\ Len(p) > 2 /\ p[3] \in VulnKeys
     /\ \A i \in 4 .. Len(p) : p[i] \in NestedKeys \cup {"0"}
  \/ p[1] = "product_tree" /\ \A i \in 2 .. Len(p) : p[i] \in NestedKeys \cup {"0"}

\* extraKeys, at the top, in the document object and in each vulnerability.
IsExtra(p) ==
  \/ p[1] \notin TopKeys
  \/ p[1] = "document" /\ p[2] \notin MetaKeys
  \/ p[1] = "vulnerabilities" /\ Len(p) > 2 /\ p[3] \notin VulnKeys

Only(raw, Test(_)) == [p \in {p \in DOMAIN raw : Test(p)} |-> raw[p]]
ParseCsaf(raw) == [fields |-> Only(raw, IsModelled), extra |-> Only(raw, IsExtra)]

\* mergeExtra adds what is not there and overwrites nothing.
Marshal(d) ==
  [p \in DOMAIN d.fields \cup DOMAIN d.extra |->
     IF p \in DOMAIN d.fields THEN d.fields[p] ELSE d.extra[p]]

ReadBack(raw) ==
  /\ advisory = NoAdvisory
  /\ advisory' = [by |-> "reader", in |-> raw, doc |-> Marshal(ParseCsaf(raw))]

CsafNext ==
  \/ \E in \in Statements : PublishStatement(in)
  \/ \E list \in DecisionLists : PublishDecisions(list.inputs, list.opts)
  \/ \E raw \in RawDocuments : ReadBack(raw)

(***************************************************************************)
(* Properties                                                              *)
(***************************************************************************)
\* csafgen.Generate: whatever is decided about whatever finding, the document is
\* one Validate accepts, and it says of its one product what was decided.
StatementsValidate ==
  advisory.by = "service" =>
    LET v == advisory.doc.vulns[1]
    IN /\ Problems(advisory.doc) = {}
       /\ \A s \in CsafStatuses : v.status[s] # <<>> <=> s = StatusMap[advisory.in.status]
       /\ advisory.in.status = "not_affected" =>
            \E t \in ToSet(v.threats) : t.text = advisory.in.justification

\* Generate of either package: an identifier that came with a finding is in its
\* document once, a CVE field holds a CVE, and only a display id that is none may be
\* left to the title, when there are aliases.
NoIdentifierIsLost ==
  /\ advisory.by = "service" =>
       LET v == advisory.doc.vulns[1]
           given == {advisory.in.display} \cup ToSet(advisory.in.aliases)
           said == ToSet(v.ids) \cup ({v.cve} \ {NoId})
       IN /\ said \subseteq given /\ given \ said \subseteq {advisory.doc.title[1]}
          /\ v.cve # NoId => SchemeOf[v.cve] = "CVE"
  /\ advisory.by = "library" =>
       \A v \in ToSet(advisory.doc.vulns) :
         /\ v.cve # NoId => SchemeOf[v.cve] = "CVE" /\ v.cve \notin ToSet(v.ids)
         /\ v.cve = NoId => \A i \in ToSet(v.ids) : SchemeOf[i] # "CVE"
         /\ \E in \in ToSet(advisory.in) :
              ToSet(v.ids) \cup {v.cve} \cup {NoId} = {in.display, NoId} \cup ToSet(in.aliases)

\* csaf.Generate: no decision and no revision is left out, the history runs forward,
\* each product is listed once, and a suppression has a reason, its justification or
\* the downtime note that passes for one.
DecisionsArePublished ==
  advisory.by = "library" =>
    LET d == advisory.doc
        inputs == ToSet(advisory.in)
        history == d.tracking.history
    IN /\ Len(d.vulns) = Len(advisory.in)
       /\ \A in \in inputs : \E v \in ToSet(d.vulns) :
            ToSet(v.status[StatusMap[in.status]]) = ToSet(in.products) \ {NoId}
       /\ \A in \in inputs : \A r \in ToSet(in.revisions) :
            r \in ToSet(history) /\ r.number <= d.tracking.version
       /\ \A i, k \in DOMAIN history : i < k => history[i].date <= history[k].date
       /\ \A i, k \in DOMAIN d.tree : d.tree[i].id = d.tree[k].id => i = k
       /\ \A in \in inputs :
            in.status = "not_affected" /\ ToSet(in.products) \ {NoId} # {} =>
              ~ IsBlank(in.justification) \/ ~ IsBlank(in.downtime)

\* Parse and Marshal: nothing is invented or changed, and only a key nobody knows
\* inside an object of its own below the document, a product or a vulnerability, is
\* lost.
FieldsSurvive ==
  advisory.by = "reader" =>
    /\ \A p \in DOMAIN advisory.doc : p \in DOMAIN advisory.in /\ advisory.doc[p] = advisory.in[p]
    /\ \A p \in DOMAIN advisory.in \ DOMAIN advisory.doc :
         /\ p[1] \in TopKeys /\ p[Len(p)] \notin NestedKeys
         /\ p[1] # "product_tree" => Len(p) > 2

\* What is published says what was decided, and is kept as it was written.
AdvisoriesAreSound ==
  StatementsValidate /\ NoIdentifierIsLost /\ DecisionsArePublished /\ FieldsSurvive
=============================================================================
