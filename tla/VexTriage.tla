------------------------------ MODULE VexTriage ------------------------------
(***************************************************************************)
(* Triage decisions: scan-orchestrator writes VEX statements, the project  *)
(* service shows one line per vulnerability, the report service prints one *)
(* per component and publishes CSAF advisories, and the normalizer merges  *)
(* the clusters that decisions and findings are keyed by.                  *)
(*                                                                         *)
(* A write is a transaction at READ COMMITTED: its start (now() is its     *)
(* created_at), its read, and its writes with the commit, are three steps. *)
(***************************************************************************)
EXTENDS Integers, Sequences, FiniteSets

CONSTANTS
  Clusters,      \* vulnerability clusters, numbers: the lowest wins a merge
  Keys,          \* component keys, positive numbers in the order of sorting
  Decisions,     \* what users post: [cluster, key, scope, status, reason]
  Authors,       \* requests in flight at once
  MaxStatements  \* bound on requests

\* What can be posted: strings for scope and status, which Validate looks at.
ASSUME VexAssumption ==
  /\ Clusters \subseteq Nat /\ Keys \subseteq Nat \ {0} /\ MaxStatements \in Nat
  /\ Decisions \subseteq [cluster : Nat, key : Nat, scope : STRING, status : STRING, reason : BOOLEAN]

VARIABLES
  statements,  \* normalize.vex_statements in the order of their commits
  forward,     \* normalize.vuln_cluster_merges: cluster -> cluster
  findings,    \* of the current document: <<cluster, key>>
  advisories,  \* statements with a row in normalize.csaf_advisories
  request,     \* the requests in flight
  clock        \* requests so far: the clock of the database

vexVars == <<statements, forward, findings, advisories, request, clock>>

NoKey == 0
Statuses == {"not_affected", "affected", "fixed", "under_investigation"}
Scopes == {"version", "component", "project"}
Resting == [pc |-> "idle"]

VexInit ==
  /\ statements = << >>
  /\ forward = [c \in Clusters |-> c]
  /\ findings \in SUBSET (Clusters \X Keys)
  /\ advisories = {}
  /\ request = [a \in Authors |-> Resting]
  /\ clock = 0

StatementIds == DOMAIN statements

specificity(scope) ==
  CASE scope = "version" -> 0 [] scope = "component" -> 1 [] scope = "project" -> 2 [] OTHER -> 3

Validate(s) ==
  /\ s.status \in Statuses /\ s.scope \in Scopes
  /\ s.scope # "project" => s.key # NoKey
  /\ s.status = "not_affected" => s.reason

Applies(s, c, k) == s.cluster = c /\ (s.scope = "project" \/ s.key = k)

Newer(s, t) == s.at > t.at \/ (s.at = t.at /\ s.version > t.version)

\* Slip: within a scope the first decision stands.
OutranksByAge(s, t) ==
  \/ specificity(s.scope) < specificity(t.scope)
  \/ specificity(s.scope) = specificity(t.scope) /\ Newer(t, s)

\* The order of Resolve: the narrower scope, then the newer statement.
Outranks(s, t) ==
  \/ specificity(s.scope) < specificity(t.scope)
  \/ specificity(s.scope) = specificity(t.scope) /\ Newer(s, t)

First(ids, Before(_, _)) ==
  CHOOSE i \in ids : \A j \in ids \ {i} : Before(statements[i], statements[j])

\* The statement in force for a finding, 0 for none. If every applicable
\* statement is superseded the best of those stands.
Resolve(c, k) ==
  LET applicable == {i \in StatementIds : Applies(statements[i], c, k)}
      live == {i \in applicable : statements[i].by = 0}
  IN IF applicable = {} THEN 0
     ELSE First(IF live = {} THEN applicable ELSE live, Outranks)

DeEmphasized(i) == statements[i].status \in {"not_affected", "fixed"}

\* groupFindingsByCluster: the components a line of the findings page is about.
Affected(c) == {k \in Keys : <<c, k>> \in findings}

\* loadClusterVEX: components in order, an open result beats a quiet one.
PageVEX(c) ==
  LET answered == {k \in Affected(c) : Resolve(c, k) # 0}
      open == {k \in answered : ~DeEmphasized(Resolve(c, k))}
      pool == IF open = {} THEN answered ELSE open
  IN IF pool = {} THEN 0 ELSE Resolve(c, CHOOSE k \in pool : \A l \in pool : k <= l)

\* loadFindings of the report: one row per finding, with the mitigation of the
\* advisory published for its statement.
ReportRow(c, k) ==
  [vex |-> Resolve(c, k), mitigation |-> Resolve(c, k) \in advisories]

----------------------------------------------------------------------------
\* CreateVEXStatement: the handler's default scope, then the transaction opens.
CreateVEXStatement(a, d) ==
  /\ request[a].pc = "idle" /\ clock < MaxStatements
  /\ clock' = clock + 1
  /\ LET scope == IF d.scope = "" THEN "project" ELSE d.scope
     IN request' = [request EXCEPT ![a] =
          [pc |-> "read", at |-> clock', after |-> Len(statements),
           next |-> [d EXCEPT !.scope = scope]]]
  /\ UNCHANGED <<statements, forward, findings, advisories>>

SameTuple(s, t) == s.cluster = t.cluster /\ s.scope = t.scope /\ s.key = t.key

\* currentVEXStatement: the oldest live statement of exactly this tuple.
current(next) ==
  LET live == {i \in StatementIds : statements[i].by = 0 /\ SameTuple(statements[i], next)}
      Older(s, t) == s.at < t.at
  IN IF live = {} THEN 0 ELSE First(live, Older)

\* Supersede: the successor of a statement, of the same tuple.
Supersede(previous, next) ==
  IF previous = 0 THEN 1 ELSE statements[previous].version + 1

ReadCurrent(a) ==
  /\ request[a].pc = "read"
  /\ LET r == request[a]
         previous == current(r.next)
     IN request' = [request EXCEPT ![a] =
          IF Validate(r.next)
          THEN [pc |-> "write", at |-> r.at, after |-> r.after, next |-> r.next,
                previous |-> previous, version |-> Supersede(previous, r.next)]
          ELSE Resting]
  /\ UNCHANGED <<statements, forward, findings, advisories, clock>>

\* insertVEXStatement, the predecessor's superseded_by, and the commit.
InsertStatement(a) ==
  /\ request[a].pc = "write"
  /\ LET r == request[a]
         id == Len(statements) + 1
         row == [cluster |-> r.next.cluster, key |-> r.next.key, scope |-> r.next.scope,
                 status |-> r.next.status, version |-> r.version, at |-> r.at,
                 by |-> 0, after |-> r.after]
         marked == [i \in StatementIds |-> IF i = r.previous THEN [statements[i] EXCEPT !.by = id]
                                  ELSE statements[i]]
     IN statements' = Append(marked, row)
  /\ request' = [request EXCEPT ![a] = Resting]
  /\ UNCHANGED <<forward, findings, advisories, clock>>

\* GenerateAndStoreCSAFAdvisory: an existing advisory is the answer.
GenerateCSAFAdvisory(a, i) ==
  /\ request[a].pc = "idle" /\ clock < MaxStatements /\ i \notin advisories
  /\ clock' = clock + 1
  /\ request' = [request EXCEPT ![a] = [pc |-> "publish", statement |-> i]]
  /\ UNCHANGED <<statements, forward, findings, advisories>>

\* insertCSAFAdvisory: UNIQUE(tenant_id, tracking_id) refuses the second of two.
InsertAdvisory(a) ==
  /\ request[a].pc = "publish"
  /\ advisories' = advisories \cup {request[a].statement}
  /\ request' = [request EXCEPT ![a] = Resting]
  /\ UNCHANGED <<statements, forward, findings, clock>>

\* A request dies, and its transaction is rolled back.
Abandon(a) ==
  /\ request[a].pc # "idle"
  /\ request' = [request EXCEPT ![a] = Resting]
  /\ UNCHANGED <<statements, forward, findings, advisories, clock>>

\* persist_clusters joins two clusters, the lowest id wins.
MergeClusters(low, high) ==
  /\ low < high /\ forward[low] = low /\ forward[high] = high
  /\ forward' = [c \in Clusters |-> IF forward[c] = high THEN low ELSE forward[c]]
  /\ UNCHANGED <<statements, findings, advisories, request, clock>>

\* write_bom_document: the findings of a new document name resolved clusters.
Renormalize ==
  /\ findings' = {<<forward[f[1]], f[2]>> : f \in findings}
  /\ findings' # findings
  /\ UNCHANGED <<statements, forward, advisories, request, clock>>

VexNext ==
  \/ \E a \in Authors :
       \/ \E d \in Decisions : CreateVEXStatement(a, d)
       \/ ReadCurrent(a) \/ InsertStatement(a)
       \/ \E i \in StatementIds : GenerateCSAFAdvisory(a, i)
       \/ InsertAdvisory(a) \/ Abandon(a)
  \/ \E low, high \in Clusters : MergeClusters(low, high)
  \/ Renormalize

VexSpec == VexInit /\ [][VexNext]_vexVars

----------------------------------------------------------------------------
\* A decision posted after another one about the same thing was stored is never
\* outweighed by it, whoever else writes meanwhile (CreateVEXStatement's
\* supersession and the order of Resolve).
LaterDecisionStands ==
  \A i, j \in StatementIds :
    /\ SameTuple(statements[i], statements[j]) /\ i <= statements[j].after
    => \A k \in Keys : Resolve(statements[i].cluster, k) # i

\* A finding the report prints as open is not shown as closed on the findings
\* page, where one line stands for all components (loadClusterVEX).
OpenFindingShows ==
  \A f \in findings :
    LET row == ReportRow(f[1], f[2]).vex
    IN row # 0 /\ ~DeEmphasized(row) => PageVEX(f[1]) # 0 /\ ~DeEmphasized(PageVEX(f[1]))

\* A later decision stands, and what the report prints as open is not shown as
\* closed on the findings page (CreateVEXStatement, Resolve, loadClusterVEX).
TriageIsHonest == LaterDecisionStands /\ OpenFindingShows

\* 0004_vex_csaf.sql:20: a triage decision must survive an alias-graph merge. A
\* finding somebody decided about is not reported as untriaged.
DecisionSurvivesMerge ==
  \A f \in findings, i \in StatementIds :
    (forward[statements[i].cluster] = f[1] /\ statements[i].key \in {NoKey, f[2]})
      => Resolve(f[1], f[2]) # 0
=============================================================================
