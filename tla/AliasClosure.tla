---------------------------- MODULE AliasClosure ----------------------------
(***************************************************************************)
(* axebom_shared.normalize: aliases.close and cluster_store.persist_       *)
(* clusters. A scan's artifacts name vulnerability ids (seeds) and assert  *)
(* that some of them are one vulnerability (edges). Union-find over the    *)
(* edges groups the ids of one scan; persist_clusters then merges these    *)
(* groups into the clusters that all scans share.                          *)
(*                                                                         *)
(* Ids are naturals in their sort order. Clusters are numbered as they are *)
(* minted, the order of the time-ordered uuids of the code.                *)
(***************************************************************************)
EXTENDS Naturals, FiniteSets, FiniteSetsExt, Functions

CONSTANTS
  Ids,            \* normalized vulnerability ids
  CVEs,           \* the ones in the CVE namespace
  Unlisted,       \* the ones in a namespace that vuln_ids refuses
  MaxClusterSize  \* MAX_CLUSTER_SIZE, 12 in the code

ASSUME AliasAssumption ==
  /\ IsFiniteSet(Ids) /\ Ids \subseteq Nat /\ CVEs \subseteq Ids /\ Unlisted \subseteq Ids
  /\ MaxClusterSize \in Nat \ {0}

NoCluster == 0
Clusters == 1..Cardinality(Ids)     \* every cluster is minted for an id of its own

\* An edge is <<a, b, authoritative>> with a < b; a content is what a scan's
\* artifacts say.
Edges == {e \in Ids \X Ids \X BOOLEAN : e[1] < e[2]}
Touched(content) == content.seeds \cup UNION {{e[1], e[2]} : e \in content.edges}

(***************************************************************************)
(* aliases.close: uf maps an id to the root of its group                   *)
(***************************************************************************)
\* One edge per pair, the authoritative one when there is one.
Unique(edges) == {e \in edges : e[3] \/ <<e[1], e[2], TRUE>> \notin edges}

\* Authoritative edges first, then by key.
Before(e, f) ==
  \/ e[3] /\ ~f[3]
  \/ e[3] = f[3] /\ (e[1] < f[1] \/ (e[1] = f[1] /\ e[2] < f[2]))

Group(uf, root) == {i \in DOMAIN uf : uf[i] = root}
Size(uf, i) == Cardinality(Group(uf, uf[i]))

\* Union by size: the larger group's root stays, of equals the first.
Union(uf, a, b) ==
  LET root == IF Size(uf, a) < Size(uf, b) THEN uf[b] ELSE uf[a]
  IN  [i \in DOMAIN uf |-> IF uf[i] \in {uf[a], uf[b]} THEN root ELSE uf[i]]

\* Guard 1: two CVEs are merged by an authoritative edge only.
MayMerge(e) == e[3] \/ ~({e[1], e[2]} \subseteq CVEs)

\* Guard 2: a merge above the ceiling flags both groups instead.
Apply(acc, e) ==
  LET a == e[1]  b == e[2]
  IN  IF ~MayMerge(e) \/ acc.uf[a] = acc.uf[b] THEN acc
      ELSE IF Size(acc.uf, a) + Size(acc.uf, b) > MaxClusterSize
      THEN [acc EXCEPT !.flagged = @ \cup {acc.uf[a], acc.uf[b]}]
      ELSE [acc EXCEPT !.uf = Union(acc.uf, a, b)]

\* The edges one after another; the one of them that comes last.
LastEdge(edges) == CHOOSE e \in edges : \A f \in edges \ {e} : Before(f, e)
ApplyAll(start, edges) ==
  LET after[done \in SUBSET edges] ==
        IF done = {} THEN start
        ELSE Apply(after[done \ {LastEdge(done)}], LastEdge(done))
  IN  after[edges]

Close(content) ==
  LET closed == ApplyAll([uf |-> [i \in Touched(content) |-> i], flagged |-> {}],
                         Unique(content.edges))
  IN  [closed EXCEPT !.flagged = {closed.uf[r] : r \in @}]

(***************************************************************************)
(* The tables of the cluster graph, as one record:                         *)
(*   idOf     vuln_ids: the cluster an id was attached to                  *)
(*   forward  vuln_cluster_merges: where a cluster was merged into         *)
(*   count, flagged, next   vuln_clusters: member_count, flagged_for_review*)
(***************************************************************************)
NoGraph == [idOf |-> [i \in Ids |-> NoCluster], forward |-> [c \in Clusters |-> c],
            count |-> [c \in Clusters |-> 0], flagged |-> {}, next |-> 1]

\* normalize.resolve_cluster follows the forwarding rows to the end. It gives up
\* after 64, more than there are clusters in a small graph.
Resolve(g, c) ==
  LET end[d \in Clusters] == IF g.forward[d] = d THEN d ELSE end[g.forward[d]]
  IN  end[c]

Known(g) == {i \in Ids : g.idOf[i] # NoCluster}

\* _true_member_count and _resolved_members: every id that resolves to c.
Members(g, c) == {i \in Known(g) : Resolve(g, g.idOf[i]) = Resolve(g, c)}

\* Slip: the members are those attached to c itself.
DirectMembers(g, roots) == UNION {{i \in Known(g) : g.idOf[i] = c} : c \in roots}

\* The members that a merge of these clusters would have to begin with.
MembersOf(g, roots) == UNION {Members(g, c) : c \in roots}

\* _attach_members: an id that is in a cluster stays in it.
Attach(g, c, ids) ==
  [g EXCEPT !.idOf = [i \in Ids |-> IF i \in ids /\ @[i] = NoCluster THEN c ELSE @[i]]]

\* _insert_cluster and its members.
NewCluster(g, ids, flag) ==
  [Attach(g, g.next, ids) EXCEPT
     !.count[g.next] = Cardinality(ids), !.next = @ + 1,
     !.flagged = IF flag THEN @ \cup {g.next} ELSE @]

\* _write_forwarding_row for every root but the winner.
Forward(g, roots, winner) ==
  [g EXCEPT !.forward = [c \in Clusters |-> IF c \in roots THEN winner ELSE @[c]]]

\* An accepted merge: forward, attach, recount.
Merge(g, roots, new, flag) ==
  LET winner == Min(roots)
      merged == Attach(Forward(g, roots, winner), winner, new)
  IN  [merged EXCEPT !.count[winner] = Cardinality(Members(merged, winner)),
                     !.flagged = IF flag THEN @ \cup {winner} ELSE @ \ {winner}]

\* A result with more entries.
Extended(old, new) ==
  [i \in DOMAIN old \cup DOMAIN new |-> IF i \in DOMAIN new THEN new[i] ELSE old[i]]

\* Slip: the clusters are taken as they were stored.
PriorIds(g, existing, ids) == {existing[m] : m \in ids}

\* The clusters that known ids belong to now.
ResolvedRoots(g, existing, ids) == {Resolve(g, existing[m]) : m \in ids}

\* One group of the scan against the graph. acc.result is the cluster each id
\* is reported under, acc.review the clusters to flag when all groups are done.
PersistGroup(acc, existing, members, flag) ==
  LET g == acc.graph
      new == {m \in members : existing[m] = NoCluster}
      roots == ResolvedRoots(g, existing, members \ new)
      told(c) == Extended(acc.result, [m \in members |-> c])
  IN  IF roots = {}
      THEN [acc EXCEPT !.graph = NewCluster(g, new, flag), !.result = told(g.next)]
      ELSE IF Cardinality(roots) = 1 /\ new = {}
      THEN [acc EXCEPT !.result = told(Min(roots))]
      ELSE IF Cardinality(MembersOf(g, roots)) + Cardinality(new) > MaxClusterSize
      THEN [graph |-> IF new = {} THEN g ELSE NewCluster(g, new, TRUE),
            result |-> Extended(acc.result, [m \in members |-> IF m \in new THEN g.next ELSE existing[m]]),
            review |-> acc.review \cup roots]
      ELSE [acc EXCEPT !.graph = Merge(g, roots, new, flag),
                       !.result = told(Min(roots))]

\* persist_clusters: the groups by root, then the flags.
PersistAll(graph, existing, closed) ==
  LET after[done \in SUBSET Range(closed.uf)] ==
        IF done = {} THEN [graph |-> graph, result |-> <<>>, review |-> {}]
        ELSE PersistGroup(after[done \ {Max(done)}], existing,
                          Group(closed.uf, Max(done)), Max(done) \in closed.flagged)
  IN  after[Range(closed.uf)]

Persist(graph, existing, content) ==
  LET done == PersistAll(graph, existing, Close(content))
  IN  [graph |-> [done.graph EXCEPT !.flagged = @ \cup done.review],
       result |-> done.result]

\* pipeline.normalize: the closure again, each group under the lowest cluster
\* that its members are reported under.
Documented(result, content) ==
  LET uf == Close(content).uf
  IN  [s \in content.seeds |-> Min({result[m] : m \in Group(uf, uf[s])})]
=============================================================================
