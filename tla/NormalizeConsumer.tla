------------------------- MODULE NormalizeConsumer -------------------------
(***************************************************************************)
(* workers/sbom/normalize_consumer: replicas of the normalize consumer     *)
(* turn each scan's trigger into a BOM document, over the cluster graph of *)
(* AliasClosure that all scans share.                                      *)
(*                                                                         *)
(* Each transaction is a step, except that of persist_clusters, which is   *)
(* two: its lock and its reads, and its writes.                            *)
(***************************************************************************)
EXTENDS AliasClosure

CONSTANTS
  Scans,        \* scans, each with one trigger
  Contents,     \* what the artifacts of a scan may say
  Consumers,    \* replicas of the consumer
  MAX_DELIVER,  \* deliveries of a trigger, 4 in the code
  MaxFailures   \* bound on crashes, failed calls and late answers

ASSUME NormalizeAssumption ==
  /\ MAX_DELIVER \in Nat \ {0} /\ MaxFailures \in Nat /\ "nobody" \notin Consumers
  /\ \A said \in Contents : said.seeds \subseteq Ids /\ said.edges \subseteq Edges

VARIABLES
  content,    \* per scan: what its artifacts say
  trigger,    \* per scan: ready, out, acked, dlq, lost (terminated, and the DLQ
              \* publish failed), spent (no delivery left)
  deliveries, \* per scan: deliveries so far
  graph,      \* the tables of the cluster graph
  lock,       \* who holds the advisory lock
  document,   \* the documents: scan -> seed -> cluster as written
  refused,    \* scans whose document exceeded a cap
  work,       \* per consumer: what it is doing
  broken,     \* consumers whose one database connection is gone
  seen,       \* alias edges that were persisted
  failures

vars == <<content, trigger, deliveries, graph, lock, document, refused, work,
          broken, seen, failures>>

Nobody == "nobody"
Idle == [at |-> "idle"]

Init ==
  /\ content \in [Scans -> Contents]
  /\ trigger = [s \in Scans |-> "ready"] /\ deliveries = [s \in Scans |-> 0]
  /\ graph = NoGraph /\ lock = Nobody
  /\ document = <<>> /\ refused = {}
  /\ work = [c \in Consumers |-> Idle] /\ broken = {} /\ seen = {} /\ failures = 0

Failure == failures < MaxFailures /\ failures' = failures + 1
Scan(c) == work[c].scan
Written(s) == s \in DOMAIN document
Does(c, label) == work' = [work EXCEPT ![c] = [at |-> label, scan |-> @.scan]]
Free(c) == IF lock = c THEN Nobody ELSE lock

\* _run: the consumer takes one message at a time.
TakeTrigger(c, s) ==
  /\ work[c] = Idle /\ trigger[s] = "ready"
  /\ trigger' = [trigger EXCEPT ![s] = "out"]
  /\ deliveries' = [deliveries EXCEPT ![s] = @ + 1]
  /\ work' = [work EXCEPT ![c] = [at |-> "check", scan |-> s]]
  /\ UNCHANGED <<content, graph, lock, document, refused, broken, seen, failures>>

\* handle_trigger begins with a look for the document of an earlier delivery.
\* Artifacts that name no vulnerability skip the cluster graph.
Check(c) ==
  /\ work[c].at = "check" /\ c \notin broken
  /\ \/ Written(Scan(c)) /\ Does(c, "ack")
     \/ /\ ~Written(Scan(c)) /\ Touched(content[Scan(c)]) # {}
        /\ Does(c, "lock")
     \/ /\ ~Written(Scan(c)) /\ Touched(content[Scan(c)]) = {}
        /\ work' = [work EXCEPT ![c] = [at |-> "write", scan |-> @.scan, result |-> <<>>]]
  /\ UNCHANGED <<content, trigger, deliveries, graph, lock, document, refused,
                 broken, seen, failures>>

Reads(c) ==
  work' = [work EXCEPT ![c] = [at |-> "persist", scan |-> @.scan,
             existing |-> [i \in Touched(content[@.scan]) |-> graph.idOf[i]]]]

\* Slip: the known clusters are read without the lock.
ReadUnlocked(c) ==
  /\ work[c].at = "lock" /\ c \notin broken /\ Reads(c)
  /\ UNCHANGED <<content, trigger, deliveries, graph, lock, document, refused,
                 broken, seen, failures>>

\* persist_clusters: the advisory lock before any read.
Lock(c) ==
  /\ work[c].at = "lock" /\ c \notin broken /\ lock = Nobody
  /\ lock' = c /\ Reads(c)
  /\ UNCHANGED <<content, trigger, deliveries, graph, document, refused, broken,
                 seen, failures>>

\* The writes and the commit, which frees the lock. An id in a namespace that
\* vuln_ids does not list makes the transaction fail as a whole.
PersistClusters(c) ==
  LET said == content[Scan(c)]
      done == Persist(graph, work[c].existing, said)
  IN /\ work[c].at = "persist" /\ c \notin broken /\ lock' = Free(c)
     /\ \/ /\ Touched(said) \cap Unlisted = {}
           /\ graph' = done.graph /\ seen' = seen \cup said.edges
           /\ work' = [work EXCEPT ![c] = [at |-> "write", scan |-> @.scan,
                                           result |-> done.result]]
        \/ Touched(said) \cap Unlisted # {} /\ Does(c, "fail") /\ UNCHANGED <<graph, seen>>
     /\ UNCHANGED <<content, trigger, deliveries, document, refused, broken, failures>>

\* _mint_alias_snapshot, normalize and write_bom_document. A second document of
\* the scan is an exception; one over a cap is logged and acked.
WriteDocument(c) ==
  LET s == Scan(c)
  IN /\ work[c].at = "write" /\ c \notin broken
     /\ \/ /\ ~Written(s) /\ Does(c, "ack")
           /\ document' = [t \in DOMAIN document \cup {s} |->
                            IF t = s THEN Documented(work[c].result, content[s]) ELSE document[t]]
           /\ UNCHANGED refused
        \/ /\ ~Written(s) /\ Does(c, "ack")
           /\ refused' = refused \cup {s} /\ UNCHANGED document
        \/ Written(s) /\ Does(c, "fail") /\ UNCHANGED <<document, refused>>
     /\ UNCHANGED <<content, trigger, deliveries, graph, lock, broken, seen, failures>>

\* A statement on a connection that is gone raises, also in every later trigger:
\* the process never reconnects.
FailBroken(c) ==
  /\ c \in broken /\ work[c].at \in {"check", "lock", "persist", "write"}
  /\ Does(c, "fail")
  /\ UNCHANGED <<content, trigger, deliveries, graph, lock, document, refused,
                 broken, seen, failures>>

Settled(s) == trigger[s] \in {"acked", "dlq", "lost"}

\* _dispatch on an exception: a copy to the DLQ, and the message is terminated
\* also when the copy could not be published. Nothing ever raises Retry.
ToDlq(c) ==
  /\ work[c].at = "fail" /\ work' = [work EXCEPT ![c] = Idle]
  /\ \/ trigger' = [trigger EXCEPT ![Scan(c)] = IF @ = "acked" THEN @ ELSE "dlq"]
        /\ UNCHANGED failures
     \/ /\ Failure
        /\ trigger' = [trigger EXCEPT ![Scan(c)] = IF @ \in {"acked", "dlq"} THEN @ ELSE "lost"]
  /\ UNCHANGED <<content, deliveries, graph, lock, document, refused, broken, seen>>

AckTrigger(c) ==
  /\ work[c].at = "ack" /\ work' = [work EXCEPT ![c] = Idle]
  /\ trigger' = [trigger EXCEPT ![Scan(c)] = IF Settled(Scan(c)) THEN @ ELSE "acked"]
  /\ UNCHANGED <<content, deliveries, graph, lock, document, refused, broken, seen, failures>>

\* The ack wait passes: a fault when a consumer is still at it.
TriggerWaitPasses(s) ==
  /\ trigger[s] = "out"
  /\ \/ (\E c \in Consumers : work[c] # Idle /\ Scan(c) = s) /\ Failure
     \/ (\A c \in Consumers : work[c] # Idle => Scan(c) # s) /\ UNCHANGED failures
  /\ trigger' = [trigger EXCEPT ![s] = IF deliveries[s] < MAX_DELIVER THEN "ready" ELSE "spent"]
  /\ UNCHANGED <<content, deliveries, graph, lock, document, refused, work, broken, seen>>

\* The connection is lost: an open transaction is rolled back, its lock freed.
ConnectionLost(c) ==
  /\ c \notin broken /\ Failure /\ broken' = broken \cup {c} /\ lock' = Free(c)
  /\ UNCHANGED <<content, trigger, deliveries, graph, document, refused, work, seen>>

\* A consumer dies and is started again, with a new connection.
Crash(c) ==
  /\ work[c] # Idle /\ Failure
  /\ work' = [work EXCEPT ![c] = Idle] /\ lock' = Free(c) /\ broken' = broken \ {c}
  /\ UNCHANGED <<content, trigger, deliveries, graph, document, refused, seen>>

-----------------------------------------------------------------------------
Step(c) ==
  \/ Check(c) \/ Lock(c) \/ PersistClusters(c) \/ WriteDocument(c)
  \/ FailBroken(c) \/ ToDlq(c) \/ AckTrigger(c) \/ \E s \in Scans : TakeTrigger(c, s)

Next ==
  \/ \E c \in Consumers : Step(c) \/ ConnectionLost(c) \/ Crash(c)
  \/ \E s \in Scans : TriggerWaitPasses(s)

Spec == Init /\ [][Next]_vars

-----------------------------------------------------------------------------
(***************************************************************************)
(* Properties                                                              *)
(***************************************************************************)
ConsumerStages == {"check", "lock", "fail", "ack"}
\* The cluster that each known id resolves to.
RootOf(g) == [i \in Known(g) |-> Resolve(g, g.idOf[i])]

\* The state is well formed, and the lock is held by who is between its reads
\* and its writes.
TypeOK ==
  /\ trigger \in [Scans -> {"ready", "out", "acked", "dlq", "lost", "spent"}]
  /\ deliveries \in [Scans -> 0..MAX_DELIVER]
  /\ graph.idOf \in [Ids -> Clusters \cup {NoCluster}]
  /\ graph.forward \in [Clusters -> Clusters] /\ graph.flagged \subseteq Clusters
  /\ graph.next \in 1..(Cardinality(Ids) + 1)
  /\ lock \in Consumers \cup {Nobody} /\ refused \subseteq Scans /\ broken \subseteq Consumers
  /\ \A c \in Consumers :
       \/ work[c] = Idle
       \/ Scan(c) \in Scans /\ work[c].at \in ConsumerStages \cup {"persist", "write"}
  /\ \A c \in Consumers \ broken : work[c].at = "persist" <=> lock = c
  /\ failures \in 0..MaxFailures

\* No cluster outgrows the ceiling across scans, whatever groups the scans join
\* and whatever was forwarded to it before (cluster_store.py:305).
ClusterCapHolds ==
  LET root == RootOf(graph)
  IN  \A c \in Range(root) : Cardinality(Group(root, c)) <= MaxClusterSize

\* The stored member count is the number of ids that resolve to the cluster
\* (cluster_store.py:357).
CountIsTrue ==
  LET root == RootOf(graph)
  IN  \A c \in Range(root) : graph.count[c] = Cardinality(Group(root, c))

\* What persist_clusters returned stays true while other scans merge: the
\* cluster a consumer is about to write under an id resolves to the id's own
\* (cluster_store.py:233).
ResultIsDurable ==
  \A c \in Consumers : work[c].at = "write" =>
    \A i \in DOMAIN work[c].result :
      Resolve(graph, work[c].result[i]) = Resolve(graph, graph.idOf[i])

Linked(i, j) == <<i, j, TRUE>> \in seen \/ <<j, i, TRUE>> \in seen
Near(i) == {j \in Ids : Linked(i, j) \/ (~({i, j} \subseteq CVEs)
                                    /\ (<<i, j, FALSE>> \in seen \/ <<j, i, FALSE>> \in seen))}
Reach(i) ==
  LET ball[n \in 0..Cardinality(Ids)] ==
        IF n = 0 THEN {i}
        ELSE LET b == ball[n - 1] IN b \cup UNION {Near(j) : j \in b}
  IN  ball[Cardinality(Ids)]

\* Two ids are one vulnerability only when edges that some scan's artifacts
\* asserted lead from one to the other, and never from a CVE to a CVE without an
\* authoritative source (aliases.py:295, ADR-0005).
MergesJustified ==
  LET root == RootOf(graph)
  IN  \A i, j \in Known(graph) : i < j /\ root[i] = root[j] => j \in Reach(i)

\* Ids that were one vulnerability stay one: no later scan, merge or refusal
\* takes them apart, so what a report cited still resolves (ADR-0005).
NeverSplit ==
  [][LET now == RootOf(graph)  then == RootOf(graph')
     IN  \A i, j \in Known(graph) : now[i] = now[j] => then[i] = then[j]]_vars

\* The document of a scan is written once: a redelivery that races a slow
\* replica never replaces what readers have seen (normalize_consumer.py:214).
DocumentIsFinal ==
  [][\A s \in DOMAIN document : Written(s)' /\ document'[s] = document[s]]_vars

\* A trigger is acked only for a document that is written or was refused for
\* its size, also when replicas race over one trigger (normalize_consumer.py:416).
AckedIsWritten == \A s \in Scans : trigger[s] = "acked" => Written(s) \/ s \in refused

\* The alias graph that all scans share is what its edges justify, within the
\* ceiling, and counts its members rightly (close, persist_clusters).
GraphStaysSound == TypeOK /\ ClusterCapHolds /\ CountIsTrue /\ MergesJustified

\* What a consumer writes is true when it writes it, and a trigger it acks is
\* answered by a document or a refusal (persist_clusters, _dispatch).
WritesAreSound == ResultIsDurable /\ AckedIsWritten

\* Nothing that readers have seen is taken back (persist_clusters, handle_trigger).
NothingIsTakenBack == NeverSplit /\ DocumentIsFinal
=============================================================================
