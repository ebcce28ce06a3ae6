SPECIFICATION Spec
CONSTANTS
  a1 = a1
  a2 = a2
  Clusters <- MCClusters
  Keys <- MCKeys
  Decisions <- MCDecisions
  Authors = {a1, a2}
  MaxStatements = 3
  Lists <- MCLists
  MaxDepth = 1
  Writers = {a1, a2}
  MaxRequests = 3
  MaxScans = 2
  MaxDocuments = 2
  Reports = {"r1", "r2"}
  People = {"u1", "u2"}
  MaxReplyDepth = 1
  Clients = {a1, a2}
  MaxPosts = 4
  Wishes <- MCLoneConsumer
  Overrides <- MCOverrides
  Scans = {"s1"}
  web = web
  mail = mail
  c1 = c1
  ev = ev
  Subs = {web, mail}
  Kind <- MCKind
  Filter <- MCFilter
  Messages = {ev}
  Events = {"scan.completed", "report.ready", "unheard.of"}
  Consumers = {c1}
  Pollers = {a1, a2}
  MaxAttempts = 2
  MaxDeliver = 2
  BatchSize = 2
  MaxRows = 2
  MaxEdits = 1
  MaxFaults = 1
  SchemeOf <- MCSchemeOf
  Statements <- MCStatements
  DecisionLists <- MCDecisionLists
  RawDocuments <- MCRawDocuments
SYMMETRY ActorSymmetry
INVARIANTS
  ConsumerIsNotStranded
CHECK_DEADLOCK FALSE
