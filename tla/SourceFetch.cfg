SPECIFICATION ProducersSpec
CONSTANTS
  c1 = c1
  c2 = c2
  u1 = u1
  u2 = u2
  t1 = t1
  t2 = t2
  v1 = v1
  v2 = v2
  left = left
  right = right
  Projects = {p1}
  Names = {n1}
  ClassSets <- MCClassSets
  Kinds = {"git", "upload", "url"}
  Urls = {u1, u2}
  Tokens = {t1, t2}
  Home <- MCHome
  Versions = {v1, v2}
  Requests = {q1, q2}
  MaxRequests = 2
  None = none
  Fetchers = {f1}
  Jobs = {j1}
  Files = {left, right}
  Tree <- MCTree
  MaxDeliver = 2
  MaxCrashes = 1
  MaxPushes = 1
  Recons = {r1}
  ReconJobs = {j1}
  WebSources <- MCWebSources
  Outputs <- MCOutputs
  Signatures <- MCSignatures
  PagesAt <- MCPagesAt
  Targets <- MCTargets
  BodiesAt <- MCBodiesAt
  Allowlist = {"cdn"}
  MaxRepeat = 3
  ReconTries = 2
  ReconCrashes = 1
SYMMETRY Symmetry
CONSTRAINT Apart
INVARIANTS
  StoreIsConsistent FetchIsHonest DiscoveryIsHonest NeverHangs
CHECK_DEADLOCK FALSE
