SPECIFICATION FairSpec
CONSTANTS
  syft = syft
  grype = grype
  fetcher = fetcher
  none = none
  h1 = h1
  h2 = h2

  Engines = {syft, grype}
  SbomEngines = {syft, grype}
  NoEngine = none
  Fetcher = fetcher
  Commits = {c1, c2}
  NoCommit = none
  Outcomes <- RecordedOutcomes
  ProducerOf <- MCProducerOf
  Handlers = {h1}
  NoMsg = none
  MaxDeliver = 2
  MaxCopies = 2
  Duplicated = {fetcher, syft}
  MaxFaults = 0
  MayCancel = FALSE
INVARIANTS
  SameCommit DependentFollowsProducer
PROPERTIES
  KeepsContract 
CHECK_DEADLOCK FALSE
