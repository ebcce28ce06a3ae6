SPECIFICATION Spec
CONSTANTS
  syft = syft
  grype = grype
  fetcher = fetcher
  none = none
  h1 = h1
  h2 = h2

  Engines = {syft, grype}
  SbomEngines = {syft, grype}
  NoEngine = none
  Fetcher = fetcher
  Commits = {c1}
  NoCommit = none
  Outcomes <- RecordedOutcomes
  ProducerOf <- MCProducerOf
  Handlers = {h1, h2}
  NoMsg = none
  MaxDeliver = 2
  MaxCopies = 2
  Duplicated = {syft}
  MaxFaults = 1
  MayCancel = TRUE
SYMMETRY HandlerSymmetry
INVARIANTS
  CompletedIsHonest  
CHECK_DEADLOCK FALSE
