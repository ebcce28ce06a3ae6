SPECIFICATION Spec
CONSTANTS
  s1 = s1  s2 = s2  s3 = s3  c1 = c1  c2 = c2
  Scans = {s1, s2, s3}
  Consumers = {c1, c2}
  Ids <- MCIds
  CVEs <- MCCVEs
  Unlisted <- MCUnlisted
  Contents <- MCContents
  MaxClusterSize = 3
  MAX_DELIVER = 2
  MaxFailures = 1
SYMMETRY Symmetric
INVARIANTS
  GraphStaysSound 
PROPERTIES
  NothingIsTakenBack
CHECK_DEADLOCK FALSE
