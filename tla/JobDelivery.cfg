SPECIFICATION FairSpec
CONSTANTS
  r1 = r1
  r2 = r2
  o1 = o1
  o2 = o2
  Workers = {r1, r2}
  Contents = {o1, o2}
  None = none
  Torn = torn
  MaxDeliver = 3
  MaxFaults = 2
INVARIANTS
  AckedIsPublished ReplaysAgree OneDocument
PROPERTIES
  JobSettles
CHECK_DEADLOCK FALSE
