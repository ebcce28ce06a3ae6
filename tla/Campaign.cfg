SPECIFICATION FairSpec
CONSTANTS
  s1 = s1
  s2 = s2
  q = q
  Schedulers = {s1, s2}
  Requests = {q}
  Crons = {1, 2}
  None = none
  Horizon = 4
  MaxMissed = 1
  MaxEdits = 1
  MaxFaults = 1
INVARIANTS
  OneScanPerSlot GapIsRecorded
PROPERTIES
  CatchesUp
CHECK_DEADLOCK FALSE
