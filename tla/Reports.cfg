SPECIFICATION ReportsSpec
CONSTANTS
  w1 = w1
  w2 = w2
  l1 = l1
  v1 = v1
  v2 = v2
  Uncapped = Uncapped
  Workers = {w1, w2}
  MaxVersion = 2
  MaxDeliver = 2
  MaxFaults = 1
  Links = {l1}
  Visitors = {v1, v2}
  Caps = {1}
  MaxVisits = 2
  EngineOrder <- MCEngineOrder
  GraphTrust <- MCGraphTrust
  ClusterOf <- MCClusterOf
  Fields <- MCFields
  Payloads <- MCPayloads
  Levels <- MCLevels
  MaxComponents = 6
  MaxFindings = 4
  ProfileFields <- MCProfileFields
  DeviceFields <- MCDeviceFields
  PracticeFields <- MCPracticeFields
  VexFields <- MCVexFields
  Sources <- MCSources
  MaxCell = 4
  RowLimit = 14
  RowsPerPage = 2
  PageCap = 8
INVARIANTS
  ReadyReportStands SharingIsAccounted ReportIsFaithful DocumentIsSound

  
CHECK_DEADLOCK FALSE
