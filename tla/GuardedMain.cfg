SPECIFICATION MCFairSpec
CONSTANTS
  p1 = p1
  p2 = p2
  Folded <- MCFolded
  Placeholders = {"blank"}
  EmergencyNames = {"sos"}
  MmsNetworkTypes = {2, 13}
  Iwlan = 18
  OtherNetworkTypes = {14}
  Lte = 13
  Scopes = {"net", "mvno"}
  Host <- MCHost
  PersistScopes = {}
  MmscKey <- MCMmscKey
  RowsIn <- MCRowsIn
  PRs = {p1, p2}
  Files <- MCFiles
  Absent = 0
  TripsOf <- MCTripsOf
  RolesOf <- MCRolesOf
  PushFiles <- MCPushFiles
  FirstFiles <- MCFiles
  MaxCommits <- MCMaxCommits
  Dispatched = {p1}
  MaxMain = 3
  MaxRuns = 1
  Lanes = {"daily", "weekly"}
  GraceLanes = {"daily"}
  LaneLimit <- MCLaneLimit
  MaxAge = 1
  WindowDays = 1
  RealDate = RealDate
  Simulated = {2}
  MaxDate = 2
  MaxHands = 2
INVARIANTS
  LossesWereAccepted
  LandedLinesStood
  PassedOnItsOwnBody
  ReportTellsAll
PROPERTIES
  AlarmSettles
CHECK_DEADLOCK FALSE
