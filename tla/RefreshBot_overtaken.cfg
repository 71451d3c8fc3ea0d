SPECIFICATION FairSpec
CONSTANTS
  PullRequests = {"p1"}
  MaxMain = 2
  MaxMoves = 0
PROPERTIES
  NewestMainReaches
CHECK_DEADLOCK FALSE
