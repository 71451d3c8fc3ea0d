SPECIFICATION MCFairSpec
CONSTANTS
  PullRequests = {"p1", "p2"}
  MaxMain = 2
  MaxMoves = 2
INVARIANTS
  OutcomesAreTrue
PROPERTIES
  PushesBringMain
  StopIsTold
  QuietRunRefreshes
CHECK_DEADLOCK FALSE
