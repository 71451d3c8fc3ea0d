SPECIFICATION MCFairSpec
CONSTANTS
  Accounts = {"a", "b"}
  Texts <- MCTexts
  NoReport = "none"
  Cell <- MCCell
  Place <- MCPlace
  TestedOn <- MCTestedOn
  Profile <- MCProfile
  Device <- MCDevice
  Results <- MCResults
  Suspect = {"t4"}
  HoldDays = 1
  ExpireDays = 1
  MonthlyCap = 1
  DaysAMonth = 2
  MaxIssues = 3
  MaxDay = 2
  MaxMoves = 2
INVARIANTS
  OneCounts
  CapHolds
PROPERTIES
  TimeOnlyAdvances
  MainCatchesUp
  FindingsAreReviewed
