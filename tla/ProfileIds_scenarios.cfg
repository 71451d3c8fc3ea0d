SPECIFICATION MCSpec
CONSTANTS
  Chars <- MCChars
  Fold <- MCFold
  Wildcard = "x"
  Matches = {"gid1", "gid2", "both", "clash", "wide", "upper", "lower"}
  Rules <- MCRules
  Ids <- MCIds
  MaxCounter = 2
  Hash <- MCHash
  Starts <- MCStarts
  Yields <- ScenarioYields
  Builders = {"b1", "b2"}
  MaxLandings = 3
  LandingsADay = 2
INVARIANTS
  WriterMeetsChecks
  ProposalsApply
  PublishedMergeNeverCarries
  IdsStayApart
PROPERTIES
  FreshAliasesNameLive
  KeepsLedger
CHECK_DEADLOCK FALSE
