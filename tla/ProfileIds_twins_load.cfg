SPECIFICATION Spec
CONSTANTS
  Chars <- MCChars
  Fold <- MCFold
  Wildcard = "x"
  Matches = {"upper", "lower"}
  Rules <- MCRules
  Ids <- MCIds
  MaxCounter = 2
  Hash <- MCHash
  Starts <- MCStarts
  Yields <- AnyYield
  Builders = {b1}
  MaxLandings = 1
  LandingsADay = 2
INVARIANTS
  MainLoads
