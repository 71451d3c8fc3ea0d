SPECIFICATION Spec
CONSTANTS
  Chars <- MCChars
  Fold <- MCFold
  Wildcard = "x"
  JavaFold <- MCJavaFold
  Wildcards <- MCWildcards
  AospRules <- MCAospRules
  PatternKeys = {"emergency"}
  NamedKeys = {"named"}
  NeverLeave = {}
  ImsiLength = 3
  IccidLength = 4
  Zero = "0"
  One = "1"
  Inputs <- MCInputs
INVARIANT
  TiesCoupleAlike
CHECK_DEADLOCK FALSE
