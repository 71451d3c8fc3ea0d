SPECIFICATION MCSpec
CONSTANTS
  Rows <- MCRows
  AllLines <- MCAllLines
  Lines <- MCLines
  Contexts <- MCContexts
  Held <- MCHeld
  RulesOf <- MCRulesOf
  Start <- MCStart
  Older <- MCOlder
  Branches = {b1, b2}
  MaxHistory = 4
SYMMETRY BranchSymmetry
INVARIANTS
  NeverStranded
  ChangesWereRead
  ChainIsHistory
PROPERTIES
  RulesStay
CHECK_DEADLOCK FALSE
