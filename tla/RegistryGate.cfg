SPECIFICATION MCSpec
CONSTANTS
  Chars <- MCChars
  Fold <- MCFold
  Wildcard = "x"
  Matches = {"plain", "wide", "gid", "gid2", "gidA", "gida", "gids", "imsi", "imsiX", "imsi12", "imsi1", "spnA", "spna", "both", "id1", "id2", "id12"}
  Rules <- MCRules
  Ids = {"idA", "idB", "idC"}
  MaxCounter = 1
  Hash <- MCHash
  Sims <- MCSims
  Digits <- MCDigits
INVARIANTS
  RelationsMeanSims
  AliasesHoldSims
PROPERTIES
  KeepsLedger
