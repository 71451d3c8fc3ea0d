SPECIFICATION Spec
CONSTANTS
  Folded <- MCFolded
  Placeholders = {"blank"}
  EmergencyNames = {"sos"}
  MmsNetworkTypes = {2, 13}
  Iwlan = 18
  OtherNetworkTypes = {14}
  Lte = 13
  OperatorPages = {}
  StarGateTypes = {13, 18}
  Scopes <- MCScopes
INVARIANTS
  PhoneModelsAgree
  EmergencyCovered
  EveryApnStays
  CopyFillsGapsOnly
  RolesKept
  InternetUnmoved
CHECK_DEADLOCK FALSE
