SPECIFICATION ListSpec
CONSTANTS
  Id <- MCId
  Name <- MCName
  CacheSize = 2
  MaxName = 2
  Word64 = 268435456
  MaxField = 11
  Options <- MCOptions
  Lists <- MCLists
  Contexts <- MCContexts
INVARIANTS
  Table
  Honest
PROPERTIES
  AskedOnce
CHECK_DEADLOCK FALSE
