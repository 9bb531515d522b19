SPECIFICATION FairSpec
CONSTANTS
  StackSize = 1
  Word = 32
  PathMax = 4
  MaxCap = 13
  Sizes <- MCSizes
  Targets <- MCTargets
  MaxFiles = 2
INVARIANTS
  MarkRight
  NeverTruncated
  OnlyFields
PROPERTIES
  Returns
CHECK_DEADLOCK FALSE
