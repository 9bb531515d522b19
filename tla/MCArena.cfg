SPECIFICATION FairSpec
CONSTANTS
  Address = {a1, a2, a3}
  NULL = NULL
  Align = 2
  BlockSize = 4
  Sizes = {1, 3, 5}
  MaxLive = 4
  MaxMarks = 2
INVARIANTS
  WellFormed
  Separate
PROPERTIES
  CallsReturn
CHECK_DEADLOCK FALSE
