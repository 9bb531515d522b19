SPECIFICATION Spec
CONSTANTS
  Word = 64
  MaxAlloc = 3
  MaxAllocs = 8
INVARIANTS
  Owned
  SameSequence
CHECK_DEADLOCK FALSE
