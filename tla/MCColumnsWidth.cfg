SPECIFICATION Spec
CONSTANTS
  Lengths = {1, 3, 5, 9}
  MaxFiles = 5
  Terms = {4, 9, 20, 27}
INVARIANTS
  FitsTerminal
CHECK_DEADLOCK FALSE
