SPECIFICATION Spec
CONSTANTS
  Argument <- MCArgument
  MaxArgs = 4
INVARIANTS
  ParsedAsGiven
  StringsOwned
CHECK_DEADLOCK FALSE
