SPECIFICATION Spec
CONSTANTS
  Path <- MCPath
  Kids <- MCKids
  May <- MCMay
  Rank <- MCRank
  Hidden <- MCHidden
  Dots <- MCDots
  NoDir = NoDir
  ArgSets <- MCArgSets
  OperandLists <- MCOperandLists
PROPERTIES
  ExitNeverLowered
CHECK_DEADLOCK FALSE
