SPECIFICATION FairSpec
CONSTANTS
  Path <- MCPath
  Kids <- MCKids
  May <- MCMay
  Rank <- MCRank
  Hidden <- MCHidden
  Dots <- MCDots
  NoDir = NoDir
  ArgSets <- MCArgSets
  OperandLists <- MCOperandLists
INVARIANTS
  TypeOK
  Ownership
  SiblingsInOrder
  Labelled
  Separated
  ExitZeroMeansComplete
PROPERTIES
  TraversalSpec
  Termination
CHECK_DEADLOCK FALSE
