SPECIFICATION FairSpec
CONSTANTS
  Cap = 3
  MaxBytes = 8
  MaxNotes = 2
INVARIANTS
  TypeOK
  NoLossNoDuplicate
  NoOverflow
  SuccessMeansDelivered
  FailureHasCause
PROPERTIES
  MessagesInPlace
  StreamSpec
  CallsReturn
CHECK_DEADLOCK FALSE
