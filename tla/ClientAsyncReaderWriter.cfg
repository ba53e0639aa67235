SPECIFICATION Spec
CONSTANTS
  MsgCbCalls <- AllCalls
  ErrorCbCalls <- AllCalls
  EndCbCalls <- AllCalls
  MaxWrites = 3
  MaxReads = 2
INVARIANTS
  StatusCbOnce
  BatchesInOrder
  OkMeansBothEnded
PROPERTIES
  AssertsHold
  NothingSentAfterError
  EndIsTold
CHECK_DEADLOCK FALSE
