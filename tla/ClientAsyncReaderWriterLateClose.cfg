SPECIFICATION Spec
CONSTANTS
  MsgCbCalls <- NoCalls
  ErrorCbCalls <- NoCalls
  EndCbCalls <- NoCalls
  MaxWrites = 1
  MaxReads = 1
PROPERTY
  BothEndedIsTold
CHECK_DEADLOCK FALSE
