SPECIFICATION Spec
CONSTANTS
  MsgCbCalls <- AllCalls
  ErrorCbCalls <- AllCalls
  EndCbCalls <- AllCalls
  MaxWrites = 1
  MaxReads = 1
INVARIANT
  AssertsNeverFail
CHECK_DEADLOCK FALSE
