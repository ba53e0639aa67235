SPECIFICATION Spec
CONSTANTS
  Watchers = {w1, w2}
  Reader = r
  NoStatus = NoStatus
  MaxWrites = 2
INVARIANTS
  ReaderEndsOnce
  OkMeansAllHandled
PROPERTIES
  CloseReturns
CHECK_DEADLOCK FALSE
