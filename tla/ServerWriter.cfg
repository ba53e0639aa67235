SPECIFICATION Spec
CONSTANTS
  Callers = {t1, t2}
  Pollers = {t1}
  Statuses = {OK, Err}
  OKStatus = OK
  NoStatus = NoStatus
  InitialHigh = 1
  HighSizes = {0}
  MaxWrites = 4
INVARIANTS
  OneSendInFlight
  StreamInOrder
  SyncedIsSent
  Backpressure
PROPERTIES
  ImplementsStream
  CloseIsFinal
  BlockedCallReturns
  ClosesInTheEnd
CHECK_DEADLOCK FALSE
