SPECIFICATION Spec
CONSTANTS
  Writers = {t1}
  Readers = {t1, t2}
  MaxWrites = 1
  MaxMsgs = 2
INVARIANTS
  OkMeansAllRead
  ErrorBreaksCalls
PROPERTIES
  BlockedCallReturns
CHECK_DEADLOCK FALSE
