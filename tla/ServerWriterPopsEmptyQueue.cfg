SPECIFICATION Spec
CONSTANTS
  Callers = {t1, t2}
  Pollers = {p}
  Statuses = {OK, Err}
  OKStatus = OK
  NoStatus = NoStatus
  InitialHigh = 1
  HighSizes = {0}
  MaxWrites = 3
INVARIANT QueueClearedOnError
CHECK_DEADLOCK FALSE
