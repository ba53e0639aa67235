SPECIFICATION Spec
CONSTANTS
  Threads = {t1, t2}
  MaxRequests = 2
INVARIANTS
  ToldOnce
  NothingLeftBehind
PROPERTIES
  AsyncIsAnswered
  SyncReturns
  ShutdownEndsRuns
CHECK_DEADLOCK FALSE
