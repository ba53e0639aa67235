SPECIFICATION Spec
CONSTANTS
  m1 = m1
  m2 = m2
  s1 = s1
  s2 = s2
  Methods = {m1, m2}
  Services = {s1, s2}
  ServiceOf <- OneEach
  Stoppers = {t1, t2}
  NoMethod = NoMethod
  MaxCalls = 3
INVARIANTS
  TagsAreKept
PROPERTIES
  StopIsSafe
  CallIsHandled
  ShutdownEndsRun
CHECK_DEADLOCK FALSE
