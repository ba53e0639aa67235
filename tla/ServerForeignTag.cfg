SPECIFICATION Spec
CONSTANTS
  m1 = m1
  m2 = m2
  s1 = s1
  s2 = s2
  Methods = {m1}
  Services = {s1}
  ServiceOf <- OfFirst
  Stoppers = {t1}
  NoMethod = NoMethod
  MaxCalls = 1
INVARIANT OnlyTagsComplete
CHECK_DEADLOCK FALSE
