SPECIFICATION Spec
CONSTANTS
  Msgs = {m1, m2}
  Cbs = {cb1, cb2}
  NoCb = NoCb
  ServerErrors = {"DeadlineExceeded"}
  MaxWrites = 4
INVARIANTS
  OneSendInFlight
  SentInOrder
  CallbackTellsVerdict
PROPERTIES
  NothingAfterEnd
  Implements
  CloseIsAnswered
  AcceptedIsSent
CHECK_DEADLOCK FALSE
