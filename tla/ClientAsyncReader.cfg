SPECIFICATION Spec
CONSTANTS
  Messages = {m1, m2}
  ServerErrors = {"ServerError"}
  NoStatus = NoStatus
  MaxMsgs = 3
INVARIANTS
  DeliveredInOrder
  OneVerdict
  ServerStatusMeansAll
PROPERTIES
  EndIsTold
CHECK_DEADLOCK FALSE
