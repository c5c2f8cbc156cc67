CONSTANTS
  c1 = c1  c2 = c2  o1 = o1  o2 = o2
  MaxArgs = 6
  MaxMsg = 13
  ErrText <- MCErrText
  Spelling <- MCSpelling
  Dbl <- MCNumbers
  Int64 <- MCNumbers
  ZSetObj = {}
  NULL = NULL
  Client = {c1, c2}
  Request <- MCRequest
  Conn = {o1, o2}
  NFds = 2
  MaxBacklog = 2
  SockCap = 2
SPECIFICATION Spec
CHECK_DEADLOCK FALSE
INVARIANTS TypeOK ConnsExact
PROPERTIES ImplementsService EveryCallEnds
