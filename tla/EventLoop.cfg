CONSTANTS
  c1 = c1  c2 = c2  c3 = c3
  Fd = {5, 6, 7}
  Conn = {c1, c2, c3}
  NULL = NULL
  Sentinel = Sentinel
  UsPerMs = 2
  IdleTimeout = 1
  NoTimer = 2
  MaxTime = 4
SPECIFICATION TSpec
INVARIANTS TypeOK OneConnOneTimer IdleListSorted PolledConnAlive NoOversleep TimeoutFires NoneExpiredLeft ListLinked
PROPERTIES NeverEarly ImplementsEventLoop IdleConnClosed
CHECK_DEADLOCK FALSE
