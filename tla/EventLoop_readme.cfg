CONSTANTS
  c1 = c1  c2 = c2  c3 = c3
  Fd = {5, 6}
  Conn = {c1, c2}
  NULL = NULL
  Sentinel = Sentinel
  UsPerMs = 2
  IdleTimeout = 1
  NoTimer = 2
  MaxTime = 4
SPECIFICATION TSafeSpec
PROPERTY ActiveConnMovedToHead
CHECK_DEADLOCK FALSE
