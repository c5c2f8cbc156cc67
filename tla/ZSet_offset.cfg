CONSTANTS
  NULL = 0
  Name = {1, 2, 3, 4}
  Score = {1, 2}
  Offset <- MCOffset
  Limit = {0, 1, 4}
  Width = 256
  MaxQueried = 4
SPECIFICATION SafeSpec
INVARIANT OffsetExact
CHECK_DEADLOCK TRUE
