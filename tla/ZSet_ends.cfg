\* One tree of 22 tuples with one score, inserted in one order.
CONSTANTS
  NULL = 0
  Name = {1, 2, 3, 4, 5, 6, 7, 8, 9, 10, 11, 12, 13, 14, 15, 16, 17, 18, 19, 20, 21, 22}
  Score = {1}
  Offset <- MCBack
  Limit = {1}
  Width = 256
  MaxQueried = 22
SPECIFICATION Spec
CONSTRAINT InMCOrder
PROPERTY QueryEnds
CHECK_DEADLOCK FALSE
