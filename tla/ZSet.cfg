\* Seven names: the smallest tree in which avl_del's successor has a child.
CONSTANTS
  NULL = 0
  Name = {1, 2, 3, 4, 5, 6, 7}
  Score = {1, 2}
  Offset <- MCOffset
  Limit = {4}
  Width = 256
  MaxQueried = 3
SPECIFICATION SafeSpec
INVARIANTS TypeOK IndexesAgree Balanced
PROPERTY ImplementsSortedSet
CHECK_DEADLOCK TRUE
