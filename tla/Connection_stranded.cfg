CONSTANTS
  N = 3
  Body <- MCBody
  WellFormed <- MCFirstThree
  Out <- MCOut
  Hdr = 2
  MaxMsg = 6
  ErrOut = 1
  InCap = 8
  OutCap = 2
SPECIFICATION SafeSpec
INVARIANT NoRequestLeftInRbuf
CHECK_DEADLOCK FALSE
