CONSTANTS
  N = 4
  Body <- MCRejected
  WellFormed <- MCFirstThree
  Out <- MCOutRejected
  Hdr = 2
  MaxMsg = 6
  ErrOut = 1
  InCap = 8
  OutCap = 2
SPECIFICATION Spec
INVARIANTS TypeOK RequestsInOrder RepliesInOrder RbufHasRoom BuffersFit PolledForTheRightEvent
PROPERTY ReplyFlushed
CHECK_DEADLOCK FALSE
