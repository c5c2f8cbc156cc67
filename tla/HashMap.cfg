\* One node moved per operation, and the load limit reached with every
\* doubling of the keys: a third migration begins while four keys are in.
CONSTANTS
  Key = {1, 2, 3, 4, 5}
  Hash <- MCHash
  InitCap = 1
  MaxLoad = 0
  ResizingWork = 1
SPECIFICATION Spec
INVARIANTS TypeOK CursorInBounds SizesExact FoundOnce AnnouncedExact LoadBounded IInv
PROPERTY ImplementsKeySet
CHECK_DEADLOCK TRUE
