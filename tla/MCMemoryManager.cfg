SPECIFICATION Spec
CONSTANTS
  HDR = 1
  Start = 2
  HeapSize <- MCHeapSize
  Request <- MCRequest
  MaxClaim = 15
  Beyond = FALSE
INVARIANTS
  TypeOK
  HeapTiled
  LiveBlocksDisjoint
PROPERTIES
  FailsOnlyWhenFull
  MallocReturnsWhileTiled
CHECK_DEADLOCK FALSE
