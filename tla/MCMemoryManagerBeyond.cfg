SPECIFICATION Spec
CONSTANTS
  HDR = 1
  Start = 2
  HeapSize <- MCSmallHeap
  Request <- MCSmallRequest
  MaxClaim = 20
  Beyond = TRUE
PROPERTIES
  MallocReturns
CHECK_DEADLOCK FALSE
