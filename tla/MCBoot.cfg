SPECIFICATION Spec
CONSTANTS
  Buses = 1
  Devices = 2
  Functions = 3
  Machines <- MCMachines
  Before = 170
  Limits <- MCLimits
  Uppers <- MCUppers
INVARIANTS
  TypeOK
  BusScanned
  ModeSet
  SegmentsFit
  HeapInMemory
CHECK_DEADLOCK FALSE
