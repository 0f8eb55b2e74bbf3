SPECIFICATION Spec
CONSTANTS
  t1 = t1
  t2 = t2
  k1 = k1
  k2 = k2
  Threads <- mcThreads
  Keys <- mcKeys
  MaxPerMinute = 2
  Window = 2
  PruneAt = 2
  MaxStall = 1
  MaxTime = 5
SYMMETRY mcSymmetry
CHECK_DEADLOCK FALSE
INVARIANTS TypeOK BurstBounded
PROPERTIES RefusalJustified
