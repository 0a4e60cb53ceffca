CONSTANTS
  NSlots = 3
  NInodes = 3
  NBlocks = 5
  EPB = 6
  ND = 2
  Names = {"d"}
  Workload <- EmptyDirCalls
SPECIFICATION Spec
INVARIANT FreeListEnds
CHECK_DEADLOCK FALSE
