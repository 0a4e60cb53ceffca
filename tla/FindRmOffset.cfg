CONSTANTS
  NSlots = 3
  NInodes = 4
  NBlocks = 5
  EPB = 6
  ND = 2
  Names = {"d", "f", "g"}
  Workload <- RemoveCalls
SPECIFICATION Spec
PROPERTY RemoveFindsEntry
CHECK_DEADLOCK FALSE
