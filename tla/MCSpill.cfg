CONSTANTS
  NSlots = 3
  NInodes = 5
  NBlocks = 8
  EPB = 3
  ND = 2
  Names = {"d", "f", "g"}
  Workload <- SpillCalls
SPECIFICATION Spec
INVARIANTS TypeOK BlocksDisjoint NoBlockLost SbDurable
\* a call that uses file_table[-1] or a block outside the disk ends the program
CHECK_DEADLOCK FALSE
