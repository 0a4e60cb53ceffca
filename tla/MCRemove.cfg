CONSTANTS
  NSlots = 3
  NInodes = 4
  NBlocks = 5
  EPB = 6
  ND = 2
  Names = {"d", "f", "g"}
  Workload <- RemoveCalls
SPECIFICATION Spec
INVARIANTS InodesPartitioned TreeLinked NoFreeInodeOpen Orderly IInv
PROPERTIES ImplementsNamespace
\* a call that uses file_table[-1] or a block outside the disk ends the program
CHECK_DEADLOCK FALSE
