CONSTANTS
  NSlots = 3
  NInodes = 4
  NBlocks = 5
  EPB = 6
  ND = 1
  Names = {"d", "f"}
  Workload <- NoCalls
  Commands <- NavCommands
SPECIFICATION NavSpec
INVARIANTS CacheCoherent PathLeadsBack WorksWhereSent FaultsExplained
PROPERTIES ImplementsFileTable Returns
\* a command can end the program
CHECK_DEADLOCK FALSE
