CONSTANTS
  NSlots = 3
  NInodes = 6
  NBlocks = 7
  EPB = 3
  ND = 2
  Names = {"d", "f"}
  Workload <- CrashCalls
  MaxCrashes = 1
SPECIFICATION CrashSpec
INVARIANTS DamageConfined BlocksConfined
PROPERTIES WritesComplete NamesSurvive
\* a call that uses file_table[-1] or a block outside the disk ends the program
CHECK_DEADLOCK FALSE
