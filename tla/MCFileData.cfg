CONSTANTS
  File = {f, g}
  NoFile = NoFile
  NSlots = 2
  NBlocks = 8
  B = 3
  ND = 2
  NI = 3
  Buffers <- MCBuffers
  HeapInts = {0, 7}
  Offsets = {4, 12}
  MaxWrites = 2
  Modes = {"READANDWRITE", "APPEND"}
SPECIFICATION Spec
SYMMETRY Symmetry
INVARIANTS BlocksOwnedOnce  IInv
PROPERTIES ImplementsByteFiles
\* a call that would use a block outside the disk ends the program
CHECK_DEADLOCK FALSE
