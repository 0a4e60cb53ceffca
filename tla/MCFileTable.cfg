CONSTANTS
  NSlots = 4
  NInodes = 5
SPECIFICATION Spec
INVARIANTS RootPinned OneDirectoryCopy IInv
PROPERTY NoClobber
\* file_table[-1] is the end of the program
CHECK_DEADLOCK FALSE
