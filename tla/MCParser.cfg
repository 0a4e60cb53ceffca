CONSTANTS
  Word = {"a", "b"}
  MaxLine = 6
SPECIFICATION Spec
INVARIANTS LineMeans ParserFaults
\* a line can end the program
CHECK_DEADLOCK FALSE
