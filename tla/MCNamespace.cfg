CONSTANTS
  NInodes = 5
  Names = {"a", "b"}
SPECIFICATION Spec
INVARIANTS OneNameEach Rooted IInv
PROPERTIES LostWithDirectory
