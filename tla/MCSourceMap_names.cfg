\* The name field, read as version 3 of the format says.
CONSTANTS
  SrcPos <- MCSrcPos
  Idents <- MCIdents
  Chunks <- MCChunks
  Prefix = 3
  MaxSegments = 5
  MaxLine = 1
  MaxCol = 5
SPECIFICATION Spec
CHECK_DEADLOCK FALSE
INVARIANTS
  NamesAreIndices
