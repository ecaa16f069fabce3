\* Recording positions and identifiers in any order.  The translator may
\* stop after any of them.
CONSTANTS
  SrcPos <- MCSrcPos
  Idents <- MCIdents
  Chunks <- MCChunks
  Prefix = 3
  MaxSegments = 5
  MaxLine = 1
  MaxCol = 5
SPECIFICATION Spec
CHECK_DEADLOCK FALSE
INVARIANTS
  TypeOK
  ReaderInStep
PROPERTIES
  IsPlainMap
