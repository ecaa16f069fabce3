\* The translator's own bookkeeping and the shape of the emitted JavaScript.
CONSTANTS
  Node <- MCNode
  Programs <- MCPrograms
  Names <- MCNames
  Mangle <- MCMangle
SPECIFICATION Spec
INVARIANTS
  TypeOK
  AssertsHold
  FramesRestored
  WithNested
  AcceptsWellScoped
  BlockAfterArrow
  UsesAwaitedButForGaps
  ReadsReachTheirBinder
  AwaitInAsyncButForGaps
  EarlyReadsAreAliases
PROPERTIES
  Terminates
