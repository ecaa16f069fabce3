\* StrictUseAwaited: what the emitted code does not keep to.
CONSTANTS
  Node <- MCNode
  Programs <- MCPrograms
  Names <- MCNames
  Mangle <- MCMangle
SPECIFICATION Spec
INVARIANT StrictUseAwaited
