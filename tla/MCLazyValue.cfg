\* Three families of small programs in every order of their steps.
CONSTANTS
  Prom <- P
  Key <- K
  Programs <- MCPrograms
  Main = 1
SPECIFICATION Spec
INVARIANTS ByNeed OnlyNeededStarted CrashExplained
PROPERTY Answered
CHECK_DEADLOCK FALSE
