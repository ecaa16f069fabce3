\* Concurrent imports, failing reads, cycles; lookups while files come and go.
\* The system may stop: when everybody has been answered, or waits in an
\* import cycle.
CONSTANTS
  Path <- MCPath
  FileSystems <- MCFileSystems
  MaxRequests = 2
  Name = {"a"}
  Dir = {"d1", "d2", "d3"}
  NixPaths <- MCNixPaths
  Unnamed = "none"
  MaxExports = 2
  MaxChanges = 2
SPECIFICATION RuntimeSpec
CHECK_DEADLOCK FALSE
INVARIANTS
  TypeOK
  OneTailPerKey
  AnswersMatchFiles
  AnswersAgree
  AnswerWasTrue
PROPERTIES
  SettledStays
  EveryRequestSettles
