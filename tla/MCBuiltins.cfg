\* Lists of three promises, every order of elements and callbacks; all pairs of
\* versions of up to three components.
CONSTANTS
  Jobs <- MCJobs
  MaxLen = 3
  Versions <- MCVersions
SPECIFICATION BuiltinsSpec
INVARIANTS PredicatesDecide SortsStably FailsWithItsParts OrderedButForWords
PROPERTY Settles
CHECK_DEADLOCK FALSE
