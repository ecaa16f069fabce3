\* partition looks at promises.
CONSTANTS
  Jobs <- PartitionJobs
  MaxLen = 3
SPECIFICATION Spec
INVARIANT PartitionSplits
CHECK_DEADLOCK FALSE
