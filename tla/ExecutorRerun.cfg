\* Two cycles in one cluster, and a repetition of the run under its id.
SPECIFICATION Spec
CONSTANTS
  None = None
  Regions = {"east"}
  NumCycles = 2
  ApiAttempts = 2
  JobTimeout = 1
  MaxRestarts = 1
INVARIANTS
  TypeOK BenchmarkFollowsReset ReceiptsTruthful StrayJobsAnnounced FailureLeavesEvidence
PROPERTIES
  KeepsContract
