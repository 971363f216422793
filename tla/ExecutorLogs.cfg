\* One session whose Job is done and whose logs cannot be listed.
SPECIFICATION Spec
CONSTANTS
  None = None
  Regions = {"east", "west"}
  NumCycles = 1
  ApiAttempts = 2
  JobTimeout = 1
  MaxRestarts = 0
INVARIANTS
  LogsHideNothing
