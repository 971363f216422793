\* Two cycles over two clusters, and a repetition of the run under its id.
SPECIFICATION PlacedSpec
CONSTANTS
  None = None
  Regions = {"east", "west"}
  DefaultRegion = "east"
  NumCycles = 2
  ApiAttempts = 1
  JobTimeout = 0
  MaxRestarts = 1
INVARIANTS
  PlacementMeasured LogNamesStrays
