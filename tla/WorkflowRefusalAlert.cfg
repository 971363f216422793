\* A late last-known-good action is refused with a warning.
SPECIFICATION Spec
CONSTANTS
  None = None
  Regions = {"east", "west"}
  RegionOrder <- MCRegionOrder
  DefaultRegion = "east"
  P95 <- MCP95
  P95Limit = 50
  EarliestStart = 1
  Deadline = 3
  SlotLength = 1
  SlotTolerance = 0
  Zones = {"pjm", "bpat"}
  Services = {"frontend"}
  AllowedServices = {"frontend"}
  TargetService = "frontend"
  EvidenceIds = {"doc", "invented"}
  RetrievedIds = {"doc"}
  ProposedRegions = {"east", "west", "mars"}
  MaxDataAge = 1
  FutureTolerance = 0
  LkgMaxAge = 2
  TolerancePercent = 5
  ExpectedProvider <- MCExpectedProvider
  ExpectedZone <- MCExpectedZone
  Weight <- MCWeight
  Threshold = 60
  Snapshots <- MCThreeSnapshots
  Proposals <- MCProposals
  Evaluations <- MCEvaluations
  StartTimes = {1}
  MaxClock = 4
  Available <- MCBothAvailable
  Modes = {"hybrid"}
  Deployments <- MCDirectV21
  NumCycles = 2
INVARIANTS
  RefusalIsCritical
