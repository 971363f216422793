\* Every proposal against every rail-clean snapshot, feasibility rail on (v2.1).
SPECIFICATION Spec
CONSTANTS
  None = None
  Regions = {"east", "west", "slow"}
  RegionOrder <- MCRegionOrder
  DefaultRegion = "east"
  P95 <- MCP95
  P95Limit = 50
  Available <- MCAvailable
  EarliestStart = 0
  Deadline = 4
  SlotLength = 2
  SlotTolerance = 0
  Zones = {"z1", "z2", "z3"}
  Services = {"frontend"}
  AllowedServices = {"frontend"}
  TargetService = "frontend"
  EvidenceIds = {"doc"}
  RetrievedIds = {"doc"}
  ProposedRegions = {"east", "west", "slow"}
  MaxDataAge = 2
  FutureTolerance = 0
  LkgMaxAge = 6
  TolerancePercent = 5
  ExpectedProvider <- MCNoZones
  ExpectedZone <- MCZones
  Weight <- MCWeight
  Threshold = 60
  Inputs <- MCCleanInputs
  Proposals <- MCProposals
  Evaluations <- MCEvaluations
  FeasibilityRail = TRUE
INVARIANTS
  AdmittedWithinTolerance FallbackPassesItsOwnGate TrimKeepsSchedule
