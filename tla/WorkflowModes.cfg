\* Every mode, profile, backend and executor; the western region is unavailable.
SPECIFICATION Spec
CONSTANTS
  None = None
  Regions = {"east", "west"}
  RegionOrder <- MCRegionOrder
  DefaultRegion = "east"
  P95 <- MCP95
  P95Limit = 50
  EarliestStart = 1
  Deadline = 3
  SlotLength = 1
  SlotTolerance = 0
  Zones = {"pjm", "bpat"}
  Services = {"frontend"}
  AllowedServices = {"frontend"}
  TargetService = "frontend"
  EvidenceIds = {"doc", "invented"}
  RetrievedIds = {"doc"}
  ProposedRegions = {"east", "west", "mars"}
  MaxDataAge = 1
  FutureTolerance = 0
  LkgMaxAge = 2
  TolerancePercent = 5
  ExpectedProvider <- MCExpectedProvider
  ExpectedZone <- MCExpectedZone
  Weight <- MCWeight
  Threshold = 60
  Snapshots <- MCTwoSnapshots
  Proposals <- MCProposals
  Evaluations <- MCEvaluations
  StartTimes = {1}
  MaxClock = 4
  Available <- MCEastOnly
  Modes = {"hybrid", "llm_only", "milp_only", "static_reference"}
  Deployments <- MCDeployments
  NumCycles = 2
INVARIANTS
  ActionExecutable SourceIsDecider UnstartedForACause
PROPERTIES
  RunCompletes KeepsCycleContract
