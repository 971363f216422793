----------------------------- MODULE TrustRails -----------------------------
(***************************************************************************)
(* The gate of src/carbon_scheduler/trust.py: the data rails on a carbon   *)
(* snapshot, the seven rails on a proposal, the evidence, regret and       *)
(* model-feasibility rails of the v2 family, and the two score rules       *)
(* (evaluate_trust for as_built, evaluate_trust_v2).                       *)
(***************************************************************************)
EXTENDS SchedulingModel

CONSTANTS
  Services,          \* service names a proposal may carry
  AllowedServices,   \* graph_context["allowed_services"]
  TargetService,     \* dependency_context.target_service
  EvidenceIds,       \* record identifiers a proposal may cite
  RetrievedIds,      \* retrieval_context_ids
  ProposedRegions,   \* region names a proposal may carry, Regions among them
  MaxDataAge,        \* gate.max_data_age_seconds
  FutureTolerance,   \* trust._FUTURE_TOLERANCE
  LkgMaxAge,         \* gate.last_known_good_max_age_seconds
  TolerancePercent,  \* gate.carbon_regret_tolerance, in percent
  ExpectedProvider,  \* [Regions -> Zones \cup {None}], expected_provider_regions
  ExpectedZone,      \* [Regions -> Zones \cup {None}], expected_zones
  Weight,            \* trust.weights, in percent
  Threshold          \* trust.threshold, in percent

Components == {"faithfulness", "precision", "rails", "freshness", "feasibility"}

ASSUME TrustAssumption ==
  /\ AllowedServices \subseteq Services /\ TargetService \in AllowedServices
  /\ RetrievedIds \subseteq EvidenceIds
  /\ Regions \subseteq ProposedRegions /\ None \notin ProposedRegions
  /\ MaxDataAge \in Nat /\ FutureTolerance \in Nat /\ LkgMaxAge \in Nat
  /\ TolerancePercent \in Nat
  /\ ExpectedProvider \in [Regions -> Zones \cup {None}]
  /\ ExpectedZone \in [Regions -> Zones \cup {None}]
  /\ Weight \in [Components -> 0..100]
  /\ Threshold \in 0..100

\* The fields of an ActionProposal that a decision depends on.
ActionProposal ==
  [region : ProposedRegions, time : Int \cup {None}, p95 : Nat \ {0},
   service : Services, evidence : SUBSET EvidenceIds]

\* proposal_from_schedule
ProposalFromSchedule(c) ==
  [region |-> c.region, time |-> c.time, p95 |-> P95[c.region],
   service |-> TargetService, evidence |-> {}]

StartTime(p) == IF p.time = None THEN EarliestStart ELSE p.time

-----------------------------------------------------------------------------
(* Data rails: about the inputs, whatever the proposal.                    *)

ObservationAge(s, r, at) == at - s.observed[r]

AgesWithinLimits(s, at) ==
  \A r \in Regions : /\ ObservationAge(s, r, at) >= -FutureTolerance
                     /\ ObservationAge(s, r, at) <= MaxDataAge

\* check_data_age: against the snapshot's clock and, if any, the scheduler's.
DataAgeOk(s, now) ==
  /\ AgesWithinLimits(s, s.decisionTime)
  /\ now /= None => AgesWithinLimits(s, now)

WindowSeries(s, r) == {pt \in s.forecast[r] : InWindow(pt.time)}

\* Two regions whose current point and window points are exactly the same.
SameSeries(s, r, q) ==
  /\ s.observed[r] = s.observed[q] /\ s.current[r] = s.current[q]
  /\ WindowSeries(s, r) = WindowSeries(s, q) /\ WindowSeries(s, r) /= {}

\* The zone the provider must have returned for region r.
WantedZone(s, r) ==
  IF ExpectedZone[r] /= None THEN ExpectedZone[r]
  ELSE IF ExpectedProvider[r] /= None THEN ExpectedProvider[r]
  ELSE s.zone[r]

\* check_zone_provenance
ZoneProvenanceOk(s) ==
  /\ \A r \in Regions :
       /\ ExpectedProvider[r] /= None => s.zone[r] = ExpectedProvider[r]
       /\ s.reported[r] /= None => s.reported[r] = WantedZone(s, r)
  /\ \A r, q \in Regions : r /= q =>
       /\ s.reported[r] /= None => s.reported[r] /= s.reported[q]
       /\ s.zone[r] /= s.zone[q]
       /\ ~SameSeries(s, r, q)

\* SchedulerWorkflow._data_rails
DataRailsOk(s, now) == DataAgeOk(s, now) /\ ZoneProvenanceOk(s)

\* snapshot_data_age_seconds(s, at) <= limit: the oldest observation decides.
SnapshotAgeWithin(s, at, limit) == \A r \in Regions : ObservationAge(s, r, at) <= limit

-----------------------------------------------------------------------------
(* Proposal rails.                                                         *)

\* Mutated form: the availability flag is not consulted.
RailsWithoutAvailability(p) ==
  /\ p.region \in Regions /\ p.service \in AllowedServices
  /\ InWindow(StartTime(p)) /\ p.p95 <= P95Limit

\* validate_proposal: all seven rails pass.
ProposalRailsOk(p) ==
  /\ p.region \in Regions
  /\ p.service \in AllowedServices
  /\ InWindow(StartTime(p))
  /\ Available[p.region]
  /\ p.p95 <= P95Limit

\* agent.validate_proposal_against_input: what the agent itself refuses.
MatchesInput(p) ==
  /\ p.region \in Regions
  /\ p.service \in AllowedServices
  /\ InWindow(StartTime(p))
  /\ p.p95 <= P95Limit

EvidenceOk(p) == p.evidence \subseteq RetrievedIds

\* The candidates of p's region in its latest slot at or before its start.
ChosenSlot(p, candidates) ==
  LET slots == {c \in candidates : c.region = p.region /\ c.time <= StartTime(p)}
  IN  {c \in slots : \A d \in slots : d.time <= c.time}

\* expected_carbon_intensity: the lowest value of that slot, {} when there is none.
ExpectedIntensity(p, candidates) ==
  LET values == {c.ci : c \in ChosenSlot(p, candidates)}
  IN  {v \in values : \A w \in values : v <= w}

\* Mutated form: the optimum of the proposal's own region is the reference.
RegretWithinRegion(p, candidates, reference) ==
  /\ reference.status = "selected"
  /\ \E ci \in ExpectedIntensity(p, candidates) :
       \A c \in {d \in candidates : d.region = p.region} :
         100 * (ci - c.ci) <= TolerancePercent * c.ci

\* check_carbon_regret.  With integers, (ci - opt) / opt <= tolerance is
\* 100 * (ci - opt) <= TolerancePercent * opt; opt = 0 leaves only ci = 0.
RegretOk(p, candidates, reference) ==
  /\ reference.status = "selected"
  /\ \E ci \in ExpectedIntensity(p, candidates) :
       100 * (ci - reference.choice.ci) <= TolerancePercent * reference.choice.ci

\* Mutated form: the rail passes when the slot merely exists.
SlotExists(p, candidates) ==
  InWindow(StartTime(p)) /\ ChosenSlot(p, candidates) /= {}

\* check_model_feasibility
ModelFeasible(p, candidates) ==
  InWindow(StartTime(p)) /\ Feasible(ChosenSlot(p, candidates)) /= {}

\* What the carbon rails are there to ensure of a proposal: a region the model
\* allows, and an intensity between the optimum and the tolerance above it.
NearOptimal(p, candidates) ==
  /\ RegionFeasible(p.region)
  /\ \A best \in Optimal(candidates) : \E ci \in ExpectedIntensity(p, candidates) :
       best.ci <= ci /\ 100 * (ci - best.ci) <= TolerancePercent * best.ci

\* Every hard rail of _evaluate_hybrid_trust_v2.
HardRailsOk(p, s, now, reference, feasibilityRail) ==
  /\ ProposalRailsOk(p)
  /\ DataRailsOk(s, now)
  /\ EvidenceOk(p)
  /\ RegretOk(p, Candidates(s), reference)
  /\ feasibilityRail => ModelFeasible(p, Candidates(s))

-----------------------------------------------------------------------------
(* Scores, in percent.  An evaluation is a pair of RAGAS scores, or None    *)
(* when the evaluator is missing or failed.                                 *)

Evaluation == [faithfulness : 0..100, precision : 0..100]

\* evaluate_trust_v2 on a rail-clean proposal: RAGAS only, weights renormalised.
V2ScoreOk(e) ==
  /\ e /= None
  /\ Weight["faithfulness"] + Weight["precision"] > 0
  /\ Weight["faithfulness"] * e.faithfulness + Weight["precision"] * e.precision
       >= Threshold * (Weight["faithfulness"] + Weight["precision"])

\* evaluate_trust on the as_built components.
AsBuiltTrusts(p, s, e) ==
  /\ e /= None
  /\ ProposalRailsOk(p)
  /\ Weight["faithfulness"] * e.faithfulness + Weight["precision"] * e.precision
       + 100 * (Weight["rails"] + Weight["feasibility"]
                  + IF s.fresh THEN Weight["freshness"] ELSE 0)
       >= 100 * Threshold

=============================================================================
