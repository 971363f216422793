-------------------------- MODULE SchedulingModel --------------------------
(***************************************************************************)
(* The deterministic scheduling problem of src/carbon_scheduler/milp.py    *)
(* and the request that workflow.build_scheduling_request builds from a    *)
(* frozen carbon snapshot: one candidate per region for the current value  *)
(* at the earliest start, one per usable forecast point, and the choice of *)
(* the feasible candidate with the lowest carbon intensity.                *)
(*                                                                         *)
(* Times are integers in one unit, carbon intensities and latencies are    *)
(* natural numbers: the code compares them and never rounds them.  One     *)
(* decision window, availability map and latency catalog serve a whole     *)
(* run (scripts/run_experiment.py), so they are constants.                 *)
(***************************************************************************)
EXTENDS Integers, FiniteSets

CONSTANTS
  None,           \* Python's None
  Regions,        \* candidate_regions = milp.allowed_regions
  RegionOrder,    \* [Regions -> Nat], the string order of the region names
  DefaultRegion,  \* experiments.static_reference_region
  P95,            \* [Regions -> Nat], the latency catalog row of the profile
  P95Limit,       \* slo.profile_p95_limit_ms
  Available,      \* [Regions -> BOOLEAN], cluster_available
  EarliestStart,  \* workload.earliest_start
  Deadline,       \* workload.deadline
  SlotLength,     \* milp.slot_minutes in time units, 0 for None
  SlotTolerance,  \* the one-second tolerance around a slot boundary
  Zones           \* grid-zone identifiers

ASSUME SchedulingAssumption ==
  /\ RegionOrder \in [Regions -> Nat]
  /\ \A r, q \in Regions : RegionOrder[r] = RegionOrder[q] => r = q
  /\ DefaultRegion \in Regions
  /\ P95 \in [Regions -> Nat \ {0}]
  /\ P95Limit \in Nat \ {0}
  /\ Available \in [Regions -> BOOLEAN]
  /\ EarliestStart \in Int /\ Deadline \in Int /\ EarliestStart <= Deadline
  /\ SlotLength \in Nat /\ SlotTolerance \in Nat
  /\ None \notin Regions /\ None \notin Zones /\ None \notin Int

(***************************************************************************)
(* Data.  A forecast is a set of points: the schema keeps it sorted, and   *)
(* two points may share a timestamp.                                       *)
(***************************************************************************)
ForecastPoint == [time : Int, ci : Nat]

CarbonSnapshot ==
  [decisionTime : Int,
   observed     : [Regions -> Int],                   \* current.timestamp
   current      : [Regions -> Nat],                   \* current.carbon_intensity
   forecast     : [Regions -> SUBSET ForecastPoint],
   zone         : [Regions -> Zones],                 \* provider_region
   reported     : [Regions -> Zones \cup {None}],     \* reported_zone
   fresh        : BOOLEAN]                            \* _freshness_score = 1.0

Candidate == [region : Regions, time : Int, ci : Nat]

-----------------------------------------------------------------------------
(* The request.                                                            *)

InWindow(t) == EarliestStart <= t /\ t <= Deadline

\* A forecast point within SlotTolerance of the slot grid; no grid, no filter.
OnSlotGrid(t) ==
  \/ SlotLength = 0
  \/ LET remainder == (t - EarliestStart) % SlotLength
     IN  remainder <= SlotTolerance \/ SlotLength - remainder <= SlotTolerance

Usable(points) == {pt \in points : InWindow(pt.time) /\ OnSlotGrid(pt.time)}

Candidates(s) == UNION
  {{[region |-> r, time |-> EarliestStart, ci |-> s.current[r]]}
     \cup {[region |-> r, time |-> pt.time, ci |-> pt.ci] : pt \in Usable(s.forecast[r])}
   : r \in Regions}

\* Mutated form: the compact context keeps only points strictly after the start.
TrimStrictly(s) ==
  [s EXCEPT !.forecast = [r \in Regions |->
     {pt \in s.forecast[r] : EarliestStart < pt.time /\ pt.time <= Deadline /\ OnSlotGrid(pt.time)}]]

\* trim_snapshot_to_window: the compact context of the v2 family.
TrimToWindow(s) ==
  [s EXCEPT !.forecast = [r \in Regions |->
     {pt \in s.forecast[r] : InWindow(pt.time) /\ OnSlotGrid(pt.time)}]]

-----------------------------------------------------------------------------
(* The solver.                                                             *)

RegionFeasible(r) == Available[r] /\ P95[r] <= P95Limit

Feasible(candidates) == {c \in candidates : InWindow(c.time) /\ RegionFeasible(c.region)}

\* _candidate_sort_key: carbon intensity, then time, then region name.
Precedes(c, d) ==
  \/ c.ci < d.ci
  \/ c.ci = d.ci /\ c.time < d.time
  \/ c.ci = d.ci /\ c.time = d.time /\ RegionOrder[c.region] < RegionOrder[d.region]

\* Mutated form: the earliest candidate wins, whatever its intensity.
EarliestFirst(candidates) ==
  {c \in Feasible(candidates) : \A d \in Feasible(candidates) : c.time <= d.time}

\* The candidates that min(feasible, key = _candidate_sort_key) may return.
Optimal(candidates) ==
  {c \in Feasible(candidates) : \A d \in Feasible(candidates) : ~Precedes(d, c)}

ScheduleResult ==
  [status : {"selected"}, choice : Candidate]
    \cup [status : {"infeasible", "solver_unavailable"}, choice : {None}]

Selected(c) == [status |-> "selected", choice |-> c]
Unselected(status) == [status |-> status, choice |-> None]

\* solve_schedule: the results one call may return.  PuLP, when installed, may
\* fail on a feasible problem; the selection itself is deterministic.
SolveSchedule(candidates) ==
  IF Feasible(candidates) = {}
    THEN {Unselected("infeasible")}
    ELSE {Unselected("solver_unavailable")} \cup {Selected(c) : c \in Optimal(candidates)}

=============================================================================
