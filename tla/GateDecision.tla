----------------------------- MODULE GateDecision -----------------------------
(***************************************************************************)
(* One decision of the v2 gate on one frozen input: the reference schedule *)
(* is solved, then the proposal is judged against it.  The module exists   *)
(* to compare the gate and the solver with reference definitions of their  *)
(* own over many inputs; SchedulerWorkflow composes the same operators     *)
(* into whole runs.                                                        *)
(***************************************************************************)
EXTENDS TrustRails

CONSTANTS
  Inputs,          \* snapshots that passed the data rails
  Proposals,       \* proposals to judge
  Evaluations,     \* RAGAS results, None for a failed evaluator
  FeasibilityRail  \* gate.feasibility_rail_enabled

ASSUME GateAssumption ==
  /\ Inputs \subseteq CarbonSnapshot /\ \A s \in Inputs : DataRailsOk(s, None)
  /\ Proposals \subseteq ActionProposal
  /\ Evaluations \subseteq Evaluation \cup {None}
  /\ FeasibilityRail \in BOOLEAN

VARIABLES snapshot, proposal, reference, verdict

vars == <<snapshot, proposal, reference, verdict>>

Init ==
  /\ snapshot \in Inputs /\ proposal \in Proposals
  /\ reference = None /\ verdict = "undecided"

\* _reference_schedule on the frozen snapshot.
SolveReference ==
  /\ reference = None
  /\ reference' \in SolveSchedule(Candidates(snapshot))
  /\ UNCHANGED <<snapshot, proposal, verdict>>

\* _evaluate_hybrid_trust_v2
Admits(e) ==
  /\ HardRailsOk(proposal, snapshot, None, reference, FeasibilityRail)
  /\ V2ScoreOk(e)

Judge ==
  /\ reference /= None /\ verdict = "undecided"
  /\ \E e \in Evaluations : verdict' = IF Admits(e) THEN "admitted" ELSE "rejected"
  /\ UNCHANGED <<snapshot, proposal, reference>>

Decided == verdict /= "undecided" /\ UNCHANGED vars

Next == SolveReference \/ Judge \/ Decided

Spec == Init /\ [][Next]_vars

-----------------------------------------------------------------------------
(* Reference definitions, written from the forecast rather than from the   *)
(* request: the value that is in force in region r at time t.              *)

InForce(s, r, t) ==
  LET points == {pt \in s.forecast[r] : EarliestStart < pt.time /\ pt.time <= t
                                          /\ pt.time <= Deadline /\ OnSlotGrid(pt.time)}
      atStart == {s.current[r]} \cup {pt.ci : pt \in {q \in s.forecast[r] : q.time = EarliestStart}}
      latest == {pt \in points : \A q \in points : q.time <= pt.time}
      values == IF points = {} THEN atStart ELSE {pt.ci : pt \in latest}
  IN  CHOOSE v \in values : \A w \in values : v <= w

\* No start the operator could have chosen is cheaper: every feasible region
\* at every time of the window.
CheapestInForce(s) ==
  LET values == {InForce(s, r, t) : r \in {q \in Regions : RegionFeasible(q)},
                                    t \in EarliestStart..Deadline}
  IN  CHOOSE v \in values : \A w \in values : v <= w

\* An admitted proposal runs in a region the model allows, at a start whose
\* carbon value is at least the cheapest one reachable and at most the
\* tolerance above it: trust.check_carbon_regret's bound, with both sides
\* computed from the forecast.  The lower half is what the feasibility rail
\* adds (no "negative regret" from an under-reported latency).
AdmittedWithinTolerance ==
  verdict = "admitted" /\ FeasibilityRail =>
    LET ci == InForce(snapshot, proposal.region, StartTime(proposal))
        best == CheapestInForce(snapshot)
    IN  /\ RegionFeasible(proposal.region)
        /\ best <= ci /\ 100 * (ci - best) <= TolerancePercent * best

\* The MILP's own choice is the cheapest reachable start, and as a proposal it
\* passes every hard rail of the gate that judges the LLM against it: the
\* fallback never runs what the gate would refuse.
FallbackPassesItsOwnGate ==
  reference /= None /\ reference.status = "selected" =>
    /\ reference.choice.ci = CheapestInForce(snapshot)
    /\ HardRailsOk(ProposalFromSchedule(reference.choice), snapshot, None, reference,
                   FeasibilityRail)

\* Trimming the snapshot for the prompt leaves the MILP's decision unchanged
\* (the docstring of workflow.trim_snapshot_to_window).
TrimKeepsSchedule ==
  Optimal(Candidates(TrimToWindow(snapshot))) = Optimal(Candidates(snapshot))

=============================================================================
