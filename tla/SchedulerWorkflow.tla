-------------------------- MODULE SchedulerWorkflow --------------------------
(***************************************************************************)
(* SchedulerWorkflow (src/carbon_scheduler/workflow.py) driven by the      *)
(* cycle loop of scripts/run_experiment.py: one run is a sequence of       *)
(* decision cycles.  A cycle checks its carbon inputs, asks the LLM for a  *)
(* proposal, evaluates it, falls back to the MILP, dispatches the chosen   *)
(* action to the executor and appends one record to the run's log.         *)
(*                                                                         *)
(* The controller is one thread.  What makes it hard is the time that      *)
(* passes inside its calls (the LLM, the solver, the executor), and the    *)
(* two pieces of memory a cycle leaves to the next ones: the last snapshot *)
(* that passed the data rails and the region of the last placed session.   *)
(* Each external call is a step of its own; Tick advances the wall clock   *)
(* between any two steps.                                                  *)
(***************************************************************************)
EXTENDS TrustRails, Sequences

CONSTANTS
  Snapshots,    \* raw snapshots the trace may hold, in any order
  Proposals,    \* proposals the LLM may return
  Evaluations,  \* RAGAS results, None for a missing or failing evaluator
  Modes,        \* decision modes a run may be started in
  Deployments,  \* [profile, backend, real] settings a run may start with
  NumCycles,    \* length of the carbon trace
  StartTimes,   \* clock values at which a run may start
  MaxClock      \* bound of the wall clock

DecisionMode == {"hybrid", "llm_only", "milp_only", "static_reference"}
Deployment ==
  [profile : {"as_built", "v2", "v2.1"}, backend : {"direct", "langgraph"}, real : BOOLEAN]

Source == {"llm", "milp", "milp_last_known_good", "data_integrity_hold", "static_reference"}

ASSUME WorkflowAssumption ==
  /\ Snapshots \subseteq CarbonSnapshot /\ None \notin CarbonSnapshot
  /\ Proposals \subseteq ActionProposal /\ None \notin ActionProposal
  /\ Evaluations \subseteq Evaluation \cup {None}
  /\ Modes \subseteq DecisionMode
  /\ Deployments \subseteq Deployment
  /\ NumCycles \in Nat
  /\ StartTimes \subseteq Int /\ MaxClock \in Int
  /\ None \notin Source

VARIABLES
  deployment,     \* fixed when the workflow object is built
  clock,          \* wall clock
  pc,             \* the step the controller thread is at
  cycle,          \* cycles begun
  mode, snapshot, \* the cycle's mode and its carbon_snapshot (decision_input)
  cycleNow,       \* self._cycle_now
  lkg,            \* self._last_known_good
  lastPlacement,  \* self._last_placement
  agentProposal,  \* self._agent_proposal
  reference,      \* self._reference, solved at most once per cycle
  integrity,      \* data_integrity: "none", "passed" or "failed"
  trust,          \* trust_report: "none", "passed" or "failed"
  action,         \* the action handed to the executor, or held
  fallback,       \* fallback_triggered
  source,         \* decision_source before _stamp
  result,         \* outcome, receipt and alert of the cycle before _stamp
  ledger          \* the records of cycles.jsonl

decisionVars == <<mode, snapshot, cycleNow>>
memoryVars == <<lkg, lastPlacement>>
choiceVars == <<action, fallback, source>>
vars == <<deployment, clock, pc, cycle, decisionVars, memoryVars, agentProposal, reference,
          integrity, trust, choiceVars, result, ledger>>

Step == {"idle", "propose", "evaluate", "schedule", "static", "dispatch", "executing", "record"}
Outcome == {"dry_run", "executed", "execution_failed", "deadline_passed", "infeasible",
            "solver_unavailable", "proposal_unavailable", "proposal_rejected",
            "data_integrity_hold"}
Alert == {"none", "warning", "critical"}
CycleResult == [outcome : Outcome, receipt : BOOLEAN, alert : Alert]
CycleRecord ==
  [mode : DecisionMode, snapshot : CarbonSnapshot, lkg : CarbonSnapshot \cup {None},
   integrity : {"none", "passed", "failed"}, outcome : Outcome,
   region : ProposedRegions \cup {None}, source : Source \cup {None}, alert : Alert]

V2Family == deployment.profile /= "as_built"
FeasibilityRail == deployment.profile = "v2.1"
HasClock == deployment.real
ChecksData(m) == m = "hybrid" /\ V2Family

-----------------------------------------------------------------------------
(* Starting a cycle.                                                       *)

Init ==
  /\ deployment \in Deployments
  /\ clock \in StartTimes
  /\ pc = "idle" /\ cycle = 0
  /\ mode = None /\ snapshot = None /\ cycleNow = None
  /\ lkg = None /\ lastPlacement = None
  /\ agentProposal = None /\ reference = None
  /\ integrity = "none" /\ trust = "none"
  /\ action = None /\ fallback = FALSE /\ source = None
  /\ result = None /\ ledger = <<>>

\* Time passes while the controller waits on the LLM, the solver or a Job.
\* Without a clock (a dry run) nothing in the controller depends on it.
Tick ==
  /\ HasClock /\ clock < MaxClock
  /\ clock' = clock + 1
  /\ UNCHANGED <<deployment, pc, cycle, decisionVars, memoryVars, agentProposal, reference,
                 integrity, trust, choiceVars, result, ledger>>

\* The v2 family hands the workflow the trimmed snapshot.
FrozenSnapshot(raw) == IF V2Family THEN TrimToWindow(raw) ELSE raw

ReadClock == IF HasClock THEN clock ELSE None

\* The next snapshot of the trace; every cycle of a run has the mode of the first.
NewCycle(m, raw) ==
  /\ pc = "idle" /\ cycle < NumCycles
  /\ cycle > 0 => m = mode
  /\ cycle' = cycle + 1
  /\ mode' = m /\ snapshot' = FrozenSnapshot(raw) /\ cycleNow' = ReadClock
  /\ agentProposal' = None /\ reference' = None
  /\ UNCHANGED <<deployment, clock, lastPlacement, ledger>>

\* Mutated form: the snapshot is remembered before its rails are looked at.
RememberAlways(m, raw) == IF ChecksData(m) THEN FrozenSnapshot(raw) ELSE lkg

\* self._last_known_good once the cycle has begun.
LastKnownGoodAfter(m, raw) ==
  IF ChecksData(m) /\ DataRailsOk(FrozenSnapshot(raw), ReadClock) THEN FrozenSnapshot(raw) ELSE lkg

FirstStep ==
  [hybrid |-> "propose", llm_only |-> "propose", milp_only |-> "schedule",
   static_reference |-> "static"]

\* The inputs are clean, or the mode or profile does not check them.
BeginOnOwnData(m, raw) ==
  /\ NewCycle(m, raw)
  /\ ChecksData(m) => DataRailsOk(FrozenSnapshot(raw), ReadClock)
  /\ lkg' = LastKnownGoodAfter(m, raw)
  /\ integrity' = IF ChecksData(m) THEN "passed" ELSE "none"
  /\ trust' = "none"
  /\ action' = None /\ fallback' = FALSE /\ source' = None /\ result' = None
  /\ pc' = FirstStep[m]

\* Mutated form: any remembered snapshot will do.
AnyLastKnownGood(raw) == lkg /= None

\* The age is taken at the scheduler clock, else at the failing snapshot's time.
LastKnownGoodUsable(raw) ==
  /\ lkg /= None
  /\ SnapshotAgeWithin(lkg, IF HasClock THEN clock ELSE raw.decisionTime, LkgMaxAge)

\* _data_integrity_response: decide by MILP on the last snapshot that was clean.
BeginOnLastKnownGood(m, raw) ==
  /\ NewCycle(m, raw)
  /\ ChecksData(m) /\ ~DataRailsOk(FrozenSnapshot(raw), ReadClock)
  /\ LastKnownGoodUsable(raw)
  /\ \E c \in Optimal(Candidates(lkg)) : action' = ProposalFromSchedule(c)
  /\ lkg' = LastKnownGoodAfter(m, raw)
  /\ integrity' = "failed" /\ trust' = "failed"
  /\ fallback' = TRUE /\ source' = "milp_last_known_good" /\ result' = None
  /\ pc' = "dispatch"

HeldRegion == IF lastPlacement /= None THEN lastPlacement ELSE DefaultRegion

\* _hold: nothing clean to decide on (or nothing selectable), no new session.
BeginHold(m, raw) ==
  /\ NewCycle(m, raw)
  /\ ChecksData(m) /\ ~DataRailsOk(FrozenSnapshot(raw), ReadClock)
  /\ LastKnownGoodUsable(raw) =>
       \E res \in SolveSchedule(Candidates(lkg)) : res.status /= "selected"
  /\ action' = [region |-> HeldRegion, time |-> None, p95 |-> P95[HeldRegion],
                service |-> TargetService, evidence |-> {}]
  /\ lkg' = LastKnownGoodAfter(m, raw)
  /\ integrity' = "failed" /\ trust' = "failed"
  /\ fallback' = TRUE /\ source' = "data_integrity_hold"
  /\ result' = [outcome |-> "data_integrity_hold", receipt |-> TRUE, alert |-> "critical"]
  /\ pc' = "record"

BeginCycle ==
  \E m \in Modes, raw \in Snapshots :
    BeginOnOwnData(m, raw) \/ BeginOnLastKnownGood(m, raw) \/ BeginHold(m, raw)

-----------------------------------------------------------------------------
(* Choosing an action.                                                     *)

\* Mutated form: the proposal is asked for again, without end.
AskAgain(outcome) ==
  /\ result' = [outcome |-> outcome, receipt |-> FALSE, alert |-> "none"]
  /\ pc' = "propose"

Conclude(outcome) ==
  /\ result' = [outcome |-> outcome, receipt |-> FALSE, alert |-> "none"]
  /\ pc' = "record"

\* Mutated form: an LLM-only cycle falls back to the MILP as well.
FallBackInAnyMode(m) == "schedule"

\* Mutated form: a hybrid cycle gives up with its proposal.
GiveUp(m) == "record"

\* In hybrid mode a missing proposal is a failed trust report, then the MILP.
AfterFailedProposal(m) == IF m = "hybrid" THEN "schedule" ELSE "record"

\* No agent, an AgentError or any other exception of agent.propose.
ProposalFails ==
  /\ pc = "propose"
  /\ pc' = AfterFailedProposal(mode)
  /\ trust' = IF mode = "hybrid" THEN "failed" ELSE "none"
  /\ fallback' = (mode = "hybrid")
  /\ result' = IF AfterFailedProposal(mode) = "record"
                 THEN [outcome |-> "proposal_unavailable", receipt |-> FALSE, alert |-> "none"]
                 ELSE None
  /\ UNCHANGED <<deployment, clock, cycle, decisionVars, memoryVars, agentProposal, reference,
                 integrity, action, source, ledger>>

\* A proposal the agent's own validation accepts.
ProposalArrives(p) ==
  /\ pc = "propose" /\ MatchesInput(p)
  /\ agentProposal' = p
  /\ IF mode = "hybrid" THEN pc' = "evaluate" /\ UNCHANGED <<action, result>>
     ELSE IF ProposalRailsOk(p) THEN pc' = "dispatch" /\ action' = p /\ UNCHANGED result
     ELSE Conclude("proposal_rejected") /\ UNCHANGED action
  /\ UNCHANGED <<deployment, clock, cycle, decisionVars, memoryVars, reference, integrity,
                 trust, fallback, source, ledger>>

\* What _reference_schedule may return: the cycle's result, solved once.
ReferenceSchedules ==
  IF reference /= None THEN {reference} ELSE SolveSchedule(Candidates(snapshot))

\* _evaluate_hybrid_trust: the evaluator is called for rail-clean proposals only
\* (as_built calls it always; a failed rail rejects there too).
Trusted(ref, e) ==
  IF V2Family
    THEN HardRailsOk(agentProposal, snapshot, cycleNow, ref, FeasibilityRail) /\ V2ScoreOk(e)
    ELSE AsBuiltTrusts(agentProposal, snapshot, e)

EvaluateTrust(e) ==
  /\ pc = "evaluate"
  /\ \E ref \in ReferenceSchedules :
       /\ reference' = IF V2Family THEN ref ELSE None
       /\ IF Trusted(ref, e)
            THEN /\ trust' = "passed" /\ action' = agentProposal
                 /\ pc' = "dispatch" /\ UNCHANGED fallback
            ELSE /\ trust' = "failed" /\ fallback' = TRUE
                 /\ pc' = "schedule" /\ UNCHANGED action
  /\ UNCHANGED <<deployment, clock, cycle, decisionVars, memoryVars, agentProposal, integrity,
                 source, result, ledger>>

\* _run_milp and _lg_schedule
RunMilp ==
  /\ pc = "schedule"
  /\ \E ref \in ReferenceSchedules :
       /\ reference' = ref
       /\ IF ref.status = "selected"
            THEN /\ action' = ProposalFromSchedule(ref.choice)
                 /\ pc' = "dispatch" /\ UNCHANGED result
            ELSE Conclude(ref.status) /\ UNCHANGED action
  /\ UNCHANGED <<deployment, clock, cycle, decisionVars, memoryVars, agentProposal, integrity,
                 trust, fallback, source, ledger>>

\* _build_static_reference_proposal
RunStaticReference ==
  /\ pc = "static"
  /\ IF Available[DefaultRegion]
       THEN /\ action' = [region |-> DefaultRegion, time |-> EarliestStart,
                          p95 |-> P95[DefaultRegion], service |-> TargetService,
                          evidence |-> {}]
            /\ pc' = "dispatch" /\ UNCHANGED result
       ELSE Conclude("infeasible") /\ UNCHANGED action
  /\ UNCHANGED <<deployment, clock, cycle, decisionVars, memoryVars, agentProposal, reference,
                 integrity, trust, fallback, source, ledger>>

-----------------------------------------------------------------------------
(* Dispatching it.                                                         *)

\* _execute checks the deadline; _lg_execute does not.  The last-known-good
\* fallback goes through _execute whatever the backend.
DispatchChecksDeadline ==
  /\ deployment.real /\ V2Family
  /\ deployment.backend = "direct" \/ source = "milp_last_known_good"

\* Mutated form: the clock read when the cycle began.
CycleStartClock == cycleNow

DispatchClock == ReadClock

TooLate == DispatchChecksDeadline /\ DispatchClock > Deadline

\* Mutated form: a last-known-good decision raises no alert of its own.
OwnAlertOnly(alert) == alert

\* _data_integrity_response overwrites the alert of what _execute returned.
AlertOf(alert) == IF source = "milp_last_known_good" THEN "warning" ELSE alert

RefuseLateAction ==
  /\ pc = "dispatch" /\ TooLate
  /\ result' = [outcome |-> "deadline_passed", receipt |-> TRUE, alert |-> AlertOf("critical")]
  /\ pc' = "record"
  /\ UNCHANGED <<deployment, clock, cycle, decisionVars, memoryVars, agentProposal, reference,
                 integrity, trust, choiceVars, ledger>>

EnterExecutor ==
  /\ pc = "dispatch" /\ ~TooLate
  /\ pc' = "executing"
  /\ UNCHANGED <<deployment, clock, cycle, decisionVars, memoryVars, agentProposal, reference,
                 integrity, trust, choiceVars, result, ledger>>

\* What executor.execute may do: a dry run never fails; a real executor succeeds,
\* returns a receipt with a failure reason, or raises (no receipt).
ExecutorResults ==
  IF deployment.real
    THEN [outcome : {"executed"}, receipt : {TRUE}, alert : {AlertOf("none")}]
           \cup [outcome : {"execution_failed"}, receipt : BOOLEAN, alert : {AlertOf("none")}]
    ELSE [outcome : {"dry_run"}, receipt : {TRUE}, alert : {AlertOf("none")}]

ExecutorReturns ==
  /\ pc = "executing"
  /\ result' \in ExecutorResults
  /\ pc' = "record"
  /\ UNCHANGED <<deployment, clock, cycle, decisionVars, memoryVars, agentProposal, reference,
                 integrity, trust, choiceVars, ledger>>

-----------------------------------------------------------------------------
(* Recording it.                                                           *)

\* Mutated form: the mode stands in for the source.
ModeAsSource == IF source /= None THEN source ELSE mode

\* The decision source _stamp infers for a receipt that carries none.
DecisionSource ==
  IF source /= None THEN source
  ELSE IF mode = "static_reference" THEN "static_reference"
  ELSE IF mode = "milp_only" \/ (mode = "hybrid" /\ fallback) THEN "milp" ELSE "llm"

\* Mutated form: every receipt moves the remembered placement.
RegionOfAnyReceipt == IF result.receipt THEN action.region ELSE lastPlacement

\* self._last_placement after _stamp: only a session that was placed moves it.
PlacementAfter ==
  IF result.receipt /\ result.outcome \in {"dry_run", "executed"}
    THEN action.region
    ELSE lastPlacement

\* The record _stamp completes.
StampedRecord ==
  [mode |-> mode, snapshot |-> snapshot,
   lkg |-> IF source = "milp_last_known_good" THEN lkg ELSE None,
   integrity |-> integrity, outcome |-> result.outcome,
   region |-> IF result.receipt THEN action.region ELSE None,
   source |-> IF result.receipt THEN DecisionSource ELSE source,
   alert |-> result.alert]

\* _stamp, then RunArtifactWriter.append.
RecordCycle ==
  /\ pc = "record"
  /\ ledger' = Append(ledger, StampedRecord)
  /\ lastPlacement' = PlacementAfter
  /\ pc' = "idle"
  /\ UNCHANGED <<deployment, clock, cycle, decisionVars, lkg, agentProposal, reference,
                 integrity, trust, choiceVars, result>>

\* The trace is exhausted: the process ends.
RunComplete == pc = "idle" /\ cycle = NumCycles /\ UNCHANGED vars

ControllerStep ==
  \/ BeginCycle
  \/ ProposalFails
  \/ \E p \in Proposals : ProposalArrives(p)
  \/ \E e \in Evaluations : EvaluateTrust(e)
  \/ RunMilp
  \/ RunStaticReference
  \/ RefuseLateAction
  \/ EnterExecutor
  \/ ExecutorReturns
  \/ RecordCycle

Next == Tick \/ ControllerStep \/ RunComplete

\* Every call the controller waits on returns: the agent's requests and the
\* executor's waits carry timeouts and bounded retries.  The clock owes nothing.
Fairness == WF_vars(ControllerStep)

Spec == Init /\ [][Next]_vars /\ Fairness

-----------------------------------------------------------------------------
(* Correctness.                                                            *)

\* The types of the controller's state: among others a cycle's record always
\* carries a mode, a snapshot and a catalog region, whichever path wrote it.
TypeOK ==
  /\ deployment \in Deployments
  /\ clock \in Int /\ pc \in Step /\ cycle \in 0..NumCycles
  /\ mode \in DecisionMode \cup {None}
  /\ snapshot \in CarbonSnapshot \cup {None}
  /\ cycleNow \in Int \cup {None}
  /\ lkg \in CarbonSnapshot \cup {None}
  /\ lastPlacement \in ProposedRegions \cup {None}
  /\ agentProposal \in ActionProposal \cup {None}
  /\ reference \in ScheduleResult \cup {None}
  /\ integrity \in {"none", "passed", "failed"}
  /\ trust \in {"none", "passed", "failed"}
  /\ action \in ActionProposal \cup {None}
  /\ fallback \in BOOLEAN
  /\ source \in Source \cup {None}
  /\ result \in CycleResult \cup {None}
  /\ ledger \in Seq(CycleRecord)

\* The snapshot the pending action was decided on.
Basis == IF source = "milp_last_known_good" THEN lkg ELSE snapshot

\* The last of the earlier records that satisfies P, as an index set.
LastOf(S) == {j \in S : \A k \in S : k <= j}

CleanBefore(i) == {j \in 1..(i - 1) : ledger[j].integrity = "passed"}

\* A cycle whose inputs failed a data rail hands the executor nothing, or an
\* action decided on the snapshot of the latest earlier cycle whose inputs
\* passed (workflow.py:229-232, "Never run the MILP (or the LLM) on inputs that
\* failed a data rail"; 180-183, the memory the fallback reads).
CleanBasis ==
  \A i \in DOMAIN ledger : ledger[i].integrity = "failed" =>
    \/ ledger[i].source = "data_integrity_hold"
    \/ /\ ledger[i].source = "milp_last_known_good"
       /\ \E j \in LastOf(CleanBefore(i)) : ledger[i].lkg = ledger[j].snapshot

PlacedBefore(i) == {j \in 1..(i - 1) : ledger[j].outcome \in {"dry_run", "executed"}}

\* A hold reports the region of the latest session the log records as placed,
\* however many refused, failed or held cycles came since, and the static
\* region before the first one (workflow._hold, _stamp).
HoldKeepsPlacement ==
  \A i \in DOMAIN ledger : ledger[i].outcome = "data_integrity_hold" =>
    IF PlacedBefore(i) = {} THEN ledger[i].region = DefaultRegion
    ELSE \E j \in LastOf(PlacedBefore(i)) : ledger[i].region = ledger[j].region

\* Under v2.1 every action a hybrid cycle is about to run, whoever decided it,
\* is feasible in the scheduling model and its carbon value lies between the
\* optimum on the data it was decided on and that optimum plus the tolerance
\* (the bound stated at trust.check_carbon_regret).
HybridNearOptimal ==
  pc \in {"dispatch", "executing"} /\ mode = "hybrid" /\ FeasibilityRail =>
    NearOptimal(action, Candidates(Basis))

\* Whatever the mode, the path and the profile, an action that reaches the
\* dispatch names an available candidate region and a start in the window.
ActionExecutable ==
  pc \in {"dispatch", "executing"} =>
    /\ action.region \in Regions /\ Available[action.region]
    /\ InWindow(StartTime(action))

\* The decision source written in a record is the decider: "llm" is the
\* agent's own proposal, in hybrid after a passed gate; "milp" is this cycle's
\* single reference solution, in hybrid after a failed gate (_stamp infers the
\* label afterwards from the mode and the fallback flag, so an LLM-only cycle
\* that fell back to the MILP would pass for the LLM's).
SourceIsDecider ==
  pc = "idle" /\ ledger /= <<>> =>
    LET rec == ledger[Len(ledger)] IN
    /\ rec.source = "llm" =>
         action = agentProposal /\ (mode = "hybrid" => trust = "passed")
    /\ rec.source = "milp" =>
         /\ action = ProposalFromSchedule(reference.choice)
         /\ mode = "hybrid" => trust = "failed"

\* In hybrid mode a record without an alert was decided on its own, rail-clean
\* snapshot and was not refused at the deadline (_data_integrity_response,
\* _hold and _execute raise the alerts).
QuietMeansClean ==
  \A i \in DOMAIN ledger :
    ledger[i].mode = "hybrid" /\ V2Family /\ ledger[i].alert = "none" =>
      /\ ledger[i].integrity = "passed" /\ ledger[i].lkg = None
      /\ ledger[i].outcome /= "deadline_passed"

\* A hybrid cycle that hands the executor nothing never blames the proposal: a
\* missing, invalid or distrusted one leaves the choice to the MILP.  Its record
\* names another cause, and where the cause is not the solver's own failure it is
\* real: the problem has no feasible candidate, the deadline is over, or the inputs
\* failed a data rail.  A slow LLM may still use up the window, and then the
\* MILP's action is refused like any other (_run_milp, _execute, _hold).
UnstartedForACause ==
  \A i \in DOMAIN ledger : ledger[i].mode = "hybrid" =>
    /\ ledger[i].outcome \notin {"proposal_unavailable", "proposal_rejected"}
    /\ ledger[i].outcome = "infeasible" => Feasible(Candidates(ledger[i].snapshot)) = {}
    /\ ledger[i].outcome = "deadline_passed" => clock > Deadline
    /\ ledger[i].outcome = "data_integrity_hold" => ledger[i].integrity = "failed"

EntersExecutor == pc = "dispatch" /\ pc' = "executing"

\* The v2 family, executing for real, never enters the executor after the
\* deadline, however long the LLM and the solver took (workflow.py:185-191).
NoEntryAfterDeadline ==
  [][EntersExecutor /\ deployment.real /\ V2Family => clock <= Deadline]_vars

\* The rails read the data's age when the cycle begins and the session starts
\* later; the deadline check is what bounds the age at that moment.
DispatchedDataAgeBounded ==
  [][EntersExecutor /\ deployment.real /\ ChecksData(mode) =>
       SnapshotAgeWithin(Basis, clock,
         (IF source = "milp_last_known_good" THEN LkgMaxAge ELSE MaxDataAge)
           + (Deadline - cycleNow))]_vars

\* Every snapshot of the trace ends in exactly one record, whatever fails.
RunCompletes == <>(Len(ledger) = NumCycles)

\* What tests/test_gate_v21.py asserts of a refused action.
RefusalIsCritical ==
  \A i \in DOMAIN ledger : ledger[i].outcome = "deadline_passed" => ledger[i].alert = "critical"

\* What a record's outcome says of the session of its cycle.
SessionOf(outcome) ==
  IF outcome \in {"dry_run", "executed"} THEN "placed"
  ELSE IF outcome = "execution_failed" THEN "failed" ELSE "none"

CycleStage ==
  CASE pc = "idle" -> "between" [] pc = "executing" -> "session"
    [] pc = "record" -> "decided" [] OTHER -> "deciding"

Report(outcome, region) == [session |-> SessionOf(outcome), region |-> region]

Cycles == INSTANCE DecisionCycle WITH
  Regions <- ProposedRegions,
  stage <- CycleStage,
  session <- IF pc = "executing" THEN action.region ELSE None,
  report <- IF pc = "record"
              THEN Report(result.outcome, IF result.receipt THEN action.region ELSE None)
              ELSE None,
  placement <- lastPlacement,
  records <- [i \in DOMAIN ledger |-> Report(ledger[i].outcome, ledger[i].region)]

\* On every path through both backends a cycle hands the executor at most one
\* session, ends in one record that agrees with what became of it, and moves the
\* remembered placement only with a session that was placed (run_cycle, _stamp).
KeepsCycleContract == Cycles!Spec

=============================================================================
