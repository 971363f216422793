----------------------- MODULE SchedulerWorkflow_proofs -----------------------
(***************************************************************************)
(* Proofs about SchedulerWorkflow, for every trace, catalog, window, set   *)
(* of proposals and deployment: the inductive invariant of the cycle, and  *)
(* what the workflow guarantees of the action it hands to the executor,    *)
(* its carbon value, the moment it is dispatched and the age of the data   *)
(* behind it.  Each of these arguments strengthens the invariant with what *)
(* the cycle has established on its way to the dispatch.                   *)
(***************************************************************************)
EXTENDS SchedulerWorkflow, SchedulingLemmas

-----------------------------------------------------------------------------
(* The inductive invariant.  TypeOK alone is not inductive: RecordCycle    *)
(* reads the result and the action, BeginHold the catalog row of the       *)
(* remembered placement, and RunMilp a reference solved two steps earlier. *)

\* What each step of the controller may rely on.
CycleShape ==
  /\ pc /= "idle" => mode \in DecisionMode /\ snapshot \in CarbonSnapshot
  /\ pc = "evaluate" => agentProposal \in ActionProposal
  /\ pc \in {"dispatch", "executing"} => action \in ActionProposal
  /\ pc = "record" =>
       /\ result \in CycleResult
       /\ result.receipt => action \in ActionProposal /\ action.region \in Regions

\* A reference schedule belongs to the snapshot of the current cycle.
ReferenceIsCurrent == reference /= None => reference \in SolveSchedule(Candidates(snapshot))

PlacementInCatalog == lastPlacement \in Regions \cup {None}

Inv == TypeOK /\ CycleShape /\ ReferenceIsCurrent /\ PlacementInCatalog /\ ActionExecutable

-----------------------------------------------------------------------------

\* A frozen snapshot is a snapshot, trimmed or not.
LEMMA FrozenSnapshotType ==
  ASSUME NEW raw \in CarbonSnapshot
  PROVE  FrozenSnapshot(raw) \in CarbonSnapshot
BY TrimType DEF FrozenSnapshot

\* The reference schedule a step may read or solve is a result for the current
\* snapshot; if it selects, the action built from it is executable.
LEMMA ReferenceSchedulesSound ==
  ASSUME ReferenceIsCurrent, snapshot \in CarbonSnapshot, NEW ref \in ReferenceSchedules
  PROVE  /\ ref \in SolveSchedule(Candidates(snapshot))
         /\ ref \in ScheduleResult
         /\ ref.status = "selected" =>
              /\ ref.choice \in Optimal(Candidates(snapshot))
              /\ ProposalFromSchedule(ref.choice) \in ActionProposal
              /\ ProposalRailsOk(ProposalFromSchedule(ref.choice))
<1>1. ref \in SolveSchedule(Candidates(snapshot))
  BY DEF ReferenceIsCurrent, ReferenceSchedules
<1>2. Candidates(snapshot) \in SUBSET Candidate
  BY CandidatesType
<1>3. ref \in ScheduleResult /\ (ref.status = "selected" => ref.choice \in Optimal(Candidates(snapshot)))
  BY <1>1, <1>2, SolveScheduleResult
<1>. QED BY <1>1, <1>2, <1>3, OptimalFeasible, ProposalFromScheduleType

\* The controller starts in the invariant.
LEMMA InitInv == Init => Inv
<1>. SUFFICES ASSUME Init PROVE Inv
  OBVIOUS
<1>1. deployment \in Deployments /\ clock \in Int /\ pc \in Step
  BY WorkflowAssumption DEF Init, Step
<1>2. cycle \in 0..NumCycles
  BY WorkflowAssumption DEF Init
<1>3. ledger \in Seq(CycleRecord)
  BY DEF Init
<1>4. TypeOK
  BY <1>1, <1>2, <1>3 DEF Init, TypeOK
<1>5. CycleShape /\ ReferenceIsCurrent /\ PlacementInCatalog /\ ActionExecutable
  BY DEF Init, CycleShape, ReferenceIsCurrent, PlacementInCatalog, ActionExecutable
<1>. QED BY <1>4, <1>5 DEF Inv

\* What every way to begin a cycle has in common.
LEMMA NewCycleTypes ==
  ASSUME Inv, NEW m \in Modes, NEW raw \in Snapshots, NewCycle(m, raw)
  PROVE  /\ deployment' \in Deployments /\ clock' \in Int /\ cycle' \in 0..NumCycles
         /\ mode' \in DecisionMode /\ snapshot' \in CarbonSnapshot
         /\ cycleNow' \in Int \cup {None}
         /\ LastKnownGoodAfter(m, raw) \in CarbonSnapshot \cup {None}
         /\ agentProposal' = None /\ reference' = None
         /\ lastPlacement' \in Regions \cup {None}
         /\ lastPlacement' \in ProposedRegions \cup {None}
         /\ ledger' \in Seq(CycleRecord)
<1>1. m \in DecisionMode /\ FrozenSnapshot(raw) \in CarbonSnapshot
  BY WorkflowAssumption, FrozenSnapshotType
<1>2. cycle \in 0..NumCycles /\ cycle < NumCycles
  BY DEF Inv, TypeOK, NewCycle
<1>3. cycle' \in 0..NumCycles
  BY <1>2, WorkflowAssumption DEF NewCycle
<1>4. cycleNow' \in Int \cup {None}
  BY DEF Inv, TypeOK, NewCycle, ReadClock
<1>. QED BY <1>1, <1>3, <1>4 DEF Inv, TypeOK, PlacementInCatalog, NewCycle, LastKnownGoodAfter

\* A cycle that decides on its own data begins in the invariant.
LEMMA BeginOnOwnDataInv ==
  ASSUME Inv, NEW m \in Modes, NEW raw \in Snapshots, BeginOnOwnData(m, raw)
  PROVE  Inv'
<1>1. NewCycle(m, raw) /\ m \in DecisionMode
  BY WorkflowAssumption DEF BeginOnOwnData
<1>2. pc' \in {"propose", "schedule", "static"}
  BY <1>1 DEF BeginOnOwnData, FirstStep, DecisionMode
<1>3. TypeOK'
  BY <1>1, <1>2, NewCycleTypes DEF TypeOK, BeginOnOwnData, Step
<1>4. CycleShape' /\ ReferenceIsCurrent' /\ PlacementInCatalog' /\ ActionExecutable'
  BY <1>1, <1>2, NewCycleTypes
     DEF CycleShape, ReferenceIsCurrent, PlacementInCatalog, ActionExecutable
<1>. QED BY <1>3, <1>4 DEF Inv

\* So does a cycle that falls back to the last known good snapshot.
LEMMA BeginOnLastKnownGoodInv ==
  ASSUME Inv, NEW m \in Modes, NEW raw \in Snapshots, BeginOnLastKnownGood(m, raw)
  PROVE  Inv'
<1>1. NewCycle(m, raw) /\ pc' = "dispatch"
  BY DEF BeginOnLastKnownGood
<1>2. lkg \in CarbonSnapshot
  BY DEF BeginOnLastKnownGood, LastKnownGoodUsable, Inv, TypeOK
<1>3. PICK c \in Optimal(Candidates(lkg)) : action' = ProposalFromSchedule(c)
  BY DEF BeginOnLastKnownGood
<1>4. c \in Candidate /\ InWindow(c.time) /\ RegionFeasible(c.region)
  BY <1>2, CandidatesType, OptimalFeasible
<1>5. action' \in ActionProposal /\ ProposalRailsOk(action')
  BY <1>3, <1>4, ProposalFromScheduleType
<1>6. TypeOK'
  BY <1>1, <1>5, NewCycleTypes DEF TypeOK, BeginOnLastKnownGood, Step, Source
<1>7. ActionExecutable'
  BY <1>5 DEF ActionExecutable, ProposalRailsOk
<1>8. CycleShape' /\ ReferenceIsCurrent' /\ PlacementInCatalog'
  BY <1>1, <1>5, NewCycleTypes DEF CycleShape, ReferenceIsCurrent, PlacementInCatalog
<1>. QED BY <1>6, <1>7, <1>8 DEF Inv

\* And a held cycle, whose action names the remembered region.
LEMMA BeginHoldInv ==
  ASSUME Inv, NEW m \in Modes, NEW raw \in Snapshots, BeginHold(m, raw)
  PROVE  Inv'
<1>1. NewCycle(m, raw) /\ pc' = "record"
  BY DEF BeginHold
<1>2. HeldRegion \in Regions
  BY SchedulingAssumption DEF Inv, PlacementInCatalog, HeldRegion
<1>3. P95[HeldRegion] \in Nat \ {0} /\ HeldRegion \in ProposedRegions /\ TargetService \in Services
  BY <1>2, SchedulingAssumption, TrustAssumption
<1>4. action' = [region |-> HeldRegion, time |-> None, p95 |-> P95[HeldRegion],
                 service |-> TargetService, evidence |-> {}]
  BY DEF BeginHold
<1>5. action' \in ActionProposal /\ action'.region \in Regions
  BY <1>2, <1>3, <1>4 DEF ActionProposal
<1>6. result' \in CycleResult
  BY DEF BeginHold, CycleResult, Outcome, Alert
<1>7. TypeOK'
  BY <1>1, <1>5, <1>6, NewCycleTypes DEF TypeOK, BeginHold, Step, Source
<1>8. CycleShape' /\ ReferenceIsCurrent' /\ PlacementInCatalog' /\ ActionExecutable'
  BY <1>1, <1>5, <1>6, NewCycleTypes
     DEF CycleShape, ReferenceIsCurrent, PlacementInCatalog, ActionExecutable
<1>. QED BY <1>7, <1>8 DEF Inv

\* The groups of variables an action leaves alone.
USE DEF decisionVars, memoryVars, choiceVars

\* A missing proposal leaves a hybrid cycle to the MILP and ends the others.
LEMMA ProposalFailsInv == Inv /\ ProposalFails => Inv'
<1>. SUFFICES ASSUME Inv, ProposalFails PROVE Inv'
  OBVIOUS
<1>1. CASE mode = "hybrid"
  <2>1. pc' = "schedule" /\ result' = None
    BY <1>1 DEF ProposalFails, AfterFailedProposal
  <2>. QED BY <1>1, <2>1 DEF Inv, TypeOK, CycleShape, ReferenceIsCurrent, PlacementInCatalog,
         ActionExecutable, ProposalFails, Step
<1>2. CASE mode /= "hybrid"
  <2>1. pc' = "record" /\ result' = [outcome |-> "proposal_unavailable", receipt |-> FALSE, alert |-> "none"]
    BY <1>2 DEF ProposalFails, AfterFailedProposal
  <2>2. result' \in CycleResult /\ ~result'.receipt
    BY <2>1 DEF CycleResult, Outcome, Alert
  <2>. QED BY <1>2, <2>1, <2>2 DEF Inv, TypeOK, CycleShape, ReferenceIsCurrent, PlacementInCatalog,
         ActionExecutable, ProposalFails, Step
<1>. QED BY <1>1, <1>2

\* A proposal is evaluated, dispatched after its rails, or rejected.
LEMMA ProposalArrivesInv ==
  ASSUME Inv, NEW p \in Proposals, ProposalArrives(p)
  PROVE  Inv'
<1>1. p \in ActionProposal
  BY WorkflowAssumption
<1>2. CASE mode = "hybrid"
  BY <1>1, <1>2 DEF Inv, TypeOK, CycleShape, ReferenceIsCurrent, PlacementInCatalog,
     ActionExecutable, ProposalArrives, Step
<1>3. CASE mode /= "hybrid" /\ ProposalRailsOk(p)
  <2>1. pc' = "dispatch" /\ action' = p /\ result' = result
    BY <1>3 DEF ProposalArrives
  <2>2. ActionExecutable'
    BY <1>3, <2>1 DEF ActionExecutable, ProposalRailsOk
  <2>. QED BY <1>1, <2>1, <2>2 DEF Inv, TypeOK, CycleShape, ReferenceIsCurrent, PlacementInCatalog,
         ProposalArrives, Step
<1>4. CASE mode /= "hybrid" /\ ~ProposalRailsOk(p)
  <2>1. /\ pc' = "record" /\ action' = action
        /\ result' = [outcome |-> "proposal_rejected", receipt |-> FALSE, alert |-> "none"]
    BY <1>4 DEF ProposalArrives, Conclude
  <2>2. result' \in CycleResult /\ ~result'.receipt
    BY <2>1 DEF CycleResult, Outcome, Alert
  <2>. QED BY <1>1, <2>1, <2>2 DEF Inv, TypeOK, CycleShape, ReferenceIsCurrent, PlacementInCatalog,
         ActionExecutable, ProposalArrives, Step
<1>. QED BY <1>2, <1>3, <1>4

\* The trust decision admits only a proposal that passed the seven rails.
LEMMA TrustedPassesRails ==
  ASSUME NEW ref, NEW e, Trusted(ref, e)
  PROVE  ProposalRailsOk(agentProposal)
BY DEF Trusted, HardRailsOk, AsBuiltTrusts

\* A trusted proposal is dispatched as it stands; a distrusted one is dropped.
LEMMA EvaluateTrustInv ==
  ASSUME Inv, NEW e \in Evaluations, EvaluateTrust(e)
  PROVE  Inv'
<1>1. PICK ref \in ReferenceSchedules :
        /\ reference' = IF V2Family THEN ref ELSE None
        /\ IF Trusted(ref, e)
             THEN /\ trust' = "passed" /\ action' = agentProposal
                  /\ pc' = "dispatch" /\ UNCHANGED fallback
             ELSE /\ trust' = "failed" /\ fallback' = TRUE
                  /\ pc' = "schedule" /\ UNCHANGED action
  BY DEF EvaluateTrust
<1>2. pc = "evaluate" /\ mode \in DecisionMode /\ snapshot \in CarbonSnapshot
  BY DEF EvaluateTrust, Inv, CycleShape
<1>3. agentProposal \in ActionProposal
  BY <1>2 DEF Inv, CycleShape
<1>4. ref \in SolveSchedule(Candidates(snapshot)) /\ ref \in ScheduleResult
  BY <1>2, ReferenceSchedulesSound DEF Inv
<1>5. reference' \in ScheduleResult \cup {None} /\ ReferenceIsCurrent'
  BY <1>1, <1>4 DEF ReferenceIsCurrent, EvaluateTrust
<1>6. /\ pc' \in {"dispatch", "schedule"} /\ trust' \in {"passed", "failed"}
      /\ action' \in ActionProposal \cup {None} /\ fallback' \in BOOLEAN
  BY <1>1, <1>3 DEF Inv, TypeOK
<1>7. TypeOK'
  BY <1>5, <1>6 DEF Inv, TypeOK, EvaluateTrust, Step
<1>8. pc' = "dispatch" => action' = agentProposal /\ ProposalRailsOk(agentProposal)
  BY <1>1, TrustedPassesRails
<1>9. ActionExecutable'
  BY <1>6, <1>8 DEF ActionExecutable, ProposalRailsOk
<1>10. CycleShape' /\ PlacementInCatalog'
  BY <1>2, <1>3, <1>6, <1>8 DEF Inv, CycleShape, PlacementInCatalog, EvaluateTrust
<1>. QED BY <1>5, <1>7, <1>9, <1>10 DEF Inv

\* The MILP dispatches a feasible choice or ends the cycle with its status.
LEMMA RunMilpInv == Inv /\ RunMilp => Inv'
<1>. SUFFICES ASSUME Inv, RunMilp PROVE Inv'
  OBVIOUS
<1>1. PICK ref \in ReferenceSchedules :
        /\ reference' = ref
        /\ IF ref.status = "selected"
             THEN /\ action' = ProposalFromSchedule(ref.choice)
                  /\ pc' = "dispatch" /\ UNCHANGED result
             ELSE Conclude(ref.status) /\ UNCHANGED action
  BY DEF RunMilp
<1>2. pc = "schedule" /\ mode \in DecisionMode /\ snapshot \in CarbonSnapshot
  BY DEF RunMilp, Inv, CycleShape
<1>3. /\ ref \in SolveSchedule(Candidates(snapshot)) /\ ref \in ScheduleResult
      /\ ref.status = "selected" =>
           /\ ProposalFromSchedule(ref.choice) \in ActionProposal
           /\ ProposalRailsOk(ProposalFromSchedule(ref.choice))
  BY <1>2, ReferenceSchedulesSound DEF Inv
<1>4. reference' \in ScheduleResult \cup {None} /\ ReferenceIsCurrent'
  BY <1>1, <1>3 DEF ReferenceIsCurrent, RunMilp
<1>5. CASE ref.status = "selected"
  <2>1. pc' = "dispatch" /\ action' = ProposalFromSchedule(ref.choice) /\ result' = result
    BY <1>1, <1>5
  <2>2. action' \in ActionProposal /\ ProposalRailsOk(action')
    BY <1>3, <1>5, <2>1
  <2>3. ActionExecutable'
    BY <2>2 DEF ActionExecutable, ProposalRailsOk
  <2>4. TypeOK'
    BY <1>4, <2>1, <2>2 DEF Inv, TypeOK, RunMilp, Step
  <2>5. CycleShape' /\ PlacementInCatalog'
    BY <1>2, <2>1, <2>2 DEF Inv, CycleShape, PlacementInCatalog, RunMilp
  <2>. QED BY <1>4, <2>3, <2>4, <2>5 DEF Inv
<1>6. CASE ref.status /= "selected"
  <2>1. /\ pc' = "record" /\ action' = action
        /\ result' = [outcome |-> ref.status, receipt |-> FALSE, alert |-> "none"]
    BY <1>1, <1>6 DEF Conclude
  <2>2. ref.status \in {"infeasible", "solver_unavailable"}
    BY <1>3, <1>6 DEF ScheduleResult
  <2>3. result' \in CycleResult /\ ~result'.receipt
    BY <2>1, <2>2 DEF CycleResult, Outcome, Alert
  <2>4. TypeOK'
    BY <1>4, <2>1, <2>3 DEF Inv, TypeOK, RunMilp, Step
  <2>5. CycleShape' /\ PlacementInCatalog' /\ ActionExecutable'
    BY <1>2, <2>1, <2>3 DEF Inv, CycleShape, PlacementInCatalog, ActionExecutable, RunMilp
  <2>. QED BY <1>4, <2>4, <2>5 DEF Inv
<1>. QED BY <1>5, <1>6

\* The static baseline is dispatched when its region is available.
LEMMA RunStaticReferenceInv == Inv /\ RunStaticReference => Inv'
<1>. SUFFICES ASSUME Inv, RunStaticReference PROVE Inv'
  OBVIOUS
<1>1. pc = "static" /\ mode \in DecisionMode /\ snapshot \in CarbonSnapshot
  BY DEF RunStaticReference, Inv, CycleShape
<1>2. CASE Available[DefaultRegion]
  <2>1. /\ pc' = "dispatch" /\ result' = result
        /\ action' = [region |-> DefaultRegion, time |-> EarliestStart,
                      p95 |-> P95[DefaultRegion], service |-> TargetService, evidence |-> {}]
    BY <1>2 DEF RunStaticReference
  <2>2. P95[DefaultRegion] \in Nat \ {0} /\ DefaultRegion \in ProposedRegions /\ TargetService \in Services
    BY SchedulingAssumption, TrustAssumption
  <2>3. action' \in ActionProposal
    BY <2>1, <2>2, SchedulingAssumption DEF ActionProposal
  <2>4. InWindow(StartTime(action'))
    BY <2>1, SchedulingAssumption DEF StartTime, InWindow
  <2>5. ActionExecutable'
    BY <1>2, <2>1, <2>4, SchedulingAssumption DEF ActionExecutable
  <2>. QED BY <1>1, <2>1, <2>3, <2>5 DEF Inv, TypeOK, CycleShape, ReferenceIsCurrent,
         PlacementInCatalog, RunStaticReference, Step
<1>3. CASE ~Available[DefaultRegion]
  <2>1. /\ pc' = "record" /\ action' = action
        /\ result' = [outcome |-> "infeasible", receipt |-> FALSE, alert |-> "none"]
    BY <1>3 DEF RunStaticReference, Conclude
  <2>2. result' \in CycleResult /\ ~result'.receipt
    BY <2>1 DEF CycleResult, Outcome, Alert
  <2>. QED BY <1>1, <2>1, <2>2 DEF Inv, TypeOK, CycleShape, ReferenceIsCurrent,
         PlacementInCatalog, ActionExecutable, RunStaticReference, Step
<1>. QED BY <1>2, <1>3

\* A refused action leaves a receipt that names it.
LEMMA RefuseLateActionInv == Inv /\ RefuseLateAction => Inv'
<1>. SUFFICES ASSUME Inv, RefuseLateAction PROVE Inv'
  OBVIOUS
<1>1. /\ pc = "dispatch" /\ pc' = "record"
      /\ result' = [outcome |-> "deadline_passed", receipt |-> TRUE, alert |-> AlertOf("critical")]
  BY DEF RefuseLateAction
<1>2. action \in ActionProposal /\ action.region \in Regions
  BY <1>1 DEF Inv, CycleShape, ActionExecutable
<1>3. result' \in CycleResult
  BY <1>1 DEF AlertOf, CycleResult, Outcome, Alert
<1>. QED BY <1>1, <1>2, <1>3 DEF Inv, TypeOK, CycleShape, ReferenceIsCurrent,
       PlacementInCatalog, ActionExecutable, RefuseLateAction, Step

\* Whatever the executor returns or raises is a result of the cycle.
LEMMA ExecutorReturnsInv == Inv /\ ExecutorReturns => Inv'
<1>. SUFFICES ASSUME Inv, ExecutorReturns PROVE Inv'
  OBVIOUS
<1>1. pc = "executing" /\ pc' = "record" /\ result' \in ExecutorResults
  BY DEF ExecutorReturns
<1>2. action \in ActionProposal /\ action.region \in Regions
  BY <1>1 DEF Inv, CycleShape, ActionExecutable
<1>3. AlertOf("none") \in Alert
  BY DEF AlertOf, Alert
<1>4. result' \in CycleResult
  BY <1>1, <1>3 DEF ExecutorResults, CycleResult, Outcome
<1>. QED BY <1>1, <1>2, <1>4 DEF Inv, TypeOK, CycleShape, ReferenceIsCurrent,
       PlacementInCatalog, ActionExecutable, ExecutorReturns, Step

\* The record appended to the log is complete, and the remembered placement
\* moves only to a region of the catalog.
LEMMA RecordCycleInv == Inv /\ RecordCycle => Inv'
<1>. SUFFICES ASSUME Inv, RecordCycle PROVE Inv'
  OBVIOUS
<1>1. pc = "record" /\ pc' = "idle" /\ ledger' = Append(ledger, StampedRecord) /\ lastPlacement' = PlacementAfter
  BY DEF RecordCycle
<1>2. /\ mode \in DecisionMode /\ snapshot \in CarbonSnapshot /\ result \in CycleResult
      /\ result.receipt => action \in ActionProposal /\ action.region \in Regions
  BY <1>1 DEF Inv, CycleShape
<1>3. /\ result.outcome \in Outcome /\ result.receipt \in BOOLEAN /\ result.alert \in Alert
  BY <1>2 DEF CycleResult
<1>4. (IF result.receipt THEN DecisionSource ELSE source) \in Source \cup {None}
  BY DEF DecisionSource, Source, Inv, TypeOK
<1>5. (IF result.receipt THEN action.region ELSE None) \in ProposedRegions \cup {None}
  BY <1>2, TrustAssumption
<1>6. (IF source = "milp_last_known_good" THEN lkg ELSE None) \in CarbonSnapshot \cup {None}
  BY DEF Inv, TypeOK
<1>7. integrity \in {"none", "passed", "failed"}
  BY DEF Inv, TypeOK
<1>8. StampedRecord \in CycleRecord
  BY <1>2, <1>3, <1>4, <1>5, <1>6, <1>7 DEF StampedRecord, CycleRecord
<1>9. ledger' \in Seq(CycleRecord)
  BY <1>1, <1>8 DEF Inv, TypeOK
<1>10. lastPlacement' \in Regions \cup {None}
  BY <1>1, <1>2 DEF PlacementAfter, Inv, PlacementInCatalog
<1>11. lastPlacement' \in ProposedRegions \cup {None}
  BY <1>10, TrustAssumption
<1>. QED BY <1>1, <1>9, <1>10, <1>11 DEF Inv, TypeOK, CycleShape, ReferenceIsCurrent,
       PlacementInCatalog, ActionExecutable, RecordCycle, Step

\* Every step of the run preserves the invariant.
LEMMA NextInv == Inv /\ [Next]_vars => Inv'
<1>. SUFFICES ASSUME Inv, [Next]_vars PROVE Inv'
  OBVIOUS
<1>1. CASE Tick
  <2>1. clock' \in Int
    BY <1>1 DEF Tick, Inv, TypeOK
  <2>. QED BY <1>1, <2>1 DEF Inv, TypeOK, CycleShape, ReferenceIsCurrent, PlacementInCatalog,
         ActionExecutable, Tick
<1>2. CASE BeginCycle
  BY <1>2, BeginOnOwnDataInv, BeginOnLastKnownGoodInv, BeginHoldInv DEF BeginCycle
<1>3. CASE ProposalFails
  BY <1>3, ProposalFailsInv
<1>4. CASE \E p \in Proposals : ProposalArrives(p)
  BY <1>4, ProposalArrivesInv
<1>5. CASE \E e \in Evaluations : EvaluateTrust(e)
  BY <1>5, EvaluateTrustInv
<1>6. CASE RunMilp
  BY <1>6, RunMilpInv
<1>7. CASE RunStaticReference
  BY <1>7, RunStaticReferenceInv
<1>8. CASE RefuseLateAction
  BY <1>8, RefuseLateActionInv
<1>9. CASE EnterExecutor
  BY <1>9 DEF Inv, TypeOK, CycleShape, ReferenceIsCurrent, PlacementInCatalog,
     ActionExecutable, EnterExecutor, Step
<1>10. CASE ExecutorReturns
  BY <1>10, ExecutorReturnsInv
<1>11. CASE RecordCycle
  BY <1>11, RecordCycleInv
<1>12. CASE UNCHANGED vars
  BY <1>12 DEF vars, Inv, TypeOK, CycleShape, ReferenceIsCurrent, PlacementInCatalog, ActionExecutable
<1>. QED BY <1>1, <1>2, <1>3, <1>4, <1>5, <1>6, <1>7, <1>8, <1>9, <1>10, <1>11, <1>12
       DEF Next, ControllerStep, RunComplete

-----------------------------------------------------------------------------

\* The inductive invariant holds throughout every run.
THEOREM Invariance == Spec => []Inv
<1>. QED BY InitInv, NextInv, PTL DEF Spec

\* Type correctness: every run keeps its variables and its log well formed.
THEOREM TypeCorrect == Spec => []TypeOK
<1>1. Inv => TypeOK
  BY DEF Inv
<1>. QED BY <1>1, Invariance, PTL

\* No mode, backend or fallback hands the executor an action outside the
\* window or in an unavailable region, whatever the LLM proposes.
THEOREM ActionsExecutable == Spec => []ActionExecutable
<1>1. Inv => ActionExecutable
  BY DEF Inv
<1>. QED BY <1>1, Invariance, PTL

-----------------------------------------------------------------------------
(* The path a cycle takes.                                                 *)

\* Until an action is chosen no decision source is set, and only a static
\* cycle reaches the static step.
Path ==
  /\ pc \in {"propose", "evaluate", "schedule", "static"} => source = None
  /\ pc = "static" => mode = "static_reference"

\* Every step keeps a cycle on its path.
LEMMA PathPreserved == Inv /\ Path /\ [Next]_vars => Path'
<1>. SUFFICES ASSUME Inv, Path, [Next]_vars PROVE Path'
  OBVIOUS
<1>1. ASSUME NEW m \in Modes, NEW raw \in Snapshots, BeginOnOwnData(m, raw) PROVE Path'
  <2>1. m \in DecisionMode
    BY WorkflowAssumption
  <2>. QED BY <1>1, <2>1 DEF BeginOnOwnData, NewCycle, FirstStep, DecisionMode, Path
<1>2. ASSUME NEW m \in Modes, NEW raw \in Snapshots, BeginOnLastKnownGood(m, raw) PROVE Path'
  BY <1>2 DEF BeginOnLastKnownGood, Path
<1>3. ASSUME NEW m \in Modes, NEW raw \in Snapshots, BeginHold(m, raw) PROVE Path'
  BY <1>3 DEF BeginHold, Path
<1>4. CASE ProposalFails
  BY <1>4 DEF ProposalFails, AfterFailedProposal, Path
<1>5. ASSUME NEW p \in Proposals, ProposalArrives(p) PROVE Path'
  BY <1>5 DEF ProposalArrives, Conclude, Path
<1>6. ASSUME NEW e \in Evaluations, EvaluateTrust(e) PROVE Path'
  BY <1>6 DEF EvaluateTrust, Path
<1>7. CASE RunMilp
  BY <1>7 DEF RunMilp, Conclude, Path
<1>8. CASE RunStaticReference
  BY <1>8 DEF RunStaticReference, Conclude, Path
<1>9. CASE Tick \/ RefuseLateAction \/ EnterExecutor \/ ExecutorReturns \/ RecordCycle
  BY <1>9 DEF Tick, RefuseLateAction, EnterExecutor, ExecutorReturns, RecordCycle, Path
<1>10. CASE UNCHANGED vars
  BY <1>10 DEF vars, Path
<1>. QED BY <1>1, <1>2, <1>3, <1>4, <1>5, <1>6, <1>7, <1>8, <1>9, <1>10
       DEF Next, ControllerStep, BeginCycle, RunComplete

-----------------------------------------------------------------------------
(* The carbon value of a hybrid action.                                    *)

CarbonInv == Inv /\ Path /\ HybridNearOptimal

\* A cycle decided on the last known good snapshot is near its optimum.
LEMMA LastKnownGoodNearOptimal ==
  ASSUME Inv, NEW m \in Modes, NEW raw \in Snapshots, BeginOnLastKnownGood(m, raw)
  PROVE  HybridNearOptimal'
<1>1. lkg \in CarbonSnapshot
  BY DEF BeginOnLastKnownGood, LastKnownGoodUsable, Inv, TypeOK
<1>2. lkg' = lkg
  BY DEF BeginOnLastKnownGood, LastKnownGoodAfter
<1>3. PICK c \in Optimal(Candidates(lkg)) : action' = ProposalFromSchedule(c)
  BY DEF BeginOnLastKnownGood
<1>4. Basis' = lkg
  BY <1>2 DEF BeginOnLastKnownGood, Basis
<1>5. NearOptimal(action', Candidates(lkg))
  BY <1>1, <1>3, FallbackIsNearOptimal
<1>. QED BY <1>4, <1>5 DEF HybridNearOptimal

\* An admitted proposal is: the gate compared it with the cycle's reference.
LEMMA AdmittedNearOptimal ==
  ASSUME Inv, Path, NEW e \in Evaluations, EvaluateTrust(e)
  PROVE  HybridNearOptimal'
<1>. SUFFICES ASSUME pc' = "dispatch", FeasibilityRail PROVE NearOptimal(action', Candidates(Basis'))
  <2>1. pc' \in {"dispatch", "schedule"} /\ FeasibilityRail' = FeasibilityRail
    BY DEF EvaluateTrust, FeasibilityRail
  <2>. QED BY <2>1 DEF HybridNearOptimal
<1>1. PICK ref \in ReferenceSchedules :
        IF Trusted(ref, e)
          THEN action' = agentProposal /\ pc' = "dispatch"
          ELSE pc' = "schedule"
  BY DEF EvaluateTrust
<1>2. pc = "evaluate" /\ snapshot \in CarbonSnapshot /\ agentProposal \in ActionProposal
  BY DEF EvaluateTrust, Inv, CycleShape
<1>3. ref \in SolveSchedule(Candidates(snapshot))
  BY <1>2, ReferenceSchedulesSound DEF Inv
<1>4. Trusted(ref, e) /\ action' = agentProposal
  BY <1>1
<1>5. V2Family
  BY DEF FeasibilityRail, V2Family
<1>6. RegretOk(agentProposal, Candidates(snapshot), ref) /\ ModelFeasible(agentProposal, Candidates(snapshot))
  BY <1>4, <1>5 DEF Trusted, HardRailsOk
<1>7. NearOptimal(agentProposal, Candidates(snapshot))
  BY <1>2, <1>3, <1>6, AdmittedIsNearOptimal
<1>8. Basis' = snapshot
  BY <1>2, WorkflowAssumption DEF Path, Basis, Source, EvaluateTrust
<1>. QED BY <1>4, <1>7, <1>8

\* So is the MILP's fallback, on the cycle's own snapshot.
LEMMA FallbackNearOptimal ==
  ASSUME Inv, Path, RunMilp
  PROVE  HybridNearOptimal'
<1>. SUFFICES ASSUME pc' = "dispatch" PROVE NearOptimal(action', Candidates(Basis'))
  <2>1. pc' \in {"dispatch", "record"}
    BY DEF RunMilp, Conclude
  <2>. QED BY <2>1 DEF HybridNearOptimal
<1>1. PICK ref \in ReferenceSchedules :
        IF ref.status = "selected"
          THEN action' = ProposalFromSchedule(ref.choice) /\ pc' = "dispatch"
          ELSE pc' = "record"
  BY DEF RunMilp, Conclude
<1>2. pc = "schedule" /\ snapshot \in CarbonSnapshot
  BY DEF RunMilp, Inv, CycleShape
<1>3. ref.choice \in Optimal(Candidates(snapshot)) /\ action' = ProposalFromSchedule(ref.choice)
  BY <1>1, <1>2, ReferenceSchedulesSound DEF Inv
<1>4. Basis' = snapshot
  BY <1>2, WorkflowAssumption DEF Path, Basis, Source, RunMilp
<1>. QED BY <1>2, <1>3, <1>4, FallbackIsNearOptimal

\* No other step puts a hybrid action before the executor.
LEMMA CarbonInvPreserved == CarbonInv /\ [Next]_vars => CarbonInv'
<1>. SUFFICES ASSUME CarbonInv, [Next]_vars PROVE HybridNearOptimal'
  BY NextInv, PathPreserved DEF CarbonInv
<1>. USE DEF CarbonInv
<1>1. ASSUME NEW m \in Modes, NEW raw \in Snapshots, BeginOnOwnData(m, raw) PROVE HybridNearOptimal'
  <2>1. pc' \in {"propose", "schedule", "static"}
    BY <1>1, WorkflowAssumption DEF BeginOnOwnData, FirstStep, DecisionMode
  <2>. QED BY <2>1 DEF HybridNearOptimal
<1>2. ASSUME NEW m \in Modes, NEW raw \in Snapshots, BeginHold(m, raw) PROVE HybridNearOptimal'
  BY <1>2 DEF BeginHold, HybridNearOptimal
<1>3. CASE ProposalFails
  BY <1>3 DEF ProposalFails, AfterFailedProposal, HybridNearOptimal
<1>4. ASSUME NEW p \in Proposals, ProposalArrives(p) PROVE HybridNearOptimal'
  BY <1>4 DEF ProposalArrives, Conclude, HybridNearOptimal
<1>5. CASE RunStaticReference
  BY <1>5 DEF RunStaticReference, Path, HybridNearOptimal
<1>6. CASE RefuseLateAction \/ ExecutorReturns \/ RecordCycle
  BY <1>6 DEF RefuseLateAction, ExecutorReturns, RecordCycle, HybridNearOptimal
<1>7. CASE Tick \/ EnterExecutor
  BY <1>7 DEF Tick, EnterExecutor, HybridNearOptimal, FeasibilityRail, Basis
<1>8. CASE UNCHANGED vars
  BY <1>8 DEF vars, HybridNearOptimal, FeasibilityRail, Basis
<1>. QED BY <1>1, <1>2, <1>3, <1>4, <1>5, <1>6, <1>7, <1>8,
            LastKnownGoodNearOptimal, AdmittedNearOptimal, FallbackNearOptimal
       DEF Next, ControllerStep, BeginCycle, RunComplete

\* Under v2.1 every hybrid action that reaches the executor lies between the
\* optimum of its data and the regret tolerance above it, whatever the LLM
\* proposed and whichever path decided (trust.check_carbon_regret, _run_milp,
\* _data_integrity_response).
THEOREM HybridActionsNearOptimal == Spec => []HybridNearOptimal
<1>1. Init => CarbonInv
  BY InitInv DEF Init, CarbonInv, Path, HybridNearOptimal
<1>2. CarbonInv => HybridNearOptimal
  BY DEF CarbonInv
<1>. QED BY <1>1, <1>2, CarbonInvPreserved, PTL DEF Spec

-----------------------------------------------------------------------------
(* The moment of the dispatch.  Only the direct backend checks the         *)
(* deadline on every path, so the next two theorems are about runs whose   *)
(* deployments all use it.                                                 *)

DirectBackend == \A d \in Deployments : d.backend = "direct"

\* A direct run in the v2 family reads the clock once more and refuses a late
\* action (workflow.py:1054-1083).
LEMMA EntryIsInTime ==
  ASSUME DirectBackend, Inv, [Next]_vars, EntersExecutor, deployment.real, V2Family
  PROVE  clock \in Int /\ clock <= Deadline
<1>1. EnterExecutor
  <2>1. pc = "dispatch" /\ pc' = "executing"
    BY DEF EntersExecutor
  <2>. QED BY <2>1 DEF Next, Tick, ControllerStep, BeginCycle, BeginOnOwnData,
         BeginOnLastKnownGood, BeginHold, NewCycle, ProposalFails, ProposalArrives,
         EvaluateTrust, RunMilp, RunStaticReference, RefuseLateAction, ExecutorReturns,
         RecordCycle, RunComplete, vars
<1>2. deployment.backend = "direct" /\ clock \in Int
  BY DEF Inv, TypeOK, DirectBackend
<1>3. DispatchChecksDeadline /\ DispatchClock = clock
  BY <1>2 DEF DispatchChecksDeadline, DispatchClock, ReadClock, HasClock
<1>. QED BY <1>1, <1>2, <1>3, SchedulingAssumption DEF EnterExecutor, TooLate

\* However long the LLM and the solver take, no session of a direct v2-family
\* run starts after the deadline.
THEOREM DirectEntryInTime == ASSUME DirectBackend PROVE Spec => NoEntryAfterDeadline
<1>1. Inv /\ [Next]_vars =>
        [EntersExecutor /\ deployment.real /\ V2Family => clock <= Deadline]_vars
  BY EntryIsInTime
<1>. QED BY <1>1, Invariance, PTL DEF Spec, NoEntryAfterDeadline

\* The ages the data rails and the last-known-good limit established when the
\* cycle began.
AgedAtStart ==
  deployment.real /\ ChecksData(mode)
    /\ pc \in {"propose", "evaluate", "schedule", "dispatch", "executing"} =>
    /\ cycleNow \in Int
    /\ IF source = "milp_last_known_good"
         THEN lkg \in CarbonSnapshot /\ SnapshotAgeWithin(lkg, cycleNow, LkgMaxAge)
         ELSE SnapshotAgeWithin(snapshot, cycleNow, MaxDataAge)

\* The data rails bound the age at the cycle's clock.
LEMMA DataRailsBoundAge ==
  ASSUME NEW s, NEW now, now /= None, DataRailsOk(s, now)
  PROVE  SnapshotAgeWithin(s, now, MaxDataAge)
BY DEF DataRailsOk, DataAgeOk, AgesWithinLimits, SnapshotAgeWithin

\* A cycle that decides on its own data has just checked its age.
LEMMA BeginOnOwnDataAged ==
  ASSUME Inv, NEW m \in Modes, NEW raw \in Snapshots, BeginOnOwnData(m, raw)
  PROVE  AgedAtStart'
<1>. SUFFICES ASSUME deployment.real, ChecksData(m)
     PROVE  /\ cycleNow' \in Int /\ source' /= "milp_last_known_good"
            /\ SnapshotAgeWithin(snapshot', cycleNow', MaxDataAge)
  BY DEF BeginOnOwnData, NewCycle, AgedAtStart, ChecksData, V2Family
<1>1. cycleNow' = clock /\ clock \in Int /\ clock /= None /\ ReadClock = clock
  BY SchedulingAssumption DEF BeginOnOwnData, NewCycle, ReadClock, HasClock, Inv, TypeOK
<1>2. DataRailsOk(snapshot', clock) /\ source' = None
  BY <1>1 DEF BeginOnOwnData, NewCycle
<1>3. SnapshotAgeWithin(snapshot', clock, MaxDataAge)
  BY <1>1, <1>2, DataRailsBoundAge
<1>. QED BY <1>1, <1>2, <1>3, WorkflowAssumption DEF Source

\* A fallback has just checked the age of the snapshot it decides on.
LEMMA BeginOnLastKnownGoodAged ==
  ASSUME Inv, NEW m \in Modes, NEW raw \in Snapshots, BeginOnLastKnownGood(m, raw)
  PROVE  AgedAtStart'
<1>. SUFFICES ASSUME deployment.real
     PROVE  /\ cycleNow' \in Int /\ source' = "milp_last_known_good"
            /\ lkg' \in CarbonSnapshot /\ SnapshotAgeWithin(lkg', cycleNow', LkgMaxAge)
  BY DEF BeginOnLastKnownGood, NewCycle, AgedAtStart
<1>1. cycleNow' = clock /\ clock \in Int
  BY DEF BeginOnLastKnownGood, NewCycle, ReadClock, HasClock, Inv, TypeOK
<1>2. lkg' = lkg /\ lkg \in CarbonSnapshot
  BY DEF BeginOnLastKnownGood, LastKnownGoodAfter, LastKnownGoodUsable, Inv, TypeOK
<1>3. SnapshotAgeWithin(lkg, clock, LkgMaxAge)
  BY DEF BeginOnLastKnownGood, LastKnownGoodUsable, HasClock
<1>. QED BY <1>1, <1>2, <1>3 DEF BeginOnLastKnownGood

\* Nothing in between touches what was checked.
LEMMA AgedPreserved == Inv /\ Path /\ AgedAtStart /\ [Next]_vars => AgedAtStart'
<1>. SUFFICES ASSUME Inv, Path, AgedAtStart, [Next]_vars PROVE AgedAtStart'
  OBVIOUS
<1>. USE DEF AgedAtStart, ChecksData, V2Family
<1>1. ASSUME NEW m \in Modes, NEW raw \in Snapshots, BeginHold(m, raw) PROVE AgedAtStart'
  BY <1>1 DEF BeginHold
<1>2. CASE ProposalFails
  BY <1>2 DEF ProposalFails, AfterFailedProposal
<1>3. ASSUME NEW p \in Proposals, ProposalArrives(p) PROVE AgedAtStart'
  BY <1>3 DEF ProposalArrives, Conclude
<1>4. ASSUME NEW e \in Evaluations, EvaluateTrust(e) PROVE AgedAtStart'
  BY <1>4 DEF EvaluateTrust
<1>5. CASE RunMilp
  BY <1>5 DEF RunMilp, Conclude
<1>6. CASE RunStaticReference
  BY <1>6 DEF RunStaticReference, Path
<1>7. CASE Tick \/ RefuseLateAction \/ EnterExecutor \/ ExecutorReturns \/ RecordCycle
  BY <1>7 DEF Tick, RefuseLateAction, EnterExecutor, ExecutorReturns, RecordCycle
<1>8. CASE UNCHANGED vars
  BY <1>8 DEF vars
<1>. QED BY <1>1, <1>2, <1>3, <1>4, <1>5, <1>6, <1>7, <1>8,
            BeginOnOwnDataAged, BeginOnLastKnownGoodAged
       DEF Next, ControllerStep, BeginCycle, RunComplete

\* The dispatch happens at most Deadline - cycleNow after that check.
LEMMA AgeAtEntry ==
  ASSUME DirectBackend, Inv, AgedAtStart, [Next]_vars,
         EntersExecutor, deployment.real, ChecksData(mode)
  PROVE  SnapshotAgeWithin(Basis, clock,
           (IF source = "milp_last_known_good" THEN LkgMaxAge ELSE MaxDataAge)
             + (Deadline - cycleNow))
<1>1. clock \in Int /\ clock <= Deadline
  BY EntryIsInTime DEF ChecksData
<1>2. /\ pc = "dispatch" /\ cycleNow \in Int
      /\ snapshot \in CarbonSnapshot
  BY DEF EntersExecutor, AgedAtStart, Inv, CycleShape
<1>3. ASSUME NEW s \in CarbonSnapshot, NEW limit \in Nat, SnapshotAgeWithin(s, cycleNow, limit)
      PROVE  SnapshotAgeWithin(s, clock, limit + (Deadline - cycleNow))
  <2>. SUFFICES ASSUME NEW r \in Regions
       PROVE  clock - s.observed[r] <= limit + (Deadline - cycleNow)
    BY DEF SnapshotAgeWithin, ObservationAge
  <2>1. s.observed[r] \in Int
    BY DEF CarbonSnapshot
  <2>2. cycleNow - s.observed[r] <= limit
    BY <1>3 DEF SnapshotAgeWithin, ObservationAge
  <2>. QED BY <1>1, <1>2, <2>1, <2>2, SchedulingAssumption
<1>4. CASE source = "milp_last_known_good"
  <2>1. lkg \in CarbonSnapshot /\ SnapshotAgeWithin(lkg, cycleNow, LkgMaxAge)
    BY <1>2, <1>4 DEF AgedAtStart
  <2>. QED BY <1>3, <1>4, <2>1, TrustAssumption DEF Basis
<1>5. CASE source /= "milp_last_known_good"
  <2>1. SnapshotAgeWithin(snapshot, cycleNow, MaxDataAge)
    BY <1>2, <1>5 DEF AgedAtStart
  <2>. QED BY <1>2, <1>3, <1>5, <2>1, TrustAssumption DEF Basis
<1>. QED BY <1>4, <1>5

\* A direct hybrid run starts no session on data older than its limit plus
\* what was left of the window when the cycle began.
THEOREM DirectDataAgeBounded == ASSUME DirectBackend PROVE Spec => DispatchedDataAgeBounded
<1>1. Init => Inv /\ Path /\ AgedAtStart
  BY InitInv DEF Init, Path, AgedAtStart
<1>2. Inv /\ Path /\ AgedAtStart /\ [Next]_vars => (Inv /\ Path /\ AgedAtStart)'
  BY NextInv, PathPreserved, AgedPreserved
<1>3. Inv /\ AgedAtStart /\ [Next]_vars =>
        [EntersExecutor /\ deployment.real /\ ChecksData(mode) =>
           SnapshotAgeWithin(Basis, clock,
             (IF source = "milp_last_known_good" THEN LkgMaxAge ELSE MaxDataAge)
               + (Deadline - cycleNow))]_vars
  BY AgeAtEntry
<1>. QED BY <1>1, <1>2, <1>3, PTL DEF Spec, DispatchedDataAgeBounded

=============================================================================
