------------------------ MODULE WorkflowLedger_proofs ------------------------
(***************************************************************************)
(* Proofs about what SchedulerWorkflow leaves in the run's log: that each  *)
(* record is what the cycle contract says of it, what the two memories     *)
(* that outlive a cycle have to do with the records before it, and that a  *)
(* record names who decided and does not pass a failure off as a decision. *)
(***************************************************************************)
EXTENDS SchedulerWorkflow_proofs, SequenceTheorems

USE DEF decisionVars, memoryVars, choiceVars

-----------------------------------------------------------------------------
(* The two memories.  Their properties relate a record to the earlier      *)
(* ones, so the inductive invariants say what the memory is in terms of    *)
(* the log written so far: the remembered snapshot is the latest clean     *)
(* one, the remembered placement that of the latest placed session.        *)

\* The index of the record the current cycle will get.
NextIndex == Len(ledger) + 1

\* Recording a cycle adds one record and leaves the earlier ones alone.
LEMMA RecordAppends ==
  ASSUME Inv, RecordCycle
  PROVE  /\ Len(ledger) \in Nat /\ Len(ledger') = Len(ledger) + 1
         /\ DOMAIN ledger = 1..Len(ledger) /\ DOMAIN ledger' = 1..(Len(ledger) + 1)
         /\ \A j \in 1..Len(ledger) : ledger'[j] = ledger[j]
         /\ ledger'[NextIndex] = StampedRecord
<1>1. ledger \in Seq(CycleRecord) /\ ledger' = Append(ledger, StampedRecord)
  BY DEF Inv, TypeOK, RecordCycle
<1>. QED BY <1>1 DEF NextIndex

\* No other step writes to the log.
LEMMA OthersKeepLog ==
  ASSUME [Next]_vars, ~RecordCycle
  PROVE  ledger' = ledger
BY DEF Next, Tick, ControllerStep, BeginCycle, BeginOnOwnData, BeginOnLastKnownGood, BeginHold,
   NewCycle, ProposalFails, ProposalArrives, EvaluateTrust, RunMilp, RunStaticReference,
   RefuseLateAction, EnterExecutor, ExecutorReturns, RunComplete, vars

-----------------------------------------------------------------------------
(* The remembered snapshot.                                                *)

\* A cycle whose inputs failed goes straight to the dispatch of a decision
\* taken on a remembered snapshot, or to the record of a hold.
FailedCycle ==
  pc /= "idle" /\ integrity = "failed" =>
    /\ pc \in {"dispatch", "executing", "record"}
    /\ \/ source = "data_integrity_hold"
       \/ source = "milp_last_known_good" /\ lkg /= None

\* The remembered snapshot is the one of the latest clean cycle: the current
\* one if its inputs passed, else the latest the log records as passed.
LkgIsLatestClean ==
  IF pc /= "idle" /\ integrity = "passed"
    THEN lkg = snapshot
    ELSE lkg /= None => \E j \in LastOf(CleanBefore(NextIndex)) : lkg = ledger[j].snapshot

MemoryInv == Inv /\ FailedCycle /\ LkgIsLatestClean /\ CleanBasis

\* Beginning a cycle changes the remembered snapshot together with the cycle's
\* verdict on its inputs.
LEMMA BeginMemory == MemoryInv /\ BeginCycle => FailedCycle' /\ LkgIsLatestClean'
<1>. SUFFICES ASSUME MemoryInv, NEW m \in Modes, NEW raw \in Snapshots,
                     BeginOnOwnData(m, raw) \/ BeginOnLastKnownGood(m, raw) \/ BeginHold(m, raw)
     PROVE  FailedCycle' /\ LkgIsLatestClean'
  BY DEF BeginCycle
<1>1. pc = "idle" /\ ledger' = ledger
  BY DEF BeginOnOwnData, BeginOnLastKnownGood, BeginHold, NewCycle
<1>2. lkg /= None => \E j \in LastOf(CleanBefore(NextIndex)) : lkg = ledger[j].snapshot
  BY <1>1 DEF MemoryInv, LkgIsLatestClean
<1>3. CASE BeginOnOwnData(m, raw) /\ ChecksData(m)
  <2>1. integrity' = "passed" /\ lkg' = snapshot' /\ pc' /= "idle"
    BY <1>3, WorkflowAssumption
       DEF BeginOnOwnData, NewCycle, LastKnownGoodAfter, FirstStep, DecisionMode
  <2>. QED BY <2>1 DEF FailedCycle, LkgIsLatestClean
<1>4. CASE BeginOnOwnData(m, raw) /\ ~ChecksData(m)
  <2>1. integrity' = "none" /\ lkg' = lkg
    BY <1>4 DEF BeginOnOwnData, LastKnownGoodAfter
  <2>. QED BY <1>1, <1>2, <2>1 DEF FailedCycle, LkgIsLatestClean, NextIndex, CleanBefore, LastOf
<1>5. CASE BeginOnLastKnownGood(m, raw) \/ BeginHold(m, raw)
  <2>1. lkg' = lkg /\ integrity' = "failed" /\ pc' \in {"dispatch", "record"}
    BY <1>5 DEF BeginOnLastKnownGood, BeginHold, LastKnownGoodAfter
  <2>2. \/ source' = "data_integrity_hold"
        \/ source' = "milp_last_known_good" /\ lkg' /= None
    BY <1>5, <2>1 DEF BeginOnLastKnownGood, BeginHold, LastKnownGoodUsable
  <2>. QED BY <1>1, <1>2, <2>1, <2>2 DEF FailedCycle, LkgIsLatestClean, NextIndex, CleanBefore, LastOf
<1>. QED BY <1>3, <1>4, <1>5

\* Nothing else changes the remembered snapshot or the cycle's verdict.
LEMMA MiddleMemory ==
  ASSUME MemoryInv, [Next]_vars, ~BeginCycle, ~RecordCycle
  PROVE  FailedCycle' /\ LkgIsLatestClean'
<1>1. /\ UNCHANGED <<snapshot, lkg, integrity, ledger>>
      /\ (pc = "idle") <=> (pc' = "idle")
  BY DEF Next, ControllerStep, Tick, ProposalFails, AfterFailedProposal, ProposalArrives, Conclude,
     EvaluateTrust, RunMilp, RunStaticReference, RefuseLateAction, EnterExecutor,
     ExecutorReturns, RunComplete, vars
<1>2. LkgIsLatestClean'
  BY <1>1 DEF MemoryInv, LkgIsLatestClean, NextIndex, CleanBefore, LastOf
<1>3. FailedCycle'
  BY <1>1 DEF MemoryInv, FailedCycle, Next, ControllerStep, Tick, ProposalFails,
     ProposalArrives, EvaluateTrust, RunMilp, RunStaticReference, RefuseLateAction,
     EnterExecutor, ExecutorReturns, RunComplete, vars
<1>. QED BY <1>2, <1>3

\* Recording a clean cycle makes it the latest clean one of the log.
LEMMA RecordMemory == MemoryInv /\ RecordCycle => FailedCycle' /\ LkgIsLatestClean'
<1>. SUFFICES ASSUME MemoryInv, RecordCycle PROVE FailedCycle' /\ LkgIsLatestClean'
  OBVIOUS
<1>1. pc = "record" /\ pc' = "idle" /\ lkg' = lkg /\ integrity' = integrity
  BY DEF RecordCycle
<1>2. /\ Len(ledger) \in Nat /\ Len(ledger') = Len(ledger) + 1
      /\ \A j \in 1..Len(ledger) : ledger'[j] = ledger[j]
      /\ ledger'[NextIndex] = StampedRecord
  BY RecordAppends DEF MemoryInv
<1>3. StampedRecord.integrity = integrity /\ StampedRecord.snapshot = snapshot
  BY DEF StampedRecord
<1>4. CASE integrity = "passed"
  <2>1. lkg = snapshot
    BY <1>1, <1>4 DEF MemoryInv, LkgIsLatestClean
  <2>2. NextIndex \in LastOf(CleanBefore(NextIndex)')
    BY <1>2, <1>3, <1>4 DEF CleanBefore, NextIndex, LastOf
  <2>. QED BY <1>1, <1>2, <1>3, <2>1, <2>2 DEF FailedCycle, LkgIsLatestClean, LastOf
<1>5. CASE integrity /= "passed"
  <2>1. lkg /= None => \E j \in LastOf(CleanBefore(NextIndex)) : lkg = ledger[j].snapshot
    BY <1>5 DEF MemoryInv, LkgIsLatestClean
  <2>2. CleanBefore(NextIndex)' = CleanBefore(NextIndex)
    BY <1>2, <1>3, <1>5 DEF CleanBefore, NextIndex
  <2>. QED BY <1>1, <1>2, <2>1, <2>2 DEF FailedCycle, LkgIsLatestClean, LastOf, CleanBefore, NextIndex
<1>. QED BY <1>4, <1>5

\* The new record satisfies CleanBasis, the earlier ones still do.
LEMMA RecordCleanBasis == MemoryInv /\ RecordCycle => CleanBasis'
<1>. SUFFICES ASSUME MemoryInv, RecordCycle,
                     NEW i \in DOMAIN ledger', ledger'[i].integrity = "failed"
     PROVE  \/ ledger'[i].source = "data_integrity_hold"
            \/ /\ ledger'[i].source = "milp_last_known_good"
               /\ \E j \in LastOf(CleanBefore(i)') : ledger'[i].lkg = ledger'[j].snapshot
  BY DEF CleanBasis, LastOf
<1>1. /\ Len(ledger) \in Nat
      /\ DOMAIN ledger = 1..Len(ledger) /\ DOMAIN ledger' = 1..(Len(ledger) + 1)
      /\ \A j \in 1..Len(ledger) : ledger'[j] = ledger[j]
      /\ ledger'[NextIndex] = StampedRecord
  BY RecordAppends DEF MemoryInv
<1>2. CleanBefore(i)' = CleanBefore(i) /\ CleanBefore(i) \subseteq 1..Len(ledger)
  BY <1>1 DEF CleanBefore
<1>3. CASE i \in 1..Len(ledger)
  BY <1>1, <1>2, <1>3 DEF MemoryInv, CleanBasis, LastOf
<1>4. CASE i = NextIndex
  <2>1. integrity = "failed" /\ pc = "record"
    BY <1>1, <1>4 DEF StampedRecord, RecordCycle
  <2>2. \/ source = "data_integrity_hold"
        \/ source = "milp_last_known_good" /\ lkg /= None
    BY <2>1 DEF MemoryInv, FailedCycle
  <2>3. StampedRecord.source = source
    BY <2>2, WorkflowAssumption DEF StampedRecord, DecisionSource, Source
  <2>4. CASE source = "data_integrity_hold"
    BY <1>1, <1>4, <2>3, <2>4
  <2>5. CASE source = "milp_last_known_good"
    <3>1. PICK j \in LastOf(CleanBefore(NextIndex)) : lkg = ledger[j].snapshot
      BY <2>1, <2>2, <2>5 DEF MemoryInv, LkgIsLatestClean
    <3>2. StampedRecord.lkg = lkg
      BY <2>5 DEF StampedRecord
    <3>3. j \in 1..Len(ledger) /\ j \in LastOf(CleanBefore(i)')
      BY <1>2, <1>4, <3>1 DEF LastOf
    <3>. QED BY <1>1, <1>4, <2>3, <2>5, <3>1, <3>2, <3>3
  <2>. QED BY <2>2, <2>4, <2>5
<1>. QED BY <1>1, <1>3, <1>4 DEF NextIndex

\* So every step keeps what the log says of the remembered snapshot.
LEMMA MemoryPreserved == MemoryInv /\ [Next]_vars => MemoryInv'
<1>. SUFFICES ASSUME MemoryInv, [Next]_vars PROVE MemoryInv'
  OBVIOUS
<1>1. Inv'
  BY NextInv DEF MemoryInv
<1>2. FailedCycle' /\ LkgIsLatestClean'
  BY BeginMemory, MiddleMemory, RecordMemory
<1>3. CASE RecordCycle
  BY <1>1, <1>2, <1>3, RecordCleanBasis DEF MemoryInv
<1>4. CASE ~RecordCycle
  <2>1. CleanBasis'
    BY <1>4, OthersKeepLog DEF MemoryInv, CleanBasis, CleanBefore, LastOf
  <2>. QED BY <1>1, <1>2, <2>1 DEF MemoryInv
<1>. QED BY <1>3, <1>4

\* A hybrid cycle never acts on inputs that failed a data rail: what it hands
\* to the executor was decided on the latest clean snapshot of the run
\* (workflow.py:180-183, 229-232).
THEOREM FailedInputsNeverDecide == Spec => []CleanBasis
<1>1. Init => MemoryInv
  BY InitInv DEF Init, MemoryInv, FailedCycle, LkgIsLatestClean, CleanBasis
<1>2. MemoryInv => CleanBasis
  BY DEF MemoryInv
<1>. QED BY <1>1, <1>2, MemoryPreserved, PTL DEF Spec

-----------------------------------------------------------------------------
(* The remembered placement.                                               *)

\* A hold leaves a receipt that names the remembered region; a session that
\* was placed always leaves one.
HoldShape ==
  pc = "record" =>
    /\ result.outcome = "data_integrity_hold" => result.receipt /\ action.region = HeldRegion
    /\ result.outcome \in {"dry_run", "executed"} => result.receipt

\* The remembered placement is the one of the latest placed record.
PlacementIsLatest ==
  IF PlacedBefore(NextIndex) = {}
    THEN lastPlacement = None
    ELSE \E j \in LastOf(PlacedBefore(NextIndex)) :
           lastPlacement = ledger[j].region /\ lastPlacement \in Regions

PlacementInv == Inv /\ HoldShape /\ PlacementIsLatest /\ HoldKeepsPlacement

\* Until it is recorded a cycle cannot move the remembered placement.
LEMMA OthersKeepPlacement ==
  ASSUME [Next]_vars, ~RecordCycle
  PROVE  lastPlacement' = lastPlacement
BY DEF Next, Tick, ControllerStep, BeginCycle, BeginOnOwnData, BeginOnLastKnownGood, BeginHold,
   NewCycle, ProposalFails, ProposalArrives, EvaluateTrust, RunMilp, RunStaticReference,
   RefuseLateAction, EnterExecutor, ExecutorReturns, RunComplete, vars

\* Whatever ends a cycle, its result says truthfully whether a receipt exists.
LEMMA HoldShapePreserved == Inv /\ HoldShape /\ [Next]_vars => HoldShape'
<1>. SUFFICES ASSUME Inv, HoldShape, [Next]_vars PROVE HoldShape'
  OBVIOUS
<1>. USE DEF HoldShape
<1>1. ASSUME NEW m \in Modes, NEW raw \in Snapshots,
             BeginOnOwnData(m, raw) \/ BeginOnLastKnownGood(m, raw)
      PROVE  HoldShape'
  <2>1. pc' /= "record"
    BY <1>1, WorkflowAssumption DEF BeginOnOwnData, BeginOnLastKnownGood, FirstStep, DecisionMode
  <2>. QED BY <2>1
<1>2. ASSUME NEW m \in Modes, NEW raw \in Snapshots, BeginHold(m, raw) PROVE HoldShape'
  BY <1>2 DEF BeginHold, NewCycle, HeldRegion
<1>3. CASE ProposalFails
  BY <1>3 DEF ProposalFails
<1>4. ASSUME NEW p \in Proposals, ProposalArrives(p) PROVE HoldShape'
  BY <1>4 DEF ProposalArrives, Conclude
<1>5. ASSUME NEW e \in Evaluations, EvaluateTrust(e) PROVE HoldShape'
  BY <1>5 DEF EvaluateTrust
<1>6. CASE RunMilp
  <2>1. PICK ref \in ReferenceSchedules :
          \/ pc' = "dispatch"
          \/ ref.status /= "selected"
             /\ result' = [outcome |-> ref.status, receipt |-> FALSE, alert |-> "none"]
    BY <1>6 DEF RunMilp, Conclude
  <2>2. ref \in ScheduleResult
    BY <1>6, ReferenceSchedulesSound DEF Inv, CycleShape, RunMilp
  <2>. QED BY <2>1, <2>2 DEF ScheduleResult
<1>7. CASE RunStaticReference
  BY <1>7 DEF RunStaticReference, Conclude
<1>8. CASE RefuseLateAction
  BY <1>8 DEF RefuseLateAction
<1>9. CASE ExecutorReturns
  BY <1>9 DEF ExecutorReturns, ExecutorResults
<1>10. CASE Tick \/ EnterExecutor \/ RecordCycle
  BY <1>10 DEF Tick, EnterExecutor, RecordCycle, HeldRegion
<1>11. CASE UNCHANGED vars
  BY <1>11 DEF vars, HeldRegion
<1>. QED BY <1>1, <1>2, <1>3, <1>4, <1>5, <1>6, <1>7, <1>8, <1>9, <1>10, <1>11
       DEF Next, ControllerStep, BeginCycle, RunComplete

\* Recording a cycle moves the placement exactly when the record is a placed one.
LEMMA RecordPlacement == PlacementInv /\ RecordCycle => PlacementIsLatest'
<1>. SUFFICES ASSUME PlacementInv, RecordCycle PROVE PlacementIsLatest'
  OBVIOUS
<1>1. /\ Len(ledger) \in Nat /\ Len(ledger') = Len(ledger) + 1
      /\ \A j \in 1..Len(ledger) : ledger'[j] = ledger[j]
      /\ ledger'[NextIndex] = StampedRecord
  BY RecordAppends DEF PlacementInv
<1>2. pc = "record" /\ lastPlacement' = PlacementAfter
  BY DEF RecordCycle
<1>3. StampedRecord.outcome = result.outcome
  BY DEF StampedRecord
<1>4. CASE result.outcome \in {"dry_run", "executed"}
  <2>1. result.receipt /\ action.region \in Regions
    BY <1>2, <1>4 DEF PlacementInv, HoldShape, Inv, CycleShape
  <2>2. lastPlacement' = action.region /\ StampedRecord.region = action.region
    BY <1>2, <1>4, <2>1 DEF PlacementAfter, StampedRecord
  <2>3. NextIndex \in LastOf(PlacedBefore(NextIndex)')
    BY <1>1, <1>3, <1>4 DEF PlacedBefore, NextIndex, LastOf
  <2>. QED BY <1>1, <2>1, <2>2, <2>3 DEF PlacementIsLatest, LastOf
<1>5. CASE result.outcome \notin {"dry_run", "executed"}
  <2>1. lastPlacement' = lastPlacement
    BY <1>2, <1>5 DEF PlacementAfter
  <2>2. PlacedBefore(NextIndex)' = PlacedBefore(NextIndex)
    BY <1>1, <1>3, <1>5 DEF PlacedBefore, NextIndex
  <2>3. PlacedBefore(NextIndex) \subseteq 1..Len(ledger)
    BY <1>1 DEF PlacedBefore, NextIndex
  <2>. QED BY <1>1, <2>1, <2>2, <2>3 DEF PlacementInv, PlacementIsLatest, LastOf
<1>. QED BY <1>4, <1>5

\* The new record satisfies HoldKeepsPlacement, the earlier ones still do.
LEMMA RecordHold == PlacementInv /\ RecordCycle => HoldKeepsPlacement'
<1>. SUFFICES ASSUME PlacementInv, RecordCycle,
                     NEW i \in DOMAIN ledger', ledger'[i].outcome = "data_integrity_hold"
     PROVE  IF PlacedBefore(i)' = {} THEN ledger'[i].region = DefaultRegion
            ELSE \E j \in LastOf(PlacedBefore(i)') : ledger'[i].region = ledger'[j].region
  BY DEF HoldKeepsPlacement, LastOf
<1>1. /\ Len(ledger) \in Nat
      /\ DOMAIN ledger = 1..Len(ledger) /\ DOMAIN ledger' = 1..(Len(ledger) + 1)
      /\ \A j \in 1..Len(ledger) : ledger'[j] = ledger[j]
      /\ ledger'[NextIndex] = StampedRecord
  BY RecordAppends DEF PlacementInv
<1>2. PlacedBefore(i)' = PlacedBefore(i) /\ PlacedBefore(i) \subseteq 1..Len(ledger)
  BY <1>1 DEF PlacedBefore
<1>3. CASE i \in 1..Len(ledger)
  BY <1>1, <1>2, <1>3 DEF PlacementInv, HoldKeepsPlacement, LastOf
<1>4. CASE i = NextIndex
  <2>1. pc = "record" /\ result.outcome = "data_integrity_hold"
    BY <1>1, <1>4 DEF StampedRecord, RecordCycle
  <2>2. ledger'[i].region = HeldRegion
    BY <1>1, <1>4, <2>1 DEF PlacementInv, HoldShape, StampedRecord
  <2>3. CASE PlacedBefore(NextIndex) = {}
    BY <1>2, <1>4, <2>2, <2>3 DEF PlacementInv, PlacementIsLatest, HeldRegion
  <2>4. CASE PlacedBefore(NextIndex) /= {}
    <3>1. PICK j \in LastOf(PlacedBefore(NextIndex)) :
            lastPlacement = ledger[j].region /\ lastPlacement \in Regions
      BY <2>4 DEF PlacementInv, PlacementIsLatest
    <3>2. HeldRegion = ledger[j].region
      BY <3>1, SchedulingAssumption DEF HeldRegion
    <3>3. j \in 1..Len(ledger) /\ j \in LastOf(PlacedBefore(i)')
      BY <1>2, <1>4, <3>1 DEF LastOf
    <3>. QED BY <1>1, <2>2, <3>2, <3>3 DEF LastOf
  <2>. QED BY <2>3, <2>4
<1>. QED BY <1>1, <1>3, <1>4 DEF NextIndex

\* So every step keeps what the log says of the remembered placement.
LEMMA PlacementPreserved == PlacementInv /\ [Next]_vars => PlacementInv'
<1>. SUFFICES ASSUME PlacementInv, [Next]_vars PROVE PlacementInv'
  OBVIOUS
<1>1. Inv' /\ HoldShape'
  BY NextInv, HoldShapePreserved DEF PlacementInv
<1>2. CASE RecordCycle
  BY <1>1, <1>2, RecordPlacement, RecordHold DEF PlacementInv
<1>3. CASE ~RecordCycle
  <2>1. ledger' = ledger /\ lastPlacement' = lastPlacement
    BY <1>3, OthersKeepLog, OthersKeepPlacement
  <2>2. PlacementIsLatest' /\ HoldKeepsPlacement'
    BY <2>1 DEF PlacementInv, PlacementIsLatest, HoldKeepsPlacement, PlacedBefore, LastOf, NextIndex
  <2>. QED BY <1>1, <2>2 DEF PlacementInv
<1>. QED BY <1>2, <1>3

\* A hold always reports the region of the latest session the log shows as
\* placed, or the static region before the first one (_hold, _stamp).
THEOREM HoldsKeepPlacement == Spec => []HoldKeepsPlacement
<1>1. Init => PlacementInv
  BY InitInv DEF Init, PlacementInv, HoldShape, PlacementIsLatest, PlacedBefore, NextIndex,
     HoldKeepsPlacement
<1>2. PlacementInv => HoldKeepsPlacement
  BY DEF PlacementInv
<1>. QED BY <1>1, <1>2, PlacementPreserved, PTL DEF Spec

-----------------------------------------------------------------------------
(* SchedulerWorkflow implements DecisionCycle: whatever path a cycle takes *)
(* through the two backends, the gates and the fallbacks, each of its      *)
(* steps is a step of the contract or is invisible to it.                  *)

\* The refinement mapping, as it is written in the instance.
CycleSession == IF pc = "executing" THEN action.region ELSE None

CycleReport ==
  IF pc = "record"
    THEN Report(result.outcome, IF result.receipt THEN action.region ELSE None)
    ELSE None

CycleRecords == [i \in DOMAIN ledger |-> Report(ledger[i].outcome, ledger[i].region)]

\* A cycle that has begun is the one after the last record.
Counted == Len(ledger) = IF pc = "idle" THEN cycle ELSE cycle - 1

\* Only an executor that returned a receipt places a session.
PlacedHasReceipt ==
  pc = "record" => (SessionOf(result.outcome) = "placed" => result.receipt = TRUE)

CycleInv == Inv /\ Counted /\ PlacedHasReceipt

-----------------------------------------------------------------------------
(* The records.                                                            *)

\* There is one record of the contract for each record of the log.
LEMMA RecordsLength == Inv => Len(CycleRecords) = Len(ledger)
<1>. SUFFICES ASSUME Inv PROVE Len(CycleRecords) = Len(ledger)
  OBVIOUS
<1>1. ledger \in Seq(CycleRecord)
  BY DEF Inv, TypeOK
<1>2. Len(ledger) \in Nat /\ DOMAIN ledger = 1..Len(ledger)
  BY <1>1
<1>. QED BY <1>2 DEF CycleRecords

\* Recording a cycle appends what the contract calls its report.
LEMMA RecordReports ==
  ASSUME Inv, RecordCycle
  PROVE  CycleRecords' = Append(CycleRecords, CycleReport)
<1>1. ledger \in Seq(CycleRecord) /\ ledger' = Append(ledger, StampedRecord) /\ pc = "record"
  BY DEF Inv, TypeOK, RecordCycle
<1>2. /\ Len(ledger) \in Nat /\ DOMAIN ledger = 1..Len(ledger)
      /\ DOMAIN ledger' = 1..(Len(ledger) + 1)
      /\ \A i \in 1..Len(ledger) : ledger'[i] = ledger[i]
      /\ ledger'[Len(ledger) + 1] = StampedRecord
  BY <1>1
<1>3. Report(StampedRecord.outcome, StampedRecord.region) = CycleReport
  BY <1>1 DEF StampedRecord, CycleReport
<1>. DEFINE rec(i) == Report(ledger'[i].outcome, ledger'[i].region)
<1>4. CycleRecords' = [i \in 1..(Len(ledger) + 1) |-> rec(i)]
  BY <1>2 DEF CycleRecords
<1>5. CycleRecords = [i \in 1..Len(ledger) |-> rec(i)]
  BY <1>2 DEF CycleRecords
<1>6. rec(Len(ledger) + 1) = CycleReport
  BY <1>2, <1>3
<1>. HIDE DEF rec
<1>7. Append(CycleRecords, CycleReport) = [i \in 1..(Len(ledger) + 1) |-> rec(i)]
  BY <1>2, <1>5, <1>6
<1>. QED BY <1>4, <1>7

\* A step that leaves the log alone leaves the contract's records alone.
LEMMA RecordsStay == ledger' = ledger => CycleRecords' = CycleRecords
BY DEF CycleRecords

-----------------------------------------------------------------------------
(* The invariant is kept.                                                  *)

LEMMA InitCounted == Init => Counted /\ PlacedHasReceipt
BY DEF Init, Counted, PlacedHasReceipt

LEMMA NextCounted == CycleInv /\ [Next]_vars => Counted'
<1>. SUFFICES ASSUME CycleInv, [Next]_vars PROVE Counted'
  OBVIOUS
<1>. USE DEF CycleInv, Counted
<1>1. cycle \in Nat /\ Len(ledger) \in Nat /\ pc \in Step
  BY WorkflowAssumption DEF Inv, TypeOK
<1>2. CASE BeginCycle
  <2>1. PICK m \in Modes, raw \in Snapshots :
          BeginOnOwnData(m, raw) \/ BeginOnLastKnownGood(m, raw) \/ BeginHold(m, raw)
    BY <1>2 DEF BeginCycle
  <2>2. pc = "idle" /\ cycle' = cycle + 1 /\ ledger' = ledger
    BY <2>1 DEF BeginOnOwnData, BeginOnLastKnownGood, BeginHold, NewCycle
  <2>3. FirstStep[m] /= "idle"
    BY WorkflowAssumption DEF FirstStep, DecisionMode
  <2>4. pc' /= "idle"
    BY <2>1, <2>3 DEF BeginOnOwnData, BeginOnLastKnownGood, BeginHold
  <2>. QED BY <1>1, <2>2, <2>4
<1>3. CASE RecordCycle
  <2>1. ledger \in Seq(CycleRecord) /\ ledger' = Append(ledger, StampedRecord)
    BY <1>3 DEF Inv, TypeOK, RecordCycle
  <2>2. Len(ledger') = Len(ledger) + 1
    BY <2>1
  <2>. QED BY <1>1, <1>3, <2>2 DEF RecordCycle
<1>4. CASE ~BeginCycle /\ ~RecordCycle
  <2>1. UNCHANGED <<cycle, ledger>> /\ ((pc = "idle") <=> (pc' = "idle"))
    BY <1>4 DEF Next, ControllerStep, Tick, ProposalFails, AfterFailedProposal, ProposalArrives,
       Conclude, EvaluateTrust, RunMilp, RunStaticReference, RefuseLateAction, EnterExecutor,
       ExecutorReturns, RunComplete, vars
  <2>. QED BY <2>1
<1>. QED BY <1>2, <1>3, <1>4

\* What a choice that comes to nothing ends in.
LEMMA ChoiceOutcome ==
  ASSUME CycleInv,
         \/ ProposalFails \/ RunMilp \/ RunStaticReference
         \/ \E p \in Proposals : ProposalArrives(p)
         \/ \E e \in Evaluations : EvaluateTrust(e)
  PROVE  \/ pc' \in {"propose", "evaluate", "schedule", "static", "dispatch"}
         \/ /\ pc' = "record" /\ result'.receipt = FALSE
            /\ SessionOf(result'.outcome) = "none"
<1>1. CASE ProposalFails
  BY <1>1 DEF ProposalFails, AfterFailedProposal, SessionOf
<1>2. CASE RunMilp
  <2>1. PICK ref \in ReferenceSchedules :
          IF ref.status = "selected" THEN pc' = "dispatch" ELSE Conclude(ref.status)
    BY <1>2 DEF RunMilp
  <2>2. ref \in ScheduleResult
    BY <1>2, ReferenceSchedulesSound DEF CycleInv, Inv, CycleShape, RunMilp
  <2>3. ref.status \notin {"dry_run", "executed", "execution_failed"}
    BY <2>2 DEF ScheduleResult
  <2>. QED BY <2>1, <2>3 DEF Conclude, SessionOf
<1>3. CASE RunStaticReference
  BY <1>3 DEF RunStaticReference, Conclude, SessionOf
<1>4. ASSUME NEW p \in Proposals, ProposalArrives(p)
      PROVE  \/ pc' \in {"propose", "evaluate", "schedule", "static", "dispatch"}
             \/ /\ pc' = "record" /\ result'.receipt = FALSE
                /\ SessionOf(result'.outcome) = "none"
  BY <1>4 DEF ProposalArrives, Conclude, SessionOf
<1>5. ASSUME NEW e \in Evaluations, EvaluateTrust(e)
      PROVE  pc' \in {"dispatch", "schedule"}
  BY <1>5 DEF EvaluateTrust
<1>. QED BY <1>1, <1>2, <1>3, <1>4, <1>5

LEMMA NextReceipt == CycleInv /\ [Next]_vars => PlacedHasReceipt'
<1>. SUFFICES ASSUME CycleInv, [Next]_vars PROVE PlacedHasReceipt'
  OBVIOUS
<1>1. CASE BeginCycle
  <2>1. PICK m \in Modes, raw \in Snapshots :
          BeginOnOwnData(m, raw) \/ BeginOnLastKnownGood(m, raw) \/ BeginHold(m, raw)
    BY <1>1 DEF BeginCycle
  <2>2. FirstStep[m] /= "record"
    BY WorkflowAssumption DEF FirstStep, DecisionMode
  <2>3. pc' /= "record" \/ result'.receipt = TRUE
    BY <2>1, <2>2 DEF BeginOnOwnData, BeginOnLastKnownGood, BeginHold
  <2>. QED BY <2>3 DEF PlacedHasReceipt
<1>2. CASE \/ ProposalFails \/ RunMilp \/ RunStaticReference
           \/ \E p \in Proposals : ProposalArrives(p)
           \/ \E e \in Evaluations : EvaluateTrust(e)
  BY <1>2, ChoiceOutcome DEF PlacedHasReceipt
<1>3. CASE RefuseLateAction \/ EnterExecutor \/ ExecutorReturns
  <2>1. CASE RefuseLateAction \/ EnterExecutor
    BY <2>1 DEF RefuseLateAction, EnterExecutor, PlacedHasReceipt
  <2>2. CASE ExecutorReturns
    <3>1. result' \in ExecutorResults
      BY <2>2 DEF ExecutorReturns
    <3>2. result'.receipt = TRUE \/ result'.outcome = "execution_failed"
      BY <3>1 DEF ExecutorResults
    <3>. QED BY <3>2 DEF PlacedHasReceipt, SessionOf
  <2>. QED BY <1>3, <2>1, <2>2
<1>4. CASE RecordCycle
  BY <1>4 DEF RecordCycle, PlacedHasReceipt
<1>5. CASE Tick \/ RunComplete \/ UNCHANGED vars
  BY <1>5 DEF Tick, RunComplete, vars, CycleInv, PlacedHasReceipt
<1>. QED BY <1>1, <1>2, <1>3, <1>4, <1>5 DEF Next, ControllerStep

-----------------------------------------------------------------------------
(* Every step maps to one of the contract.                                 *)

\* The contract's view of a state is unchanged.
Invisible == UNCHANGED <<CycleStage, CycleSession, CycleReport, lastPlacement, CycleRecords>>

LEMMA InvisibleStutters == Invisible => UNCHANGED Cycles!vars
BY DEF Invisible, Cycles!vars, CycleSession, CycleReport, CycleRecords

\* A cycle begins, on whatever data, or is over with a hold.
LEMMA BeginImplements == CycleInv /\ BeginCycle => Cycles!Begin \/ Cycles!Hold
<1>. SUFFICES ASSUME CycleInv, BeginCycle PROVE Cycles!Begin \/ Cycles!Hold
  OBVIOUS
<1>1. PICK m \in Modes, raw \in Snapshots :
        BeginOnOwnData(m, raw) \/ BeginOnLastKnownGood(m, raw) \/ BeginHold(m, raw)
  BY DEF BeginCycle
<1>2. /\ pc = "idle" /\ cycle < NumCycles /\ UNCHANGED <<lastPlacement, ledger>>
  BY <1>1 DEF BeginOnOwnData, BeginOnLastKnownGood, BeginHold, NewCycle
<1>3. Len(CycleRecords) < NumCycles /\ CycleRecords' = CycleRecords
  BY <1>2, RecordsLength, RecordsStay DEF CycleInv, Counted
<1>4. CycleStage = "between" /\ CycleSession = None /\ CycleReport = None
  BY <1>2 DEF CycleStage, CycleSession, CycleReport
<1>5. CASE BeginOnOwnData(m, raw) \/ BeginOnLastKnownGood(m, raw)
  <2>1. FirstStep[m] \in {"propose", "schedule", "static"}
    BY WorkflowAssumption DEF FirstStep, DecisionMode
  <2>2. pc' \in {"propose", "schedule", "static", "dispatch"}
    BY <1>5, <2>1 DEF BeginOnOwnData, BeginOnLastKnownGood
  <2>3. CycleStage' = "deciding" /\ CycleSession' = None /\ CycleReport' = None
    BY <2>2 DEF CycleStage, CycleSession, CycleReport
  <2>4. Cycles!Begin
    BY <1>2, <1>3, <1>4, <2>3 DEF Cycles!Begin, CycleSession, CycleReport, CycleRecords
  <2>. QED BY <2>4
<1>6. CASE BeginHold(m, raw)
  <2>1. /\ pc' = "record" /\ action'.region = HeldRegion
        /\ result'.outcome = "data_integrity_hold" /\ result'.receipt = TRUE
    BY <1>6 DEF BeginHold
  <2>2. CycleStage' = "decided" /\ CycleSession' = None
        /\ CycleReport' = [session |-> "none", region |-> HeldRegion]
    BY <2>1 DEF CycleStage, CycleSession, CycleReport, Report, SessionOf
  <2>3. Cycles!Held = HeldRegion
    BY DEF Cycles!Held, HeldRegion
  <2>4. Cycles!Hold
    BY <1>2, <1>3, <1>4, <2>2, <2>3 DEF Cycles!Hold, CycleSession, CycleReport, CycleRecords
  <2>. QED BY <2>4
<1>. QED BY <1>1, <1>5, <1>6

\* A cycle that ends without a session is declined.
LEMMA Declines ==
  ASSUME UNCHANGED <<lastPlacement, ledger>>,
         pc \in {"propose", "evaluate", "schedule", "static", "dispatch"}, pc' = "record",
         SessionOf(result'.outcome) = "none",
         result'.receipt => action'.region \in ProposedRegions
  PROVE  Cycles!Decline
<1>1. CycleStage = "deciding" /\ CycleSession = None /\ CycleStage' = "decided" /\ CycleSession' = None
  BY DEF CycleStage, CycleSession
<1>2. \E r \in ProposedRegions \cup {None} : CycleReport' = [session |-> "none", region |-> r]
  BY DEF CycleReport, Report
<1>3. CycleRecords' = CycleRecords
  BY RecordsStay
<1>. QED BY <1>1, <1>2, <1>3 DEF Cycles!Decline, CycleSession, CycleReport, CycleRecords

\* A step from one place before the executor to another is invisible.
LEMMA DecidingIsInvisible ==
  ASSUME UNCHANGED <<lastPlacement, ledger>>,
         pc \in {"propose", "evaluate", "schedule", "static", "dispatch"},
         pc' \in {"propose", "evaluate", "schedule", "static", "dispatch"}
  PROVE  Invisible
BY RecordsStay DEF Invisible, CycleStage, CycleSession, CycleReport

\* The choice of an action ends in a dispatch, another attempt or no action.
LEMMA ChoiceImplements ==
  ASSUME CycleInv,
         \/ ProposalFails \/ RunMilp \/ RunStaticReference
         \/ \E p \in Proposals : ProposalArrives(p)
         \/ \E e \in Evaluations : EvaluateTrust(e)
  PROVE  Cycles!Decline \/ Invisible
<1>1. /\ UNCHANGED <<lastPlacement, ledger>>
      /\ pc \in {"propose", "evaluate", "schedule", "static"}
  BY DEF ProposalFails, RunMilp, RunStaticReference, ProposalArrives, EvaluateTrust
<1>2. \/ pc' \in {"propose", "evaluate", "schedule", "static", "dispatch"}
      \/ pc' = "record" /\ result'.receipt = FALSE /\ SessionOf(result'.outcome) = "none"
  BY ChoiceOutcome
<1>. QED BY <1>1, <1>2, Declines, DecidingIsInvisible

\* A refused action is declined, any other one is handed over.
LEMMA DispatchImplements ==
  ASSUME CycleInv, RefuseLateAction \/ EnterExecutor
  PROVE  Cycles!Decline \/ \E r \in ProposedRegions : Cycles!HandOver(r)
<1>1. action.region \in ProposedRegions /\ pc = "dispatch" /\ UNCHANGED <<action, lastPlacement, ledger>>
  BY DEF RefuseLateAction, EnterExecutor, CycleInv, Inv, CycleShape, ActionProposal
<1>2. CASE RefuseLateAction
  <2>1. pc' = "record" /\ SessionOf(result'.outcome) = "none"
    BY <1>2 DEF RefuseLateAction, SessionOf
  <2>. QED BY <1>1, <2>1, Declines
<1>3. CASE EnterExecutor
  <2>1. pc' = "executing"
    BY <1>3 DEF EnterExecutor
  <2>2. /\ CycleStage = "deciding" /\ CycleReport = None /\ CycleReport' = None
        /\ CycleStage' = "session" /\ CycleSession' = action.region
    BY <1>1, <2>1 DEF CycleStage, CycleSession, CycleReport
  <2>3. CycleRecords' = CycleRecords
    BY <1>1, RecordsStay
  <2>4. Cycles!HandOver(action.region)
    BY <1>1, <2>2, <2>3 DEF Cycles!HandOver, CycleSession, CycleReport, CycleRecords
  <2>. QED BY <1>1, <2>4
<1>. QED BY <1>2, <1>3

\* A receipt names the region of the session; without one there is none.
LEMMA ReturnImplements == CycleInv /\ ExecutorReturns => Cycles!Return
<1>. SUFFICES ASSUME CycleInv, ExecutorReturns PROVE Cycles!Return
  OBVIOUS
<1>1. /\ pc = "executing" /\ pc' = "record" /\ UNCHANGED <<action, lastPlacement, ledger>>
      /\ result' \in ExecutorResults
  BY DEF ExecutorReturns
<1>2. \/ /\ result'.outcome \in {"dry_run", "executed", "execution_failed"} /\ result'.receipt = TRUE
      \/ result'.outcome = "execution_failed" /\ result'.receipt = FALSE
  BY <1>1 DEF ExecutorResults
<1>3. /\ CycleStage = "session" /\ CycleSession = action.region
      /\ CycleStage' = "decided" /\ CycleSession' = None
  BY <1>1 DEF CycleStage, CycleSession
<1>4. \/ \E s \in {"failed", "placed"} : CycleReport' = [session |-> s, region |-> action.region]
      \/ CycleReport' = [session |-> "failed", region |-> None]
  BY <1>1, <1>2 DEF CycleReport, Report, SessionOf
<1>5. CycleRecords' = CycleRecords
  BY <1>1, RecordsStay
<1>. QED BY <1>1, <1>3, <1>4, <1>5 DEF Cycles!Return, CycleSession, CycleReport, CycleRecords

\* The record is the report, and the memory moves as the contract says.
LEMMA RecordImplements == CycleInv /\ RecordCycle => Cycles!Conclude
<1>. SUFFICES ASSUME CycleInv, RecordCycle PROVE Cycles!Conclude
  OBVIOUS
<1>1. pc = "record" /\ pc' = "idle" /\ lastPlacement' = PlacementAfter
  BY DEF RecordCycle
<1>2. /\ CycleStage = "decided" /\ CycleSession = None
      /\ CycleStage' = "between" /\ CycleSession' = None /\ CycleReport' = None
  BY <1>1 DEF CycleStage, CycleSession, CycleReport
<1>3. CycleRecords' = Append(CycleRecords, CycleReport)
  BY RecordReports DEF CycleInv
<1>4. PlacementAfter = IF CycleReport.session = "placed" THEN CycleReport.region ELSE lastPlacement
  <2>2. CycleReport.session = SessionOf(result.outcome)
        /\ CycleReport.region = IF result.receipt THEN action.region ELSE None
    BY <1>1 DEF CycleReport, Report
  <2>3. SessionOf(result.outcome) = "placed" <=> result.outcome \in {"dry_run", "executed"}
    BY DEF SessionOf
  <2>4. SessionOf(result.outcome) = "placed" => result.receipt = TRUE
    BY <1>1 DEF CycleInv, PlacedHasReceipt
  <2>. QED BY <2>2, <2>3, <2>4 DEF PlacementAfter
<1>5. Cycles!PlacementAfter = PlacementAfter
  BY <1>1, <1>4 DEF Cycles!PlacementAfter, CycleReport
<1>. QED BY <1>1, <1>2, <1>3, <1>5
     DEF Cycles!Conclude, CycleSession, CycleReport, CycleRecords

-----------------------------------------------------------------------------

\* The safety part of KeepsCycleContract: on every path through both backends a
\* cycle hands the executor at most one session, ends in one record that agrees
\* with what became of it, and moves the remembered placement only with a session
\* that was placed.
THEOREM CycleContractSafety == Spec => Cycles!Init /\ [][Cycles!Next]_(Cycles!vars)
<1>1. Init => Cycles!Init
  <2>. SUFFICES ASSUME Init PROVE Cycles!Init
    OBVIOUS
  <2>1. CycleRecords = <<>>
    BY DEF Init, CycleRecords
  <2>. QED BY <2>1 DEF Init, Cycles!Init, CycleStage, CycleRecords
<1>2. CycleInv /\ [Next]_vars => [Cycles!Next]_(Cycles!vars)
  <2>. SUFFICES ASSUME CycleInv, [Next]_vars PROVE [Cycles!Next]_(Cycles!vars)
    OBVIOUS
  <2>1. CASE BeginCycle
    BY <2>1, BeginImplements DEF Cycles!Next
  <2>2. CASE \/ ProposalFails \/ RunMilp \/ RunStaticReference
             \/ \E p \in Proposals : ProposalArrives(p)
             \/ \E e \in Evaluations : EvaluateTrust(e)
    BY <2>2, ChoiceImplements, InvisibleStutters DEF Cycles!Next
  <2>3. CASE RefuseLateAction \/ EnterExecutor
    BY <2>3, DispatchImplements DEF Cycles!Next
  <2>4. CASE ExecutorReturns
    BY <2>4, ReturnImplements DEF Cycles!Next
  <2>5. CASE RecordCycle
    BY <2>5, RecordImplements DEF Cycles!Next
  <2>6. CASE Tick \/ RunComplete \/ UNCHANGED vars
    <3>1. UNCHANGED <<pc, action, result, lastPlacement, ledger>>
      BY <2>6 DEF Tick, RunComplete, vars
    <3>2. Invisible
      BY <3>1, RecordsStay DEF Invisible, CycleStage, CycleSession, CycleReport
    <3>. QED BY <3>2, InvisibleStutters
  <2>. QED BY <2>1, <2>2, <2>3, <2>4, <2>5, <2>6 DEF Next, ControllerStep
<1>3. Init /\ [][Next]_vars => []CycleInv
  <2>1. Init => CycleInv
    BY InitInv, InitCounted DEF CycleInv
  <2>2. CycleInv /\ [Next]_vars => CycleInv'
    BY NextInv, NextCounted, NextReceipt DEF CycleInv
  <2>. QED BY <2>1, <2>2, PTL
<1>. QED BY <1>1, <1>2, <1>3, PTL DEF Spec

-----------------------------------------------------------------------------
(* Who decided.  The record's source is inferred when the cycle is over,   *)
(* from the mode and the fallback flag; the invariant carries the decider  *)
(* along the path of the cycle.                                            *)

\* The way through a cycle: until an action is chosen no source is set, and a
\* hybrid cycle reaches the MILP only with a failed gate and the flag raised.
CyclePath ==
  /\ source \in {None, "milp_last_known_good", "data_integrity_hold"}
  /\ pc \in {"propose", "evaluate", "schedule", "static"} => source = None
  /\ pc = "propose" => mode \in {"hybrid", "llm_only"} /\ ~fallback
  /\ pc = "evaluate" => mode = "hybrid" /\ ~fallback
  /\ pc = "schedule" =>
       /\ mode \in {"hybrid", "milp_only"}
       /\ mode = "hybrid" => fallback /\ trust = "failed"
  /\ pc = "static" => mode = "static_reference"

\* The agent's own proposal, in hybrid mode after a passed gate.
DecidedByLlm == action = agentProposal /\ (mode = "hybrid" => trust = "passed")

\* The reference solution of the cycle, in hybrid mode after a failed gate.
DecidedByMilp ==
  action = ProposalFromSchedule(reference.choice) /\ (mode = "hybrid" => trust = "failed")

\* A cycle has an action, or a receipt that names one.
Acting == pc \in {"dispatch", "executing"} \/ (pc = "record" /\ result.receipt)

\* What _stamp will infer is who chose the action.
InferredIsDecider ==
  Acting /\ source = None =>
    /\ DecisionSource = "llm" => DecidedByLlm
    /\ DecisionSource = "milp" => DecidedByMilp

SourceInv == Inv /\ CyclePath /\ InferredIsDecider /\ SourceIsDecider

\* A cycle begins on its path and without an inferred source.
LEMMA BeginSource == Inv /\ BeginCycle => CyclePath' /\ InferredIsDecider'
<1>. SUFFICES ASSUME Inv, NEW m \in Modes, NEW raw \in Snapshots,
                     BeginOnOwnData(m, raw) \/ BeginOnLastKnownGood(m, raw) \/ BeginHold(m, raw)
     PROVE  CyclePath' /\ InferredIsDecider'
  BY DEF BeginCycle
<1>1. CASE BeginOnOwnData(m, raw)
  <2>1. m \in DecisionMode
    BY WorkflowAssumption
  <2>2. mode' = m /\ source' = None /\ fallback' = FALSE /\ pc' = FirstStep[m]
    BY <1>1 DEF BeginOnOwnData, NewCycle
  <2>. QED BY <2>1, <2>2 DEF FirstStep, DecisionMode, CyclePath, InferredIsDecider, Acting
<1>2. CASE BeginOnLastKnownGood(m, raw) \/ BeginHold(m, raw)
  <2>1. pc' \in {"dispatch", "record"} /\ source' \in {"milp_last_known_good", "data_integrity_hold"}
    BY <1>2 DEF BeginOnLastKnownGood, BeginHold
  <2>. QED BY <2>1, WorkflowAssumption DEF Source, CyclePath, InferredIsDecider
<1>. QED BY <1>1, <1>2

\* A proposal is dispatched for the agent only in llm_only mode; a hybrid cycle
\* goes on to the gate, or to the MILP with the flag raised.
LEMMA ProposalSource ==
  ASSUME Inv, CyclePath, ProposalFails \/ \E p \in Proposals : ProposalArrives(p)
  PROVE  CyclePath' /\ InferredIsDecider'
<1>1. CASE ProposalFails
  <2>1. pc' = "record" => result'.receipt = FALSE
    BY <1>1 DEF ProposalFails
  <2>. QED BY <1>1, <2>1 DEF ProposalFails, AfterFailedProposal, CyclePath, InferredIsDecider, Acting
<1>2. ASSUME NEW p \in Proposals, ProposalArrives(p) PROVE CyclePath' /\ InferredIsDecider'
  <2>1. CASE mode = "hybrid"
    BY <1>2, <2>1 DEF ProposalArrives, CyclePath, InferredIsDecider, Acting
  <2>2. CASE mode = "llm_only" /\ ProposalRailsOk(p)
    BY <1>2, <2>2 DEF ProposalArrives, CyclePath, InferredIsDecider, DecisionSource, DecidedByLlm
  <2>3. CASE mode = "llm_only" /\ ~ProposalRailsOk(p)
    BY <1>2, <2>3 DEF ProposalArrives, Conclude, CyclePath, InferredIsDecider, Acting
  <2>. QED BY <1>2, <2>1, <2>2, <2>3 DEF ProposalArrives, CyclePath
<1>. QED BY <1>1, <1>2

\* The gate passes the proposal on as it is, or leaves the cycle to the MILP.
LEMMA GateSource ==
  ASSUME Inv, CyclePath, NEW e \in Evaluations, EvaluateTrust(e)
  PROVE  CyclePath' /\ InferredIsDecider'
<1>1. /\ pc = "evaluate" /\ mode = "hybrid" /\ ~fallback /\ source = None
      /\ UNCHANGED <<mode, source, agentProposal>>
  BY DEF EvaluateTrust, CyclePath
<1>2. \/ trust' = "passed" /\ action' = agentProposal /\ pc' = "dispatch" /\ fallback' = fallback
      \/ trust' = "failed" /\ fallback' = TRUE /\ pc' = "schedule"
  BY DEF EvaluateTrust
<1>3. CyclePath'
  BY <1>1, <1>2 DEF CyclePath
<1>4. InferredIsDecider'
  BY <1>1, <1>2 DEF InferredIsDecider, Acting, DecisionSource, DecidedByLlm
<1>. QED BY <1>3, <1>4

\* The MILP's action is built from the reference it leaves behind.
LEMMA MilpSource ==
  ASSUME Inv, CyclePath, RunMilp
  PROVE  CyclePath' /\ InferredIsDecider'
<1>1. /\ pc = "schedule" /\ source = None /\ mode \in {"hybrid", "milp_only"}
      /\ mode = "hybrid" => fallback /\ trust = "failed"
      /\ UNCHANGED <<mode, source, fallback, trust>>
  BY DEF RunMilp, CyclePath
<1>2. \/ pc' = "dispatch" /\ action' = ProposalFromSchedule(reference'.choice)
      \/ pc' = "record" /\ result'.receipt = FALSE
  BY DEF RunMilp, Conclude
<1>3. CyclePath'
  BY <1>1, <1>2 DEF CyclePath
<1>4. InferredIsDecider'
  BY <1>1, <1>2 DEF InferredIsDecider, Acting, DecisionSource, DecidedByMilp
<1>. QED BY <1>3, <1>4

\* Dispatching an action changes nothing of what decided it.
LEMMA DispatchSource ==
  ASSUME CyclePath, InferredIsDecider, RefuseLateAction \/ EnterExecutor \/ ExecutorReturns
  PROVE  CyclePath' /\ InferredIsDecider'
<1>1. /\ Acting /\ pc' \in {"executing", "record"}
      /\ UNCHANGED <<mode, source, fallback, trust, action, agentProposal, reference>>
  BY DEF RefuseLateAction, EnterExecutor, ExecutorReturns, Acting
<1>. QED BY <1>1 DEF CyclePath, InferredIsDecider, DecisionSource, DecidedByLlm, DecidedByMilp

\* The record that ends a cycle names its decider.
LEMMA RecordSource ==
  ASSUME SourceInv, RecordCycle
  PROVE  CyclePath' /\ InferredIsDecider' /\ SourceIsDecider'
<1>1. /\ pc = "record" /\ pc' = "idle"
      /\ UNCHANGED <<mode, source, fallback, trust, action, agentProposal, reference>>
  BY DEF RecordCycle
<1>2. CyclePath' /\ InferredIsDecider'
  BY <1>1 DEF SourceInv, CyclePath, InferredIsDecider, Acting
<1>3. ledger \in Seq(CycleRecord) /\ ledger' = Append(ledger, StampedRecord)
  BY DEF SourceInv, Inv, TypeOK, RecordCycle
<1>4. ledger'[Len(ledger')] = StampedRecord
  BY <1>3
<1>5. result \in CycleResult
  BY <1>1 DEF SourceInv, Inv, CycleShape
<1>6. ASSUME NEW decider \in {"llm", "milp"}, StampedRecord.source = decider
      PROVE  Acting /\ source = None /\ DecisionSource = decider
  <2>1. source /= decider
    BY WorkflowAssumption DEF SourceInv, CyclePath, Source
  <2>2. result.receipt /\ DecisionSource = decider
    BY <1>6, <2>1 DEF StampedRecord
  <2>3. source = None
    BY <2>1, <2>2 DEF DecisionSource
  <2>. QED BY <1>1, <2>2, <2>3 DEF Acting
<1>7. StampedRecord.source = "llm" => DecidedByLlm
  BY <1>6 DEF SourceInv, InferredIsDecider
<1>8. StampedRecord.source = "milp" => DecidedByMilp
  BY <1>6 DEF SourceInv, InferredIsDecider
<1>9. SourceIsDecider'
  BY <1>1, <1>4, <1>7, <1>8 DEF SourceIsDecider, DecidedByLlm, DecidedByMilp
<1>. QED BY <1>2, <1>9

\* Until the next record nothing changes what the last one is about.
LEMMA SourcePreserved == SourceInv /\ [Next]_vars => SourceInv'
<1>. SUFFICES ASSUME SourceInv, [Next]_vars PROVE SourceInv'
  OBVIOUS
<1>. Inv' /\ Inv /\ CyclePath /\ InferredIsDecider /\ SourceIsDecider
  BY NextInv DEF SourceInv
<1>1. CASE RecordCycle
  BY <1>1, RecordSource DEF SourceInv
<1>2. CASE Tick \/ RunComplete \/ UNCHANGED vars
  <2>1. UNCHANGED <<pc, mode, source, fallback, trust, action, agentProposal, reference,
                    result, ledger>>
    BY <1>2 DEF Tick, RunComplete, vars
  <2>. QED BY <2>1 DEF SourceInv, CyclePath, InferredIsDecider, Acting, DecisionSource,
         DecidedByLlm, DecidedByMilp, SourceIsDecider
<1>3. CASE RunStaticReference
  <2>1. /\ mode = "static_reference" /\ mode' = mode /\ source = None /\ source' = None
        /\ pc' \in {"dispatch", "record"}
    BY <1>3 DEF RunStaticReference, CyclePath, Conclude
  <2>. QED BY <2>1 DEF SourceInv, CyclePath, InferredIsDecider, DecisionSource, SourceIsDecider
<1>4. CASE \/ BeginCycle \/ ProposalFails \/ (\E p \in Proposals : ProposalArrives(p))
           \/ (\E e \in Evaluations : EvaluateTrust(e)) \/ RunMilp
           \/ RefuseLateAction \/ EnterExecutor \/ ExecutorReturns
  <2>1. CyclePath' /\ InferredIsDecider'
    BY <1>4, BeginSource, ProposalSource, GateSource, MilpSource, DispatchSource
  <2>2. pc' /= "idle"
    <3>1. BeginCycle => pc' /= "idle"
      BY WorkflowAssumption
         DEF BeginCycle, BeginOnOwnData, BeginOnLastKnownGood, BeginHold, FirstStep, DecisionMode
    <3>. QED BY <1>4, <3>1
           DEF ProposalFails, AfterFailedProposal, ProposalArrives, Conclude, EvaluateTrust,
               RunMilp, RefuseLateAction, EnterExecutor, ExecutorReturns
  <2>. QED BY <2>1, <2>2 DEF SourceInv, SourceIsDecider
<1>. QED BY <1>1, <1>2, <1>3, <1>4 DEF Next, ControllerStep

\* The decision source of a record is the decider, although _stamp infers it
\* only after the session (workflow._stamp).
THEOREM SourcesAreDeciders == Spec => []SourceIsDecider
<1>1. Init => SourceInv
  BY InitInv DEF Init, SourceInv, CyclePath, InferredIsDecider, Acting, SourceIsDecider
<1>2. SourceInv => SourceIsDecider
  BY DEF SourceInv
<1>. QED BY <1>1, <1>2, SourcePreserved, PTL DEF Spec

-----------------------------------------------------------------------------
(* What the result of a cycle says by the time it is recorded.             *)

\* A cycle that checked its inputs found them clean, or has a source of its own.
ChecksInputs == pc /= "idle" /\ ChecksData(mode) => integrity = "passed" \/ source /= None

\* No alert means the cycle's own data and no refusal; a hybrid cycle that ends
\* without a session does so for a cause that is not the proposal, and is real.
ResultTells ==
  pc = "record" =>
    /\ result.alert = "none" => source = None /\ result.outcome /= "deadline_passed"
    /\ mode = "hybrid" =>
         /\ result.outcome \notin {"proposal_unavailable", "proposal_rejected"}
         /\ result.outcome = "infeasible" => Feasible(Candidates(snapshot)) = {}
         /\ result.outcome = "deadline_passed" => clock > Deadline
         /\ result.outcome = "data_integrity_hold" => integrity = "failed"

\* An action is dispatched with no source of its own, or with that of the
\* last known good snapshot, which raises the alert.
DispatchedSource == pc \in {"dispatch", "executing"} => source \in {None, "milp_last_known_good"}

ResultInv == SourceInv /\ DispatchedSource /\ ChecksInputs /\ ResultTells

\* A cycle that begins with unclean inputs has a source, and a hold an alert.
LEMMA BeginResult == Inv /\ BeginCycle => DispatchedSource' /\ ChecksInputs' /\ ResultTells'
<1>. SUFFICES ASSUME Inv, NEW m \in Modes, NEW raw \in Snapshots,
                     BeginOnOwnData(m, raw) \/ BeginOnLastKnownGood(m, raw) \/ BeginHold(m, raw)
     PROVE  DispatchedSource' /\ ChecksInputs' /\ ResultTells'
  BY DEF BeginCycle
<1>1. mode' = m /\ m \in DecisionMode /\ deployment' = deployment
  BY WorkflowAssumption DEF BeginOnOwnData, BeginOnLastKnownGood, BeginHold, NewCycle
<1>2. CASE BeginOnOwnData(m, raw)
  <2>1. pc' \in {"propose", "schedule", "static"} /\ source' = None
    BY <1>1, <1>2 DEF BeginOnOwnData, FirstStep, DecisionMode
  <2>2. ChecksData(m)' => integrity' = "passed"
    BY <1>1, <1>2 DEF BeginOnOwnData, ChecksData, V2Family
  <2>. QED BY <1>1, <2>1, <2>2 DEF DispatchedSource, ChecksInputs, ResultTells, ChecksData, V2Family
<1>3. CASE BeginOnLastKnownGood(m, raw)
  BY <1>3, WorkflowAssumption
     DEF BeginOnLastKnownGood, DispatchedSource, ChecksInputs, ResultTells, Source
<1>4. CASE BeginHold(m, raw)
  BY <1>4, WorkflowAssumption DEF BeginHold, DispatchedSource, ChecksInputs, ResultTells, Source
<1>. QED BY <1>2, <1>3, <1>4

\* Time does not go back: a deadline that is over stays so.
LEMMA DeadlineStaysOver == Inv /\ [Next]_vars /\ clock > Deadline => clock' > Deadline
<1>1. Inv => clock \in Int /\ Deadline \in Int
  BY SchedulingAssumption DEF Inv, TypeOK
<1>2. [Next]_vars => clock' = clock \/ clock' = clock + 1
  BY DEF Next, ControllerStep, Tick, BeginCycle, BeginOnOwnData, BeginOnLastKnownGood, BeginHold,
     NewCycle, ProposalFails, ProposalArrives, EvaluateTrust, RunMilp, RunStaticReference,
     RefuseLateAction, EnterExecutor, ExecutorReturns, RecordCycle, RunComplete, vars
<1>. QED BY <1>1, <1>2

\* The MILP refuses a hybrid cycle only for want of a feasible candidate, or
\* when the solver fails.
LEMMA MilpResult == Inv /\ CyclePath /\ RunMilp => ResultTells' \/ pc' = "dispatch"
<1>. SUFFICES ASSUME Inv, CyclePath, RunMilp, pc' /= "dispatch" PROVE ResultTells'
  OBVIOUS
<1>1. PICK ref \in ReferenceSchedules :
        ref.status /= "selected"
          /\ result' = [outcome |-> ref.status, receipt |-> FALSE, alert |-> "none"]
  BY DEF RunMilp, Conclude
<1>2. snapshot \in CarbonSnapshot /\ snapshot' = snapshot /\ source' = None
  BY DEF RunMilp, Inv, CycleShape, CyclePath
<1>3. ref \in SolveSchedule(Candidates(snapshot)) /\ ref \in ScheduleResult
  BY <1>2, ReferenceSchedulesSound DEF Inv
<1>4. ref.status = "infeasible" => Feasible(Candidates(snapshot)) = {}
  BY <1>3 DEF SolveSchedule, Selected, Unselected
<1>5. ref.status \in {"infeasible", "solver_unavailable"}
  BY <1>1, <1>3 DEF ScheduleResult
<1>. QED BY <1>1, <1>2, <1>4, <1>5 DEF ResultTells

\* Every step keeps what the result tells.
LEMMA ResultPreserved == ResultInv /\ [Next]_vars => ResultInv'
<1>. SUFFICES ASSUME ResultInv, [Next]_vars PROVE ResultInv'
  OBVIOUS
<1>. SourceInv' /\ SourceInv /\ Inv /\ CyclePath
  BY SourcePreserved DEF ResultInv, SourceInv
<1>1. CASE BeginCycle
  BY <1>1, BeginResult DEF ResultInv
<1>2. CASE ~BeginCycle
  <2>1. DispatchedSource' /\ ChecksInputs'
    <3>1. CASE UNCHANGED <<deployment, pc, mode, integrity, source>>
      BY <3>1 DEF ResultInv, DispatchedSource, ChecksInputs, ChecksData, V2Family
    <3>2. CASE ~UNCHANGED <<deployment, pc, mode, integrity, source>>
      <4>1. UNCHANGED <<deployment, mode, integrity, source>> /\ pc /= "idle"
        BY <1>2, <3>2 DEF Next, ControllerStep, Tick, ProposalFails, ProposalArrives, EvaluateTrust,
           RunMilp, RunStaticReference, RefuseLateAction, EnterExecutor, ExecutorReturns,
           RecordCycle, RunComplete, vars
      <4>2. pc' \in {"dispatch", "executing"} =>
              \/ pc \in {"propose", "evaluate", "schedule", "static"}
              \/ pc \in {"dispatch", "executing"}
        BY <1>2, <3>2, <4>1 DEF Next, ControllerStep, Tick, ProposalFails, ProposalArrives,
           EvaluateTrust, RunMilp, RunStaticReference, RefuseLateAction, EnterExecutor,
           ExecutorReturns, RecordCycle, RunComplete, vars
      <4>. QED BY <4>1, <4>2
             DEF ResultInv, CyclePath, DispatchedSource, ChecksInputs, ChecksData, V2Family
    <3>. QED BY <3>1, <3>2
  <2>2. ResultTells'
    <3>1. CASE ProposalFails
      BY <3>1 DEF ProposalFails, AfterFailedProposal, CyclePath, ResultTells
    <3>2. ASSUME NEW p \in Proposals, ProposalArrives(p) PROVE ResultTells'
      BY <3>2 DEF ProposalArrives, Conclude, CyclePath, ResultTells
    <3>3. ASSUME NEW e \in Evaluations, EvaluateTrust(e) PROVE ResultTells'
      BY <3>3 DEF EvaluateTrust, ResultTells
    <3>4. CASE RunMilp
      BY <3>4, MilpResult DEF ResultTells
    <3>5. CASE RunStaticReference
      BY <3>5 DEF RunStaticReference, Conclude, CyclePath, ResultTells
    <3>6. CASE RefuseLateAction
      <4>1. clock > Deadline /\ clock' = clock
        BY <3>6 DEF RefuseLateAction, TooLate, DispatchChecksDeadline, DispatchClock, ReadClock,
                    HasClock
      <4>. QED BY <3>6, <4>1 DEF RefuseLateAction, AlertOf, ResultTells
    <3>7. CASE EnterExecutor \/ RecordCycle
      BY <3>7 DEF EnterExecutor, RecordCycle, ResultTells
    <3>8. CASE ExecutorReturns
      BY <3>8 DEF ExecutorReturns, ExecutorResults, AlertOf, ResultInv, DispatchedSource, ResultTells
    <3>9. CASE Tick \/ RunComplete \/ UNCHANGED vars
      <4>1. UNCHANGED <<pc, mode, snapshot, source, integrity, result>>
        BY <3>9 DEF Tick, RunComplete, vars, decisionVars, choiceVars
      <4>. QED BY <4>1, DeadlineStaysOver DEF ResultInv, ResultTells
    <3>. QED BY <1>2, <3>1, <3>2, <3>3, <3>4, <3>5, <3>6, <3>7, <3>8, <3>9 DEF Next, ControllerStep
  <2>. QED BY <2>1, <2>2 DEF ResultInv
<1>. QED BY <1>1, <1>2

\* What the two properties say of one record.
TellsTruth(rec) ==
  /\ rec.mode = "hybrid" /\ V2Family /\ rec.alert = "none" =>
       rec.integrity = "passed" /\ rec.lkg = None /\ rec.outcome /= "deadline_passed"
  /\ rec.mode = "hybrid" =>
       /\ rec.outcome \notin {"proposal_unavailable", "proposal_rejected"}
       /\ rec.outcome = "infeasible" => Feasible(Candidates(rec.snapshot)) = {}
       /\ rec.outcome = "deadline_passed" => clock > Deadline
       /\ rec.outcome = "data_integrity_hold" => rec.integrity = "failed"

LedgerTruth == \A i \in DOMAIN ledger : TellsTruth(ledger[i])

\* A cycle appends a record that tells the truth, and changes no earlier one.
LEMMA LedgerTruthPreserved == ResultInv /\ LedgerTruth /\ [Next]_vars => LedgerTruth'
<1>. SUFFICES ASSUME ResultInv, LedgerTruth, [Next]_vars PROVE LedgerTruth'
  OBVIOUS
<1>1. deployment' = deployment
  BY DEF Next, ControllerStep, Tick, BeginCycle, BeginOnOwnData, BeginOnLastKnownGood, BeginHold,
     NewCycle, ProposalFails, ProposalArrives, EvaluateTrust, RunMilp, RunStaticReference,
     RefuseLateAction, EnterExecutor, ExecutorReturns, RecordCycle, RunComplete, vars
<1>2. clock > Deadline => clock' > Deadline
  BY DeadlineStaysOver DEF ResultInv, SourceInv
<1>3. CASE RecordCycle
  <2>1. pc = "record"
    BY <1>3 DEF RecordCycle
  <2>2. TellsTruth(StampedRecord)
    BY <2>1, WorkflowAssumption
       DEF ResultInv, ResultTells, ChecksInputs, ChecksData, TellsTruth, StampedRecord, Source
  <2>3. /\ Len(ledger) \in Nat /\ DOMAIN ledger = 1..Len(ledger)
        /\ DOMAIN ledger' = 1..(Len(ledger) + 1)
        /\ \A j \in 1..Len(ledger) : ledger'[j] = ledger[j]
        /\ ledger'[NextIndex] = StampedRecord
    BY <1>3, RecordAppends DEF ResultInv, SourceInv
  <2>4. ASSUME NEW i \in DOMAIN ledger' PROVE TellsTruth(ledger'[i])
    <3>1. i \in DOMAIN ledger \/ i = NextIndex
      BY <2>3 DEF NextIndex
    <3>. QED BY <2>2, <2>3, <3>1 DEF LedgerTruth
  <2>. QED BY <1>1, <1>2, <2>4 DEF LedgerTruth, TellsTruth, V2Family
<1>4. CASE ~RecordCycle
  <2>1. ledger' = ledger
    BY <1>4, OthersKeepLog
  <2>. QED BY <1>1, <1>2, <2>1 DEF LedgerTruth, TellsTruth, V2Family
<1>. QED BY <1>3, <1>4

\* The run starts with no result and an empty log.
LEMMA ResultInit == Init => ResultInv /\ LedgerTruth
BY InitInv DEF Init, SourceInv, CyclePath, InferredIsDecider, Acting, SourceIsDecider,
   ResultInv, DispatchedSource, ChecksInputs, ResultTells, LedgerTruth

\* A hybrid record without an alert was decided on its own clean data and not
\* refused (workflow.py, _data_integrity_response, _hold and _execute).
THEOREM QuietRecordsAreClean == Spec => []QuietMeansClean
<1>1. LedgerTruth => QuietMeansClean
  BY DEF LedgerTruth, TellsTruth, QuietMeansClean
<1>. QED BY <1>1, ResultInit, ResultPreserved, LedgerTruthPreserved, PTL DEF Spec

\* No record of a hybrid cycle gives the proposal as the reason that nothing was
\* handed to the executor, and the reason it gives is real: no feasible candidate,
\* a deadline that is over, inputs that failed a rail (workflow.py, the
\* fallback after agent.propose and after the gate, _execute, _hold).
THEOREM UnstartedCyclesHaveACause == Spec => []UnstartedForACause
<1>1. LedgerTruth => UnstartedForACause
  BY DEF LedgerTruth, TellsTruth, UnstartedForACause
<1>. QED BY <1>1, ResultInit, ResultPreserved, LedgerTruthPreserved, PTL DEF Spec

=============================================================================
