--------------------------- MODULE PlacedSessions ---------------------------
(***************************************************************************)
(* The decision workflow and the executor together, over two regional      *)
(* clusters: the workflow is its specification DecisionCycle, the executor *)
(* is KubernetesExecutor in full, and a session of the one is a call of    *)
(* the other.  It is about what the workflow's log and its remembered      *)
(* placement tell of the clusters, where Jobs go on after their session    *)
(* was given up and after the process that created them has ended.         *)
(***************************************************************************)
EXTENDS KubernetesExecutor

CONSTANT DefaultRegion

ASSUME PlacedAssumption == DefaultRegion \in Regions /\ None \notin Regions

VARIABLES
  stage, report, placement, records,  \* the workflow, as in DecisionCycle
  inherited  \* history: sessions that earlier processes left without clean receipt

workflowVars == <<stage, report, placement, records>>
executorVars == <<clusterVars, pc, sessionVars, attempt, waited, artifacts, runVars>>
placedVars == <<executorVars, workflowVars, inherited>>

\* While execute has not returned its session is open.
Workflow == INSTANCE DecisionCycle WITH
  session <- IF pc = "idle" THEN None ELSE region

PlacedInit ==
  /\ Init
  /\ stage = "between" /\ report = None /\ placement = None /\ records = <<>>
  /\ inherited = {}

-----------------------------------------------------------------------------
(* Steps.                                                                  *)

\* A cycle up to its dispatch, one without a session, and its record.
Decides ==
  /\ UNCHANGED <<executorVars, inherited>>
  /\ Workflow!Begin \/ Workflow!Hold \/ Workflow!Decline \/ Workflow!Conclude

\* The open cycle is the one after the last record.
OpenCycle == Len(records) + 1

Dispatches(r) ==
  /\ BeginSession(OpenCycle, r) /\ Workflow!HandOver(r)
  /\ UNCHANGED inherited

Executes ==
  /\ SessionStep /\ log' = log
  /\ UNCHANGED <<workflowVars, inherited>>

\* Mutated form: whatever comes back is taken for a placed session.
AlwaysPlaced(rec) == "placed"

\* _execute: the outcome follows from the receipt's failure reason.
SessionResult(rec) == IF Clean(rec) THEN "placed" ELSE "failed"

\* execute returns its receipt, whose final action names the region.
Returns ==
  /\ SessionStep /\ log' /= log
  /\ Workflow!Return
  /\ report' = [session |-> SessionResult(log'[Len(log')]), region |-> region]
  /\ UNCHANGED inherited

\* The process ends and the run is repeated: nothing calls restore_state.
Repeats ==
  /\ Restart
  /\ stage' = "between" /\ report' = None /\ placement' = None /\ records' = <<>>
  /\ inherited' = unfinished'

ClustersMove == Cluster /\ UNCHANGED <<workflowVars, inherited>>

RunEnds == stage = "between" /\ Len(records) = NumCycles /\ UNCHANGED placedVars

PlacedNext ==
  \/ Decides \/ Executes \/ Returns
  \/ \E r \in Regions : Dispatches(r)
  \/ Repeats \/ ClustersMove \/ RunEnds

\* Only what may happen: that a session ends is KeepsContract, that a run ends is
\* RunCompletes.
PlacedSpec == PlacedInit /\ [][PlacedNext]_placedVars

-----------------------------------------------------------------------------
(* Correctness.                                                            *)

PlacedRecords == {i \in DOMAIN records : records[i].session = "placed"}

\* The region a hold would report is that of the latest record that counts as
\* placed, and both Jobs of that cycle have succeeded there: no timeout, lost
\* reply or repetition makes the workflow remember a session that was not
\* measured (workflow.py:289, the memory moves with an executed session or a dry run).
PlacementMeasured ==
  IF PlacedRecords = {} THEN placement = None
  ELSE \E i \in PlacedRecords :
         /\ \A k \in PlacedRecords : k <= i
         /\ placement = records[i].region
         /\ \A k \in Kinds : jobs[JobOf(i, placement, k)] = "succeeded"

Moving(j) == jobs[j] = "running" \/ (jobs[j] = "absent" /\ j \in inFlight)

\* The log of the run names every session whose Jobs may still be at work in a
\* cluster, the remembered placement does not: outside the open session such a
\* Job belongs to a cycle recorded as a failed session in that region, or was
\* left behind by an earlier process of the same run id.
LogNamesStrays ==
  \A j \in JobId : Moving(j) =>
    \/ pc /= "idle" /\ SessionOf(j) = CurrentSession
    \/ j.cycle \in DOMAIN records
         /\ records[j.cycle] = [session |-> "failed", region |-> j.region]
    \/ j.cycle = OpenCycle /\ report = [session |-> "failed", region |-> j.region]
    \/ SessionOf(j) \in inherited

=============================================================================
