---------------------------- MODULE DecisionCycle ----------------------------
(***************************************************************************)
(* What SchedulerWorkflow.run_cycle promises the loop that calls it, with  *)
(* the decision itself left out: every snapshot of the trace is one cycle, *)
(* a cycle hands at most one session to the executor and ends in one       *)
(* record that says what became of it, and the placement remembered for a  *)
(* hold moves with a placed session and with nothing else.                 *)
(***************************************************************************)
EXTENDS Naturals, Sequences

CONSTANTS
  Regions,        \* regions an action may name
  DefaultRegion,  \* the static region, held before any session was placed
  NumCycles,      \* length of the trace
  None

VARIABLES
  stage,      \* how far the open cycle is
  session,    \* region of the session the executor is running, or None
  report,     \* the record of the cycle before it is appended, or None
  placement,  \* region of the last placed session, or None
  records

vars == <<stage, session, report, placement, records>>

Stages == {"between", "deciding", "session", "decided"}
Record == [session : {"none", "failed", "placed"}, region : Regions \cup {None}]

Init ==
  /\ stage = "between" /\ session = None /\ report = None
  /\ placement = None /\ records = <<>>

Begin ==
  /\ stage = "between" /\ Len(records) < NumCycles
  /\ stage' = "deciding"
  /\ UNCHANGED <<session, report, placement, records>>

Held == IF placement /= None THEN placement ELSE DefaultRegion

\* The inputs cannot be used: no session, the placement stays what it is.
Hold ==
  /\ stage = "between" /\ Len(records) < NumCycles
  /\ report' = [session |-> "none", region |-> Held]
  /\ stage' = "decided"
  /\ UNCHANGED <<session, placement, records>>

\* Nothing was chosen (no region), or the chosen action was refused.
Decline ==
  /\ stage = "deciding"
  /\ \E r \in Regions \cup {None} : report' = [session |-> "none", region |-> r]
  /\ stage' = "decided"
  /\ UNCHANGED <<session, placement, records>>

HandOver(r) ==
  /\ stage = "deciding"
  /\ session' = r
  /\ stage' = "session"
  /\ UNCHANGED <<report, placement, records>>

\* The executor returned a receipt, or raised: then no region is on record.
Return ==
  /\ stage = "session"
  /\ \/ \E s \in {"failed", "placed"} : report' = [session |-> s, region |-> session]
     \/ report' = [session |-> "failed", region |-> None]
  /\ session' = None /\ stage' = "decided"
  /\ UNCHANGED <<placement, records>>

\* Mutated form: whatever region is on record is remembered.
AnyRegion == IF report.region /= None THEN report.region ELSE placement

PlacementAfter == IF report.session = "placed" THEN report.region ELSE placement

Conclude ==
  /\ stage = "decided"
  /\ records' = Append(records, report) /\ report' = None
  /\ placement' = PlacementAfter
  /\ stage' = "between"
  /\ UNCHANGED session

Next ==
  \/ Begin \/ Hold \/ Decline \/ Return \/ Conclude
  \/ \E r \in Regions : HandOver(r)

\* Every cycle ends, whatever the agent, the solver and the executor do.
Spec == Init /\ [][Next]_vars /\ WF_vars(Next)

=============================================================================
