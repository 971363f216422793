------------------------- MODULE MCSchedulerWorkflow -------------------------
(* Small instances of SchedulerWorkflow: two regions, hours as time unit.  *)
EXTENDS SchedulerWorkflow

PerRegion(e, w) == [r \in Regions |-> IF r = "east" THEN e ELSE w]

MCRegionOrder == PerRegion(1, 2)
MCP95 == PerRegion(20, 30)
MCBothAvailable == PerRegion(TRUE, TRUE)
MCEastOnly == PerRegion(TRUE, FALSE)
MCExpectedProvider == PerRegion("pjm", "bpat")
MCExpectedZone == PerRegion(None, None)
MCWeight == [c \in Components |-> 20]

Point(t, v) == [time |-> t, ci |-> v]

SnapshotAt(t, currents, forecasts, reportedWest) ==
  [decisionTime |-> t, observed |-> PerRegion(t, t), current |-> currents,
   forecast |-> forecasts, zone |-> MCExpectedProvider,
   reported |-> PerRegion("pjm", reportedWest), fresh |-> TRUE]

\* East has the optimum, at a later slot; west is 30 percent above it.
EastBest == SnapshotAt(1, PerRegion(100, 117), PerRegion({Point(2, 90)}, {Point(3, 120)}), "bpat")
\* West has the optimum, now; its later slots are within 5 percent of it.
WestBest == SnapshotAt(2, PerRegion(120, 100), PerRegion({}, {Point(2, 104), Point(3, 106)}), None)
\* The provider served the eastern zone for both regions, with a tempting value.
MisMapped == SnapshotAt(3, PerRegion(10, 5), PerRegion({}, {}), "pjm")

MCThreeSnapshots == {EastBest, WestBest, MisMapped}

Proposal(r, t, cited) ==
  [region |-> r, time |-> t, p95 |-> 10, service |-> "frontend", evidence |-> cited]

MCProposals ==
  {Proposal("east", 2, {"doc"}), Proposal("east", None, {}), Proposal("west", None, {}),
   Proposal("west", 2, {}), Proposal("east", 3, {"invented"}), Proposal("mars", 2, {})}

MCEvaluations ==
  {None, [faithfulness |-> 90, precision |-> 70], [faithfulness |-> 50, precision |-> 40]}

Hybrid == {"hybrid"}
Settings(profiles, backends, reals) ==
  {d \in Deployment : d.profile \in profiles /\ d.backend \in backends /\ d.real \in reals}

MCDirectV21 == Settings({"v2.1"}, {"direct"}, {TRUE})
MCLangGraphV21 == Settings({"v2.1"}, {"langgraph"}, {TRUE})

\* The baseline gate on a cluster, the ablation gate on a cluster through
\* LangGraph, and the evaluated gate in a dry run on both backends.
MCDeployments ==
  Settings({"as_built"}, {"direct"}, {TRUE}) \cup Settings({"v2"}, {"langgraph"}, {TRUE})
    \cup Settings({"v2.1"}, {"direct", "langgraph"}, {FALSE})

MCTwoSnapshots == {EastBest, MisMapped}

=============================================================================
