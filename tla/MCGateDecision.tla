---------------------------- MODULE MCGateDecision ----------------------------
(* All snapshots over a few intensities and forecasts for three regions: two *)
(* usable ones and one whose catalog latency exceeds the SLO.                *)
EXTENDS GateDecision

PerRegion(e, w, s) ==
  [r \in Regions |-> CASE r = "east" -> e [] r = "west" -> w [] r = "slow" -> s]

MCRegionOrder == PerRegion(1, 3, 2)
MCP95 == PerRegion(20, 30, 90)
MCAvailable == PerRegion(TRUE, TRUE, TRUE)
MCZones == PerRegion("z1", "z2", "z3")
MCNoZones == PerRegion(None, None, None)
MCWeight == [c \in Components |-> IF c = "faithfulness" THEN 30 ELSE IF c = "precision" THEN 10 ELSE 20]

Point(t, v) == [time |-> t, ci |-> v]

\* Deadline 4, grid 2: time 3 is off the grid, time 6 past the deadline.
Forecasts == {{}, {Point(0, 102)}, {Point(2, 96), Point(6, 1)}, {Point(2, 107), Point(3, 50), Point(4, 100)}}

MCInputs ==
  {[decisionTime |-> 0, observed |-> PerRegion(0, 0, 0), current |-> PerRegion(ce, cw, cs),
    forecast |-> PerRegion(fe, fw, fs), zone |-> MCZones, reported |-> MCZones, fresh |-> TRUE]
   : ce \in {0, 100, 105}, cw \in {100, 104}, cs \in {60, 101},
     fe \in Forecasts, fw \in Forecasts, fs \in {{}, {Point(2, 96)}}}

MCCleanInputs == {s \in MCInputs : DataRailsOk(s, None)}

MCProposals ==
  [region : {"east", "west", "slow"}, time : {None, 0, 1, 2, 3, 4}, p95 : {40},
   service : {"frontend"}, evidence : {{}}]

MCEvaluations == {None, [faithfulness |-> 60, precision |-> 60], [faithfulness |-> 50, precision |-> 80]}

=============================================================================
