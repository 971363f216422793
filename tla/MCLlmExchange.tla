---------------------------- MODULE MCLlmExchange ----------------------------
(* A small instance of LlmExchange: snapshots of two sizes, at times in    *)
(* order, out of order and repeated.                                       *)
EXTENDS LlmExchange

Snapshot(t, c) == [time |-> t, content |-> c]

MCTraces ==
  { << Snapshot(1, "short"), Snapshot(2, "long"), Snapshot(3, "short") >>,
    << Snapshot(3, "short"), Snapshot(1, "short"), Snapshot(2, "long") >>,
    << Snapshot(1, "short"), Snapshot(1, "long"), Snapshot(2, "short") >> }

MCTokens == [c \in {"short", "long", "graph"} |-> IF c = "long" THEN 4 ELSE 1]

=============================================================================
