----------------------------- MODULE MCRunLedger -----------------------------
(* A small instance of RunLedger: the graph, whose copy is not verified,   *)
(* and the trace, which stands for the four inputs whose copies are.       *)
EXTENDS RunLedger, TLC

MCInputOrder == <<"graph", "trace">>

\* The processes are alike.
MCSymmetry == Permutations(Processes)

=============================================================================
