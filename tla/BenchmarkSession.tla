-------------------------- MODULE BenchmarkSession --------------------------
(***************************************************************************)
(* What the decision workflow relies on when it calls the executor         *)
(* (BenchmarkExecutor of src/carbon_scheduler/executor.py and the outcome  *)
(* the workflow derives from the receipt): calls do not overlap, each one  *)
(* returns, and it reports "executed" for exactly the session it was asked *)
(* for and only if that session's fixture was reset and then measured.     *)
(***************************************************************************)
EXTENDS Sequences

CONSTANTS Sessions, None

VARIABLES
  current,   \* the session of the open call, or None
  prepared,  \* sessions whose fixture was reset
  measured,  \* sessions whose benchmark ended well
  outcomes   \* what the calls of the run returned, in order

vars == <<current, prepared, measured, outcomes>>

Init == current = None /\ prepared = {} /\ measured = {} /\ outcomes = <<>>

Call(s) == current = None /\ current' = s /\ UNCHANGED <<prepared, measured, outcomes>>

\* The clusters make progress whether or not a call is open.
Prepare(s) == prepared' = prepared \cup {s} /\ UNCHANGED <<current, measured, outcomes>>

Measure(s) ==
  /\ s \in prepared
  /\ measured' = measured \cup {s}
  /\ UNCHANGED <<current, prepared, outcomes>>

Return(outcome) ==
  /\ current /= None
  /\ outcome = "executed" => current \in measured
  /\ outcomes' = Append(outcomes, [session |-> current, outcome |-> outcome])
  /\ current' = None
  /\ UNCHANGED <<prepared, measured>>

\* The controller ends; a repetition of the run starts with no receipts.
Abandon == current' = None /\ outcomes' = <<>> /\ UNCHANGED <<prepared, measured>>

Returns == \E outcome \in {"executed", "execution_failed"} : Return(outcome)

Next ==
  \/ \E s \in Sessions : Call(s) \/ Prepare(s) \/ Measure(s)
  \/ Returns
  \/ Abandon

\* A call that is open returns or its process ends.
Fairness == WF_vars(Returns \/ (current /= None /\ Abandon))

Spec == Init /\ [][Next]_vars /\ Fairness

=============================================================================
