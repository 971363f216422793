--------------------------- MODULE SchedulingLemmas ---------------------------
(***************************************************************************)
(* Facts about the scheduling model and the gate that hold for every       *)
(* snapshot, catalog and window: what the request contains, what the       *)
(* solver may return, and what the carbon rails imply of an admitted       *)
(* proposal.  The proofs about SchedulerWorkflow cite them.                *)
(***************************************************************************)
EXTENDS TrustRails, TLAPS

\* The request built from a snapshot holds well-formed candidates only
\* (workflow.build_scheduling_request).
LEMMA CandidatesType ==
  ASSUME NEW s \in CarbonSnapshot
  PROVE  Candidates(s) \subseteq Candidate
<1>. SUFFICES ASSUME NEW c \in Candidates(s) PROVE c \in Candidate
  OBVIOUS
<1>1. PICK r \in Regions :
        c \in {[region |-> r, time |-> EarliestStart, ci |-> s.current[r]]}
                \cup {[region |-> r, time |-> pt.time, ci |-> pt.ci] : pt \in Usable(s.forecast[r])}
  BY DEF Candidates
<1>2. s.current[r] \in Nat /\ s.forecast[r] \subseteq ForecastPoint
  BY DEF CarbonSnapshot
<1>3. CASE c = [region |-> r, time |-> EarliestStart, ci |-> s.current[r]]
  BY <1>2, <1>3, SchedulingAssumption DEF Candidate
<1>4. CASE \E pt \in Usable(s.forecast[r]) : c = [region |-> r, time |-> pt.time, ci |-> pt.ci]
  <2>1. PICK pt \in ForecastPoint : c = [region |-> r, time |-> pt.time, ci |-> pt.ci]
    BY <1>2, <1>4 DEF Usable
  <2>. QED BY <2>1 DEF ForecastPoint, Candidate
<1>. QED BY <1>1, <1>3, <1>4

\* Trimming a snapshot for the prompt keeps it a snapshot
\* (workflow.trim_snapshot_to_window).
LEMMA TrimType ==
  ASSUME NEW s \in CarbonSnapshot
  PROVE  TrimToWindow(s) \in CarbonSnapshot
<1>. DEFINE trimmed == [r \in Regions |->
       {pt \in s.forecast[r] : InWindow(pt.time) /\ OnSlotGrid(pt.time)}]
<1>1. trimmed \in [Regions -> SUBSET ForecastPoint]
  BY DEF CarbonSnapshot
<1>2. TrimToWindow(s) = [s EXCEPT !.forecast = trimmed]
  BY DEF TrimToWindow
<1>. HIDE DEF trimmed
<1>. QED BY <1>1, <1>2 DEF CarbonSnapshot

\* Every solver result is a schedule result, and a selected one carries an
\* optimal candidate (milp.solve_schedule).
LEMMA SolveScheduleResult ==
  ASSUME NEW C \in SUBSET Candidate, NEW ref \in SolveSchedule(C)
  PROVE  /\ ref \in ScheduleResult
         /\ ref.status = "selected" => ref.choice \in Optimal(C)
<1>. Optimal(C) \subseteq Candidate
  BY DEF Optimal, Feasible
<1>. QED BY DEF SolveSchedule, ScheduleResult, Selected, Unselected

\* What the solver selects is a candidate the model allows (milp.py:22-41).
LEMMA OptimalFeasible ==
  ASSUME NEW C \in SUBSET Candidate, NEW c \in Optimal(C)
  PROVE  c \in C /\ c \in Candidate /\ InWindow(c.time) /\ RegionFeasible(c.region)
BY DEF Optimal, Feasible

\* The MILP's choice becomes a well-formed proposal that starts in the window
\* of an available region (workflow.proposal_from_schedule).
LEMMA ProposalFromScheduleType ==
  ASSUME NEW c \in Candidate, InWindow(c.time), RegionFeasible(c.region)
  PROVE  /\ ProposalFromSchedule(c) \in ActionProposal
         /\ ProposalFromSchedule(c).region = c.region
         /\ StartTime(ProposalFromSchedule(c)) = c.time
         /\ ProposalRailsOk(ProposalFromSchedule(c))
<1>1. c.region \in Regions /\ c.time \in Int /\ P95[c.region] \in Nat \ {0}
  BY SchedulingAssumption DEF Candidate
<1>2. ProposalFromSchedule(c) \in ActionProposal
  BY <1>1, TrustAssumption DEF ProposalFromSchedule, ActionProposal
<1>3. c.time /= None
  BY <1>1, SchedulingAssumption
<1>. QED BY <1>1, <1>2, <1>3, TrustAssumption
       DEF ProposalFromSchedule, StartTime, ProposalRailsOk, RegionFeasible

\* No feasible candidate is cheaper than an optimal one, so all optima have
\* the same intensity (milp._candidate_sort_key puts the intensity first).
LEMMA OptimalIsCheapest ==
  ASSUME NEW C \in SUBSET Candidate, NEW best \in Optimal(C)
  PROVE  /\ best.ci \in Nat
         /\ \A f \in Feasible(C) : f.ci \in Nat /\ best.ci <= f.ci
         /\ \A other \in Optimal(C) : other.ci = best.ci
<1>1. best \in Feasible(C) /\ \A d \in Feasible(C) : ~Precedes(d, best)
  BY DEF Optimal
<1>2. \A f \in Feasible(C) : f.ci \in Nat
  BY DEF Feasible, Candidate
<1>3. \A f \in Feasible(C) : best.ci <= f.ci
  BY <1>1, <1>2 DEF Precedes
<1>4. ASSUME NEW other \in Optimal(C) PROVE other.ci = best.ci
  <2>1. other \in Feasible(C) /\ \A d \in Feasible(C) : ~Precedes(d, other)
    BY DEF Optimal
  <2>. QED BY <1>1, <1>2, <2>1 DEF Precedes
<1>. QED BY <1>1, <1>2, <1>3, <1>4

\* The slot a proposal starts in has one region and one time, so when one of
\* its candidates is feasible all of them are (trust.check_model_feasibility).
LEMMA ChosenSlotFeasible ==
  ASSUME NEW C \in SUBSET Candidate, NEW p \in ActionProposal, ModelFeasible(p, C)
  PROVE  RegionFeasible(p.region) /\ ChosenSlot(p, C) \subseteq Feasible(C)
<1>1. PICK f \in ChosenSlot(p, C) : InWindow(f.time) /\ RegionFeasible(f.region)
  BY DEF ModelFeasible, Feasible
<1>2. \A c \in ChosenSlot(p, C) :
        c \in C /\ c.time \in Int /\ c.region = p.region /\ \A d \in ChosenSlot(p, C) : d.time <= c.time
  BY DEF ChosenSlot, Candidate
<1>3. \A c \in ChosenSlot(p, C) : c.time = f.time /\ c.region = f.region
  BY <1>1, <1>2
<1>. QED BY <1>1, <1>2, <1>3 DEF Feasible

\* An LLM proposal that passes the carbon-regret and the model-feasibility rail
\* of the v2.1 gate is near the optimum of the data it was judged on
\* (trust.py:378-461): the first rail gives the upper bound, the second the lower.
THEOREM AdmittedIsNearOptimal ==
  ASSUME NEW s \in CarbonSnapshot, NEW p \in ActionProposal,
         NEW ref \in SolveSchedule(Candidates(s)),
         RegretOk(p, Candidates(s), ref), ModelFeasible(p, Candidates(s))
  PROVE  NearOptimal(p, Candidates(s))
<1>. DEFINE C == Candidates(s)
<1>1. C \in SUBSET Candidate
  BY CandidatesType
<1>2. RegretOk(p, C, ref) /\ ModelFeasible(p, C)
  OBVIOUS
<1>3. ref.status = "selected" /\ ref.choice \in Optimal(C)
  BY <1>1, <1>2, SolveScheduleResult DEF RegretOk
<1>4. RegionFeasible(p.region) /\ ChosenSlot(p, C) \subseteq Feasible(C)
  BY <1>1, <1>2, ChosenSlotFeasible
<1>5. PICK ci \in ExpectedIntensity(p, C) :
        100 * (ci - ref.choice.ci) <= TolerancePercent * ref.choice.ci
  BY <1>2 DEF RegretOk
<1>6. PICK c \in ChosenSlot(p, C) : ci = c.ci
  BY <1>5 DEF ExpectedIntensity
<1>. HIDE DEF C
<1>7. ASSUME NEW best \in Optimal(C)
      PROVE  best.ci <= ci /\ 100 * (ci - best.ci) <= TolerancePercent * best.ci
  <2>1. best.ci = ref.choice.ci
    BY <1>1, <1>3, OptimalIsCheapest
  <2>2. best.ci <= ci
    BY <1>1, <1>4, <1>6, OptimalIsCheapest
  <2>. QED BY <1>5, <2>1, <2>2
<1>. QED BY <1>4, <1>5, <1>7 DEF NearOptimal, C

\* So is the MILP's own choice, which the workflow falls back to without asking
\* the gate (workflow._run_milp): it sits at the optimum itself.
THEOREM FallbackIsNearOptimal ==
  ASSUME NEW s \in CarbonSnapshot, NEW c \in Optimal(Candidates(s))
  PROVE  NearOptimal(ProposalFromSchedule(c), Candidates(s))
<1>. DEFINE C == Candidates(s)
            p == ProposalFromSchedule(c)
<1>1. C \in SUBSET Candidate
  BY CandidatesType
<1>. HIDE DEF C
<1>2. c \in C /\ c \in Candidate /\ InWindow(c.time) /\ RegionFeasible(c.region)
  BY <1>1, OptimalFeasible DEF C
<1>3. p.region = c.region /\ StartTime(p) = c.time
  BY <1>2, ProposalFromScheduleType
<1>. HIDE DEF p
<1>4. c \in ChosenSlot(p, C)
  BY <1>1, <1>2, <1>3 DEF ChosenSlot, Candidate
<1>5. ChosenSlot(p, C) \subseteq Feasible(C)
  <2>. SUFFICES ASSUME NEW d \in ChosenSlot(p, C) PROVE d \in Feasible(C)
    OBVIOUS
  <2>1. d \in C /\ d.region = c.region /\ d.time <= c.time /\ c.time <= d.time
    BY <1>3, <1>4 DEF ChosenSlot
  <2>2. d.time = c.time
    BY <1>1, <1>2, <2>1 DEF Candidate
  <2>. QED BY <1>2, <2>1, <2>2 DEF Feasible
<1>6. c.ci \in Nat /\ \A f \in Feasible(C) : c.ci <= f.ci
  BY <1>1, OptimalIsCheapest DEF C
<1>7. c.ci \in ExpectedIntensity(p, C)
  BY <1>4, <1>5, <1>6 DEF ExpectedIntensity
<1>8. ASSUME NEW best \in Optimal(C)
      PROVE  best.ci <= c.ci /\ 100 * (c.ci - best.ci) <= TolerancePercent * best.ci
  <2>1. best.ci = c.ci
    BY <1>1, OptimalIsCheapest DEF C
  <2>2. TolerancePercent * c.ci >= 0
    BY <1>6, TrustAssumption
  <2>. QED BY <1>6, <2>1, <2>2
<1>. QED BY <1>2, <1>3, <1>7, <1>8 DEF NearOptimal, p, C

=============================================================================
