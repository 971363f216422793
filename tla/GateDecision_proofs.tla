------------------------- MODULE GateDecision_proofs -------------------------
(***************************************************************************)
(* Proofs that the gate and the solver agree with the reference            *)
(* definitions of GateDecision, for every snapshot, however many forecast  *)
(* points it has, every catalog, window and slot grid: the value the       *)
(* rails read off the request is the one in force according to the         *)
(* forecast, and the solver's choice is the cheapest value in force.       *)
(***************************************************************************)
EXTENDS GateDecision, SchedulingLemmas, WellFoundedInduction

-----------------------------------------------------------------------------
(* Minima and maxima.                                                      *)

LEMMA MinimumExists ==
  ASSUME NEW S \in SUBSET Nat, S /= {}
  PROVE  \E m \in S : \A n \in S : m <= n
<1>1. PICK m \in S : \A n \in S : ~(<<n, m>> \in OpToRel(<, Nat))
  BY NatLessThanWellFounded, WFMin
<1>2. \A n \in S : ~(n < m)
  BY <1>1 DEF OpToRel
<1>. QED BY <1>2

\* The latest of some times before a deadline.
LEMMA MaximumExists ==
  ASSUME NEW limit \in Int, NEW S \in SUBSET Int, S /= {}, \A t \in S : t <= limit
  PROVE  \E m \in S : \A t \in S : t <= m
<1>. DEFINE distances == {limit - t : t \in S}
<1>1. distances \in SUBSET Nat /\ distances /= {}
  <2>1. \A t \in S : limit - t \in Nat
    OBVIOUS
  <2>. QED BY <2>1
<1>2. PICK d \in distances : \A e \in distances : d <= e
  BY <1>1, MinimumExists
<1>3. PICK m \in S : d = limit - m
  BY <1>2
<1>4. \A t \in S : limit - m <= limit - t
  BY <1>2, <1>3
<1>. QED BY <1>4

\* The one minimum of a set of intensities.
Least(S) == CHOOSE v \in S : \A w \in S : v <= w

LEMMA LeastIsMinimum ==
  ASSUME NEW S \in SUBSET Nat, S /= {}
  PROVE  /\ Least(S) \in S /\ \A w \in S : Least(S) <= w
         /\ {v \in S : \A w \in S : v <= w} = {Least(S)}
<1>1. Least(S) \in S /\ \A w \in S : Least(S) <= w
  BY MinimumExists DEF Least
<1>2. ASSUME NEW v \in S, \A w \in S : v <= w PROVE v = Least(S)
  <2>1. v \in Nat /\ Least(S) \in Nat /\ v <= Least(S) /\ Least(S) <= v
    BY <1>1, <1>2
  <2>. QED BY <2>1
<1>. QED BY <1>1, <1>2

-----------------------------------------------------------------------------
(* What is in force.                                                       *)

\* The candidates of region r in its latest slot at or before time t.
Reached(s, r, t) ==
  LET slots == {c \in Candidates(s) : c.region = r /\ c.time <= t}
  IN  {c \in slots : \A d \in slots : d.time <= c.time}

ReachedValues(s, r, t) == {c.ci : c \in Reached(s, r, t)}

\* The starting value is a candidate at the earliest start, and the candidates
\* are the usable points.
LEMMA CandidatesOfRegion ==
  ASSUME NEW s \in CarbonSnapshot, NEW r \in Regions
  PROVE  {c \in Candidates(s) : c.region = r}
           = {[region |-> r, time |-> EarliestStart, ci |-> s.current[r]]}
               \cup {[region |-> r, time |-> pt.time, ci |-> pt.ci] : pt \in Usable(s.forecast[r])}
BY DEF Candidates

\* A point at the earliest start is on the slot grid, whatever its length.
LEMMA StartIsOnGrid == InWindow(EarliestStart) /\ OnSlotGrid(EarliestStart)
<1>1. InWindow(EarliestStart)
  BY SchedulingAssumption DEF InWindow
<1>2. CASE SlotLength /= 0
  <2>. DEFINE remainder == (EarliestStart - EarliestStart) % SlotLength
  <2>1. remainder = 0
    BY <1>2, SchedulingAssumption
  <2>2. remainder <= SlotTolerance => OnSlotGrid(EarliestStart)
    BY DEF OnSlotGrid
  <2>. HIDE DEF remainder
  <2>. QED BY <1>1, <2>1, <2>2, SchedulingAssumption
<1>. QED BY <1>1, <1>2, SchedulingAssumption DEF OnSlotGrid

\* The value in force according to the forecast is the lowest of the slot that
\* the rails read from the request.
LEMMA InForceIsReached ==
  ASSUME NEW s \in CarbonSnapshot, NEW r \in Regions, NEW t \in Int, InWindow(t)
  PROVE  /\ ReachedValues(s, r, t) \in SUBSET Nat
         /\ InForce(s, r, t) \in ReachedValues(s, r, t)
         /\ \A w \in ReachedValues(s, r, t) : InForce(s, r, t) <= w
         /\ {v \in ReachedValues(s, r, t) : \A w \in ReachedValues(s, r, t) : v <= w}
              = {InForce(s, r, t)}
<1>. DEFINE values == {c.ci : c \in Reached(s, r, t)}
            slots == {c \in Candidates(s) : c.region = r /\ c.time <= t}
            start == [region |-> r, time |-> EarliestStart, ci |-> s.current[r]]
            points == {pt \in s.forecast[r] : EarliestStart < pt.time /\ pt.time <= t
                                                /\ pt.time <= Deadline /\ OnSlotGrid(pt.time)}
            atStart == {s.current[r]}
                         \cup {pt.ci : pt \in {q \in s.forecast[r] : q.time = EarliestStart}}
            latest == {pt \in points : \A q \in points : q.time <= pt.time}
            inForce == IF points = {} THEN atStart ELSE {pt.ci : pt \in latest}
            of(pt) == [region |-> r, time |-> pt.time, ci |-> pt.ci]
<1>1. /\ EarliestStart \in Int /\ Deadline \in Int /\ EarliestStart <= t /\ t <= Deadline
      /\ s.current[r] \in Nat /\ s.forecast[r] \subseteq ForecastPoint
  BY SchedulingAssumption DEF InWindow, CarbonSnapshot
<1>2. start \in slots
  BY <1>1, CandidatesOfRegion
<1>3. \A pt \in s.forecast[r] :
        of(pt) \in slots <=> (EarliestStart <= pt.time /\ pt.time <= t /\ OnSlotGrid(pt.time))
          \/ of(pt) = start
  <2>1. \A pt \in s.forecast[r] : pt.time \in Int /\ pt.ci \in Nat
    BY <1>1 DEF ForecastPoint
  <2>. QED BY <1>1, <1>2, <2>1, CandidatesOfRegion DEF Usable, InWindow
<1>4. \A c \in slots : c = start \/ \E pt \in s.forecast[r] :
        /\ c = of(pt) /\ EarliestStart <= pt.time /\ pt.time <= t /\ OnSlotGrid(pt.time)
  BY <1>1, CandidatesOfRegion DEF Usable, InWindow
<1>5. Reached(s, r, t) = {c \in slots : \A d \in slots : d.time <= c.time}
  BY DEF Reached
<1>6. InForce(s, r, t) = Least(inForce)
  BY DEF InForce, Least
<1>7. \A pt \in s.forecast[r] : pt.time \in Int /\ pt.ci \in Nat
  BY <1>1 DEF ForecastPoint
<1>8. ReachedValues(s, r, t) = values
  BY DEF ReachedValues
<1>9. ASSUME points = {}
      PROVE  inForce = values /\ values \in SUBSET Nat /\ values /= {}
  <2>1. \A c \in slots : c.time = EarliestStart
    <3>. SUFFICES ASSUME NEW c \in slots, c /= start PROVE c.time = EarliestStart
      OBVIOUS
    <3>1. PICK pt \in s.forecast[r] :
            /\ c = of(pt) /\ EarliestStart <= pt.time /\ pt.time <= t /\ OnSlotGrid(pt.time)
      BY <1>4
    <3>2. ~(EarliestStart < pt.time)
      BY <1>1, <1>7, <1>9, <3>1
    <3>. QED BY <1>1, <1>7, <3>1, <3>2
  <2>2. Reached(s, r, t) = slots
    BY <1>1, <1>5, <2>1
  <2>3. values \subseteq atStart
    <3>. SUFFICES ASSUME NEW c \in slots, c /= start PROVE c.ci \in atStart
      BY <2>2
    <3>1. PICK pt \in s.forecast[r] : c = of(pt)
      BY <1>4
    <3>2. pt.time = EarliestStart
      BY <2>1, <3>1
    <3>. QED BY <3>1, <3>2
  <2>4. atStart \subseteq values
    <3>1. s.current[r] \in values
      BY <1>2, <2>2
    <3>2. ASSUME NEW pt \in s.forecast[r], pt.time = EarliestStart PROVE pt.ci \in values
      <4>1. of(pt) \in slots
        BY <1>1, <1>3, <3>2, StartIsOnGrid
      <4>. QED BY <2>2, <4>1
    <3>. QED BY <3>1, <3>2
  <2>5. inForce = values
    BY <1>9, <2>3, <2>4
  <2>6. values \in SUBSET Nat /\ values /= {}
    BY <1>1, <1>7, <2>3, <2>4
  <2>. QED BY <2>5, <2>6
<1>10. ASSUME points /= {}
       PROVE  inForce = values /\ values \in SUBSET Nat /\ values /= {}
  <2>1. PICK last \in points : \A q \in points : q.time <= last.time
    <3>. DEFINE times == {q.time : q \in points}
    <3>1. times \in SUBSET Int /\ times /= {} /\ \A u \in times : u <= Deadline
      BY <1>7, <1>10
    <3>2. PICK m \in times : \A u \in times : u <= m
      BY <1>1, <3>1, MaximumExists
    <3>. QED BY <3>2
  <2>2. of(last) \in slots /\ last \in s.forecast[r] /\ EarliestStart < last.time
    BY <1>1, <1>3, <1>7, <2>1
  <2>3. \A c \in slots : c.time <= last.time
    <3>. SUFFICES ASSUME NEW c \in slots, c /= start, c.time > EarliestStart
                  PROVE  c.time <= last.time
      BY <1>1, <1>4, <1>7, <2>2
    <3>1. PICK pt \in s.forecast[r] :
            /\ c = of(pt) /\ EarliestStart <= pt.time /\ pt.time <= t /\ OnSlotGrid(pt.time)
      BY <1>4
    <3>2. pt \in points
      BY <1>1, <1>7, <3>1
    <3>. QED BY <2>1, <3>1, <3>2
  <2>4. latest = {pt \in points : pt.time = last.time}
    BY <1>7, <2>1
  <2>5. Reached(s, r, t) = {c \in slots : c.time = last.time}
    <3>1. \A c \in slots : c.time \in Int
      BY <1>1, <1>4, <1>7
    <3>. QED BY <1>5, <1>7, <2>2, <2>3, <3>1
  <2>6. values \subseteq {pt.ci : pt \in latest}
    <3>. SUFFICES ASSUME NEW c \in slots, c.time = last.time PROVE c.ci \in {pt.ci : pt \in latest}
      BY <2>5
    <3>1. PICK pt \in s.forecast[r] :
            /\ c = of(pt) /\ EarliestStart <= pt.time /\ pt.time <= t /\ OnSlotGrid(pt.time)
      BY <1>1, <1>4, <2>2
    <3>2. pt \in latest
      BY <1>1, <1>7, <2>2, <2>4, <3>1
    <3>. QED BY <3>1, <3>2
  <2>7. {pt.ci : pt \in latest} \subseteq values
    <3>. SUFFICES ASSUME NEW pt \in points, pt.time = last.time PROVE pt.ci \in values
      BY <2>4
    <3>1. of(pt) \in slots
      BY <1>1, <1>3, <1>7
    <3>. QED BY <2>5, <3>1
  <2>8. inForce = values
    BY <1>10, <2>6, <2>7
  <2>9. values \in SUBSET Nat /\ values /= {}
    <3>1. \A c \in slots : c.ci \in Nat
      BY <1>1, <1>4, <1>7
    <3>. QED BY <2>2, <2>5, <3>1
  <2>. QED BY <2>8, <2>9
<1>11. InForce(s, r, t) = Least(values) /\ values \in SUBSET Nat /\ values /= {}
  BY <1>6, <1>9, <1>10
<1>. HIDE DEF values
<1>. QED BY <1>8, <1>11, LeastIsMinimum

\* The rails read one value off the request, the one in force.
LEMMA ExpectedIsInForce ==
  ASSUME NEW s \in CarbonSnapshot, NEW p \in ActionProposal,
         p.region \in Regions, InWindow(StartTime(p))
  PROVE  ExpectedIntensity(p, Candidates(s)) = {InForce(s, p.region, StartTime(p))}
<1>. DEFINE time == StartTime(p)
<1>1. time \in Int
  BY SchedulingAssumption DEF StartTime, ActionProposal
<1>2. ChosenSlot(p, Candidates(s)) = Reached(s, p.region, time)
  BY DEF ChosenSlot, Reached
<1>3. ExpectedIntensity(p, Candidates(s))
        = {v \in ReachedValues(s, p.region, time) : \A w \in ReachedValues(s, p.region, time) : v <= w}
  BY <1>2 DEF ExpectedIntensity, ReachedValues
<1>4. InWindow(time)
  OBVIOUS
<1>. HIDE DEF time
<1>5. {v \in ReachedValues(s, p.region, time) : \A w \in ReachedValues(s, p.region, time) : v <= w}
        = {InForce(s, p.region, time)}
  BY <1>1, <1>4, InForceIsReached
<1>. QED BY <1>3, <1>5 DEF time

\* Nothing the request holds starts outside the window.
LEMMA CandidatesInWindow ==
  ASSUME NEW s \in CarbonSnapshot, NEW c \in Candidates(s)
  PROVE  c \in Candidate /\ InWindow(c.time)
<1>1. c \in Candidate /\ c.region \in Regions
  BY CandidatesType DEF Candidate
<1>2. c \in {[region |-> c.region, time |-> EarliestStart, ci |-> s.current[c.region]]}
        \cup {[region |-> c.region, time |-> pt.time, ci |-> pt.ci]
                : pt \in Usable(s.forecast[c.region])}
  BY <1>1, CandidatesOfRegion
<1>. QED BY <1>1, <1>2, StartIsOnGrid DEF Usable

\* The values in force at the starts an operator could have chosen.
ReachableValues(s) ==
  {InForce(s, r, t) : r \in {q \in Regions : RegionFeasible(q)}, t \in EarliestStart..Deadline}

LEMMA CheapestIsLeast ==
  ASSUME NEW s
  PROVE  CheapestInForce(s) = Least(ReachableValues(s))
BY DEF CheapestInForce, Least, ReachableValues

\* The value in force at a reachable start is that of a feasible candidate.
LEMMA ReachableIsFeasible ==
  ASSUME NEW s \in CarbonSnapshot, NEW r \in Regions, RegionFeasible(r),
         NEW t \in Int, InWindow(t)
  PROVE  \E c \in Feasible(Candidates(s)) : c.ci = InForce(s, r, t)
<1>1. InForce(s, r, t) \in ReachedValues(s, r, t)
  BY InForceIsReached
<1>2. PICK c \in Reached(s, r, t) : c.ci = InForce(s, r, t)
  BY <1>1 DEF ReachedValues
<1>3. c \in Candidates(s) /\ c.region = r
  BY DEF Reached
<1>. QED BY <1>2, <1>3, CandidatesInWindow DEF Feasible

\* What the solver selects is the cheapest value in force
\* (milp._candidate_sort_key, over the request of build_scheduling_request).
LEMMA OptimalIsCheapestInForce ==
  ASSUME NEW s \in CarbonSnapshot, NEW best \in Optimal(Candidates(s))
  PROVE  /\ best.ci = CheapestInForce(s)
         /\ \A r \in Regions, t \in Int :
              RegionFeasible(r) /\ InWindow(t) => InForce(s, r, t) \in Nat /\ best.ci <= InForce(s, r, t)
<1>. DEFINE values == ReachableValues(s)
<1>1. Candidates(s) \in SUBSET Candidate
  BY CandidatesType
<1>2. /\ best \in Candidates(s) /\ best.region \in Regions /\ best.time \in Int /\ best.ci \in Nat
      /\ InWindow(best.time) /\ RegionFeasible(best.region)
  BY <1>1, OptimalFeasible DEF Candidate
<1>3. ASSUME NEW r \in Regions, NEW t \in Int, RegionFeasible(r), InWindow(t)
      PROVE  InForce(s, r, t) \in Nat /\ best.ci <= InForce(s, r, t)
  <2>1. PICK c \in Feasible(Candidates(s)) : c.ci = InForce(s, r, t)
    BY <1>3, ReachableIsFeasible
  <2>2. c.ci \in Nat /\ best.ci <= c.ci
    BY <1>1, OptimalIsCheapest
  <2>. QED BY <2>1, <2>2
<1>4. \A t \in EarliestStart..Deadline : t \in Int /\ InWindow(t)
  BY SchedulingAssumption DEF InWindow
<1>5. values \in SUBSET Nat /\ \A v \in values : best.ci <= v
  BY <1>3, <1>4 DEF ReachableValues
<1>6. InForce(s, best.region, best.time) = best.ci
  <2>1. best \in Reached(s, best.region, best.time)
    BY <1>2 DEF Reached
  <2>2. best.ci \in ReachedValues(s, best.region, best.time)
    BY <2>1 DEF ReachedValues
  <2>3. InForce(s, best.region, best.time) <= best.ci
    BY <1>2, <2>2, InForceIsReached
  <2>4. /\ InForce(s, best.region, best.time) \in Nat
        /\ best.ci <= InForce(s, best.region, best.time)
    BY <1>2, <1>3
  <2>. QED BY <1>2, <2>3, <2>4
<1>7. best.time \in EarliestStart..Deadline
  BY <1>2, SchedulingAssumption DEF InWindow
<1>8. best.ci \in values
  BY <1>2, <1>6, <1>7 DEF ReachableValues
<1>. HIDE DEF values
<1>9. best.ci \in {v \in values : \A w \in values : v <= w}
  BY <1>5, <1>8
<1>10. best.ci = Least(values)
  BY <1>5, <1>8, <1>9, LeastIsMinimum
<1>. QED BY <1>3, <1>10, CheapestIsLeast DEF values

-----------------------------------------------------------------------------
(* The decision.                                                           *)

\* The reference is the solver's result on the frozen snapshot, and only a
\* proposal that passed every hard rail is admitted.
GateInv ==
  /\ snapshot \in Inputs /\ proposal \in Proposals
  /\ reference /= None => reference \in SolveSchedule(Candidates(snapshot))
  /\ verdict = "admitted" =>
       /\ reference /= None
       /\ HardRailsOk(proposal, snapshot, None, reference, FeasibilityRail)

LEMMA GateInvariance == Spec => []GateInv
<1>1. Init => GateInv
  BY DEF Init, GateInv
<1>2. GateInv /\ [Next]_vars => GateInv'
  <2>. SUFFICES ASSUME GateInv, [Next]_vars PROVE GateInv'
    OBVIOUS
  <2>1. CASE SolveReference
    BY <2>1 DEF GateInv, SolveReference
  <2>2. CASE Judge
    BY <2>2 DEF GateInv, Judge, Admits
  <2>3. CASE Decided \/ UNCHANGED vars
    BY <2>3 DEF GateInv, Decided, vars
  <2>. QED BY <2>1, <2>2, <2>3 DEF Next
<1>. QED BY <1>1, <1>2, PTL DEF Spec

\* A selected reference is an optimal candidate of the frozen snapshot.
LEMMA ReferenceIsOptimal ==
  ASSUME GateInv, reference /= None, reference.status = "selected"
  PROVE  /\ snapshot \in CarbonSnapshot
         /\ reference.choice \in Optimal(Candidates(snapshot))
<1>1. snapshot \in CarbonSnapshot /\ Candidates(snapshot) \in SUBSET Candidate
  BY GateAssumption, CandidatesType DEF GateInv
<1>. QED BY <1>1, SolveScheduleResult DEF GateInv

\* The gate's verdict against the forecast: an admitted proposal starts where
\* the value in force is between the cheapest reachable one and the tolerance
\* above it, whatever the snapshots, catalogs, windows and grids.
THEOREM GateHoldsTolerance == Spec => []AdmittedWithinTolerance
<1>1. ASSUME GateInv PROVE AdmittedWithinTolerance
  <2>. SUFFICES ASSUME verdict = "admitted", FeasibilityRail
                PROVE  LET ci == InForce(snapshot, proposal.region, StartTime(proposal))
                           best == CheapestInForce(snapshot)
                       IN  /\ RegionFeasible(proposal.region)
                           /\ best <= ci /\ 100 * (ci - best) <= TolerancePercent * best
    BY DEF AdmittedWithinTolerance
  <2>. DEFINE C == Candidates(snapshot)
              time == StartTime(proposal)
              ci == InForce(snapshot, proposal.region, time)
              best == CheapestInForce(snapshot)
  <2>1. snapshot \in CarbonSnapshot /\ proposal \in ActionProposal /\ reference /= None
    BY <1>1, GateAssumption DEF GateInv
  <2>2. /\ proposal.region \in Regions /\ InWindow(time)
        /\ RegretOk(proposal, C, reference) /\ ModelFeasible(proposal, C)
    BY <1>1 DEF GateInv, HardRailsOk, ProposalRailsOk
  <2>3. time \in Int
    BY <2>1, SchedulingAssumption DEF StartTime, ActionProposal
  <2>4. RegionFeasible(proposal.region)
    BY <2>1, <2>2, CandidatesType, ChosenSlotFeasible
  <2>5. reference.choice \in Optimal(C)
    BY <1>1, <2>1, <2>2, ReferenceIsOptimal DEF RegretOk
  <2>6. reference.choice.ci = best /\ best <= ci
    BY <2>1, <2>2, <2>3, <2>4, <2>5, OptimalIsCheapestInForce
  <2>7. ExpectedIntensity(proposal, C) = {ci}
    BY <2>1, <2>2, ExpectedIsInForce
  <2>8. 100 * (ci - best) <= TolerancePercent * best
    BY <2>2, <2>6, <2>7 DEF RegretOk
  <2>. QED BY <2>4, <2>6, <2>8
<1>. QED BY <1>1, GateInvariance, PTL

\* The fallback against its own gate: the solver's choice is the cheapest
\* reachable start, and as a proposal it passes every hard rail.
THEOREM FallbackIsAdmissible == Spec => []FallbackPassesItsOwnGate
<1>1. ASSUME GateInv PROVE FallbackPassesItsOwnGate
  <2>. SUFFICES ASSUME reference /= None, reference.status = "selected"
                PROVE  /\ reference.choice.ci = CheapestInForce(snapshot)
                       /\ HardRailsOk(ProposalFromSchedule(reference.choice), snapshot, None,
                                      reference, FeasibilityRail)
    BY DEF FallbackPassesItsOwnGate
  <2>. DEFINE C == Candidates(snapshot)
              c == reference.choice
              p == ProposalFromSchedule(c)
  <2>1. snapshot \in CarbonSnapshot /\ c \in Optimal(C) /\ C \in SUBSET Candidate
    BY <1>1, ReferenceIsOptimal, CandidatesType
  <2>2. DataRailsOk(snapshot, None)
    BY <1>1, GateAssumption DEF GateInv
  <2>3. c.ci = CheapestInForce(snapshot)
    BY <2>1, OptimalIsCheapestInForce
  <2>. HIDE DEF C
  <2>4. /\ c \in C /\ c \in Candidate /\ InWindow(c.time) /\ RegionFeasible(c.region)
        /\ c.ci \in Nat /\ c.region \in Regions /\ c.time \in Int
    BY <2>1, OptimalFeasible DEF Candidate
  <2>5. /\ p \in ActionProposal /\ p.region = c.region /\ StartTime(p) = c.time
        /\ ProposalRailsOk(p)
    BY <2>4, ProposalFromScheduleType
  <2>6. p.evidence = {}
    BY DEF ProposalFromSchedule
  <2>. HIDE DEF p, c
  <2>7. c \in ChosenSlot(p, C)
    BY <2>1, <2>4, <2>5 DEF ChosenSlot, Candidate
  <2>8. ModelFeasible(p, C)
    BY <2>4, <2>5, <2>7 DEF ModelFeasible, Feasible
  <2>9. c.ci \in ExpectedIntensity(p, C)
    <3>1. ChosenSlot(p, C) \subseteq Feasible(C)
      BY <2>1, <2>5, <2>8, ChosenSlotFeasible
    <3>2. \A d \in ChosenSlot(p, C) : c.ci <= d.ci
      BY <2>1, <3>1, OptimalIsCheapest
    <3>. QED BY <2>7, <3>2 DEF ExpectedIntensity
  <2>10. RegretOk(p, C, reference)
    <3>1. TolerancePercent * c.ci >= 0
      BY <2>4, TrustAssumption
    <3>2. 100 * (c.ci - c.ci) <= TolerancePercent * c.ci
      BY <2>4, <3>1
    <3>. QED BY <2>9, <3>2 DEF RegretOk, c
  <2>11. EvidenceOk(p)
    BY <2>6 DEF EvidenceOk
  <2>. QED BY <2>2, <2>3, <2>5, <2>8, <2>10, <2>11 DEF HardRailsOk, C, c, p
<1>. QED BY <1>1, GateInvariance, PTL

\* The compact context holds exactly the points the request is built from.
LEMMA TrimKeepsCandidates ==
  ASSUME NEW s \in CarbonSnapshot
  PROVE  Candidates(TrimToWindow(s)) = Candidates(s)
<1>. DEFINE trimmed == [r \in Regions |->
       {pt \in s.forecast[r] : InWindow(pt.time) /\ OnSlotGrid(pt.time)}]
<1>1. TrimToWindow(s) = [s EXCEPT !.forecast = trimmed]
  BY DEF TrimToWindow
<1>2. \A r \in Regions : Usable(trimmed[r]) = Usable(s.forecast[r])
  BY DEF Usable
<1>. HIDE DEF trimmed
<1>3. TrimToWindow(s).forecast = trimmed /\ TrimToWindow(s).current = s.current
  BY <1>1 DEF CarbonSnapshot
<1>. QED BY <1>2, <1>3 DEF Candidates

\* The docstring of workflow.trim_snapshot_to_window: the agent that is shown
\* the trimmed snapshot competes with the decision of the whole one.
THEOREM TrimIsHarmless == Spec => []TrimKeepsSchedule
<1>1. ASSUME GateInv PROVE TrimKeepsSchedule
  BY <1>1, GateAssumption, TrimKeepsCandidates DEF GateInv, TrimKeepsSchedule
<1>. QED BY <1>1, GateInvariance, PTL

=============================================================================
