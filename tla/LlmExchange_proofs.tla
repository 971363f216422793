-------------------------- MODULE LlmExchange_proofs --------------------------
(***************************************************************************)
(* Proofs about the exchange with the LLM, for every trace, store and size *)
(* of prompt, any number of attempts and any answers.                      *)
(***************************************************************************)
EXTENDS LlmExchange, FiniteSetTheorems, SequenceTheorems, TLAPS

USE DEF settings, retrievalVars, agentVars, loopVars, exchangeVars

-----------------------------------------------------------------------------
(* The documents shown.                                                    *)

\* A search finds what is stored and known at the time it is given.
LEMMA RetrieveKnown ==
  ASSUME Retrieve(cycle) PROVE shown' \subseteq KnownAt(trace[cycle].time)
<1>. DEFINE now == trace[cycle].time
<1>1. CASE profile = "as_built"
  BY <1>1 DEF Retrieve, Hits, kSubset
<1>2. CASE profile /= "as_built"
  <2>. DEFINE found(s) == {r \in KnownAt(now) : r.source = s}
              sources == {s \in SourceTypes : found(s) /= {}}
  <2>1. PICK pick \in [sources -> store] :
          /\ \A s \in sources :
               \E hits \in Hits(found(s), SearchDepth) : pick[s] \in NewestOf(hits)
          /\ shown' = {pick[s] : s \in sources}
    BY <1>2 DEF Retrieve, LatestPerSource
  <2>2. \A s \in sources : pick[s] \in KnownAt(now)
    BY <2>1 DEF Hits, kSubset, NewestOf
  <2>. QED BY <2>1, <2>2
<1>. QED BY <1>1, <1>2

\* Whatever Qdrant held before the trace and however a search ranks, no document
\* of a decision is from after it.
THEOREM ContextFromThePast == ExchangeSpec => []NoLookAhead
<1>1. ExchangeInit => NoLookAhead
  BY DEF ExchangeInit, NoLookAhead, Shown
<1>2. NoLookAhead /\ [ExchangeNext]_exchangeVars => NoLookAhead'
  <2>. SUFFICES ASSUME NoLookAhead, [ExchangeNext]_exchangeVars PROVE NoLookAhead'
    OBVIOUS
  <2>1. CASE Retrieves
    BY <2>1, RetrieveKnown DEF Retrieves, Retrieve, KnownAt, NoLookAhead
  <2>2. CASE Adds \/ StoreFails \/ Withholds \/ Concludes
    BY <2>2 DEF Adds, StoreFails, Withholds, Concludes, NextCycle, NoLookAhead, Shown
  <2>3. CASE Prompts \/ Asks \/ Finished \/ UNCHANGED exchangeVars
    BY <2>3 DEF Prompts, Asks, Finished, NoLookAhead, Shown
  <2>. QED BY <2>1, <2>2, <2>3 DEF ExchangeNext
<1>. QED BY <1>1, <1>2, PTL DEF ExchangeSpec

-----------------------------------------------------------------------------
(* The documents the v2 gate shows.                                        *)

\* What the store may hold, and what it holds when a decision is searched for.
StoreInv ==
  /\ trace \in Traces /\ cycle \in DOMAIN trace
  /\ store \subseteq UNION {OwnRecords(j) : j \in DOMAIN trace}
  /\ stage = "retrieving" => OwnRecords(cycle) \subseteq store

LEMMA TracesAreSequences ==
  \A t \in Traces : /\ Len(t) \in Nat \ {0} /\ DOMAIN t = 1 .. Len(t)
                    /\ \A i \in DOMAIN t : t[i].time \in Nat
<1>. SUFFICES ASSUME NEW t \in Traces
              PROVE  /\ Len(t) \in Nat \ {0} /\ DOMAIN t = 1 .. Len(t)
                     /\ \A i \in DOMAIN t : t[i].time \in Nat
  OBVIOUS
<1>1. t \in Seq([time : Nat, content : STRING]) /\ t /= <<>>
  BY RetrievalAssumption
<1>2. Len(t) \in Nat /\ DOMAIN t = 1 .. Len(t) /\ Len(t) /= 0
  BY <1>1, EmptySeq
<1>3. \A i \in DOMAIN t : t[i] \in [time : Nat, content : STRING]
  BY <1>1, <1>2, ElementOfSeq
<1>. QED BY <1>2, <1>3

LEMMA StoreInvariance == ExchangeSpec => []StoreInv
<1>1. ExchangeInit => StoreInv
  <2>. SUFFICES ASSUME ExchangeInit PROVE StoreInv
    OBVIOUS
  <2>1. /\ trace \in Traces /\ cycle = 1 /\ stage = "adding"
        /\ store \in Inherited \/ store = {}
    BY DEF ExchangeInit, RetrievalInit
  <2>2. 1 \in DOMAIN trace /\ DOMAIN trace = 1 .. Len(trace) /\ Len(trace) \in Nat
    BY <2>1, TracesAreSequences
  <2>3. ASSUME store \in Inherited
        PROVE  store \subseteq UNION {OwnRecords(j) : j \in DOMAIN trace}
    <3>1. CASE \E i \in 0 .. Len(trace) : store = UNION {OwnRecords(j) : j \in 1 .. i}
      BY <2>2, <3>1
    <3>2. CASE \E i \in 0 .. Len(trace) - 1 :
                 store = (UNION {OwnRecords(j) : j \in 1 .. i}) \cup {SnapshotRecord(i + 1)}
      <4>1. PICK i \in 0 .. Len(trace) - 1 :
              store = (UNION {OwnRecords(j) : j \in 1 .. i}) \cup {SnapshotRecord(i + 1)}
        BY <3>2
      <4>2. i + 1 \in DOMAIN trace /\ 1 .. i \subseteq DOMAIN trace
        BY <2>2
      <4>3. SnapshotRecord(i + 1) \in OwnRecords(i + 1)
        BY DEF OwnRecords
      <4>. SUFFICES ASSUME NEW r \in store PROVE \E j \in DOMAIN trace : r \in OwnRecords(j)
        OBVIOUS
      <4>4. CASE r \in UNION {OwnRecords(j) : j \in 1 .. i}
        BY <4>2, <4>4
      <4>5. CASE r = SnapshotRecord(i + 1)
        BY <4>2, <4>3, <4>5
      <4>6. r \in (UNION {OwnRecords(j) : j \in 1 .. i}) \cup {SnapshotRecord(i + 1)}
        BY <4>1
      <4>. QED BY <4>4, <4>5, <4>6
    <3>. QED BY <2>3, <3>1, <3>2 DEF Inherited
  <2>. QED BY <2>1, <2>2, <2>3 DEF StoreInv
<1>2. StoreInv /\ [ExchangeNext]_exchangeVars => StoreInv'
  <2>. SUFFICES ASSUME StoreInv, [ExchangeNext]_exchangeVars PROVE StoreInv'
    OBVIOUS
  <2>1. trace' = trace
    BY DEF ExchangeNext, Adds, AddContext, Retrieves, Retrieve, StoreFails, Prompts, Asks,
       Withholds, Concludes, Finished
  <2>2. \A j : OwnRecords(j)' = OwnRecords(j)
    BY <2>1 DEF OwnRecords, SnapshotRecord, GraphRecord
  <2>3. CASE Adds
    BY <2>1, <2>2, <2>3 DEF Adds, AddContext, StoreInv
  <2>4. CASE Withholds \/ Concludes
    <3>1. store' = store /\ stage' /= "retrieving" /\ cycle' \in DOMAIN trace
      BY <2>4, TracesAreSequences DEF Withholds, Concludes, NextCycle, StoreInv
    <3>. QED BY <2>1, <2>2, <3>1 DEF StoreInv
  <2>5. CASE Retrieves \/ StoreFails \/ Prompts \/ Asks \/ Finished \/ UNCHANGED exchangeVars
    <3>1. store' = store /\ cycle' = cycle /\ (stage' = "retrieving" => stage = "retrieving")
      BY <2>5 DEF Retrieves, Retrieve, StoreFails, Prompts, Asks, Finished
    <3>. QED BY <2>1, <2>2, <3>1 DEF StoreInv
  <2>. QED BY <2>3, <2>4, <2>5 DEF ExchangeNext
<1>. QED BY <1>1, <1>2, PTL DEF ExchangeSpec

LEMMA MinOfTwo ==
  ASSUME NEW a \in Nat, NEW b \in Nat
  PROVE  Min({a, b}) = IF a <= b THEN a ELSE b
<1>1. \E x \in {a, b} : \A y \in {a, b} : x <= y
  OBVIOUS
<1>2. Min({a, b}) \in {a, b} /\ \A y \in {a, b} : Min({a, b}) <= y
  BY <1>1 DEF Min
<1>. QED BY <1>2

LEMMA StoreIsFinite == StoreInv => IsFiniteSet(store)
<1>. SUFFICES ASSUME StoreInv PROVE IsFiniteSet(store)
  OBVIOUS
<1>. DEFINE own == {OwnRecords(j) : j \in DOMAIN trace}
            ownOf == [j \in DOMAIN trace |-> OwnRecords(j)]
<1>1. IsFiniteSet(DOMAIN trace)
  <2>1. DOMAIN trace = 1 .. Len(trace) /\ Len(trace) \in Int
    BY TracesAreSequences DEF StoreInv
  <2>. QED BY <2>1, FS_Interval
<1>2. ownOf \in Surjection(DOMAIN trace, own)
  BY DEF Surjection
<1>3. IsFiniteSet(own)
  BY <1>1, <1>2, FS_Surjection
<1>4. \A T \in own : IsFiniteSet(T)
  <2>1. ASSUME NEW x, NEW y PROVE IsFiniteSet({x, y})
    <3>1. IsFiniteSet({} \cup {x})
      BY FS_EmptySet, FS_AddElement
    <3>2. IsFiniteSet(({} \cup {x}) \cup {y})
      BY <3>1, FS_AddElement
    <3>3. ({} \cup {x}) \cup {y} = {x, y}
      OBVIOUS
    <3>. QED BY <3>2, <3>3
  <2>. QED BY <2>1 DEF OwnRecords
<1>5. IsFiniteSet(UNION own)
  BY <1>3, <1>4, FS_UNION
<1>. QED BY <1>5, FS_Subset DEF StoreInv

\* A search by the time of the decision for one kind of document brings the
\* decision's own, the newest of them.
LEMMA NewestIsOwn ==
  ASSUME StoreInv, DistinctTimes, WithinDepth, NEW s \in SourceTypes,
         NEW own \in OwnRecords(cycle), own \in store, own.source = s,
         NEW hits \in Hits({r \in KnownAt(trace[cycle].time) : r.source = s}, SearchDepth)
  PROVE  NewestOf(hits) = {own}
<1>. DEFINE found == {r \in KnownAt(trace[cycle].time) : r.source = s}
            size == Cardinality(found)
<1>1. own.time = trace[cycle].time /\ trace[cycle].time \in Nat
  BY TracesAreSequences DEF StoreInv, OwnRecords, SnapshotRecord, GraphRecord
<1>2. own \in found
  BY <1>1 DEF KnownAt
<1>3. \A r \in found : r.time \in Nat /\ r.time <= own.time /\ (r.time = own.time => r = own)
  <2>. SUFFICES ASSUME NEW r \in found
                PROVE  r.time \in Nat /\ r.time <= own.time /\ (r.time = own.time => r = own)
    OBVIOUS
  <2>1. PICK j \in DOMAIN trace : r \in OwnRecords(j)
    BY DEF StoreInv, KnownAt
  <2>2. r.time = trace[j].time /\ r.time \in Nat
    BY <2>1, TracesAreSequences DEF StoreInv, OwnRecords, SnapshotRecord, GraphRecord
  <2>3. r.time = own.time => j = cycle
    BY <1>1, <2>2 DEF DistinctTimes, StoreInv
  <2>4. j = cycle => r = own
    BY <2>1 DEF OwnRecords, SnapshotRecord, GraphRecord
  <2>. QED BY <1>1, <2>2, <2>3, <2>4 DEF KnownAt
<1>4. IsFiniteSet(found) /\ size \in Nat \ {0}
  <2>1. IsFiniteSet(found)
    BY StoreIsFinite, FS_Subset DEF KnownAt
  <2>. QED BY <1>2, <2>1, FS_EmptySet, FS_CardinalityType
<1>5. /\ hits \in SUBSET found /\ Cardinality(hits) = Min({SearchDepth, size})
      /\ backend = "qdrant" \/ \A h \in hits, r \in found \ hits : ~Outranks(r, h)
  BY DEF Hits, kSubset
<1>6. Min({SearchDepth, size}) = IF SearchDepth <= size THEN SearchDepth ELSE size
  BY <1>4, MinOfTwo, RetrievalAssumption
<1>7. own \in hits
  <2>1. CASE backend = "in_memory"
    <3>1. hits /= {}
      BY <1>4, <1>5, <1>6, FS_EmptySet, RetrievalAssumption
    <3>2. SUFFICES ASSUME own \notin hits PROVE FALSE
      OBVIOUS
    <3>3. PICK h \in hits : h \in found /\ h.source = s /\ h.time < own.time
      BY <1>1, <1>3, <1>5, <3>1, <3>2
    <3>. QED BY <1>2, <1>5, <2>1, <3>2, <3>3 DEF Outranks
  <2>2. CASE backend /= "in_memory"
    <3>1. size <= SearchDepth
      BY <2>2 DEF WithinDepth
    <3>2. Cardinality(found) = Cardinality(hits)
      BY <1>4, <1>5, <1>6, <3>1, RetrievalAssumption
    <3>. QED BY <1>2, <1>4, <1>5, <3>2, FS_Subset
  <2>. QED BY <2>1, <2>2
<1>. QED BY <1>1, <1>3, <1>5, <1>7 DEF NewestOf

LEMMA RetrieveOwn ==
  ASSUME StoreInv, OwnRecords(cycle) \subseteq store, DistinctTimes, WithinDepth,
         profile = "v2", Retrieve(cycle)
  PROVE  shown' = OwnRecords(cycle)
<1>. DEFINE now == trace[cycle].time
            found(s) == {r \in KnownAt(now) : r.source = s}
            sources == {s \in SourceTypes : found(s) /= {}}
            own(s) == IF s = "carbon-snapshot" THEN SnapshotRecord(cycle) ELSE GraphRecord(cycle)
<1>1. \A s \in SourceTypes : own(s) \in OwnRecords(cycle) /\ own(s).source = s /\ own(s).time = now
  BY DEF SourceTypes, OwnRecords, SnapshotRecord, GraphRecord
<1>2. sources = SourceTypes
  <2>1. \A s \in SourceTypes : own(s) \in found(s)
    BY <1>1, TracesAreSequences DEF KnownAt, StoreInv
  <2>. QED BY <2>1
<1>3. PICK pick \in [sources -> store] :
        /\ \A s \in sources :
             \E hits \in Hits(found(s), SearchDepth) : pick[s] \in NewestOf(hits)
        /\ shown' = {pick[s] : s \in sources}
  BY DEF Retrieve, LatestPerSource
<1>4. \A s \in SourceTypes : pick[s] = own(s)
  <2>. SUFFICES ASSUME NEW s \in SourceTypes PROVE pick[s] = own(s)
    OBVIOUS
  <2>1. PICK hits \in Hits(found(s), SearchDepth) : pick[s] \in NewestOf(hits)
    BY <1>2, <1>3
  <2>. HIDE DEF own
  <2>2. NewestOf(hits) = {own(s)}
    BY <1>1, NewestIsOwn
  <2>. QED BY <2>1, <2>2
<1>. QED BY <1>2, <1>3, <1>4 DEF SourceTypes, OwnRecords

\* Once retrieved, the documents stay as they are until the next cycle.
LEMMA KeepsDocuments ==
  ASSUME [ExchangeNext]_exchangeVars, Shown'
  PROVE  /\ UNCHANGED <<settings, store, cycle>>
         /\ (DistinctTimes /\ WithinDepth)' <=> DistinctTimes /\ WithinDepth
         /\ OwnRecords(cycle)' = OwnRecords(cycle)
         /\ Retrieves \/ (Shown /\ shown' = shown)
<1>1. UNCHANGED <<settings, store, cycle>> /\ (Retrieves \/ (Shown /\ shown' = shown))
  <2>1. CASE Adds \/ StoreFails \/ Withholds \/ Concludes
    BY <2>1 DEF Adds, StoreFails, Withholds, Concludes, NextCycle, Shown
  <2>2. CASE Retrieves
    BY <2>2 DEF Retrieves, Retrieve
  <2>3. CASE Prompts \/ Asks \/ Finished \/ UNCHANGED exchangeVars
    BY <2>3 DEF Prompts, Asks, Finished, Shown
  <2>. QED BY <2>1, <2>2, <2>3 DEF ExchangeNext
<1>2. OwnRecords(cycle)' = OwnRecords(cycle)
  BY <1>1 DEF OwnRecords, SnapshotRecord, GraphRecord
<1>3. DistinctTimes' <=> DistinctTimes
  BY <1>1 DEF DistinctTimes
<1>4. WithinDepth' <=> WithinDepth
  BY <1>1 DEF WithinDepth, KnownAt
<1>. QED BY <1>1, <1>2, <1>3, <1>4

\* Under v2 the LLM is shown the two documents its decision may cite, for every
\* trace whose decision times differ and whatever order Qdrant ranks them in.
THEOREM OwnContextIsShown == ExchangeSpec => []OwnContextShown
<1>1. ExchangeInit => OwnContextShown
  BY DEF ExchangeInit, OwnContextShown, Shown
<1>2. StoreInv /\ OwnContextShown /\ [ExchangeNext]_exchangeVars => OwnContextShown'
  <2>. SUFFICES ASSUME StoreInv, OwnContextShown, [ExchangeNext]_exchangeVars,
                       (Shown /\ profile = "v2" /\ DistinctTimes /\ WithinDepth)'
                PROVE  shown' = OwnRecords(cycle)'
    BY DEF OwnContextShown
  <2>1. /\ Shown' /\ profile = "v2" /\ DistinctTimes /\ WithinDepth
        /\ OwnRecords(cycle)' = OwnRecords(cycle)
        /\ Retrieves \/ (Shown /\ shown' = shown)
    BY KeepsDocuments
  <2>2. CASE Retrieves
    BY <2>1, <2>2, RetrieveOwn DEF Retrieves, StoreInv
  <2>3. CASE Shown /\ shown' = shown
    BY <2>1, <2>3 DEF OwnContextShown
  <2>. QED BY <2>1, <2>2, <2>3
<1>. QED BY <1>1, <1>2, StoreInvariance, PTL DEF ExchangeSpec

-----------------------------------------------------------------------------
(* The call.                                                               *)

CallTypes ==
  /\ asking \in 0 .. RetryCount + 1
  /\ networkFailure \in BOOLEAN
  /\ answers \in Seq(Answer)

\* While an answer is awaited, every request made so far has failed, and the
\* failures are those the flag remembers.
Pending ==
  stage = "calling" /\ asking /= 0 =>
    /\ Len(answers) = asking - 1
    /\ \A i \in 1 .. Len(answers) : ~Usable(answers[i]) /\ ~Truncated(answers[i])
    /\ (networkFailure <=> Silent /= {})

CallIsOfCycle == stage = "calling" => call = cycle

CallInv == CallTypes /\ Pending /\ CallIsOfCycle /\ FailureClassTruthful /\ CallRecorded

LEMMA InitCall == ExchangeInit => CallInv
<1>. SUFFICES ASSUME ExchangeInit PROVE CallInv
  OBVIOUS
<1>1. asking = 0 /\ networkFailure = FALSE /\ answers = <<>> /\ stage = "adding"
  BY DEF ExchangeInit, AgentInit
<1>2. CallTypes
  <2>1. asking \in 0 .. RetryCount + 1
    BY <1>1, AgentAssumption
  <2>2. answers \in Seq(Answer)
    BY <1>1
  <2>. QED BY <1>1, <2>1, <2>2 DEF CallTypes
<1>. QED BY <1>1, <1>2 DEF CallInv, Pending, CallIsOfCycle, FailureClassTruthful, CallRecorded

\* A prompt that fits starts the first request, any other ends the call.
LEMMA PromptsCall == CallInv /\ Prompts => CallInv'
<1>. SUFFICES ASSUME CallInv, Prompts PROVE CallInv'
  OBVIOUS
<1>. DEFINE over == Overflows(PromptTokens, profile = "v2")
<1>1. /\ call' = cycle /\ cycle' = cycle /\ stage' = "calling"
      /\ answers' = <<>> /\ networkFailure' = FALSE
      /\ IF over THEN /\ asking' = 0 /\ result' = "context_overflow"
                      /\ lastCall' = CallRecord(cycle, 0, TRUE)
                 ELSE asking' = 1
  BY DEF Prompts, Propose
<1>. HIDE DEF over
<1>2. Len(answers') = 0 /\ Silent' = {}
  BY <1>1 DEF Silent
<1>3. CallTypes'
  <2>1. answers' \in Seq(Answer)
    BY <1>1
  <2>2. asking' \in 0 .. RetryCount + 1
    <3>1. asking' \in {0, 1}
      BY <1>1
    <3>. QED BY <3>1, AgentAssumption
  <2>. QED BY <1>1, <2>1, <2>2 DEF CallTypes
<1>4. CASE over
  <2>1. Pending' /\ CallIsOfCycle'
    BY <1>1, <1>4 DEF Pending, CallIsOfCycle
  <2>2. answers' = <<>> /\ result' = "context_overflow" /\ Len(answers') = 0
    BY <1>1, <1>2, <1>4
  <2>3. FailureClassTruthful'
    BY <2>2 DEF FailureClassTruthful
  <2>4. CallRecorded'
    BY <1>1, <1>4, <2>2 DEF CallRecorded, CallRecord
  <2>. QED BY <1>3, <2>1, <2>3, <2>4 DEF CallInv
<1>5. CASE ~over
  <2>1. Pending' /\ CallIsOfCycle'
    BY <1>1, <1>2, <1>5 DEF Pending, CallIsOfCycle
  <2>2. FailureClassTruthful' /\ CallRecorded'
    BY <1>1, <1>5 DEF FailureClassTruthful, CallRecorded
  <2>. QED BY <1>3, <2>1, <2>2 DEF CallInv
<1>. QED BY <1>4, <1>5

\* One more answer, and what the earlier ones were.
LEMMA AnswerAppended ==
  ASSUME CallTypes, NEW a \in Answer, answers' = Append(answers, a)
  PROVE  /\ Len(answers) \in Nat /\ Len(answers') = Len(answers) + 1
         /\ answers' \in Seq(Answer) /\ answers' /= <<>>
         /\ \A i \in 1 .. Len(answers) : answers'[i] = answers[i]
         /\ answers'[Len(answers')] = a
         /\ (Silent' /= {} <=> Silent /= {} \/ a = NoResponse)
<1>1. /\ answers \in Seq(Answer) /\ Len(answers) \in Nat
      /\ Len(answers') = Len(answers) + 1 /\ answers' \in Seq(Answer) /\ answers' /= <<>>
      /\ \A i \in 1 .. Len(answers) : answers'[i] = answers[i]
      /\ answers'[Len(answers) + 1] = a
  BY DEF CallTypes
<1>2. DOMAIN answers = 1 .. Len(answers) /\ DOMAIN answers' = 1 .. Len(answers) + 1
  BY <1>1
<1>3. (Silent' /= {}) <=> (Silent /= {} \/ a = NoResponse)
  BY <1>1, <1>2 DEF Silent
<1>. QED BY <1>1, <1>3

\* Every answer ends the call as it should, or leaves it one request further.
LEMMA AsksCall == CallInv /\ Asks => CallInv'
<1>. SUFFICES ASSUME CallInv, Asks PROVE CallInv'
  OBVIOUS
<1>1. /\ stage = "calling" /\ UNCHANGED <<stage, cycle, call, bounded>>
      /\ \E a \in Answer : Receive(a)
  BY DEF Asks, Receive
<1>2. PICK a \in Answer : Receive(a)
  BY <1>1
<1>3. /\ asking /= 0 /\ answers' = Append(answers, a)
      /\ Accept(a) \/ Overflow(a) \/ TryAgain(a)
  BY <1>2 DEF Receive
<1>4. /\ asking \in 1 .. RetryCount + 1 /\ Len(answers) = asking - 1
      /\ \A i \in 1 .. Len(answers) : ~Usable(answers[i]) /\ ~Truncated(answers[i])
      /\ (networkFailure <=> Silent /= {}) /\ call = cycle /\ networkFailure \in BOOLEAN
  BY <1>1, <1>3 DEF CallInv, CallTypes, Pending, CallIsOfCycle
<1>5. /\ Len(answers') = asking /\ answers' \in Seq(Answer) /\ answers' /= <<>>
      /\ answers'[Len(answers')] = a
      /\ (Silent' /= {} <=> networkFailure \/ a = NoResponse)
      /\ \A i \in 1 .. Len(answers') - 1 : answers'[i] = answers[i]
  BY <1>3, <1>4, AnswerAppended, AgentAssumption DEF CallInv
<1>6. bounded' = bounded
  BY <1>1
<1>. DEFINE Fruitless ==
       \A i \in 1 .. Len(answers) - 1 : ~Usable(answers[i]) /\ ~Truncated(answers[i])
<1>7. Fruitless'
  <2>1. \A i \in 1 .. Len(answers') - 1 : ~Usable(answers[i]) /\ ~Truncated(answers[i])
    BY <1>4, <1>5
  <2>. QED BY <1>5, <1>6, <2>1 DEF Usable, Truncated
<1>8. CASE Accept(a)
  <2>1. /\ Usable(a) /\ result' = "proposal" /\ asking' = 0 /\ networkFailure' = networkFailure
        /\ lastCall' = CallRecord(call, asking, FALSE)
    BY <1>8 DEF Accept, Return
  <2>2. Usable(Last(answers))'
    BY <1>5, <1>6, <2>1 DEF Last, Usable, Truncated
  <2>3. FailureClassTruthful'
    BY <1>5, <1>7, <2>1, <2>2 DEF FailureClassTruthful
  <2>4. CallRecorded'
    BY <1>1, <1>4, <1>5, <2>1 DEF CallRecorded, CallRecord
  <2>5. CallTypes'
    BY <1>4, <1>5, <2>1, AgentAssumption DEF CallTypes
  <2>. QED BY <1>1, <1>4, <2>1, <2>3, <2>4, <2>5 DEF CallInv, Pending, CallIsOfCycle
<1>9. CASE Overflow(a)
  <2>1. /\ Truncated(a) /\ result' = "context_overflow" /\ asking' = 0
        /\ networkFailure' = networkFailure
        /\ lastCall' = CallRecord(call, asking, TRUE)
    BY <1>9 DEF Overflow, Return
  <2>2. Truncated(Last(answers))'
    BY <1>5, <1>6, <2>1 DEF Last, Truncated
  <2>3. FailureClassTruthful'
    BY <1>5, <1>7, <2>1, <2>2 DEF FailureClassTruthful
  <2>4. CallRecorded'
    BY <1>1, <1>4, <1>5, <2>1 DEF CallRecorded, CallRecord
  <2>5. CallTypes'
    BY <1>4, <1>5, <2>1, AgentAssumption DEF CallTypes
  <2>. QED BY <1>1, <1>4, <2>1, <2>3, <2>4, <2>5 DEF CallInv, Pending, CallIsOfCycle
<1>10. CASE TryAgain(a)
  <2>1. /\ ~Usable(a) /\ ~Truncated(a)
        /\ (networkFailure' <=> networkFailure \/ a = NoResponse) /\ networkFailure' \in BOOLEAN
    BY <1>10 DEF TryAgain, FailedOnce
  <2>2. (networkFailure' <=> Silent' /= {}) /\ networkFailure' \in BOOLEAN
    BY <1>4, <1>5, <2>1
  <2>3. CASE asking <= RetryCount
    <3>1. asking' = asking + 1
      BY <1>10, <2>3 DEF TryAgain, AttemptsLeft
    <3>2. (\A i \in 1 .. Len(answers) : ~Usable(answers[i]) /\ ~Truncated(answers[i]))'
      BY <1>4, <1>5, <1>6, <1>7, <2>1 DEF Usable, Truncated
    <3>3. CallTypes'
      BY <1>4, <1>5, <2>2, <2>3, <3>1, AgentAssumption DEF CallTypes
    <3>4. Pending'
      BY <1>4, <1>5, <2>2, <3>1, <3>2 DEF Pending
    <3>5. asking' /= 0
      BY <1>4, <3>1
    <3>. QED BY <1>1, <1>4, <3>3, <3>4, <3>5
         DEF CallInv, CallIsOfCycle, FailureClassTruthful, CallRecorded
  <2>4. CASE ~(asking <= RetryCount)
    <3>1. /\ asking' = 0 /\ lastCall' = CallRecord(call, asking, TRUE)
          /\ result' = IF networkFailure' THEN "llm_unavailable" ELSE "llm_response_invalid"
      BY <1>10, <2>4 DEF TryAgain, AttemptsLeft, Return
    <3>2. asking = RetryCount + 1
      BY <1>4, <2>4, AgentAssumption
    <3>3. FailureClassTruthful'
      BY <1>5, <1>7, <2>2, <3>1, <3>2 DEF FailureClassTruthful
    <3>4. CallTypes'
      BY <1>4, <1>5, <2>2, <3>1, AgentAssumption DEF CallTypes
    <3>. QED BY <1>1, <1>4, <1>5, <3>1, <3>3, <3>4
         DEF CallInv, Pending, CallIsOfCycle, CallRecorded, CallRecord
  <2>. QED BY <2>3, <2>4
<1>. QED BY <1>3, <1>8, <1>9, <1>10

\* The other steps leave the agent alone, and none of them is within a call.
LEMMA OthersCall ==
  ASSUME CallInv,
         \/ Adds \/ Retrieves \/ StoreFails \/ Withholds
         \/ Concludes \/ Finished \/ UNCHANGED exchangeVars
  PROVE  CallInv'
<1>1. UNCHANGED <<asking, bounded, networkFailure, result, lastCall, call, answers>>
  BY DEF Adds, Retrieves, StoreFails, Withholds, Concludes, Finished, AddContext, Retrieve
<1>2. stage' /= "calling" \/ UNCHANGED <<stage, cycle>>
  BY DEF Adds, Retrieves, StoreFails, Withholds, Concludes, NextCycle, Finished
<1>3. CallTypes' /\ Silent' = Silent
  BY <1>1 DEF CallInv, CallTypes, Silent
<1>4. CASE stage' /= "calling"
  BY <1>3, <1>4 DEF CallInv, Pending, CallIsOfCycle, FailureClassTruthful, CallRecorded
<1>5. CASE UNCHANGED <<stage, cycle>>
  BY <1>1, <1>3, <1>5 DEF CallInv, Pending, CallIsOfCycle, FailureClassTruthful, CallRecorded,
     Usable, Truncated
<1>. QED BY <1>2, <1>4, <1>5

LEMMA CallInvariance == ExchangeSpec => []CallInv
<1>1. CallInv /\ [ExchangeNext]_exchangeVars => CallInv'
  BY PromptsCall, AsksCall, OthersCall DEF ExchangeNext
<1>. QED BY InitCall, <1>1, PTL DEF ExchangeSpec

\* The reason a call ends with is told by all its requests, however many attempts
\* are configured and whatever comes back.
THEOREM FailureClassesTruthful == ExchangeSpec => []FailureClassTruthful
<1>1. CallInv => FailureClassTruthful
  BY DEF CallInv
<1>. QED BY <1>1, CallInvariance, PTL

\* The call record is of this cycle's call and counts its requests.
THEOREM CallsRecorded == ExchangeSpec => []CallRecorded
<1>1. CallInv => CallRecorded
  BY DEF CallInv
<1>. QED BY <1>1, CallInvariance, PTL

\* The prompt of a v2 decision does not grow with the trace: one that is too long
\* before it is sent is so for the decision's own snapshot and graph.
THEOREM OverflowsAreOwn == ExchangeSpec => []OverflowIsOwn
<1>1. ExchangeInit => OverflowIsOwn
  BY DEF ExchangeInit, OverflowIsOwn
<1>2. CallInv /\ OwnContextShown /\ OverflowIsOwn /\ [ExchangeNext]_exchangeVars => OverflowIsOwn'
  <2>. SUFFICES ASSUME CallInv, OwnContextShown, OverflowIsOwn, [ExchangeNext]_exchangeVars,
                       stage' = "calling", asking' = 0, result' = "context_overflow",
                       answers' = <<>>,
                       (DistinctTimes /\ WithinDepth)'
                PROVE  (PolicyTokens + TokensOf(OwnRecords(cycle)) + TokensOf(OwnRecords(cycle))
                          + Reserve > NumCtx)'
    BY DEF OverflowIsOwn
  <2>1. /\ DistinctTimes /\ WithinDepth /\ OwnRecords(cycle)' = OwnRecords(cycle)
    BY KeepsDocuments DEF Shown
  <2>2. CASE Prompts
    <3>1. Overflows(PromptTokens, profile = "v2")
      <4>1. IF Overflows(PromptTokens, profile = "v2") THEN TRUE ELSE asking' = 1
        BY <2>2 DEF Prompts, Propose
      <4>. QED BY <4>1
    <3>2. shown = OwnRecords(cycle)
      BY <2>1, <2>2, <3>1 DEF OwnContextShown, Shown, Prompts, Overflows
    <3>. QED BY <2>1, <3>1, <3>2 DEF Overflows, PromptTokens
  <2>3. CASE Asks
    <3>1. \E a \in Answer : answers' = Append(answers, a)
      BY <2>3 DEF Asks, Receive
    <3>. QED BY <3>1 DEF CallInv, CallTypes
  <2>4. CASE ~Prompts /\ ~Asks
    <3>1. UNCHANGED <<asking, stage, result, answers>>
      BY <2>4 DEF ExchangeNext, Adds, Retrieves, StoreFails, Withholds, Concludes, NextCycle,
         Finished
    <3>. QED BY <2>1, <3>1 DEF OverflowIsOwn
  <2>. QED BY <2>2, <2>3, <2>4
<1>. QED BY <1>1, <1>2, OwnContextIsShown, CallInvariance, PTL DEF ExchangeSpec

=============================================================================
