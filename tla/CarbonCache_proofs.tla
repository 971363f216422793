------------------------- MODULE CarbonCache_proofs -------------------------
(***************************************************************************)
(* Proofs about CarbonCache, for any number of captures, regions, cycles   *)
(* and instants.                                                           *)
(***************************************************************************)
EXTENDS CarbonCache, TLAPS

-----------------------------------------------------------------------------
(* The inductive invariant.                                                *)

Busy == {"fetch", "list", "load"}

\* What a capture knows at each step.
CaptureShape(c) ==
  /\ now[c] <= clock
  /\ pc[c] \in Busy => cycle[c] >= 1
  /\ pc[c] = "list" => Saved(c) \in files
  /\ pc[c] = "done" => cycle[c] = NumCycles

\* latest.json names the file listed last, which was captured before.
LatestIsLastListed ==
  \A file \in Entry : listedAt[file] /= 0 =>
    /\ file.captured <= listedAt[file] /\ listedAt[file] <= clock
    /\ latest[FolderOf[file.region]] /= None
    /\ listedAt[file] <= listedAt[latest[FolderOf[file.region]]]

\* The regions a snapshot has records of.
Gathered(c, n, i) ==
  n < cycle[c] \/ (n = cycle[c] /\ (pc[c] \notin Busy \/ i < pos[c]))

\* A capture has one record for each region it is past, and no other.
RecordsFollow(c) ==
  pc[c] /= "failed" =>
    /\ \A n \in 1..NumCycles, i \in DOMAIN RegionOrder : Gathered(c, n, i) =>
         \E rec \in records[c] : rec.cycle = n /\ rec.region = RegionOrder[i]
    /\ \A rec \in records[c] :
         /\ rec.cycle <= cycle[c] /\ rec.at <= now[c]
         /\ rec.cycle = cycle[c] => rec.at = now[c]
         /\ \E i \in DOMAIN RegionOrder :
              rec.region = RegionOrder[i] /\ Gathered(c, rec.cycle, i)

RecordsInOrder(c) ==
  \A rec, other \in records[c] :
    /\ rec.cycle = other.cycle => rec.at = other.at
    /\ rec.cycle < other.cycle => rec.at <= other.at
    /\ rec.cycle = other.cycle /\ rec.region = other.region => rec = other

Own(c) == CaptureShape(c) /\ RecordsFollow(c) /\ RecordsInOrder(c)

Inv ==
  /\ TypeOK /\ PointerNamesAFile /\ AuditTrail /\ LatestIsLastListed
  /\ \A c \in Captures : Own(c)

\* Regions and folders are where the constants say they are.
LEMMA OrderFacts ==
  /\ Len(RegionOrder) \in Nat \ {0} /\ DOMAIN RegionOrder = 1..Len(RegionOrder)
  /\ \A i \in DOMAIN RegionOrder : RegionOrder[i] \in Regions
  /\ \A r \in Regions : \E i \in DOMAIN RegionOrder : r = RegionOrder[i]
  /\ \A r \in Regions : FolderOf[r] \in Folders
<1>1. RegionOrder \in Seq(Regions) /\ RegionOrder /= <<>>
  BY CacheAssumption
<1>2. Len(RegionOrder) \in Nat \ {0} /\ DOMAIN RegionOrder = 1..Len(RegionOrder)
  BY <1>1
<1>. QED BY <1>2 DEF Regions, Folders

LEMMA CaptureFacts ==
  ASSUME TypeOK, NEW c \in Captures
  PROVE  /\ Region(c) \in Regions /\ FolderOf[Region(c)] \in Folders
         /\ cycle[c] >= 1 => Saved(c) \in Entry
<1>1. pos[c] \in DOMAIN RegionOrder /\ cycle[c] \in 0..NumCycles /\ now[c] \in 1..MaxClock
  BY DEF TypeOK
<1>2. Region(c) \in Regions
  BY <1>1, OrderFacts DEF Region
<1>. QED BY <1>1, <1>2, OrderFacts, CacheAssumption DEF Saved, Entry

LEMMA InitInv == Init => Inv
<1>. SUFFICES ASSUME Init PROVE Inv
  OBVIOUS
<1>1. TypeOK
  BY CacheAssumption, OrderFacts DEF Init, TypeOK, Step
<1>2. PointerNamesAFile /\ AuditTrail /\ LatestIsLastListed
  BY DEF Init, PointerNamesAFile, AuditTrail, LatestIsLastListed
<1>3. ASSUME NEW c \in Captures PROVE Own(c)
  <2>1. CaptureShape(c)
    BY CacheAssumption DEF Init, CaptureShape, Busy
  <2>2. RecordsFollow(c)
    BY CacheAssumption DEF Init, RecordsFollow, Gathered, Busy
  <2>3. RecordsInOrder(c)
    BY DEF Init, RecordsInOrder
  <2>. QED BY <2>1, <2>2, <2>3 DEF Own
<1>. QED BY <1>1, <1>2, <1>3 DEF Inv

-----------------------------------------------------------------------------
(* Captures.                                                               *)

\* A capture that takes no step keeps its part of the invariant.
LEMMA UntouchedOwn ==
  ASSUME TypeOK, NEW c \in Captures, Own(c),
         clock' \in Int, clock' >= clock, files \subseteq files',
         pc'[c] = pc[c], now'[c] = now[c], cycle'[c] = cycle[c], pos'[c] = pos[c],
         records'[c] = records[c]
  PROVE  Own(c)'
<1>1. CaptureShape(c)'
  BY DEF TypeOK, Own, CaptureShape, Saved, Region
<1>2. RecordsFollow(c)'
  BY DEF Own, RecordsFollow, Gathered
<1>3. RecordsInOrder(c)'
  BY DEF Own, RecordsInOrder
<1>. QED BY <1>1, <1>2, <1>3 DEF Own

\* A capture that has ended keeps nothing.
LEMMA FailsOwn ==
  ASSUME TypeOK, NEW c \in Captures, Own(c), Fails(c), clock' = clock
  PROVE  Own(c)'
<1>1. pc'[c] = "failed" /\ records'[c] = {} /\ now'[c] = now[c]
  BY DEF Fails, Goto, TypeOK
<1>2. CaptureShape(c)'
  BY <1>1 DEF Own, CaptureShape, Busy
<1>3. RecordsFollow(c)' /\ RecordsInOrder(c)'
  BY <1>1 DEF RecordsFollow, RecordsInOrder
<1>. QED BY <1>2, <1>3 DEF Own

\* The record of a region completes it, and the capture moves past it.
LEMMA CollectedOwn ==
  ASSUME TypeOK, NEW c \in Captures, Own(c), pc[c] \in Busy,
         NEW source, NEW file, NEW intact,
         Collect(c, source, file, intact), Advance(c), clock' = clock
  PROVE  Own(c)'
<1>. DEFINE new == [cycle |-> cycle[c], at |-> now[c], region |-> Region(c),
                    source |-> source, file |-> file, intact |-> intact]
<1>1. records'[c] = records[c] \cup {new} /\ now'[c] = now[c] /\ cycle'[c] = cycle[c]
  BY DEF Collect, Advance, TypeOK
<1>2. /\ cycle[c] \in 1..NumCycles /\ pos[c] \in 1..Len(RegionOrder) /\ now[c] \in 1..MaxClock
      /\ new.region = RegionOrder[pos[c]]
  BY OrderFacts, CacheAssumption DEF TypeOK, Own, CaptureShape, Region
<1>3. \/ pc'[c] = "fetch" /\ pos[c] < Len(RegionOrder) /\ pos'[c] = pos[c] + 1
      \/ pc'[c] = "idle" /\ pos[c] = Len(RegionOrder)
  BY <1>2, OrderFacts, CacheAssumption DEF Advance, Goto, TypeOK
<1>4. CaptureShape(c)'
  BY <1>1, <1>2, <1>3 DEF Own, CaptureShape, Busy
<1>5. \A n \in 1..NumCycles, i \in DOMAIN RegionOrder :
        Gathered(c, n, i)' <=> Gathered(c, n, i) \/ (n = cycle[c] /\ i = pos[c])
  BY <1>1, <1>2, <1>3, OrderFacts DEF Gathered, Busy
<1>6. \A rec \in records[c] : rec.cycle \in 1..NumCycles /\ rec.at \in 1..MaxClock
  BY DEF TypeOK, Record
<1>7. RecordsFollow(c)'
  <2>1. pc[c] /= "failed" /\ RecordsFollow(c)
    BY DEF Own, Busy
  <2>2. ASSUME NEW n \in 1..NumCycles, NEW i \in DOMAIN RegionOrder, Gathered(c, n, i)'
        PROVE  \E rec \in records'[c] : rec.cycle = n /\ rec.region = RegionOrder[i]
    <3>1. CASE Gathered(c, n, i)
      BY <3>1, <2>1, <1>1 DEF RecordsFollow
    <3>2. CASE n = cycle[c] /\ i = pos[c]
      BY <3>2, <1>1, <1>2
    <3>. QED BY <2>2, <3>1, <3>2, <1>5
  <2>3. ASSUME NEW rec \in records'[c]
        PROVE  /\ rec.cycle <= cycle'[c] /\ rec.at <= now'[c]
               /\ rec.cycle = cycle'[c] => rec.at = now'[c]
               /\ \E i \in DOMAIN RegionOrder :
                    rec.region = RegionOrder[i] /\ Gathered(c, rec.cycle, i)'
    <3>1. CASE rec \in records[c]
      <4>1. PICK i \in DOMAIN RegionOrder :
              rec.region = RegionOrder[i] /\ Gathered(c, rec.cycle, i)
        BY <3>1, <2>1 DEF RecordsFollow
      <4>2. Gathered(c, rec.cycle, i)'
        BY <4>1, <3>1, <1>5, <1>6
      <4>. QED BY <4>1, <4>2, <3>1, <2>1, <1>1 DEF RecordsFollow
    <3>2. CASE rec = new
      <4>1. PICK n \in 1..NumCycles, i \in DOMAIN RegionOrder : n = cycle[c] /\ i = pos[c]
        BY <1>2, OrderFacts
      <4>2. Gathered(c, n, i)'
        BY <4>1, <1>5
      <4>. QED BY <4>1, <4>2, <3>2, <1>1, <1>2
    <3>. QED BY <3>1, <3>2, <1>1
  <2>. QED BY <2>2, <2>3 DEF RecordsFollow
<1>8. RecordsInOrder(c)'
  <2>1. ASSUME NEW rec \in records[c]
        PROVE  /\ rec.cycle = new.cycle => rec.at = new.at
               /\ rec.cycle < new.cycle => rec.at <= new.at
               /\ ~(new.cycle < rec.cycle)
               /\ ~(rec.cycle = new.cycle /\ rec.region = new.region)
    <3>1. /\ rec.cycle <= cycle[c] /\ rec.at <= now[c]
          /\ rec.cycle = cycle[c] => rec.at = now[c]
      BY DEF Own, RecordsFollow, Busy
    <3>2. PICK i \in DOMAIN RegionOrder :
            rec.region = RegionOrder[i] /\ Gathered(c, rec.cycle, i)
      BY DEF Own, RecordsFollow, Busy
    <3>3. rec.cycle = cycle[c] => i /= pos[c]
      BY <3>2, <1>2, OrderFacts DEF Gathered
    <3>4. rec.cycle = cycle[c] => rec.region /= new.region
      BY <3>2, <3>3, <1>2, CacheAssumption, OrderFacts
    <3>. QED BY <3>1, <3>4, <1>2, <1>6
  <2>2. ASSUME NEW rec \in records'[c], NEW other \in records'[c]
        PROVE  /\ rec.cycle = other.cycle => rec.at = other.at
               /\ rec.cycle < other.cycle => rec.at <= other.at
               /\ rec.cycle = other.cycle /\ rec.region = other.region => rec = other
    <3>1. CASE rec \in records[c] /\ other \in records[c]
      BY <3>1 DEF Own, RecordsInOrder
    <3>2. CASE rec \in records[c] /\ other = new
      BY <3>2, <2>1
    <3>3. CASE rec = new /\ other \in records[c]
      BY <3>3, <2>1
    <3>4. CASE rec = new /\ other = new
      BY <3>4, <1>2
    <3>. QED BY <3>1, <3>2, <3>3, <3>4, <1>1
  <2>. QED BY <2>2 DEF RecordsInOrder
<1>. QED BY <1>4, <1>7, <1>8 DEF Own

LEMMA BeginSnapshotOwn ==
  ASSUME Inv, NEW c \in Captures, BeginSnapshot(c)
  PROVE  Own(c)'
<1>1. /\ pc[c] = "idle" /\ pc'[c] = "fetch" /\ now'[c] = clock /\ clock' = clock
      /\ cycle[c] < NumCycles /\ cycle'[c] = cycle[c] + 1 /\ pos'[c] = 1 /\ records'[c] = records[c]
  BY DEF BeginSnapshot, Goto, Inv, TypeOK
<1>2. clock \in 1..MaxClock /\ now[c] \in 1..MaxClock /\ now[c] <= clock
      /\ cycle[c] \in 0..NumCycles /\ cycle[c] < NumCycles
  BY <1>1 DEF Inv, TypeOK, Own, CaptureShape
<1>3. CaptureShape(c)'
  BY <1>1, <1>2, CacheAssumption DEF CaptureShape, Busy
<1>4. RecordsFollow(c) /\ RecordsInOrder(c)
  BY DEF Inv, Own
<1>5. \A n \in 1..NumCycles, i \in DOMAIN RegionOrder : Gathered(c, n, i)' <=> Gathered(c, n, i)
  BY <1>1, <1>2, OrderFacts, CacheAssumption DEF Gathered, Busy
<1>6. \A rec \in records[c] : rec.cycle \in 1..NumCycles /\ rec.at \in 1..MaxClock
  BY DEF Inv, TypeOK, Record
<1>7. RecordsFollow(c)'
  <2>1. \A rec \in records[c] :
          /\ rec.cycle <= cycle'[c] /\ rec.at <= now'[c]
          /\ rec.cycle = cycle'[c] => rec.at = now'[c]
    BY <1>1, <1>2, <1>4, <1>6 DEF RecordsFollow
  <2>2. ASSUME NEW rec \in records[c]
        PROVE  \E i \in DOMAIN RegionOrder :
                 rec.region = RegionOrder[i] /\ Gathered(c, rec.cycle, i)'
    BY <1>1, <1>4, <1>5, <1>6 DEF RecordsFollow
  <2>3. ASSUME NEW n \in 1..NumCycles, NEW i \in DOMAIN RegionOrder, Gathered(c, n, i)'
        PROVE  \E rec \in records[c] : rec.cycle = n /\ rec.region = RegionOrder[i]
    BY <2>3, <1>1, <1>4, <1>5 DEF RecordsFollow
  <2>. QED BY <2>1, <2>2, <2>3, <1>1 DEF RecordsFollow
<1>8. RecordsInOrder(c)'
  BY <1>1, <1>4 DEF RecordsInOrder
<1>. QED BY <1>3, <1>7, <1>8 DEF Own

\* Steps within a region keep what was gathered.
LEMMA SameRegionOwn ==
  ASSUME TypeOK, NEW c \in Captures, Own(c), pc[c] = "fetch",
         \/ pc'[c] = "load"
         \/ pc'[c] = "list" /\ Saved(c) \in files',
         clock' = clock, now' = now, cycle' = cycle, pos' = pos, records' = records
  PROVE  Own(c)'
<1>1. CaptureShape(c)'
  BY DEF Own, CaptureShape, Busy, Saved, Region
<1>2. RecordsFollow(c)'
  BY DEF Own, RecordsFollow, Gathered, Busy
<1>3. RecordsInOrder(c)'
  BY DEF Own, RecordsInOrder
<1>. QED BY <1>1, <1>2, <1>3 DEF Own

\* Writing the trace keeps what was gathered.
LEMMA WriteTraceOwn ==
  ASSUME TypeOK, NEW c \in Captures, Own(c), WriteTrace(c)
  PROVE  Own(c)'
<1>1. /\ pc[c] = "idle" /\ pc'[c] = "done" /\ cycle[c] = NumCycles /\ clock' = clock
      /\ now' = now /\ cycle' = cycle /\ pos' = pos /\ records' = records
  BY DEF WriteTrace, Goto, TypeOK
<1>2. CaptureShape(c)'
  BY <1>1 DEF Own, CaptureShape, Busy
<1>3. RecordsFollow(c)'
  BY <1>1 DEF Own, RecordsFollow, Gathered, Busy
<1>4. RecordsInOrder(c)'
  BY <1>1 DEF Own, RecordsInOrder
<1>. QED BY <1>2, <1>3, <1>4 DEF Own

\* A capture's step keeps every capture's part.
LEMMA CaptureOwn ==
  ASSUME Inv, NEW c \in Captures, Capture(c)
  PROVE  \A other \in Captures : Own(other)'
<1>1. clock' = clock /\ clock \in Int /\ files \subseteq files'
  <2>1. clock \in Int
    BY DEF Inv, TypeOK
  <2>2. clock' = clock
    BY Zenon DEF Capture, BeginSnapshot, WriteSnapshot, WritePointer, FetchFails,
           ServeCached, RefuseCached, WriteTrace, Abort
  <2>3. files \subseteq files'
    <3>1. CASE WriteSnapshot(c)
      BY <3>1 DEF WriteSnapshot
    <3>2. CASE ~WriteSnapshot(c)
      BY <3>2, Zenon DEF Capture, BeginSnapshot, WritePointer, FetchFails,
             ServeCached, RefuseCached, WriteTrace, Abort, diskVars
    <3>. QED BY <3>1, <3>2
  <2>. QED BY <2>1, <2>2, <2>3
<1>2. ASSUME NEW other \in Captures, other /= c PROVE Own(other)'
  <2>1. /\ pc'[other] = pc[other] /\ now'[other] = now[other] /\ cycle'[other] = cycle[other]
        /\ pos'[other] = pos[other] /\ records'[other] = records[other]
    BY <1>2 DEF Inv, TypeOK, Capture, BeginSnapshot, WriteSnapshot, WritePointer, FetchFails,
         ServeCached, RefuseCached, WriteTrace, Abort, Fails, Advance, Collect, Goto
  <2>. QED BY <1>1, <2>1, UntouchedOwn DEF Inv
<1>3. Own(c)'
  <2>1. CASE BeginSnapshot(c)
    BY <2>1, BeginSnapshotOwn
  <2>2. CASE WriteSnapshot(c)
    <3>1. pc[c] = "fetch" /\ pc'[c] = "list" /\ Saved(c) \in files'
      BY <2>2 DEF WriteSnapshot, Goto, Inv, TypeOK
    <3>. QED BY <2>2, <3>1, SameRegionOwn DEF WriteSnapshot, Inv
  <2>3. CASE WritePointer(c)
    BY <2>3, CollectedOwn DEF WritePointer, Inv, Busy
  <2>4. CASE FetchFails(c)
    <3>1. CASE Fails(c)
      BY <2>4, <3>1, FailsOwn DEF FetchFails, Inv
    <3>2. CASE Goto(c, "load") /\ UNCHANGED <<now, cycle, pos, records>>
      BY <2>4, <3>2, SameRegionOwn DEF FetchFails, Goto, Inv, TypeOK
    <3>. QED BY <2>4, <3>1, <3>2 DEF FetchFails
  <2>5. CASE ServeCached(c)
    BY <2>5, CollectedOwn DEF ServeCached, Inv, Busy
  <2>6. CASE RefuseCached(c) \/ Abort(c)
    BY <2>6, FailsOwn DEF RefuseCached, Abort, Inv
  <2>7. CASE WriteTrace(c)
    BY <2>7, WriteTraceOwn DEF Inv
  <2>. QED BY <2>1, <2>2, <2>3, <2>4, <2>5, <2>6, <2>7 DEF Capture
<1>. QED BY <1>2, <1>3

-----------------------------------------------------------------------------
(* The disk.                                                               *)

\* Ending and moving on keep the types of what they change.
LEMMA EndTypes ==
  ASSUME TypeOK, NEW c \in Captures, Fails(c)
  PROVE  /\ pc' \in [Captures -> Step] /\ now' \in [Captures -> 1..MaxClock]
         /\ cycle' \in [Captures -> 0..NumCycles] /\ pos' \in [Captures -> DOMAIN RegionOrder]
         /\ held' \in [Captures -> Entry \cup {None}]
         /\ records' \in [Captures -> SUBSET Record]
BY DEF TypeOK, Fails, Goto, Step

LEMMA CollectTypes ==
  ASSUME TypeOK, NEW c \in Captures, cycle[c] >= 1, NEW source \in {"live", "cache"},
         NEW file \in Entry, NEW intact \in BOOLEAN,
         Collect(c, source, file, intact), Advance(c)
  PROVE  /\ pc' \in [Captures -> Step] /\ now' \in [Captures -> 1..MaxClock]
         /\ cycle' \in [Captures -> 0..NumCycles] /\ pos' \in [Captures -> DOMAIN RegionOrder]
         /\ held' \in [Captures -> Entry \cup {None}]
         /\ records' \in [Captures -> SUBSET Record]
<1>1. /\ cycle[c] \in 1..NumCycles /\ now[c] \in 1..MaxClock /\ pos[c] \in 1..Len(RegionOrder)
      /\ Region(c) \in Regions
  BY CacheAssumption, OrderFacts, CaptureFacts DEF TypeOK
<1>2. [cycle |-> cycle[c], at |-> now[c], region |-> Region(c),
       source |-> source, file |-> file, intact |-> intact] \in Record
  BY <1>1 DEF Record
<1>3. records' \in [Captures -> SUBSET Record]
  BY <1>2 DEF Collect, TypeOK
<1>4. pos' \in [Captures -> DOMAIN RegionOrder]
  <2>1. CASE pos[c] < Len(RegionOrder)
    <3>1. pos[c] + 1 \in DOMAIN RegionOrder
      BY <2>1, <1>1, OrderFacts
    <3>. QED BY <2>1, <3>1 DEF Advance, TypeOK
  <2>2. CASE ~(pos[c] < Len(RegionOrder))
    BY <2>2 DEF Advance, TypeOK
  <2>. QED BY <2>1, <2>2
<1>5. pc' \in [Captures -> Step]
  BY DEF Advance, Goto, TypeOK, Step
<1>. QED BY <1>3, <1>4, <1>5 DEF Advance, TypeOK

LEMMA CaptureTypes ==
  ASSUME Inv, NEW c \in Captures, Capture(c)
  PROVE  TypeOK'
<1>. USE DEF Inv
<1>1. /\ clock \in 1..MaxClock /\ cycle[c] \in 0..NumCycles
      /\ pc[c] \in Busy => cycle[c] >= 1 /\ Saved(c) \in Entry
  BY CaptureFacts DEF TypeOK, Own, CaptureShape
<1>2. CASE BeginSnapshot(c)
  <2>1. cycle[c] + 1 \in 0..NumCycles /\ 1 \in DOMAIN RegionOrder
    BY <1>1, <1>2, CacheAssumption, OrderFacts DEF BeginSnapshot, Own, CaptureShape
  <2>. QED BY <1>1, <1>2, <2>1 DEF BeginSnapshot, TypeOK, Goto, Step, diskVars
<1>3. CASE WriteSnapshot(c)
  BY <1>1, <1>3 DEF WriteSnapshot, TypeOK, Goto, Step, Busy
<1>4. CASE WritePointer(c)
  <2>1. Saved(c) \in Entry /\ cycle[c] >= 1
    BY <1>1, <1>4 DEF WritePointer, Busy
  <2>2. latest' \in [Folders -> Entry \cup {None}] /\ listedAt' \in [Entry -> 0..MaxClock]
    <3>1. FolderOf[Region(c)] \in Folders /\ clock \in 0..MaxClock
      BY <1>1, CaptureFacts
    <3>2. latest' = [latest EXCEPT ![FolderOf[Region(c)]] = Saved(c)]
      BY <1>4 DEF WritePointer, Replaced
    <3>3. listedAt' = [listedAt EXCEPT ![Saved(c)] = clock]
      BY <1>4 DEF WritePointer
    <3>4. latest' \in [Folders -> Entry \cup {None}]
      BY <2>1, <3>2 DEF TypeOK
    <3>5. listedAt' \in [Entry -> 0..MaxClock]
      BY <3>1, <3>3 DEF TypeOK
    <3>. QED BY <3>4, <3>5
  <2>. QED BY <1>4, <2>1, <2>2, CollectTypes DEF WritePointer, TypeOK
<1>5. CASE FetchFails(c)
  <2>1. CASE Fails(c)
    BY <1>5, <2>1, EndTypes DEF FetchFails, TypeOK, diskVars
  <2>2. CASE /\ latest[FolderOf[Region(c)]] /= None /\ Goto(c, "load")
             /\ held' = [held EXCEPT ![c] = latest[FolderOf[Region(c)]]]
             /\ UNCHANGED <<now, cycle, pos, records>>
    <3>1. latest[FolderOf[Region(c)]] \in Entry \cup {None}
      BY CaptureFacts DEF TypeOK
    <3>. QED BY <1>5, <2>2, <3>1 DEF FetchFails, TypeOK, Goto, Step, diskVars
  <2>. QED BY <1>5, <2>1, <2>2 DEF FetchFails
<1>6. CASE ServeCached(c)
  <2>1. cycle[c] >= 1 /\ held[c] \in Entry /\ (held[c] \notin damaged) \in BOOLEAN
    BY <1>1, <1>6 DEF ServeCached, Busy, Valid, TypeOK
  <2>. QED BY <1>6, <2>1, CollectTypes DEF ServeCached, TypeOK, diskVars
<1>7. CASE RefuseCached(c) \/ Abort(c)
  BY <1>7, EndTypes DEF RefuseCached, Abort, TypeOK, diskVars
<1>8. CASE WriteTrace(c)
  BY <1>8 DEF WriteTrace, TypeOK, Goto, Step, diskVars
<1>. QED BY <1>2, <1>3, <1>4, <1>5, <1>6, <1>7, <1>8 DEF Capture

\* Only WritePointer replaces a latest.json; the others leave both alone.
LEMMA CapturePointers ==
  ASSUME Inv, NEW c \in Captures, Capture(c)
  PROVE  PointerNamesAFile' /\ LatestIsLastListed'
<1>. USE DEF Inv
<1>1. clock' = clock /\ files \subseteq files'
  <2>1. CASE WriteSnapshot(c)
    BY <2>1 DEF WriteSnapshot
  <2>2. CASE ~WriteSnapshot(c)
    BY <2>2, Zenon DEF Capture, BeginSnapshot, WritePointer, FetchFails,
           ServeCached, RefuseCached, WriteTrace, Abort, diskVars
  <2>. QED BY <2>1, <2>2
<1>2. CASE WritePointer(c)
  <2>. DEFINE saved == Saved(c)
              folder == FolderOf[Region(c)]
  <2>1. /\ saved \in Entry /\ saved \in files /\ saved.region = Region(c)
        /\ saved.captured = now[c] /\ now[c] <= clock /\ folder \in Folders
        /\ clock \in 1..MaxClock /\ now[c] \in 1..MaxClock
    BY <1>2, CaptureFacts DEF WritePointer, Own, CaptureShape, TypeOK, Saved, Busy
  <2>2. /\ latest'[folder] = saved /\ listedAt'[saved] = clock
        /\ \A d \in Folders \ {folder} : latest'[d] = latest[d]
        /\ \A file \in Entry \ {saved} : listedAt'[file] = listedAt[file]
    BY <1>2, <2>1 DEF WritePointer, Replaced, TypeOK
  <2>3. PointerNamesAFile'
    BY <2>1, <2>2, <1>1 DEF PointerNamesAFile
  <2>4. ASSUME NEW file \in Entry, listedAt'[file] /= 0
        PROVE  /\ file.captured <= listedAt'[file] /\ listedAt'[file] <= clock
               /\ latest'[FolderOf[file.region]] /= None
               /\ listedAt'[file] <= listedAt'[latest'[FolderOf[file.region]]]
    <3>1. file.captured <= listedAt'[file] /\ listedAt'[file] <= clock
      BY <2>1, <2>2, <2>4 DEF LatestIsLastListed
    <3>2. FolderOf[file.region] \in Folders
      BY OrderFacts DEF Entry
    <3>3. CASE FolderOf[file.region] = folder
      BY <3>1, <3>3, <2>1, <2>2, CacheAssumption
    <3>4. CASE FolderOf[file.region] /= folder
      <4>1. file /= saved
        BY <3>4, <2>1
      <4>2. latest'[FolderOf[file.region]] = latest[FolderOf[file.region]]
        BY <3>2, <3>4, <2>2
      <4>3. /\ listedAt[file] /= 0 /\ latest[FolderOf[file.region]] /= None
            /\ listedAt[file] <= listedAt[latest[FolderOf[file.region]]]
        BY <4>1, <2>2, <2>4 DEF LatestIsLastListed
      <4>4. /\ latest[FolderOf[file.region]] \in Entry
            /\ FolderOf[latest[FolderOf[file.region]].region] = FolderOf[file.region]
        BY <3>2, <4>3 DEF PointerNamesAFile, TypeOK
      <4>5. latest[FolderOf[file.region]] /= saved
        BY <4>4, <3>4, <2>1
      <4>. QED BY <3>1, <4>1, <4>2, <4>3, <4>4, <4>5, <2>2
    <3>. QED BY <3>1, <3>3, <3>4
  <2>. QED BY <2>3, <2>4, <1>1 DEF LatestIsLastListed
<1>3. CASE ~WritePointer(c)
  <2>1. latest' = latest /\ listedAt' = listedAt
    BY <1>3, Zenon DEF Capture, BeginSnapshot, WriteSnapshot, FetchFails,
           ServeCached, RefuseCached, WriteTrace, Abort, diskVars
  <2>. QED BY <1>1, <2>1 DEF PointerNamesAFile, LatestIsLastListed
<1>. QED BY <1>2, <1>3

\* What makes a record traceable.
Traceable(c, rec) ==
  /\ rec.file \in files /\ rec.intact
  /\ rec.file.region = rec.region
  /\ IF rec.source = "live"
       THEN rec.file.by = c /\ rec.file.cycle = rec.cycle /\ rec.file.captured = rec.at
       ELSE rec.file.captured <= rec.at /\ rec.at - rec.file.captured <= MaxAge

\* A record is collected once its file is known to be right.
LEMMA CaptureTraces ==
  ASSUME Inv, NEW c \in Captures, Capture(c)
  PROVE  AuditTrail'
<1>. USE DEF Inv
<1>1. files \subseteq files'
  <2>1. CASE WriteSnapshot(c)
    BY <2>1 DEF WriteSnapshot
  <2>2. CASE ~WriteSnapshot(c)
    BY <2>2, Zenon DEF Capture, BeginSnapshot, WritePointer, FetchFails,
           ServeCached, RefuseCached, WriteTrace, Abort, diskVars
  <2>. QED BY <2>1, <2>2
<1>2. ASSUME NEW other \in Captures, NEW rec \in records[other]
      PROVE  Traceable(other, rec)'
  <2>1. Traceable(other, rec)
    BY DEF AuditTrail, Traceable
  <2>. QED BY <2>1, <1>1 DEF Traceable
<1>3. ASSUME NEW other \in Captures, NEW rec \in records'[other], rec \notin records[other]
      PROVE  Traceable(other, rec)'
  <2>1. CASE WritePointer(c)
    <3>1. /\ other = c
          /\ rec = [cycle |-> cycle[c], at |-> now[c], region |-> Region(c),
                    source |-> "live", file |-> Saved(c), intact |-> TRUE]
      BY <1>3, <2>1 DEF WritePointer, Collect, TypeOK
    <3>2. Saved(c) \in files
      BY <2>1 DEF WritePointer, Own, CaptureShape
    <3>. QED BY <3>1, <3>2, <1>1 DEF Traceable, Saved
  <2>2. CASE ServeCached(c)
    <3>1. /\ other = c
          /\ rec = [cycle |-> cycle[c], at |-> now[c], region |-> Region(c),
                    source |-> "cache", file |-> held[c], intact |-> held[c] \notin damaged]
      BY <1>3, <2>2 DEF ServeCached, Collect, TypeOK
    <3>2. Valid(held[c], Region(c), now[c])
      BY <2>2 DEF ServeCached
    <3>. QED BY <3>1, <3>2, <1>1 DEF Traceable, Valid
  <2>3. CASE FetchFails(c) \/ RefuseCached(c) \/ Abort(c)
    BY <1>3, <2>3 DEF FetchFails, RefuseCached, Abort, Fails, TypeOK
  <2>4. CASE BeginSnapshot(c) \/ WriteSnapshot(c) \/ WriteTrace(c)
    BY <1>3, <2>4 DEF BeginSnapshot, WriteSnapshot, WriteTrace
  <2>. QED BY <2>1, <2>2, <2>3, <2>4 DEF Capture
<1>. QED BY <1>2, <1>3 DEF AuditTrail, Traceable

-----------------------------------------------------------------------------
(* Theorems.                                                               *)

\* Time passes, or a file is damaged: what was recorded stays as it was.
LEMMA WorldInv ==
  ASSUME Inv, Tick \/ \E file \in files : Damage(file)
  PROVE  Inv'
<1>. USE DEF Inv
<1>1. /\ UNCHANGED <<files, latest, listedAt, pc, now, cycle, pos, held, records>>
      /\ clock \in 1..MaxClock /\ clock' \in 1..MaxClock /\ clock' >= clock
      /\ damaged' \subseteq files
  <2>1. CASE Tick
    <3>1. UNCHANGED <<files, damaged, latest, listedAt, pc, now, cycle, pos, held, records>>
      BY <2>1 DEF Tick, diskVars
    <3>2. clock \in 1..MaxClock /\ clock' = clock + 1 /\ clock < MaxClock /\ MaxClock \in Nat
      BY <2>1, CacheAssumption DEF Tick, TypeOK
    <3>. QED BY <3>1, <3>2 DEF TypeOK
  <2>2. ASSUME NEW file \in files, Damage(file)
        PROVE  /\ UNCHANGED <<clock, files, latest, listedAt, pc, now, cycle, pos, held, records>>
               /\ damaged' \subseteq files
    BY <2>2 DEF Damage, TypeOK
  <2>. QED BY <2>1, <2>2 DEF TypeOK
<1>2. TypeOK'
  BY <1>1 DEF TypeOK
<1>3. PointerNamesAFile' /\ AuditTrail'
  BY <1>1 DEF PointerNamesAFile, AuditTrail
<1>4. LatestIsLastListed'
  <2>1. \A file \in Entry : listedAt[file] \in 0..MaxClock
    BY DEF TypeOK
  <2>. QED BY <1>1, <2>1 DEF LatestIsLastListed
<1>5. \A c \in Captures : Own(c)'
  <2>1. ASSUME NEW c \in Captures PROVE Own(c)'
    <3>1. TypeOK /\ Own(c) /\ clock' \in Int /\ clock' >= clock /\ files \subseteq files'
      BY <1>1
    <3>2. /\ pc'[c] = pc[c] /\ now'[c] = now[c] /\ cycle'[c] = cycle[c]
          /\ pos'[c] = pos[c] /\ records'[c] = records[c]
      BY <1>1
    <3>. QED BY <3>1, <3>2, UntouchedOwn
  <2>. QED BY <2>1
<1>. QED BY <1>2, <1>3, <1>4, <1>5

\* The invariant is inductive, so it holds in every state of any instance.
THEOREM CacheInvariance == Spec => []Inv
<1>1. Inv /\ [Next]_vars => Inv'
  <2>. SUFFICES ASSUME Inv, [Next]_vars PROVE Inv'
    OBVIOUS
  <2>1. ASSUME NEW c \in Captures, Capture(c) PROVE Inv'
    BY <2>1, CaptureTypes, CapturePointers, CaptureTraces, CaptureOwn DEF Inv
  <2>2. CASE Tick \/ \E file \in files : Damage(file)
    BY <2>2, WorldInv
  <2>3. CASE UNCHANGED vars
    BY <2>3 DEF vars, diskVars, Inv, TypeOK, PointerNamesAFile, AuditTrail, LatestIsLastListed,
                Own, CaptureShape, RecordsFollow, RecordsInOrder, Gathered, Saved, Region
  <2>. QED BY <2>1, <2>2, <2>3 DEF Next, Finished
<1>. QED BY InitInv, <1>1, PTL DEF Spec

\* The disk and the captures keep their types.
THEOREM CacheTypeCorrect == Spec => []TypeOK
<1>1. Inv => TypeOK
  BY DEF Inv
<1>. QED BY CacheInvariance, <1>1, PTL

\* latest.json never names a file that is not there (save_live's order of writes).
THEOREM PointerNeverDangles == Spec => []PointerNamesAFile
<1>1. Inv => PointerNamesAFile
  BY DEF Inv
<1>. QED BY CacheInvariance, <1>1, PTL

\* Every record can be traced to an intact file of its region, live or cached.
THEOREM AuditTrailKept == Spec => []AuditTrail
<1>1. Inv => AuditTrail
  BY DEF Inv
<1>. QED BY CacheInvariance, <1>1, PTL

\* A trace that is written has no gap, for any number of regions and cycles.
THEOREM TracesComplete == Spec => []TraceComplete
<1>1. Inv => TraceComplete
  <2>. SUFFICES ASSUME Inv, NEW c \in Captures, pc[c] = "done"
                PROVE  /\ \A n \in 1..NumCycles, r \in Regions :
                            \E rec \in records[c] : rec.cycle = n /\ rec.region = r
                       /\ RecordsInOrder(c)
    BY DEF TraceComplete, RecordsInOrder
  <2>1. cycle[c] = NumCycles /\ RecordsFollow(c) /\ RecordsInOrder(c)
    BY DEF Inv, Own, CaptureShape
  <2>2. ASSUME NEW n \in 1..NumCycles, NEW r \in Regions
        PROVE  \E rec \in records[c] : rec.cycle = n /\ rec.region = r
    <3>1. PICK i \in DOMAIN RegionOrder : r = RegionOrder[i]
      BY OrderFacts
    <3>2. Gathered(c, n, i)
      BY <2>1, CacheAssumption DEF Gathered, Busy
    <3>. QED BY <2>1, <3>1, <3>2 DEF RecordsFollow
  <2>. QED BY <2>1, <2>2
<1>. QED BY CacheInvariance, <1>1, PTL

\* latest.json passes over newer data that was listed only if the captures overlapped.
THEOREM LagsOnlyByOverlap == Spec => []PointerLagsOnlyByOverlap
<1>1. Inv => PointerLagsOnlyByOverlap
  <2>. SUFFICES ASSUME Inv, NEW d \in Folders, NEW file \in Entry,
                       PassedOver(d, file), listedAt[file] /= 0
                PROVE  latest[d] /= None /\ file.captured <= listedAt[latest[d]]
    BY DEF PointerLagsOnlyByOverlap
  <2>1. /\ file.captured <= listedAt[file] /\ latest[d] /= None
        /\ listedAt[file] <= listedAt[latest[d]]
    BY DEF Inv, LatestIsLastListed, PassedOver
  <2>2. latest[d] \in Entry
    BY <2>1 DEF Inv, TypeOK
  <2>3. file.captured \in Int /\ listedAt[file] \in Int /\ listedAt[latest[d]] \in Int
    <3>1. listedAt[file] \in 0..MaxClock /\ listedAt[latest[d]] \in 0..MaxClock
      BY <2>2 DEF Inv, TypeOK
    <3>2. file.captured \in 1..MaxClock
      BY DEF Entry
    <3>. QED BY <3>1, <3>2
  <2>. QED BY <2>1, <2>3
<1>. QED BY CacheInvariance, <1>1, PTL

=============================================================================
