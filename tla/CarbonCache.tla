---------------------------- MODULE CarbonCache ----------------------------
(***************************************************************************)
(* Captures of carbon snapshots (scripts/capture_carbon.py, fetch_snapshot *)
(* of src/carbon_scheduler/carbon_client.py) that share one CarbonCache.   *)
(*                                                                         *)
(* A capture takes NumCycles snapshots.  For each one it asks the provider *)
(* for every region in turn; a live answer is saved as a new file and then *)
(* named by the folder's latest.json, and a request that fails falls back  *)
(* to the file latest.json names.  Captures are processes of their own:    *)
(* they interleave, and each may end at any point.                         *)
(***************************************************************************)
EXTENDS Integers, Sequences, FiniteSets

CONSTANTS
  Captures,     \* capture processes, one after the other or at the same time
  RegionOrder,  \* provider regions, in the order of the mapping of regions
  FolderOf,     \* _safe_region_path: the folder of a provider region
  NumCycles,    \* --cycles
  MaxAge,       \* cache_max_age
  MaxClock,     \* bound: the last instant
  MaxDamaged,   \* bound: how many files are damaged on disk
  None          \* no file

Regions == {RegionOrder[i] : i \in DOMAIN RegionOrder}
Folders == {FolderOf[r] : r \in Regions}

\* A snapshot file: who saved it, for which region, and captured_at.  Its name
\* holds a uuid and is never used twice.
Entry == [by : Captures, cycle : 1..NumCycles, region : Regions, captured : 1..MaxClock]

ASSUME CacheAssumption ==
  /\ RegionOrder \in Seq(Regions) /\ RegionOrder /= <<>>
  /\ \A i, j \in DOMAIN RegionOrder : RegionOrder[i] = RegionOrder[j] => i = j
  /\ DOMAIN FolderOf = Regions
  /\ NumCycles \in Nat \ {0} /\ MaxClock \in Nat \ {0}
  /\ MaxAge \in Nat /\ MaxDamaged \in Nat
  /\ None \notin Entry

VARIABLES
  clock,
  files,      \* snapshot files on disk
  damaged,    \* those whose bytes no longer match their hash
  latest,     \* what latest.json of each folder names
  listedAt,   \* history: when latest.json came to name a file, 0 if never
  pc,
  now,        \* decision_time of the snapshot being taken
  cycle,
  pos,        \* position in RegionOrder
  held,       \* the file named by the latest.json that load_latest has read
  records     \* region records the capture has collected, over all its cycles

diskVars == <<files, damaged, latest, listedAt>>
vars == <<clock, diskVars, pc, now, cycle, pos, held, records>>

Step == {"idle", "fetch", "list", "load", "done", "failed"}
\* CarbonRegionData; intact (a history) is FALSE if the data was read from a
\* damaged file.
Record == [cycle : 1..NumCycles, at : 1..MaxClock, region : Regions,
           source : {"live", "cache"}, file : Entry, intact : BOOLEAN]

Init ==
  /\ clock = 1
  /\ files = {} /\ damaged = {}
  /\ latest = [d \in Folders |-> None] /\ listedAt = [e \in Entry |-> 0]
  /\ pc = [c \in Captures |-> "idle"] /\ now = [c \in Captures |-> 1]
  /\ cycle = [c \in Captures |-> 0] /\ pos = [c \in Captures |-> 1]
  /\ held = [c \in Captures |-> None] /\ records = [c \in Captures |-> {}]

Tick ==
  /\ clock < MaxClock /\ clock' = clock + 1
  /\ UNCHANGED <<diskVars, pc, now, cycle, pos, held, records>>

Region(c) == RegionOrder[pos[c]]
Saved(c) == [by |-> c, cycle |-> cycle[c], region |-> Region(c), captured |-> now[c]]
Goto(c, step) == pc' = [pc EXCEPT ![c] = step]

\* The capture ends without a trace: its snapshots were in memory only.
Fails(c) ==
  /\ Goto(c, "failed")
  /\ records' = [records EXCEPT ![c] = {}] /\ held' = [held EXCEPT ![c] = None]
  /\ UNCHANGED <<now, cycle, pos>>

\* One more snapshot: decision_time is taken once for all of its regions.
BeginSnapshot(c) ==
  /\ pc[c] = "idle" /\ cycle[c] < NumCycles
  /\ Goto(c, "fetch")
  /\ now' = [now EXCEPT ![c] = clock]
  /\ cycle' = [cycle EXCEPT ![c] = @ + 1] /\ pos' = [pos EXCEPT ![c] = 1]
  /\ UNCHANGED <<clock, diskVars, held, records>>

\* All snapshots are there; the trace is written.
WriteTrace(c) ==
  /\ pc[c] = "idle" /\ cycle[c] = NumCycles
  /\ Goto(c, "done")
  /\ UNCHANGED <<clock, diskVars, now, cycle, pos, held, records>>

\* Mutated form: one region too far.
AdvancePast(c) ==
  /\ held' = [held EXCEPT ![c] = None]
  /\ IF pos[c] <= Len(RegionOrder)
       THEN Goto(c, "fetch") /\ pos' = [pos EXCEPT ![c] = @ + 1]
       ELSE Goto(c, "idle") /\ UNCHANGED pos
  /\ UNCHANGED <<now, cycle>>

\* On to the next region, or the snapshot is complete.
Advance(c) ==
  /\ held' = [held EXCEPT ![c] = None]
  /\ IF pos[c] < Len(RegionOrder)
       THEN Goto(c, "fetch") /\ pos' = [pos EXCEPT ![c] = @ + 1]
       ELSE Goto(c, "idle") /\ UNCHANGED pos
  /\ UNCHANGED <<now, cycle>>

Collect(c, source, file, intact) ==
  records' = [records EXCEPT ![c] = @ \cup
    {[cycle |-> cycle[c], at |-> now[c], region |-> Region(c),
      source |-> source, file |-> file, intact |-> intact]}]

-----------------------------------------------------------------------------
(* save_live                                                               *)

\* Mutated form: the file stays under its temporary name.
LeftTemporary(c) ==
  /\ pc[c] = "fetch"
  /\ Goto(c, "list")
  /\ UNCHANGED <<clock, diskVars, now, cycle, pos, held, records>>

\* Both requests were answered and their points understood; the file appears
\* under its name at once (os.replace).
WriteSnapshot(c) ==
  /\ pc[c] = "fetch"
  /\ files' = files \cup {Saved(c)}
  /\ Goto(c, "list")
  /\ UNCHANGED <<clock, damaged, latest, listedAt, now, cycle, pos, held, records>>

\* Mutated form: an existing latest.json is not replaced.
FirstStays(current, new) == IF current = None THEN new ELSE current

\* latest.json is replaced, whatever it names.
Replaced(current, new) == new

WritePointer(c) ==
  /\ pc[c] = "list"
  /\ latest' = [latest EXCEPT ![FolderOf[Region(c)]] = Replaced(@, Saved(c))]
  /\ listedAt' = [listedAt EXCEPT ![Saved(c)] = clock]
  /\ Collect(c, "live", Saved(c), TRUE)
  /\ Advance(c)
  /\ UNCHANGED <<clock, files, damaged>>

-----------------------------------------------------------------------------
(* load_latest                                                             *)

\* A request failed, so latest.json is read, if there is one.
FetchFails(c) ==
  /\ pc[c] = "fetch"
  /\ LET named == latest[FolderOf[Region(c)]] IN
     \/ named = None /\ Fails(c)
     \/ /\ named /= None
        /\ Goto(c, "load") /\ held' = [held EXCEPT ![c] = named]
        /\ UNCHANGED <<now, cycle, pos, records>>
  /\ UNCHANGED <<clock, diskVars>>

\* Mutated form: no check of the region.
AnyRegion(file, region, at) ==
  file \in files \ damaged /\ file.captured <= at /\ at - file.captured <= MaxAge

\* Readable, intact, of this region, neither from the future nor too old.
Valid(file, region, at) ==
  /\ file \in files \ damaged
  /\ file.region = region
  /\ file.captured <= at /\ at - file.captured <= MaxAge

ServeCached(c) ==
  /\ pc[c] = "load" /\ Valid(held[c], Region(c), now[c])
  /\ Collect(c, "cache", held[c], held[c] \notin damaged)
  /\ Advance(c)
  /\ UNCHANGED <<clock, diskVars>>

\* Mutated form: a region without data is left out of the snapshot.
SkipRegion(c) ==
  /\ pc[c] = "load" /\ ~Valid(held[c], Region(c), now[c])
  /\ Advance(c)
  /\ UNCHANGED <<clock, diskVars, records>>

RefuseCached(c) ==
  /\ pc[c] = "load" /\ ~Valid(held[c], Region(c), now[c])
  /\ Fails(c)
  /\ UNCHANGED <<clock, diskVars>>

-----------------------------------------------------------------------------

\* The process is killed, a write fails, or an answer cannot be represented.
Abort(c) ==
  /\ pc[c] \notin {"done", "failed"}
  /\ Fails(c)
  /\ UNCHANGED <<clock, diskVars>>

\* Outside the program: the content of a file changes.
Damage(file) ==
  /\ Cardinality(damaged) < MaxDamaged
  /\ file \in files /\ damaged' = damaged \cup {file}
  /\ UNCHANGED <<clock, files, latest, listedAt, pc, now, cycle, pos, held, records>>

Finished ==
  /\ \A c \in Captures : pc[c] \in {"done", "failed"}
  /\ UNCHANGED vars

Capture(c) ==
  \/ BeginSnapshot(c) \/ WriteSnapshot(c) \/ WritePointer(c)
  \/ FetchFails(c) \/ ServeCached(c) \/ RefuseCached(c) \/ WriteTrace(c) \/ Abort(c)

Next ==
  \/ \E c \in Captures : Capture(c)
  \/ Tick
  \/ \E file \in files : Damage(file)
  \/ Finished

Spec == Init /\ [][Next]_vars

-----------------------------------------------------------------------------
(* Correctness.                                                            *)

\* The types of the disk and of the captures.
TypeOK ==
  /\ clock \in 1..MaxClock
  /\ files \subseteq Entry /\ damaged \subseteq files
  /\ latest \in [Folders -> Entry \cup {None}]
  /\ listedAt \in [Entry -> 0..MaxClock]
  /\ pc \in [Captures -> Step]
  /\ now \in [Captures -> 1..MaxClock]
  /\ cycle \in [Captures -> 0..NumCycles]
  /\ pos \in [Captures -> DOMAIN RegionOrder]
  /\ held \in [Captures -> Entry \cup {None}]
  /\ records \in [Captures -> SUBSET Record]

\* latest.json of a folder names a complete file of that folder, at whatever
\* point the captures are or were ended (save_live writes the file first).
PointerNamesAFile ==
  \A d \in Folders :
    latest[d] /= None => latest[d] \in files /\ FolderOf[latest[d].region] = d

\* Whatever a capture uses can be traced to an intact file of the same region
\* (README.md:112, "every decision can be traced to the raw API response"): a
\* live record to the file this capture saved for this snapshot, a cached one to
\* a file that is not newer than the snapshot nor older than cache_max_age.
AuditTrail ==
  \A c \in Captures : \A rec \in records[c] :
    /\ rec.file \in files /\ rec.intact
    /\ rec.file.region = rec.region
    /\ IF rec.source = "live"
         THEN rec.file.by = c /\ rec.file.cycle = rec.cycle /\ rec.file.captured = rec.at
         ELSE rec.file.captured <= rec.at /\ rec.at - rec.file.captured <= MaxAge

\* A trace that is written has every region of every snapshot once, one decision
\* time per snapshot, in order: no failed request leaves a gap (capture_trace).
TraceComplete ==
  \A c \in Captures : pc[c] = "done" =>
    /\ \A n \in 1..NumCycles, r \in Regions :
         \E rec \in records[c] : rec.cycle = n /\ rec.region = r
    /\ \A rec, other \in records[c] :
         /\ rec.cycle = other.cycle => rec.at = other.at
         /\ rec.cycle < other.cycle => rec.at <= other.at
         /\ rec.cycle = other.cycle /\ rec.region = other.region => rec = other

\* latest.json passes over newer data only for two reasons: it never came to
\* name the newer file (its capture ended, or is, between the two writes of
\* save_live), or the newer snapshot was begun before the file it names was
\* listed, by a capture that overlapped.
PassedOver(d, file) ==
  /\ file \in files /\ FolderOf[file.region] = d
  /\ latest[d] = None \/ latest[d].captured < file.captured
PointerLagsOnlyByOverlap ==
  \A d \in Folders : \A file \in Entry :
    PassedOver(d, file) /\ listedAt[file] /= 0 =>
      latest[d] /= None /\ file.captured <= listedAt[latest[d]]

\* A file whose save is still going on is not in the cache yet.
BeingSaved(file) == pc[file.by] = "list" /\ Saved(file.by) = file

\* What fetch_region promises of the fallback (carbon_client.py:232, "using the
\* newest valid cache on failure"): if the cache has valid data when it is read,
\* latest.json names the newest.
NewestValidServed ==
  [][\A c \in Captures : FetchFails(c) =>
       \A file \in files :
         Valid(file, Region(c), now[c]) /\ ~BeingSaved(file) =>
           /\ latest[FolderOf[Region(c)]] /= None
           /\ file.captured <= latest[FolderOf[Region(c)]].captured]_vars

=============================================================================
