--------------------------- MODULE RunLedger_proofs ---------------------------
(***************************************************************************)
(* Proofs about RunLedger, for every number of processes that are given    *)
(* the run id, every set of inputs, and every length of the trace: what a  *)
(* crash leaves in the log, who may touch a run that has ended, and what   *)
(* a row of the summary is about.                                          *)
(***************************************************************************)
EXTENDS RunLedger, FiniteSetTheorems, TLAPS

\* The groups of variables an action leaves alone.
USE DEF sourceVars, processVars, runFiles, summaryVars

-----------------------------------------------------------------------------
(* The inductive invariant.                                                *)

Early == {"loading", "hashing", "claiming"}
Preparing == {"naming", "copying", "writing"}
Running == {"cycling", "closing"}
Stage == Early \cup Preparing \cup Running \cup {"ended"}

Content == [Inputs -> Nat \cup {None}]
Piece == [process : Processes, cycle : Nat]

\* The types of the directory and of the processes.
LedgerTypes ==
  /\ source \in [Inputs -> Nat] /\ rewrites \in Nat
  /\ pc \in [Processes -> Stage] /\ pos \in [Processes -> 1..Len(InputOrder)]
  /\ loaded \in [Processes -> Content] /\ hashes \in [Processes -> Content]
  /\ held \in [Processes -> Nat \cup {None}] /\ done \in [Processes -> Nat]
  /\ manifest \in {None} \cup [owner : Processes, hashes : Content]
  /\ copies \in Content
  /\ log \in [lines : Seq(Seq(Piece)), rest : Seq(Piece)]
  /\ reading \in {None} \cup [stage : {"verified", "loaded", "opened"},
                              owner : Processes, records : Seq(Piece)]
  /\ table \in {None, <<>>} \cup {<< row >> : row \in [owner : Processes, records : Seq(Piece)]}
  /\ first \subseteq Processes

\* A process gets past the look for a manifest only if there was none.
WorkersFoundFree == \A p \in Processes : pc[p] \in Preparing \cup Running => p \in first

\* Before its first cycle a process has completed none.
NotStarted == \A p \in Processes : pc[p] \in Early \cup Preparing => done[p] = 0

\* The hashes of the manifest are complete by the time it is written.
HashesFollow ==
  \A p \in Processes :
    /\ pc[p] = "hashing" =>
         \A i \in 1..(pos[p] - 1) : InputOrder[i] \in Hashed => hashes[p][InputOrder[i]] /= None
    /\ pc[p] \in {"claiming", "naming"} => \A f \in Hashed : hashes[p][f] /= None

\* Nothing is written, and nothing summarised, before the id was found free.
NothingWritten ==
  first = {} =>
    log = EmptyLog /\ copies = Unread /\ manifest = None /\ reading = None /\ table = None

\* The log of a process that had the directory for itself: a line for every
\* cycle it completed, and what its end may have left.
SoleLog(p) ==
  /\ log.lines = [c \in 1 .. done[p] |-> << Record(p, c) >>]
  /\ pc[p] \in Early \cup Preparing \cup {"cycling"} => log.rest = <<>>
  /\ pc[p] = "closing" => log.rest = << Record(p, done[p] + 1) >>
  /\ pc[p] = "ended" => log.rest \in {<<>>, << Record(p, done[p] + 1) >>, << TornRecord(p) >>}

\* Its manifest is complete, and no copy is written twice.
SoleFiles(p) ==
  /\ manifest /= None =>
       /\ pc[p] \notin Early \cup {"naming"}
       /\ manifest.owner = p
       /\ \A f \in Hashed : manifest.hashes[f] /= None
  /\ pc[p] = "writing" => copies[File(p)] = None

\* The records of the first cycles of p, without a gap.
FirstCycles(records, p) ==
  /\ records /= <<>>
  /\ records = [c \in 1 .. Len(records) |-> Record(p, c)]

CopiesMatch == manifest /= None /\ \A f \in Hashed : copies[f] = manifest.hashes[f]

\* What a summary has verified stays true, and what it has loaded was true.
SoleSummary(p) ==
  /\ reading /= None \/ table /= None => CopiesMatch
  /\ reading /= None =>
       /\ reading.owner = p
       /\ reading.stage /= "verified" => FirstCycles(reading.records, p)
  /\ table /= None =>
       \A i \in DOMAIN table : table[i].owner = p /\ FirstCycles(table[i].records, p)

SoleRun == \A p \in Processes : first = {p} => SoleLog(p) /\ SoleFiles(p) /\ SoleSummary(p)

ProcessInv == LedgerTypes /\ WorkersFoundFree /\ NotStarted /\ HashesFollow

LedgerInv == ProcessInv /\ NothingWritten /\ SoleRun

-----------------------------------------------------------------------------
(* Types.                                                                  *)

\* The inputs are the entries of their order.
LEMMA InputsByPosition ==
  /\ Len(InputOrder) \in Nat \ {0}
  /\ DOMAIN InputOrder = 1..Len(InputOrder)
  /\ \A i \in 1..Len(InputOrder) : InputOrder[i] \in Inputs
  /\ \A f \in Inputs : \E i \in 1..Len(InputOrder) : InputOrder[i] = f
  /\ Unread \in Content
<1>1. InputOrder \in Seq(InputNames) /\ "trace" \in Inputs
  BY LedgerAssumption
<1>2. Len(InputOrder) \in Nat /\ DOMAIN InputOrder = 1..Len(InputOrder)
  BY <1>1
<1>3. 1..Len(InputOrder) /= {}
  BY <1>1, <1>2 DEF Inputs
<1>. QED BY <1>2, <1>3 DEF Inputs, Unread, Content

\* Going on to the next input stays within them.
LEMMA AdvanceTypes ==
  ASSUME LedgerTypes, NEW p \in Processes, NEW here \in Stage, NEW next \in Stage,
         Advance(p, here, next)
  PROVE  pc' \in [Processes -> Stage] /\ pos' \in [Processes -> 1..Len(InputOrder)]
<1>1. pc \in [Processes -> Stage] /\ pos \in [Processes -> 1..Len(InputOrder)]
  BY DEF LedgerTypes
<1>2. Len(InputOrder) \in Nat \ {0}
  BY InputsByPosition
<1>3. CASE pos[p] < Len(InputOrder)
  <2>1. pos[p] + 1 \in 1..Len(InputOrder)
    BY <1>1, <1>2, <1>3
  <2>. QED BY <1>1, <1>3, <2>1 DEF Advance
<1>4. CASE ~(pos[p] < Len(InputOrder))
  BY <1>1, <1>2, <1>4 DEF Advance
<1>. QED BY <1>3, <1>4

\* A process that is over keeps its types.
LEMMA EndsTypes ==
  ASSUME LedgerTypes, NEW p \in Processes, Ends(p)
  PROVE  /\ pc' \in [Processes -> Stage] /\ pos' \in [Processes -> 1..Len(InputOrder)]
         /\ loaded' \in [Processes -> Content] /\ hashes' \in [Processes -> Content]
         /\ held' \in [Processes -> Nat \cup {None}]
<1>1. Unread \in Content /\ 1 \in 1..Len(InputOrder)
  BY InputsByPosition
<1>2. loaded' \in [Processes -> Content] /\ hashes' \in [Processes -> Content]
  BY <1>1 DEF LedgerTypes, Ends
<1>3. pc' \in [Processes -> Stage] /\ held' \in [Processes -> Nat \cup {None}]
  BY DEF LedgerTypes, Ends, Stage
<1>4. pos' \in [Processes -> 1..Len(InputOrder)]
  BY <1>1 DEF LedgerTypes, Ends
<1>. QED BY <1>2, <1>3, <1>4

\* Reading the inputs keeps the types.
LEMMA ReadTypes ==
  ASSUME LedgerTypes, NEW p \in Processes, Load(p) \/ Hash(p) \/ Claim(p) \/ Copy(p)
  PROVE  LedgerTypes'
<1>1. File(p) \in Inputs /\ source[File(p)] \in Nat
  BY InputsByPosition DEF LedgerTypes, File
<1>2. loaded[p] \in Content /\ hashes[p] \in Content
  BY DEF LedgerTypes
<1>3. CASE Load(p) /\ source[File(p)] /= 0
  <2>1. loaded' = [loaded EXCEPT ![p] = [loaded[p] EXCEPT ![File(p)] = source[File(p)]]]
    BY <1>3 DEF Load
  <2>2. [loaded[p] EXCEPT ![File(p)] = source[File(p)]] \in Content
    BY <1>1, <1>2 DEF Content
  <2>3. loaded' \in [Processes -> Content]
    BY <2>1, <2>2 DEF LedgerTypes
  <2>4. pc' \in [Processes -> Stage] /\ pos' \in [Processes -> 1..Len(InputOrder)]
    BY <1>3, AdvanceTypes DEF Load, Stage, Early
  <2>. QED BY <1>3, <2>3, <2>4 DEF Load, LedgerTypes
<1>4. CASE Hash(p)
  <2>. DEFINE value == IF File(p) \in Hashed THEN source[File(p)] ELSE loaded[p][File(p)]
  <2>1. value \in Nat \cup {None}
    BY <1>1, <1>2 DEF Content
  <2>2. hashes' = [hashes EXCEPT ![p] = [hashes[p] EXCEPT ![File(p)] = value]]
    BY <1>4 DEF Hash
  <2>. HIDE DEF value
  <2>3. [hashes[p] EXCEPT ![File(p)] = value] \in Content
    BY <1>2, <2>1 DEF Content
  <2>4. hashes' \in [Processes -> Content]
    BY <2>2, <2>3 DEF LedgerTypes
  <2>5. pc' \in [Processes -> Stage] /\ pos' \in [Processes -> 1..Len(InputOrder)]
    BY <1>4, AdvanceTypes DEF Hash, Stage, Early
  <2>. QED BY <1>4, <2>4, <2>5 DEF Hash, LedgerTypes
<1>5. CASE Claim(p) /\ Free
  BY <1>5 DEF Claim, LedgerTypes, Stage, Preparing
<1>6. CASE Copy(p) /\ copies[File(p)] = None
  BY <1>1, <1>6 DEF Copy, LedgerTypes, Stage, Preparing
<1>7. CASE Ends(p) /\ (Load(p) \/ Claim(p) \/ Copy(p))
  <2>1. /\ pc' \in [Processes -> Stage] /\ pos' \in [Processes -> 1..Len(InputOrder)]
        /\ loaded' \in [Processes -> Content] /\ hashes' \in [Processes -> Content]
        /\ held' \in [Processes -> Nat \cup {None}]
    BY <1>7, EndsTypes
  <2>2. first' \subseteq Processes
    BY <1>7 DEF Load, Claim, Copy, LedgerTypes
  <2>. QED BY <1>7, <2>1, <2>2 DEF Load, Claim, Copy, LedgerTypes
<1>. QED BY <1>3, <1>4, <1>5, <1>6, <1>7 DEF Load, Claim, Copy

\* Writing to the log extends what follows its last line end.
LEMMA ExtendedLog ==
  ASSUME LedgerTypes, NEW x
  PROVE  Extended(x) = [lines |-> log.lines, rest |-> Append(log.rest, x)]
<1>1. log = [lines |-> log.lines, rest |-> log.rest]
  BY DEF LedgerTypes
<1>2. \A y : [log EXCEPT !.rest = y] = [lines |-> log.lines, rest |-> y]
  BY <1>1
<1>. QED BY <1>2 DEF Extended

\* Writing the run's files keeps them.
LEMMA WriteTypes ==
  ASSUME LedgerTypes, NEW p \in Processes,
         Name(p) \/ Write(p) \/ AppendRecord(p) \/ CloseLine(p) \/ Crash(p)
  PROVE  LedgerTypes'
<1>1. /\ log \in [lines : Seq(Seq(Piece)), rest : Seq(Piece)]
      /\ log.lines \in Seq(Seq(Piece)) /\ log.rest \in Seq(Piece)
  BY DEF LedgerTypes
<1>2. File(p) \in Inputs /\ Unread \in Content
  BY InputsByPosition DEF LedgerTypes, File
<1>3. ASSUME NEW x \in Piece PROVE Extended(x) \in [lines : Seq(Seq(Piece)), rest : Seq(Piece)]
  <2>1. \A s \in Seq(Piece) : Append(s, x) \in Seq(Piece)
    OBVIOUS
  <2>2. Append(log.rest, x) \in Seq(Piece)
    BY <1>1, <2>1
  <2>3. Extended(x) = [lines |-> log.lines, rest |-> Append(log.rest, x)]
    BY ExtendedLog
  <2>. QED BY <1>1, <2>2, <2>3
<1>4. CASE Name(p)
  BY <1>2, <1>4 DEF Name, LedgerTypes, Stage, Preparing
<1>5. CASE Write(p)
  <2>1. copies' \in Content
    BY <1>2, <1>5 DEF Write, LedgerTypes, Content
  <2>2. pc' \in [Processes -> Stage] /\ pos' \in [Processes -> 1..Len(InputOrder)]
    BY <1>5, AdvanceTypes DEF Write, Stage, Preparing, Running
  <2>. QED BY <1>5, <2>1, <2>2 DEF Write, LedgerTypes
<1>6. CASE AppendRecord(p)
  <2>1. Record(p, done[p] + 1) \in Piece
    BY DEF LedgerTypes, Record, Piece
  <2>2. log' \in [lines : Seq(Seq(Piece)), rest : Seq(Piece)]
    BY <1>3, <1>6, <2>1 DEF AppendRecord
  <2>3. pc' \in [Processes -> Stage]
    BY <1>6 DEF AppendRecord, LedgerTypes, Stage, Running
  <2>. QED BY <1>6, <2>2, <2>3 DEF AppendRecord, LedgerTypes
<1>7. CASE CloseLine(p)
  <2>1. Lines \in Seq(Seq(Piece))
    BY <1>1 DEF Lines
  <2>2. done' \in [Processes -> Nat]
    BY <1>7 DEF CloseLine, LedgerTypes
  <2>3. pc' \in [Processes -> Stage]
    BY <1>7 DEF CloseLine, LedgerTypes, Stage, Running
  <2>. QED BY <1>7, <2>1, <2>2, <2>3 DEF CloseLine, LedgerTypes
<1>8. CASE Crash(p)
  <2>1. /\ pc' \in [Processes -> Stage] /\ pos' \in [Processes -> 1..Len(InputOrder)]
        /\ loaded' \in [Processes -> Content] /\ hashes' \in [Processes -> Content]
        /\ held' \in [Processes -> Nat \cup {None}]
    BY <1>8, EndsTypes DEF Crash
  <2>2. TornRecord(p) \in Piece
    BY DEF TornRecord, Piece
  <2>3. copies' \in Content /\ log' \in [lines : Seq(Seq(Piece)), rest : Seq(Piece)]
    BY <1>2, <1>3, <1>8, <2>2 DEF Crash, LedgerTypes, Content
  <2>. QED BY <1>8, <2>1, <2>3 DEF Crash, LedgerTypes
<1>. QED BY <1>4, <1>5, <1>6, <1>7, <1>8

\* So do the summary and the rewriting of the inputs.
LEMMA OtherTypes ==
  ASSUME LedgerTypes, Summary \/ \E f \in Inputs : Truncate(f) \/ Refill(f)
  PROVE  LedgerTypes'
<1>1. ASSUME NEW f \in Inputs, Truncate(f) \/ Refill(f) PROVE LedgerTypes'
  BY <1>1 DEF Truncate, Refill, LedgerTypes
<1>2. CASE Verify
  <2>1. reading' \in [stage : {"verified", "loaded", "opened"}, owner : Processes, records : Seq(Piece)]
    BY <1>2 DEF Verify, LedgerTypes
  <2>. QED BY <1>2, <2>1 DEF Verify, LedgerTypes
<1>3. CASE LoadRecords
  <2>1. Lines \in Seq(Seq(Piece))
    BY DEF Lines, LedgerTypes
  <2>2. Loadable => Records \in Seq(Piece)
    BY <2>1 DEF Loadable, Records, Parses
  <2>. QED BY <1>3, <2>2 DEF LoadRecords, LedgerTypes
<1>4. CASE OpenTable
  BY <1>4 DEF OpenTable, LedgerTypes
<1>5. CASE WriteTable
  BY <1>5 DEF WriteTable, LedgerTypes
<1>. QED BY <1>1, <1>2, <1>3, <1>4, <1>5 DEF Summary

\* Every step keeps the types.
LEMMA TypesPreserved == LedgerTypes /\ [LedgerNext]_ledgerVars => LedgerTypes'
<1>1. LedgerTypes /\ UNCHANGED ledgerVars => LedgerTypes'
  BY DEF ledgerVars, LedgerTypes
<1>. QED BY <1>1, ReadTypes, WriteTypes, OtherTypes DEF LedgerNext, Process

-----------------------------------------------------------------------------
(* One process: what it has to itself, and what it had to pass.            *)

\* A step of one process leaves the others where they are.
LEMMA OthersStay ==
  ASSUME LedgerTypes, NEW p \in Processes, NEW q \in Processes, q /= p,
         Process(p) \/ Crash(p)
  PROVE  /\ pc'[q] = pc[q] /\ pos'[q] = pos[q] /\ done'[q] = done[q]
         /\ loaded'[q] = loaded[q] /\ hashes'[q] = hashes[q]
<1>1. /\ pc \in [Processes -> Stage] /\ pos \in [Processes -> 1..Len(InputOrder)]
      /\ loaded \in [Processes -> Content] /\ hashes \in [Processes -> Content]
      /\ done \in [Processes -> Nat]
  BY DEF LedgerTypes
<1>2. ASSUME Ends(p), done' = done PROVE
        /\ pc'[q] = pc[q] /\ pos'[q] = pos[q] /\ done'[q] = done[q]
        /\ loaded'[q] = loaded[q] /\ hashes'[q] = hashes[q]
  BY <1>1, <1>2 DEF Ends
<1>3. CASE Load(p)
  BY <1>1, <1>2, <1>3 DEF Load, Advance
<1>4. CASE Hash(p)
  BY <1>1, <1>4 DEF Hash, Advance
<1>5. CASE Claim(p)
  BY <1>1, <1>2, <1>5 DEF Claim
<1>6. CASE Name(p)
  BY <1>1, <1>6 DEF Name
<1>7. CASE Copy(p)
  BY <1>1, <1>2, <1>7 DEF Copy
<1>8. CASE Write(p)
  BY <1>1, <1>8 DEF Write, Advance
<1>9. CASE AppendRecord(p)
  BY <1>1, <1>9 DEF AppendRecord
<1>10. CASE CloseLine(p)
  BY <1>1, <1>10 DEF CloseLine
<1>11. CASE Crash(p)
  BY <1>2, <1>11 DEF Crash
<1>. QED BY <1>3, <1>4, <1>5, <1>6, <1>7, <1>8, <1>9, <1>10, <1>11 DEF Process

\* The stages a process goes through.
LEMMA StagesInOrder ==
  ASSUME LedgerTypes, NEW p \in Processes, Process(p) \/ Crash(p)
  PROVE  /\ first \subseteq first'
         /\ pc'[p] \in Preparing \cup Running =>
              pc[p] \in Preparing \cup Running \/ p \in first'
         /\ pc'[p] \in Early \cup Preparing =>
              pc[p] \in Early \cup Preparing /\ done'[p] = done[p]
<1>1. pc \in [Processes -> Stage] /\ done \in [Processes -> Nat]
  BY DEF LedgerTypes
<1>2. Ends(p) => pc'[p] = "ended"
  BY <1>1 DEF Ends
<1>3. CASE Load(p)
  BY <1>1, <1>2, <1>3 DEF Load, Advance, Early, Preparing, Running
<1>4. CASE Hash(p)
  BY <1>1, <1>4 DEF Hash, Advance, Early, Preparing, Running
<1>5. CASE Claim(p)
  BY <1>1, <1>2, <1>5 DEF Claim, Free, Early, Preparing, Running
<1>6. CASE Name(p)
  BY <1>1, <1>6 DEF Name, Early, Preparing, Running
<1>7. CASE Copy(p)
  BY <1>1, <1>2, <1>7 DEF Copy, Early, Preparing, Running
<1>8. CASE Write(p)
  BY <1>1, <1>8 DEF Write, Advance, Early, Preparing, Running
<1>9. CASE AppendRecord(p)
  BY <1>1, <1>9 DEF AppendRecord, Early, Preparing, Running
<1>10. CASE CloseLine(p)
  BY <1>1, <1>10 DEF CloseLine, Early, Preparing, Running
<1>11. CASE Crash(p)
  BY <1>2, <1>11 DEF Crash, Early, Preparing, Running
<1>. QED BY <1>3, <1>4, <1>5, <1>6, <1>7, <1>8, <1>9, <1>10, <1>11 DEF Process

\* A process that hashes goes on with its next input, and claims when it has
\* hashed all of them.
LEMMA HashesPreserved ==
  ASSUME LedgerTypes, HashesFollow, NEW p \in Processes, Process(p) \/ Crash(p)
  PROVE  /\ pc'[p] = "hashing" =>
              \A i \in 1..(pos'[p] - 1) :
                InputOrder[i] \in Hashed => hashes'[p][InputOrder[i]] /= None
         /\ pc'[p] \in {"claiming", "naming"} => \A f \in Hashed : hashes'[p][f] /= None
<1>1. /\ pc \in [Processes -> Stage] /\ pos \in [Processes -> 1..Len(InputOrder)]
      /\ hashes \in [Processes -> Content] /\ source \in [Inputs -> Nat]
  BY DEF LedgerTypes
<1>2. Ends(p) => pc'[p] = "ended"
  BY <1>1 DEF Ends
<1>3. Len(InputOrder) \in Nat /\ pos[p] \in 1..Len(InputOrder) /\ hashes[p] \in Content
  BY <1>1, InputsByPosition
<1>4. CASE Load(p) /\ pc'[p] /= "ended"
  <2>1. pc'[p] = "loading" \/ (pc'[p] = "hashing" /\ pos'[p] = 1)
    BY <1>1, <1>2, <1>4 DEF Load, Advance
  <2>2. \A i \in 1..(1 - 1) : FALSE
    OBVIOUS
  <2>. QED BY <2>1, <2>2
<1>5. CASE Hash(p)
  <2>. DEFINE value == IF File(p) \in Hashed THEN source[File(p)] ELSE loaded[p][File(p)]
  <2>1. File(p) \in Inputs /\ File(p) = InputOrder[pos[p]]
    BY <1>3, InputsByPosition DEF File
  <2>2. File(p) \in Hashed => value /= None
    BY <1>1, <2>1, LedgerAssumption
  <2>3. hashes' = [hashes EXCEPT ![p] = [hashes[p] EXCEPT ![File(p)] = value]]
    BY <1>5 DEF Hash
  <2>. HIDE DEF value
  <2>4. hashes'[p] = [hashes[p] EXCEPT ![File(p)] = value]
    BY <1>1, <2>3
  <2>5. \A f \in Inputs : hashes'[p][f] = IF f = File(p) THEN value ELSE hashes[p][f]
    BY <1>3, <2>4 DEF Content
  <2>6. \A i \in 1..pos[p] : InputOrder[i] \in Hashed => hashes'[p][InputOrder[i]] /= None
    <3>. SUFFICES ASSUME NEW i \in 1..pos[p], InputOrder[i] \in Hashed
                  PROVE  hashes'[p][InputOrder[i]] /= None
      OBVIOUS
    <3>1. InputOrder[i] \in Inputs
      BY <1>3, InputsByPosition
    <3>2. i /= pos[p] => i \in 1..(pos[p] - 1)
      BY <1>3
    <3>3. i /= pos[p] => hashes[p][InputOrder[i]] /= None
      BY <1>5, <3>2 DEF HashesFollow, Hash
    <3>. QED BY <2>1, <2>2, <2>5, <3>1, <3>3
  <2>7. CASE pos[p] < Len(InputOrder)
    <3>1. pc'[p] = "hashing" /\ pos'[p] = pos[p] + 1 /\ pos'[p] - 1 = pos[p]
      BY <1>1, <1>3, <1>5, <2>7 DEF Hash, Advance
    <3>. QED BY <2>6, <3>1
  <2>8. CASE ~(pos[p] < Len(InputOrder))
    <3>1. pc'[p] = "claiming" /\ pos[p] = Len(InputOrder)
      BY <1>1, <1>3, <1>5, <2>8 DEF Hash, Advance
    <3>2. \A f \in Hashed : \E i \in 1..pos[p] : InputOrder[i] = f
      BY <3>1, InputsByPosition DEF Hashed
    <3>. QED BY <2>6, <3>1, <3>2
  <2>. QED BY <2>7, <2>8
<1>6. CASE Claim(p) /\ pc'[p] /= "ended"
  <2>1. pc'[p] = "naming" /\ pc[p] = "claiming" /\ hashes' = hashes
    BY <1>1, <1>2, <1>6 DEF Claim
  <2>. QED BY <2>1 DEF HashesFollow
<1>7. CASE Name(p) \/ Copy(p) \/ Write(p) \/ AppendRecord(p) \/ CloseLine(p) \/ Crash(p)
  <2>1. pc'[p] \notin {"hashing", "claiming", "naming"}
    BY <1>1, <1>2, <1>7 DEF Name, Copy, Write, Advance, AppendRecord, CloseLine, Crash
  <2>. QED BY <2>1
<1>8. CASE pc'[p] = "ended"
  BY <1>8
<1>. QED BY <1>4, <1>5, <1>6, <1>7, <1>8 DEF Process

\* Each process keeps its part of the invariant.
LEMMA ProcessInvPreserved == ProcessInv /\ [LedgerNext]_ledgerVars => ProcessInv'
<1>. SUFFICES ASSUME ProcessInv, [LedgerNext]_ledgerVars PROVE ProcessInv'
  OBVIOUS
<1>1. LedgerTypes /\ WorkersFoundFree /\ NotStarted /\ HashesFollow
  BY DEF ProcessInv
<1>2. LedgerTypes'
  BY <1>1, TypesPreserved
<1>3. ASSUME UNCHANGED <<processVars, first>> PROVE (WorkersFoundFree /\ NotStarted /\ HashesFollow)'
  BY <1>1, <1>3 DEF WorkersFoundFree, NotStarted, HashesFollow
<1>4. ASSUME NEW p \in Processes, Process(p) \/ Crash(p)
      PROVE  (WorkersFoundFree /\ NotStarted /\ HashesFollow)'
  <2>1. ASSUME NEW q \in Processes, q /= p PROVE
          pc'[q] = pc[q] /\ pos'[q] = pos[q] /\ done'[q] = done[q] /\ hashes'[q] = hashes[q]
    BY <1>1, <1>4, <2>1, OthersStay
  <2>2. WorkersFoundFree'
    BY <1>1, <1>4, <2>1, StagesInOrder DEF WorkersFoundFree
  <2>3. NotStarted'
    BY <1>1, <1>4, <2>1, StagesInOrder DEF NotStarted
  <2>4. HashesFollow'
    <3>1. ASSUME NEW q \in Processes, q /= p PROVE
            /\ pc'[q] = "hashing" =>
                 \A i \in 1..(pos'[q] - 1) :
                   InputOrder[i] \in Hashed => hashes'[q][InputOrder[i]] /= None
            /\ pc'[q] \in {"claiming", "naming"} => \A f \in Hashed : hashes'[q][f] /= None
      BY <1>1, <2>1, <3>1 DEF HashesFollow
    <3>2. /\ pc'[p] = "hashing" =>
               \A i \in 1..(pos'[p] - 1) :
                 InputOrder[i] \in Hashed => hashes'[p][InputOrder[i]] /= None
          /\ pc'[p] \in {"claiming", "naming"} => \A f \in Hashed : hashes'[p][f] /= None
      BY <1>1, <1>4, HashesPreserved
    <3>3. Hashed' = Hashed
      BY DEF Hashed
    <3>. QED BY <3>1, <3>2, <3>3 DEF HashesFollow
  <2>. QED BY <2>2, <2>3, <2>4
<1>5. CASE \E f \in Inputs : Truncate(f) \/ Refill(f)
  BY <1>2, <1>3, <1>5 DEF Truncate, Refill, ProcessInv
<1>6. CASE Summary
  BY <1>2, <1>3, <1>6 DEF Summary, Verify, LoadRecords, OpenTable, WriteTable, ProcessInv
<1>7. CASE UNCHANGED ledgerVars
  BY <1>2, <1>3, <1>7 DEF ledgerVars, ProcessInv
<1>. QED BY <1>2, <1>4, <1>5, <1>6, <1>7 DEF LedgerNext, ProcessInv

-----------------------------------------------------------------------------
(* The directory of one process.                                           *)

\* What a process that found the id taken, or has not looked yet, leaves alone.
LEMMA OutsidersOnlyLook ==
  ASSUME ProcessInv, NEW p \in Processes, p \notin first, Process(p) \/ Crash(p)
  PROVE  /\ UNCHANGED <<runFiles, summaryVars>>
         /\ first' = first \/ (manifest = None /\ first' = first \cup {p} /\ Claim(p) /\ Free)
<1>1. pc \in [Processes -> Stage] /\ pc[p] \in Early \cup {"ended"}
  BY DEF ProcessInv, LedgerTypes, WorkersFoundFree, Stage
<1>2. ~(Name(p) \/ Copy(p) \/ Write(p) \/ AppendRecord(p) \/ CloseLine(p))
  BY <1>1 DEF Name, Copy, Write, AppendRecord, CloseLine, Early
<1>3. CASE Load(p)
  BY <1>3 DEF Load
<1>4. CASE Hash(p)
  BY <1>4 DEF Hash
<1>5. CASE Claim(p)
  BY <1>5 DEF Claim, Free
<1>6. CASE Crash(p)
  BY <1>1, <1>6 DEF Crash, Early
<1>. QED BY <1>2, <1>3, <1>4, <1>5, <1>6 DEF Process

\* Nothing is in the directory of an id nobody has found free.
LEMMA NothingWrittenPreserved ==
  ProcessInv /\ NothingWritten /\ [LedgerNext]_ledgerVars => NothingWritten'
<1>. SUFFICES ASSUME ProcessInv, NothingWritten, [LedgerNext]_ledgerVars, first' = {}
              PROVE  /\ log' = EmptyLog /\ copies' = Unread /\ manifest' = None
                     /\ reading' = None /\ table' = None
  BY DEF NothingWritten, EmptyLog, Unread
<1>1. ASSUME NEW p \in Processes, Process(p) \/ Crash(p)
      PROVE  first = {} /\ UNCHANGED <<runFiles, summaryVars>>
  <2>1. first = {}
    BY <1>1, StagesInOrder DEF ProcessInv
  <2>. QED BY <1>1, <2>1, OutsidersOnlyLook
<1>2. CASE \E f \in Inputs : Truncate(f) \/ Refill(f)
  BY <1>2 DEF NothingWritten, Truncate, Refill
<1>3. CASE Summary
  BY <1>3 DEF NothingWritten, Summary, Verify, LoadRecords, OpenTable, WriteTable
<1>4. CASE UNCHANGED ledgerVars
  BY <1>4 DEF NothingWritten, ledgerVars
<1>. QED BY <1>1, <1>2, <1>3, <1>4 DEF LedgerNext, NothingWritten

Sole(p) == SoleLog(p) /\ SoleFiles(p) /\ SoleSummary(p)

\* The invariant of a directory depends on its process and its files only.
LEMMA SoleFrame ==
  ASSUME NEW p \in Processes, Sole(p),
         pc'[p] = pc[p], pos'[p] = pos[p], done'[p] = done[p],
         UNCHANGED <<runFiles, summaryVars>>
  PROVE  Sole(p)'
<1>1. File(p)' = File(p) /\ Hashed' = Hashed
  BY DEF File, Hashed
<1>2. SoleLog(p)'
  BY DEF Sole, SoleLog, Record, TornRecord
<1>3. SoleFiles(p)'
  BY <1>1 DEF Sole, SoleFiles
<1>4. CopiesMatch' <=> CopiesMatch
  BY <1>1 DEF CopiesMatch
<1>5. SoleSummary(p)'
  BY <1>4 DEF Sole, SoleSummary, FirstCycles, Record
<1>. QED BY <1>2, <1>3, <1>5 DEF Sole

\* A process that finds the id free has an empty directory before it.
LEMMA SoleFromNothing ==
  ASSUME ProcessInv, NothingWritten, first = {}, NEW p \in Processes, Claim(p), Free
  PROVE  Sole(p)'
<1>1. /\ log' = EmptyLog /\ copies' = Unread /\ manifest' = None
      /\ reading' = None /\ table' = None
  BY DEF NothingWritten, Claim
<1>2. pc'[p] = "naming" /\ done'[p] = 0
  BY DEF ProcessInv, LedgerTypes, NotStarted, Early, Claim
<1>3. SoleLog(p)'
  BY <1>1, <1>2 DEF SoleLog, EmptyLog, Early, Preparing
<1>4. SoleFiles(p)'
  BY <1>1, <1>2 DEF SoleFiles
<1>5. SoleSummary(p)'
  BY <1>1 DEF SoleSummary
<1>. QED BY <1>3, <1>4, <1>5 DEF Sole

\* The copies a summary could have compared are not written again.
LEMMA CopyWrittenOnce ==
  ASSUME ProcessInv, NEW p \in Processes, Sole(p), pc[p] = "writing", NEW content,
         copies' = [copies EXCEPT ![File(p)] = content], manifest' = manifest
  PROVE  CopiesMatch => CopiesMatch'
<1>1. File(p) \in Inputs /\ copies \in Content
  BY InputsByPosition DEF ProcessInv, LedgerTypes, File
<1>2. copies[File(p)] = None
  BY DEF Sole, SoleFiles
<1>3. Hashed' = Hashed /\ Hashed \subseteq Inputs
  BY DEF Hashed
<1>. SUFFICES ASSUME CopiesMatch, NEW f \in Hashed PROVE copies'[f] = copies[f]
  BY <1>3 DEF CopiesMatch
<1>4. f /= File(p)
  BY <1>2 DEF Sole, SoleFiles, CopiesMatch
<1>. QED BY <1>1, <1>3, <1>4 DEF Content

\* A process keeps its directory: what it does before its first cycle.
LEMMA SoleReads ==
  ASSUME ProcessInv, NEW p \in Processes, p \in first, Sole(p),
         Load(p) \/ Hash(p) \/ Claim(p) \/ Copy(p)
  PROVE  Sole(p)'
<1>1. /\ pc \in [Processes -> Stage] /\ pos \in [Processes -> 1..Len(InputOrder)]
      /\ done \in [Processes -> Nat]
  BY DEF ProcessInv, LedgerTypes
<1>2. Ends(p) => pc'[p] = "ended"
  BY <1>1 DEF Ends
<1>3. pc[p] \in Early \cup Preparing /\ done' = done /\ UNCHANGED <<runFiles, summaryVars>>
  BY DEF Load, Hash, Claim, Copy, Early, Preparing
<1>4. pc'[p] \in Early \cup {"naming", "writing", "ended"}
  BY <1>1, <1>2 DEF Load, Hash, Claim, Copy, Advance, Early
<1>5. pc'[p] \in Early \cup {"naming"} => pc[p] \in Early
  BY <1>1, <1>2 DEF Load, Hash, Claim, Copy, Early
<1>6. pc'[p] = "writing" => copies[File(p)] = None /\ pos' = pos
  BY <1>1, <1>2 DEF Load, Hash, Claim, Copy, Advance
<1>7. SoleLog(p)'
  BY <1>3, <1>4 DEF Sole, SoleLog, Early, Preparing, Record, TornRecord
<1>8. Hashed' = Hashed
  BY DEF Hashed
<1>9. SoleFiles(p)'
  BY <1>3, <1>4, <1>5, <1>6, <1>8 DEF Sole, SoleFiles, File
<1>10. CopiesMatch' <=> CopiesMatch
  BY <1>3, <1>8 DEF CopiesMatch
<1>11. SoleSummary(p)'
  BY <1>3, <1>10 DEF Sole, SoleSummary, FirstCycles, Record
<1>. QED BY <1>7, <1>9, <1>11 DEF Sole

\* Its manifest and its copies.
LEMMA SoleWrites ==
  ASSUME ProcessInv, NEW p \in Processes, p \in first, Sole(p), Name(p) \/ Write(p)
  PROVE  Sole(p)'
<1>1. /\ pc \in [Processes -> Stage] /\ pos \in [Processes -> 1..Len(InputOrder)]
      /\ done \in [Processes -> Nat]
  BY DEF ProcessInv, LedgerTypes
<1>2. done' = done /\ log' = log /\ UNCHANGED summaryVars
  BY DEF Name, Write
<1>3. pc[p] \in Preparing /\ pc'[p] \in {"copying", "cycling"}
  BY <1>1 DEF Name, Write, Advance, Preparing
<1>4. SoleLog(p)'
  BY <1>2, <1>3 DEF Sole, SoleLog, Record, TornRecord, Preparing
<1>5. Hashed' = Hashed
  BY DEF Hashed
<1>6. CASE Name(p)
  <2>1. manifest' = [owner |-> p, hashes |-> hashes[p]] /\ \A f \in Hashed : hashes[p][f] /= None
    BY <1>6 DEF Name, ProcessInv, HashesFollow
  <2>2. SoleFiles(p)'
    BY <1>3, <1>5, <2>1 DEF SoleFiles, Early
  <2>3. manifest = None
    BY <1>6 DEF Name, Sole, SoleFiles
  <2>4. reading = None /\ table = None
    BY <2>3 DEF Sole, SoleSummary, CopiesMatch
  <2>. QED BY <1>2, <1>4, <2>2, <2>4 DEF Sole, SoleSummary
<1>7. CASE Write(p)
  <2>1. SoleFiles(p)'
    BY <1>3, <1>5, <1>7 DEF Sole, SoleFiles, Write, Early
  <2>2. CopiesMatch => CopiesMatch'
    BY <1>7, CopyWrittenOnce DEF Write
  <2>3. SoleSummary(p)'
    BY <1>2, <2>2 DEF Sole, SoleSummary, FirstCycles, Record
  <2>. QED BY <1>4, <2>1, <2>3 DEF Sole
<1>. QED BY <1>6, <1>7

\* Its cycles: the record of the next one, then the line's end.
LEMMA SoleAppends ==
  ASSUME ProcessInv, NEW p \in Processes, p \in first, Sole(p), AppendRecord(p) \/ CloseLine(p)
  PROVE  Sole(p)'
<1>1. /\ pc \in [Processes -> Stage] /\ done \in [Processes -> Nat] /\ done[p] \in Nat
      /\ LedgerTypes
  BY DEF ProcessInv, LedgerTypes
<1>2. UNCHANGED <<manifest, copies, summaryVars, pos>>
  BY DEF AppendRecord, CloseLine
<1>3. Hashed' = Hashed /\ (CopiesMatch' <=> CopiesMatch)
  BY <1>2 DEF Hashed, CopiesMatch
<1>4. pc[p] \in Running /\ pc'[p] \in Running \cup {"ended"}
  BY <1>1 DEF AppendRecord, CloseLine, Running
<1>5. SoleFiles(p)'
  BY <1>2, <1>3, <1>4 DEF Sole, SoleFiles, Running, Early
<1>6. SoleSummary(p)'
  BY <1>2, <1>3 DEF Sole, SoleSummary, FirstCycles, Record
<1>7. CASE AppendRecord(p)
  <2>1. pc[p] = "cycling" /\ pc'[p] = "closing" /\ done' = done
    BY <1>1, <1>7 DEF AppendRecord
  <2>2. log.lines = [c \in 1 .. done[p] |-> << Record(p, c) >>] /\ log.rest = <<>>
    BY <2>1 DEF Sole, SoleLog
  <2>3. log'.lines = log.lines /\ log'.rest = << Record(p, done[p] + 1) >>
    BY <1>1, <1>7, <2>2, ExtendedLog DEF AppendRecord
  <2>4. SoleLog(p)'
    BY <2>1, <2>2, <2>3 DEF SoleLog, Record, Early, Preparing
  <2>. QED BY <1>5, <1>6, <2>4 DEF Sole
<1>8. CASE CloseLine(p)
  <2>1. pc[p] = "closing" /\ done'[p] = done[p] + 1 /\ pc'[p] \in {"ended", "cycling"}
    BY <1>1, <1>8 DEF CloseLine
  <2>2. /\ log.lines = [c \in 1 .. done[p] |-> << Record(p, c) >>]
        /\ log.rest = << Record(p, done[p] + 1) >>
    BY <2>1 DEF Sole, SoleLog
  <2>3. Lines = [c \in 1 .. done[p] + 1 |-> << Record(p, c) >>]
    <3>. DEFINE line(c) == << Record(p, c) >>
    <3>1. Append([c \in 1 .. done[p] |-> line(c)], line(done[p] + 1))
            = [c \in 1 .. done[p] + 1 |-> line(c)]
      <4>. HIDE DEF line
      <4>. QED BY <1>1
    <3>2. Lines = Append(log.lines, log.rest)
      BY <2>2 DEF Lines
    <3>. QED BY <2>2, <3>1, <3>2
  <2>4. log'.lines = Lines /\ log'.rest = <<>>
    BY <1>8 DEF CloseLine
  <2>5. SoleLog(p)'
    BY <2>1, <2>3, <2>4 DEF SoleLog, Record
  <2>. QED BY <1>5, <1>6, <2>5 DEF Sole
<1>. QED BY <1>7, <1>8

\* Its end leaves at most the beginning of what it was writing.
LEMMA SoleCrashes ==
  ASSUME ProcessInv, NEW p \in Processes, p \in first, Sole(p), Crash(p)
  PROVE  Sole(p)'
<1>1. /\ pc \in [Processes -> Stage] /\ LedgerTypes
  BY DEF ProcessInv, LedgerTypes
<1>2. pc'[p] = "ended" /\ done' = done /\ UNCHANGED <<manifest, summaryVars>>
  BY <1>1 DEF Crash, Ends
<1>3. SoleLog(p)'
  <2>1. log.lines = [c \in 1 .. done[p] |-> << Record(p, c) >>]
    BY DEF Sole, SoleLog
  <2>2. pc[p] = "cycling" => log.rest = <<>>
    BY DEF Sole, SoleLog
  <2>3. log.rest \in {<<>>, << Record(p, done[p] + 1) >>}
    BY <1>1 DEF Sole, SoleLog, Stage, Early, Preparing, Running, Crash
  <2>4. log' = log \/ (log'.lines = log.lines /\ log'.rest = << TornRecord(p) >>)
    BY <1>1, <2>2, ExtendedLog DEF Crash
  <2>. QED BY <1>2, <2>1, <2>3, <2>4 DEF SoleLog, Record, TornRecord, Early, Preparing
<1>4. Hashed' = Hashed
  BY DEF Hashed
<1>5. SoleFiles(p)'
  BY <1>2, <1>4 DEF Sole, SoleFiles, Early
<1>6. CopiesMatch => CopiesMatch'
  BY <1>2, <1>4, CopyWrittenOnce DEF Crash, CopiesMatch
<1>7. SoleSummary(p)'
  BY <1>2, <1>6 DEF Sole, SoleSummary, FirstCycles, Record
<1>. QED BY <1>3, <1>5, <1>7 DEF Sole

\* A log that can be loaded holds the first cycles: what a crash tore is refused.
LEMMA LoadedFirstCycles ==
  ASSUME LedgerTypes, NEW p \in Processes, SoleLog(p), Loadable
  PROVE  FirstCycles(Records, p)
<1>1. done[p] \in Nat /\ pc[p] \in Stage
  BY DEF LedgerTypes
<1>2. /\ log.lines = [c \in 1 .. done[p] |-> << Record(p, c) >>]
      /\ log.rest \in {<<>>, << Record(p, done[p] + 1) >>, << TornRecord(p) >>}
  BY <1>1 DEF SoleLog, Stage, Running
<1>3. PICK n \in Nat : Lines = [c \in 1 .. n |-> << Record(p, c) >>]
  <2>1. CASE log.rest = <<>>
    BY <1>1, <1>2, <2>1 DEF Lines
  <2>2. CASE log.rest = << Record(p, done[p] + 1) >>
    <3>. DEFINE line(c) == << Record(p, c) >>
    <3>1. Append([c \in 1 .. done[p] |-> line(c)], line(done[p] + 1))
            = [c \in 1 .. done[p] + 1 |-> line(c)]
      <4>. HIDE DEF line
      <4>. QED BY <1>1
    <3>2. Lines = Append(log.lines, log.rest)
      BY <2>2 DEF Lines
    <3>3. Lines = [c \in 1 .. done[p] + 1 |-> << Record(p, c) >>]
      BY <1>2, <2>2, <3>1, <3>2
    <3>. QED BY <1>1, <3>3
  <2>3. CASE log.rest = << TornRecord(p) >>
    <3>1. Lines = Append(log.lines, log.rest)
      BY <2>3 DEF Lines
    <3>2. Lines[done[p] + 1] = << TornRecord(p) >> /\ done[p] + 1 \in DOMAIN Lines
      BY <1>1, <1>2, <2>3, <3>1
    <3>3. ~Parses(<< TornRecord(p) >>)
      BY DEF Parses, TornRecord
    <3>. QED BY <3>2, <3>3 DEF Loadable
  <2>. QED BY <1>2, <2>1, <2>2, <2>3
<1>4. DOMAIN Lines = 1 .. n /\ n /= 0
  BY <1>3 DEF Loadable
<1>5. Records = [c \in 1 .. n |-> Record(p, c)]
  <2>1. \A c \in 1 .. n : Lines[c][1] = Record(p, c)
    BY <1>3
  <2>. QED BY <1>4, <2>1 DEF Records
<1>6. Len(Records) = n /\ Records /= <<>>
  BY <1>4, <1>5
<1>. QED BY <1>5, <1>6 DEF FirstCycles

\* A summary takes in what the directory holds.
LEMMA SoleSummaries ==
  ASSUME ProcessInv, NEW p \in Processes, Sole(p), Summary
  PROVE  Sole(p)'
<1>1. UNCHANGED <<processVars, runFiles>>
  BY DEF Summary, Verify, LoadRecords, OpenTable, WriteTable
<1>2. File(p)' = File(p) /\ Hashed' = Hashed
  BY <1>1 DEF File, Hashed
<1>3. SoleLog(p)'
  BY <1>1 DEF Sole, SoleLog, Record, TornRecord
<1>4. SoleFiles(p)'
  BY <1>1, <1>2 DEF Sole, SoleFiles
<1>5. CopiesMatch' <=> CopiesMatch
  BY <1>1, <1>2 DEF CopiesMatch
<1>6. SoleSummary(p)'
  <2>1. CASE Verify
    <3>1. CopiesMatch /\ manifest.owner = p
      BY <2>1 DEF Verify, InputsVerified, CopiesMatch, Sole, SoleFiles
    <3>. QED BY <1>5, <2>1, <3>1 DEF Verify, Sole, SoleSummary, FirstCycles, Record
  <2>2. CASE LoadRecords
    <3>1. Loadable => FirstCycles(Records, p)
      BY LoadedFirstCycles DEF ProcessInv, Sole
    <3>2. reading \in [stage : {"verified", "loaded", "opened"}, owner : Processes,
                       records : Seq(Piece)]
      BY <2>2 DEF LoadRecords, ProcessInv, LedgerTypes
    <3>3. reading' = None \/
            (/\ reading'.owner = reading.owner /\ reading'.records = Records
             /\ Loadable)
      BY <2>2, <3>2 DEF LoadRecords
    <3>. QED BY <1>5, <2>2, <3>1, <3>3 DEF LoadRecords, Sole, SoleSummary, FirstCycles, Record
  <2>3. CASE OpenTable
    <3>1. reading \in [stage : {"verified", "loaded", "opened"}, owner : Processes,
                       records : Seq(Piece)]
      BY <2>3 DEF OpenTable, ProcessInv, LedgerTypes
    <3>2. reading' = None \/
            (reading'.owner = reading.owner /\ reading'.records = reading.records)
      BY <2>3, <3>1 DEF OpenTable
    <3>. QED BY <1>5, <2>3, <3>2 DEF OpenTable, Sole, SoleSummary, FirstCycles, Record
  <2>4. CASE WriteTable
    BY <1>5, <2>4 DEF WriteTable, Sole, SoleSummary, FirstCycles, Record
  <2>. QED BY <2>1, <2>2, <2>3, <2>4 DEF Summary
<1>. QED BY <1>3, <1>4, <1>6 DEF Sole

\* The invariant is inductive.
LEMMA SoleRunPreserved == LedgerInv /\ [LedgerNext]_ledgerVars => SoleRun'
<1>. SUFFICES ASSUME LedgerInv, [LedgerNext]_ledgerVars, NEW p \in Processes, first' = {p}
              PROVE  Sole(p)'
  BY DEF SoleRun, Sole
<1>1. ProcessInv /\ LedgerTypes /\ NothingWritten /\ (first = {p} => Sole(p))
  BY DEF LedgerInv, ProcessInv, SoleRun, Sole
<1>2. ASSUME NEW q \in Processes, Process(q) \/ Crash(q) PROVE Sole(p)'
  <2>1. first \subseteq {p}
    BY <1>1, <1>2, StagesInOrder
  <2>2. CASE q \notin first
    <3>1. /\ UNCHANGED <<runFiles, summaryVars>>
          /\ first' = first \/ (manifest = None /\ first' = first \cup {q} /\ Claim(q) /\ Free)
      BY <1>1, <1>2, <2>2, OutsidersOnlyLook
    <3>2. CASE first = {p}
      <4>1. q /= p
        BY <2>2, <3>2
      <4>. QED BY <1>1, <1>2, <3>1, <3>2, <4>1, OthersStay, SoleFrame
    <3>3. CASE first = {}
      BY <1>1, <3>1, <3>3, SoleFromNothing
    <3>. QED BY <2>1, <3>2, <3>3
  <2>3. CASE q \in first
    <3>1. q = p /\ first = {p}
      BY <2>1, <2>3
    <3>. QED BY <1>1, <1>2, <3>1, SoleReads, SoleWrites, SoleAppends, SoleCrashes DEF Process
  <2>. QED BY <2>2, <2>3
<1>3. CASE \E f \in Inputs : Truncate(f) \/ Refill(f)
  <2>1. UNCHANGED <<processVars, runFiles, summaryVars, first>>
    BY <1>3 DEF Truncate, Refill
  <2>. QED BY <1>1, <2>1, SoleFrame
<1>4. CASE Summary
  <2>1. first' = first
    BY <1>4 DEF Summary, Verify, LoadRecords, OpenTable, WriteTable
  <2>. QED BY <1>1, <1>4, <2>1, SoleSummaries
<1>5. CASE UNCHANGED ledgerVars
  <2>1. UNCHANGED <<processVars, runFiles, summaryVars, first>>
    BY <1>5 DEF ledgerVars
  <2>. QED BY <1>1, <2>1, SoleFrame
<1>. QED BY <1>2, <1>3, <1>4, <1>5 DEF LedgerNext

LEMMA LedgerInvInit == LedgerInit => LedgerInv
<1>. SUFFICES ASSUME LedgerInit PROVE LedgerInv
  OBVIOUS
<1>1. LedgerTypes
  <2>1. Unread \in Content /\ 1 \in 1..Len(InputOrder)
    BY InputsByPosition
  <2>2. source \in [Inputs -> Nat] /\ done \in [Processes -> Nat]
    BY DEF LedgerInit
  <2>3. EmptyLog \in [lines : Seq(Seq(Piece)), rest : Seq(Piece)]
    BY DEF EmptyLog
  <2>. QED BY <2>1, <2>2, <2>3 DEF LedgerInit, LedgerTypes, Stage, Early
<1>2. WorkersFoundFree /\ NotStarted /\ HashesFollow
  BY DEF LedgerInit, WorkersFoundFree, NotStarted, HashesFollow, Preparing, Running
<1>3. NothingWritten /\ SoleRun
  BY DEF LedgerInit, NothingWritten, SoleRun
<1>. QED BY <1>1, <1>2, <1>3 DEF LedgerInv, ProcessInv

LEMMA LedgerInvInvariant == LedgerSpec => []LedgerInv
<1>1. LedgerInv /\ [LedgerNext]_ledgerVars => LedgerInv'
  BY ProcessInvPreserved, NothingWrittenPreserved, SoleRunPreserved DEF LedgerInv
<1>. QED BY LedgerInvInit, <1>1, PTL DEF LedgerSpec

-----------------------------------------------------------------------------
(* The theorems.                                                           *)

\* A crash costs a run at most its open cycle: every cycle whose append has
\* returned stays in the log as a whole line, in order and before anything torn,
\* whatever the length of the trace and whoever else was started under the id
\* (results.py:55-60).
THEOREM CrashCostsOneCycle == LedgerSpec => []AppendedStays
<1>1. LedgerInv => AppendedStays
  <2>. SUFFICES ASSUME LedgerInv, NEW p \in Processes, first = {p}
                PROVE  /\ Len(Lines) \in done[p] .. done[p] + 1
                       /\ \A c \in 1 .. done[p] : Lines[c] = << Record(p, c) >>
    BY DEF AppendedStays
  <2>1. done[p] \in Nat /\ log.lines = [c \in 1 .. done[p] |-> << Record(p, c) >>]
    BY DEF LedgerInv, ProcessInv, LedgerTypes, SoleRun, SoleLog
  <2>2. Len(log.lines) = done[p] /\ log.lines \in Seq({<< Record(p, c) >> : c \in Nat})
    BY <2>1
  <2>3. CASE Lines = log.lines
    BY <2>1, <2>2, <2>3
  <2>4. CASE Lines = Append(log.lines, log.rest)
    BY <2>1, <2>2, <2>4
  <2>. QED BY <2>3, <2>4 DEF Lines
<1>. QED BY <1>1, LedgerInvInvariant, PTL

\* A row of the table is about the first cycles, without a gap, of the one
\* process its manifest describes, and the inputs beside it are the ones these
\* were decided on, unless two processes looked for the manifest before either
\* had written it (results.py:170-181, 262-279; run_experiment.py:301-312).
THEOREM SummaryOfOneRun == LedgerSpec => []RowsAudited
<1>1. LedgerInv => RowsAudited
  <2>. SUFFICES ASSUME LedgerInv, table /= None, ~Raced, NEW i \in DOMAIN table
                PROVE  LET row == table[i]
                       IN  /\ row.records = [c \in 1 .. Len(row.records) |-> Record(row.owner, c)]
                           /\ row.records /= <<>>
                           /\ DecidedOnCopies(row)
    BY DEF RowsAudited
  <2>1. IsFiniteSet(first) /\ first \subseteq Processes
    BY LedgerAssumption, FS_Subset DEF LedgerInv, ProcessInv, LedgerTypes
  <2>2. first /= {}
    BY DEF LedgerInv, NothingWritten
  <2>3. PICK p \in Processes : first = {p}
    <3>1. Cardinality(first) \in Nat /\ Cardinality(first) /= 0 /\ ~(Cardinality(first) > 1)
      BY <2>1, <2>2, FS_CardinalityType, FS_EmptySet DEF Raced
    <3>2. Cardinality(first) = 1
      BY <3>1
    <3>. QED BY <2>1, <3>2, FS_Singleton
  <2>4. SoleSummary(p)
    BY <2>3 DEF LedgerInv, SoleRun
  <2>5. table[i].owner = p /\ FirstCycles(table[i].records, p) /\ CopiesMatch
    BY <2>4 DEF SoleSummary
  <2>. QED BY <2>5 DEF FirstCycles, CopiesMatch, DecidedOnCopies
<1>. QED BY <1>1, LedgerInvInvariant, PTL

\* Once the processes that found the id free have ended, whether their run was
\* finished or cut short, no file of it changes any more, whoever is started under
\* the same id and however many do (results.py:38-39, 71-80).
THEOREM FinishedRunsStay == LedgerSpec => EarlierRunUntouched
<1>1. LedgerInv /\ [LedgerNext]_ledgerVars =>
        [manifest /= None /\ (\A p \in first : pc[p] = "ended") => UNCHANGED runFiles]_ledgerVars
  <2>. SUFFICES ASSUME LedgerInv, LedgerNext, manifest /= None,
                       \A p \in first : pc[p] = "ended"
                PROVE  UNCHANGED runFiles
    BY DEF ledgerVars
  <2>1. ASSUME NEW p \in Processes, Process(p) \/ Crash(p) PROVE UNCHANGED runFiles
    <3>1. CASE p \in first
      <4>1. pc[p] = "ended"
        BY <3>1
      <4>. QED BY <2>1, <4>1 DEF Process, Load, Hash, Claim, Name, Copy, Write, AppendRecord,
                                 CloseLine, Crash
    <3>2. CASE p \notin first
      BY <2>1, <3>2, OutsidersOnlyLook DEF LedgerInv
    <3>. QED BY <3>1, <3>2
  <2>2. ASSUME NEW f \in Inputs, Truncate(f) \/ Refill(f) PROVE UNCHANGED runFiles
    BY <2>2 DEF Truncate, Refill
  <2>3. CASE Summary
    BY <2>3 DEF Summary, Verify, LoadRecords, OpenTable, WriteTable
  <2>. QED BY <2>1, <2>2, <2>3 DEF LedgerNext
<1>. QED BY <1>1, LedgerInvInvariant, PTL DEF LedgerSpec, EarlierRunUntouched

=============================================================================
