----------------------------- MODULE RunLedger -----------------------------
(***************************************************************************)
(* The directory of one run: its manifest, the copies of its inputs and    *)
(* its cycle log, as processes started under the same run id write them,   *)
(* while the inputs are rewritten at their source, any process may end,    *)
(* and summarize_results turns the directory into a table.                 *)
(*                                                                         *)
(* A file's content is the number of its version, 0 the empty file an      *)
(* interrupted write leaves.  The log is kept as its reader splits it: the *)
(* lines that have their end, blank ones left out, and what follows the    *)
(* last line end; a line is the sequence of what was written to it,        *)
(* records and torn records.                                               *)
(***************************************************************************)
EXTENDS Naturals, Sequences, FiniteSets

CONSTANTS
  None,
  Processes,    \* run_experiment processes given this run id
  InputOrder,   \* the inputs, in the order they are copied
  NumCycles,    \* bound: snapshots of the trace
  MaxRewrites   \* bound: inputs rewritten while processes run

InputNames == {"config", "catalog", "graph", "target", "trace"}
Inputs == {InputOrder[i] : i \in DOMAIN InputOrder}

ASSUME LedgerAssumption ==
  /\ IsFiniteSet(Processes) /\ None \notin Nat
  /\ InputOrder \in Seq(InputNames) /\ "trace" \in Inputs
  /\ NumCycles \in Nat \ {0} /\ MaxRewrites \in Nat

\* The graph's hash is of the parsed graph; no summary compares its copy.
Hashed == Inputs \ {"graph"}

VARIABLES
  source, rewrites,                    \* the original inputs
  pc, pos, loaded, hashes, held, done, \* the processes; held: bytes to be copied
  manifest, copies, log,               \* the run directory
  reading, table,                      \* summarize_results and its table
  first  \* history: the processes that looked for a manifest when there was none

sourceVars == <<source, rewrites>>
processVars == <<pc, pos, loaded, hashes, held, done>>
runFiles == <<manifest, copies, log>>
summaryVars == <<reading, table>>
ledgerVars == <<sourceVars, processVars, runFiles, summaryVars, first>>

Unread == [f \in Inputs |-> None]
EmptyLog == [lines |-> <<>>, rest |-> <<>>]

LedgerInit ==
  /\ source = [f \in Inputs |-> 1] /\ rewrites = 0
  /\ pc = [p \in Processes |-> "loading"] /\ pos = [p \in Processes |-> 1]
  /\ loaded = [p \in Processes |-> Unread] /\ hashes = [p \in Processes |-> Unread]
  /\ held = [p \in Processes |-> None] /\ done = [p \in Processes |-> 0]
  /\ manifest = None /\ copies = Unread /\ log = EmptyLog
  /\ reading = None /\ table = None
  /\ first = {}

-----------------------------------------------------------------------------
(* The inputs at their source.                                             *)

\* write_text of a capture, or an editor: the file is empty, then new.
Truncate(f) ==
  /\ rewrites < MaxRewrites /\ source[f] /= 0
  /\ source' = [source EXCEPT ![f] = 0]
  /\ UNCHANGED <<rewrites, processVars, runFiles, summaryVars, first>>

Refill(f) ==
  /\ source[f] = 0
  /\ rewrites' = rewrites + 1
  /\ source' = [source EXCEPT ![f] = 2 + rewrites]
  /\ UNCHANGED <<processVars, runFiles, summaryVars, first>>

-----------------------------------------------------------------------------
(* run_from_options, one process.                                          *)

File(p) == InputOrder[pos[p]]

\* On to the next input, or to the first of the next phase.
Advance(p, here, next) ==
  IF pos[p] < Len(InputOrder)
    THEN pc' = [pc EXCEPT ![p] = here] /\ pos' = [pos EXCEPT ![p] = @ + 1]
    ELSE pc' = [pc EXCEPT ![p] = next] /\ pos' = [pos EXCEPT ![p] = 1]

\* A process is over: what it had read matters only if it may have left records.
Ends(p) ==
  /\ pc' = [pc EXCEPT ![p] = "ended"]
  /\ pos' = [pos EXCEPT ![p] = 1]
  /\ loaded' = IF p \in first THEN loaded ELSE [loaded EXCEPT ![p] = Unread]
  /\ hashes' = [hashes EXCEPT ![p] = Unread]
  /\ held' = [held EXCEPT ![p] = None]

\* Parsing refuses an empty file.
Load(p) ==
  /\ pc[p] = "loading"
  /\ IF source[File(p)] = 0
       THEN Ends(p)
       ELSE /\ loaded' = [loaded EXCEPT ![p][File(p)] = source[File(p)]]
            /\ Advance(p, "loading", "hashing") /\ UNCHANGED <<hashes, held>>
  /\ UNCHANGED <<sourceVars, done, runFiles, summaryVars, first>>

\* The second read of a file is for its hash; graph.digest() needs none.
Hash(p) ==
  /\ pc[p] = "hashing"
  /\ hashes' = [hashes EXCEPT ![p][File(p)] =
       IF File(p) \in Hashed THEN source[File(p)] ELSE loaded[p][File(p)]]
  /\ Advance(p, "hashing", "claiming")
  /\ UNCHANGED <<sourceVars, loaded, held, done, runFiles, summaryVars, first>>

\* Mutated form: an id that is taken is not looked for.
AlwaysFree == TRUE

Free == manifest = None

\* RunArtifactWriter looks for a manifest, as _write_json does again.
Claim(p) ==
  /\ pc[p] = "claiming"
  /\ IF Free
       THEN pc' = [pc EXCEPT ![p] = "naming"] /\ UNCHANGED <<pos, loaded, hashes, held>>
       ELSE Ends(p)
  /\ first' = IF manifest = None THEN first \cup {p} ELSE first
  /\ UNCHANGED <<sourceVars, done, runFiles, summaryVars>>

\* Path.replace: whatever was there meanwhile is replaced as a whole.
Name(p) ==
  /\ pc[p] = "naming"
  /\ manifest' = [owner |-> p, hashes |-> hashes[p]]
  /\ hashes' = [hashes EXCEPT ![p] = Unread]
  /\ pc' = [pc EXCEPT ![p] = "copying"]
  /\ UNCHANGED <<sourceVars, pos, loaded, held, done, copies, log, summaryVars, first>>

\* The third read, and write_bytes' look at its destination.
Copy(p) ==
  /\ pc[p] = "copying"
  /\ IF copies[File(p)] /= None
       THEN Ends(p)
       ELSE /\ held' = [held EXCEPT ![p] = source[File(p)]]
            /\ pc' = [pc EXCEPT ![p] = "writing"] /\ UNCHANGED <<pos, loaded, hashes>>
  /\ UNCHANGED <<sourceVars, done, runFiles, summaryVars, first>>

Write(p) ==
  /\ pc[p] = "writing"
  /\ copies' = [copies EXCEPT ![File(p)] = held[p]]
  /\ held' = [held EXCEPT ![p] = None]
  /\ Advance(p, "copying", "cycling")
  /\ UNCHANGED <<sourceVars, loaded, hashes, done, manifest, log, summaryVars, first>>

Record(p, c) == [process |-> p, cycle |-> c]
TornRecord(p) == [process |-> p, cycle |-> 0]

\* Mutated form: the log is opened for writing, not for appending.
Rewritten(record) == [lines |-> <<>>, rest |-> <<record>>]

Extended(record) == [log EXCEPT !.rest = Append(@, record)]

\* The lines of the log that are not blank; the last may have no end.
Lines == IF log.rest = <<>> THEN log.lines ELSE Append(log.lines, log.rest)

\* A cycle, and its record up to the line's end, which a buffer may hold back.
AppendRecord(p) ==
  /\ pc[p] = "cycling"
  /\ log' = Extended(Record(p, done[p] + 1))
  /\ pc' = [pc EXCEPT ![p] = "closing"]
  /\ UNCHANGED <<sourceVars, pos, loaded, hashes, held, done, manifest, copies,
                 summaryVars, first>>

CloseLine(p) ==
  /\ pc[p] = "closing"
  /\ log' = [lines |-> Lines, rest |-> <<>>]
  /\ done' = [done EXCEPT ![p] = @ + 1]
  /\ pc' = [pc EXCEPT ![p] = IF done'[p] = NumCycles THEN "ended" ELSE "cycling"]
  /\ UNCHANGED <<sourceVars, pos, loaded, hashes, held, manifest, copies, summaryVars,
                 first>>

\* The process ends: a write it was in may have left its beginning.
Crash(p) ==
  /\ pc[p] /= "ended"
  /\ Ends(p)
  /\ \/ UNCHANGED <<copies, log>>
     \/ /\ pc[p] = "writing"
        /\ copies' = [copies EXCEPT ![File(p)] = 0] /\ UNCHANGED log
     \/ /\ pc[p] = "cycling"
        /\ log' = Extended(TornRecord(p)) /\ UNCHANGED copies
  /\ UNCHANGED <<sourceVars, done, manifest, summaryVars, first>>

-----------------------------------------------------------------------------
(* summarize_results.                                                      *)

\* json.loads takes a line that is one whole record.
Parses(line) == Len(line) = 1 /\ line[1].cycle /= 0

\* The log exists once something was written to it.
Loadable == Lines /= <<>> /\ \A i \in DOMAIN Lines : Parses(Lines[i])

Records == [i \in DOMAIN Lines |-> Lines[i][1]]

\* Mutated form: the copies only have to be there.
InputsPresent == \A f \in Hashed : copies[f] /= None

InputsVerified == \A f \in Hashed : copies[f] = manifest.hashes[f]

\* A directory without a manifest is passed over, a copy that does not match
\* refuses the summary.
Verify ==
  /\ reading = None /\ manifest /= None
  /\ InputsVerified
  /\ reading' = [stage |-> "verified", owner |-> manifest.owner, records |-> <<>>]
  /\ UNCHANGED <<sourceVars, processVars, runFiles, table, first>>

\* load_run_records: one line that does not parse refuses the summary.
LoadRecords ==
  /\ reading /= None /\ reading.stage = "verified"
  /\ reading' = IF Loadable THEN [reading EXCEPT !.stage = "loaded", !.records = Records]
                             ELSE None
  /\ UNCHANGED <<sourceVars, processVars, runFiles, table, first>>

\* write_summary_csv opens the table, which empties it, then fills it; a
\* summary that ends in between leaves it empty.
OpenTable ==
  /\ reading /= None /\ reading.stage = "loaded"
  /\ table' = <<>>
  /\ reading' \in {None, [reading EXCEPT !.stage = "opened"]}
  /\ UNCHANGED <<sourceVars, processVars, runFiles, first>>

WriteTable ==
  /\ reading /= None /\ reading.stage = "opened"
  /\ table' = << [owner |-> reading.owner, records |-> reading.records] >>
  /\ reading' = None
  /\ UNCHANGED <<sourceVars, processVars, runFiles, first>>

-----------------------------------------------------------------------------

Process(p) ==
  \/ Load(p) \/ Hash(p) \/ Claim(p) \/ Name(p)
  \/ Copy(p) \/ Write(p) \/ AppendRecord(p) \/ CloseLine(p)

Summary == Verify \/ LoadRecords \/ OpenTable \/ WriteTable

LedgerNext ==
  \/ \E p \in Processes : Process(p) \/ Crash(p)
  \/ \E f \in Inputs : Truncate(f) \/ Refill(f)
  \/ Summary

LedgerSpec == LedgerInit /\ [][LedgerNext]_ledgerVars

-----------------------------------------------------------------------------
(* Correctness.                                                            *)

\* Two processes looked for the manifest before either had written it.
Raced == Cardinality(first) > 1

\* What the records of a row were decided on is what the directory holds,
\* except for a file rewritten between the process's first two reads of it.
DecidedOnCopies(row) ==
  \A f \in Hashed :
    \/ copies[f] = loaded[row.owner][f]
    \/ loaded[row.owner][f] /= manifest.hashes[f]

\* A row of the table is about the first cycles, without a gap, of the one
\* process its manifest describes, and the inputs beside it are the ones these
\* were decided on: neither a repetition of the run, nor a crash, nor an input
\* rewritten after it was hashed is summarised as part of the run
\* (results.py:170-181, 262-279; run_experiment.py:301-312).
RowsAudited ==
  table /= None /\ ~Raced => \A i \in DOMAIN table :
    LET row == table[i]
    IN  /\ row.records = [c \in 1 .. Len(row.records) |-> Record(row.owner, c)]
        /\ row.records /= <<>>
        /\ DecidedOnCopies(row)

\* A crash costs a run at most its open cycle: every cycle whose append has
\* returned stays in the log as a whole line, in order and before anything torn
\* (results.py:55-60).
AppendedStays ==
  \A p \in Processes : first = {p} =>
    /\ Len(Lines) \in done[p] .. done[p] + 1
    /\ \A c \in 1 .. done[p] : Lines[c] = << Record(p, c) >>

\* Once the processes that found the id free have ended, whether their run was
\* finished or cut short, no file of it changes any more, whoever is started under
\* the same id (results.py:38-39, 71-80).
EarlierRunUntouched ==
  [][manifest /= None /\ (\A p \in first : pc[p] = "ended") => UNCHANGED runFiles]_ledgerVars

=============================================================================
