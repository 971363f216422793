-------------------------- MODULE ContextRetrieval --------------------------
(***************************************************************************)
(* The documents the LLM is shown for a decision.  Every cycle of a trace  *)
(* stores its carbon snapshot and the dependency graph, stamped with its   *)
(* decision time, and searches the store up to that time.  The store of    *)
(* one process keeps records in memory and ranks them by matching words;   *)
(* Qdrant (external) outlives the process, and ranks by the similarity of  *)
(* hashed words, which is any order.                                       *)
(***************************************************************************)
EXTENDS Naturals, Sequences, FiniteSets, FiniteSetsExt

CONSTANTS
  Traces,       \* sequences of [time, content], one per snapshot
  Backends,     \* SCHEDULER_RETRIEVAL_BACKEND: subset of {"in_memory", "qdrant"}
  GateProfiles, \* subset of {"as_built", "v2"}
  SearchDepth,  \* search_depth of latest_per_source
  Limit         \* limit of retrieve_decision_context

ASSUME RetrievalAssumption ==
  /\ Traces \subseteq Seq([time : Nat, content : STRING]) \ {<<>>}
  /\ Backends \subseteq {"in_memory", "qdrant"} /\ GateProfiles \subseteq {"as_built", "v2"}
  /\ SearchDepth \in Nat \ {0} /\ Limit \in Nat \ {0}

VARIABLES trace, backend, profile, store, shown

settings == <<trace, backend, profile>>
retrievalVars == <<settings, store, shown>>

SourceTypes == {"carbon-snapshot", "dependency-graph"}

\* A record is named by its run, time, source and content: one of equal fields
\* takes the place of the other.
SnapshotRecord(i) ==
  [source |-> "carbon-snapshot", time |-> trace[i].time, content |-> trace[i].content]

GraphRecord(i) ==
  [source |-> "dependency-graph", time |-> trace[i].time, content |-> "graph"]

OwnRecords(i) == {SnapshotRecord(i), GraphRecord(i)}

\* What an earlier process of the same run id may have left in Qdrant.
Inherited ==
  {UNION {OwnRecords(j) : j \in 1 .. i} : i \in 0 .. Len(trace)}
    \cup {(UNION {OwnRecords(j) : j \in 1 .. i}) \cup {SnapshotRecord(i + 1)} :
            i \in 0 .. Len(trace) - 1}

RetrievalInit ==
  /\ trace \in Traces /\ backend \in Backends /\ profile \in GateProfiles
  /\ store \in IF backend = "qdrant" THEN Inherited ELSE {{}}
  /\ shown = {}

-----------------------------------------------------------------------------

\* _add_context: two events, the second of which may find the store gone.
AddContext(i) ==
  /\ store' = store \cup OwnRecords(i)
  /\ UNCHANGED <<settings, shown>>

\* Mutated form: the time of an event is not looked at.
KnownAtAnyTime(asOf) == store

KnownAt(asOf) == {r \in store : r.time <= asOf}

\* In memory: the graph names words of the query, a snapshot none; among equals
\* the newer record.  The query of latest_per_source matches neither.
Outranks(r, q) ==
  \/ r.source = "dependency-graph" /\ q.source = "carbon-snapshot"
  \/ r.source = q.source /\ r.time > q.time

\* The possible answers of a search: a limit cuts off what ranks lowest.
Hits(found, limit) ==
  {hits \in kSubset(Min({limit, Cardinality(found)}), found) :
     backend = "qdrant" \/ \A h \in hits, r \in found \ hits : ~Outranks(r, h)}

\* Mutated form: the best match stands for the newest.
AnyOf(hits) == hits

\* max by event_time; record_id, a hash, decides among equal times.
NewestOf(hits) == {r \in hits : \A q \in hits : q.time <= r.time}

\* One record per source type that has any.
LatestPerSource(asOf) ==
  LET found(s) == {r \in KnownAt(asOf) : r.source = s}
      sources == {s \in SourceTypes : found(s) /= {}}
  IN  \E pick \in [sources -> store] :
        /\ \A s \in sources :
             \E hits \in Hits(found(s), SearchDepth) : pick[s] \in NewestOf(hits)
        /\ shown' = {pick[s] : s \in sources}

Retrieve(i) ==
  /\ IF profile = "as_built" THEN shown' \in Hits(KnownAt(trace[i].time), Limit)
                             ELSE LatestPerSource(trace[i].time)
  /\ UNCHANGED <<settings, store>>

=============================================================================
