----------------------------- MODULE LlmExchange -----------------------------
(***************************************************************************)
(* The exchange with the LLM over a trace: the run loop stores and         *)
(* retrieves the context of a cycle, the workflow puts the documents into  *)
(* the agent's prompt, and the call ends in a proposal or in the reason    *)
(* the cycle goes on without one.                                          *)
(***************************************************************************)
EXTENDS ContextRetrieval, OllamaAgent

CONSTANTS
  PolicyTokens,  \* of the prompt without snapshots and graphs
  Tokens         \* of each content

ASSUME ExchangeAssumption == PolicyTokens \in Nat

VARIABLES
  cycle,    \* the snapshot being decided
  stage,    \* "adding", "retrieving", "prompting", "calling", "done" or "aborted"
  reasons   \* one per cycle: "proposal", or why the LLM gave none

loopVars == <<cycle, stage, reasons>>
exchangeVars == <<retrievalVars, agentVars, loopVars>>

ExchangeInit ==
  /\ RetrievalInit /\ AgentInit
  /\ cycle = 1 /\ stage = "adding" /\ reasons = <<>>

Adds ==
  /\ stage = "adding" /\ AddContext(cycle)
  /\ stage' = "retrieving"
  /\ UNCHANGED <<agentVars, cycle, reasons>>

Retrieves ==
  /\ stage = "retrieving" /\ Retrieve(cycle)
  /\ stage' = "prompting"
  /\ UNCHANGED <<agentVars, cycle, reasons>>

\* An exception of the Qdrant client is caught nowhere.
StoreFails ==
  /\ backend = "qdrant" /\ stage \in {"adding", "retrieving"}
  /\ stage' = "aborted"
  /\ UNCHANGED <<retrievalVars, agentVars, cycle, reasons>>

TokensOf(records) == MapThenSumSet(LAMBDA r : Tokens[r.content], records)

\* build_scheduler_prompt: the policy holds the decision's input once more.
PromptTokens == PolicyTokens + TokensOf(OwnRecords(cycle)) + TokensOf(shown)

Prompts ==
  /\ stage = "prompting"
  /\ Propose(cycle, PromptTokens, profile = "v2")
  /\ stage' = "calling"
  /\ UNCHANGED <<retrievalVars, cycle, reasons>>

NextCycle(reason) ==
  /\ reasons' = Append(reasons, reason)
  /\ IF cycle = Len(trace) THEN stage' = "done" /\ UNCHANGED cycle
                           ELSE stage' = "adding" /\ cycle' = cycle + 1

\* The snapshot fails a data rail of the hybrid v2 gate: the LLM is not asked.
Withholds ==
  /\ stage = "prompting" /\ profile = "v2"
  /\ NextCycle("data_integrity")
  /\ UNCHANGED <<retrievalVars, agentVars>>

Asks ==
  /\ stage = "calling" /\ \E a \in Answer : Receive(a)
  /\ UNCHANGED <<retrievalVars, loopVars>>

\* Mutated form: a call that failed is made again.
AsksAgain ==
  /\ stage = "calling" /\ asking = 0
  /\ IF result = "proposal" THEN NextCycle(result)
                            ELSE stage' = "prompting" /\ UNCHANGED <<cycle, reasons>>
  /\ UNCHANGED <<retrievalVars, agentVars>>

\* The call is over; the rest of the cycle leaves the exchange alone.
Concludes ==
  /\ stage = "calling" /\ asking = 0 /\ NextCycle(result)
  /\ UNCHANGED <<retrievalVars, agentVars>>

Finished == stage \in {"done", "aborted"} /\ UNCHANGED exchangeVars

ExchangeNext ==
  \/ Adds \/ Retrieves \/ StoreFails
  \/ Withholds \/ Prompts \/ Asks \/ Concludes \/ Finished

\* A request ends: requests gives up on a server that says nothing for
\* timeout_seconds.
ExchangeSpec == ExchangeInit /\ [][ExchangeNext]_exchangeVars /\ WF_exchangeVars(ExchangeNext)

-----------------------------------------------------------------------------
(* Correctness.                                                            *)

Shown == stage \in {"prompting", "calling"}

\* No document of a decision is from after it, although the traces are not in
\* the order of their decision times and Qdrant may hold the rest of the trace
\* from an earlier process (retrieval.py:3-5).
NoLookAhead == Shown => \A r \in shown : r.time <= trace[cycle].time

DistinctTimes == \A i, j \in DOMAIN trace : trace[i].time = trace[j].time => i = j

WithinDepth ==
  backend = "in_memory"
    \/ \A s \in SourceTypes :
         Cardinality({r \in KnownAt(trace[cycle].time) : r.source = s}) <= SearchDepth

\* The v2 gate shows the LLM the snapshot and the graph of its own decision,
\* the two documents whose ids it may cite, as long as decision times differ and
\* Qdrant holds no more of them than the search looks at (run_experiment.py:406-407,
\* retrieval.py:346: "returns the decision's own snapshot and graph context").
OwnContextShown ==
  Shown /\ profile = "v2" /\ DistinctTimes /\ WithinDepth => shown = OwnRecords(cycle)

Silent == {i \in DOMAIN answers : answers[i] = NoResponse}

\* What a call ends with is told by all its requests: a proposal and a detected
\* truncation end it at once, otherwise every attempt is made, and the reason is
\* a connectivity failure exactly if one of them went unanswered
\* (workflow.py:1334, "Keep tunnel/connectivity failures distinct from invalid
\* model output").
FailureClassTruthful ==
  stage = "calling" /\ asking = 0 =>
    /\ \A i \in 1 .. Len(answers) - 1 : ~Usable(answers[i]) /\ ~Truncated(answers[i])
    /\ result \in {"proposal", "context_overflow", "llm_unavailable", "llm_response_invalid"}
    /\ result = "proposal" => answers /= <<>> /\ Usable(Last(answers))
    /\ result = "context_overflow" => answers = <<>> \/ Truncated(Last(answers))
    /\ result \in {"llm_unavailable", "llm_response_invalid"} =>
         Len(answers) = RetryCount + 1 /\ (result = "llm_unavailable" <=> Silent /= {})

\* The call record is of this cycle's call, with the number of requests made,
\* also when none was or the last one failed (agent.py:177-236).
CallRecorded ==
  stage = "calling" /\ asking = 0 =>
    lastCall = [call |-> cycle, attempts |-> Len(answers), failed |-> result /= "proposal"]

\* Under v2 a cycle gives up for a prompt too long only for its own snapshot and
\* graph: the prompt does not grow with the trace (run_experiment.py:406-407).
OverflowIsOwn ==
  stage = "calling" /\ asking = 0 /\ result = "context_overflow" /\ answers = <<>>
      /\ DistinctTimes /\ WithinDepth
    => PolicyTokens + TokensOf(OwnRecords(cycle)) + TokensOf(OwnRecords(cycle))
         + Reserve > NumCtx

\* Every snapshot of the trace gets its proposal or its reason, unless the
\* store fails.
ExchangeCompletes == <>(stage = "aborted" \/ Len(reasons) = Len(trace))

=============================================================================
