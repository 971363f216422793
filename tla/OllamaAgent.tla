---------------------------- MODULE OllamaAgent ----------------------------
(***************************************************************************)
(* One call of OllamaStructuredAgent.propose after the other: the size of  *)
(* the prompt, the requests to the Ollama server (external), their bounded *)
(* repetition, and the class of the error a call ends with.                *)
(***************************************************************************)
EXTENDS Naturals, Sequences, SequencesExt

CONSTANTS
  None,
  RetryCount,  \* retry_count
  NumCtx,      \* num_ctx, which only the v2 family sets, in tokens
  Reserve      \* output_token_reserve

ASSUME AgentAssumption ==
  /\ RetryCount \in Nat
  /\ NumCtx \in Nat /\ Reserve \in Nat /\ NumCtx > Reserve

VARIABLES
  asking,         \* the request awaited, 0 when none is
  bounded,        \* whether the agent has a context window to compare with
  networkFailure,
  result,         \* what the call returned or raised
  lastCall,       \* last_call
  call,           \* the cycle the call is for, which stands for its request_id
  answers         \* history: the answers of this call

agentVars == <<asking, bounded, networkFailure, result, lastCall, call, answers>>

\* What comes back of a request: nothing usable (a timeout, an HTTP error, a
\* body that is no JSON), or a count of evaluated tokens, missing ones taken for
\* full, and a content that is the proposal asked for or is not.
NoResponse == [counted |-> "none", content |-> "none"]
Response == [counted : {"full", "short"}, content : {"valid", "invalid"}]
Answer == {NoResponse} \cup Response

AgentInit ==
  /\ asking = 0 /\ bounded = FALSE /\ networkFailure = FALSE
  /\ result = None /\ lastCall = None /\ call = 0 /\ answers = <<>>

\* Mutated form: a prompt that is not sent leaves the record of the call before.
RecordOfRequests(id, attempts, failed) ==
  IF attempts = 0 THEN lastCall ELSE [call |-> id, attempts |-> attempts, failed |-> failed]

CallRecord(id, attempts, failed) == [call |-> id, attempts |-> attempts, failed |-> failed]

Overflows(tokens, windowed) == windowed /\ tokens + Reserve > NumCtx

\* propose: no request is made with a prompt that cannot fit.
Propose(id, tokens, windowed) ==
  /\ asking = 0
  /\ call' = id /\ bounded' = windowed
  /\ answers' = <<>> /\ networkFailure' = FALSE
  /\ IF Overflows(tokens, windowed)
       THEN /\ asking' = 0 /\ result' = "context_overflow"
            /\ lastCall' = CallRecord(id, 0, TRUE)
       ELSE asking' = 1 /\ result' = None /\ UNCHANGED lastCall

\* Fewer tokens evaluated than the prompt has at least.
Truncated(a) == bounded /\ a.counted = "short"

Usable(a) == ~Truncated(a) /\ a.content = "valid"

Return(value, failed) ==
  /\ result' = value /\ lastCall' = CallRecord(call, asking, failed)
  /\ asking' = 0

Accept(a) == Usable(a) /\ Return("proposal", FALSE) /\ UNCHANGED networkFailure

\* Repeating a prompt that was cut off cannot help.
Overflow(a) == Truncated(a) /\ Return("context_overflow", TRUE) /\ UNCHANGED networkFailure

\* Mutated form: the class of the last error is that of the call.
LastFailure(a) == a = NoResponse

FailedOnce(a) == networkFailure \/ a = NoResponse

AttemptsLeft == asking <= RetryCount

\* The next attempt, or the error of a call that has none left.
TryAgain(a) ==
  /\ ~Usable(a) /\ ~Truncated(a)
  /\ networkFailure' = FailedOnce(a)
  /\ IF AttemptsLeft
       THEN asking' = asking + 1 /\ UNCHANGED <<result, lastCall>>
       ELSE Return(IF networkFailure' THEN "llm_unavailable" ELSE "llm_response_invalid", TRUE)

Receive(a) ==
  /\ asking /= 0
  /\ answers' = Append(answers, a)
  /\ UNCHANGED <<call, bounded>>
  /\ Accept(a) \/ Overflow(a) \/ TryAgain(a)

=============================================================================
