# Verification of the carbon-aware benchmark scheduler

TLA+ specifications of the decision path of this repository (`src/carbon_scheduler`,
`scripts/run_experiment.py`), the TLC configurations that check them on small
instances, and TLAPS proofs of their main properties for all values of the
constants. Line numbers refer to the sources of this repository.

## The system

One process runs a *trace*: a list of carbon snapshots (`run_experiment.py:314`).
For each snapshot `SchedulerWorkflow.run_cycle` decides where and when one
benchmark session runs, hands the action to an executor, and the loop appends a
record to `cycles.jsonl`. The decider depends on the mode (`hybrid`, `llm_only`,
`milp_only`, `static_reference`), the trust gate on the profile (`as_built`, `v2`,
`v2.1`), the control flow on the backend (`direct` or `langgraph`), and the
clock on the executor (a dry run has none).

| Component | State | Operations | Interacts with | What is hard | Correct when |
|---|---|---|---|---|---|
| Workflow (`workflow.py`) | last clean snapshot, last placement, the cycle's clock, proposal and reference schedule | `run_cycle`, data-integrity response, hold, trust evaluation, MILP, static, execute, stamp | calls agent, evaluator, solver, executor; returns a record to the loop | time passes inside every call; memory crosses cycles; two implementations of the execution step | only clean data decides; the action is feasible and near-optimal; it is dispatched in time; the record tells the truth |
| Request and solver (`milp.py`, `build_scheduling_request`) | none | build candidates, trim, filter, solve | called by the workflow and, for the reference, by the gate | slot boundaries, ties, two candidates in one slot, solver failure | minimum over every feasible start; trimming changes nothing |
| Trust gate (`trust.py`) | none | data rails, proposal rails, evidence, regret, model feasibility, scores | called by the workflow | sign and boundary of the regret; the latency is what the LLM claims | an admitted proposal is feasible and within tolerance |
| Run loop (`run_experiment.py`) | position in the trace | freeze the input, run a cycle, append | workflow, retrieval, artifacts | an exception in a cycle ends the run | one record per snapshot, in order |
| Kubernetes executor (`executor.py`) | Jobs in two clusters, log files | reset and benchmark Jobs, waits, logs | Kubernetes API | lost replies, retries, timeouts, Jobs left running, reused names | a session runs once, after its own reset; receipts match Jobs |
| LLM agent (`agent.py`) | last call | propose with bounded retries | Ollama over HTTP | timeouts, malformed answers, error class | a returned proposal passed validation; the failure class is the real one |
| Carbon client and cache (`carbon_client.py`) | snapshot files and a `latest` pointer per region | fetch, save, load latest, replay | provider API, file system | concurrent captures, crash between two writes, stale cache | what is used is intact, of its region and not too old; a written trace has no gap |
| Run artifacts (`results.py`) | manifest, copies of the inputs, `cycles.jsonl`, summary table | create, copy, append, load, verify, summarize | run loop, reports, whoever rewrites the inputs | crash and torn writes, two processes under one id, inputs rewritten between two reads | a row of the table is about one run, on the inputs beside it; the log is a prefix of the run |
| Retrieval (`retrieval.py`) | context records, which in Qdrant outlive the process | upsert, retrieve, latest per source | run loop, LLM prompt | search depth, equal times, an order of times that is not that of the trace | nothing from after the decision is shown; the v2 gate shows the decision's own snapshot |
| Dashboard poller (`web/server.py`) | one shared state | poll, request handlers | provider API, browsers | thread and handlers, partial failure | no comparison of a stale with a fresh value goes unmarked |
| Settings, contracts, telemetry, controller, graph ingestion, scripts, pages, manifests | configuration or none | validation, translation, presentation | | | not about behaviour over time |

## Modules

| Module | Models |
|---|---|
| `SchedulingModel` | data of a snapshot; candidates, slot grid, trimming, feasibility, tie order, `solve_schedule` |
| `TrustRails` | the gate: data rails, the seven proposal rails, evidence, regret, model feasibility, both score rules |
| `GateDecision` | one decision of the v2 gate on one input, against reference definitions written from the forecast |
| `SchedulerWorkflow` | a whole run: cycles, modes, profiles, both backends, clock, fallback, hold, dispatch, stamp, log |
| `DecisionCycle` | what `run_cycle` promises the loop: the abstract specification `SchedulerWorkflow` implements |
| `BenchmarkSession` | what the workflow relies on when it calls the executor: the abstract contract |
| `KubernetesExecutor` | `execute` and the clusters it talks to, over crashes and repetitions of a run; implements `BenchmarkSession` |
| `PlacedSessions` | `DecisionCycle` composed with `KubernetesExecutor`: the log and the remembered placement against the clusters |
| `RunLedger` | a run directory: manifest, copies, cycle log and summary, with processes under one id, rewritten inputs and crashes |
| `ContextRetrieval` | the context store of a run, in memory or Qdrant, and the two ways to search it |
| `OllamaAgent` | one call of `propose` after the other: prompt size, attempts, error class, call record |
| `LlmExchange` | the two composed over a trace, between the run loop and the workflow |
| `CarbonCache` | captures of carbon snapshots that share one cache: live fetch, the two writes, fallback, crash |
| `MCGateDecision`, `MCSchedulerWorkflow`, `MCCarbonCache`, `MCRunLedger`, `MCLlmExchange` | small instances for TLC (`KubernetesExecutor` and `PlacedSessions` need none: their constants are strings and numbers) |
| `SchedulingLemmas` | proofs about the operators of the first two modules |
| `GateDecision_proofs` | the gate and the solver against the reference definitions |
| `SchedulerWorkflow_proofs` | the inductive invariant; type correctness; executable actions; near-optimality, dispatch in time, data age |
| `WorkflowLedger_proofs` | what the log says of the two memories and of who decided; the safety part of the refinement of `DecisionCycle` |
| `LlmExchange_proofs` | the store's and the call's inductive invariants and five invariants of the exchange |
| `KubernetesExecutor_proofs` | the executor's inductive invariant, its five safety invariants, the safety part of the refinement; `PlacedSessions` on top of it |
| `RunLedger_proofs` | the inductive invariant of a run directory, its two invariants and its action property |
| `CarbonCache_proofs` | the cache's inductive invariant and its five invariants |

### SchedulerWorkflow and the code

`pc` is the point the controller thread has reached. Each call that takes time is
a step boundary: `propose` (the LLM), `evaluate` (RAGAS and the rails), `schedule`
(the solver), `dispatch` and `executing` (the executor), `record` (`_stamp` and
`append`). `Tick` advances the wall clock between any two steps.

| Action | Code |
|---|---|
| `BeginOnOwnData`, `BeginOnLastKnownGood`, `BeginHold` | start of `run_cycle`, `_data_integrity_response`, `_hold`; the loop's trimming |
| `ProposalFails`, `ProposalArrives` | `agent.propose` and what follows it in `_run_cycle` / `_lg_propose_action`, `_lg_choose_final_action` |
| `EvaluateTrust` | `_evaluate_hybrid_trust` and `_v2` |
| `RunMilp`, `RunStaticReference` | `_run_milp` / `_lg_schedule`, `_run_static_reference` |
| `RefuseLateAction`, `EnterExecutor`, `ExecutorReturns` | `_execute` / `_lg_execute` |
| `RecordCycle` | `_stamp` and `RunArtifactWriter.append` |

The direct and the LangGraph paths take the same steps except at the dispatch,
where only `_execute` compares the clock with the deadline
(`DispatchChecksDeadline`); the last-known-good fallback goes through `_execute`
on both backends.

Abstractions and why they are sound here:

- Times and carbon intensities are integers in one unit; the code compares them
  and never rounds. The regret ratio becomes a product inequality. Scores and
  weights are percentages.
- A forecast is a set of points: the schema requires it sorted.
- Window, availability, catalog, allowed services and retrieved identifiers are
  constants. The first three are fixed for a run; retrieval fills the fourth anew
  each cycle with the same kind of identifiers.
- `run_from_options` refuses a trace whose snapshots do not cover exactly the two
  regions and a catalog that lacks one (lines 164-196), so building the request
  cannot fail in a run. The exception paths of `_run_milp` and `_lg_schedule`
  for that case are left out.
- A proposal the agent's own validation refuses (`MatchesInput`) is a
  `ProposalFails`.
- A real executor may succeed, return a receipt with a failure, or raise. What
  happens in the cluster is in `KubernetesExecutor`, and `PlacedSessions` composes the two.
- A crash of the process is part of `PlacedSessions` and `RunLedger`, the size of the prompt
  and the attempts of a proposal are part of `LlmExchange`.
- Durations and texts of a record are left out; `dispatched_at` with them.

### DecisionCycle and PlacedSessions

`DecisionCycle` leaves the decision out of `run_cycle`: a cycle holds (no session, the remembered
region), declines (no action, or a refused one) or hands one session to the executor; it ends
in one record that says `none`, `failed` or `placed` and the region on record; the
placement moves with a placed session only. `SchedulerWorkflow` implements it
(`KeepsCycleContract`): `CycleStage` maps `pc`, `Report` the result before its record,
`SessionOf` the outcome; a dry run and an exception of the executor are cases of these.

`PlacedSessions` puts `KubernetesExecutor` in the place of the executor: its session is a
call (`pc /= "idle"`), `Returns` is the step of `execute` that gives a receipt together with the
outcome `_execute` derives from it, and `Repeats` is a repetition of the run under its
id, whose workflow starts without placement, since nothing calls `restore_state`
(`workflow.py:196`). The workflow is its specification here, which is what makes the
composition small enough for two clusters; that the real one implements it is checked and,
for safety, proved.

### KubernetesExecutor and the code

`jobs` is the state of every Job at the API servers and `inFlight` the creates
whose reply was lost and which may still reach a server. The rest is the
controller: `pc` is the place in `execute` where it waits for an answer, `kind` the
Job it handles (the reset, then the benchmark), `attempt` and `waited` the counters
of `_ensure_job` and of the polling loops, `artifacts` the logs the session
has saved, `log` the receipts. `unfinished` is a history variable: the sessions whose
latest attempt gave no clean receipt.

| Action | Code |
|---|---|
| `BeginSession` | the call of `execute`, past `_wait_until_scheduled` |
| `FrontendPending`, `FrontendReady`, `Unprepared` | `_wait_for_frontend`; the ways to fail before a Job is touched: credentials, frontend, template |
| `JobFound`, `JobMissing`, `InspectUnanswered`, `ApiRefuses` | the read of `_ensure_job` |
| `CreateAnswered`, `CreateUnanswered` | its create: done or 409; no reply, with the create done, late or lost |
| `JobDone`, `JobPending`, `JobTimesOut`, `JobUnusable` | `_wait_for_job` and the log capture of `execute` around it |
| `LogsUnavailable`, `ResetComplete`, `ScriptNotLoaded`, `BenchmarkComplete` | `_job_logs`, `_save_logs`, `benchmark_script_error`, the receipt |
| `Restart` | the process ends anywhere and the run is repeated under its id; `RunArtifactWriter` insists on a new directory, so the log is new |
| `JobEnds`, `CreateArrives` | the clusters (external): `backoffLimit: 0` of the Job templates, no `ttlSecondsAfterFinished` |

Every request of the executor may be answered, refused with an API error or left
unanswered, at every call. Abstractions:

- A wait counts polls up to `JobTimeout` instead of seconds; a request without an answer
  is a poll like any other. The retries of a log read end in an answer or a failure.
- `_job_name` contains a hash of the cycle id: names are taken as injective.
- Failures before a Job is touched are one action with one cause, `"setup"` (credentials, frontend,
  template), that may happen whenever the frontend is awaited: their order among
  themselves changes no state.
- Waiting for the scheduled time changes no state. Cycles that place no session
  (holds, refusals) are the gaps in the cycle numbers.
- Writing a log file does not fail, and `artifact_root` is given as
  `run_experiment.py:538` does. The numbers read from a log are left out.

### CarbonCache and the code

`files`, `damaged` and `latest` are the disk: the snapshot files, those whose bytes no longer
match their hash, and what `latest.json` of each folder names. A folder is that of a
*normalised* provider region (`_safe_region_path`), so two regions may share one.
Every capture is a process (`scripts/capture_carbon.py`) with `pc`, the `now` of its
snapshot, its `cycle`, the position `pos` in the mapping of regions, the file `held` that it
read from `latest.json`, and the `records` it has collected. `listedAt` is a history variable.

| Action | Code |
|---|---|
| `BeginSnapshot`, `WriteTrace` | the loop of `capture_trace` and its end |
| `WriteSnapshot` | both requests answered and understood; the first write of `save_live` |
| `WritePointer` | its second write; the region is done |
| `FetchFails` | a `CarbonClientError`; `load_latest` reads the pointer, or there is none |
| `ServeCached`, `RefuseCached` | the rest of `load_latest` |
| `Abort` | the process is killed or an error ends it anywhere |
| `Tick`, `Damage` | the clock; the content of a file changes (external) |

`_atomic_write_json` writes a temporary file and renames it, so a file appears as a whole.
Temporary files have names of their own and are never read. Whether a payload is understood
is a choice: `_request` and the extractors either give points or raise. The record of
a region exists once its pointer is written, since `save_live` returns then.
`fetch_historical` keeps no state; `load_replay_trace`, the zone warning and the interval
between cycles are left out.

### RunLedger and the code

Every input file is read three times by a process: parsed (`Load`), hashed (`Hash`,
`run_experiment.py:266-272`, `configuration_sha256`), and copied (`Copy`, `Write`, lines 306-312). A
file is the number of its version; `Truncate` and `Refill` are the two parts of a
`write_text` by whoever rewrites it. `Claim` is the look for a manifest, `Name` the rename that makes
it appear; two processes may both pass the first. `AppendRecord` and `CloseLine` are
the two writes of `append`, which may reach the disk apart, and `Crash` may leave an empty copy, a
record without its line end or a torn record. `Verify`, `LoadRecords`, `OpenTable` and
`WriteTable` are one `summarize_results`, which may refuse or be cut short at each. `first` is a
history variable: the processes that found the id free.

- The log is kept as its reader splits it: the lines that have their end, blank ones left out, and the rest
  after the last line end. What was written to a line is a sequence, since two processes that both found
  the id free may write to the same one; `load_run_records` refuses the log unless each line is one whole record.
- The second look of `_write_json` for the manifest comes right after the first and is one
  step with it. Hash and parse of one file are in this order; files are
  independent, so all are parsed and then all hashed, although the configuration is hashed before
  the trace is parsed.
- The graph's hash is of the parsed graph and no summary compares the copy, so it stands
  apart from the four other inputs (`Hashed`), which are treated alike: the instance has one of each kind.
- A record is one line: `append` leaves characters such as U+2028 unescaped, at which the reader's
  `splitlines` also splits (a hazard listed without a property).
- A record is its process and cycle. The statistics and the columns of the table are left out.

### LlmExchange and the code

| Action | Code |
|---|---|
| `Adds`, `Retrieves` | `_add_context`, `retrieve_decision_context` in the loop of `run_from_options` |
| `StoreFails` | an exception of the Qdrant client: nothing between it and `main` catches it |
| `Withholds` | a snapshot that fails a data rail: `run_cycle` never asks the LLM |
| `Prompts` | `propose` up to its first request, with the prompt of `build_scheduler_prompt` |
| `Asks` | one attempt: `Accept`, `Overflow` or `TryAgain` |
| `Concludes` | the proposal or `_agent_failure_reason`; the rest of the cycle is in `SchedulerWorkflow` |

The in-memory store ranks a graph document, which shares words with the query, before any
snapshot and the newer before the older; Qdrant's order by hashed words is any order
(`Outranks`, `Hits`), cut off at the limit. Qdrant may hold what an earlier process of the run id stored
(`Inherited`). A record's id is a hash, so which of two records of equal time wins is a
choice. The prompt is counted in tokens: a policy, the decision's snapshot and graph, and the
documents shown. An answer is missing (a timeout, an HTTP error, a body that is no
JSON: all `RequestException`), or has a token count and a content that is valid or not. The window is
compared under the v2 family only; `as_built` sets no `num_ctx`.

## Runs

| Run | Instance | Question |
|---|---|---|
| `workflow_hybrid` | v2.1, direct, real; 3 cycles, 3 snapshots, 6 proposals, 3 evaluations, clock 1 to 4, deadline 3 | on which data a hybrid cycle acts, how near the optimum, when, and what the log says |
| `workflow_modes` | four modes; `as_built` direct real, `v2` LangGraph real, `v2.1` dry on both backends; west unavailable; 2 cycles | executable actions, who decided, why a hybrid cycle started nothing, the run completes, `DecisionCycle` is implemented |
| `gate_decision` | three regions (one above the latency limit), 5 slots, all snapshots over a few values, 18 proposals | gate and solver against a reference written from the forecast |
| `workflow_refusal_alert` | as the first, 2 cycles | counterexample: a refused fallback is a warning |
| `workflow_langgraph_deadline` | as the first on LangGraph, 1 cycle | counterexample: entry after the deadline |
| `executor_rerun` | one region, 2 cycles, 2 attempts, 1 poll beyond the first, 1 repetition | Jobs, receipts and logs agree; the contract is kept |
| `placed_sessions` | two regions, 2 cycles, 1 attempt, 1 poll, 1 repetition | what the placement and the log tell of the clusters, when sessions move and processes end |
| `executor_logs` | two regions, 1 cycle, no repetition | counterexample: a Job that succeeded, reported as a failed session |
| `cache_captures` | two captures, 2 cycles, two regions in one folder, clock 1 to 3, `MaxAge` 1, one damaged file | what the pointer names, what captures use, what a written trace holds |
| `run_ledger` | two processes under one id, 2 inputs, 2 cycles, one rewrite | what a summary, the log and the directory of an earlier run may be trusted for |
| `llm_exchange` | three traces of 3 snapshots (in order, out of order, with equal times), both stores, both gates, depth and limit 2, 3 attempts | which documents are shown, when a prompt is too long, what a failed call is reported as |
| `cache_newest` | two captures, 1 region | counterexample: a fallback without data although the cache has some |

What the properties say, and why a test would hardly find their violation:

- `CleanBasis`: a cycle with failed inputs runs nothing, or an action decided on the
  snapshot of the *latest clean* cycle. Needs a clean, a corrupted and another cycle.
- `HoldKeepsPlacement`: a hold reports the latest *placed* session, through failed,
  refused and held cycles in between.
- `HybridNearOptimal`: between the optimum and the tolerance above it on the data it
  was decided on, whichever of three paths decided.
- `NoEntryAfterDeadline`, `DispatchedDataAgeBounded`: the clock moves between the
  rails and the dispatch.
- `SourceIsDecider`, `QuietMeansClean`: the record's labels against what happened, an LLM-only
  cycle that fell back to the MILP included, which the inferred label would hide.
- `UnstartedForACause`: a hybrid cycle without a session never blames the proposal, and what its record
  does give as cause is so: no feasible candidate, a deadline that is over, inputs that failed a rail. It does
  not say that the LLM costs no session: a slow one may use up the window, and the MILP's action
  is then refused. No instance has an infeasible problem in hybrid mode, so the
  runs show that none is reported; the theorem covers the rest.
- `ActionExecutable`, `RunCompletes`: over modes and backends.
- `AdmittedWithinTolerance`, `FallbackPassesItsOwnGate`, `TrimKeepsSchedule`: the
  pure algorithms against independent definitions.
- `BenchmarkFollowsReset`: no benchmark Job in a cluster before its own reset succeeded
  there, with creates that land after the session that sent them has ended, and
  repetitions that find old Jobs.
- `ReceiptsTruthful`: a receipt against the clusters, at every later time too.
- `StrayJobsAnnounced`: what runs beside an open session belongs to a session on record
  as failed, or cut off by a crash. The executor deletes no Job, so the stronger property that
  nothing runs beside a session is false; this is what the code does guarantee.
- `FailureLeavesEvidence`: a session that waited for a Job has that Job's log.
- `KeepsContract`: the executor implements `BenchmarkSession`: calls do not overlap, each
  returns or its process ends, and "executed" is said of the session that
  was asked for, after its reset and its benchmark succeeded.
- `KeepsCycleContract`: the workflow implements `DecisionCycle` on both backends: one session at
  most and one record per snapshot, and a placement that no failure, refusal or hold moves.
- `PlacementMeasured`: the remembered placement is that of a cycle whose two Jobs succeeded there;
  `LogNamesStrays`: every Job at work outside the open session is named by a record of a
  failed session, or was left by an earlier process. The stronger property, that the
  remembered placement tells where Jobs run, is false: a session that timed out does not move it.
- `RowsAudited`: a row of the summary has the first records of one process, without a gap, and the
  verified inputs beside them are those they were decided on. It excludes what the code
  does not detect: two processes that both found the id free, and a file rewritten between its
  first two reads, which is decided on in one version and recorded in another.
- `AppendedStays`: a crash costs a run its open cycle at most. `EarlierRunUntouched`: nobody changes a
  run directory whose processes have ended.
- `NoLookAhead`: no document from after the decision. `OwnContextShown`: under v2 the LLM sees the
  two documents it may cite; needs distinct decision times and, with Qdrant, no more
  records than `search_depth`: beyond it, the newest may not be among the hits.
- `FailureClassTruthful`: the reason of a failed call follows from all its requests, not from the last;
  `CallRecorded`: so does the call record. `OverflowIsOwn`: a v2 prompt does not outgrow the window
  because the trace is long. `ExchangeCompletes`: every snapshot gets its reason.
- `PointerNamesAFile`, `AuditTrail`: with the pointer replaced between its read and the read of
  the file, a file damaged in between, and a folder with two regions.
- `TraceComplete`: every way a request, a fallback or the process fails leaves no gap
  in a trace that is written, and no mixture of decision times.
- `PointerLagsOnlyByOverlap`: the pointer passes over newer data only if that
  was never listed or its capture overlapped. Each capture replaces it, whatever it names, so
  the stronger property that it names the newest file is false.

Bounds. Three cycles are what the two memories need: one to set, one to
disturb, one to use. One snapshot has its optimum in a later slot of the east, one in the
west now with later slots within the tolerance, one is a mis-mapped zone. The clock reaches
one unit past the deadline and the age limits are one and two units, so data
expire, a fallback expires and a dispatch is late within a run. For the executor, two attempts have a first and a last one, `JobTimeout = 1` a poll in
time and one at the end of it. Clusters do not interact, so one suffices there for two cycles
and a repetition; `placed_sessions` has two, for sessions that move, and one attempt and one poll, which
still end in a timeout, a lost reply or a late create. For the ledger, two processes can race, follow each
other or repeat a run cut short, and one rewrite falls between any two of the three reads. For the exchange, three
cycles put an earlier and a later snapshot in the store of a decision, a depth of two is less than they need,
and three attempts have an answer between the first and the last; a prompt with two long
snapshots exceeds the window and one with two short ones does not. For the cache, two captures
can overlap or follow each other, two cycles make a capture find a file of its own and an older one,
and three instants with `MaxAge = 1` make a file fresh, at its limit, too old and from the future.
Captures are symmetric there; the run checks invariants only. Every bound is a constant:
`NumCycles`, `MaxClock`, `StartTimes`, `ApiAttempts`, `JobTimeout`, `MaxRestarts`, `MaxDamaged`, `MaxRewrites`, `SearchDepth`, `RetryCount`.

Fairness. `WF_vars(ControllerStep)`: the controller's one thread goes on whenever
it can. The calls it waits on return: HTTP requests carry a timeout and a bounded
number of retries (`agent.py:159`), the solver enumerates, and the executor's
waits have deadlines (`executor.py:398`). Nothing is assumed of the clock, of
the choice among outcomes, or of success. `KubernetesExecutor` assumes `WF_vars(SessionStep)`,
its refinement of that: every request carries `API_TIMEOUT`, so `execute` goes on.
Nothing is assumed of the clusters: a Job may run forever and a create stay in flight.
`RunComplete` stutters at the
end of the trace, and `Finished` once all captures have ended, so that deadlock checking stays on for every
other state. `CarbonCache` assumes no fairness: a capture may end at any point and only safety is stated. The same
holds for `RunLedger`, where deadlock is not checked either, since all processes may have ended, and for
`PlacedSessions`: that sessions and runs end is stated of its two parts. `DecisionCycle` asks
`WF_vars(Next)` of the workflow, which follows from `ControllerStep`'s. `LlmExchange` assumes
`WF_exchangeVars(ExchangeNext)`: a request ends, since `requests` gives up on a server that
says nothing for `timeout_seconds` (a server that sends a byte now and then is taken to end).

## Findings

1. `workflow_refusal_alert`: the fallback's refusal at the deadline starts no session,
   yet `_data_integrity_response` (`workflow.py:368-376`) replaces its critical alert
   by a warning. `tests/test_gate_v21.py:211-212` asserts a critical alert for a refusal;
   no test refuses a fallback.
2. `workflow_langgraph_deadline`: `_lg_execute` (`workflow.py:620`) has no deadline
   check, while the comment at `workflow.py:187-190` and `README.md:160` promise one.
3. `executor_logs`: `_job_logs` guards the read of each Pod's log, "not a reason to hide
   completion" (`executor.py:422`), but not the call that lists the Pods (line 402). If that
   fails, a session whose Job succeeded is reported as failed, and after the reset the
   benchmark is not run.
4. `cache_newest`: `fetch_region` uses "the newest valid cache on failure"
   (`carbon_client.py:232`), but `load_latest` reads the one file `latest.json` names, and that is
   replaced after the snapshot file (line 103). A capture that ends in between leaves valid
   data no fallback finds, and overlapping captures may leave the pointer at the older file.

## Proofs

All theorems about the workflow hold for every trace, catalog, window, proposal set, set of
deployments and length of run, under the named assumptions `SchedulingAssumption`,
`TrustAssumption` and `WorkflowAssumption`: types of the constants, a default region among
the regions, a window that is not empty, and a `None` that is not a value of
the data. TLC evaluates them in every run.

- `TypeOK` is not inductive: `RecordCycle` reads the result and the action,
  `BeginHold` the catalog row of the remembered region, `RunMilp` a reference solved
  two steps before. `Inv` adds what each step relies on (`CycleShape`), that a
  reference belongs to the current snapshot (`ReferenceIsCurrent`), that the remembered
  region is in the catalog, and `ActionExecutable`, on which the last rests.
  `TypeCorrect` and `ActionsExecutable` follow.
- `HybridActionsNearOptimal` adds the path of a cycle (no source before the
  choice) and rests on two facts about the operators: `AdmittedIsNearOptimal` (the
  regret rail gives the upper bound; the feasibility rail the lower, since the slot of a start has one
  region and one time, so its cheapest candidate is feasible too) and
  `FallbackIsNearOptimal` (the gate reads the optimum back out of the MILP's own choice).
- `DirectEntryInTime` and `DirectDataAgeBounded` assume `DirectBackend`: every deployment
  uses the direct backend. Finding 2 shows that the assumption is needed. The second
  adds the ages established when the cycle began; what may be added to them is
  what was left of the window.
- `FailedInputsNeverDecide` and `HoldsKeepPlacement` need the memory expressed through the
  log: `LkgIsLatestClean`, `PlacementIsLatest`.

`CycleContractSafety` maps every step of the workflow to a step of `DecisionCycle` or a stutter:
the initial states by definition, and each action in a lemma of its own, with `CycleInv` (one record
per finished cycle; a placed session has a receipt, so a region) beside the invariants above.

What a record tells (`SourcesAreDeciders`, `QuietRecordsAreClean`, `UnstartedCyclesHaveACause`) rests on two more
invariants. `CyclePath` and `InferredIsDecider` say which steps a cycle can have taken when it acts, so that
the source `_stamp` infers from the mode and the fallback flag is the decider. `ChecksInputs` and `ResultTells` say what an
outcome may be: a cycle past its start either passed the data rails or carries the source of a
fallback, a hybrid result never blames the proposal, and one that starts nothing has the cause it names. The
two are proved of the result before its record, and `LedgerTruth` carries them to every record of the log; a
deadline that was over when an action was refused stays over, since no step turns the clock back.

The theorems about a decision of the gate hold for every set of snapshots, proposals and evaluations,
under `GateAssumption` (types; the snapshots passed the data rails), and whatever the number of forecast points. The reference definitions of
`GateDecision` choose a minimum of a computed set, so the proof starts from the least-number
principle (`WFMin` of the library): a nonempty set of intensities has a minimum and times before a deadline
have a latest one, with no assumption that a forecast is finite. `InForceIsReached` then
equates the slot the rails read from the request with the value in force: if the forecast has
no usable point after the start, both are the values at the start; otherwise both are those of the
latest usable point. `OptimalIsCheapestInForce` follows in both directions (each value in
force at a reachable start is that of a feasible candidate, and the optimum is in force at its own start), and
the three theorems from it with `GateInv`, which ties the reference to the snapshot and an admission to the rails.

The theorems about the exchange hold for every trace, store content and ranking, prompt size and
number of attempts, under `RetrievalAssumption`, `AgentAssumption` and `ExchangeAssumption` (types; a window
larger than its reserve). `ContextFromThePast` is inductive as it stands: a search gives known
records only. `OwnContextIsShown` needs `StoreInv`: the store holds records of the trace only
and, when searched, the decision's own; then the decision's own is the one newest of its kind, in memory
no other outranks it, and in Qdrant a search within its depth gives all. `OverflowsAreOwn` follows from it.
`FailureClassesTruthful` and `CallsRecorded` need `Pending`: while an answer is awaited every
earlier one was unusable, their number is that of the attempt, and the flag says whether one was missing.

The theorems about the executor hold for every number of regions, cycles, attempts, polls and
repetitions, under `ExecutorAssumption` (types, at least one attempt, `None` is not a session).
Its inductive invariant `Inv` adds to the five safety invariants what ties the
controller to the clusters: once a session handles its benchmark its reset has succeeded and
is among the artifacts, a Job past the wait has succeeded (`SessionShape`), and a benchmark
create is in flight only after its reset succeeded (`BenchmarkOwesReset`). Each group of
actions is a lemma. `ContractSafety` maps every step to a step of `BenchmarkSession` or a stutter:
`JobEnds` to `Prepare` or `Measure`, `BeginSession` to `Call`, the receipts to `Return`,
`Restart` to `Abandon`.

The theorems about `PlacedSessions` keep that invariant (`ExecutorKeptInRun`: every step of the composition is a
step of the executor or leaves it alone) and add, under `PlacedAssumption`, what relates the two halves: the workflow is in a
session exactly while `execute` has not returned, of the cycle after the last record (`InStep`); every
session in `unfinished` is on record as failed, about to be, or inherited (`UnfinishedOnRecord`); what is reported or
recorded as placed has both Jobs succeeded (`PlacedAreMeasured`, kept because a Job that
succeeded stays so); the placement is that of the latest placed record. `StraysAreOnRecord` is
then `StrayJobsAnnounced` read through `UnfinishedOnRecord`.

The theorems about the run directory hold for every number of processes, inputs, cycles and rewrites, under
`LedgerAssumption` (types; the trace is among the inputs). `LedgerInv` has two parts. For every process: it gets past the
look for a manifest only if there was none (`WorkersFoundFree`), and the hashes it puts into a
manifest are complete (`HashesFollow`). For a process that had the directory to itself
(`SoleRun`): the log is one line per completed cycle and what its end may have left (`SoleLog`), the manifest is
its own and no copy is written twice (`SoleFiles`), and what a summary has verified or loaded stays
true (`SoleSummary`), since a copy that matched the manifest is never replaced. `FinishedRunsStay` is an action property:
whoever did not find the id free only looks (`OutsidersOnlyLook`).

The theorems about the cache hold for every number of captures, regions, cycles, instants and
damaged files, and any assignment of folders, under `CacheAssumption` (types; regions are listed once).
The inductive invariant adds that `latest.json` names the file listed last
(`LatestIsLastListed`, from which `LagsOnlyByOverlap` follows), and for each capture that its records
are exactly those of the regions it is past (`RecordsFollow`), in order (`RecordsInOrder`). A
capture that waits between the two writes has its file on disk (`CaptureShape`), which gives
`PointerNeverDangles`. Lemmas keep the parts of a capture apart from the disk.

Every safety property of the passing runs is stated by one of these theorems. Only
model-checked are `RunCompletes`, `ExchangeCompletes` and the liveness parts of `KeepsContract` and
`KeepsCycleContract`: liveness under fairness and `ENABLED` are out of the prover's reach. The runs with a finding
are counterexamples. The workflow of `PlacedSessions` is its specification
`DecisionCycle`; that the real one implements it is `CycleContractSafety`, but the two are not composed
in one module.

## Plan

What is left, in this order:

1. Proof: the safety part of `BenchmarkSession` and of `DecisionCycle` for the composition, so that the
   contracts hold of `PlacedSessions` as a whole and not only of its parts.
2. Proofs about `as_built`: what its score rule does imply of an admitted proposal.
3. Lemmas: `Optimal` has one element when no two candidates are equal, as `RegionOrder` is injective, so that
   the solver's choice is a function of the snapshot.

## Not modelled

The dashboard poller (`web/server.py`): one thread refreshes one dictionary under a lock and only the
page reads it; no run, capture or session depends on it. Its weak spot is listed among the
hazards: a zone that failed keeps its last value and is compared with a fresh one
(`web/server.py:163`).

Telemetry, settings and command-line parsing, graph ingestion, bootstrap,
preflight and plotting scripts, dashboard pages and manifests: configuration,
presentation or pure I/O without behaviour of their own. RAGAS and the LLM are
inputs. PuLP is external: it may fail on a feasible problem, and the
selection does not depend on its answer.
