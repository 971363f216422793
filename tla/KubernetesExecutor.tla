------------------------- MODULE KubernetesExecutor -------------------------
(***************************************************************************)
(* KubernetesBenchmarkExecutor (src/carbon_scheduler/executor.py) and the  *)
(* regional clusters it talks to.  A session of a cycle creates a reset    *)
(* Job, waits for it, then creates a benchmark Job and waits for that.     *)
(*                                                                         *)
(* Every call to the Kubernetes API may be answered, refused with an API   *)
(* error, or left unanswered (a transport error).  A create without an     *)
(* answer may have reached the API server, may reach it later, or never.   *)
(* Jobs run and end on their own: the executor never deletes one, and its  *)
(* names are a function of the cycle, so a run repeated under the same run *)
(* id finds the Jobs of the earlier one.                                   *)
(***************************************************************************)
EXTENDS Integers, Sequences

CONSTANTS
  Regions,      \* keys of targets
  NumCycles,    \* cycles of the trace
  ApiAttempts,  \* API_ATTEMPTS
  JobTimeout,   \* polls that fit in job_timeout_seconds
  MaxRestarts,  \* bound: how often the run is repeated under its run id
  None          \* no session

ASSUME ExecutorAssumption ==
  /\ NumCycles \in Nat /\ JobTimeout \in Nat /\ MaxRestarts \in Nat
  /\ ApiAttempts \in Nat \ {0}
  /\ None \notin [cycle : 1..NumCycles, region : Regions]

VARIABLES
  jobs,        \* state of every Job, as the API servers know it
  inFlight,    \* creates without an answer that may still reach the server
  pc,          \* the step of execute the controller thread is at
  cycle, region,
  kind,        \* the Job being handled: "reset", then "benchmark"
  attempt,     \* attempt of _ensure_job
  waited,      \* polls since the current wait began
  artifacts,   \* kinds of Job whose log the session has saved
  log,         \* the receipts of the run
  unfinished,  \* history: sessions whose latest attempt gave no clean receipt
  restarts

clusterVars == <<jobs, inFlight>>
sessionVars == <<cycle, region, kind>>
runVars == <<log, unfinished, restarts>>
vars == <<clusterVars, pc, sessionVars, attempt, waited, artifacts, runVars>>

Kinds == {"reset", "benchmark"}
Cycles == 1..NumCycles
Session == [cycle : Cycles, region : Regions]
JobId == [cycle : Cycles, region : Regions, kind : Kinds]
JobState == {"absent", "running", "succeeded", "failed"}
Step == {"idle", "frontend", "inspect", "create", "wait", "logs"}
\* Why a session failed: nothing was created yet (credentials, frontend, template);
\* the Job could not be read or created; its wait ended without a verdict.
Cause == {"setup", "api", "failed", "wait", "logs", "script"}
Receipt == [cycle : Cycles, region : Regions, cause : Cause \cup {"none"},
            kind : Kinds, artifacts : SUBSET Kinds]

JobOf(c, r, k) == [cycle |-> c, region |-> r, kind |-> k]
\* _job_name: one name per kind and cycle, in the cluster of the region.
Job == JobOf(cycle, region, kind)
CurrentSession == [cycle |-> cycle, region |-> region]

Init ==
  /\ jobs = [j \in JobId |-> "absent"] /\ inFlight = {}
  /\ pc = "idle" /\ cycle = 0 /\ region \in Regions /\ kind = "reset"
  /\ attempt = 1 /\ waited = 0 /\ artifacts = {}
  /\ log = <<>> /\ unfinished = {} /\ restarts = 0

-----------------------------------------------------------------------------
(* The session.                                                            *)

\* A cycle hands its action to execute; cycles in between placed no session.
\* _wait_until_scheduled passes before anything else is done.
BeginSession(c, r) ==
  /\ pc = "idle" /\ c > cycle
  /\ cycle' = c /\ region' = r /\ kind' = "reset"
  /\ pc' = "frontend"
  /\ UNCHANGED <<clusterVars, attempt, waited, artifacts, runVars>>

\* The locals of execute are gone.
LeaveExecute ==
  /\ pc' = "idle" /\ kind' = "reset" /\ attempt' = 1 /\ waited' = 0 /\ artifacts' = {}

ReceiptFor(cause, saved) ==
  [cycle |-> cycle, region |-> region, cause |-> cause, kind |-> kind, artifacts |-> saved]

\* execute's except clause: whatever failed becomes a failed receipt.
FailWith(cause, saved) ==
  /\ log' = Append(log, ReceiptFor(cause, saved))
  /\ unfinished' = unfinished \cup {CurrentSession}
  /\ LeaveExecute
  /\ UNCHANGED <<cycle, region, restarts>>

\* Mutated form: a failed wait is reported without the Job's output.
NotCaptured == artifacts

\* What the best-effort _capture_job_logs leaves after a failed wait.
Captured == artifacts \cup {kind}

Unprepared ==
  /\ pc = "frontend"
  /\ FailWith("setup", artifacts)
  /\ UNCHANGED clusterVars

\* One more poll without the answer waited for.
StillTime == waited < JobTimeout
PollAgain ==
  /\ StillTime
  /\ waited' = waited + 1
  /\ UNCHANGED <<clusterVars, pc, sessionVars, attempt, artifacts, runVars>>

FrontendPending == pc = "frontend" /\ PollAgain

FrontendReady ==
  /\ pc = "frontend"
  /\ pc' = "inspect" /\ attempt' = 1 /\ waited' = 0
  /\ UNCHANGED <<clusterVars, sessionVars, artifacts, runVars>>

-----------------------------------------------------------------------------
(* _ensure_job                                                             *)

StartWaiting ==
  /\ pc' = "wait" /\ waited' = 0 /\ attempt' = 1
  /\ UNCHANGED <<sessionVars, artifacts, runVars>>

\* Mutated form: an attempt is not counted.
SameAttempt(n) == n

\* Mutated form: the read and the create are counted as two attempts.
CountsTwice(n) == n + 2

NextAttempt(n) == n + 1

\* No answer: start over from the read, or give up after the last attempt.
RetryEnsure ==
  IF attempt = ApiAttempts
    THEN FailWith("api", artifacts)
    ELSE /\ attempt' = NextAttempt(attempt) /\ pc' = "inspect"
         /\ UNCHANGED <<sessionVars, waited, artifacts, runVars>>

JobFound ==
  /\ pc = "inspect" /\ jobs[Job] /= "absent"
  /\ StartWaiting
  /\ UNCHANGED clusterVars

JobMissing ==
  /\ pc = "inspect" /\ jobs[Job] = "absent"
  /\ pc' = "create"
  /\ UNCHANGED <<clusterVars, sessionVars, attempt, waited, artifacts, runVars>>

InspectUnanswered == pc = "inspect" /\ RetryEnsure /\ UNCHANGED clusterVars

ApiRefuses ==
  /\ pc \in {"inspect", "create"}
  /\ FailWith("api", artifacts)
  /\ UNCHANGED clusterVars

Created(j) == [jobs EXCEPT ![j] = IF @ = "absent" THEN "running" ELSE @]

\* Created, or refused with 409 since the Job is there already: both will do.
CreateAnswered ==
  /\ pc = "create"
  /\ jobs' = Created(Job)
  /\ StartWaiting
  /\ UNCHANGED inFlight

\* The reply was lost: the create took effect, is still on its way, or is gone.
CreateUnanswered ==
  /\ pc = "create"
  /\ \/ jobs' = Created(Job) /\ UNCHANGED inFlight
     \/ inFlight' = inFlight \cup {Job} /\ UNCHANGED jobs
     \/ UNCHANGED clusterVars
  /\ RetryEnsure

-----------------------------------------------------------------------------
(* _wait_for_job                                                           *)

\* Mutated form: any status that says the Job is over ends the wait.
JobIsOver == jobs[Job] \in {"succeeded", "failed"}

JobIsDone == jobs[Job] = "succeeded"

JobDone ==
  /\ pc = "wait" /\ JobIsDone
  /\ pc' = "logs" /\ waited' = 0
  /\ UNCHANGED <<clusterVars, sessionVars, attempt, artifacts, runVars>>

\* Not finished yet, or no answer this time.
JobPending == pc = "wait" /\ PollAgain

\* Mutated form: a wait that ran out of time goes on with the session.
GiveUpWaiting ==
  /\ pc = "wait" /\ ~StillTime
  /\ pc' = "logs" /\ waited' = 0
  /\ UNCHANGED <<clusterVars, sessionVars, attempt, artifacts, runVars>>

\* The last poll found the Job running, or was not answered.
JobTimesOut ==
  /\ pc = "wait" /\ ~StillTime
  /\ FailWith("wait", Captured)
  /\ UNCHANGED clusterVars

\* status.failed is set, or the read of the status is refused.
JobUnusable ==
  /\ pc = "wait"
  /\ \E cause \in {"wait"} \cup (IF jobs[Job] = "failed" THEN {"failed"} ELSE {}) :
       FailWith(cause, Captured)
  /\ UNCHANGED clusterVars

-----------------------------------------------------------------------------
(* _job_logs, _save_logs and what follows them.                            *)

\* The Pods of a finished Job cannot be listed: the session fails, whether the
\* benchmark is still to come or done.
LogsUnavailable ==
  /\ pc = "logs"
  /\ FailWith("logs", artifacts)
  /\ UNCHANGED clusterVars

ResetComplete ==
  /\ pc = "logs" /\ kind = "reset"
  /\ artifacts' = artifacts \cup {"reset"}
  /\ kind' = "benchmark"
  /\ pc' = "frontend"
  /\ UNCHANGED <<clusterVars, cycle, region, attempt, waited, runVars>>

\* benchmark_script_error: the numbers measure the wrong request.
ScriptNotLoaded ==
  /\ pc = "logs" /\ kind = "benchmark"
  /\ FailWith("script", artifacts \cup {"benchmark"})
  /\ UNCHANGED clusterVars

BenchmarkComplete ==
  /\ pc = "logs" /\ kind = "benchmark"
  /\ log' = Append(log, ReceiptFor("none", artifacts \cup {"benchmark"}))
  /\ unfinished' = unfinished \ {CurrentSession}
  /\ LeaveExecute
  /\ UNCHANGED <<clusterVars, cycle, region, restarts>>

\* The process ends, at any point, and the run is repeated from its first cycle
\* under the same run id with a fresh run root (an existing one is refused).
Restart ==
  /\ restarts < MaxRestarts
  /\ restarts' = restarts + 1
  /\ LeaveExecute /\ cycle' = 0 /\ log' = <<>>
  /\ unfinished' = IF pc = "idle" THEN unfinished ELSE unfinished \cup {CurrentSession}
  /\ UNCHANGED <<clusterVars, region>>

RunComplete == pc = "idle" /\ cycle = NumCycles /\ UNCHANGED vars

-----------------------------------------------------------------------------
(* The clusters: backoffLimit 0, one Pod per Job.                          *)

JobEnds(j) ==
  /\ jobs[j] = "running"
  /\ \E s \in {"succeeded", "failed"} : jobs' = [jobs EXCEPT ![j] = s]
  /\ UNCHANGED <<inFlight, pc, sessionVars, attempt, waited, artifacts, runVars>>

CreateArrives(j) ==
  /\ j \in inFlight
  /\ jobs' = Created(j) /\ inFlight' = inFlight \ {j}
  /\ UNCHANGED <<pc, sessionVars, attempt, waited, artifacts, runVars>>

Cluster == \E j \in JobId : JobEnds(j) \/ CreateArrives(j)

SessionStep ==
  \/ Unprepared \/ FrontendPending \/ FrontendReady
  \/ JobFound \/ JobMissing \/ InspectUnanswered \/ ApiRefuses
  \/ CreateAnswered \/ CreateUnanswered
  \/ JobDone \/ JobPending \/ JobTimesOut \/ JobUnusable
  \/ LogsUnavailable \/ ResetComplete \/ ScriptNotLoaded \/ BenchmarkComplete

Next ==
  \/ \E c \in Cycles, r \in Regions : BeginSession(c, r)
  \/ SessionStep \/ Restart \/ Cluster \/ RunComplete

\* Only the controller's thread is owed progress: every call carries a timeout.
Fairness == WF_vars(SessionStep)

Spec == Init /\ [][Next]_vars /\ Fairness

-----------------------------------------------------------------------------
(* Correctness.                                                            *)

\* The types of the executor's state and of the clusters'.
TypeOK ==
  /\ jobs \in [JobId -> JobState] /\ inFlight \subseteq JobId
  /\ pc \in Step
  /\ cycle \in 0..NumCycles /\ region \in Regions /\ kind \in Kinds
  /\ attempt \in 1..ApiAttempts /\ waited \in 0..JobTimeout
  /\ artifacts \subseteq Kinds
  /\ log \in Seq(Receipt) /\ unfinished \subseteq Session
  /\ restarts \in 0..MaxRestarts

Clean(rec) == rec.cause = "none"
SessionOf(x) == [cycle |-> x.cycle, region |-> x.region]

\* No benchmark Job comes into being in a cluster, late creates and repeated
\* runs included, before the reset Job of its own cycle there has succeeded
\* (run_experiment.py:152, "each independent regional session requires a reset").
BenchmarkFollowsReset ==
  \A s \in Session :
    jobs[JobOf(s.cycle, s.region, "benchmark")] /= "absent" =>
      jobs[JobOf(s.cycle, s.region, "reset")] = "succeeded"

\* A receipt agrees with the cluster: a clean one has both Jobs succeeded, and
\* "Job failed" is said of the Job that failed (execute, _wait_for_job).
ReceiptsTruthful ==
  \A i \in DOMAIN log :
    LET rec == log[i] IN
    /\ Clean(rec) => \A k \in Kinds : jobs[JobOf(rec.cycle, rec.region, k)] = "succeeded"
    /\ rec.cause = "failed" => jobs[JobOf(rec.cycle, rec.region, rec.kind)] = "failed"

\* Whatever runs, or may still start to run, in a cluster belongs to the open
\* session or to one whose latest attempt gave no clean receipt.  So nothing
\* runs beside a session unless an earlier one is on record as failed or was cut
\* off by a crash (the executor deletes no Job).
StrayJobsAnnounced ==
  \A j \in JobId :
    jobs[j] = "running" \/ (jobs[j] = "absent" /\ j \in inFlight) =>
      \/ pc /= "idle" /\ SessionOf(j) = CurrentSession
      \/ SessionOf(j) \in unfinished

\* Once a session has waited for a Job, its receipt carries that Job's log
\* however the wait ended (executor.py:183-185, "otherwise a failed fixture reset
\* would leave no evidence"), and the reset's log if it got to the benchmark.
FailureLeavesEvidence ==
  \A i \in DOMAIN log :
    LET rec == log[i] IN
    /\ rec.cause \in {"none", "failed", "wait", "script"} =>
         rec.kind \in rec.artifacts
    /\ rec.kind = "benchmark" => "reset" \in rec.artifacts

\* What the comment at executor.py:422 promises: logs are no reason to hide that
\* a Job was completed.
LogsHideNothing ==
  \A i \in DOMAIN log :
    log[i].cause = "logs" => jobs[JobOf(log[i].cycle, log[i].region, log[i].kind)] /= "succeeded"

Succeeded(k) == {s \in Session : jobs[JobOf(s.cycle, s.region, k)] = "succeeded"}

OutcomeOf(rec) ==
  [session |-> SessionOf(rec), outcome |-> IF Clean(rec) THEN "executed" ELSE "execution_failed"]

Contract == INSTANCE BenchmarkSession WITH
  Sessions <- Session,
  current <- IF pc = "idle" THEN None ELSE CurrentSession,
  prepared <- Succeeded("reset"),
  measured <- Succeeded("benchmark"),
  outcomes <- [i \in DOMAIN log |-> OutcomeOf(log[i])]

\* The executor keeps its contract with the workflow, refused and unanswered
\* calls, late creates and crashes included; in particular every call returns.
KeepsContract == Contract!Spec

=============================================================================
