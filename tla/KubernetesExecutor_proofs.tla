---------------------- MODULE KubernetesExecutor_proofs ----------------------
(***************************************************************************)
(* Proofs about KubernetesExecutor, for any number of clusters, cycles,    *)
(* attempts, polls and repetitions of the run, and, in the last part,      *)
(* about its composition with the workflow in PlacedSessions, which keeps  *)
(* the executor's invariant and rests on it.                               *)
(***************************************************************************)
EXTENDS PlacedSessions, TLAPS

-----------------------------------------------------------------------------
(* The inductive invariant.                                                *)

\* What the controller thread knows at each step of a session.
SessionShape ==
  pc /= "idle" =>
    /\ cycle \in Cycles
    /\ kind = "benchmark" =>
         "reset" \in artifacts /\ jobs[JobOf(cycle, region, "reset")] = "succeeded"
    /\ pc = "logs" => jobs[Job] = "succeeded"

\* BenchmarkFollowsReset, for the creates on their way as well.
BenchmarkOwesReset ==
  \A s \in Session :
    LET b == JobOf(s.cycle, s.region, "benchmark") IN
    jobs[b] /= "absent" \/ b \in inFlight =>
      jobs[JobOf(s.cycle, s.region, "reset")] = "succeeded"

Inv ==
  /\ TypeOK /\ SessionShape /\ BenchmarkOwesReset
  /\ StrayJobsAnnounced /\ ReceiptsTruthful /\ FailureLeavesEvidence

\* All a session's step may do to the clusters: finished Jobs stay as they are,
\* and only the Job being handled comes into being.
OnlyTouchesJob ==
  /\ jobs' \in [JobId -> JobState] /\ inFlight' \subseteq JobId
  /\ \A j \in JobId : jobs[j] \in {"succeeded", "failed"} => jobs'[j] = jobs[j]
  /\ \A j \in JobId : j /= Job => jobs'[j] = jobs[j] /\ (j \in inFlight' => j \in inFlight)

\* The Jobs of sessions are told apart by cycle, cluster and kind.
LEMMA JobIdentity ==
  /\ \A s \in Session, k \in Kinds :
       /\ JobOf(s.cycle, s.region, k) \in JobId
       /\ SessionOf(JobOf(s.cycle, s.region, k)) = s
       /\ JobOf(s.cycle, s.region, k).kind = k
  /\ \A j \in JobId : SessionOf(j) \in Session /\ j = JobOf(j.cycle, j.region, j.kind)
                      /\ j.kind \in Kinds
  /\ TypeOK /\ cycle \in Cycles =>
       CurrentSession \in Session /\ Job \in JobId /\ SessionOf(Job) = CurrentSession
         /\ Job.kind = kind
BY DEF JobOf, JobId, Session, SessionOf, CurrentSession, Job, TypeOK

LEMMA InitInv == Init => Inv
<1>. SUFFICES ASSUME Init PROVE Inv
  OBVIOUS
<1>1. TypeOK
  BY ExecutorAssumption DEF Init, TypeOK, JobState, Step, Kinds
<1>2. SessionShape /\ ReceiptsTruthful /\ FailureLeavesEvidence
  BY DEF Init, SessionShape, ReceiptsTruthful, FailureLeavesEvidence
<1>3. BenchmarkOwesReset /\ StrayJobsAnnounced
  BY JobIdentity DEF Init, BenchmarkOwesReset, StrayJobsAnnounced, Kinds
<1>. QED BY <1>1, <1>2, <1>3 DEF Inv

\* A receipt names Jobs of its session.
LEMMA ReceiptJobs ==
  ASSUME TypeOK, NEW i \in DOMAIN log
  PROVE  /\ log[i].kind \in Kinds
         /\ \A k \in Kinds : JobOf(log[i].cycle, log[i].region, k) \in JobId
<1>1. log[i] \in Receipt
  BY DEF TypeOK
<1>. QED BY <1>1 DEF Receipt, JobOf, JobId

\* What was said of Jobs that are over stays true.
LEMMA ReceiptsKept ==
  ASSUME Inv, log' = log, jobs' \in [JobId -> JobState],
         \A j \in JobId : jobs[j] \in {"succeeded", "failed"} => jobs'[j] = jobs[j]
  PROVE  ReceiptsTruthful' /\ FailureLeavesEvidence'
<1>1. ASSUME NEW i \in DOMAIN log
      PROVE  /\ log[i].kind \in Kinds
             /\ \A k \in Kinds : JobOf(log[i].cycle, log[i].region, k) \in JobId
  BY ReceiptJobs DEF Inv
<1>2. ReceiptsTruthful'
  BY <1>1 DEF Inv, ReceiptsTruthful, Clean, Kinds
<1>3. FailureLeavesEvidence'
  BY DEF Inv, FailureLeavesEvidence
<1>. QED BY <1>2, <1>3

\* A receipt that is itself truthful and complete keeps the log so.
LEMMA ReceiptAdded ==
  ASSUME Inv, OnlyTouchesJob, pc /= "idle",
         NEW cause \in Cause \cup {"none"}, NEW saved \in SUBSET Kinds,
         log' = Append(log, ReceiptFor(cause, saved)),
         cause = "none" => kind = "benchmark" /\ jobs[Job] = "succeeded",
         cause = "failed" => jobs[Job] = "failed",
         artifacts \subseteq saved,
         cause \in {"none", "failed", "wait", "script"} => kind \in saved
  PROVE  /\ log' \in Seq(Receipt)
         /\ ReceiptsTruthful' /\ FailureLeavesEvidence'
<1>. DEFINE rec == ReceiptFor(cause, saved)
<1>1. rec \in Receipt
  BY DEF Inv, TypeOK, SessionShape, ReceiptFor, Receipt
<1>2. log \in Seq(Receipt) /\ log' \in Seq(Receipt)
  BY <1>1 DEF Inv, TypeOK
<1>3. \A i \in DOMAIN log' : (i \in DOMAIN log /\ log'[i] = log[i]) \/ log'[i] = rec
  BY <1>1, <1>2
<1>4. ASSUME NEW i \in DOMAIN log
      PROVE  /\ log[i].kind \in Kinds
             /\ \A k \in Kinds : JobOf(log[i].cycle, log[i].region, k) \in JobId
  BY ReceiptJobs DEF Inv
<1>5. /\ rec.cause = cause /\ rec.kind = kind /\ rec.artifacts = saved
      /\ rec.cycle = cycle /\ rec.region = region
  BY DEF ReceiptFor
<1>6. /\ Job \in JobId /\ kind \in Kinds /\ Job = JobOf(cycle, region, kind)
      /\ JobOf(cycle, region, "reset") \in JobId
  BY DEF Inv, TypeOK, SessionShape, Job, JobOf, JobId, Kinds
<1>7. cause = "none" => \A k \in Kinds : jobs'[JobOf(cycle, region, k)] = "succeeded"
  BY <1>6 DEF Inv, SessionShape, OnlyTouchesJob, Kinds
<1>8. cause = "failed" => jobs'[JobOf(cycle, region, kind)] = "failed"
  BY <1>6 DEF OnlyTouchesJob
<1>9. ReceiptsTruthful'
  <2>. SUFFICES ASSUME NEW i \in DOMAIN log'
                PROVE  /\ log'[i].cause = "none" =>
                            \A k \in Kinds : jobs'[JobOf(log'[i].cycle, log'[i].region, k)] = "succeeded"
                       /\ log'[i].cause = "failed" =>
                            jobs'[JobOf(log'[i].cycle, log'[i].region, log'[i].kind)] = "failed"
    BY DEF ReceiptsTruthful, Clean
  <2>1. CASE i \in DOMAIN log /\ log'[i] = log[i]
    BY <2>1, <1>4 DEF Inv, ReceiptsTruthful, Clean, OnlyTouchesJob
  <2>2. CASE log'[i] = rec
    <3>1. /\ log'[i].cause = cause /\ log'[i].cycle = cycle
          /\ log'[i].region = region /\ log'[i].kind = kind
      BY <2>2, <1>5
    <3>. HIDE DEF rec
    <3>. QED BY <3>1, <1>7, <1>8
  <2>. QED BY <2>1, <2>2, <1>3
<1>10. kind = "benchmark" => "reset" \in saved
  BY DEF Inv, SessionShape
<1>11. FailureLeavesEvidence'
  BY <1>3, <1>5, <1>10 DEF Inv, FailureLeavesEvidence
<1>. QED BY <1>2, <1>9, <1>11

-----------------------------------------------------------------------------
(* Steps of an open session.                                               *)

\* A benchmark Job comes into being in a session whose reset is done.
LEMMA ResetStillOwed ==
  ASSUME Inv, pc /= "idle", OnlyTouchesJob
  PROVE  BenchmarkOwesReset'
<1>. SUFFICES ASSUME NEW s \in Session,
                     \/ jobs'[JobOf(s.cycle, s.region, "benchmark")] /= "absent"
                     \/ JobOf(s.cycle, s.region, "benchmark") \in inFlight'
              PROVE  jobs'[JobOf(s.cycle, s.region, "reset")] = "succeeded"
  BY DEF BenchmarkOwesReset
<1>. DEFINE b == JobOf(s.cycle, s.region, "benchmark")
            r == JobOf(s.cycle, s.region, "reset")
<1>1. b \in JobId /\ r \in JobId /\ b.kind = "benchmark" /\ SessionOf(b) = s
  BY JobIdentity DEF Kinds
<1>2. CASE b = Job
  <2>1. kind = "benchmark" /\ s = CurrentSession
    BY <1>1, <1>2, JobIdentity DEF Inv, SessionShape
  <2>2. jobs[r] = "succeeded"
    BY <2>1 DEF Inv, SessionShape, CurrentSession
  <2>. QED BY <2>2, <1>1 DEF OnlyTouchesJob
<1>3. CASE b /= Job
  <2>1. jobs[b] /= "absent" \/ b \in inFlight
    BY <1>1, <1>3 DEF OnlyTouchesJob
  <2>2. jobs[r] = "succeeded"
    BY <2>1 DEF Inv, BenchmarkOwesReset
  <2>. QED BY <2>2, <1>1 DEF OnlyTouchesJob
<1>. QED BY <1>2, <1>3

\* What runs still belongs to the open session or to an unfinished one.
LEMMA StraysStillAnnounced ==
  ASSUME Inv, pc /= "idle", OnlyTouchesJob,
         NEW j \in JobId, jobs'[j] = "running" \/ (jobs'[j] = "absent" /\ j \in inFlight')
  PROVE  SessionOf(j) = CurrentSession \/ SessionOf(j) \in unfinished
<1>1. CASE j = Job
  BY <1>1, JobIdentity DEF Inv, SessionShape
<1>2. CASE j /= Job
  BY <1>2 DEF Inv, StrayJobsAnnounced, OnlyTouchesJob
<1>. QED BY <1>1, <1>2

\* Every way a session fails.
LEMMA FailInv ==
  ASSUME Inv, pc /= "idle", OnlyTouchesJob,
         NEW cause \in Cause, NEW saved \in SUBSET Kinds, FailWith(cause, saved),
         cause = "failed" => jobs[Job] = "failed",
         artifacts \subseteq saved,
         cause \in {"failed", "wait", "script"} => kind \in saved
  PROVE  Inv'
<1>1. cause /= "none"
  BY DEF Cause
<1>2. log' \in Seq(Receipt) /\ ReceiptsTruthful' /\ FailureLeavesEvidence'
  BY <1>1, ReceiptAdded DEF FailWith
<1>3. CurrentSession \in Session
  BY JobIdentity DEF Inv, SessionShape
<1>4. TypeOK'
  BY <1>2, <1>3, ExecutorAssumption
     DEF Inv, TypeOK, FailWith, LeaveExecute, OnlyTouchesJob, Step, Kinds
<1>5. SessionShape'
  BY DEF SessionShape, FailWith, LeaveExecute
<1>6. StrayJobsAnnounced'
  BY StraysStillAnnounced DEF StrayJobsAnnounced, FailWith
<1>. QED BY <1>2, <1>4, <1>5, <1>6, ResetStillOwed DEF Inv

\* A step that leaves the clusters alone.
LEMMA ClustersUntouched ==
  ASSUME Inv, UNCHANGED clusterVars
  PROVE  OnlyTouchesJob
BY DEF Inv, TypeOK, clusterVars, OnlyTouchesJob

\* Every step on which the session goes on: what is left to show is that the
\* locals of execute have their types and that SessionShape holds.
LEMMA GoOnInv ==
  ASSUME Inv, pc /= "idle", pc' /= "idle", OnlyTouchesJob,
         UNCHANGED <<cycle, region, runVars>>,
         pc' \in Step, kind' \in Kinds, attempt' \in 1..ApiAttempts,
         waited' \in 0..JobTimeout, artifacts' \subseteq Kinds,
         SessionShape'
  PROVE  Inv'
<1>1. TypeOK'
  BY DEF Inv, TypeOK, OnlyTouchesJob, runVars
<1>2. StrayJobsAnnounced'
  BY StraysStillAnnounced DEF StrayJobsAnnounced, runVars, CurrentSession
<1>3. ReceiptsTruthful' /\ FailureLeavesEvidence'
  BY ReceiptsKept DEF OnlyTouchesJob, runVars
<1>. QED BY <1>1, <1>2, <1>3, ResetStillOwed DEF Inv

\* The create of the current Job, if it takes effect, takes effect on that Job only.
LEMMA CreateTouchesJob ==
  ASSUME Inv, pc /= "idle",
         \/ jobs' = Created(Job) /\ UNCHANGED inFlight
         \/ inFlight' = inFlight \cup {Job} /\ UNCHANGED jobs
         \/ UNCHANGED clusterVars
  PROVE  OnlyTouchesJob
<1>1. Job \in JobId
  BY JobIdentity DEF Inv, SessionShape
<1>2. CASE jobs' = Created(Job) /\ UNCHANGED inFlight
  BY <1>1, <1>2 DEF Inv, TypeOK, JobState, Created, OnlyTouchesJob
<1>3. CASE inFlight' = inFlight \cup {Job} /\ UNCHANGED jobs
  BY <1>1, <1>3 DEF Inv, TypeOK, OnlyTouchesJob
<1>4. CASE UNCHANGED clusterVars
  BY <1>4, ClustersUntouched
<1>. QED BY <1>2, <1>3, <1>4

\* Steps before a Job is handled.
LEMMA PreparationInv ==
  ASSUME Inv, Unprepared \/ FrontendPending \/ FrontendReady
  PROVE  Inv'
<1>1. UNCHANGED clusterVars
  BY DEF Unprepared, FrontendPending, FrontendReady, PollAgain
<1>2. OnlyTouchesJob
  BY <1>1, ClustersUntouched
<1>3. CASE Unprepared
  <2>1. FailWith("setup", artifacts)
    BY <1>3 DEF Unprepared
  <2>2. "setup" \in Cause /\ "setup" \notin {"failed", "wait", "script"}
    BY DEF Cause
  <2>3. pc /= "idle" /\ artifacts \in SUBSET Kinds
    BY <1>3 DEF Unprepared, Inv, TypeOK
  <2>. QED BY <1>2, <2>1, <2>2, <2>3, FailInv
<1>4. CASE FrontendPending
  <2>1. /\ pc = "frontend" /\ pc' = pc /\ kind' = kind /\ attempt' = attempt
        /\ artifacts' = artifacts /\ UNCHANGED <<cycle, region, runVars>>
    BY <1>4 DEF FrontendPending, PollAgain, sessionVars
  <2>2. waited' \in 0..JobTimeout
    BY <1>4, ExecutorAssumption DEF FrontendPending, PollAgain, StillTime, Inv, TypeOK
  <2>3. SessionShape'
    BY <1>1, <2>1 DEF Inv, SessionShape, clusterVars, Job
  <2>. QED BY <1>2, <2>1, <2>2, <2>3, GoOnInv DEF Inv, TypeOK
<1>5. CASE FrontendReady
  <2>1. /\ pc = "frontend" /\ pc' = "inspect" /\ kind' = kind /\ attempt' = 1 /\ waited' = 0
        /\ artifacts' = artifacts /\ UNCHANGED <<cycle, region, runVars>>
    BY <1>5 DEF FrontendReady, sessionVars
  <2>2. attempt' \in 1..ApiAttempts /\ waited' \in 0..JobTimeout /\ pc' \in Step
    BY <2>1, ExecutorAssumption DEF Step
  <2>3. SessionShape'
    BY <1>1, <2>1 DEF Inv, SessionShape, clusterVars
  <2>. QED BY <1>2, <2>1, <2>2, <2>3, GoOnInv DEF Inv, TypeOK
<1>. QED BY <1>3, <1>4, <1>5

\* An attempt that got no answer.
LEMMA RetryEnsureInv ==
  ASSUME Inv, pc \in {"inspect", "create"}, OnlyTouchesJob, RetryEnsure
  PROVE  Inv'
<1>1. CASE attempt = ApiAttempts
  <2>1. FailWith("api", artifacts) /\ artifacts \in SUBSET Kinds /\ "api" \in Cause
    BY <1>1 DEF RetryEnsure, Inv, TypeOK, Cause
  <2>. QED BY <2>1, FailInv
<1>2. CASE attempt /= ApiAttempts
  <2>1. /\ pc' = "inspect" /\ kind' = kind /\ attempt' = attempt + 1 /\ waited' = waited
        /\ artifacts' = artifacts /\ UNCHANGED <<cycle, region, runVars>>
    BY <1>2 DEF RetryEnsure, NextAttempt, sessionVars
  <2>2. attempt' \in 1..ApiAttempts /\ pc' \in Step
    BY <1>2, <2>1, ExecutorAssumption DEF Inv, TypeOK, Step
  <2>3. JobOf(cycle, region, "reset") \in JobId
    BY DEF Inv, TypeOK, SessionShape, JobOf, JobId, Kinds
  <2>4. SessionShape'
    BY <2>1, <2>3 DEF Inv, SessionShape, OnlyTouchesJob
  <2>. QED BY <2>1, <2>2, <2>4, GoOnInv DEF Inv, TypeOK
<1>. QED BY <1>1, <1>2

\* The wait for a Job begins.
LEMMA StartWaitingInv ==
  ASSUME Inv, pc \in {"inspect", "create"}, OnlyTouchesJob, StartWaiting
  PROVE  Inv'
<1>1. /\ pc' = "wait" /\ kind' = kind /\ attempt' = 1 /\ waited' = 0
      /\ artifacts' = artifacts /\ UNCHANGED <<cycle, region, runVars>>
  BY DEF StartWaiting, sessionVars
<1>2. attempt' \in 1..ApiAttempts /\ waited' \in 0..JobTimeout /\ pc' \in Step
  BY <1>1, ExecutorAssumption DEF Step
<1>3. JobOf(cycle, region, "reset") \in JobId
  BY DEF Inv, TypeOK, SessionShape, JobOf, JobId, Kinds
<1>4. SessionShape'
  BY <1>1, <1>3 DEF Inv, SessionShape, OnlyTouchesJob
<1>. QED BY <1>1, <1>2, <1>4, GoOnInv DEF Inv, TypeOK

\* The steps of _ensure_job.
LEMMA EnsureInv ==
  ASSUME Inv,
         \/ JobFound \/ JobMissing \/ InspectUnanswered \/ ApiRefuses
         \/ CreateAnswered \/ CreateUnanswered
  PROVE  Inv'
<1>1. CASE JobFound
  BY <1>1, ClustersUntouched, StartWaitingInv DEF JobFound
<1>2. CASE JobMissing
  <2>1. /\ pc = "inspect" /\ pc' = "create" /\ UNCHANGED <<kind, attempt, waited, artifacts>>
        /\ UNCHANGED <<cycle, region, runVars>> /\ UNCHANGED clusterVars
    BY <1>2 DEF JobMissing, sessionVars
  <2>2. SessionShape'
    BY <2>1 DEF Inv, SessionShape, clusterVars
  <2>3. pc' \in Step
    BY <2>1 DEF Step
  <2>. QED BY <2>1, <2>2, <2>3, ClustersUntouched, GoOnInv DEF Inv, TypeOK
<1>3. CASE InspectUnanswered
  BY <1>3, ClustersUntouched, RetryEnsureInv DEF InspectUnanswered
<1>4. CASE ApiRefuses
  <2>1. "api" \in Cause /\ pc /= "idle" /\ artifacts \in SUBSET Kinds
    BY <1>4 DEF ApiRefuses, Cause, Inv, TypeOK
  <2>. QED BY <1>4, <2>1, ClustersUntouched, FailInv DEF ApiRefuses
<1>5. CASE CreateAnswered
  BY <1>5, CreateTouchesJob, StartWaitingInv DEF CreateAnswered
<1>6. CASE CreateUnanswered
  BY <1>6, CreateTouchesJob, RetryEnsureInv DEF CreateUnanswered
<1>. QED BY <1>1, <1>2, <1>3, <1>4, <1>5, <1>6

\* The steps of _wait_for_job.
LEMMA WaitInv ==
  ASSUME Inv, JobDone \/ JobPending \/ JobTimesOut \/ JobUnusable
  PROVE  Inv'
<1>1. UNCHANGED clusterVars /\ pc = "wait"
  BY DEF JobDone, JobPending, JobTimesOut, JobUnusable, PollAgain
<1>2. OnlyTouchesJob
  BY <1>1, ClustersUntouched
<1>3. Captured \in SUBSET Kinds /\ artifacts \subseteq Captured /\ kind \in Captured
  BY DEF Captured, Inv, TypeOK
<1>4. CASE JobDone
  <2>1. /\ pc' = "logs" /\ waited' = 0 /\ UNCHANGED <<kind, attempt, artifacts>>
        /\ UNCHANGED <<cycle, region, runVars>> /\ jobs[Job] = "succeeded"
    BY <1>4 DEF JobDone, JobIsDone, sessionVars
  <2>2. waited' \in 0..JobTimeout /\ pc' \in Step
    BY <2>1, ExecutorAssumption DEF Step
  <2>3. SessionShape'
    BY <1>1, <2>1 DEF Inv, SessionShape, clusterVars, Job
  <2>. QED BY <1>1, <1>2, <2>1, <2>2, <2>3, GoOnInv DEF Inv, TypeOK
<1>5. CASE JobPending
  <2>1. /\ pc' = pc /\ UNCHANGED <<kind, attempt, artifacts>>
        /\ UNCHANGED <<cycle, region, runVars>>
    BY <1>5 DEF JobPending, PollAgain, sessionVars
  <2>2. waited' \in 0..JobTimeout
    BY <1>5, ExecutorAssumption DEF JobPending, PollAgain, StillTime, Inv, TypeOK
  <2>3. SessionShape'
    BY <1>1, <2>1 DEF Inv, SessionShape, clusterVars
  <2>. QED BY <1>1, <1>2, <2>1, <2>2, <2>3, GoOnInv DEF Inv, TypeOK
<1>6. CASE JobTimesOut
  <2>1. FailWith("wait", Captured) /\ "wait" \in Cause
    BY <1>6 DEF JobTimesOut, Cause
  <2>. QED BY <1>1, <1>2, <1>3, <2>1, FailInv
<1>7. CASE JobUnusable
  <2>1. PICK cause \in {"wait"} \cup (IF jobs[Job] = "failed" THEN {"failed"} ELSE {}) :
          FailWith(cause, Captured)
    BY <1>7 DEF JobUnusable
  <2>2. cause \in Cause /\ (cause = "failed" => jobs[Job] = "failed")
    BY DEF Cause
  <2>. QED BY <1>1, <1>2, <1>3, <2>1, <2>2, FailInv
<1>. QED BY <1>4, <1>5, <1>6, <1>7

\* A clean end: both Jobs of the session have succeeded and cannot run again.
LEMMA BenchmarkCompleteInv ==
  ASSUME Inv, BenchmarkComplete
  PROVE  Inv'
<1>. DEFINE saved == artifacts \cup {"benchmark"}
<1>1. /\ pc = "logs" /\ kind = "benchmark" /\ UNCHANGED clusterVars
      /\ jobs[Job] = "succeeded" /\ jobs[JobOf(cycle, region, "reset")] = "succeeded"
  BY DEF BenchmarkComplete, Inv, SessionShape
<1>2. OnlyTouchesJob
  BY <1>1, ClustersUntouched
<1>3. saved \in SUBSET Kinds /\ kind \in saved /\ artifacts \subseteq saved
  BY <1>1 DEF Inv, TypeOK, Kinds
<1>4. log' = Append(log, ReceiptFor("none", saved))
  BY DEF BenchmarkComplete
<1>5. log' \in Seq(Receipt) /\ ReceiptsTruthful' /\ FailureLeavesEvidence'
  <2>. HIDE DEF saved
  <2>. QED BY <1>1, <1>2, <1>3, <1>4, ReceiptAdded
<1>6. TypeOK'
  BY <1>2, <1>5, ExecutorAssumption
     DEF Inv, TypeOK, BenchmarkComplete, LeaveExecute, OnlyTouchesJob, Step, Kinds
<1>7. SessionShape'
  BY DEF SessionShape, BenchmarkComplete, LeaveExecute
<1>8. StrayJobsAnnounced'
  <2>. SUFFICES ASSUME NEW j \in JobId,
                       jobs'[j] = "running" \/ (jobs'[j] = "absent" /\ j \in inFlight')
                PROVE  SessionOf(j) \in unfinished'
    BY DEF StrayJobsAnnounced
  <2>1. SessionOf(j) = CurrentSession \/ SessionOf(j) \in unfinished
    BY <1>1, <1>2, StraysStillAnnounced
  <2>2. SessionOf(j) /= CurrentSession
    <3>1. jobs[j] /= "succeeded"
      BY <1>1 DEF clusterVars
    <3>2. SessionOf(j) = CurrentSession => j = Job \/ j = JobOf(cycle, region, "reset")
      BY <1>1 DEF SessionOf, CurrentSession, Job, JobOf, JobId, Kinds
    <3>. QED BY <1>1, <3>1, <3>2
  <2>. QED BY <2>1, <2>2 DEF BenchmarkComplete
<1>. QED BY <1>1, <1>2, <1>5, <1>6, <1>7, <1>8, ResetStillOwed DEF Inv

\* The steps that read and save the logs of a finished Job.
LEMMA LogsInv ==
  ASSUME Inv, LogsUnavailable \/ ResetComplete \/ ScriptNotLoaded \/ BenchmarkComplete
  PROVE  Inv'
<1>1. UNCHANGED clusterVars /\ pc = "logs"
  BY DEF LogsUnavailable, ResetComplete, ScriptNotLoaded, BenchmarkComplete
<1>2. OnlyTouchesJob
  BY <1>1, ClustersUntouched
<1>3. CASE LogsUnavailable
  <2>1. FailWith("logs", artifacts) /\ "logs" \in Cause /\ artifacts \in SUBSET Kinds
    BY <1>3 DEF LogsUnavailable, Cause, Inv, TypeOK
  <2>. QED BY <1>1, <1>2, <2>1, FailInv
<1>4. CASE ResetComplete
  <2>1. /\ kind = "reset" /\ kind' = "benchmark" /\ pc' = "frontend"
        /\ artifacts' = artifacts \cup {"reset"} /\ UNCHANGED <<attempt, waited>>
        /\ UNCHANGED <<cycle, region, runVars>> /\ jobs[Job] = "succeeded"
    BY <1>4 DEF ResetComplete, Inv, SessionShape
  <2>2. pc' \in Step /\ kind' \in Kinds /\ artifacts' \subseteq Kinds
    BY <2>1 DEF Step, Kinds, Inv, TypeOK
  <2>3. SessionShape'
    BY <1>1, <2>1 DEF Inv, SessionShape, clusterVars, Job
  <2>. QED BY <1>1, <1>2, <2>1, <2>2, <2>3, GoOnInv DEF Inv, TypeOK
<1>5. CASE ScriptNotLoaded
  <2>. DEFINE saved == artifacts \cup {"benchmark"}
  <2>1. /\ FailWith("script", saved) /\ "script" \in Cause /\ saved \in SUBSET Kinds
        /\ kind \in saved /\ artifacts \subseteq saved
    BY <1>5 DEF ScriptNotLoaded, Cause, Inv, TypeOK, Kinds
  <2>. HIDE DEF saved
  <2>. QED BY <1>1, <1>2, <2>1, FailInv
<1>. QED BY <1>3, <1>4, <1>5, BenchmarkCompleteInv

-----------------------------------------------------------------------------
(* Steps outside of a session's own.                                       *)

LEMMA BeginSessionInv ==
  ASSUME Inv, NEW c \in Cycles, NEW r \in Regions, BeginSession(c, r)
  PROVE  Inv'
<1>1. TypeOK'
  BY DEF Inv, TypeOK, BeginSession, clusterVars, runVars, Cycles, Kinds, Step
<1>2. SessionShape'
  BY DEF SessionShape, BeginSession
<1>3. BenchmarkOwesReset'
  BY DEF Inv, BenchmarkOwesReset, BeginSession, clusterVars
<1>4. StrayJobsAnnounced'
  BY DEF Inv, StrayJobsAnnounced, BeginSession, clusterVars, runVars
<1>5. ReceiptsTruthful' /\ FailureLeavesEvidence'
  BY DEF Inv, ReceiptsTruthful, FailureLeavesEvidence, BeginSession, clusterVars, runVars
<1>. QED BY <1>1, <1>2, <1>3, <1>4, <1>5 DEF Inv

LEMMA RestartInv ==
  ASSUME Inv, Restart
  PROVE  Inv'
<1>1. pc /= "idle" => CurrentSession \in Session
  BY JobIdentity DEF Inv, SessionShape
<1>2. TypeOK'
  BY <1>1, ExecutorAssumption
     DEF Inv, TypeOK, Restart, LeaveExecute, clusterVars, Kinds, Step
<1>3. SessionShape'
  BY DEF SessionShape, Restart, LeaveExecute
<1>4. BenchmarkOwesReset'
  BY DEF Inv, BenchmarkOwesReset, Restart, clusterVars
<1>5. StrayJobsAnnounced'
  BY DEF Inv, StrayJobsAnnounced, Restart, clusterVars
<1>6. ReceiptsTruthful' /\ FailureLeavesEvidence'
  BY DEF ReceiptsTruthful, FailureLeavesEvidence, Restart
<1>. QED BY <1>2, <1>3, <1>4, <1>5, <1>6 DEF Inv

\* The clusters' own steps neither undo what is over nor start what no create asked for.
LEMMA ClusterInv ==
  ASSUME Inv, NEW j \in JobId, JobEnds(j) \/ CreateArrives(j)
  PROVE  Inv'
<1>1. /\ UNCHANGED <<pc, cycle, region, kind, attempt, waited, artifacts, runVars>>
      /\ inFlight' \subseteq inFlight
  BY DEF JobEnds, CreateArrives, sessionVars
<1>2. jobs' \in [JobId -> JobState]
  BY DEF Inv, TypeOK, JobEnds, CreateArrives, Created, JobState
<1>3. \A k \in JobId : jobs[k] \in {"succeeded", "failed"} => jobs'[k] = jobs[k]
  BY DEF Inv, TypeOK, JobEnds, CreateArrives, Created
<1>4. \A k \in JobId : /\ jobs'[k] /= "absent" => jobs[k] /= "absent" \/ k \in inFlight
                       /\ jobs'[k] = "running" =>
                            jobs[k] = "running" \/ (jobs[k] = "absent" /\ k \in inFlight)
                       /\ jobs'[k] = "absent" => jobs[k] = "absent"
  BY DEF Inv, TypeOK, JobEnds, CreateArrives, Created
<1>5. TypeOK'
  BY <1>1, <1>2 DEF Inv, TypeOK, runVars
<1>6. SessionShape'
  <2>1. pc /= "idle" => Job \in JobId /\ JobOf(cycle, region, "reset") \in JobId
    BY DEF Inv, TypeOK, SessionShape, Job, JobOf, JobId, Kinds
  <2>. QED BY <1>1, <1>3, <2>1 DEF Inv, SessionShape, Job
<1>7. BenchmarkOwesReset'
  <2>1. \A s \in Session, k \in Kinds : JobOf(s.cycle, s.region, k) \in JobId
    BY JobIdentity
  <2>. QED BY <1>1, <1>3, <1>4, <2>1 DEF Inv, BenchmarkOwesReset, Kinds
<1>8. StrayJobsAnnounced'
  BY <1>1, <1>4 DEF Inv, StrayJobsAnnounced, runVars, CurrentSession
<1>9. ReceiptsTruthful' /\ FailureLeavesEvidence'
  BY <1>1, <1>2, <1>3, ReceiptsKept DEF runVars
<1>. QED BY <1>5, <1>6, <1>7, <1>8, <1>9 DEF Inv

-----------------------------------------------------------------------------
(* The theorems.                                                           *)

\* The invariant is inductive.
LEMMA NextInv == Inv /\ [Next]_vars => Inv'
<1>. SUFFICES ASSUME Inv, [Next]_vars PROVE Inv'
  OBVIOUS
<1>1. CASE \E c \in Cycles, r \in Regions : BeginSession(c, r)
  BY <1>1, BeginSessionInv
<1>2. CASE SessionStep
  BY <1>2, PreparationInv, EnsureInv, WaitInv, LogsInv DEF SessionStep
<1>3. CASE Restart
  BY <1>3, RestartInv
<1>4. CASE Cluster
  BY <1>4, ClusterInv DEF Cluster
<1>5. CASE UNCHANGED vars
  BY <1>5
     DEF Inv, vars, clusterVars, sessionVars, runVars, TypeOK, SessionShape,
         BenchmarkOwesReset, StrayJobsAnnounced, ReceiptsTruthful, FailureLeavesEvidence,
         Job, CurrentSession
<1>6. RunComplete => UNCHANGED vars
  BY DEF RunComplete
<1>. QED BY <1>1, <1>2, <1>3, <1>4, <1>5, <1>6 DEF Next

\* The invariant holds in every reachable state.
THEOREM ExecutorInvariance == Spec => []Inv
<1>. QED BY NextInv, InitInv, PTL DEF Spec

\* The types of the executor's state and of the clusters'.
THEOREM ExecutorTypeCorrect == Spec => []TypeOK
<1>1. Inv => TypeOK
  BY DEF Inv
<1>. QED BY <1>1, ExecutorInvariance, PTL

\* No benchmark Job exists without its own session's reset done, whatever is
\* lost, late, retried or repeated.
THEOREM ResetBeforeBenchmark == Spec => []BenchmarkFollowsReset
<1>1. Inv => BenchmarkFollowsReset
  BY DEF Inv, BenchmarkOwesReset, BenchmarkFollowsReset
<1>. QED BY <1>1, ExecutorInvariance, PTL

\* Receipts agree with the clusters.
THEOREM ReceiptsAgree == Spec => []ReceiptsTruthful
<1>1. Inv => ReceiptsTruthful
  BY DEF Inv
<1>. QED BY <1>1, ExecutorInvariance, PTL

\* Nothing runs that is neither the open session's nor on record as unfinished.
THEOREM NoUnannouncedStrays == Spec => []StrayJobsAnnounced
<1>1. Inv => StrayJobsAnnounced
  BY DEF Inv
<1>. QED BY <1>1, ExecutorInvariance, PTL

\* Every wait that ended left its Job's log in the receipt.
THEOREM EvidenceKept == Spec => []FailureLeavesEvidence
<1>1. Inv => FailureLeavesEvidence
  BY DEF Inv
<1>. QED BY <1>1, ExecutorInvariance, PTL

-----------------------------------------------------------------------------
(* The executor implements BenchmarkSession: safety.                       *)

\* The variables of the abstract specification, as Contract maps them.
Open == IF pc = "idle" THEN None ELSE CurrentSession
Outcomes == [i \in DOMAIN log |-> OutcomeOf(log[i])]

\* No Job succeeds in this step.
NothingSucceeds == \A j \in JobId : jobs'[j] = "succeeded" <=> jobs[j] = "succeeded"

LEMMA SucceededUnchanged ==
  ASSUME NothingSucceeds, NEW k \in Kinds
  PROVE  Succeeded(k)' = Succeeded(k)
BY JobIdentity DEF NothingSucceeds, Succeeded

LEMMA OutcomesAppend ==
  ASSUME TypeOK, NEW rec \in Receipt, log' = Append(log, rec)
  PROVE  Outcomes' = Append(Outcomes, OutcomeOf(rec))
<1>1. Outcomes \in Seq({OutcomeOf(r) : r \in Receipt}) /\ Len(Outcomes) = Len(log)
  BY DEF TypeOK, Outcomes
<1>2. DOMAIN Outcomes' = 1..(Len(log) + 1)
  BY DEF TypeOK, Outcomes
<1>3. \A i \in 1..(Len(log) + 1) : Outcomes'[i] = Append(Outcomes, OutcomeOf(rec))[i]
  BY <1>1 DEF TypeOK, Outcomes
<1>4. DOMAIN Append(Outcomes, OutcomeOf(rec)) = 1..(Len(log) + 1)
  BY <1>1
<1>. QED BY <1>1, <1>2, <1>3, <1>4 DEF Outcomes

\* A failing session returns "execution_failed".
LEMMA FailReturns ==
  ASSUME Inv, pc /= "idle", NothingSucceeds,
         NEW cause \in Cause, NEW saved \in SUBSET Kinds, FailWith(cause, saved)
  PROVE  Contract!Next
<1>1. Succeeded("reset")' = Succeeded("reset") /\ Succeeded("benchmark")' = Succeeded("benchmark")
  BY SucceededUnchanged DEF Kinds
<1>2. CurrentSession \in Session /\ CurrentSession /= None
  BY JobIdentity, ExecutorAssumption DEF Inv, SessionShape, Session, Cycles
<1>3. ReceiptFor(cause, saved) \in Receipt
  BY DEF Inv, TypeOK, SessionShape, ReceiptFor, Receipt
<1>4. Outcomes' = Append(Outcomes, OutcomeOf(ReceiptFor(cause, saved)))
  BY <1>3, OutcomesAppend DEF Inv, FailWith
<1>5. OutcomeOf(ReceiptFor(cause, saved))
        = [session |-> CurrentSession, outcome |-> "execution_failed"]
  BY DEF OutcomeOf, ReceiptFor, SessionOf, CurrentSession, Clean, Cause
<1>6. Outcomes' = Append(Outcomes, [session |-> CurrentSession, outcome |-> "execution_failed"])
  BY <1>4, <1>5
<1>7. pc' = "idle"
  BY DEF FailWith, LeaveExecute
<1>8. Contract!Return("execution_failed")
  BY <1>1, <1>2, <1>6, <1>7 DEF Contract!Return, Outcomes
<1>. QED BY <1>8 DEF Contract!Next, Contract!Returns

\* A step on which the session goes on is invisible to the workflow.
LEMMA GoOnStutters ==
  ASSUME NothingSucceeds, pc /= "idle", pc' /= "idle", UNCHANGED <<cycle, region, log>>
  PROVE  UNCHANGED Contract!vars
<1>1. Succeeded("reset")' = Succeeded("reset") /\ Succeeded("benchmark")' = Succeeded("benchmark")
  BY SucceededUnchanged DEF Kinds
<1>. QED BY <1>1 DEF Contract!vars, CurrentSession

\* Creating a Job finishes none.
LEMMA CreateSucceedsNone ==
  ASSUME TypeOK, NEW j \in JobId, jobs' = Created(j) \/ UNCHANGED jobs
  PROVE  NothingSucceeds
BY DEF TypeOK, Created, NothingSucceeds

\* The contract lets the session do what it does before and while it waits.
LEMMA SessionImplements ==
  ASSUME Inv, SessionStep, ~BenchmarkComplete
  PROVE  [Contract!Next]_(Contract!vars)
<1>1. pc /= "idle"
  BY DEF SessionStep, Unprepared, FrontendPending, FrontendReady, JobFound, JobMissing,
         InspectUnanswered, ApiRefuses, CreateAnswered, CreateUnanswered, JobDone, JobPending,
         JobTimesOut, JobUnusable, LogsUnavailable, ResetComplete, ScriptNotLoaded
<1>2. jobs' = Created(Job) \/ UNCHANGED jobs
  BY DEF SessionStep, Unprepared, FrontendPending, FrontendReady, JobFound, JobMissing,
         InspectUnanswered, ApiRefuses, CreateAnswered, CreateUnanswered, JobDone, JobPending,
         JobTimesOut, JobUnusable, LogsUnavailable, ResetComplete, ScriptNotLoaded,
         PollAgain, clusterVars
<1>3. NothingSucceeds
  BY <1>1, <1>2, JobIdentity, CreateSucceedsNone DEF Inv, SessionShape
<1>4. ASSUME NEW cause \in Cause, NEW saved \in SUBSET Kinds, FailWith(cause, saved)
      PROVE  Contract!Next
  BY <1>1, <1>3, <1>4, FailReturns
<1>5. ASSUME pc' /= "idle", UNCHANGED <<cycle, region, log>>
      PROVE  UNCHANGED Contract!vars
  BY <1>1, <1>3, <1>5, GoOnStutters
<1>6. artifacts \in SUBSET Kinds /\ Captured \in SUBSET Kinds
      /\ artifacts \cup {"benchmark"} \in SUBSET Kinds
  BY DEF Inv, TypeOK, Captured, Kinds
<1>7. CASE Unprepared
  BY <1>7, <1>4, <1>6 DEF Unprepared, Cause
<1>8. CASE ApiRefuses
  BY <1>8, <1>4, <1>6 DEF ApiRefuses, Cause
<1>9. CASE InspectUnanswered \/ CreateUnanswered
  <2>1. CASE attempt = ApiAttempts
    BY <2>1, <1>9, <1>4, <1>6 DEF InspectUnanswered, CreateUnanswered, RetryEnsure, Cause
  <2>2. CASE attempt /= ApiAttempts
    BY <2>2, <1>9, <1>5
       DEF InspectUnanswered, CreateUnanswered, RetryEnsure, sessionVars, runVars
  <2>. QED BY <2>1, <2>2
<1>10. CASE JobTimesOut
  BY <1>10, <1>4, <1>6 DEF JobTimesOut, Cause
<1>11. CASE JobUnusable
  <2>1. PICK cause \in {"wait"} \cup (IF jobs[Job] = "failed" THEN {"failed"} ELSE {}) :
          FailWith(cause, Captured)
    BY <1>11 DEF JobUnusable
  <2>. QED BY <2>1, <1>4, <1>6 DEF Cause
<1>12. CASE LogsUnavailable
  BY <1>12, <1>4, <1>6 DEF LogsUnavailable, Cause
<1>13. CASE ScriptNotLoaded
  BY <1>13, <1>4, <1>6 DEF ScriptNotLoaded, Cause
<1>14. CASE \/ FrontendPending \/ FrontendReady \/ JobFound \/ JobMissing
            \/ CreateAnswered \/ JobDone \/ JobPending \/ ResetComplete
  BY <1>14, <1>5
     DEF FrontendPending, FrontendReady, JobFound, JobMissing, CreateAnswered, JobDone,
         JobPending, ResetComplete, PollAgain, StartWaiting, sessionVars, runVars
<1>. QED BY <1>7, <1>8, <1>9, <1>10, <1>11, <1>12, <1>13, <1>14 DEF SessionStep

\* A clean receipt is for a session that was measured.
LEMMA CompletionImplements ==
  ASSUME Inv, BenchmarkComplete
  PROVE  Contract!Next
<1>. DEFINE rec == ReceiptFor("none", artifacts \cup {"benchmark"})
<1>1. /\ pc /= "idle" /\ pc' = "idle" /\ jobs[Job] = "succeeded" /\ kind = "benchmark"
      /\ UNCHANGED jobs
  BY DEF BenchmarkComplete, LeaveExecute, clusterVars, Inv, SessionShape
<1>2. Succeeded("reset")' = Succeeded("reset") /\ Succeeded("benchmark")' = Succeeded("benchmark")
  BY <1>1, SucceededUnchanged DEF Kinds, NothingSucceeds
<1>3. CurrentSession \in Session /\ CurrentSession /= None
  BY <1>1, JobIdentity, ExecutorAssumption DEF Inv, SessionShape, Session, Cycles
<1>4. CurrentSession \in Succeeded("benchmark")
  BY <1>1, <1>3 DEF Succeeded, CurrentSession, Job
<1>5. rec \in Receipt /\ log' = Append(log, rec)
  BY <1>1 DEF Inv, TypeOK, SessionShape, ReceiptFor, Receipt, BenchmarkComplete, Kinds
<1>6. OutcomeOf(rec) = [session |-> CurrentSession, outcome |-> "executed"]
  BY DEF OutcomeOf, ReceiptFor, SessionOf, CurrentSession, Clean
<1>7. Outcomes' = Append(Outcomes, [session |-> CurrentSession, outcome |-> "executed"])
  <2>. HIDE DEF rec
  <2>. QED BY <1>5, <1>6, OutcomesAppend DEF Inv
<1>8. Contract!Return("executed")
  BY <1>1, <1>2, <1>3, <1>4, <1>7 DEF Contract!Return, Outcomes
<1>. QED BY <1>8 DEF Contract!Next, Contract!Returns

\* The clusters prepare and measure sessions, in this order.
LEMMA ClusterImplements ==
  ASSUME Inv, NEW j \in JobId, JobEnds(j) \/ CreateArrives(j)
  PROVE  [Contract!Next]_(Contract!vars)
<1>1. UNCHANGED <<pc, cycle, region, log>>
  BY DEF JobEnds, CreateArrives, sessionVars, runVars
<1>2. CASE NothingSucceeds
  <2>1. Succeeded("reset")' = Succeeded("reset") /\ Succeeded("benchmark")' = Succeeded("benchmark")
    BY <1>2, SucceededUnchanged DEF Kinds
  <2>. QED BY <1>1, <2>1 DEF Contract!vars, CurrentSession
<1>3. CASE ~NothingSucceeds
  <2>1. jobs[j] = "running" /\ jobs' = [jobs EXCEPT ![j] = "succeeded"]
    <3>1. ~CreateArrives(j)
      BY <1>3, CreateSucceedsNone DEF Inv, CreateArrives
    <3>2. jobs[j] = "running" /\ \E s \in {"succeeded", "failed"} : jobs' = [jobs EXCEPT ![j] = s]
      BY <3>1 DEF JobEnds
    <3>3. jobs' /= [jobs EXCEPT ![j] = "failed"]
      BY <1>3, <3>2 DEF NothingSucceeds, Inv, TypeOK
    <3>. QED BY <3>2, <3>3
  <2>2. SessionOf(j) \in Session /\ j = JobOf(SessionOf(j).cycle, SessionOf(j).region, j.kind)
        /\ j.kind \in Kinds
    BY JobIdentity DEF SessionOf
  <2>3. \A s \in Session, k \in Kinds :
          /\ JobOf(s.cycle, s.region, k) \in JobId
          /\ JobOf(s.cycle, s.region, k) = j <=> s = SessionOf(j) /\ k = j.kind
    BY <2>2, JobIdentity
  <2>4. \A k \in Kinds : Succeeded(k)' = IF k = j.kind THEN Succeeded(k) \cup {SessionOf(j)}
                                                        ELSE Succeeded(k)
    BY <2>1, <2>2, <2>3 DEF Succeeded, Inv, TypeOK
  <2>5. CASE j.kind = "reset"
    BY <1>1, <2>2, <2>4, <2>5 DEF Kinds, Contract!Next, Contract!Prepare, CurrentSession
  <2>6. CASE j.kind = "benchmark"
    <3>1. SessionOf(j) \in Succeeded("reset")
      BY <2>1, <2>2, <2>6 DEF Inv, BenchmarkOwesReset, Succeeded
    <3>. QED BY <1>1, <2>2, <2>4, <2>6, <3>1
             DEF Kinds, Contract!Next, Contract!Measure, CurrentSession
  <2>. QED BY <2>2, <2>5, <2>6 DEF Kinds
<1>. QED BY <1>2, <1>3

\* The safety part of KeepsContract: the executor implements BenchmarkSession,
\* refused, unanswered and late calls, crashes and repeated runs included.
THEOREM ContractSafety == Spec => Contract!Init /\ [][Contract!Next]_(Contract!vars)
<1>1. Init => Contract!Init
  <2>. SUFFICES ASSUME Init PROVE Contract!Init
    OBVIOUS
  <2>1. Succeeded("reset") = {} /\ Succeeded("benchmark") = {}
    BY JobIdentity DEF Init, Succeeded, Kinds
  <2>. QED BY <2>1 DEF Init, Contract!Init
<1>2. ASSUME Inv, [Next]_vars PROVE [Contract!Next]_(Contract!vars)
  <2>1. CASE \E c \in Cycles, r \in Regions : BeginSession(c, r)
    <3>1. PICK c \in Cycles, r \in Regions : BeginSession(c, r)
      BY <2>1
    <3>2. UNCHANGED <<jobs, log>> /\ CurrentSession' = [cycle |-> c, region |-> r]
          /\ pc = "idle" /\ pc' = "frontend"
      BY <3>1 DEF BeginSession, CurrentSession, clusterVars, runVars
    <3>3. CurrentSession' \in Session
      BY <3>2 DEF Session
    <3>4. Succeeded("reset")' = Succeeded("reset") /\ Succeeded("benchmark")' = Succeeded("benchmark")
      BY <3>2 DEF Succeeded
    <3>5. Contract!Call(CurrentSession')
      BY <3>2, <3>4 DEF Contract!Call
    <3>. QED BY <3>3, <3>5 DEF Contract!Next
  <2>2. CASE SessionStep
    BY <1>2, <2>2, SessionImplements, CompletionImplements
  <2>3. CASE Restart
    <3>1. Succeeded("reset")' = Succeeded("reset") /\ Succeeded("benchmark")' = Succeeded("benchmark")
      BY <2>3 DEF Restart, clusterVars, Succeeded
    <3>2. Contract!Abandon
      BY <2>3, <3>1 DEF Contract!Abandon, Restart, LeaveExecute
    <3>. QED BY <3>2 DEF Contract!Next
  <2>4. CASE Cluster
    BY <1>2, <2>4, ClusterImplements DEF Cluster
  <2>5. CASE UNCHANGED vars
    BY <2>5 DEF vars, clusterVars, sessionVars, runVars, Contract!vars, Succeeded, CurrentSession
  <2>6. RunComplete => UNCHANGED vars
    BY DEF RunComplete
  <2>. QED BY <1>2, <2>1, <2>2, <2>3, <2>4, <2>5, <2>6 DEF Next
<1>. QED BY <1>1, <1>2, ExecutorInvariance, PTL DEF Spec

-----------------------------------------------------------------------------
(* The executor under the workflow.                                        *)

\* What a step of a session does to the run: it goes on, or it returns one
\* receipt for the session that was open.
GoesOn == pc' /= "idle" /\ UNCHANGED <<cycle, region, log, unfinished>>

ReturnsReceipt ==
  \E rec \in Receipt :
    /\ log' = Append(log, rec) /\ rec.cycle = cycle /\ rec.region = region
    /\ pc' = "idle" /\ UNCHANGED <<cycle, region>>
    /\ unfinished' = IF Clean(rec) THEN unfinished \ {CurrentSession}
                                   ELSE unfinished \cup {CurrentSession}

LEMMA SessionStepEffect ==
  ASSUME Inv, SessionStep
  PROVE  pc /= "idle" /\ (GoesOn \/ ReturnsReceipt)
<1>1. pc /= "idle"
  BY DEF SessionStep, Unprepared, FrontendPending, FrontendReady, JobFound, JobMissing,
         InspectUnanswered, ApiRefuses, CreateAnswered, CreateUnanswered, JobDone, JobPending,
         JobTimesOut, JobUnusable, LogsUnavailable, ResetComplete, ScriptNotLoaded,
         BenchmarkComplete
<1>2. ASSUME NEW cause \in Cause, NEW saved \in SUBSET Kinds, FailWith(cause, saved)
      PROVE  ReturnsReceipt
  <2>. DEFINE rec == ReceiptFor(cause, saved)
  <2>1. rec \in Receipt /\ ~Clean(rec) /\ rec.cycle = cycle /\ rec.region = region
    BY <1>1 DEF Inv, TypeOK, SessionShape, ReceiptFor, Receipt, Clean, Cause
  <2>. QED BY <1>2, <2>1 DEF FailWith, LeaveExecute, ReturnsReceipt
<1>3. artifacts \in SUBSET Kinds /\ Captured \in SUBSET Kinds
      /\ artifacts \cup {"benchmark"} \in SUBSET Kinds
  BY DEF Inv, TypeOK, Captured, Kinds
<1>4. CASE Unprepared \/ ApiRefuses \/ JobTimesOut \/ LogsUnavailable \/ ScriptNotLoaded
  BY <1>2, <1>3, <1>4
     DEF Unprepared, ApiRefuses, JobTimesOut, LogsUnavailable, ScriptNotLoaded, Cause
<1>5. CASE InspectUnanswered \/ CreateUnanswered
  <2>1. CASE attempt = ApiAttempts
    BY <1>2, <1>3, <1>5, <2>1 DEF InspectUnanswered, CreateUnanswered, RetryEnsure, Cause
  <2>2. CASE attempt /= ApiAttempts
    BY <1>5, <2>2
       DEF InspectUnanswered, CreateUnanswered, RetryEnsure, sessionVars, runVars, GoesOn
  <2>. QED BY <2>1, <2>2
<1>6. CASE JobUnusable
  <2>1. PICK cause \in {"wait"} \cup (IF jobs[Job] = "failed" THEN {"failed"} ELSE {}) :
          FailWith(cause, Captured)
    BY <1>6 DEF JobUnusable
  <2>2. cause \in Cause
    BY DEF Cause
  <2>. QED BY <1>1, <1>2, <1>3, <2>1, <2>2
<1>7. CASE \/ FrontendPending \/ FrontendReady \/ JobFound \/ JobMissing
           \/ CreateAnswered \/ JobDone \/ JobPending \/ ResetComplete
  BY <1>1, <1>7
     DEF FrontendPending, FrontendReady, JobFound, JobMissing, CreateAnswered, JobDone,
         JobPending, ResetComplete, PollAgain, StartWaiting, sessionVars, runVars, GoesOn
<1>8. CASE BenchmarkComplete
  <2>. DEFINE rec == ReceiptFor("none", artifacts \cup {"benchmark"})
  <2>1. rec \in Receipt /\ Clean(rec) /\ rec.cycle = cycle /\ rec.region = region
    BY <1>1, <1>3 DEF Inv, TypeOK, SessionShape, ReceiptFor, Receipt, Clean
  <2>. QED BY <1>8, <2>1 DEF BenchmarkComplete, LeaveExecute, ReturnsReceipt
<1>. QED BY <1>1, <1>4, <1>5, <1>6, <1>7, <1>8 DEF SessionStep

\* A receipt makes the log longer.
LEMMA ReceiptShows ==
  ASSUME TypeOK
  PROVE  /\ GoesOn => log' = log
         /\ ReturnsReceipt => log' /= log
<1>1. ASSUME NEW rec, log' = Append(log, rec) PROVE log' /= log
  BY <1>1 DEF TypeOK
<1>. QED BY <1>1 DEF GoesOn, ReturnsReceipt

\* A Job that has succeeded stays so, whatever runs after it.
LEMMA SucceededStays ==
  ASSUME Inv, [Next]_vars, NEW j \in JobId, jobs[j] = "succeeded"
  PROVE  jobs'[j] = "succeeded"
<1>1. jobs \in [JobId -> JobState]
  BY DEF Inv, TypeOK
<1>2. ASSUME NEW i \in JobId PROVE Created(i)[j] = "succeeded"
  BY <1>1 DEF Created
<1>3. CASE SessionStep
  <2>1. jobs' = Created(Job) \/ UNCHANGED jobs
    BY <1>3 DEF SessionStep, Unprepared, FrontendPending, FrontendReady, JobFound, JobMissing,
           InspectUnanswered, ApiRefuses, CreateAnswered, CreateUnanswered, JobDone, JobPending,
           JobTimesOut, JobUnusable, LogsUnavailable, ResetComplete, ScriptNotLoaded,
           BenchmarkComplete, PollAgain, clusterVars
  <2>2. Job \in JobId
    BY <1>3, SessionStepEffect, JobIdentity DEF Inv, SessionShape
  <2>. QED BY <1>2, <2>1, <2>2
<1>4. CASE Cluster
  <2>1. PICK i \in JobId : JobEnds(i) \/ CreateArrives(i)
    BY <1>4 DEF Cluster
  <2>2. CASE JobEnds(i)
    BY <1>1, <2>2 DEF JobEnds
  <2>3. CASE CreateArrives(i)
    BY <1>2, <2>3 DEF CreateArrives
  <2>. QED BY <2>1, <2>2, <2>3
<1>5. CASE (\E c \in Cycles, r \in Regions : BeginSession(c, r)) \/ Restart \/ RunComplete
           \/ UNCHANGED vars
  <2>1. jobs' = jobs
    BY <1>5 DEF BeginSession, Restart, RunComplete, vars, clusterVars
  <2>. QED BY <2>1
<1>. QED BY <1>3, <1>4, <1>5 DEF Next

-----------------------------------------------------------------------------
(* The inductive invariant of the composition.                             *)

\* The types of the workflow's state; a cycle is open only before its record.
WorkflowTypes ==
  /\ stage \in Workflow!Stages
  /\ report \in IF stage = "decided" THEN Workflow!Record ELSE {None}
  /\ placement \in Regions \cup {None}
  /\ records \in Seq(Workflow!Record)
  /\ Len(records) <= NumCycles
  /\ stage /= "between" => Len(records) < NumCycles
  /\ inherited \subseteq Session

\* The workflow is in a session exactly while execute has not returned, and the
\* session is of the open cycle.
InStep ==
  /\ stage = "session" <=> pc /= "idle"
  /\ pc /= "idle" => cycle = OpenCycle

\* A session without a clean receipt is on record as failed, or an earlier
\* process left it.
UnfinishedOnRecord ==
  \A s \in unfinished :
    \/ s.cycle \in DOMAIN records /\ records[s.cycle] = [session |-> "failed", region |-> s.region]
    \/ /\ stage = "decided" /\ s.cycle = OpenCycle
       /\ report = [session |-> "failed", region |-> s.region]
    \/ s \in inherited

Measured(i, r) == r \in Regions /\ \A k \in Kinds : jobs[JobOf(i, r, k)] = "succeeded"

\* What is reported or recorded as placed has been measured.
PlacedAreMeasured ==
  /\ stage = "decided" =>
       (report.session = "placed" => Measured(OpenCycle, report.region))
  /\ \A i \in PlacedRecords : Measured(i, records[i].region)

\* The placement is that of the latest placed record.
PlacementIsLatestPlaced ==
  IF PlacedRecords = {} THEN placement = None
  ELSE \E i \in PlacedRecords :
         (\A k \in PlacedRecords : k <= i) /\ placement = records[i].region

PlacedInv ==
  /\ Inv /\ WorkflowTypes /\ InStep
  /\ UnfinishedOnRecord /\ PlacedAreMeasured /\ PlacementIsLatestPlaced

-----------------------------------------------------------------------------
(* Its preservation.                                                       *)

\* Every step of the composition is one of the executor's.
LEMMA PlacedStepIsExecutorStep ==
  ASSUME Inv, WorkflowTypes, [PlacedNext]_placedVars
  PROVE  [Next]_vars
<1>1. UNCHANGED executorVars => UNCHANGED vars
  BY DEF executorVars, vars
<1>2. CASE Decides \/ RunEnds \/ UNCHANGED placedVars
  BY <1>1, <1>2 DEF Decides, RunEnds, placedVars
<1>3. ASSUME NEW r \in Regions, Dispatches(r) PROVE Next
  <2>1. OpenCycle \in Cycles
    BY <1>3, ExecutorAssumption
       DEF Dispatches, Workflow!HandOver, WorkflowTypes, OpenCycle, Cycles
  <2>. QED BY <1>3, <2>1 DEF Dispatches, Next
<1>4. CASE Executes \/ Returns \/ Repeats \/ ClustersMove
  BY <1>4 DEF Executes, Returns, Repeats, ClustersMove, Next
<1>. QED BY <1>2, <1>3, <1>4 DEF PlacedNext

\* What has been measured stays measured.
LEMMA MeasuredStays ==
  ASSUME Inv, [Next]_vars, NEW i \in Cycles, NEW r, Measured(i, r)
  PROVE  Measured(i, r)'
<1>1. \A k \in Kinds : JobOf(i, r, k) \in JobId
  BY DEF Measured, JobOf, JobId
<1>. QED BY <1>1, SucceededStays DEF Measured, JobOf

\* The cycles on record.
LEMMA RecordedCycles ==
  ASSUME WorkflowTypes
  PROVE  /\ Len(records) \in Nat /\ DOMAIN records = 1..Len(records)
         /\ DOMAIN records \subseteq Cycles
         /\ stage /= "between" => OpenCycle \in Cycles
         /\ OpenCycle \notin DOMAIN records
BY ExecutorAssumption DEF WorkflowTypes, OpenCycle, Cycles

\* Steps on which nothing is reported and nothing recorded.
LEMMA QuietStep ==
  ASSUME PlacedInv, [Next]_vars, UNCHANGED <<report, placement, records, inherited>>,
         unfinished' = unfinished, stage = "decided" <=> stage' = "decided"
  PROVE  UnfinishedOnRecord' /\ PlacedAreMeasured' /\ PlacementIsLatestPlaced'
<1>1. OpenCycle' = OpenCycle /\ PlacedRecords' = PlacedRecords
  BY DEF OpenCycle, PlacedRecords
<1>2. UnfinishedOnRecord'
  BY <1>1 DEF PlacedInv, UnfinishedOnRecord
<1>3. PlacedAreMeasured'
  <2>1. stage = "decided" => OpenCycle \in Cycles
    BY RecordedCycles DEF PlacedInv
  <2>2. PlacedRecords \subseteq Cycles
    BY RecordedCycles DEF PlacedInv, PlacedRecords
  <2>3. ASSUME stage = "decided", report.session = "placed" PROVE Measured(OpenCycle, report.region)'
    <3>1. Measured(OpenCycle, report.region)
      BY <2>3 DEF PlacedInv, PlacedAreMeasured
    <3>. QED BY <1>1, <2>1, <2>3, <3>1, MeasuredStays DEF PlacedInv, Measured
  <2>4. ASSUME NEW i \in PlacedRecords PROVE Measured(i, records[i].region)'
    <3>1. Measured(i, records[i].region) /\ i \in Cycles
      BY <2>2 DEF PlacedInv, PlacedAreMeasured
    <3>. QED BY <3>1, MeasuredStays DEF PlacedInv, Measured
  <2>. QED BY <1>1, <2>3, <2>4 DEF PlacedAreMeasured
<1>4. PlacementIsLatestPlaced'
  BY <1>1 DEF PlacedInv, PlacementIsLatestPlaced
<1>. QED BY <1>2, <1>3, <1>4

\* A report of a cycle without a session, or of a session.
LEMMA ReportStep ==
  ASSUME PlacedInv, [Next]_vars, UNCHANGED <<placement, records, inherited>>,
         stage /= "decided", stage' = "decided",
         (report.session = "placed" => Measured(OpenCycle, report.region))',
         \A s \in unfinished' :
           \/ s \in unfinished
           \/ s.cycle = OpenCycle /\ report' = [session |-> "failed", region |-> s.region]
  PROVE  UnfinishedOnRecord' /\ PlacedAreMeasured' /\ PlacementIsLatestPlaced'
<1>1. OpenCycle' = OpenCycle /\ PlacedRecords' = PlacedRecords
  BY DEF OpenCycle, PlacedRecords
<1>2. UnfinishedOnRecord'
  BY <1>1 DEF PlacedInv, UnfinishedOnRecord
<1>3. PlacedAreMeasured'
  <2>1. ASSUME NEW i \in PlacedRecords PROVE Measured(i, records[i].region)'
    <3>1. Measured(i, records[i].region) /\ i \in Cycles
      BY RecordedCycles DEF PlacedInv, PlacedAreMeasured, PlacedRecords
    <3>. QED BY <3>1, MeasuredStays DEF PlacedInv, Measured
  <2>. QED BY <1>1, <2>1 DEF PlacedAreMeasured, Measured
<1>4. PlacementIsLatestPlaced'
  BY <1>1 DEF PlacedInv, PlacementIsLatestPlaced
<1>. QED BY <1>2, <1>3, <1>4

\* A cycle up to its dispatch, and one without a session.
LEMMA UndecidedStep ==
  ASSUME PlacedInv, UNCHANGED <<executorVars, inherited>>,
         Workflow!Begin \/ Workflow!Hold \/ Workflow!Decline
  PROVE  PlacedInv'
<1>1. [Next]_vars /\ UNCHANGED <<vars, pc, cycle, unfinished, records, placement>>
  BY DEF executorVars, vars, clusterVars, sessionVars, runVars,
         Workflow!Begin, Workflow!Hold, Workflow!Decline
<1>2. Inv'
  BY <1>1, NextInv DEF PlacedInv
<1>3. OpenCycle' = OpenCycle
  BY <1>1 DEF OpenCycle
<1>4. CASE Workflow!Begin
  <2>1. WorkflowTypes' /\ InStep'
    BY <1>1, <1>3, <1>4, RecordedCycles
       DEF Workflow!Begin, PlacedInv, WorkflowTypes, InStep, Workflow!Stages
  <2>2. report' = report /\ stage /= "decided" /\ stage' /= "decided"
    BY <1>4 DEF Workflow!Begin
  <2>. QED BY <1>1, <1>2, <2>1, <2>2, QuietStep DEF PlacedInv
<1>5. CASE Workflow!Hold \/ Workflow!Decline
  <2>1. PICK r \in Regions \cup {None} : report' = [session |-> "none", region |-> r]
    BY <1>5, PlacedAssumption
       DEF Workflow!Hold, Workflow!Decline, Workflow!Held, PlacedInv, WorkflowTypes
  <2>2. report' \in Workflow!Record /\ report'.session = "none"
    BY <2>1 DEF Workflow!Record
  <2>3. stage' = "decided" /\ stage \notin {"session", "decided"} /\ Len(records) < NumCycles
    BY <1>5 DEF Workflow!Hold, Workflow!Decline, PlacedInv, WorkflowTypes
  <2>4. WorkflowTypes' /\ InStep'
    BY <1>1, <1>3, <2>2, <2>3 DEF PlacedInv, WorkflowTypes, InStep, Workflow!Stages
  <2>. QED BY <1>1, <1>2, <2>2, <2>3, <2>4, ReportStep DEF PlacedInv
<1>. QED BY <1>4, <1>5

\* A session is handed over, and goes on.
LEMMA SessionGoesOn ==
  ASSUME PlacedInv, Executes \/ \E r \in Regions : Dispatches(r)
  PROVE  PlacedInv'
<1>1. [Next]_vars
  BY PlacedStepIsExecutorStep DEF PlacedInv, PlacedNext
<1>2. Inv'
  BY <1>1, NextInv DEF PlacedInv
<1>3. /\ UNCHANGED <<report, placement, records, inherited, unfinished>>
      /\ stage /= "decided" /\ stage' = "session" /\ Len(records) < NumCycles
      /\ pc' /= "idle" /\ cycle' = OpenCycle
  <2>1. CASE Executes
    <3>1. pc /= "idle" /\ GoesOn
      BY <2>1, SessionStepEffect, ReceiptShows DEF Executes, PlacedInv, Inv
    <3>2. stage = "session" /\ cycle = OpenCycle
      BY <3>1 DEF PlacedInv, InStep
    <3>. QED BY <2>1, <3>1, <3>2
             DEF Executes, GoesOn, workflowVars, PlacedInv, WorkflowTypes
  <2>2. ASSUME NEW r \in Regions, Dispatches(r)
        PROVE  /\ UNCHANGED <<report, placement, records, inherited, unfinished>>
               /\ stage /= "decided" /\ stage' = "session" /\ Len(records) < NumCycles
               /\ pc' /= "idle" /\ cycle' = OpenCycle
    BY <2>2 DEF Dispatches, BeginSession, runVars, Workflow!HandOver, PlacedInv, WorkflowTypes
  <2>. QED BY <2>1, <2>2
<1>4. WorkflowTypes' /\ InStep'
  BY <1>3 DEF PlacedInv, WorkflowTypes, InStep, OpenCycle, Workflow!Stages
<1>. QED BY <1>1, <1>2, <1>3, <1>4, QuietStep DEF PlacedInv

\* execute returns: a clean receipt is of a session whose Jobs have succeeded.
LEMMA SessionReturns ==
  ASSUME PlacedInv, Returns
  PROVE  PlacedInv'
<1>1. [Next]_vars
  BY PlacedStepIsExecutorStep DEF PlacedInv, PlacedNext
<1>2. Inv'
  BY <1>1, NextInv DEF PlacedInv
<1>3. pc /= "idle" /\ ReturnsReceipt
  BY SessionStepEffect, ReceiptShows DEF Returns, PlacedInv, Inv
<1>4. PICK rec \in Receipt :
        /\ log' = Append(log, rec) /\ rec.cycle = cycle /\ rec.region = region
        /\ pc' = "idle" /\ UNCHANGED <<cycle, region>>
        /\ unfinished' = IF Clean(rec) THEN unfinished \ {CurrentSession}
                                       ELSE unfinished \cup {CurrentSession}
  BY <1>3 DEF ReturnsReceipt
<1>5. Len(log') \in DOMAIN log' /\ log'[Len(log')] = rec
  BY <1>4 DEF PlacedInv, Inv, TypeOK
<1>6. report' = [session |-> IF Clean(rec) THEN "placed" ELSE "failed", region |-> region]
  BY <1>5 DEF Returns, SessionResult
<1>7. /\ UNCHANGED <<placement, records, inherited>>
      /\ stage = "session" /\ stage' = "decided" /\ Len(records) < NumCycles
      /\ cycle = OpenCycle /\ region \in Regions
  BY <1>3 DEF Returns, Workflow!Return, PlacedInv, WorkflowTypes, InStep, Inv, TypeOK
<1>8. WorkflowTypes' /\ InStep'
  <2>1. report' \in Workflow!Record
    BY <1>6, <1>7 DEF Workflow!Record
  <2>. QED BY <1>4, <1>7, <2>1 DEF PlacedInv, WorkflowTypes, InStep, Workflow!Stages
<1>9. (report.session = "placed" => Measured(OpenCycle, report.region))'
  <2>1. OpenCycle' = cycle
    BY <1>7 DEF OpenCycle
  <2>2. Clean(rec) => \A k \in Kinds : jobs'[JobOf(cycle, region, k)] = "succeeded"
    BY <1>2, <1>4, <1>5 DEF Inv, ReceiptsTruthful, Clean
  <2>. QED BY <1>6, <1>7, <2>1, <2>2 DEF Measured, JobOf
<1>10. \A s \in unfinished' :
         \/ s \in unfinished
         \/ s.cycle = OpenCycle /\ report' = [session |-> "failed", region |-> s.region]
  BY <1>4, <1>6, <1>7 DEF CurrentSession
<1>. QED BY <1>1, <1>2, <1>7, <1>8, <1>9, <1>10, ReportStep DEF PlacedInv

\* A record is added; the placement follows it if it is of a placed session.
LEMMA ConcludeStep ==
  ASSUME PlacedInv, UNCHANGED <<executorVars, inherited>>, Workflow!Conclude
  PROVE  PlacedInv'
<1>1. UNCHANGED <<vars, jobs, pc, cycle, unfinished>>
  BY DEF executorVars, vars, clusterVars, sessionVars, runVars
<1>2. Inv'
  BY <1>1, NextInv DEF PlacedInv
<1>3. /\ records' = Append(records, report) /\ report' = None /\ placement' = Workflow!PlacementAfter
      /\ stage = "decided" /\ stage' = "between"
      /\ report \in Workflow!Record /\ records \in Seq(Workflow!Record)
      /\ Len(records) < NumCycles
  BY DEF Workflow!Conclude, PlacedInv, WorkflowTypes
<1>4. /\ Len(records) \in Nat /\ Len(records') = OpenCycle
      /\ DOMAIN records = 1..Len(records) /\ DOMAIN records' = 1..OpenCycle
      /\ records'[OpenCycle] = report /\ OpenCycle = Len(records) + 1
      /\ \A i \in 1..Len(records) : records'[i] = records[i]
  BY <1>3 DEF OpenCycle
<1>5. pc = "idle"
  BY <1>3 DEF PlacedInv, InStep
<1>6. WorkflowTypes' /\ InStep'
  <2>1. records' \in Seq(Workflow!Record)
    BY <1>3
  <2>2. placement' \in Regions \cup {None}
    BY <1>3 DEF Workflow!PlacementAfter, Workflow!Record, PlacedInv, WorkflowTypes
  <2>3. Len(records') <= NumCycles
    BY <1>3, <1>4, ExecutorAssumption
  <2>. QED BY <1>1, <1>3, <1>5, <2>1, <2>2, <2>3
           DEF PlacedInv, WorkflowTypes, InStep, Workflow!Stages
<1>7. UnfinishedOnRecord'
  <2>. SUFFICES ASSUME NEW s \in unfinished
                PROVE  \/ /\ s.cycle \in DOMAIN records'
                          /\ records'[s.cycle] = [session |-> "failed", region |-> s.region]
                       \/ s \in inherited
    BY <1>1 DEF UnfinishedOnRecord
  <2>. QED BY <1>4 DEF PlacedInv, UnfinishedOnRecord
<1>8. PlacedRecords' = IF report.session = "placed" THEN PlacedRecords \cup {OpenCycle}
                                                    ELSE PlacedRecords
  BY <1>4 DEF PlacedRecords
<1>9. PlacedRecords \subseteq 1..Len(records)
  BY <1>4 DEF PlacedRecords
<1>10. PlacedAreMeasured'
  <2>. SUFFICES ASSUME NEW i \in PlacedRecords' PROVE Measured(i, records[i].region)'
    BY <1>3 DEF PlacedAreMeasured
  <2>1. CASE i \in PlacedRecords
    BY <1>1, <1>4, <1>9, <2>1 DEF PlacedInv, PlacedAreMeasured, Measured, JobOf
  <2>2. CASE i = OpenCycle /\ report.session = "placed"
    BY <1>1, <1>3, <1>4, <2>2 DEF PlacedInv, PlacedAreMeasured, Measured, JobOf
  <2>. QED BY <1>8, <2>1, <2>2
<1>11. PlacementIsLatestPlaced'
  <2>1. CASE report.session = "placed"
    <3>1. placement' = records'[OpenCycle].region /\ OpenCycle \in PlacedRecords'
      BY <1>3, <1>4, <1>8, <2>1 DEF Workflow!PlacementAfter
    <3>2. \A k \in PlacedRecords' : k <= OpenCycle
      BY <1>4, <1>8, <1>9
    <3>. QED BY <3>1, <3>2 DEF PlacementIsLatestPlaced
  <2>2. CASE report.session /= "placed"
    <3>1. placement' = placement /\ PlacedRecords' = PlacedRecords
      BY <1>3, <1>8, <2>2 DEF Workflow!PlacementAfter
    <3>2. \A i \in PlacedRecords : records'[i] = records[i]
      BY <1>4, <1>9
    <3>. QED BY <3>1, <3>2 DEF PlacedInv, PlacementIsLatestPlaced
  <2>. QED BY <2>1, <2>2
<1>. QED BY <1>2, <1>6, <1>7, <1>10, <1>11 DEF PlacedInv

\* The process ends and the run is repeated: nothing is remembered but by the clusters.
LEMMA RepeatStep ==
  ASSUME PlacedInv, Repeats
  PROVE  PlacedInv'
<1>1. [Next]_vars
  BY PlacedStepIsExecutorStep DEF PlacedInv, PlacedNext
<1>2. Inv'
  BY <1>1, NextInv DEF PlacedInv
<1>3. /\ stage' = "between" /\ report' = None /\ placement' = None /\ records' = <<>>
      /\ inherited' = unfinished' /\ pc' = "idle"
  BY DEF Repeats, Restart, LeaveExecute
<1>4. PlacedRecords' = {}
  BY <1>3 DEF PlacedRecords
<1>5. WorkflowTypes' /\ InStep'
  BY <1>2, <1>3, ExecutorAssumption DEF WorkflowTypes, InStep, Workflow!Stages, Inv, TypeOK
<1>6. UnfinishedOnRecord' /\ PlacedAreMeasured' /\ PlacementIsLatestPlaced'
  BY <1>3, <1>4 DEF UnfinishedOnRecord, PlacedAreMeasured, PlacementIsLatestPlaced
<1>. QED BY <1>2, <1>5, <1>6 DEF PlacedInv

\* The clusters move on, and nobody is told.
LEMMA ClustersStep ==
  ASSUME PlacedInv, ClustersMove \/ UNCHANGED placedVars
  PROVE  PlacedInv'
<1>1. [Next]_vars
  BY PlacedStepIsExecutorStep DEF PlacedInv, PlacedNext
<1>2. Inv'
  BY <1>1, NextInv DEF PlacedInv
<1>3. UNCHANGED <<stage, report, placement, records, inherited, pc, cycle, unfinished>>
  BY DEF ClustersMove, Cluster, JobEnds, CreateArrives, sessionVars, runVars, workflowVars,
         placedVars, executorVars
<1>4. WorkflowTypes' /\ InStep'
  BY <1>3 DEF PlacedInv, WorkflowTypes, InStep, OpenCycle
<1>. QED BY <1>1, <1>2, <1>3, <1>4, QuietStep DEF PlacedInv

LEMMA PlacedInvInvariant == PlacedSpec => []PlacedInv
<1>1. PlacedInit => PlacedInv
  <2>. SUFFICES ASSUME PlacedInit PROVE PlacedInv
    OBVIOUS
  <2>1. Inv /\ pc = "idle" /\ unfinished = {}
    BY InitInv DEF PlacedInit, Init
  <2>2. PlacedRecords = {}
    BY DEF PlacedInit, PlacedRecords
  <2>3. WorkflowTypes /\ InStep
    BY <2>1, ExecutorAssumption DEF PlacedInit, WorkflowTypes, InStep, Workflow!Stages
  <2>4. UnfinishedOnRecord /\ PlacedAreMeasured /\ PlacementIsLatestPlaced
    BY <2>1, <2>2 DEF PlacedInit, UnfinishedOnRecord, PlacedAreMeasured, PlacementIsLatestPlaced
  <2>. QED BY <2>1, <2>3, <2>4 DEF PlacedInv
<1>2. PlacedInv /\ [PlacedNext]_placedVars => PlacedInv'
  <2>. SUFFICES ASSUME PlacedInv, [PlacedNext]_placedVars PROVE PlacedInv'
    OBVIOUS
  <2>1. CASE Decides
    BY <2>1, UndecidedStep, ConcludeStep DEF Decides
  <2>2. CASE RunEnds
    BY <2>2, ClustersStep DEF RunEnds
  <2>. QED BY <2>1, <2>2, SessionGoesOn, SessionReturns, RepeatStep, ClustersStep DEF PlacedNext
<1>. QED BY <1>1, <1>2, PTL DEF PlacedSpec

-----------------------------------------------------------------------------
(* The theorems.                                                           *)

\* Under the workflow and its repetitions the executor keeps its invariant: it is
\* never called in a way its own proofs did not allow for.
THEOREM ExecutorKeptInRun == PlacedSpec => []Inv
<1>1. PlacedInv => Inv
  BY DEF PlacedInv
<1>. QED BY <1>1, PlacedInvInvariant, PTL

\* The remembered placement is the region of the latest record that counts as
\* placed, and both Jobs of that cycle have succeeded there: no timeout, lost reply
\* or repetition makes the workflow remember a session that was not measured
\* (workflow.py:289).
THEOREM PlacementsAreMeasured == PlacedSpec => []PlacementMeasured
<1>1. PlacedInv => PlacementMeasured
  <2>. SUFFICES ASSUME PlacedInv, PlacedRecords /= {}
                PROVE  \E i \in PlacedRecords :
                         /\ \A k \in PlacedRecords : k <= i
                         /\ placement = records[i].region
                         /\ \A k \in Kinds : jobs[JobOf(i, placement, k)] = "succeeded"
    BY DEF PlacementMeasured, PlacedInv, PlacementIsLatestPlaced
  <2>1. PICK i \in PlacedRecords :
          (\A k \in PlacedRecords : k <= i) /\ placement = records[i].region
    BY DEF PlacedInv, PlacementIsLatestPlaced
  <2>2. Measured(i, placement)
    BY <2>1 DEF PlacedInv, PlacedAreMeasured
  <2>. QED BY <2>1, <2>2 DEF Measured
<1>. QED BY <1>1, PlacedInvInvariant, PTL

\* The log of the run names every session whose Jobs may still be at work in a
\* cluster, unless it is the open one or an earlier process of the run id left it.
THEOREM StraysAreOnRecord == PlacedSpec => []LogNamesStrays
<1>1. PlacedInv => LogNamesStrays
  <2>. SUFFICES ASSUME PlacedInv, NEW j \in JobId, Moving(j)
                PROVE  \/ pc /= "idle" /\ SessionOf(j) = CurrentSession
                       \/ j.cycle \in DOMAIN records
                            /\ records[j.cycle] = [session |-> "failed", region |-> j.region]
                       \/ j.cycle = OpenCycle
                            /\ report = [session |-> "failed", region |-> j.region]
                       \/ SessionOf(j) \in inherited
    BY DEF LogNamesStrays
  <2>1. (pc /= "idle" /\ SessionOf(j) = CurrentSession) \/ SessionOf(j) \in unfinished
    BY DEF PlacedInv, Inv, StrayJobsAnnounced, Moving
  <2>2. SessionOf(j).cycle = j.cycle /\ SessionOf(j).region = j.region
    BY DEF SessionOf
  <2>. QED BY <2>1, <2>2 DEF PlacedInv, UnfinishedOnRecord
<1>. QED BY <1>1, PlacedInvInvariant, PTL

=============================================================================
