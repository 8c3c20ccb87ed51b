------------------------------ MODULE JobQueue ------------------------------
(***************************************************************************)
(* One AGENT_DIAGNOSIS job from its creation to its end: the dispatcher    *)
(* (app/workers/dispatcher.py), the ARQ queue, the worker task             *)
(* (app/workers/tasks.py), the periodic reconciliation and the             *)
(* cancellation request, around the run lease of module RunLease.  What    *)
(* happens while the lease is held is module AgentRunner; here it is one   *)
(* verdict.                                                                *)
(*                                                                         *)
(* Two row locks last longer than a step: _dispatch keeps the job row      *)
(* locked while a resumed attempt runs (execute_job commits, and so        *)
(* unlocks, only when it creates the AgentRun), and request_cancel locks   *)
(* the run row and then waits for the job row.                             *)
(***************************************************************************)
EXTENDS RunLease, FiniteSets

CONSTANTS Lossy,    \* may a delivery get lost (the worker dies before its
                    \* first commit; ARQ max_tries = 1)?
          Cancels,  \* does the student ask for cancellation?
          NoOne     \* the job row is not locked

ASSUME QueueAssumption ==
    /\ Lossy \in BOOLEAN /\ Cancels \in BOOLEAN
    /\ NoOne \notin Workers /\ IsFiniteSet(Workers)

VARIABLES job,      \* the BackgroundJob row
          queue,    \* delivery ids (attempt numbers) waiting in Redis
          seen,     \* delivery ids ARQ knows: queued, running or with a result
          created,  \* the AgentRun row exists
          jobLock,  \* the worker whose open transaction locks the job row
          api,      \* request_cancel: "waiting" holds the run row's lock
          task,     \* task[w]: where the ARQ task of worker w stands
          verdict   \* verdict[w]: how the attempt of w came out

taskVars == <<task, verdict>>
jqVars == <<leaseVars, job, queue, seen, created, jobLock, api, taskVars>>

\* WAITING_FOR_REVIEW belongs to the mock exam jobs.
JobStatus == {"QUEUED", "RUNNING", "RETRY_WAIT", "SUCCEEDED", "FAILED",
              "DEAD_LETTER", "CANCELLED"}
Verdicts == {"none", "done", "cancelled", "transient", "fatal", "fenced"}
Tasks == {"idle", "dispatch", "hold", "work", "release", "finish", "failed",
          "cancel", "cancelRun"}

\* JobService.create
JobInit ==
    /\ LeaseInit
    /\ job = [status |-> "QUEUED", attempts |-> 0, dispatched |-> FALSE, due |-> TRUE]
    /\ queue = {} /\ seen = {}
    /\ created = FALSE
    /\ jobLock = NoOne
    /\ api = "idle"
    /\ task = [w \in Workers |-> "idle"]
    /\ verdict = [w \in Workers |-> "none"]

-----------------------------------------------------------------------------
RunRowFree == api = "idle"
Unlock(w) == jobLock' = IF jobLock = w THEN NoOne ELSE jobLock
ToTask(w, label) == task' = [task EXCEPT ![w] = label]
Leave(w) ==
    /\ task' = [task EXCEPT ![w] = "idle"]
    /\ verdict' = [verdict EXCEPT ![w] = "none"]
    /\ Unlock(w)

\* ARQ's enqueue_job: an id it knows already is dropped silently.
Enqueue(id) ==
    /\ queue' = IF id \in seen THEN queue ELSE queue \cup {id}
    /\ seen' = seen \cup {id}

Dispatchable ==
    /\ job.status \in {"QUEUED", "RETRY_WAIT"}
    /\ job.due /\ ~job.dispatched
    /\ jobLock = NoOne

\* dispatch_once
Dispatch ==
    /\ Dispatchable
    /\ Enqueue(job.attempts + 1)
    /\ job' = [job EXCEPT !.dispatched = TRUE]
    /\ UNCHANGED <<leaseVars, created, jobLock, api, taskVars>>

\* The dispatcher dies between enqueue_job and its commit.
DispatchCrash ==
    /\ Dispatchable
    /\ Enqueue(job.attempts + 1)
    /\ UNCHANGED <<leaseVars, job, created, jobLock, api, taskVars>>

\* available_at and next_retry_at have come.
RetryDue ==
    /\ job.status = "RETRY_WAIT" /\ ~job.due
    /\ job' = [job EXCEPT !.due = TRUE]
    /\ UNCHANGED <<leaseVars, queue, seen, created, jobLock, api, taskVars>>

LoseDelivery ==
    /\ Lossy
    /\ \E id \in queue : queue' = queue \ {id}
    /\ UNCHANGED <<leaseVars, job, seen, created, jobLock, api, taskVars>>

-----------------------------------------------------------------------------
\* tasks.execute_job, the first transaction

Startable ==
    job.status = "QUEUED" \/ (job.status = "RETRY_WAIT" /\ job.due)

StartJob(w) ==
    /\ task[w] = "idle" /\ jobLock = NoOne
    /\ Startable
    /\ \E id \in queue : queue' = queue \ {id}
    /\ job' = [job EXCEPT !.status = "RUNNING", !.attempts = @ + 1, !.due = TRUE]
    /\ ToTask(w, "dispatch")
    /\ UNCHANGED <<leaseVars, seen, created, jobLock, api, verdict>>

\* A terminal job, a RUNNING one, or one whose retry is not due yet.
IgnoreDelivery(w) ==
    /\ task[w] = "idle" /\ jobLock = NoOne
    /\ ~Startable
    /\ \E id \in queue : queue' = queue \ {id}
    /\ UNCHANGED <<leaseVars, job, seen, created, jobLock, api, taskVars>>

\* A first attempt that does not commit before it holds the lease.
LockJobKept(w) ==
    /\ task[w] = "dispatch" /\ jobLock = NoOne
    /\ job.status = "RUNNING"
    /\ jobLock' = w
    /\ created' = TRUE
    /\ ToTask(w, "hold")
    /\ UNCHANGED <<leaseVars, job, queue, seen, api, verdict>>

\* tasks._dispatch locks the job; the attempt that creates the AgentRun
\* commits and unlocks, every later one keeps the lock.
LockJob(w) ==
    /\ task[w] = "dispatch" /\ jobLock = NoOne
    /\ job.status = "RUNNING"
    /\ jobLock' = IF created THEN w ELSE NoOne
    /\ created' = TRUE
    /\ ToTask(w, "hold")
    /\ UNCHANGED <<leaseVars, job, queue, seen, api, verdict>>

NotRunning(w) ==
    /\ task[w] = "dispatch" /\ jobLock = NoOne
    /\ job.status # "RUNNING"
    /\ Leave(w)
    /\ UNCHANGED <<leaseVars, job, queue, seen, created, api>>

-----------------------------------------------------------------------------
\* AgentDiagnosisService.execute_job inside hold()

BeginHold(w) ==
    /\ task[w] = "hold" /\ RunRowFree
    /\ TakeOver(w)
    /\ ToTask(w, "work")
    /\ UNCHANGED <<job, queue, seen, created, jobLock, api, verdict>>

\* LeaseUnavailableError: logged, the job stays RUNNING.
HoldRefused(w) ==
    /\ task[w] = "hold" /\ RunRowFree
    /\ runStatus \notin Cancelling /\ lease = "live"
    /\ Leave(w)
    /\ UNCHANGED <<leaseVars, job, queue, seen, created, api>>

HoldCancelled(w) ==
    /\ task[w] = "hold" /\ RunRowFree
    /\ AcquireCancelled(w)
    /\ ToTask(w, "cancel") /\ Unlock(w)
    /\ UNCHANGED <<job, queue, seen, created, api, verdict>>

JobHeartbeat(w) ==
    /\ task[w] = "work" /\ RunRowFree
    /\ Renew(w)
    /\ UNCHANGED <<job, queue, seen, created, jobLock, api, taskVars>>

\* _finalize_run and _raise_for_retry_or_failure
VerdictOf(status) ==
    CASE status \in {"COMPLETED", "STALLED"} -> {"done"}
      [] status = "CANCELLED" -> {"cancelled"}
      [] status = "FAILED" -> {"transient", "fatal"}

Conclude(w) ==
    /\ task[w] = "work" /\ RunRowFree
    /\ Finalize(w)
    /\ runStatus' = "CANCELLED" => runStatus = "CANCEL_REQUESTED"
    /\ \E v \in VerdictOf(runStatus') : verdict' = [verdict EXCEPT ![w] = v]
    /\ ToTask(w, "release")
    /\ UNCHANGED <<job, queue, seen, created, jobLock, api>>

\* The attempt ends without a status: a StaleWorkerError, the job_timeout of
\* ARQ (CancelledError), or an error of the database.
BreakOff(w) ==
    /\ task[w] = "work"
    /\ \E v \in {"fenced", "transient", "fatal"} : verdict' = [verdict EXCEPT ![w] = v]
    /\ ToTask(w, "release")
    /\ UNCHANGED <<leaseVars, job, queue, seen, created, jobLock, api>>

\* The finally clause of hold(); an exception closes the session of _dispatch.
EndHold(w) ==
    /\ task[w] = "release" /\ RunRowFree
    /\ Release(w)
    /\ CASE verdict[w] \in {"done", "cancelled"} ->
              ToTask(w, "finish") /\ UNCHANGED <<verdict, jobLock>>
         [] verdict[w] \in {"transient", "fatal"} ->
              ToTask(w, "failed") /\ Unlock(w) /\ UNCHANGED verdict
         [] OTHER -> Leave(w)
    /\ UNCHANGED <<job, queue, seen, created, api>>

-----------------------------------------------------------------------------
\* What is written to the job row at the end

\* _dispatch: job.status is the value read at its beginning (the session does
\* not expire it), so the row is overwritten whatever it says by now.
FinishJob(w) ==
    /\ task[w] = "finish" /\ jobLock \in {NoOne, w}
    /\ job' = [job EXCEPT !.status =
                  IF verdict[w] = "cancelled" THEN "CANCELLED" ELSE "SUCCEEDED"]
    /\ Leave(w)
    /\ UNCHANGED <<leaseVars, queue, seen, created, api>>

\* A retry limit checked with <= instead of <.
RetryAllowedOffByOne == job.attempts <= MaxAttempts

RetryAllowed == job.attempts < MaxAttempts

\* _handle_failure does not look at the status either.
HandleFailure(w) ==
    /\ task[w] = "failed" /\ jobLock = NoOne
    /\ job' = CASE verdict[w] = "transient" /\ RetryAllowed ->
                     [job EXCEPT !.status = "RETRY_WAIT", !.due = FALSE,
                                 !.dispatched = FALSE]
                [] verdict[w] = "transient" /\ ~RetryAllowed ->
                     [job EXCEPT !.status = "DEAD_LETTER"]
                [] OTHER -> [job EXCEPT !.status = "FAILED"]
    /\ Leave(w)
    /\ UNCHANGED <<leaseVars, queue, seen, created, api>>

\* _mark_cancelled locks the job, then the run.
MarkJob(w) ==
    /\ task[w] = "cancel" /\ jobLock = NoOne
    /\ jobLock' = w
    /\ ToTask(w, "cancelRun")
    /\ UNCHANGED <<leaseVars, job, queue, seen, created, api, verdict>>

MarkRun(w) ==
    /\ task[w] = "cancelRun" /\ RunRowFree
    /\ MarkCancelled(w)
    /\ job' = [job EXCEPT !.status = "CANCELLED"]
    /\ Leave(w)
    /\ UNCHANGED <<queue, seen, created, api>>

\* A process dies: PostgreSQL drops its locks and its open transaction.
WorkerDies(w) ==
    /\ task[w] # "idle"
    /\ Crash(w) \/ (Idle(w) /\ UNCHANGED leaseVars)
    /\ Leave(w)
    /\ UNCHANGED <<job, queue, seen, created, api>>

-----------------------------------------------------------------------------
\* A reconciliation that takes an expired lease for a live one.
AbandonedIfReleased ==
    job.status = "RUNNING" /\ jobLock = NoOne /\ (created => lease = "none")

\* reconcile_stale_jobs: RUNNING, not locked (SKIP LOCKED) and no live lease.
\* That started_at is 90 s ago says nothing about a worker that is slow.
Abandoned ==
    job.status = "RUNNING" /\ jobLock = NoOne /\ ~(created /\ lease = "live")

ReconcileJobs ==
    /\ Abandoned
    /\ job' = IF RetryAllowed
              THEN [job EXCEPT !.status = "RETRY_WAIT", !.due = TRUE, !.dispatched = FALSE]
              ELSE [job EXCEPT !.status = "DEAD_LETTER"]
    /\ UNCHANGED <<leaseVars, queue, seen, created, jobLock, api, taskVars>>

\* request_cancel: SELECT ... JOIN ... FOR UPDATE locks the agent_runs row,
\* then the background_jobs row; the first may be held while waiting for the second.
CancelLocksRun ==
    /\ Cancels /\ created /\ api = "idle"
    /\ api' = "waiting"
    /\ UNCHANGED <<leaseVars, job, queue, seen, created, jobLock, taskVars>>

CancelCommits ==
    /\ api = "waiting" /\ jobLock = NoOne
    /\ RequestCancel \/ (runStatus # "RUNNING" /\ UNCHANGED leaseVars)
    /\ api' = "idle"
    /\ UNCHANGED <<job, queue, seen, created, jobLock, taskVars>>

\* PostgreSQL sees _mark_cancelled and request_cancel wait for each other and
\* aborts one of them.
DeadlockDetected(w) ==
    /\ api = "waiting" /\ task[w] = "cancelRun"
    /\ \/ api' = "idle" /\ UNCHANGED <<leaseVars, jobLock, taskVars>>
       \/ Crash(w) /\ Leave(w) /\ UNCHANGED api
    /\ UNCHANGED <<job, queue, seen, created>>

LeaseRunsOut == Expire /\ UNCHANGED <<job, queue, seen, created, jobLock, api, taskVars>>

-----------------------------------------------------------------------------
TaskStep(w) ==
    \/ LockJob(w) \/ NotRunning(w)
    \/ BeginHold(w) \/ HoldRefused(w) \/ HoldCancelled(w)
    \/ Conclude(w) \/ BreakOff(w) \/ EndHold(w)
    \/ FinishJob(w) \/ HandleFailure(w) \/ MarkJob(w) \/ MarkRun(w)

JobNext ==
    \/ Dispatch \/ DispatchCrash \/ RetryDue \/ LoseDelivery
    \/ \E w \in Workers : \/ StartJob(w) \/ IgnoreDelivery(w) \/ TaskStep(w)
                          \/ JobHeartbeat(w) \/ WorkerDies(w) \/ DeadlockDetected(w)
    \/ ReconcileJobs \/ CancelLocksRun \/ CancelCommits \/ LeaseRunsOut

JobSpec == JobInit /\ [][JobNext]_jqVars

\* The dispatcher, the workers, the cron job and the API keep running, retry
\* times come, and a lease that nobody renews runs out.  PostgreSQL hands a row lock
\* to those who wait in their order, so no stream of requests starves a task.
FairJobSpec ==
    /\ JobSpec
    /\ WF_jqVars(Dispatch) /\ WF_jqVars(RetryDue) /\ WF_jqVars(ReconcileJobs)
    /\ WF_jqVars(\E w \in Workers : StartJob(w) \/ IgnoreDelivery(w))
    /\ \A w \in Workers : SF_jqVars(TaskStep(w)) /\ WF_jqVars(DeadlockDetected(w))
    /\ WF_jqVars(CancelCommits)
    /\ WF_jqVars(LeaseRunsOut /\ \A w \in Workers : token[w] # fencingToken)

-----------------------------------------------------------------------------
\* The shape of the state.
JobTypeOK ==
    /\ LeaseTypeOK
    /\ job \in [status : JobStatus, attempts : 0..MaxAttempts,
                dispatched : BOOLEAN, due : BOOLEAN]
    /\ queue \subseteq 1..MaxAttempts /\ seen \subseteq 1..MaxAttempts
    /\ created \in BOOLEAN
    /\ jobLock \in Workers \cup {NoOne}
    /\ api \in {"idle", "waiting"}
    /\ task \in [Workers -> Tasks]
    /\ verdict \in [Workers -> Verdicts]

\* attempt_count is the truth about retries although three writers
\* (_handle_failure, reconcile_stale_jobs and execute_job) race on the row: a
\* waiting job has an attempt left, a dead letter has none, and every lease ever
\* granted belongs to an attempt that was counted.
AttemptAccounting ==
    /\ job.status \in {"QUEUED", "RETRY_WAIT"} => job.attempts < MaxAttempts
    /\ job.status = "DEAD_LETTER" => job.attempts = MaxAttempts
    /\ fencingToken <= job.attempts

\* A resumed attempt keeps the job row locked and waits for the run row, which a
\* request for cancellation holds while it waits for the job row.
Blocked ==
    /\ api = "waiting" /\ job.attempts > 1
    /\ \E w \in Workers : jobLock = w /\ task[w] \in {"hold", "work", "release"}

\* A worker that is cut off leaves its job RUNNING; reconcile_stale_jobs gets it
\* out of there, whatever its lease was when the worker went away, unless the
\* attempt is blocked by a request for cancellation.
RunningJobSettles == job.status = "RUNNING" ~> job.status # "RUNNING" \/ Blocked

\* A request for cancellation gets its answer from every first attempt, and from
\* a resumed one unless the two block each other.
CancelAnsweredOrBlocked == api = "waiting" ~> api = "idle" \/ Blocked
=============================================================================
