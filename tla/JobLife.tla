------------------------------ MODULE JobLife ------------------------------
(***************************************************************************)
(* The life of a BackgroundJob whose work is not an agent run              *)
(* (GENERATE_PLAN, PARSE_RESOURCE, SHADOW_EVALUATION), as operators on     *)
(* its row: app/application/jobs.py and app/workers/tasks.py.  The details *)
(* of delivery, leases and cancellation are module JobQueue.  Of delivery  *)
(* only its failure is kept here: a job is handed to ARQ once for each     *)
(* attempt (dispatched_at, max_tries = 1), and if the worker dies, or the  *)
(* database fails, before the first commit of execute_job, nothing hands   *)
(* it out again, for the reconciliation looks at RUNNING jobs only.        *)
(*                                                                         *)
(* ARQ ends a task after 600 seconds and the reconciliation passes over    *)
(* such a job for 660 seconds after its start, so a job is reconciled      *)
(* only when no worker is busy with it any more.                           *)
(***************************************************************************)
EXTENDS Naturals

CONSTANT MaxAttempts   \* settings.job_max_attempts

ASSUME JobLifeAssumption == MaxAttempts \in Nat \ {0}

EndedStatuses == {"SUCCEEDED", "FAILED", "DEAD_LETTER"}

\* lost: dispatched_at is set and the delivery is gone.
NoJob == [status |-> "none", attempts |-> 0, lost |-> FALSE]
\* JobService.create
NewJob == [status |-> "QUEUED", attempts |-> 0, lost |-> FALSE]

\* dispatch_once takes the job, and a worker its delivery.
CanStart(job) == job.status \in {"QUEUED", "RETRY_WAIT"} /\ ~job.lost

\* The first transaction of execute_job ...
StartedJob(job) == [status |-> "RUNNING", attempts |-> job.attempts + 1, lost |-> FALSE]

\* ... which does not commit.
LostDelivery(job) == [job EXCEPT !.lost = TRUE]

\* The end of _dispatch.
SucceededJob(job) == [job EXCEPT !.status = "SUCCEEDED"]

\* _handle_failure
FailedJob(job, transient) ==
    [job EXCEPT !.status = IF ~transient THEN "FAILED"
                           ELSE IF job.attempts < MaxAttempts THEN "RETRY_WAIT"
                           ELSE "DEAD_LETTER"]

\* Variant: a stale job without attempts left is passed over.
ReconciledUnlessLast(job) ==
    [job EXCEPT !.status = IF job.attempts >= MaxAttempts THEN "RUNNING"
                           ELSE "RETRY_WAIT"]

\* reconcile_stale_jobs
ReconciledJob(job) ==
    [job EXCEPT !.status = IF job.attempts >= MaxAttempts THEN "DEAD_LETTER"
                           ELSE "RETRY_WAIT"]
=============================================================================
