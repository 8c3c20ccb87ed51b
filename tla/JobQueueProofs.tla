--------------------------- MODULE JobQueueProofs ---------------------------
(***************************************************************************)
(* Proofs about RunLease and about the job queue that implements it.       *)
(*                                                                         *)
(* The first part is about RunLease alone, for any set of attempts and any *)
(* limit on them: no two attempts pass the fence at the same time, and one *)
(* that was superseded never passes it again.                              *)
(*                                                                         *)
(* The second part is about JobQueue, for any finite set of workers:       *)
(* attempt_count bounds the leases that are ever granted, so the job queue *)
(* implements the lease protocol, retry limit included.                    *)
(***************************************************************************)
EXTENDS JobQueue, FiniteSetTheorems, TLAPS

\* What the fence rests on: no attempt is ahead of the run, and no two attempts
\* were given the same token.
TokensDistinct ==
    /\ \A w \in Workers : token[w] <= fencingToken
    /\ \A v, w \in Workers : token[v] # 0 /\ token[v] = token[w] => v = w

LeaseInv == LeaseTypeOK /\ TokensDistinct

\* The committed row of a new run satisfies the invariant.
LEMMA LeaseInitInv == LeaseInit => LeaseInv
BY AttemptsAssumption
   DEF LeaseInit, LeaseInv, LeaseTypeOK, TokensDistinct, RunStatus

\* acquire() hands out a token above every other one.
LEMMA AcquireInv ==
    ASSUME LeaseInv, NEW w \in Workers, Acquire(w)
    PROVE  LeaseInv'
<1> USE AttemptsAssumption
       DEF Acquire, TakeOver, AttemptsLeft, NextToken, LeaseInv, LeaseTypeOK
<1>1. LeaseTypeOK'
  BY DEF RunStatus
<1>2. \A v \in Workers : token'[v] = IF v = w THEN fencingToken + 1 ELSE token[v]
  OBVIOUS
<1>3. TokensDistinct'
  BY <1>1, <1>2 DEF TokensDistinct
<1> QED BY <1>1, <1>3

\* The steps that take a token from a worker, or leave the tokens alone.
LEMMA OtherStepsInv ==
    ASSUME LeaseInv,
           \/ \E w \in Workers :
                 AcquireCancelled(w) \/ MarkCancelled(w) \/ Renew(w)
                    \/ Release(w) \/ Crash(w) \/ Finalize(w)
           \/ Expire
           \/ RequestCancel
    PROVE  LeaseInv'
<1> USE AttemptsAssumption DEF LeaseInv, LeaseTypeOK
<1>1. LeaseTypeOK' /\ fencingToken' = fencingToken
  BY DEF AcquireCancelled, MarkCancelled, Renew, Release, Crash, Finalize,
         Expire, RequestCancel, RunStatus
<1>2. \A v \in Workers : token'[v] \in {token[v], 0}
  BY DEF AcquireCancelled, MarkCancelled, Renew, Release, Crash, Finalize,
         Expire, RequestCancel
<1>3. TokensDistinct'
  BY <1>1, <1>2 DEF TokensDistinct
<1> QED BY <1>1, <1>3

\* Every step of the lease protocol, stuttering included, keeps the invariant.
LEMMA LeaseNextInv ==
    ASSUME LeaseInv, [LeaseNext]_leaseVars
    PROVE  LeaseInv'
<1>1. CASE \E w \in Workers : Acquire(w)
  BY <1>1, AcquireInv
<1>2. CASE LeaseNext /\ ~\E w \in Workers : Acquire(w)
  BY <1>2, OtherStepsInv DEF LeaseNext
<1>3. CASE UNCHANGED leaseVars
  BY <1>3 DEF LeaseInv, LeaseTypeOK, TokensDistinct, leaseVars
<1> QED BY <1>1, <1>2, <1>3

\* The inductive invariant holds in every state of the protocol.
THEOREM LeaseInvariant == LeaseSpec => []LeaseInv
BY LeaseInitInv, LeaseNextInv, PTL DEF LeaseSpec

\* Type correctness of the run row and of the tokens in the workers' memory.
THEOREM LeaseTypeCorrect == LeaseSpec => []LeaseTypeOK
<1>1. LeaseInv => LeaseTypeOK
  BY DEF LeaseInv
<1> QED BY <1>1, LeaseInvariant, PTL

\* _assert_run_fence lets at most one attempt through at any time.
THEOREM FenceIsExclusive == LeaseSpec => []FenceExclusive
<1>1. LeaseInv => FenceExclusive
  BY DEF LeaseInv, TokensDistinct, FenceExclusive, Fence
<1> QED BY <1>1, LeaseInvariant, PTL

\* A token that is not the newest one never passes the fence again.
THEOREM StaleStaysStale == LeaseSpec => SupersededForGood
<1>1. ASSUME LeaseInv, [LeaseNext]_leaseVars,
             NEW w \in Workers,
             token[w] # 0, token[w] # fencingToken, token'[w] = token[w]
      PROVE  ~Fence(w)'
  <2>1. token[w] \in Nat /\ fencingToken \in Nat /\ token[w] < fencingToken
    BY <1>1, AttemptsAssumption DEF LeaseInv, LeaseTypeOK, TokensDistinct
  <2>2. fencingToken' \in {fencingToken, fencingToken + 1}
    BY <1>1 DEF LeaseNext, Acquire, TakeOver, NextToken, AcquireCancelled,
                MarkCancelled, Renew, Release, Crash, Finalize, Expire,
                RequestCancel, leaseVars
  <2> QED BY <1>1, <2>1, <2>2 DEF Fence
<1>2. LeaseInv /\ [LeaseNext]_leaseVars
        => [\A w \in Workers :
              token[w] # 0 /\ token[w] # fencingToken /\ token'[w] = token[w]
                 => ~Fence(w)']_leaseVars
  BY <1>1
<1> QED BY <1>2, LeaseInvariant, PTL DEF LeaseSpec, SupersededForGood

\* acquire() and every other step keep a requested cancellation.
THEOREM CancelIsKept == LeaseSpec => CancelNotForgotten
<1>1. [LeaseNext]_leaseVars
        => [(runStatus \in Cancelling) => (runStatus' # "RUNNING")]_leaseVars
  BY DEF LeaseNext, Acquire, TakeOver, Acquirable, AcquireCancelled, MarkCancelled,
         Renew, Release, Crash, Finalize, Expire, RequestCancel, leaseVars, Cancelling
<1> QED BY <1>1, PTL DEF LeaseSpec, CancelNotForgotten

-----------------------------------------------------------------------------
\* Tasks that were counted by execute_job and have not asked for the lease yet.
Pending == {w \in Workers : task[w] \in {"dispatch", "hold"}}

\* The row of the job and what the dispatcher derives from it.
RowOK ==
    /\ job \in [status : JobStatus, attempts : 0..MaxAttempts,
                dispatched : BOOLEAN, due : BOOLEAN]
    /\ queue \subseteq 1..MaxAttempts /\ seen \subseteq 1..MaxAttempts
    /\ job.status \in {"QUEUED", "RETRY_WAIT"} => job.attempts < MaxAttempts
    /\ job.status = "DEAD_LETTER" => job.attempts = MaxAttempts

\* The state of the tasks, of the locks and of request_cancel.
TasksOK ==
    /\ created \in BOOLEAN
    /\ jobLock \in Workers \cup {NoOne}
    /\ api \in {"idle", "waiting"}
    /\ task \in [Workers -> Tasks]
    /\ verdict \in [Workers -> Verdicts]

\* Every lease granted and every task about to ask for one has its attempt.
Counted == fencingToken + Cardinality(Pending) <= job.attempts

JobInv == LeaseInv /\ RowOK /\ TasksOK /\ Counted

-----------------------------------------------------------------------------
\* Pending is a finite set of workers, now and after any step.
LEMMA PendingFinite ==
    /\ IsFiniteSet(Pending) /\ Cardinality(Pending) \in Nat
    /\ IsFiniteSet(Pending') /\ Cardinality(Pending') \in Nat
<1>1. Pending \in SUBSET Workers /\ Pending' \in SUBSET Workers
  BY DEF Pending
<1>2. IsFiniteSet(Workers)
  BY QueueAssumption
<1>3. IsFiniteSet(Pending)
  BY <1>1, <1>2, FS_Subset
<1>4. IsFiniteSet(Pending')
  BY <1>1, <1>2, FS_Subset
<1> QED BY <1>3, <1>4, FS_CardinalityType

\* A step that takes tasks out of Pending and grants nothing keeps the count.
LEMMA FewerPending ==
    ASSUME JobInv, Pending' \subseteq Pending,
           fencingToken' = fencingToken, job'.attempts = job.attempts
    PROVE  Counted'
<1>1. Cardinality(Pending') <= Cardinality(Pending)
  BY PendingFinite, FS_Subset
<1>2. Cardinality(Pending') \in Nat /\ Cardinality(Pending) \in Nat
      /\ fencingToken \in Nat /\ job.attempts \in Nat
  BY PendingFinite, AttemptsAssumption DEF JobInv, LeaseInv, LeaseTypeOK, RowOK
<1> QED BY <1>1, <1>2 DEF JobInv, Counted

\* The attempt that asks for the lease was counted, so one is left for it.
LEMMA HoldIsCounted ==
    ASSUME JobInv, NEW w \in Workers, BeginHold(w)
    PROVE  AttemptsLeft /\ Counted'
<1>1. w \in Pending
  BY DEF Pending, BeginHold
<1>2. Pending' = Pending \ {w}
  BY DEF Pending, BeginHold, ToTask, JobInv, TasksOK
<1>3. Cardinality(Pending') = Cardinality(Pending) - 1
  BY <1>1, <1>2, PendingFinite, FS_RemoveElement
<1>4. /\ Cardinality(Pending') \in Nat /\ Cardinality(Pending) \in Nat
      /\ fencingToken \in Nat /\ job.attempts \in 0..MaxAttempts
  BY PendingFinite, AttemptsAssumption DEF JobInv, LeaseInv, LeaseTypeOK, RowOK
<1>5. fencingToken' = fencingToken + 1 /\ job' = job
  BY DEF BeginHold, TakeOver, NextToken
<1> QED BY <1>3, <1>4, <1>5, AttemptsAssumption DEF JobInv, Counted, AttemptsLeft

\* execute_job counts the attempt in the transaction that makes it pending.
LEMMA StartIsCounted ==
    ASSUME JobInv, NEW w \in Workers, StartJob(w)
    PROVE  Counted'
<1>1. Pending' = Pending \cup {w} /\ w \notin Pending
  BY DEF Pending, StartJob, ToTask, JobInv, TasksOK
<1>2. Cardinality(Pending') = Cardinality(Pending) + 1
  BY <1>1, PendingFinite, FS_AddElement
<1>3. Cardinality(Pending) \in Nat /\ fencingToken \in Nat /\ job.attempts \in Nat
  BY PendingFinite, AttemptsAssumption DEF JobInv, LeaseInv, LeaseTypeOK, RowOK
<1>4. fencingToken' = fencingToken /\ job'.attempts = job.attempts + 1
  BY DEF StartJob, leaseVars, JobInv, RowOK
<1> QED BY <1>2, <1>3, <1>4 DEF JobInv, Counted

-----------------------------------------------------------------------------
\* Every step of the job queue is a step of the lease protocol, or leaves it
\* alone.
LEMMA LeaseStep ==
    ASSUME JobInv, [JobNext]_jqVars
    PROVE  [LeaseNext]_leaseVars
<1>1. CASE \E w \in Workers : BeginHold(w)
  <2> PICK w \in Workers : BeginHold(w) BY <1>1
  <2>1. Acquire(w)
    BY HoldIsCounted DEF Acquire, BeginHold
  <2> QED BY <2>1 DEF LeaseNext
<1>2. CASE \E w \in Workers :
              HoldCancelled(w) \/ JobHeartbeat(w) \/ Conclude(w) \/ EndHold(w) \/ MarkRun(w)
                 \/ WorkerDies(w) \/ DeadlockDetected(w)
  BY <1>2 DEF HoldCancelled, JobHeartbeat, Conclude, EndHold, MarkRun, WorkerDies,
              DeadlockDetected, LeaseNext
<1>3. CASE LeaseRunsOut \/ CancelCommits
  BY <1>3 DEF LeaseRunsOut, CancelCommits, LeaseNext
<1>4. CASE \/ Dispatch \/ DispatchCrash \/ RetryDue \/ LoseDelivery \/ ReconcileJobs
           \/ CancelLocksRun
           \/ \E w \in Workers :
                 StartJob(w) \/ IgnoreDelivery(w) \/ LockJob(w) \/ NotRunning(w)
                    \/ HoldRefused(w) \/ BreakOff(w) \/ FinishJob(w) \/ HandleFailure(w)
                    \/ MarkJob(w)
  BY <1>4 DEF Dispatch, DispatchCrash, RetryDue, LoseDelivery, ReconcileJobs,
              CancelLocksRun, StartJob, IgnoreDelivery, LockJob, NotRunning,
              HoldRefused, BreakOff, FinishJob, HandleFailure, MarkJob
<1>5. CASE UNCHANGED jqVars
  BY <1>5 DEF jqVars
<1> QED BY <1>1, <1>2, <1>3, <1>4, <1>5 DEF JobNext, TaskStep

\* The three writers of the row keep the accounting.
LEMMA RowStep ==
    ASSUME JobInv, [JobNext]_jqVars
    PROVE  RowOK'
<1> USE AttemptsAssumption DEF JobInv, RowOK, JobStatus
<1>a. /\ job.status \in JobStatus /\ job.attempts \in 0..MaxAttempts
      /\ job.dispatched \in BOOLEAN /\ job.due \in BOOLEAN
  OBVIOUS
<1>b. ASSUME Dispatchable
      PROVE  job.attempts + 1 \in 1..MaxAttempts
  BY <1>a, <1>b DEF Dispatchable
<1>1. CASE Dispatch
  <2>1. /\ job' \in [status : JobStatus, attempts : 0..MaxAttempts,
                     dispatched : BOOLEAN, due : BOOLEAN]
        /\ job'.status = job.status /\ job'.attempts = job.attempts
    BY <1>1 DEF Dispatch
  <2>2. queue' \subseteq 1..MaxAttempts /\ seen' \subseteq 1..MaxAttempts
    BY <1>1, <1>b DEF Dispatch, Enqueue
  <2> QED BY <2>1, <2>2
<1>2. CASE DispatchCrash
  BY <1>2, <1>b DEF DispatchCrash, Enqueue
<1>3. CASE RetryDue \/ LoseDelivery
  BY <1>3 DEF RetryDue, LoseDelivery
<1>4. CASE \E w \in Workers : StartJob(w)
  <2> PICK w \in Workers : StartJob(w) BY <1>4
  <2>1. job.attempts + 1 \in 0..MaxAttempts
    BY <1>a DEF StartJob, Startable
  <2>2. /\ job' \in [status : JobStatus, attempts : 0..MaxAttempts,
                     dispatched : BOOLEAN, due : BOOLEAN]
        /\ job'.status = "RUNNING"
    BY <2>1 DEF StartJob
  <2>3. queue' \subseteq queue /\ seen' = seen
    BY DEF StartJob
  <2> QED BY <2>2, <2>3
<1>5. CASE \E w \in Workers : IgnoreDelivery(w)
  BY <1>5 DEF IgnoreDelivery
<1>6. CASE \E w \in Workers : FinishJob(w)
  BY <1>6 DEF FinishJob
<1>7. CASE \E w \in Workers : HandleFailure(w)
  <2> PICK w \in Workers : HandleFailure(w) BY <1>7
  <2>1. CASE verdict[w] = "transient" /\ RetryAllowed
    BY <2>1, <1>a DEF HandleFailure, RetryAllowed
  <2>2. CASE verdict[w] = "transient" /\ ~RetryAllowed
    BY <2>2, <1>a DEF HandleFailure, RetryAllowed
  <2>3. CASE verdict[w] # "transient"
    BY <2>3, <1>a DEF HandleFailure
  <2> QED BY <2>1, <2>2, <2>3
<1>8. CASE \E w \in Workers : MarkRun(w)
  BY <1>8 DEF MarkRun
<1>9. CASE ReconcileJobs
  <2>1. CASE RetryAllowed
    BY <2>1, <1>9, <1>a DEF ReconcileJobs, RetryAllowed
  <2>2. CASE ~RetryAllowed
    BY <2>2, <1>9, <1>a DEF ReconcileJobs, RetryAllowed
  <2> QED BY <2>1, <2>2
<1>10. CASE \/ CancelLocksRun \/ CancelCommits \/ LeaseRunsOut
            \/ \E w \in Workers :
                  LockJob(w) \/ NotRunning(w) \/ BeginHold(w) \/ HoldRefused(w)
                     \/ HoldCancelled(w) \/ Conclude(w) \/ BreakOff(w) \/ EndHold(w)
                     \/ MarkJob(w) \/ JobHeartbeat(w) \/ WorkerDies(w) \/ DeadlockDetected(w)
  BY <1>10 DEF CancelLocksRun, CancelCommits, LeaseRunsOut, LockJob, NotRunning,
               BeginHold, HoldRefused, HoldCancelled, Conclude, BreakOff, EndHold,
               MarkJob, JobHeartbeat, WorkerDies, DeadlockDetected
<1>11. CASE UNCHANGED jqVars
  BY <1>11 DEF jqVars
<1> QED BY <1>1, <1>2, <1>3, <1>4, <1>5, <1>6, <1>7, <1>8, <1>9, <1>10, <1>11
        DEF JobNext, TaskStep

\* Tasks, locks and verdicts keep their types.
LEMMA TasksStep ==
    ASSUME JobInv, [JobNext]_jqVars
    PROVE  TasksOK'
<1> USE DEF JobInv, TasksOK, Tasks, Verdicts, taskVars
<1>1. CASE \/ Dispatch \/ DispatchCrash \/ RetryDue \/ LoseDelivery \/ ReconcileJobs
           \/ CancelLocksRun \/ CancelCommits \/ LeaseRunsOut
           \/ \E w \in Workers : IgnoreDelivery(w) \/ JobHeartbeat(w)
  BY <1>1 DEF Dispatch, DispatchCrash, RetryDue, LoseDelivery, ReconcileJobs,
              CancelLocksRun, CancelCommits, LeaseRunsOut, IgnoreDelivery, JobHeartbeat
<1>2. CASE \E w \in Workers :
              StartJob(w) \/ LockJob(w) \/ BeginHold(w) \/ HoldCancelled(w) \/ MarkJob(w)
  BY <1>2 DEF StartJob, LockJob, BeginHold, HoldCancelled, MarkJob, ToTask, Unlock
<1>3. CASE \E w \in Workers :
              NotRunning(w) \/ HoldRefused(w) \/ FinishJob(w) \/ HandleFailure(w)
                 \/ MarkRun(w) \/ WorkerDies(w)
  BY <1>3 DEF NotRunning, HoldRefused, FinishJob, HandleFailure, MarkRun, WorkerDies,
              Leave, Unlock
<1>4. CASE \E w \in Workers : Conclude(w)
  BY <1>4 DEF Conclude, Finalize, VerdictOf, ToTask
<1>5. CASE \E w \in Workers : BreakOff(w)
  BY <1>5 DEF BreakOff, ToTask
<1>6. CASE \E w \in Workers : EndHold(w)
  BY <1>6 DEF EndHold, ToTask, Leave, Unlock
<1>7. CASE \E w \in Workers : DeadlockDetected(w)
  BY <1>7 DEF DeadlockDetected, Leave, Unlock
<1>8. CASE UNCHANGED jqVars
  BY <1>8 DEF jqVars
<1> QED BY <1>1, <1>2, <1>3, <1>4, <1>5, <1>6, <1>7, <1>8 DEF JobNext, TaskStep

\* Every step keeps the count of the attempts.
LEMMA CountStep ==
    ASSUME JobInv, [JobNext]_jqVars
    PROVE  Counted'
<1>1. CASE \E w \in Workers : BeginHold(w)
  BY <1>1, HoldIsCounted
<1>2. CASE \E w \in Workers : StartJob(w)
  BY <1>2, StartIsCounted
<1> USE DEF JobInv, TasksOK, RowOK, taskVars, Pending
<1>3. CASE \/ Dispatch \/ DispatchCrash \/ RetryDue \/ LoseDelivery \/ ReconcileJobs
           \/ CancelLocksRun \/ CancelCommits \/ LeaseRunsOut
           \/ \E w \in Workers : IgnoreDelivery(w) \/ JobHeartbeat(w)
  <2>1. Pending' = Pending
    BY <1>3 DEF Dispatch, DispatchCrash, RetryDue, LoseDelivery, ReconcileJobs,
           CancelLocksRun, CancelCommits, LeaseRunsOut, IgnoreDelivery, JobHeartbeat
  <2>2. fencingToken' = fencingToken /\ job'.attempts = job.attempts
    BY <1>3 DEF Dispatch, DispatchCrash, RetryDue, LoseDelivery, ReconcileJobs,
           CancelLocksRun, CancelCommits, LeaseRunsOut, IgnoreDelivery, JobHeartbeat,
           RequestCancel, Expire, Renew, leaseVars
  <2> QED BY <2>1, <2>2, FewerPending
<1>4. CASE \E w \in Workers :
              LockJob(w) \/ HoldCancelled(w) \/ MarkJob(w) \/ Conclude(w) \/ BreakOff(w)
                 \/ EndHold(w) \/ NotRunning(w) \/ HoldRefused(w) \/ FinishJob(w)
                 \/ HandleFailure(w) \/ MarkRun(w) \/ WorkerDies(w) \/ DeadlockDetected(w)
  <2>1. Pending' \subseteq Pending
    BY <1>4 DEF LockJob, HoldCancelled, MarkJob, Conclude, BreakOff, EndHold,
           NotRunning, HoldRefused, FinishJob, HandleFailure, MarkRun, WorkerDies,
           DeadlockDetected, ToTask, Leave
  <2>2. fencingToken' = fencingToken
    BY <1>4 DEF LockJob, HoldCancelled, MarkJob, Conclude, BreakOff, EndHold,
           NotRunning, HoldRefused, FinishJob, HandleFailure, MarkRun, WorkerDies,
           DeadlockDetected, AcquireCancelled, Finalize, Release, MarkCancelled, Crash,
           leaseVars
  <2>3. job'.attempts = job.attempts
    BY <1>4 DEF LockJob, HoldCancelled, MarkJob, Conclude, BreakOff, EndHold,
           NotRunning, HoldRefused, FinishJob, HandleFailure, MarkRun, WorkerDies,
           DeadlockDetected
  <2> QED BY <2>1, <2>2, <2>3, FewerPending
<1>5. CASE UNCHANGED jqVars
  BY <1>5, FewerPending DEF jqVars, leaseVars
<1> QED BY <1>1, <1>2, <1>3, <1>4, <1>5 DEF JobNext, TaskStep

-----------------------------------------------------------------------------
\* A job as JobService.create commits it satisfies the invariant.
LEMMA JobInitInv == JobInit => JobInv
<1> SUFFICES ASSUME JobInit PROVE JobInv OBVIOUS
<1>1. LeaseInv
  BY LeaseInitInv DEF JobInit
<1>2. RowOK
  BY AttemptsAssumption DEF JobInit, RowOK, JobStatus
<1>5. TasksOK
  BY DEF JobInit, TasksOK, Tasks, Verdicts
<1>3. Pending = {} /\ fencingToken = 0 /\ job.attempts = 0
  BY DEF JobInit, LeaseInit, Pending
<1>4. Counted
  BY <1>3, FS_EmptySet DEF Counted
<1> QED BY <1>1, <1>2, <1>4, <1>5 DEF JobInv

\* The inductive invariant of the job queue.
THEOREM JobInvariant == JobSpec => []JobInv
<1>1. JobInv /\ [JobNext]_jqVars => JobInv'
  <2> SUFFICES ASSUME JobInv, [JobNext]_jqVars PROVE JobInv' OBVIOUS
  <2>1. LeaseInv'
    BY LeaseStep, LeaseNextInv DEF JobInv
  <2> QED BY <2>1, RowStep, TasksStep, CountStep DEF JobInv
<1> QED BY <1>1, JobInitInv, PTL DEF JobSpec

\* Type correctness of the job, the queue and the worker tasks.
THEOREM JobTypeCorrect == JobSpec => []JobTypeOK
<1>1. JobInv => JobTypeOK
  BY DEF JobInv, LeaseInv, RowOK, TasksOK, JobTypeOK
<1> QED BY <1>1, JobInvariant, PTL

\* attempt_count tells the truth for every number of workers and attempts.
THEOREM AttemptsAreCounted == JobSpec => []AttemptAccounting
<1>1. JobInv => AttemptAccounting
  <2> SUFFICES ASSUME JobInv PROVE AttemptAccounting OBVIOUS
  <2>1. fencingToken \in Nat /\ job.attempts \in Nat
    BY AttemptsAssumption DEF JobInv, LeaseInv, LeaseTypeOK, RowOK
  <2>2. fencingToken <= job.attempts
    BY <2>1, PendingFinite DEF JobInv, Counted
  <2> QED BY <2>2 DEF JobInv, RowOK, AttemptAccounting
<1> QED BY <1>1, JobInvariant, PTL

\* The job queue implements the lease protocol: the retry limit RunLease assumes
\* of every acquisition is kept by the writers of the job row.
THEOREM QueueImplementsLease == JobSpec => LeaseSpec
<1>1. JobInit => LeaseInit
  BY DEF JobInit
<1>2. JobInv /\ [JobNext]_jqVars => [LeaseNext]_leaseVars
  BY LeaseStep
<1> QED BY <1>1, <1>2, JobInvariant, PTL DEF JobSpec, LeaseSpec
=============================================================================
