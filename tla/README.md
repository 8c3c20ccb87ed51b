# Verification of the adaptive learning agent

This directory holds TLA+ models of the adaptive learning backend (`src/app`),
the TLC configurations that check them on small instances, and TLAPS proofs of
the results that should hold for every number of workers and every limit.

Contents: 1 the system, 2 the modules, 3 the runs, 4 bounds, 5 fairness,
6 the proofs, 7 where code and documents disagree, 8 what is not modelled,
9 plan.

## 1. The system

The backend plans a student's learning week, collects feedback on the tasks, and
lets an *agent* diagnose that feedback. The agent is a loop of model calls and
tool calls; its tools read evidence or make a *proposal* (adjust the plan a
little, or ask the student for a replan). Everything slow runs as a background
job: a row in PostgreSQL, delivered through ARQ/Redis to worker processes.

| component | source | state | operations |
|---|---|---|---|
| run lease and fencing | `harness/lease.py` | `agent_runs`: status, fencing_token, lease_owner, lease_expires_at | acquire, renew (heartbeat), release, assert_active, assert_fence |
| agent runner, budget, stall detector | `harness/runner.py`, `budget.py`, `termination.py` | `RuntimeState` in memory | `_run`, `_execute_pending_tool`, `_complete`, `_terminate` |
| tool executor, retry, ledger | `harness/tools.py`, `retry.py`, `adapters/tool_ledger.py` | `tool_execution_records` | execute: begin, handler, succeed / unknown / fail, reconcile, replay |
| checkpoint store, trace | `adapters/harness_store.py` | `checkpoints`, `agent_steps`, invocations | save, load_latest, record_step, record_tool |
| learning tools, proposals | `adapters/learning_tools.py`, `agent_runs.py`, `workers/tasks.py` | `proposals`, plan tasks, replan jobs | propose, find_proposal, apply_minor_proposals, decide, expire_proposals, replan |
| diagnosis, cancellation, decisions | `application/agent_runs.py` | run row, job result | execute_job, _finalize_run, request_cancel, decide |
| jobs, dispatcher, workers | `application/jobs.py`, `workers/*` | `background_jobs`, the Redis queue | create, dispatch_once, execute_job, _handle_failure, _mark_cancelled, reconcile_stale_jobs, expire_proposals |
| model router, gateway, breaker | `adapters/model_gateway.py` | circuit breakers, counters of the run | decide, retry, repair, fallback, upgrade |
| mock exams and review | `application/mock_exams.py`, `domain/exams/validator.py` | papers and their questions, candidates, review decisions, attempts | execute_job of GENERATE_MOCK, decide, submit |
| stage unlocks, true exams, school change | `application/unlocks.py`, `true_exams.py`, `school_change.py` | knowledge progress, chapter sessions, attempts, true exam profile, stage | confirm, create and submit a session, submit, assert_mock_access, apply |
| learning plan | `application/learning_plans.py`, `plans.py` | the plan, its end date and version, its tasks | generate_or_roll, roll_forward, backfill, patch_tasks |
| practice, feedback, mastery | `application/practice.py`, `domain/learning/*` | attempts, feedback, knowledge states, efficiency profiles | record_attempt, submit_feedback, submit_learning_feedback |
| resources | `application/resources.py` | files, resource, version, import run, sections, mappings | create_upload, create_upload_bundle, parse_run, update_section, publish |
| accounts | `application/auth.py`, `adapters/otp.py`, `account_purge.py` | users, refresh sessions, deletion requests, codes in Redis | request_otp, login, refresh, logout, delete, cancel, purge_due |
| shadow and offline evaluation, catalog, seed, HTTP layer | `application/shadow_evaluations.py`, `evaluation/*`, `catalog.py`, `seed.py` | results, initial data | not modelled (section 8) |

How they interact. `dispatch_once` puts the id of a due job into Redis; a worker
takes it, marks the job RUNNING and calls `AgentDiagnosisService.execute_job`,
which acquires the run lease, loads the last checkpoint and runs the agent loop.
Every write of the loop (checkpoint, step, ledger entry, proposal, final status)
is one transaction that begins with `assert_fence`: it locks the run row and
compares the fencing token. Meanwhile the heartbeat renews the lease, a student
may ask for cancellation or decide a proposal, the cron job
`reconcile_stale_jobs` sends jobs that look abandoned back into the queue, and
any process may die.

A student moves along an unlock chain: learning tasks, confirmed knowledge points,
chapter true exams, specialized mocks, the full mock. A mock paper is generated by
a job from the question bank; what the bank lacks becomes AI candidates, the paper
waits for reviewers, and the last decision queues a job that resumes it.

What is hard. Two attempts of one run can be active at once; an attempt can lose
its lease at every `await`; a timeout can hide a commit; a retry resumes in the
middle of a tool call; three writers race on the job row; row locks are held
across awaits. In the application most transactions run under READ COMMITTED and
lock little: two reviewers or a student with two tabs open read the same state and
both write, and a paper waits for days while the bank, the student's attempts and
the target school change. `PROJECT.json` lists these hazards at their lines.

What makes the components correct:

- lease: one attempt passes the fence; a superseded one never again; a requested
  cancellation is not undone by a takeover;
- runner and tools: a run makes at most one proposal and changes the plan at most
  once for it; the ledger, the trace and the published status tell the truth; a
  superseded attempt overwrites nothing; attempts end;
- queue: attempts are counted; a job whose worker went away is picked up again;
  jobs reach an end and stay there; a request for cancellation is answered;
- mock exams: one verdict per candidate; one generation at a time and none of a
  paper the student has seen; a published paper is complete; a paper never waits
  for nobody;
- unlocks: what is open is earned; the list and the check agree; the true exam
  profile counts every attempt once;
- proposals: decided once, carried out at most once, never after a refusal, and only
  on evidence that is still true; an approved replan that reaches a worker ends;
- plan: a section is not spread over several days, whoever rolls the plan; an edit
  meets the task that was on the page;
- practice: every answer of practice and of whole exams counts once, every report too,
  and every anomaly gets its diagnosis;
- resources: what is published was reviewed; a job claims no more than was stored; the
  text of a document is kept once; a parse job that reaches a worker ends;
- accounts: a token is exchanged once; codes withstand guessing; a cancelled deletion
  holds and a requested one happens;
- model router: the call budget bounds the requests and is charged with them; an open
  breaker holds.

## 2. The modules

| module | models | extends |
|---|---|---|
| `RunLease` | the lease protocol on one run row; the abstract specification `LeaseSpec` | |
| `RunState` | RuntimeState and the tables of one run, with the fenced primitives that write them | `RunLease` |
| `ToolExecutor` | `ToolExecutor.execute` with the ledger, the proposal handler and its reconciler | `RunState` |
| `AgentRunner` | the loop, resume, completion, applying proposals, finalising; crashes and cancellation | `ToolExecutor` |
| `JobQueue` | dispatcher, ARQ, worker task, reconciliation, cancellation request, row locks | `RunLease` |
| `JobLife` | the row of a job that is not an agent run, as operators | |
| `ProposalLife` | what a proposal promises; the abstract specification `LifeSpec` | |
| `Proposals` | decide, apply_minor_proposals, expire_proposals and the replan job, split at their locks | `JobLife`; instance of `ProposalLife` |
| `ModelRouter` | the decisions of the runs that share a router, as chains of model requests, with budgets and breakers | |
| `LearningPlan` | the plan of one student: page loads, plan jobs, edits, feedback, adjustments | |
| `Practice` | answers and reports of one student, as concurrent transactions | |
| `Resources` | one document from the upload to its publication, with its parse job | `JobLife` |
| `Accounts` | codes, logins, tokens, deletion, cancellation and purge | |
| `MockExam` | the papers of one student: generation, candidates, review, resume, submission | |
| `StageUnlock` | the unlock chain of one student, with true exams and school change | |
| `JobQueueProofs` | theorems about `RunLease` and `JobQueue` | `JobQueue` |
| `AgentRunnerProofs` | theorems about `AgentRunner` | `AgentRunner`, `JobQueueProofs` |
| `ProposalsProofs`, `ModelRouterProofs`, `MockExamProofs` | theorems | their module |
| `PracticeProofs` | theorems about `Practice`, induction over the steps of a loop | `Practice` |
| `StudyProofs` | theorems about `LearningPlan` and `Resources` | both, `PracticeProofs` |
| `StudentProofs` | theorems about `Accounts` and `StageUnlock` | both |
| `MC*` | instances for TLC | |

**RunLease.** `runStatus`, `fencingToken` and `lease` are the run row; `token[w]`
is the token in the memory of attempt `w` (0: none). Each `RunLeaseManager` has
its own owner uuid and acquires once, so the owner column says nothing the token
does not. Time is abstracted to `lease = "live"` or `"expired"`. `Renew` accepts
an expired lease because `renew()` reads the clock before it waits for the row
lock. `MarkCancelled` is `_mark_cancelled`, the one write without a fence.

**RunState / ToolExecutor / AgentRunner.** `pc[w]` is the `await` at which the
attempt stands, `rs[w]` its RuntimeState, and `ckpts`, `ledger`, `proposals`,
`steps` are the tables. A transaction is one action; between two actions every
other process may act. Idempotency keys are (step, tool) as `_bind_idempotency`
makes them. `HandlerCommits` lets the answer of a committed handler arrive, time
out or fail; `HandlerTransient` and `HandlerRefuses` are errors before the
commit. Abstractions:

- a tool call is a tool and an argument digest; results of read tools are left
  out, for they reach the model only, whose answer is any answer;
- step and tool-call budgets are counted; the others (tokens, time, model calls,
  repairs) may trip at every check;
- the stall detector may speak from the second action or observation on;
- error codes are retryable (those of `_prepare_retryable_state`) or other;
- `assert_active` only reads, and is one step with the fenced write after it;
- any worker may start an attempt at any time, which covers whatever the queue
  does; the queue itself is `JobQueue`.

**JobQueue.** `job` is the job row (`due`: available_at and next_retry_at have
come), `queue` and `seen` are ARQ (a delivery id that is queued, running or has a
kept result is dropped), `task[w]` is the worker's coroutine, and `jobLock` and
`api` are the row locks that outlive a step. What the attempt does while it holds
the lease is reduced to a verdict. `FinishJob` overwrites the row because the
session does not expire what it read (`expire_on_commit=False`).

**MockExam.** `paper[p]` is the MockExam row with its questions, `jobs` the
GENERATE_MOCK jobs, `cands` the candidates; an approved candidate is the question
it becomes. A job is split into its reads (`SelectQuestions`, everything up to
`_validate_selection`) and its commit (`Publish` or `AwaitReview`), a decision into
`BeginDecide` (row lock, verdict, the query of `_resume_if_ready`) and
`CommitDecide`, a submission into `BeginSubmit` and `CommitSubmit`. `review[r]` and
`submission[k]` are the open transactions. Abstractions: how many questions of
which (knowledge point, difficulty) a profile asks for is the constant `Slots`; the
order of question codes is a choice; RETRY_WAIT and reconciliation are one retry
(`JobQueue` has them in detail). The validator's distribution checks follow from
the slots, and its score check too, if the total score of a profile is a multiple
of its question count.

**StageUnlock.** `task`, `strengthened`, `sessions`, `attempts`, `profile`, `stage`
are the rows of one student; `exam[k]` is an open `TrueExamService.submit`, the one
request that is split, for it writes the stage by what it read; `mocks` are the
requested mocks with their jobs; `approved` is a history variable. The other
requests are one step: they lock what they depend on or read what only grows
(confirmations, attempts, questions), and a change of school in between is the same
as one after. Tasks are system tasks of the active plan; when and how many are
planned is left open.

**Proposals** begins where `ToolExecutor` ends: the proposal is stored. `decision[p]`
and `applier[p]` stand at a row lock (`decide` locks the proposal and then its tasks,
`apply_minor_proposals` the run and its tasks before the proposal), so that they can
wait for each other; `Deadlock` aborts one of them. The replan job is a `JobLife` row
with a worker that may die before the job is RUNNING (`LoseReplan`), or before or after
the plan was rolled. `ImplementsLife` is a
refinement: `Phase` maps the status of a proposal to open, granted, refused, done or
failed, `effect` is the number of changes made in its name, and every step of decisions,
expiry, application and job is a step of `ProposalLife` or a stutter. That a second
grant, an application after a rejection or a second adjustment is impossible is thus
said once, in `ProposalLife`. Minutes and capacity are left open: a check may refuse.

**JobLife** is the job row of `Resources` and `Proposals`. A job is handed to ARQ once for
each attempt, and `lost` says that this delivery came to nothing: `dispatched_at` is set,
and the worker died or the database failed before the first commit of `execute_job`. A
lost job is never started again (`CanStart`).

**ModelRouter.** `call[r]` is the decision of run `r` in progress (which model, which try,
which request is under way), and a step goes from one await to the next: it takes a usable
answer, an unusable one or a failure, and sends the next request if there is one. `users`
are the runs that use the router. A worker makes one for each attempt, so there is one user
and a failed run may be revived with a new router (`Revive`); the offline evaluation shares
one among all the cases that it runs at the same time (`EvaluationRunner.evaluate`), and
when one is over the next takes its place (`StartRun`). `run[r]` holds the counters that are
checkpointed, `breaker[m]` failures and state. `sent`, `openSends[r][m]` and `last` are
history.

**LearningPlan.** A session keeps the rows it has loaded: the plan row that
`roll_forward` locks is the object read before, so its end date and version are as old
as that read while the tasks are read under the lock. Requests and jobs are therefore
split into their read and their writes (`GetLoad`, `GetCount`, `GetBackfill`, `GetRoll`;
`JobRead`, `JobPlan`). `FillDay` is the loop over candidates with the rest of the day's
minutes. `page` is what the student looks at, `blind` remembers an edit of something
else.

**Practice.** `tx[r]` is an open transaction with its list of rows still to lock; rows
are locked one after the other in the order the queries list them, a first row is an
insert under a unique constraint, and a transaction may be aborted at every such place
and retried with the same key. A committed request updates `attempts`, `state`,
`feedback`, `profile` and `jobs` at once. `Percentile` is the interpolation of the
estimator. The mastery score is left out (a float that no guard reads); the evidence
count and the streaks it is updated with are there. `submit_chapter_session` writes
attempts too and no mastery (`SubmitChapter`): it is one step here, and module
`StageUnlock` has what else it does.

**Resources.** Requests and the parse job are split where another one may act or the
process may die (the check for a duplicate, the file, the commit, the job; start, load,
the commit inside `parse_run`, the result). A delivery of the job may be lost before its
start (`LoseDelivery`). A document is a sequence of headings and
paragraphs, or of pages with or without text; the three parsers are operators on it
(`ParseDocx` is the paragraph loop as a fold).

**Accounts.** Requests wait at Redis calls and row locks; which locks are held follows
from where requests stand. The cascade of a purge deletes sessions, so it waits for a
refresh that holds one (`Refreshing`) as it does for a request that holds the user row.
Time is the choice when a deletion is due or a code expires.
`Holders` are accounts that own learning resources.

## 3. The runs

| run | shows |
|---|---|
| `runner` | 2 attempts of one run, at the same time or one after the other: `AtMostOneProposal`, `LedgerTruthful`, `FinalStatusBacked`, `TraceExplainsLedger`, `CheckpointsFenced` |
| `runner_ends` | `AttemptEnds`: every attempt ends, with three attempts of one run |
| `queue` | 2 workers, 3 attempts, losses and crashes: `AttemptAccounting`, `FenceExclusive`, `SupersededForGood`; `JobQueue` implements `LeaseSpec` including its limit on acquisitions; `RunningJobSettles`; `CancelAnsweredOrBlocked` |
| `mock_exam` | two reviewers, two submissions, failing jobs, a change of school: `OneVerdict`, `OneGeneration`, `AttemptMatchesPaper`; `RequestedIsPublished` as long as decisions do not overlap |
| `unlock` | `ScopesAgree`, `ProfileCountsAttempts`, `SpecializedEarned` over all orders of learning, exams, mocks, school changes and new questions |
| `resources` | two uploads, all small documents, crashes and lost deliveries: `PublishedConfirmed`, `JobTellsImport`, `TextStored`; `ImportSettles` unless a delivery is lost |
| `accounts` | two requests at a time and the purge: `ExchangedOnce`, `GuessesLimited`, `CancelHolds`, `FrozenPurged` |
| `purge_held` | *violation* of `DuePurged`: an account that owns resources keeps every purge of its batch from happening |
| `router` | `OvershootAtMostOne`, `ResultCountsRequests`, `OpenBreakerHolds` over all outcomes of all requests of one run, and of two that share the router |
| `plan` | page loads, plan jobs, edits, feedback, adjustments, midnight: `RolledOnce`, `EditsWhatWasSeen` |
| `proposals` | two runs whose proposals touch each other's task: `Proposals` implements `ProposalLife` (`ImplementsLife`); `JobTellsProposal`, `FreshEvidence`; `ApprovedSettles` unless a delivery is lost |
| `practice` | two requests at a time that lock the same rows in opposite orders, and chapter sessions: `EvidenceCounts`, `SamplesTellReports`, `ReportsNotLost` |

Each property of a passing run has a mutant: a plausible slip in the code under
which TLC finds the property violated (`PROJECT.json`, "mutants"; the mutated
operators stand next to the originals).

## 4. Bounds

- `MaxAttempts` bounds acquisitions of the lease. In the code it is
  `job.max_attempts`; `JobQueue` shows that the queue never grants more, and
  `AgentRunner` takes this as its guard.
- `runner`: two steps, two tool calls, two tool attempts, two attempts of the
  job. That is enough for a read followed by a proposal, for a retry of the tool
  inside an attempt, and for a takeover or a resume at every `await`. Two argument
  values show whether a key is reused with other arguments. Attempts are
  interchangeable, hence symmetry (not in the liveness run).
- `runner_ends` uses one worker process with three attempts in a row, because
  other attempts can only stop this one earlier.
- `queue`: two workers are the smallest number with a slow attempt and the next one,
  three attempts the smallest number with a retry of a retry.
- `mock_exam`: one paper of two slots, two reviewers and two keys: the bank's only
  question fits both slots, so a candidate is needed at once and another one after
  practice. `MaxCandidates = 2` bounds the candidates made in all: two decisions can
  overlap, and a second round happens.
- `unlock`: a chapter with one point below it, two schools that share the chapter,
  three questions, two tasks, one key, so that each order of the chain occurs;
  `MaxMoves` and `MaxMocks` bound school changes and mocks.
- `resources`: documents of up to three paragraphs are enough for text before, between
  and after headings; two uploads race for the unique hash; three attempts of the job
  include a retry of a retry and the dead letter. `MaxVersion` bounds section edits.
- `accounts`: one account and two requests at a time: every interference here is between
  two requests, or one and the purge. `MaxTokens = 3` allows a login, an exchange and
  another one. `OtpAttempts = 1` (5 in the code) is the smallest limit with a wrong
  answer before it. `purge_held` adds the account that owns resources.
- `router`: two runs are the smallest number of which one opens the breaker that the
  other has passed. Four calls (10 in the code) and three steps (8) let a budget end in
  every position of a decision: flash and its fallback, two tries, a repair. Three failures
  (5) open a breaker within a run, between runs and by runs together. The runs are
  interchangeable, hence symmetry.
- `plan`: window of one day (6 in the code), two days, one page load at a time and two
  jobs; three sections, one with two knowledge points. `MaxEdits = 2` allows a page load, a change by
  somebody else and the edit.
- `proposals`: the adjustment of the first run changes the task on which the second
  one's proposal rests. `MaxChanges` bounds what the student changes.
- `practice`: two requests, two keys, two knowledge points listed in opposite orders by
  two questions. `MaxWrites = 1` bounds what is stored when the last request begins, so
  up to three requests are recorded; `StreakLimit = 1` and `MaxSamples = 2` stand for 3 and 20
  so that streaks, and samples that fall out, occur. A chapter session of one or two
  questions is recorded while less than `MaxWrites` is stored, before or between the others;
  what a repeated submission of it does is the matter of `unlock`. Requests and keys are
  interchangeable, hence symmetry.

## 5. Fairness

- `AgentRunner!FairSpec`: weak fairness of `AttemptStep(w)`. A coroutine is
  resumed by the event loop; every database and model call has a time limit
  (tool timeout, HTTP timeout, ARQ's `job_timeout` of 600 s), so each await ends.
- `JobQueue!FairJobSpec`: the dispatcher polls (`run_forever`), workers take
  deliveries, the cron job reconciles every five minutes, retry times come, a
  worker that lives goes on, PostgreSQL detects deadlocks. The steps of a task have
  strong fairness: waiters get a row lock in their order, so a stream of cancellation
  requests cannot keep a task waiting for ever. A lease is only assumed
  to run out when no process holds its token any more: a live heartbeat may renew
  for ever. No fairness is assumed of crashes, losses or requests.
- `MockExam!FairSpec`: the worker goes on, reviewers decide what awaits them (the
  premise of the page that announces the resume), and a decision that is tried
  again and again commits in the end (strong fairness of `CommitDecide`, since each
  try may fail). Fairness says nothing of which verdict is given;
  `RequestedIsPublished` names rejections and missing answers among its outcomes, for
  endless rejection does prevent publication. A failed or abandoned job is retried
  here or fails; that a delivery may be lost is left to `JobQueue` and `JobLife`.
- `Resources!FairSpec`: the dispatcher polls and a worker takes each job that is handed
  out, unless the delivery is lost; the worker goes on with a job (it may die at every
  step) and the reconciliation runs every five minutes. A job can be lost as long as it is
  not RUNNING, and then nothing starts it: the dispatcher takes jobs with `dispatched_at`
  NULL, ARQ does not run a task again (`max_tries = 1`), and the reconciliation looks at
  RUNNING jobs. `ImportSettles` therefore says that a job ends or is lost. No request or
  reviewer need go on.
- `Accounts!FairSpec`: a request that was begun ends, thirty days pass, the purge runs
  every night and now and then meets no request that locks the account or one of its
  sessions (`Quiet`, infinitely often; strong fairness, for requests may come again and
  again).
- `Proposals!FairSpec`: transactions end, deadlocks are detected, a worker takes each job
  that is handed out, unless the delivery is lost, and reconciliation runs (strong fairness,
  since requests may lock the proposal again and again). `ApprovedSettles` excepts a lost
  job for the same reasons. No fairness is assumed of losses and crashes.
- `ModelRouter`, `LearningPlan`, `Practice`, `StageUnlock` are checked for safety only.

## 6. The proofs

Every module proof follows from an inductive invariant, which TLC has checked on the
instance of the module's run before it was proved; the constants are arbitrary within the
named assumptions of the module (`AttemptsAssumption`, `QueueAssumption`,
`BudgetAssumption`, `ToolAssumption`, `ExamAssumption` and so on: bounds are naturals,
model values are told apart). The theorems are about `Spec`, the specification without
fairness, hence about `FairSpec` too.

- `JobQueueProofs`, first part, about `RunLease`: `LeaseInv` = types, and `TokensDistinct`: tokens in memory are
  at most `fencingToken`, and no two attempts hold the same one. The fence compares
  numbers only, so exclusiveness needs that a number is handed out once; that is
  what the invariant adds. From it: `FenceIsExclusive`, `StaleStaysStale`,
  `CancelIsKept`.
- `JobQueueProofs`, second part: `AttemptAccounting` alone is not inductive, for a task that has
  been started and has not acquired yet may still raise `fencingToken`. `Counted`
  says `fencingToken + |pending tasks| <= attempt_count`. From it
  `AttemptsAreCounted`, and `QueueImplementsLease`: the guard
  `fencingToken < MaxAttempts` of the abstract `Acquire` holds whenever the queue
  lets a task acquire, so the bound that `AgentRunner` assumes is justified.
- `AgentRunnerProofs`, first part: `RunInv` = `LeaseInv` and `WorkInv`. That a run makes
  at most one proposal is a fact about one table that no step can see locally: it rests
  on what attempts hold in memory and what the checkpoints say. `ProposalOK` reduces it
  to the ledger (no proposal without an entry), `LedgerOK` says that there is one
  entry and that the newest checkpoint is `Bound` to it (it stands at the entry's
  step and can only resume the entry's tool), `RunOK` says the same of the newest
  attempt, expired or not, and that it saved its decision before it calls the tool.
  The newest attempt is the one to speak about because the fence keeps every other
  one from writing. `PcOK`, `IdleOK`, `CkptOK` and `LatestOK` say what is known at
  each await, outside `hold()` and in the checkpoints. `LeaseInv` enters through
  `RunnerImplementsLease`: every step is a lease step or leaves the lease alone. From
  `RunInv`: `RunnerTypeCorrect`, `OneProposal`, `CheckpointsAreFenced`.
- `AgentRunnerProofs`, second part: `TruthInv`, inductive together with `RunInv`. A ledger
  entry is SUCCEEDED on the word of a handler or of the reconciler, a final status is
  published from a state in memory, and a step is recorded before the checkpoint: each
  is true only because of what the newest checkpoint says meanwhile. `NewestOK` relates
  the newest attempt's memory to the ledger at each await, `EffectsOK` the entry to the
  proposal and the plan, `FinalOK` the run row to the newest checkpoint. From it
  `LedgerIsTruthful`, `FinalStatusIsBacked`, `TraceExplains`.
- `ProposalsProofs`: `ProposalsInv` says for each proposal what its row, its job, the
  worker and the two lock holders may be at the same time (`JobOK`, `ReplanOK`,
  `LocksOK`), that a version counts the changes of its task (`VersionsCount`,
  `EvidenceOK`), and that `effect` is what status and job show. Each step is then shown to
  map to a step of `ProposalLife` or to a stutter: `ProposalsImplementLife`. The same
  invariant gives `JobTellsProposalHolds` and `FreshEvidenceHolds`. That one lock holder
  does not invalidate what the other found under its lock is the step that needs `LocksOK`.
- `ModelRouterProofs`: `CallOK` speaks of each run alone, whatever the others do to the
  breakers. `Budgeted` (what was spent before and what `_call` may still spend make what the
  run had left, and a repair leaves room for itself) and `Requests` (what the decision has
  sent up to here) make the overshoot of one inductive; `Allowance` is what a call may have
  sent through an open breaker at each of its awaits: nothing at its first request, then a
  repair, a second try and its repair. A call that begins finds the breaker not open, so no
  other call of the run adds to the three: `OvershootIsAtMostOne`, `ResultsCountRequests`,
  `OpenBreakersHold`, for any number of concurrent runs.
- `StudentProofs`, first part, about `Accounts`: three invariants. `TokensInv`: a live token
  is unspent, and two refreshes in progress hold different sessions (`RowLocks`);
  `ExchangedOnceHolds` follows, and `SessionsHaveUsersHolds`, the foreign key, which fails if
  the purge does not wait for a locked session: the proof of `RowLocks` for `DeleteUsers`
  requires that wait. `CodesInv` bounds the stored attempts and those an answer under way
  will store: `GuessesLimitedHolds`. `PurgeInv`: the accounts that a purge has selected stay
  due, for their rows are locked: `CancelHoldsAlways`.
- `StudentProofs`, second part, about `StageUnlock`: `UnlockInv`. The profile is moved by
  counts and the property counts rows, so the step that matters is that a submission records
  rows nobody has recorded: its key is unused (`KeyFresh`), and what it answers are questions
  of the bank and of one school (`FromBank`). From it `AttemptsCountedOnce`.
  `ScopesAgreeAlways` is an argument about two ways to count: the sum of the capped counts of
  a chapter reaches the sum of the totals only if each count reaches its total, since `Below`
  makes the one a subset of the other. `SpecializedIsEarned` turns a count of attempts into a
  set of questions, which its premise makes an injection.
- `StudyProofs`, first part, about `LearningPlan`: `PlanInv`. `RolledOnce` is inductive because
  generation happens only when there is no plan (`PlanFirst`), and a roll gets the sections
  used by the tasks that are there under the lock. What one call plans is the work of two
  nested loops; `DayFrom` and `DaysFrom` are their loop invariants. `PageTold` says that the
  version of a task counts every change of what a page has shown, from which `EditsAreSeen`.
- `StudyProofs`, second part, about `Resources`: `UploadsInOrder` (file, rows, job, and one
  upload only), `WorkerOfJob`, `ParsedShown` and `Confirmed` (a mapping that a section lost
  was replaced by a reviewer, or the resource was not published). `PublishedConfirmedHolds`,
  `JobTellsImportHolds`, and `SectionsAsParsed`: what is stored is `Parsed`, however often
  the parse is repeated. With the lemmas about the parsers that is `TextIsStored`: `Cut`, the
  loop invariant of `_parse_docx`, says that sections and buffer are a partition of the text
  read so far; for `_parse_markdown` the headings are found in order, and the parts between
  them are disjoint and cover what follows the first one.
- `PracticeProofs`, first part: `PracticeInv`. The task row serialises its reports
  (`TasksLocked`): what an open report has seen of the feedback is what is committed. With
  `OneFeedback` and `JobsKeyed` (a diagnosis key belongs to one version) `ReportsNotLost`
  becomes inductive: `ReportsAreKept`.
- `PracticeProofs`, second part: `LearnedInv`. A transaction locks its rows one by one and
  writes them all when it commits, so its rows may be as old as its first lock. `RowsLocked`
  says that what a transaction has loaded, and not just found missing, is its own: nobody
  else commits there, and what it inserted exists for no one else. `Seen` says that each of
  these rows is the committed one (`Base`) moved once for every question before `todo`
  that asks about it. Hence the commit adds to each row what it adds to `attempts`, and a
  chapter session adds attempts that no row counts: `EvidenceIsCounted`. The streaks are counts of positions at the end of a list (`AtEnd`),
  and `AtEndAdds` says how one more answer moves them. For the profile, `Sampled` keeps the
  last samples in order, and the percentile of a sorted list lies between two of its members
  even after rounding: `SamplesAreTold`.
- `MockExamProofs`: `ExamInv`. An open decision is one on a candidate that nobody has
  decided and no one else holds, and if it will resume the paper its candidate is the last
  one (`ReviewInv`, `LastOf`). A live job excludes other live jobs, pending candidates and
  a paper that the student has seen (`JobInv`); a pending candidate's paper is
  WAITING_FOR_REVIEW (`PaperInv`). Each part keeps the others: a decision that resumes
  finds no live job because its own candidate was pending, and a job that publishes finds
  no submission because nobody has seen the paper (`SubmitInv`). From it
  `OneVerdictHolds`, `OneGenerationHolds`, `AttemptMatchesPaperHolds`, and
  `PublishedAreReviewed`: the candidates of a selection stay approved while the job runs
  and ever after. These hold although two decisions may each miss the other's candidate;
  that race costs progress only (section 7).

Loops. The planner, the parsers and the observations of an exam are loops over lists of
any length, written as recursive functions. The library's induction theorems take an operator
as a parameter and cannot be used; `Induction` and `Iteration` in `PracticeProofs` need none.
`Induction` speaks of a set of step numbers and follows from the fact that < is well-founded
on the naturals (`WFMin`); `Iteration` shows that a loop whose steps stay in a set has a run,
which gives a recursive function the values its definition says. `StudyProofs` extends
`PracticeProofs` for these two lemmas.

Every invariant and every action property that a passing run checks is thus stated by a
theorem, and so are both refinements (`QueueImplementsLease` and `RunnerImplementsLease` to
`LeaseSpec`, `ProposalsImplementLife` to `LifeSpec`).

Only model-checked are the liveness properties, since fairness and ENABLED are out of the
prover's reach: `AttemptEnds`, `RunningJobSettles`, `CancelAnsweredOrBlocked`,
`RequestedIsPublished`, `ApprovedSettles`, `ImportSettles`, `FrozenPurged`.

`CancelIsKept` (a requested cancellation is not undone by a takeover), `JobTypeCorrect`, `RunnerTypeCorrect`, `SessionsHaveUsersHolds`,
`SectionsAsParsed` and `PublishedAreReviewed` are proved and not checked by a run of their
own.

## 7. Where code and documents disagree

Shown by a run: `purge_held`. README.md:66 of the repository says that the task clears
an account's data when its time has come. `purge_due` deletes up to 100 accounts in one
transaction; import runs and resource review decisions refer to their user without ON
DELETE and are not deleted, so an account that uploaded or published a resource makes
the whole batch fail, every night. `FrozenPurged` shows that nothing else keeps an
account frozen.

The models contain the following, and the passing properties are stated around them.

Agent runs and jobs:

- `record_step` commits before the checkpoint does, so a crash in between makes the next
  attempt ask the model again and overwrite the step, although README.md:43 says that
  completed model steps are not run again. What does hold is `TraceExplainsLedger`: once
  a tool has been started the step is settled.
- A resumed attempt keeps the job row locked for its whole duration; `request_cancel`
  holds the run row while it waits for the job row; every fenced write, and `release()`,
  waits for the run row. PostgreSQL sees no cycle, because the worker's two sessions are
  tied together only inside the process. `CancelAnsweredOrBlocked` says that nothing
  else blocks a request. `decide` locks the same job row.
- Reconciliation and `_handle_failure` may both schedule the retry of one attempt. The
  delivery of the first is discarded because the retry is not due, and ARQ drops the
  second because the id is known: the job waits for ever. A worker that dies, or a database
  error, between taking a delivery and the first commit leaves a QUEUED or RETRY_WAIT job
  with `dispatched_at` set, which nobody looks at again either; an import then stays
  QUEUED and a proposal APPROVED (hence the wording of `ImportSettles` and
  `ApprovedSettles`).
- `_dispatch` and `_handle_failure` overwrite a terminal job status, although
  `tasks.py:35` calls them terminal. A dead letter leaves its run RUNNING or
  CANCEL_REQUESTED.

Model router:

- One decision may make one request more than README.md:47 allows, when a repair fails
  with the last request (`OvershootAtMostOne`); a repair can be used for each of the two
  tries, hence twice in one decision.
- A decision that fails does not report all its requests: attempts are lost from some
  of the exceptions (`ResultCountsRequests` demands equality of results only).
- A breaker needs 5 failures and a failed decision ends the attempt with its router, so
  the breaker of plus opens only where runs share a router (offline evaluation). There 16
  cases run at once: when a breaker opens, each of them may have a call under way that has
  passed it, and a late answer to any of them closes it again. `OpenBreakerHolds` allows the
  rest of one call, three requests, for each run.
- An open flash breaker raises without falling back to plus.

Proposals:

- A deferred automatic application leaves a proposal AWAITING_CONFIRMATION without
  `approval_expires_at`, so it never expires; a proposal of a run that ended otherwise
  stays PENDING.
- The capacity check counts PENDING tasks only and locks none of them.

Learning plan:

- Two overlapping rolls with the same end date plan the same day twice, and a roll
  across midnight starts from a stale end; `RolledOnce` says that no section goes to two
  days. One with two knowledge points is planned twice on its day.
- A backfill writes a stale version plus one, so a version may come back; concurrent
  backfills repeat sections.
- `SchoolChangeService.apply` and `submit_feedback` change a status without the version
  (hence the wording of `EditsWhatWasSeen`), and apply may turn COMPLETED into SUPERSEDED.
- Jobs with different start dates can make two ACTIVE plans (README.md:24 speaks of one).

Practice:

- A second POST of feedback on a task fails on a constraint; the PUT whose answer was
  lost is answered 409 when it is repeated.
- Two first answers to a knowledge point race for its row, and the loser's whole request
  is aborted (its retry works); submissions that lock rows in different orders may
  deadlock.
- `consecutive_low_completion_days` counts feedback rows and not days.
- `submit_chapter_session` records answers like the whole true exams do and moves the true
  exam profile, but it never updates `StudentKnowledgeState`: mastery does not learn from
  chapter exams. `EvidenceCounts` says which answers count.

Resources:

- A crash between the commit of an upload and its job leaves an import QUEUED for ever,
  and the same file is refused afterwards.
- A retry after a crash behind the commit inside `parse_run` fails on the unique paths,
  and the job ends FAILED while the import is REVIEW_REQUIRED. A failed parse never sets
  the import to FAILED. A resource can be published while it is PROCESSING.
- Text before the first heading of a Markdown file is dropped (`TextStored`).

Accounts:

- The attempts of a code are read and written in two calls: overlapping answers count
  once, and a wrong answer may overwrite a new code (`overlap`).
- A login that races a deletion inserts a session into the frozen account; a login is
  refused to it, so the deletion can be cancelled only while an access token lives.

Mock exams and unlocks:

- `_resume_if_ready` reads the other candidates without a lock on the paper; of two
  decisions at the same time each finds the other's candidate pending, and the paper
  waits for nobody, although MockExamsPage.tsx announces the resume. Hence the premise
  of `RequestedIsPublished`.
- The route commits the job of a mock before it checks the access, and the job checks
  nothing: a refused mock is generated.
- A question practised while a paper is generated is published in it. A paper resumed
  after a change of school is filled for the new school and keeps the profile, score and
  duration of the old one.
- `submit` of a mock checks the status before the key, so a repeated submission gets 409.
- Completed true exam questions are counted by attempts, of every school, so a
  repeated question stands in for one never answered; hence the premise of
  `SpecializedEarned`.
- Any submitted mock sets the stage that the full mock takes for the student's approval.
- `TrueExamService.submit` writes the stage by what it read without a lock, so it can
  undo an approval given in between (`BeginExam` and `CommitExam` have the race; no
  property forbids it).
- Tasks superseded by a change of school are hidden from the plan and counted by
  `confirm_strengthened`, so changing back blocks the confirmation.

## 8. Not modelled

- Offline evaluation (`evaluation/*`) is a batch program over data files, of which only its
  use of one router for concurrent cases is there (`ModelRouter`); shadow
  evaluation runs candidate models with dry-run tools and writes only its own result;
  catalog and seed data are reads and initial rows. None of them changes what the
  properties speak about.
- Migrations, request schemas, metrics, tracing, the frontend.
- The windows of the stall detector and the rules of the policy engine: a verdict is a
  choice wherever one may be given.
- `domain/planning/planner.py` and the helpers of `PlanGenerationService` around it: no
  job or request calls them since plans are made by `LearningPlanService`.
- Floating point: the mastery score, confidence and the model's confidence.
- Rate limits and delivery of one-time codes, hashing and signing of tokens. The limit
  counter is set and given its expiry in two calls (`otp.py:60`), which is harmless
  unless the process dies in between.
- Profile edits, previews of a school change, queries and replays, invocation and
  guardrail rows: they are only read or only written.

## 9. Plan

1. *done*: agent runs and jobs with their proofs; mock exams and unlocks.
2. *done*: proposals with the refinement to `ProposalLife`, learning plan, practice,
   model router, resources, accounts.
3. *done*: the invariants of `MockExam`, `Accounts`, `ModelRouter`, `Resources`,
   `Proposals` (with the refinement `ImplementsLife`) and the remaining ones of
   `AgentRunner` proved.
4. *done*: the invariants of `StageUnlock`, `LearningPlan` and `Practice` proved, and the
   parsers of `Resources` for documents of any length.
5. The windows of the stall detector, `_specialized_target_counts` and
   `_count_distribution` as pure algorithms against reference definitions.
