----------------------------- MODULE Proposals -----------------------------
(***************************************************************************)
(* Proposals after the tool call that made them: ProposalService.decide    *)
(* (app/application/agent_runs.py), apply_minor_proposals and              *)
(* _apply_minor_proposal (app/infrastructure/adapters/learning_tools.py),  *)
(* and the replan job, its proposal marks and expire_proposals             *)
(* (app/workers/tasks.py).                                                 *)
(*                                                                         *)
(* Every proposal has a run of its own.  decide and apply_minor_proposals  *)
(* take the same two row locks in opposite orders, so both are several     *)
(* steps here; PostgreSQL aborts one of them when they wait for each       *)
(* other.  The plan is the tasks a proposal depends on or changes, with    *)
(* their versions; minutes and capacities are a free choice.               *)
(***************************************************************************)
EXTENDS JobLife

CONSTANTS Ids,        \* the proposals
          Tasks,      \* plan tasks of one type and knowledge point
          Source,     \* Source[p]: the task whose feedback started p's run
          Kinds,      \* Kinds[p]: what p's run may propose
          MaxChanges  \* bound: changes of a task

ASSUME ProposalsAssumption ==
    /\ Source \in [Ids -> Tasks] /\ MaxChanges \in Nat
    /\ Kinds \in [Ids -> SUBSET {"MINOR_ADJUST", "MAJOR_REPLAN", "STAGE_TRANSITION"}]

VARIABLES proposal, \* proposal[p]: the Proposal row
          task,     \* task[t]: the PlanTask row
          decision, \* decision[p]: the request that decides p, Idle if there is none
          applier,  \* applier[p]: apply_minor_proposals of p's run
          job,      \* job[p]: the GENERATE_PLAN job of p
          worker,   \* worker[p]: the worker of that job
          adjusted, \* history: tasks changed in the name of p
          rolled    \* history: p's job has rolled the plan

vars == <<proposal, task, decision, applier, job, worker, adjusted, rolled>>

Open == {"PENDING", "AWAITING_CONFIRMATION"}

\* expiry: approval_expires_at is NULL, in the future or past; evidence: the
\* version in evidence_snapshot; seen: history, the changes it stands for.
NoProposal == [status |-> "none"]
Idle == [at |-> "idle"]
Nobody == "nobody"

Init ==
    /\ proposal = [p \in Ids |-> NoProposal]
    /\ task = [t \in Tasks |-> [pending |-> TRUE, version |-> 1, changes |-> 0]]
    /\ decision = [p \in Ids |-> Idle]
    /\ applier = [p \in Ids |-> [at |-> "running"]]
    /\ job = [p \in Ids |-> NoJob]
    /\ worker = [p \in Ids |-> "idle"]
    /\ adjusted = [p \in Ids |-> 0]
    /\ rolled = [p \in Ids |-> 0]

Exists(p) == proposal[p].status # "none"
SetStatus(p, s) == proposal' = [proposal EXCEPT ![p].status = s]
Current(p) == task[Source[p]].version = proposal[p].evidence
\* History: nothing has happened to the task since.
Fresh(p) == task[Source[p]].changes = proposal[p].seen

\* The target row is locked from its selection to the commit.
LockedTasks == {decision[p].target : p \in {q \in Ids : decision[q].at = "checked"}}
               \cup {applier[p].target : p \in {q \in Ids : applier[q].at = "checked"}}

-----------------------------------------------------------------------------
\* propose: the tool of the agent run.
Propose(p) ==
    /\ ~Exists(p) /\ applier[p].at = "running"
    /\ \E kind \in Kinds[p] :
         proposal' = [proposal EXCEPT ![p] =
             [kind |-> kind,
              status |-> IF kind = "MINOR_ADJUST" THEN "PENDING" ELSE "AWAITING_CONFIRMATION",
              expiry |-> IF kind = "MINOR_ADJUST" THEN "none" ELSE "ahead",
              evidence |-> task[Source[p]].version, seen |-> task[Source[p]].changes]]
    /\ UNCHANGED <<task, decision, applier, job, worker, adjusted, rolled>>

\* Feedback or an edit of the student: locked, and the version goes up.
\* (submit_feedback would leave it alone, but a diagnosis begins with feedback
\* on its source task, and uq_feedback_task refuses a second one there.)
ChangeTask(t) ==
    /\ t \notin LockedTasks /\ task[t].changes < MaxChanges
    /\ \E pending \in {FALSE, task[t].pending} :
         task' = [task EXCEPT ![t] = [pending |-> pending, version |-> @.version + 1,
                                      changes |-> @.changes + 1]]
    /\ UNCHANGED <<proposal, decision, applier, job, worker, adjusted, rolled>>

-----------------------------------------------------------------------------
\* Variant: the adjusted task keeps its version.
AdjustedTaskUnversioned(t) == [task EXCEPT ![t].changes = @ + 1]

\* The end of _apply_minor_proposal: the task is changed.
AdjustedTask(t) == [task EXCEPT ![t].changes = @ + 1, ![t].version = @ + 1]

\* What _apply_minor_proposal finds: a task to adjust, or why there is none.
\* Whether the day has room for the adjusted minutes is left open.
Targets(p) == {t \in Tasks \ {Source[p]} : task[t].pending /\ task[t].changes < MaxChanges}
Eligible(p) ==
    IF ~Current(p) THEN {Nobody}
    ELSE {Nobody} \cup (Targets(p) \ LockedTasks)

\* The run ends without apply_minor_proposals, or with nothing for it to do.
RunEnds(p) ==
    /\ applier[p].at = "running" /\ proposal[p].status \in {"none", "PENDING"}
    /\ applier' = [applier EXCEPT ![p] = [at |-> "done"]]
    /\ UNCHANGED <<proposal, task, decision, job, worker, adjusted, rolled>>

\* apply_minor_proposals, reached once at most: assert_fence locks the run, the
\* pending proposals are read without a lock, and the target is locked.
ApplyRead(p) ==
    /\ applier[p].at = "running" /\ decision[p].at \notin {"locked", "checked"}
    /\ proposal[p].status = "PENDING"
    /\ \E confident \in BOOLEAN :
       \E t \in IF confident THEN Eligible(p) ELSE {Nobody} :
         applier' = [applier EXCEPT ![p] =
                        [at |-> "checked", target |-> t, fresh |-> Fresh(p),
                         expiry |-> IF confident THEN "none" ELSE "ahead"]]
    /\ UNCHANGED <<proposal, task, decision, job, worker, adjusted, rolled>>

\* The commit updates the proposal, for which it needs the row lock.
ApplyCommit(p) ==
    /\ applier[p].at = "checked" /\ decision[p].at = "idle"
    /\ IF applier[p].target = Nobody
       THEN /\ proposal' = [proposal EXCEPT ![p].status = "AWAITING_CONFIRMATION",
                                ![p].expiry = applier[p].expiry]
            /\ UNCHANGED <<task, adjusted>>
       ELSE /\ SetStatus(p, "AUTO_COMMITTED")
            /\ task' = AdjustedTask(applier[p].target)
            /\ adjusted' = [adjusted EXCEPT ![p] = @ + 1]
    /\ applier' = [applier EXCEPT ![p] = [at |-> "done"]]
    /\ UNCHANGED <<decision, job, worker, rolled>>

-----------------------------------------------------------------------------
\* decide locks the proposal and then the run, for which it waits when the
\* applier holds it.  Whether it approves or rejects matters later.
DecideLock(p) ==
    /\ Exists(p) /\ decision[p].at = "idle"
    /\ decision' = [decision EXCEPT ![p] =
                       [at |-> IF applier[p].at = "checked" THEN "waiting" ELSE "locked"]]
    /\ UNCHANGED <<proposal, task, applier, job, worker, adjusted, rolled>>

DecideLockRun(p) ==
    /\ decision[p].at = "waiting" /\ applier[p].at # "checked"
    /\ decision' = [decision EXCEPT ![p].at = "locked"]
    /\ UNCHANGED <<proposal, task, applier, job, worker, adjusted, rolled>>

\* Variant: a decision may be taken again as long as nothing was applied.
DecidableAgain(s) == s \in Open \cup {"REJECTED", "EXPIRED", "APPLY_FAILED"}

Decidable(s) == s \in Open

Answer(p) == decision' = [decision EXCEPT ![p] = Idle]

\* The early returns of decide, and a rejection.
DecideAnswer(p) ==
    /\ decision[p].at = "locked"
    /\ LET q == proposal[p] IN
       \/ ~Decidable(q.status) /\ UNCHANGED proposal
       \/ /\ Decidable(q.status) /\ (q.expiry = "past" \/ ~Current(p))
          /\ SetStatus(p, "EXPIRED")
       \/ Decidable(q.status) /\ q.expiry # "past" /\ SetStatus(p, "REJECTED")
    /\ Answer(p)
    /\ UNCHANGED <<task, applier, job, worker, adjusted, rolled>>

\* An approval: _evidence_is_current and _apply_minor_proposal read the plan,
\* the target is locked ...
DecideRead(p) ==
    /\ decision[p].at = "locked"
    /\ Decidable(proposal[p].status) /\ proposal[p].expiry # "past" /\ Current(p)
    /\ \E t \in IF proposal[p].kind = "MINOR_ADJUST" THEN Eligible(p) ELSE {Nobody} :
         decision' = [decision EXCEPT ![p] =
                         [at |-> "checked", target |-> t, fresh |-> Fresh(p)]]
    /\ UNCHANGED <<proposal, task, applier, job, worker, adjusted, rolled>>

\* ... and changed; a replan gets its job in the same transaction, and fails
\* with it when the idempotency key belongs to another plan job; there is
\* nothing that applies a stage transition.
DecideCommit(p) ==
    /\ decision[p].at = "checked"
    /\ \/ /\ proposal[p].kind = "MINOR_ADJUST" /\ decision[p].target # Nobody
          /\ SetStatus(p, "APPLIED")
          /\ task' = AdjustedTask(decision[p].target)
          /\ adjusted' = [adjusted EXCEPT ![p] = @ + 1]
          /\ UNCHANGED <<job>>
       \/ /\ proposal[p].kind # "MAJOR_REPLAN" /\ decision[p].target = Nobody
          /\ SetStatus(p, "APPLY_FAILED")
          /\ UNCHANGED <<task, adjusted, job>>
       \/ /\ proposal[p].kind = "MAJOR_REPLAN"
          /\ \/ SetStatus(p, "APPROVED") /\ job' = [job EXCEPT ![p] = NewJob]
             \/ UNCHANGED <<proposal, job>>
          /\ UNCHANGED <<task, adjusted>>
    /\ Answer(p)
    /\ UNCHANGED <<applier, worker, rolled>>

\* decide holds the proposal and waits for the run, the applier holds the run
\* and waits for the proposal: PostgreSQL aborts one of the two.
Deadlock(p) ==
    /\ decision[p].at = "waiting" /\ applier[p].at = "checked"
    /\ \/ Answer(p) /\ UNCHANGED applier
       \/ applier' = [applier EXCEPT ![p] = [at |-> "done"]] /\ UNCHANGED decision
    /\ UNCHANGED <<proposal, task, job, worker, adjusted, rolled>>

\* The process of a request or of the applier ends; its transaction is undone.
Lost(p) ==
    /\ \/ decision[p].at # "idle" /\ Answer(p) /\ UNCHANGED applier
       \/ /\ applier[p].at = "checked" /\ UNCHANGED decision
          /\ applier' = [applier EXCEPT ![p] = [at |-> "done"]]
    /\ UNCHANGED <<proposal, task, job, worker, adjusted, rolled>>

-----------------------------------------------------------------------------
\* The clock passes approval_expires_at.
ExpiryPasses(p) ==
    /\ Exists(p) /\ proposal[p].expiry = "ahead" /\ proposal[p].status = "AWAITING_CONFIRMATION"
    /\ proposal' = [proposal EXCEPT ![p].expiry = "past"]
    /\ UNCHANGED <<task, decision, applier, job, worker, adjusted, rolled>>

Unlocked(p) == decision[p].at = "idle"

\* The query of expire_proposals, with SKIP LOCKED.
Expirable == {p \in Ids : Exists(p) /\ proposal[p].status = "AWAITING_CONFIRMATION"
                          /\ proposal[p].expiry = "past" /\ Unlocked(p)}

ExpireProposals ==
    /\ Expirable # {}
    /\ proposal' = [p \in Ids |-> IF p \in Expirable
                                  THEN [proposal[p] EXCEPT !.status = "EXPIRED"]
                                  ELSE proposal[p]]
    /\ UNCHANGED <<task, decision, applier, job, worker, adjusted, rolled>>

-----------------------------------------------------------------------------
\* _mark_proposal_applying, _mark_proposal_applied and _mark_proposal_failed
Marked(p, from, to) ==
    IF proposal[p].status \in from THEN [proposal EXCEPT ![p].status = to] ELSE proposal
MarkFailed(p, ended) ==
    IF ended \in {"FAILED", "DEAD_LETTER"} THEN Marked(p, {"APPROVED", "APPLYING"}, "APPLY_FAILED")
    ELSE proposal

\* The first transaction of execute_job.
StartReplan(p) ==
    /\ CanStart(job[p]) /\ Unlocked(p)
    /\ job' = [job EXCEPT ![p] = StartedJob(@)]
    /\ proposal' = Marked(p, {"APPROVED"}, "APPLYING")
    /\ worker' = [worker EXCEPT ![p] = "started"]
    /\ UNCHANGED <<task, decision, applier, adjusted, rolled>>

\* The worker dies, or the database fails, before the job is RUNNING.
LoseReplan(p) ==
    /\ CanStart(job[p])
    /\ job' = [job EXCEPT ![p] = LostDelivery(@)]
    /\ UNCHANGED <<proposal, task, decision, applier, worker, adjusted, rolled>>

\* generate_or_roll commits the plan in the session of the job.
RollPlan(p) ==
    /\ worker[p] = "started"
    /\ worker' = [worker EXCEPT ![p] = "rolled"]
    /\ rolled' = [rolled EXCEPT ![p] = 1]
    /\ UNCHANGED <<proposal, task, decision, applier, job, adjusted>>

\* The end of _dispatch.
FinishReplan(p) ==
    /\ worker[p] = "rolled" /\ Unlocked(p)
    /\ job' = [job EXCEPT ![p] = SucceededJob(@)]
    /\ proposal' = Marked(p, {"APPLYING"}, "APPLIED")
    /\ worker' = [worker EXCEPT ![p] = "idle"]
    /\ UNCHANGED <<task, decision, applier, adjusted, rolled>>

\* _handle_failure, before or after the plan was committed.
FailReplan(p) ==
    /\ worker[p] # "idle" /\ Unlocked(p)
    /\ \E transient \in BOOLEAN :
         LET failed == FailedJob(job[p], transient) IN
         /\ job' = [job EXCEPT ![p] = failed]
         /\ proposal' = MarkFailed(p, failed.status)
    /\ worker' = [worker EXCEPT ![p] = "idle"]
    /\ UNCHANGED <<task, decision, applier, adjusted, rolled>>

\* The worker dies.
CrashReplan(p) ==
    /\ worker[p] # "idle"
    /\ worker' = [worker EXCEPT ![p] = "idle"]
    /\ UNCHANGED <<proposal, task, decision, applier, job, adjusted, rolled>>

\* Variant: the proposal of a stale job is forgotten.
ReconcileForgetting(p) ==
    /\ job[p].status = "RUNNING" /\ worker[p] = "idle" /\ Unlocked(p)
    /\ job' = [job EXCEPT ![p] = ReconciledJob(@)]
    /\ UNCHANGED <<proposal, task, decision, applier, worker, adjusted, rolled>>

\* reconcile_stale_jobs
ReconcileReplan(p) ==
    /\ job[p].status = "RUNNING" /\ worker[p] = "idle" /\ Unlocked(p)
    /\ LET stale == ReconciledJob(job[p]) IN
       /\ job' = [job EXCEPT ![p] = stale]
       /\ proposal' = MarkFailed(p, stale.status)
    /\ UNCHANGED <<task, decision, applier, worker, adjusted, rolled>>

-----------------------------------------------------------------------------
Decide(p) == DecideLockRun(p) \/ DecideAnswer(p) \/ DecideRead(p) \/ DecideCommit(p)
Replan(p) == RollPlan(p) \/ FinishReplan(p) \/ FailReplan(p)

Next ==
    \/ \E p \in Ids :
         \/ Propose(p) \/ RunEnds(p) \/ ApplyRead(p) \/ ApplyCommit(p)
         \/ DecideLock(p) \/ Decide(p) \/ Deadlock(p) \/ Lost(p)
         \/ ExpiryPasses(p)
         \/ StartReplan(p) \/ LoseReplan(p) \/ Replan(p)
         \/ CrashReplan(p) \/ ReconcileReplan(p)
    \/ \E t \in Tasks : ChangeTask(t)
    \/ ExpireProposals

Spec == Init /\ [][Next]_vars

\* Requests and transactions come to an end, deadlocks are detected, the
\* dispatcher polls and a worker takes what is delivered, unless that is lost
\* (LoseReplan), and the reconciliation is a cron job.
\* Requests may lock the proposal again and again, hence SF for the job.
FairSpec ==
    /\ Spec
    /\ \A p \in Ids :
         /\ WF_vars(Decide(p) \/ ApplyCommit(p) \/ Deadlock(p))
         /\ SF_vars(StartReplan(p) \/ Replan(p) \/ ReconcileReplan(p))

-----------------------------------------------------------------------------
Phase(q) ==
    CASE q.status = "none" -> "absent"
      [] q.status \in Open -> "open"
      [] q.status \in {"APPROVED", "APPLYING"} -> "granted"
      [] q.status \in {"APPLIED", "AUTO_COMMITTED"} -> "done"
      [] q.status = "APPLY_FAILED" -> "failed"
      [] q.status \in {"REJECTED", "EXPIRED"} -> "refused"

Life == INSTANCE ProposalLife WITH
    Proposals <- Ids,
    phase <- [p \in Ids |-> Phase(proposal[p])],
    direct <- {p \in Ids : Exists(p) /\ proposal[p].kind = "MINOR_ADJUST"},
    effect <- [p \in Ids |-> adjusted[p] + rolled[p]]

\* The proposals implement ProposalLife: a decision, the automatic application,
\* the expiry and the replan job race, deadlock, crash and retry, and still a
\* proposal is decided once, carried out at most once when it changes a task,
\* never after it was refused, and not reported as applied before it was.
ImplementsLife == Life!LifeSpec

\* The job of a replan and its proposal end together and alike.
JobTellsProposal ==
    \A p \in Ids : job[p].status # "none" =>
        CASE job[p].status = "SUCCEEDED" -> proposal[p].status = "APPLIED"
          [] job[p].status \in {"FAILED", "DEAD_LETTER"} -> proposal[p].status = "APPLY_FAILED"
          [] job[p].status = "QUEUED" -> proposal[p].status = "APPROVED"
          [] OTHER -> proposal[p].status = "APPLYING"

\* A task is adjusted and a replan approved only if the task the proposal is
\* based on had not changed, by the student or by another proposal, when the
\* plan was read for it.
FreshEvidence ==
    [][\A p \in Ids :
         (adjusted'[p] # adjusted[p] \/ (job[p] = NoJob /\ job'[p] # NoJob)) =>
             \/ decision[p].at = "checked" /\ decision[p].fresh
             \/ applier[p].at = "checked" /\ applier[p].fresh]_vars

\* An approved replan is applied or reported as failed, although workers die
\* while they carry it out, unless a delivery of its job is lost before the job
\* is RUNNING: nothing recovers that one, and the proposal stays as it is.
ApprovedSettles ==
    \A p \in Ids : proposal[p].status = "APPROVED"
                       ~> (proposal[p].status \in {"APPLIED", "APPLY_FAILED"} \/ job[p].lost)
=============================================================================
