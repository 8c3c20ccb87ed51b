---------------------------- MODULE LearningPlan ----------------------------
(***************************************************************************)
(* The learning plan of one student (app/application/learning_plans.py,    *)
(* plans.py, school_change.py, routes/plans.py): a plan with an end date,  *)
(* generated once by a job and extended day by day by every GET and by     *)
(* every later plan job, and its tasks, which the student edits and gives  *)
(* feedback on and the agent adjusts.                                      *)
(*                                                                         *)
(* A session keeps the rows it has loaded: the plan row that roll_forward  *)
(* locks is the object current() and generate_or_roll() read before, so    *)
(* its end date, its version and the student's school are as old as that   *)
(* read, while the tasks are read again under the lock.                    *)
(*                                                                         *)
(* The plan is requested with one start date, so that uq_plan_revision     *)
(* allows one plan; the other jobs come from approved replans.  A          *)
(* candidate is a section with one of its knowledge points.                *)
(***************************************************************************)
EXTENDS Integers, SequencesExt, JobLife

CONSTANTS Schools,    \* target schools
          FirstSchool,
          Pool,       \* Pool[s]: _resource_candidates of school s, in order
          Bindings,   \* the candidates the student binds tasks to (_validate_resource)
          Capacity,   \* Capacity[d]: minutes on day d
          Window,     \* the plan reaches this many days beyond today (6)
          LastDay,    \* bound: the last value of today
          MaxEdits,   \* bound: edits, feedback, adjustments and changes of school
          MaxFills,   \* bound: backfills
          Clients,    \* concurrent GET requests
          Jobs,       \* GENERATE_PLAN jobs
          Start       \* Start[j]: start_date of job j; the first plan starts on day 0

Days == 0 .. LastDay + Window
Candidates == UNION {{Pool[s][i] : i \in DOMAIN Pool[s]} : s \in Schools}

ASSUME PlanAssumption ==
    /\ Window \in Nat /\ LastDay \in Nat /\ MaxEdits \in Nat
    /\ FirstSchool \in Schools /\ Pool \in [Schools -> Seq(Candidates)]
    /\ Bindings \subseteq Candidates
    /\ Capacity \in [Days -> Nat] /\ Start \in [Jobs -> 0 .. LastDay]

VARIABLES plan,     \* the WeeklyPlan row, NoPlan before it is inserted
          tasks,    \* its PlanTask rows, in the order of their insertion
          today, school,
          request,  \* request[c]: the GET of client c
          worker,   \* worker[j]: the job and what its worker has read
          page,     \* the task and the plan version the student is looking at
          moving,   \* the tasks that SchoolChangeService.apply has selected
          edits, fills,
          blind     \* history: an edit hit a task that was not as the student saw it

vars == <<plan, tasks, today, school, request, worker, page, moving, edits, fills, blind>>

NoPlan == [version |-> 0]
Idle == [at |-> "idle"]
Nothing == {}

Init ==
    /\ plan = NoPlan /\ tasks = <<>>
    /\ today = 0 /\ school = FirstSchool
    /\ request = [c \in Clients |-> Idle]
    /\ worker = [j \in Jobs |-> [at |-> "ready", attempts |-> 0]]
    /\ page = Nothing /\ moving = Nothing /\ edits = 0 /\ fills = 0 /\ blind = FALSE

-----------------------------------------------------------------------------
\* _new_task and _new_summary_task.  by is history: which operation made it.
Minutes(kind) == IF kind = "COURSE" THEN 35 ELSE 45
NewTask(c, day, minutes, by) ==
    [section |-> c.section, knowledge |-> c.knowledge, day |-> day, minutes |-> minutes,
     status |-> "PENDING", origin |-> "SYSTEM", version |-> 1, by |-> by]

\* One candidate of one day: the loop body of generate_or_roll, of
\* _backfill_learning_window and of roll_forward.  The first makes summaries,
\* and only roll_forward does not look whether the section was taken today.
Offer(acc, c, day, by) ==
    LET left == acc.left - Minutes(c.kind)
        summary == by = "generate" /\ c.kind = "HANDOUT"
                   /\ c.knowledge \notin acc.summaries /\ left >= 20
        made == <<NewTask(c, day, Minutes(c.kind), by)>>
                \o IF summary THEN <<NewTask(c, day, 20, by)>> ELSE <<>>
        rest == IF summary THEN left - 20 ELSE left
    IN  IF acc.full \/ left < 0 \/ (by # "roll" /\ c.section \in acc.used) THEN acc
        ELSE [tasks |-> acc.tasks \o made, used |-> acc.used \cup {c.section}, left |-> rest,
              summaries |-> acc.summaries \cup IF summary THEN {c.knowledge} ELSE {},
              full |-> rest < 20]

\* One day, candidate by candidate: those whose sections are free in the morning.
DaySteps(acc, day, s, by) ==
    LET filled[n \in 0 .. Len(Pool[s])] ==
          IF n = 0 THEN [acc EXCEPT !.left = Capacity[day], !.full = FALSE]
          ELSE IF Pool[s][n].section \in acc.used THEN filled[n - 1]
          ELSE Offer(filled[n - 1], Pool[s][n], day, by)
    IN  filled
FillDay(acc, day, s, by) == DaySteps(acc, day, s, by)[Len(Pool[s])]

\* The tasks planned for the days first .. last, day by day.
Filled(first, last, used, s, by) ==
    LET days[n \in 0 .. last - first + 1] ==
          IF n = 0
          THEN [tasks |-> <<>>, used |-> used, summaries |-> {}, left |-> 0, full |-> FALSE]
          ELSE FillDay(days[n - 1], first + n - 1, s, by)
    IN  days
Planned(first, last, used, s, by) == Filled(first, last, used, s, by)[last - first + 1].tasks

-----------------------------------------------------------------------------
\* Variant: the section of a task that was removed is free again.
UsedSectionsActive == {tasks[i].section : i \in {k \in DOMAIN tasks : tasks[k].status # "SKIPPED"}}

\* used_sections of roll_forward
UsedSections == {tasks[i].section : i \in DOMAIN tasks}

\* roll_forward with a plan row that was read when it ended on day end.
Roll(end, s, day) ==
    LET last == day + Window IN
    IF end >= last THEN UNCHANGED <<plan, tasks>>
    ELSE /\ plan' = [plan EXCEPT !.end = last]
         /\ tasks' = tasks \o Planned(end + 1, last, UsedSections, s, "roll")

\* current: the plan is read, without a lock ...
GetLoad(c) ==
    /\ request[c] = Idle /\ plan # NoPlan
    /\ request' = [request EXCEPT ![c] = [at |-> "loaded", end |-> plan.end,
                      version |-> plan.version, school |-> school, day |-> today]]
    /\ UNCHANGED <<plan, tasks, today, school, worker, page, moving, edits, fills, blind>>

\* ... the learning tasks in the window are counted ...
GetCount(c) ==
    /\ request[c].at = "loaded"
    /\ LET r == request[c]
           window == {i \in DOMAIN tasks : tasks[i].day \in r.day .. r.day + Window
                                           /\ tasks[i].status \notin {"SKIPPED", "SUPERSEDED"}}
       IN  request' = [request EXCEPT ![c].at = IF window = {} THEN "empty" ELSE "filled"]
    /\ UNCHANGED <<plan, tasks, today, school, worker, page, moving, edits, fills, blind>>

\* ... _backfill_learning_window plans them again if there was none; it writes
\* the version that follows the one it has read ...
GetBackfill(c) ==
    /\ request[c].at = "empty" /\ fills < MaxFills
    /\ LET r == request[c]
           last == r.day + Window
           end == IF last > r.end THEN last ELSE r.end
       IN  /\ tasks' = tasks \o Planned(r.day, last, {}, r.school, "backfill")
           /\ plan' = [version |-> r.version + 1, end |-> IF end # r.end THEN end ELSE plan.end]
           /\ request' = [request EXCEPT ![c] = [@ EXCEPT !.at = "filled", !.end = end,
                                                          !.version = r.version + 1]]
    /\ fills' = fills + 1
    /\ UNCHANGED <<today, school, worker, page, moving, edits, blind>>

\* ... and roll_forward extends the plan under its lock.
GetRoll(c) ==
    /\ request[c].at = "filled"
    /\ Roll(request[c].end, request[c].school, request[c].day)
    /\ request' = [request EXCEPT ![c] = Idle]
    /\ UNCHANGED <<today, school, worker, page, moving, edits, fills, blind>>

-----------------------------------------------------------------------------
\* A job is delivered, for the first time or again (modules JobLife and
\* JobQueue); generate_or_roll looks for an active plan ...  create_plan makes
\* the first job, an approved replan the others.
JobRead(j) ==
    /\ worker[j].at = "ready" /\ today >= Start[j]
    /\ Start[j] > 0 => plan # NoPlan
    /\ worker' = [worker EXCEPT ![j] = [at |-> "read", attempts |-> @.attempts + 1,
                                        sees |-> plan, school |-> school]]
    /\ UNCHANGED <<plan, tasks, today, school, request, page, moving, edits, fills, blind>>

\* What becomes of a job after its plan, or nothing, was committed: it is
\* committed too or has failed for good, or its worker died or met a transient
\* failure and the job is delivered again (_handle_failure, reconcile_stale_jobs).
After(j) ==
    {[at |-> "ended"]} \cup {[at |-> "ready", attempts |-> n] :
                              n \in {worker[j].attempts} \cap 0 .. MaxAttempts - 1}

\* ... and commits the first week, or the days that are missing.
JobPlan(j) ==
    /\ worker[j].at = "read"
    /\ IF worker[j].sees = NoPlan
       THEN /\ plan = NoPlan /\ Pool[worker[j].school] # <<>>
            /\ plan' = [version |-> 1, end |-> Window]
            /\ tasks' = Planned(0, Window, {}, worker[j].school, "generate")
       ELSE Roll(worker[j].sees.end, worker[j].school, Start[j])
    /\ \E w \in After(j) : worker' = [worker EXCEPT ![j] = w]
    /\ UNCHANGED <<today, school, request, page, moving, edits, fills, blind>>

\* The attempt fails before that: there is nothing to plan, another job was
\* first (uq_plan_revision), or the worker dies.
JobFail(j) ==
    /\ worker[j].at = "read"
    /\ \E w \in After(j) : worker' = [worker EXCEPT ![j] = w]
    /\ UNCHANGED <<plan, tasks, today, school, request, page, moving, edits, fills, blind>>

-----------------------------------------------------------------------------
\* The student looks at a task of the plan.
View(i) ==
    /\ page = Nothing /\ edits < MaxEdits
    /\ page' = {[task |-> i, row |-> tasks[i], plan |-> plan.version]}
    /\ UNCHANGED <<plan, tasks, today, school, request, worker, moving, edits, fills, blind>>

\* patch_tasks with one change: the plan and the task are locked, both versions
\* have to be the ones on the page, and a completed task is not touched.  (A day
\* over its capacity is refused unless the student allows it.)
Editable(v, i) ==
    /\ plan.version = v.plan /\ tasks[i].version = v.row.version
    /\ tasks[i].status # "COMPLETED"

\* DELETE, or UPDATE to another day or section.
Edited(t) ==
    {[t EXCEPT !.status = "SKIPPED", !.version = @ + 1],
     [t EXCEPT !.day = today, !.by = "student", !.version = @ + 1]}
    \cup {[t EXCEPT !.section = c.section, !.knowledge = c.knowledge,
                    !.by = "student", !.version = @ + 1] : c \in Bindings}

\* A change of school supersedes tasks and submit_feedback starts them, and
\* both leave the version alone.
AsSeen(seen, found) ==
    found \in {[seen EXCEPT !.status = s] : s \in {seen.status, "SUPERSEDED", "IN_PROGRESS"}}

PatchTask ==
    /\ edits < MaxEdits
    /\ \E v \in page :
         /\ Editable(v, v.task)
         /\ \E t \in Edited(tasks[v.task]) : tasks' = [tasks EXCEPT ![v.task] = t]
         /\ blind' = (blind \/ ~AsSeen(v.row, tasks[v.task]))
    /\ plan' = [plan EXCEPT !.version = @ + 1]
    /\ edits' = edits + 1 /\ page' = Nothing
    /\ UNCHANGED <<today, school, request, worker, moving, fills>>

\* CREATE, for which only the version of the plan counts.
PatchCreate ==
    /\ edits < MaxEdits
    /\ \E v \in page, c \in Bindings :
         /\ plan.version = v.plan
         /\ tasks' = Append(tasks, [NewTask(c, today, 30, "student") EXCEPT !.origin = "STUDENT"])
    /\ plan' = [plan EXCEPT !.version = @ + 1]
    /\ edits' = edits + 1 /\ page' = Nothing
    /\ UNCHANGED <<today, school, request, worker, moving, fills, blind>>

\* upsert_learning_feedback counts the version of the task up; submit_feedback
\* does not, and is refused where there is feedback already (module Practice).
FeedbackTask(t, done) ==
    LET told == [t EXCEPT !.status = IF done THEN "COMPLETED" ELSE "IN_PROGRESS"]
    IN  {[told EXCEPT !.version = @ + 1]}
        \cup IF t.status \in {"COMPLETED", "IN_PROGRESS"} THEN {} ELSE {told}

Feedback(i) ==
    /\ edits < MaxEdits
    /\ \E done \in BOOLEAN : \E t \in FeedbackTask(tasks[i], done) :
         tasks' = [tasks EXCEPT ![i] = t]
    /\ edits' = edits + 1
    /\ UNCHANGED <<plan, today, school, request, worker, page, moving, fills, blind>>

\* Variant: the adjusted task keeps its version.
AdjustedTaskUnversioned(t) == [t EXCEPT !.minutes = (@ * 5) \div 4, !.origin = "AGENT"]

\* _apply_minor_proposal, as far as the task goes (module Proposals).
AdjustedTask(t) == [t EXCEPT !.minutes = (@ * 5) \div 4, !.origin = "AGENT", !.version = @ + 1]

Adjust(i) ==
    /\ edits < MaxEdits /\ tasks[i].status = "PENDING" /\ tasks[i].day >= today
    /\ tasks' = [tasks EXCEPT ![i] = AdjustedTask(@)]
    /\ edits' = edits + 1
    /\ UNCHANGED <<plan, today, school, request, worker, page, moving, fills, blind>>

-----------------------------------------------------------------------------
\* SchoolChangeService.apply selects the pending tasks of the system that the
\* new school does not ask for ...
Knowledge(s) == {c.knowledge : c \in ToSet(Pool[s])}

SelectTasks ==
    /\ moving = Nothing /\ edits < MaxEdits
    /\ \E s \in Schools \ {school} :
         moving' = {[school |-> s,
                     rows |-> {i \in DOMAIN tasks :
                                 /\ tasks[i].status = "PENDING" /\ tasks[i].origin = "SYSTEM"
                                 /\ tasks[i].knowledge \notin Knowledge(s)}]}
    /\ edits' = edits + 1
    /\ UNCHANGED <<plan, tasks, today, school, request, worker, page, fills, blind>>

\* ... and supersedes them, whatever they are by then.
MoveSchool ==
    /\ \E m \in moving :
         /\ school' = m.school
         /\ tasks' = [i \in DOMAIN tasks |-> IF i \in m.rows
                        THEN [tasks[i] EXCEPT !.status = "SUPERSEDED"] ELSE tasks[i]]
    /\ moving' = Nothing
    /\ UNCHANGED <<plan, today, request, worker, page, edits, fills, blind>>

NextDay ==
    /\ today < LastDay
    /\ today' = today + 1
    /\ UNCHANGED <<plan, tasks, school, request, worker, page, moving, edits, fills, blind>>

GetPlan(c) == GetLoad(c) \/ GetCount(c) \/ GetBackfill(c) \/ GetRoll(c)
ExecuteJob(j) == JobRead(j) \/ JobPlan(j) \/ JobFail(j)
PatchTasks == PatchTask \/ PatchCreate

Next ==
    \/ \E c \in Clients : GetPlan(c)
    \/ \E j \in Jobs : ExecuteJob(j)
    \/ \E i \in DOMAIN tasks : View(i) \/ Feedback(i) \/ Adjust(i)
    \/ PatchTasks \/ SelectTasks \/ MoveSchool \/ NextDay

Spec == Init /\ [][Next]_vars

-----------------------------------------------------------------------------
\* The plan never spreads a section over two days: whatever GETs, jobs, retries
\* and midnights overlap, the tasks that generate_or_roll and roll_forward made
\* for one section are on one day.  (Backfills repeat sections on purpose.)
RolledOnce ==
    \A i, k \in DOMAIN tasks :
        (/\ tasks[i].by \in {"generate", "roll"} /\ tasks[k].by \in {"generate", "roll"}
         /\ tasks[i].section = tasks[k].section) => tasks[i].day = tasks[k].day

\* An edit is applied to the task the student was looking at, though edits,
\* feedback, adjustments by the agent, backfills and jobs come in between: its
\* day, its section, its minutes and its origin are the ones on the page.  Its
\* status may have moved, for a change of school and submit_feedback leave the
\* version alone.
EditsWhatWasSeen == ~blind
=============================================================================
