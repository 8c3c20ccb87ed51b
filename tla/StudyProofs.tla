---------------------------- MODULE StudyProofs -----------------------------
(***************************************************************************)
(* Proofs about what a student is given to study.                          *)
(*                                                                         *)
(* The first part is about LearningPlan, for any pool of sections, window, *)
(* number of clients, jobs and edits: the planner never uses a section on  *)
(* two days, and an edit is applied to the task that the page showed.      *)
(*                                                                         *)
(* The second part is about Resources, for any documents and uploads: what *)
(* is published was reviewed, a job that succeeded has an import to show,  *)
(* and what is stored is the text that the parser was to keep.             *)
(*                                                                         *)
(* The loops of the planner and the parsers are recursive functions; what  *)
(* they compute is proved by induction on the number of their steps.       *)
(***************************************************************************)
EXTENDS LearningPlan, Resources, PracticeProofs

(* LearningPlan; Induction and Iteration are lemmas of PracticeProofs. *)

Sections == {c.section : c \in Candidates}
Topics == {c.knowledge : c \in Candidates}
Makers == {"generate", "backfill", "roll"}
Statuses == {"PENDING", "IN_PROGRESS", "COMPLETED", "SKIPPED", "SUPERSEDED"}
TaskRows == [section : Sections, knowledge : Topics, day : Days, minutes : Int,
             status : Statuses, origin : {"SYSTEM", "STUDENT", "AGENT"},
             version : Nat, by : Makers \cup {"student"}]
RowsOf(t) == {t[i] : i \in DOMAIN t}

Progress == [tasks : Seq(TaskRows), used : SUBSET Sections, left : Int,
             summaries : SUBSET Topics, full : BOOLEAN]

\* What a day that began with acc may have made.
DayFrom(acc, day, by) ==
    {a \in Progress :
       /\ acc.used \subseteq a.used
       /\ \A r \in RowsOf(a.tasks) :
            r \in RowsOf(acc.tasks)
              \/ (r.section \in a.used \ acc.used /\ r.day = day /\ r.by = by)}

\* What any number of days may have made.
DaysFrom(used, by) ==
    {a \in Progress :
       /\ used \subseteq a.used
       /\ \A r \in RowsOf(a.tasks) : r.section \in a.used \ used /\ r.by = by
       /\ \A r, q \in RowsOf(a.tasks) : r.section = q.section => r.day = q.day}

\* Appending tasks keeps the ones there are, where they are.
LEMMA RowsAppended ==
    ASSUME NEW R, NEW t \in Seq(R), NEW u \in Seq(R)
    PROVE  /\ t \o u \in Seq(R) /\ RowsOf(t \o u) = RowsOf(t) \cup RowsOf(u)
           /\ Len(t \o u) = Len(t) + Len(u)
           /\ \A i \in DOMAIN t : (t \o u)[i] = t[i]
<1> DEFINE v == t \o u
<1>1. v \in Seq(R) /\ Len(v) = Len(t) + Len(u)
  OBVIOUS
<1>2. \A i \in 1 .. Len(v) : v[i] = IF i <= Len(t) THEN t[i] ELSE u[i - Len(t)]
  OBVIOUS
<1>3. /\ DOMAIN v = 1 .. Len(t) + Len(u)
      /\ DOMAIN t = 1 .. Len(t) /\ DOMAIN u = 1 .. Len(u) /\ Len(t) \in Nat /\ Len(u) \in Nat
  BY <1>1
<1>4. \A i \in DOMAIN t : v[i] = t[i] /\ i \in DOMAIN v
  BY <1>2, <1>3, <1>1
<1>5. \A i \in DOMAIN u : v[Len(t) + i] = u[i] /\ Len(t) + i \in DOMAIN v
  BY <1>2, <1>3, <1>1
<1>6. \A i \in DOMAIN v : v[i] \in RowsOf(t) \cup RowsOf(u)
  BY <1>1, <1>2, <1>3 DEF RowsOf
<1> HIDE DEF v
<1>7. RowsOf(v) = RowsOf(t) \cup RowsOf(u)
  BY <1>4, <1>5, <1>6 DEF RowsOf
<1> QED BY <1>1, <1>4, <1>7 DEF v

\* The task made from a candidate (task_from_candidate) is a pending task of
\* that section and day.
LEMMA NewTaskRow ==
    ASSUME NEW c \in Candidates, NEW day \in Days, NEW minutes \in Int,
           NEW by \in Makers \cup {"student"}
    PROVE  /\ NewTask(c, day, minutes, by) \in TaskRows
           /\ NewTask(c, day, minutes, by).section = c.section
           /\ NewTask(c, day, minutes, by).day = day /\ NewTask(c, day, minutes, by).by = by
           /\ NewTask(c, day, minutes, by).status = "PENDING"
BY DEF NewTask, TaskRows, Sections, Topics, Statuses, Days

\* Offering the day one more candidate keeps what the day made apart from what
\* was used before.
LEMMA OfferKeepsDay ==
    ASSUME NEW acc \in Progress, NEW day \in Days, NEW by \in Makers,
           NEW a \in DayFrom(acc, day, by), NEW c \in Candidates, c.section \notin acc.used
    PROVE  Offer(a, c, day, by) \in DayFrom(acc, day, by)
<1> DEFINE left == a.left - Minutes(c.kind)
           summary == by = "generate" /\ c.kind = "HANDOUT"
                      /\ c.knowledge \notin a.summaries /\ left >= 20
           first == <<NewTask(c, day, Minutes(c.kind), by)>>
           second == IF summary THEN <<NewTask(c, day, 20, by)>> ELSE <<>>
           rest == IF summary THEN left - 20 ELSE left
           b == [tasks |-> a.tasks \o (first \o second),
                 used |-> a.used \cup {c.section}, left |-> rest,
                 summaries |-> a.summaries \cup IF summary THEN {c.knowledge} ELSE {},
                 full |-> rest < 20]
<1>1. a \in Progress
  BY DEF DayFrom
<1>2. Minutes(c.kind) \in Int /\ left \in Int /\ rest \in Int
  BY <1>1 DEF Minutes, Progress
<1>3. first \in Seq(TaskRows) /\ second \in Seq(TaskRows)
  BY <1>2, NewTaskRow
<1>4. \A r \in RowsOf(first) \cup RowsOf(second) :
         r.section = c.section /\ r.day = day /\ r.by = by
  BY <1>2, NewTaskRow DEF RowsOf
<1>5. a.tasks \in Seq(TaskRows)
  BY <1>1 DEF Progress
<1>9. Offer(a, c, day, by) = a \/ Offer(a, c, day, by) = b
  BY DEF Offer
<1> HIDE DEF first, second, rest, left
<1> DEFINE made == first \o second
<1>6. /\ made \in Seq(TaskRows)
      /\ RowsOf(made) = RowsOf(first) \cup RowsOf(second)
  BY <1>3, RowsAppended
<1> HIDE DEF made
<1>7. /\ a.tasks \o made \in Seq(TaskRows)
      /\ RowsOf(a.tasks \o made) = RowsOf(a.tasks) \cup (RowsOf(first) \cup RowsOf(second))
  BY <1>5, <1>6, RowsAppended
<1>8. c.section \in Sections /\ c.knowledge \in Topics
  BY DEF Sections, Topics
<1> USE DEF made
<1>10. b \in Progress
  BY <1>1, <1>2, <1>7, <1>8 DEF Progress
<1>11. b \in DayFrom(acc, day, by)
  BY <1>4, <1>7, <1>10 DEF DayFrom
<1> HIDE DEF b
<1> QED BY <1>9, <1>11

\* A day filled from the pool of a school makes tasks of that day, from
\* sections not used before it, whatever the pool and the capacity.
LEMMA DayFilled ==
    ASSUME NEW acc \in Progress, NEW day \in Days, NEW by \in Makers, NEW s \in Schools
    PROVE  FillDay(acc, day, s, by) \in DayFrom(acc, day, by)
<1> DEFINE N == Len(Pool[s])
           D == DayFrom(acc, day, by)
           base == [acc EXCEPT !.left = Capacity[day], !.full = FALSE]
           Step(n, x) == IF Pool[s][n].section \in acc.used THEN x
                         ELSE Offer(x, Pool[s][n], day, by)
           F == [n \in 1 .. N |-> [x \in D |-> Step(n, x)]]
           d == DaySteps(acc, day, s, by)
           T == {n \in 0 .. N : d[n] \in D}
<1>1. N \in Nat /\ \A n \in 1 .. N : Pool[s][n] \in Candidates
  <2>1. Pool[s] \in Seq(Candidates)
    BY PlanAssumption
  <2> QED BY <2>1
<1>2. base \in D
  <2>1. Capacity[day] \in Int
    BY PlanAssumption
  <2>2. base \in Progress /\ base.used = acc.used /\ base.tasks = acc.tasks
    BY <2>1 DEF Progress
  <2> HIDE DEF base
  <2> QED BY <2>2 DEF DayFrom
<1>3. \A n \in 1 .. N : \A x \in D : Step(n, x) \in D
  BY <1>1, OfferKeepsDay
<1>4. F \in [1 .. N -> [D -> D]]
  BY <1>3
<1> HIDE DEF D, base
<1>5. PICK f : RunOf(f, base, F, N, D)
  <2> HIDE DEF N, F
  <2>1. StepsIn(F, N, D)
    BY <1>4 DEF StepsIn
  <2> QED BY <1>1, <1>2, <2>1, Iteration
<1>6. f = [n \in 0 .. N |-> IF n = 0 THEN base ELSE Step(n, f[n - 1])]
  <2>1. \A n \in 0 .. N : f[n] = IF n = 0 THEN base ELSE Step(n, f[n - 1])
    <3> SUFFICES ASSUME NEW n \in 0 .. N
                 PROVE  f[n] = IF n = 0 THEN base ELSE Step(n, f[n - 1])
      OBVIOUS
    <3>1. CASE n = 0
      BY <3>1, <1>5 DEF RunOf
    <3>2. CASE n # 0
      <4>1. n \in 1 .. N /\ n - 1 \in 0 .. N
        BY <3>2, <1>1
      <4>2. f[n - 1] \in D
        BY <4>1, <1>5 DEF RunOf
      <4>3. F[n][f[n - 1]] = Step(n, f[n - 1])
        BY <4>1, <4>2
      <4> QED BY <3>2, <4>3, <1>5 DEF RunOf
    <3> QED BY <3>1, <3>2
  <2> HIDE DEF Step
  <2> QED BY <2>1, <1>5 DEF RunOf
<1>7. d = [n \in 0 .. N |-> IF n = 0 THEN base ELSE Step(n, d[n - 1])]
  BY <1>6 DEF DaySteps, base
<1> HIDE DEF d, Step, N
<1>8. 0 \in T
  BY <1>1, <1>2, <1>7
<1>9. ASSUME NEW n \in 1 .. N, n - 1 \in T PROVE n \in T
  <2>1. d[n - 1] \in D /\ n \in 0 .. N /\ n # 0
    BY <1>1, <1>9
  <2>2. d[n] = Step(n, d[n - 1])
    BY <1>7, <2>1
  <2> QED BY <1>3, <2>1, <2>2
<1> HIDE DEF T
<1>10. 0 .. N \subseteq T
  BY <1>1, <1>8, <1>9, Induction
<1>11. d[N] \in D
  BY <1>1, <1>10 DEF T
<1> QED BY <1>11 DEF FillDay, d, N, D

\* A day planned after other days uses sections that none of them used.
LEMMA DayAfterDays ==
    ASSUME NEW used \in SUBSET Sections, NEW by \in Makers, NEW day \in Days,
           NEW acc \in DaysFrom(used, by), NEW a \in DayFrom(acc, day, by)
    PROVE  a \in DaysFrom(used, by)
<1>1. a \in Progress /\ acc.used \subseteq a.used /\ used \subseteq a.used
  BY DEF DayFrom, DaysFrom
<1>2. \A r \in RowsOf(a.tasks) : r.section \in a.used \ used /\ r.by = by
  BY DEF DayFrom, DaysFrom
<1>3. \A r, q \in RowsOf(a.tasks) : r.section = q.section => r.day = q.day
  BY DEF DayFrom, DaysFrom
<1> QED BY <1>1, <1>2, <1>3 DEF DaysFrom

\* What the planner makes for any range of days has only unused sections, and
\* no section on two days.
LEMMA PlannedRows ==
    ASSUME NEW first \in Days, NEW last \in Days, first <= last,
           NEW used \in SUBSET Sections, NEW by \in Makers, NEW s \in Schools
    PROVE  LET made == Planned(first, last, used, s, by)
           IN  /\ made \in Seq(TaskRows)
               /\ \A r \in RowsOf(made) : r.section \notin used /\ r.by = by
               /\ \A r, q \in RowsOf(made) : r.section = q.section => r.day = q.day
<1> DEFINE N == last - first + 1
           D == DaysFrom(used, by)
           base == [tasks |-> <<>>, used |-> used, summaries |-> {}, left |-> 0, full |-> FALSE]
           Step(n, x) == FillDay(x, first + n - 1, s, by)
           F == [n \in 1 .. N |-> [x \in D |-> Step(n, x)]]
           d == Filled(first, last, used, s, by)
           T == {n \in 0 .. N : d[n] \in D}
<1>1. N \in Nat /\ \A n \in 1 .. N : first + n - 1 \in Days
  BY PlanAssumption DEF Days
<1>2. base \in D
  <2>1. RowsOf(<<>>) = {}
    BY DEF RowsOf
  <2>2. base \in Progress
    BY DEF Progress
  <2> QED BY <2>1, <2>2 DEF DaysFrom
<1>3. ASSUME NEW n \in 1 .. N, NEW x \in D PROVE Step(n, x) \in D
  <2>1. x \in Progress
    BY DEF DaysFrom
  <2>2. FillDay(x, first + n - 1, s, by) \in DayFrom(x, first + n - 1, by)
    BY <1>1, <2>1, DayFilled
  <2> HIDE DEF N
  <2> QED BY <1>1, <2>2, DayAfterDays
<1>4. F \in [1 .. N -> [D -> D]]
  BY <1>3
<1> HIDE DEF D, base
<1>5. PICK f : RunOf(f, base, F, N, D)
  <2> HIDE DEF N, F
  <2>1. StepsIn(F, N, D)
    BY <1>4 DEF StepsIn
  <2> QED BY <1>1, <1>2, <2>1, Iteration
<1>6. f = [n \in 0 .. N |-> IF n = 0 THEN base ELSE Step(n, f[n - 1])]
  <2>1. \A n \in 0 .. N : f[n] = IF n = 0 THEN base ELSE Step(n, f[n - 1])
    <3> SUFFICES ASSUME NEW n \in 0 .. N
                 PROVE  f[n] = IF n = 0 THEN base ELSE Step(n, f[n - 1])
      OBVIOUS
    <3> HIDE DEF Step, N
    <3>1. CASE n = 0
      BY <3>1, <1>5 DEF RunOf
    <3>2. CASE n # 0
      <4>1. n \in 1 .. N /\ n - 1 \in 0 .. N
        BY <3>2, <1>1
      <4>2. f[n - 1] \in D
        BY <4>1, <1>5 DEF RunOf
      <4>3. F[n][f[n - 1]] = Step(n, f[n - 1])
        BY <4>1, <4>2
      <4> QED BY <3>2, <4>3, <1>5 DEF RunOf
    <3> QED BY <3>1, <3>2
  <2> HIDE DEF Step
  <2> QED BY <2>1, <1>5 DEF RunOf
<1>7. d = [n \in 0 .. N |-> IF n = 0 THEN base ELSE Step(n, d[n - 1])]
  BY <1>6 DEF Filled, base
<1> HIDE DEF d, Step, N
<1>8. 0 \in T
  BY <1>1, <1>2, <1>7
<1>9. ASSUME NEW n \in 1 .. N, n - 1 \in T PROVE n \in T
  <2>1. d[n - 1] \in D /\ n \in 0 .. N /\ n # 0
    BY <1>1, <1>9
  <2>2. d[n] = Step(n, d[n - 1])
    BY <1>7, <2>1
  <2> QED BY <1>3, <2>1, <2>2
<1> HIDE DEF T
<1>10. 0 .. N \subseteq T
  BY <1>1, <1>8, <1>9, Induction
<1>11. d[N] \in D
  BY <1>1, <1>10 DEF T
<1>12. Planned(first, last, used, s, by) = d[N].tasks
  BY DEF Planned, d, N
<1> QED BY <1>11, <1>12 DEF D, DaysFrom, Progress
-----------------------------------------------------------------------------
Plans == [version : Nat \ {0}, end : Days]
Today == 0 .. LastDay
Gets == [at : {"loaded", "empty", "filled"}, end : Days, version : Nat \ {0},
         school : Schools, day : Today]
Attempts == [at : {"ready"}, attempts : Nat]
            \cup [at : {"read"}, attempts : Nat, sees : Plans \cup {NoPlan}, school : Schools]
            \cup [at : {"ended"}]
Pages == [task : Nat, row : TaskRows, plan : Nat]

PlanTypeOK ==
    /\ plan \in Plans \cup {NoPlan} /\ tasks \in Seq(TaskRows)
    /\ today \in Today /\ school \in Schools
    /\ request \in [Clients -> Gets \cup {Idle}]
    /\ worker \in [Jobs -> Attempts]
    /\ page \subseteq Pages
    /\ \A m \in moving : m.school \in Schools
    /\ blind \in BOOLEAN

\* Nothing is planned before the plan is there, and what has seen a plan shows that
\* there is one.
PlanFirst ==
    plan = NoPlan =>
        /\ tasks = <<>>
        /\ \A c \in Clients : request[c] = Idle
        /\ \A j \in Jobs : worker[j].at = "read" => worker[j].sees = NoPlan

\* found comes from seen without a new version.
SameVersion(seen, found) ==
    /\ found = [seen EXCEPT !.status = found.status]
    /\ found.status \in {seen.status, "SUPERSEDED", "IN_PROGRESS", "COMPLETED"}

\* The version of a task counts every change of what the student has seen.
PageTold ==
    \A v \in page :
        /\ v.task \in DOMAIN tasks /\ v.row.version <= tasks[v.task].version
        /\ v.row.version = tasks[v.task].version => SameVersion(v.row, tasks[v.task])

PlanInv == PlanTypeOK /\ PlanFirst /\ PageTold /\ RolledOnce /\ ~blind
-----------------------------------------------------------------------------
\* If nothing has changed since what was seen, and nothing changes, what was
\* seen is still what is there.
LEMMA SameVersionStays ==
    ASSUME NEW seen \in TaskRows, NEW found \in TaskRows, NEW t \in TaskRows,
           SameVersion(seen, found), SameVersion(found, t)
    PROVE  SameVersion(seen, t)
<1>1. t.status \in {seen.status, "SUPERSEDED", "IN_PROGRESS", "COMPLETED"}
  BY DEF SameVersion
<1>2. t = [seen EXCEPT !.status = t.status]
  BY DEF SameVersion, TaskRows
<1> QED BY <1>1, <1>2 DEF SameVersion

\* The table of tasks is a sequence of task rows, so that an index names a
\* row.
LEMMA TaskOf ==
    ASSUME PlanTypeOK
    PROVE  /\ \A i \in DOMAIN tasks : tasks[i] \in TaskRows
           /\ DOMAIN tasks = 1 .. Len(tasks) /\ Len(tasks) \in Nat /\ DOMAIN tasks \subseteq Nat
           /\ UsedSections \in SUBSET Sections
<1>1. tasks \in Seq(TaskRows)
  BY DEF PlanTypeOK
<1>2. \A i \in DOMAIN tasks : tasks[i] \in TaskRows
  BY <1>1
<1>3. UsedSections \in SUBSET Sections
  BY <1>2 DEF UsedSections, TaskRows
<1> QED BY <1>1, <1>2, <1>3

\* Changing tasks in place, each by raising its version or by changing nothing
\* that the student has seen, keeps the page truthful and the sections apart.
LEMMA TaskChanges ==
    ASSUME PlanInv, NEW I \in SUBSET DOMAIN tasks, page' \subseteq page,
           DOMAIN tasks' = DOMAIN tasks,
           tasks' = [i \in DOMAIN tasks |-> tasks'[i]],
           \A i \in DOMAIN tasks \ I : tasks'[i] = tasks[i],
           \A i \in I : /\ tasks'[i] \in TaskRows
                        /\ \/ tasks'[i].by = "student"
                           \/ /\ tasks'[i].by = tasks[i].by /\ tasks'[i].day = tasks[i].day
                              /\ tasks'[i].section = tasks[i].section
                        /\ \/ tasks'[i].version > tasks[i].version
                           \/ SameVersion(tasks[i], tasks'[i])
    PROVE  tasks' \in Seq(TaskRows) /\ PageTold' /\ RolledOnce'
<1>1. PlanTypeOK /\ PageTold /\ RolledOnce
  BY DEF PlanInv
<1>2. \A i \in DOMAIN tasks : tasks[i] \in TaskRows /\ tasks'[i] \in TaskRows
  BY <1>1, TaskOf
<1>3. tasks' \in Seq(TaskRows)
  <2>1. tasks' \in [1 .. Len(tasks) -> TaskRows] /\ Len(tasks) \in Nat
    BY <1>1, <1>2, TaskOf
  <2> QED BY <2>1
<1>4. PageTold'
  <2> SUFFICES ASSUME NEW v \in page'
               PROVE  /\ v.task \in DOMAIN tasks' /\ v.row.version <= tasks'[v.task].version
                      /\ v.row.version = tasks'[v.task].version
                           => SameVersion(v.row, tasks'[v.task])
    BY DEF PageTold
  <2>1. /\ v.task \in DOMAIN tasks /\ v.row.version <= tasks[v.task].version
        /\ v.row.version = tasks[v.task].version => SameVersion(v.row, tasks[v.task])
    BY <1>1 DEF PageTold
  <2>2. v.row \in TaskRows /\ tasks[v.task] \in TaskRows /\ tasks'[v.task] \in TaskRows
    BY <1>1, <1>2, <2>1 DEF PlanTypeOK, Pages
  <2>3. /\ v.row.version \in Nat /\ tasks[v.task].version \in Nat
        /\ tasks'[v.task].version \in Nat
    BY <2>2 DEF TaskRows
  <2>4. CASE v.task \notin I
    BY <2>1, <2>4
  <2>5. CASE v.task \in I /\ tasks'[v.task].version > tasks[v.task].version
    BY <2>1, <2>3, <2>5
  <2>6. CASE v.task \in I /\ SameVersion(tasks[v.task], tasks'[v.task])
    <3>1. tasks'[v.task].version = tasks[v.task].version
      BY <2>2, <2>6 DEF SameVersion, TaskRows
    <3>2. v.row.version = tasks'[v.task].version => SameVersion(v.row, tasks'[v.task])
      BY <2>1, <2>2, <2>6, <3>1, SameVersionStays
    <3> QED BY <2>1, <3>1, <3>2
  <2> QED BY <2>1, <2>4, <2>5, <2>6
<1>5. RolledOnce'
  BY <1>1 DEF RolledOnce
<1> QED BY <1>3, <1>4, <1>5

\* Adding tasks keeps both, when they are of the backfill or the student's, or
\* of sections not used.
LEMMA TasksAdded ==
    ASSUME PlanInv, NEW made \in Seq(TaskRows), tasks' = tasks \o made, page' \subseteq page,
           \/ \A r \in RowsOf(made) : r.by \in {"backfill", "student"}
           \/ /\ \A r \in RowsOf(made) : r.section \notin UsedSections
              /\ \A r, q \in RowsOf(made) : r.section = q.section => r.day = q.day
    PROVE  tasks' \in Seq(TaskRows) /\ PageTold' /\ RolledOnce'
<1>1. PlanTypeOK /\ PageTold /\ RolledOnce
  BY DEF PlanInv
<1>2. tasks \in Seq(TaskRows)
  BY <1>1 DEF PlanTypeOK
<1>3. /\ tasks' \in Seq(TaskRows) /\ RowsOf(tasks') = RowsOf(tasks) \cup RowsOf(made)
      /\ \A i \in DOMAIN tasks : tasks'[i] = tasks[i]
      /\ Len(tasks') = Len(tasks) + Len(made)
  BY <1>2, RowsAppended
<1>4. DOMAIN tasks \subseteq DOMAIN tasks'
  <2>1. /\ DOMAIN tasks = 1 .. Len(tasks) /\ DOMAIN tasks' = 1 .. Len(tasks')
        /\ Len(tasks) \in Nat /\ Len(made) \in Nat
    BY <1>2, <1>3
  <2> QED BY <1>3, <2>1
<1>5. PageTold'
  BY <1>1, <1>3, <1>4 DEF PageTold
<1>6. \A r, q \in RowsOf(tasks) :
        r.by \in {"generate", "roll"} /\ q.by \in {"generate", "roll"}
          /\ r.section = q.section => r.day = q.day
  BY <1>1 DEF RolledOnce, RowsOf
<1>7. \A r \in RowsOf(tasks) : r.section \in UsedSections
  BY DEF RowsOf, UsedSections
<1>8. \A r, q \in RowsOf(tasks) \cup RowsOf(made) :
        r.by \in {"generate", "roll"} /\ q.by \in {"generate", "roll"}
          /\ r.section = q.section => r.day = q.day
  BY <1>6, <1>7
<1>9. \A i \in DOMAIN tasks' : tasks'[i] \in RowsOf(tasks) \cup RowsOf(made)
  BY <1>3 DEF RowsOf
<1>10. RolledOnce'
  BY <1>8, <1>9 DEF RolledOnce
<1> QED BY <1>3, <1>5, <1>10

\* Rolling the window keeps both: a task it makes has a section that no task
\* of the plan uses, superseded tasks included.
LEMMA RollKeeps ==
    ASSUME PlanInv, plan # NoPlan, NEW end \in Days, NEW s \in Schools, NEW day \in Today,
           Roll(end, s, day), page' = page
    PROVE  plan' \in Plans /\ tasks' \in Seq(TaskRows) /\ PageTold' /\ RolledOnce'
<1>1. PlanTypeOK /\ plan \in Plans
  BY DEF PlanInv, PlanTypeOK
<1>2. CASE end >= day + Window
  BY <1>1, <1>2 DEF Roll, PlanInv, PlanTypeOK, PageTold, RolledOnce
<1>3. CASE ~(end >= day + Window)
  <2> DEFINE made == Planned(end + 1, day + Window, UsedSections, s, "roll")
  <2>1. day + Window \in Days /\ end + 1 \in Days /\ end + 1 <= day + Window
    BY <1>3, PlanAssumption DEF Days, Today
  <2>2. "roll" \in Makers
    BY DEF Makers
  <2>3. /\ made \in Seq(TaskRows)
        /\ \A r \in RowsOf(made) : r.section \notin UsedSections
        /\ \A r, q \in RowsOf(made) : r.section = q.section => r.day = q.day
    BY <1>1, <2>1, <2>2, TaskOf, PlannedRows
  <2>4. tasks' = tasks \o made /\ plan' = [plan EXCEPT !.end = day + Window]
    BY <1>3 DEF Roll
  <2> HIDE DEF made
  <2>5. plan' \in Plans
    BY <1>1, <2>1, <2>4 DEF Plans
  <2> QED BY <2>3, <2>4, <2>5, TasksAdded
<1> QED BY <1>2, <1>3
-----------------------------------------------------------------------------
\* A student without a plan satisfies the invariant.
LEMMA PlanInitInv == Init => PlanInv
<1> SUFFICES ASSUME Init PROVE PlanInv
  OBVIOUS
<1>1. PlanTypeOK
  <2>1. worker \in [Jobs -> Attempts]
    BY DEF Init, Attempts
  <2>2. LastDay \in Nat /\ FirstSchool \in Schools
    BY PlanAssumption
  <2>4. today \in Today /\ school \in Schools
    BY <2>2 DEF Init, Today
  <2>5. blind \in BOOLEAN
    BY DEF Init
  <2>3. tasks \in Seq(TaskRows) /\ request \in [Clients -> Gets \cup {Idle}]
    BY DEF Init
  <2> QED BY <2>1, <2>3, <2>4, <2>5 DEF Init, PlanTypeOK, Nothing
<1>2. PlanFirst
  BY DEF Init, PlanFirst
<1>3. PageTold /\ RolledOnce /\ ~blind
  BY DEF Init, PageTold, RolledOnce, Nothing
<1> QED BY <1>1, <1>2, <1>3 DEF PlanInv

\* A read of the plan that is under way found one.
LEMMA GetFacts ==
    ASSUME PlanInv, NEW c \in Clients, request[c] # Idle
    PROVE  request[c] \in Gets /\ plan \in Plans /\ plan # NoPlan
BY DEF PlanInv, PlanTypeOK, PlanFirst

\* A plan is not the absence of one.
LEMMA PlansArePlans ==
    ASSUME NEW p \in Plans
    PROVE  p # NoPlan
BY DEF Plans, NoPlan

\* A step of a read changes the plan and the tasks as the lemmas above allow,
\* and its own request; the rest of the invariant stays.
LEMMA GetMoves ==
    ASSUME PlanInv, NEW c \in Clients, NEW r \in Gets \cup {Idle},
           request' = [request EXCEPT ![c] = r],
           plan' \in Plans, tasks' \in Seq(TaskRows), PageTold', RolledOnce',
           UNCHANGED <<today, school, worker, page, moving, blind>>
    PROVE  PlanInv'
<1>1. PlanTypeOK'
  BY DEF PlanInv, PlanTypeOK
<1>2. PlanFirst'
  BY PlansArePlans DEF PlanFirst
<1> QED BY <1>1, <1>2 DEF PlanInv

\* Where plan, tasks and page stay, so do the parts of the invariant about
\* them.
LEMMA SamePlan ==
    ASSUME PlanInv, UNCHANGED <<plan, tasks, page>>
    PROVE  /\ plan' \in Plans \cup {NoPlan} /\ tasks' \in Seq(TaskRows)
           /\ PageTold' /\ RolledOnce'
BY DEF PlanInv, PlanTypeOK, PageTold, RolledOnce

\* Loading the plan (ensure_plan_horizon) changes only the request.
LEMMA GetLoadInv ==
    ASSUME PlanInv, NEW c \in Clients, GetLoad(c)
    PROVE  PlanInv'
<1> DEFINE r == [at |-> "loaded", end |-> plan.end, version |-> plan.version,
                 school |-> school, day |-> today]
<1>1. plan \in Plans /\ school \in Schools /\ today \in Today
  BY DEF PlanInv, PlanTypeOK, GetLoad
<1>2. r \in Gets
  BY <1>1 DEF Gets, Plans
<1>3. request' = [request EXCEPT ![c] = r]
      /\ UNCHANGED <<plan, tasks, today, school, worker, page, moving, blind>>
  BY DEF GetLoad
<1> HIDE DEF r
<1> QED BY <1>1, <1>2, <1>3, SamePlan, GetMoves

\* Counting the tasks of the window changes only the request.
LEMMA GetCountInv ==
    ASSUME PlanInv, NEW c \in Clients, GetCount(c)
    PROVE  PlanInv'
<1>1. request[c] # Idle
  BY DEF GetCount, Idle
<1>2. request[c] \in Gets /\ plan \in Plans
  BY <1>1, GetFacts
<1>3. PICK at \in {"empty", "filled"} : request' = [request EXCEPT ![c].at = at]
  BY DEF GetCount
<1>4. [request[c] EXCEPT !.at = at] \in Gets
  BY <1>2 DEF Gets
<1>5. request' = [request EXCEPT ![c] = [request[c] EXCEPT !.at = at]]
  BY <1>3
<1>6. UNCHANGED <<plan, tasks, today, school, worker, page, moving, blind>>
  BY DEF GetCount
<1> QED BY <1>2, <1>4, <1>5, <1>6, SamePlan, GetMoves

\* The backfill of an empty window adds tasks marked as its own.
LEMMA GetBackfillInv ==
    ASSUME PlanInv, NEW c \in Clients, GetBackfill(c)
    PROVE  PlanInv'
<1> DEFINE r == request[c]
           last == r.day + Window
           end == IF last > r.end THEN last ELSE r.end
           made == Planned(r.day, last, {}, r.school, "backfill")
           next == [r EXCEPT !.at = "filled", !.end = end, !.version = r.version + 1]
           p == [version |-> r.version + 1, end |-> IF end # r.end THEN end ELSE plan.end]
<1>1. request[c] # Idle
  BY DEF GetBackfill, Idle
<1>2. r \in Gets /\ plan \in Plans
  BY <1>1, GetFacts
<1>3. /\ tasks' = tasks \o made
      /\ plan' = p
      /\ request' = [request EXCEPT ![c] = next]
      /\ UNCHANGED <<today, school, worker, page, moving, blind>>
  BY DEF GetBackfill
<1>4. /\ r.day \in Days /\ last \in Days /\ r.day <= last /\ end \in Days
      /\ r.school \in Schools /\ plan.end \in Days /\ r.version + 1 \in Nat \ {0}
  <2>1. /\ r.day \in Today /\ r.end \in Days /\ r.school \in Schools
        /\ r.version \in Nat /\ plan.end \in Days
    BY <1>2 DEF Gets, Plans
  <2> HIDE DEF r
  <2>2. Window \in Nat /\ LastDay \in Nat
    BY PlanAssumption
  <2>3. r.day \in Days /\ last \in Days /\ r.day <= last
    BY <2>1, <2>2 DEF Days, Today
  <2> QED BY <2>1, <2>3
<1>5. next \in Gets
  <2> HIDE DEF end, last
  <2>1. r.version + 1 \in Nat \ {0} /\ end \in Days
    BY <1>4
  <2> QED BY <1>2, <2>1 DEF Gets
<1>6. p \in Plans
  <2> HIDE DEF end, last, r
  <2> QED BY <1>4 DEF Plans
<1>7. made \in Seq(TaskRows) /\ \A t \in RowsOf(made) : t.by \in {"backfill", "student"}
  <2>1. {} \in SUBSET Sections /\ "backfill" \in Makers
    BY DEF Makers
  <2> HIDE DEF last, r, end
  <2>2. made \in Seq(TaskRows)
    BY <1>4, <2>1, PlannedRows
  <2>3. \A t \in RowsOf(made) : t.by = "backfill"
    BY <1>4, <2>1, PlannedRows
  <2> QED BY <2>2, <2>3
<1> HIDE DEF made, next, p
<1>8. tasks' \in Seq(TaskRows) /\ PageTold' /\ RolledOnce'
  BY <1>3, <1>7, TasksAdded
<1> QED BY <1>3, <1>5, <1>6, <1>8, GetMoves

\* The roll of the window by a read keeps the invariant, whatever was read
\* before another one rolled.
LEMMA GetRollInv ==
    ASSUME PlanInv, NEW c \in Clients, GetRoll(c)
    PROVE  PlanInv'
<1>1. request[c] # Idle
  BY DEF GetRoll, Idle
<1>2. request[c] \in Gets /\ plan # NoPlan
  BY <1>1, GetFacts
<1>3. request[c].end \in Days /\ request[c].school \in Schools /\ request[c].day \in Today
  BY <1>2 DEF Gets
<1>4. /\ Roll(request[c].end, request[c].school, request[c].day)
      /\ request' = [request EXCEPT ![c] = Idle]
      /\ UNCHANGED <<today, school, worker, page, moving, blind>>
  BY DEF GetRoll
<1>5. plan' \in Plans /\ tasks' \in Seq(TaskRows) /\ PageTold' /\ RolledOnce'
  BY <1>2, <1>3, <1>4, RollKeeps
<1> QED BY <1>4, <1>5, GetMoves

\* A step of a plan job changes the plan and the tasks as the lemmas above
\* allow, and its own attempt; the rest stays.
LEMMA JobMoves ==
    ASSUME PlanInv, NEW j \in Jobs, NEW w \in Attempts,
           worker' = [worker EXCEPT ![j] = w],
           plan' \in Plans \/ (plan' = plan /\ tasks' = tasks),
           w.at = "read" => (w.sees = plan /\ plan' = plan),
           tasks' \in Seq(TaskRows), PageTold', RolledOnce',
           UNCHANGED <<today, school, request, page, moving, blind>>
    PROVE  PlanInv'
<1>1. PlanTypeOK'
  BY DEF PlanInv, PlanTypeOK
<1>2. PlanFirst'
  <2>1. \A i \in Jobs : worker'[i] = IF i = j THEN w ELSE worker[i]
    BY DEF PlanInv, PlanTypeOK
  <2> QED BY <2>1, PlansArePlans DEF PlanFirst, PlanInv
<1> QED BY <1>1, <1>2 DEF PlanInv

\* What a plan job has read is a plan, and one that is still there; after a
\* failure it has read nothing.
LEMMA WorkerFacts ==
    ASSUME PlanInv, NEW j \in Jobs, worker[j].at \in {"ready", "read"}
    PROVE  /\ worker[j].attempts \in Nat
           /\ worker[j].at = "read" =>
                /\ worker[j].sees \in Plans \cup {NoPlan} /\ worker[j].school \in Schools
                /\ worker[j].sees # NoPlan => plan # NoPlan
           /\ \A w \in After(j) : w \in Attempts /\ w.at # "read"
<1>1. worker[j] \in Attempts
  BY DEF PlanInv, PlanTypeOK
<1>2. worker[j].attempts \in Nat
  BY <1>1 DEF Attempts
<1>3. worker[j].at = "read" => /\ worker[j].sees \in Plans \cup {NoPlan}
                               /\ worker[j].school \in Schools
                               /\ worker[j].sees # NoPlan => plan # NoPlan
  BY <1>1 DEF Attempts, PlanInv, PlanFirst
<1>4. \A w \in After(j) : w \in Attempts /\ w.at # "read"
  BY <1>2 DEF After, Attempts
<1> QED BY <1>2, <1>3, <1>4

\* A job that reads plan and school keeps the invariant.
LEMMA JobReadInv ==
    ASSUME PlanInv, NEW j \in Jobs, JobRead(j)
    PROVE  PlanInv'
<1> DEFINE w == [at |-> "read", attempts |-> worker[j].attempts + 1, sees |-> plan,
                 school |-> school]
<1>1. worker[j].attempts \in Nat
  BY WorkerFacts DEF JobRead
<1>2. worker[j].attempts + 1 \in Nat
  BY <1>1
<1>3. plan \in Plans \cup {NoPlan} /\ school \in Schools
  BY DEF PlanInv, PlanTypeOK
<1>4. w \in Attempts /\ w.sees = plan
  BY <1>2, <1>3 DEF Attempts
<1>5. worker' = [worker EXCEPT ![j] = w]
      /\ UNCHANGED <<plan, tasks, today, school, request, page, moving, blind>>
  BY DEF JobRead
<1> HIDE DEF w
<1> QED BY <1>4, <1>5, SamePlan, JobMoves

\* A failed attempt writes nothing.
LEMMA JobFailInv ==
    ASSUME PlanInv, NEW j \in Jobs, JobFail(j)
    PROVE  PlanInv'
<1>1. PICK w \in After(j) : worker' = [worker EXCEPT ![j] = w]
  BY DEF JobFail
<1>2. w \in Attempts /\ w.at # "read"
  BY WorkerFacts DEF JobFail
<1>3. UNCHANGED <<plan, tasks, today, school, request, page, moving, blind>>
  BY DEF JobFail
<1> QED BY <1>1, <1>2, <1>3, SamePlan, JobMoves

\* The commit of a plan job, the first plan or a roll of the window, keeps the
\* invariant.
LEMMA JobPlanInv ==
    ASSUME PlanInv, NEW j \in Jobs, JobPlan(j)
    PROVE  PlanInv'
<1>1. PICK w \in After(j) : worker' = [worker EXCEPT ![j] = w]
  BY DEF JobPlan
<1>2. /\ w \in Attempts /\ w.at # "read"
      /\ worker[j].sees \in Plans \cup {NoPlan} /\ worker[j].school \in Schools
      /\ worker[j].sees # NoPlan => plan # NoPlan
  BY WorkerFacts DEF JobPlan
<1>3. UNCHANGED <<today, school, request, page, moving, blind>>
  BY DEF JobPlan
<1>4. /\ plan' \in Plans /\ tasks' \in Seq(TaskRows) /\ PageTold' /\ RolledOnce'
  <2>1. CASE worker[j].sees # NoPlan
    <3>1. Roll(worker[j].sees.end, worker[j].school, Start[j])
      BY <2>1 DEF JobPlan
    <3>2. worker[j].sees.end \in Days /\ Start[j] \in Today
      BY <1>2, <2>1, PlanAssumption DEF Plans, Today
    <3> QED BY <1>2, <1>3, <2>1, <3>1, <3>2, RollKeeps
  <2>2. CASE worker[j].sees = NoPlan
    <3> DEFINE made == Planned(0, Window, {}, worker[j].school, "generate")
    <3>1. plan = NoPlan /\ tasks' = made /\ plan' = [version |-> 1, end |-> Window]
      BY <2>2 DEF JobPlan
    <3>2. 0 \in Days /\ Window \in Days /\ 0 <= Window
      BY PlanAssumption DEF Days
    <3>3. {} \in SUBSET Sections /\ "generate" \in Makers
      BY DEF Makers
    <3>4. /\ made \in Seq(TaskRows)
          /\ \A r \in RowsOf(made) : r.section \notin {} /\ r.by = "generate"
          /\ \A r, q \in RowsOf(made) : r.section = q.section => r.day = q.day
      BY <1>2, <3>2, <3>3, PlannedRows
    <3>5. plan' \in Plans
      BY <3>1, <3>2 DEF Plans
    <3>6. tasks = <<>>
      BY <3>1 DEF PlanInv, PlanFirst
    <3> HIDE DEF made
    <3>7. RolledOnce'
      BY <3>1, <3>4 DEF RolledOnce, RowsOf
    <3>8. PageTold'
      BY <1>3, <3>6 DEF PlanInv, PageTold
    <3> QED BY <3>1, <3>4, <3>5, <3>7, <3>8
  <2> QED BY <2>1, <2>2
<1> QED BY <1>1, <1>2, <1>3, <1>4, JobMoves
-----------------------------------------------------------------------------
\* The student and the agent change tasks, the rest stays.
LEMMA EditMoves ==
    ASSUME PlanInv, plan \in Plans, plan' \in Plans,
           tasks' \in Seq(TaskRows), PageTold', RolledOnce',
           page' \subseteq page, blind' \in BOOLEAN, ~blind',
           moving' \subseteq moving, school' \in Schools,
           UNCHANGED <<today, request, worker>>
    PROVE  PlanInv'
<1>1. PlanTypeOK'
  <2>1. page' \subseteq Pages
    BY DEF PlanInv, PlanTypeOK
  <2>2. \A m \in moving' : m.school \in Schools
    BY DEF PlanInv, PlanTypeOK
  <2> QED BY <2>1, <2>2 DEF PlanInv, PlanTypeOK
<1>2. PlanFirst'
  BY PlansArePlans DEF PlanFirst
<1> QED BY <1>1, <1>2 DEF PlanInv

\* A task is there only when a plan is.
LEMMA TaskThere ==
    ASSUME PlanInv, tasks # <<>>
    PROVE  plan \in Plans
BY DEF PlanInv, PlanTypeOK, PlanFirst

\* What the page shows was read in this state.
LEMMA ViewInv ==
    ASSUME PlanInv, NEW i \in DOMAIN tasks, View(i)
    PROVE  PlanInv'
<1> DEFINE v == [task |-> i, row |-> tasks[i], plan |-> plan.version]
<1>1. PlanTypeOK /\ plan \in Plans
  BY TaskThere DEF PlanInv
<1>2. tasks[i] \in TaskRows /\ i \in Nat
  BY <1>1, TaskOf
<1>3. v \in Pages
  BY <1>1, <1>2 DEF Pages, Plans
<1>4. tasks[i].version \in Nat
  BY <1>2 DEF TaskRows
<1>5. SameVersion(tasks[i], tasks[i])
  BY <1>2 DEF SameVersion, TaskRows
<1>6. page' = {v} /\ UNCHANGED <<plan, tasks, today, school, request, worker, moving, blind>>
  BY DEF View
<1>7. PageTold'
  BY <1>4, <1>5, <1>6 DEF PageTold
<1>8. PlanTypeOK'
  BY <1>1, <1>3, <1>6 DEF PlanTypeOK
<1>9. PlanFirst' /\ RolledOnce' /\ ~blind'
  BY <1>6 DEF PlanInv, PlanFirst, RolledOnce
<1> QED BY <1>7, <1>8, <1>9 DEF PlanInv

\* TaskChanges for one task.
LEMMA OneTaskChanges ==
    ASSUME PlanInv, NEW i \in DOMAIN tasks, NEW t \in TaskRows,
           tasks' = [tasks EXCEPT ![i] = t], page' \subseteq page,
           \/ t.by = "student"
           \/ t.by = tasks[i].by /\ t.day = tasks[i].day /\ t.section = tasks[i].section,
           t.version > tasks[i].version \/ SameVersion(tasks[i], t)
    PROVE  tasks' \in Seq(TaskRows) /\ PageTold' /\ RolledOnce'
<1>1. {i} \in SUBSET DOMAIN tasks /\ DOMAIN tasks' = DOMAIN tasks
  OBVIOUS
<1>2. tasks' = [k \in DOMAIN tasks |-> tasks'[k]]
  OBVIOUS
<1>3. tasks'[i] = t /\ \A k \in DOMAIN tasks \ {i} : tasks'[k] = tasks[k]
  OBVIOUS
<1>4. \A k \in {i} : /\ tasks'[k] \in TaskRows
                     /\ \/ tasks'[k].by = "student"
                        \/ /\ tasks'[k].by = tasks[k].by /\ tasks'[k].day = tasks[k].day
                           /\ tasks'[k].section = tasks[k].section
                     /\ \/ tasks'[k].version > tasks[k].version
                        \/ SameVersion(tasks[k], tasks'[k])
  BY <1>3
<1> QED BY <1>1, <1>2, <1>3, <1>4, TaskChanges

\* An edit by the student (PATCH of a task) is a task row of a higher version,
\* of the student's own making or where it was.
LEMMA EditedRow ==
    ASSUME NEW t \in TaskRows, today \in Today, NEW e \in Edited(t)
    PROVE  /\ e \in TaskRows /\ e.version > t.version
           /\ \/ e.by = "student"
              \/ e.by = t.by /\ e.day = t.day /\ e.section = t.section
<1>1. t.version \in Nat /\ t.version + 1 \in Nat /\ t.version + 1 > t.version
  BY DEF TaskRows
<1>2. today \in Days /\ \A c \in Bindings : c.section \in Sections /\ c.knowledge \in Topics
  BY PlanAssumption DEF Today, Days, Sections, Topics
<1>3. CASE e = [t EXCEPT !.status = "SKIPPED", !.version = @ + 1]
  BY <1>1, <1>3 DEF TaskRows, Statuses
<1>4. CASE e = [t EXCEPT !.day = today, !.by = "student", !.version = @ + 1]
  BY <1>1, <1>2, <1>4 DEF TaskRows
<1>5. CASE \E c \in Bindings : e = [t EXCEPT !.section = c.section, !.knowledge = c.knowledge,
                                            !.by = "student", !.version = @ + 1]
  BY <1>1, <1>2, <1>5 DEF TaskRows
<1> QED BY <1>3, <1>4, <1>5 DEF Edited

\* The student's edit of a task keeps the invariant: it is committed only when
\* the version is the one the page told, so that it changes what the page
\* shows, and it closes the page.
LEMMA PatchTaskInv ==
    ASSUME PlanInv, PatchTask
    PROVE  PlanInv'
<1>1. PICK v \in page : /\ Editable(v, v.task)
                        /\ \E t \in Edited(tasks[v.task]) : tasks' = [tasks EXCEPT ![v.task] = t]
                        /\ blind' = (blind \/ ~AsSeen(v.row, tasks[v.task]))
  BY DEF PatchTask
<1>2. PICK t \in Edited(tasks[v.task]) : tasks' = [tasks EXCEPT ![v.task] = t]
  BY <1>1
<1>3. PlanTypeOK /\ ~blind
  BY DEF PlanInv
<1>4. v.task \in DOMAIN tasks /\ tasks[v.task] \in TaskRows /\ v.row \in TaskRows
  BY <1>3, TaskOf DEF PlanInv, PageTold, PlanTypeOK, Pages
<1>5. tasks # <<>>
  BY <1>4
<1>6. plan \in Plans
  BY <1>5, TaskThere
<1>7. /\ t \in TaskRows /\ t.version > tasks[v.task].version
      /\ \/ t.by = "student"
         \/ /\ t.by = tasks[v.task].by /\ t.day = tasks[v.task].day
            /\ t.section = tasks[v.task].section
  BY <1>3, <1>4, EditedRow DEF PlanTypeOK
<1>8. page' = {} /\ plan' = [plan EXCEPT !.version = @ + 1]
      /\ UNCHANGED <<today, school, request, worker, moving>>
  BY DEF PatchTask, Nothing
<1>9. tasks' \in Seq(TaskRows) /\ PageTold' /\ RolledOnce'
  BY <1>2, <1>4, <1>7, <1>8, OneTaskChanges
<1>10. plan' \in Plans
  <2>1. plan.version + 1 \in Nat \ {0}
    BY <1>6 DEF Plans
  <2> QED BY <1>6, <1>8, <2>1 DEF Plans
<1>11. SameVersion(v.row, tasks[v.task]) /\ tasks[v.task].status # "COMPLETED"
  BY <1>1 DEF PlanInv, PageTold, Editable
<1>12. AsSeen(v.row, tasks[v.task])
  BY <1>11 DEF SameVersion, AsSeen
<1>13. ~blind' /\ blind' \in BOOLEAN /\ school' \in Schools
  BY <1>1, <1>3, <1>8, <1>12 DEF PlanTypeOK
<1> QED BY <1>6, <1>8, <1>9, <1>10, <1>13, EditMoves

\* A task that the student adds is marked as the student's.
LEMMA PatchCreateInv ==
    ASSUME PlanInv, PatchCreate
    PROVE  PlanInv'
<1> DEFINE new(c) == [NewTask(c, today, 30, "student") EXCEPT !.origin = "STUDENT"]
<1>1. PICK v \in page, c \in Bindings : plan.version = v.plan /\ tasks' = Append(tasks, new(c))
  BY DEF PatchCreate
<1>2. PlanTypeOK /\ ~blind /\ v.task \in DOMAIN tasks
  BY DEF PlanInv, PageTold
<1>3. tasks # <<>> /\ tasks \in Seq(TaskRows)
  BY <1>2 DEF PlanTypeOK
<1>4. plan \in Plans
  BY <1>3, TaskThere
<1>5. c \in Candidates /\ today \in Days /\ "student" \in Makers \cup {"student"}
  BY <1>2, PlanAssumption DEF PlanTypeOK, Today, Days
<1>6. /\ NewTask(c, today, 30, "student") \in TaskRows
      /\ NewTask(c, today, 30, "student").by = "student"
  BY <1>5, NewTaskRow
<1>7. new(c) \in TaskRows /\ new(c).by = "student"
  BY <1>6 DEF TaskRows
<1>8. page' = {} /\ plan' = [plan EXCEPT !.version = @ + 1]
      /\ UNCHANGED <<today, school, request, worker, moving, blind>>
  BY DEF PatchCreate, Nothing
<1>9. plan' \in Plans
  <2>1. plan.version + 1 \in Nat \ {0}
    BY <1>4 DEF Plans
  <2> QED BY <1>4, <1>8, <2>1 DEF Plans
<1> HIDE DEF new
<1>10. /\ <<new(c)>> \in Seq(TaskRows) /\ tasks' = tasks \o <<new(c)>>
       /\ \A r \in RowsOf(<<new(c)>>) : r.by \in {"backfill", "student"}
  BY <1>1, <1>3, <1>7 DEF RowsOf
<1>11. tasks' \in Seq(TaskRows) /\ PageTold' /\ RolledOnce'
  BY <1>8, <1>10, TasksAdded
<1>12. school' \in Schools /\ blind' \in BOOLEAN
  BY <1>2, <1>8 DEF PlanTypeOK
<1> QED BY <1>2, <1>4, <1>8, <1>9, <1>11, <1>12, EditMoves

\* Feedback raises the version of its task, or changes the status alone.
LEMMA FeedbackInv ==
    ASSUME PlanInv, NEW i \in DOMAIN tasks, Feedback(i)
    PROVE  PlanInv'
<1>1. PICK done \in BOOLEAN :
         \E t \in FeedbackTask(tasks[i], done) : tasks' = [tasks EXCEPT ![i] = t]
  BY DEF Feedback
<1>2. PICK t \in FeedbackTask(tasks[i], done) : tasks' = [tasks EXCEPT ![i] = t]
  BY <1>1
<1>3. PlanTypeOK /\ plan \in Plans /\ ~blind
  BY TaskThere DEF PlanInv
<1>4. tasks[i] \in TaskRows
  BY <1>3, TaskOf
<1> DEFINE told == [tasks[i] EXCEPT !.status = IF done THEN "COMPLETED" ELSE "IN_PROGRESS"]
<1>5. t = told \/ t = [told EXCEPT !.version = @ + 1]
  BY <1>2 DEF FeedbackTask
<1>6. told \in TaskRows /\ SameVersion(tasks[i], told) /\ told.version = tasks[i].version
      /\ told.by = tasks[i].by /\ told.day = tasks[i].day /\ told.section = tasks[i].section
  BY <1>4 DEF TaskRows, Statuses, SameVersion
<1> HIDE DEF told
<1>7. told.version + 1 \in Nat /\ told.version + 1 > told.version
  BY <1>6 DEF TaskRows
<1>9. /\ t \in TaskRows
      /\ t.by = tasks[i].by /\ t.day = tasks[i].day /\ t.section = tasks[i].section
      /\ t.version > tasks[i].version \/ SameVersion(tasks[i], t)
  BY <1>5, <1>6, <1>7 DEF TaskRows
<1>10. UNCHANGED <<plan, today, school, request, worker, page, moving, blind>>
  BY DEF Feedback
<1>11. tasks' \in Seq(TaskRows) /\ PageTold' /\ RolledOnce'
  BY <1>2, <1>9, <1>10, OneTaskChanges
<1>12. school' \in Schools /\ blind' \in BOOLEAN
  BY <1>3, <1>10 DEF PlanTypeOK
<1> QED BY <1>3, <1>10, <1>11, <1>12, EditMoves

\* The agent's adjustment changes a task in place and raises its version.
LEMMA AdjustInv ==
    ASSUME PlanInv, NEW i \in DOMAIN tasks, Adjust(i)
    PROVE  PlanInv'
<1> DEFINE t == AdjustedTask(tasks[i])
<1>1. PlanTypeOK /\ plan \in Plans /\ ~blind
  BY TaskThere DEF PlanInv
<1>2. tasks[i] \in TaskRows
  BY <1>1, TaskOf
<1>3. /\ tasks[i].version + 1 \in Nat /\ tasks[i].version + 1 > tasks[i].version
      /\ (tasks[i].minutes * 5) \div 4 \in Int
  BY <1>2 DEF TaskRows
<1>4. /\ t \in TaskRows /\ t.version > tasks[i].version
      /\ t.by = tasks[i].by /\ t.day = tasks[i].day /\ t.section = tasks[i].section
  BY <1>2, <1>3 DEF AdjustedTask, TaskRows
<1>5. tasks' = [tasks EXCEPT ![i] = t]
      /\ UNCHANGED <<plan, today, school, request, worker, page, moving, blind>>
  BY DEF Adjust
<1> HIDE DEF t
<1>6. tasks' \in Seq(TaskRows) /\ PageTold' /\ RolledOnce'
  BY <1>4, <1>5, OneTaskChanges
<1>7. school' \in Schools /\ blind' \in BOOLEAN
  BY <1>1, <1>5 DEF PlanTypeOK
<1> QED BY <1>1, <1>5, <1>6, <1>7, EditMoves

\* Choosing what a change of school will supersede changes no task.
LEMMA SelectTasksInv ==
    ASSUME PlanInv, SelectTasks
    PROVE  PlanInv'
<1>1. UNCHANGED <<plan, tasks, today, school, request, worker, page, blind>>
      /\ \A m \in moving' : m.school \in Schools
  BY DEF SelectTasks
<1>2. PlanTypeOK'
  BY <1>1 DEF PlanInv, PlanTypeOK
<1> QED BY <1>1, <1>2 DEF PlanInv, PlanFirst, PageTold, RolledOnce

\* A change of school supersedes tasks in place, changing nothing else of
\* them.
LEMMA MoveSchoolInv ==
    ASSUME PlanInv, MoveSchool
    PROVE  PlanInv'
<1>1. PICK m \in moving :
        /\ school' = m.school
        /\ tasks' = [i \in DOMAIN tasks |-> IF i \in m.rows
                       THEN [tasks[i] EXCEPT !.status = "SUPERSEDED"] ELSE tasks[i]]
  BY DEF MoveSchool
<1>2. PlanTypeOK /\ ~blind
  BY DEF PlanInv
<1>3. school' \in Schools
  BY <1>1, <1>2 DEF PlanTypeOK
<1>4. moving' = {} /\ UNCHANGED <<plan, today, request, worker, page, blind>>
  BY DEF MoveSchool, Nothing
<1> DEFINE I == DOMAIN tasks \cap m.rows
<1>5. /\ I \in SUBSET DOMAIN tasks /\ DOMAIN tasks' = DOMAIN tasks
      /\ tasks' = [i \in DOMAIN tasks |-> tasks'[i]]
      /\ \A i \in DOMAIN tasks \ I : tasks'[i] = tasks[i]
      /\ \A i \in I : tasks'[i] = [tasks[i] EXCEPT !.status = "SUPERSEDED"]
  BY <1>1
<1>6. \A i \in I : /\ tasks'[i] \in TaskRows
                   /\ \/ tasks'[i].by = "student"
                      \/ /\ tasks'[i].by = tasks[i].by /\ tasks'[i].day = tasks[i].day
                         /\ tasks'[i].section = tasks[i].section
                   /\ \/ tasks'[i].version > tasks[i].version
                      \/ SameVersion(tasks[i], tasks'[i])
  <2> SUFFICES ASSUME NEW i \in I
               PROVE  /\ tasks'[i] \in TaskRows
                      /\ tasks'[i].by = tasks[i].by /\ tasks'[i].day = tasks[i].day
                      /\ tasks'[i].section = tasks[i].section
                      /\ SameVersion(tasks[i], tasks'[i])
    OBVIOUS
  <2>1. tasks[i] \in TaskRows /\ tasks'[i] = [tasks[i] EXCEPT !.status = "SUPERSEDED"]
    BY <1>2, <1>5, TaskOf
  <2> QED BY <2>1 DEF TaskRows, Statuses, SameVersion
<1> HIDE DEF I
<1>7. tasks' \in Seq(TaskRows) /\ PageTold' /\ RolledOnce'
  BY <1>4, <1>5, <1>6, TaskChanges
<1>8. CASE tasks = <<>>
  <2>1. tasks' = <<>>
    BY <1>5, <1>8, <1>7
  <2>2. PlanFirst'
    BY <1>4, <2>1 DEF PlanInv, PlanFirst
  <2>3. PlanTypeOK'
    BY <1>2, <1>3, <1>4, <1>7 DEF PlanTypeOK
  <2> QED BY <1>2, <1>4, <1>7, <2>2, <2>3 DEF PlanInv
<1>9. CASE tasks # <<>>
  <2>1. plan \in Plans
    BY <1>9, TaskThere
  <2>2. blind' \in BOOLEAN
    BY <1>2, <1>4 DEF PlanTypeOK
  <2> QED BY <1>2, <1>3, <1>4, <1>7, <2>1, <2>2, EditMoves
<1> QED BY <1>8, <1>9

\* The day changes no task.
LEMMA NextDayInv ==
    ASSUME PlanInv, NextDay
    PROVE  PlanInv'
<1>1. today' \in Today /\ UNCHANGED <<plan, tasks, school, request, worker, page, moving, blind>>
  BY PlanAssumption DEF NextDay, PlanInv, PlanTypeOK, Today
<1>2. PlanTypeOK'
  BY <1>1 DEF PlanInv, PlanTypeOK
<1> QED BY <1>1, <1>2 DEF PlanInv, PlanFirst, PageTold, RolledOnce

\* Every step of the plan code keeps the invariant.
LEMMA PlanNextInv ==
    ASSUME PlanInv, [Next]_vars
    PROVE  PlanInv'
<1>1. CASE \E c \in Clients : GetPlan(c)
  BY <1>1, GetLoadInv, GetCountInv, GetBackfillInv, GetRollInv DEF GetPlan
<1>2. CASE \E j \in Jobs : ExecuteJob(j)
  BY <1>2, JobReadInv, JobPlanInv, JobFailInv DEF ExecuteJob
<1>3. CASE \E i \in DOMAIN tasks : View(i) \/ Feedback(i) \/ Adjust(i)
  BY <1>3, ViewInv, FeedbackInv, AdjustInv
<1>4. CASE PatchTasks \/ SelectTasks \/ MoveSchool \/ NextDay
  BY <1>4, PatchTaskInv, PatchCreateInv, SelectTasksInv, MoveSchoolInv, NextDayInv
     DEF PatchTasks
<1>5. CASE UNCHANGED vars
  BY <1>5 DEF vars, PlanInv, PlanTypeOK, PlanFirst, PageTold, RolledOnce
<1> QED BY <1>1, <1>2, <1>3, <1>4, <1>5 DEF Next

\* What the plan's readers, its jobs, the student and the agent have seen and
\* written is consistent in every reachable state: the invariant that the two
\* theorems below need.
THEOREM PlanInvariant == Spec => []PlanInv
BY PlanInitInv, PlanNextInv, PTL DEF Spec

\* No section is planned by the generator on two days, whichever reads and
\* jobs roll the window at once, for any pool, syllabus, capacity and number
\* of days.
THEOREM SectionsRolledOnce == Spec => []RolledOnce
<1>1. PlanInv => RolledOnce
  BY DEF PlanInv
<1> QED BY <1>1, PlanInvariant, PTL

\* A student's edit is applied to the task that the page showed, in its day,
\* section, minutes and origin: checking the versions of plan and task is
\* enough for that in every interleaving with feedback, adjustments by the
\* agent, reads, jobs and moves of school.
THEOREM EditsAreSeen == Spec => []EditsWhatWasSeen
<1>1. PlanInv => EditsWhatWasSeen
  BY DEF PlanInv, EditsWhatWasSeen
<1> QED BY <1>1, PlanInvariant, PTL

-----------------------------------------------------------------------------
(* Resources *)

RequestStages == {"idle", "refused", "checked", "written", "uploaded", "accepted", "failed",
                  "crashed"}
ResourceStatuses == {"PROCESSING", "REVIEW_REQUIRED", "PUBLISHED"}
Rows == [status : ResourceStatuses, file : Uploads, import : {"QUEUED", "REVIEW_REQUIRED"}]
Chunks == [text : {Parsed[i] : i \in DOMAIN Parsed},
           mapping : {"none", "candidate", "confirmed"}, version : Nat]
JobStatuses == {"none", "QUEUED", "RUNNING", "RETRY_WAIT"} \cup EndedStatuses
ParseJobs == [status : JobStatuses, attempts : Nat, lost : BOOLEAN]
TaskStages == {"idle", "dispatch", "parsing", "parsed", "transient", "fatal"}

ResourcesTypeOK ==
    /\ upload \in [Uploads -> RequestStages]
    /\ disk \subseteq Uploads
    /\ resource \in {NoResource} \cup Rows
    /\ sections \in [DOMAIN sections -> Chunks]
    /\ job \in ParseJobs
    /\ task \in TaskStages
    /\ loaded \in {"none"} \cup ResourceStatuses

\* The file comes before the rows, the rows before the job, and of all uploads
\* only one commits them.
UploadsInOrder ==
    /\ \A u \in Uploads : upload[u] = "written" => u \in disk
    /\ resource # NoResource => resource.file \in disk
    /\ \A u \in Uploads : upload[u] = "uploaded" => resource # NoResource /\ job = NoJob
    /\ \A u, v \in Uploads : (upload[u] = "uploaded" /\ upload[v] = "uploaded") => u = v
    /\ job.status # "none" => resource # NoResource
    /\ job.status = "none" => job = NoJob

\* A worker is busy only with the RUNNING job.
WorkerOfJob ==
    /\ task # "idle" => job.status = "RUNNING"
    /\ task \in {"idle", "dispatch"} => loaded = "none"

\* What tells that the import has been parsed.
ParsedShown ==
    (\/ task = "parsed" \/ job.status = "SUCCEEDED" \/ DOMAIN sections # {}
     \/ loaded = "REVIEW_REQUIRED"
     \/ resource # NoResource /\ resource.status = "REVIEW_REQUIRED")
        => resource # NoResource /\ resource.import = "REVIEW_REQUIRED"

\* A parsed import without rows is one of a document without sections.
RowsOrNone ==
    (resource # NoResource /\ resource.import = "REVIEW_REQUIRED" /\ DOMAIN sections = {})
        => DOMAIN Parsed = {}

Confirmed ==
    (resource # NoResource /\ resource.status = "PUBLISHED") =>
        \A i \in DOMAIN sections : sections[i].mapping # "candidate"

\* What is stored is what was parsed, in its order.
StoredAsParsed ==
    DOMAIN sections # {} =>
        DOMAIN sections = DOMAIN Parsed /\ \A i \in DOMAIN Parsed : sections[i].text = Parsed[i]

ResourcesInv ==
    /\ ResourcesTypeOK /\ UploadsInOrder /\ WorkerOfJob /\ ParsedShown /\ RowsOrNone /\ Confirmed
    /\ StoredAsParsed

-----------------------------------------------------------------------------
\* The parse depends on nothing but the document.
LEMMA SameParse ==
    ASSUME UNCHANGED content
    PROVE  Parsed' = Parsed
BY DEF Parsed

\* No sections are stored exactly when no index has one.
LEMMA EmptySections ==
    ASSUME ResourcesTypeOK
    PROVE  sections = <<>> <=> DOMAIN sections = {}
<1>1. DOMAIN <<>> = {}
  OBVIOUS
<1>2. ASSUME DOMAIN sections = {} PROVE sections = <<>>
  BY <1>2 DEF ResourcesTypeOK
<1> QED BY <1>1, <1>2

\* The rows that the operations on a job return.
LEMMA JobRows ==
    ASSUME ResourcesTypeOK
    PROVE  /\ NewJob \in ParseJobs /\ NewJob.status = "QUEUED"
           /\ StartedJob(job) \in ParseJobs /\ StartedJob(job).status = "RUNNING"
           /\ LostDelivery(job) \in ParseJobs /\ LostDelivery(job).status = job.status
           /\ SucceededJob(job) \in ParseJobs /\ SucceededJob(job).status = "SUCCEEDED"
           /\ \A b \in BOOLEAN :
                /\ FailedJob(job, b) \in ParseJobs
                /\ FailedJob(job, b).status \in {"FAILED", "RETRY_WAIT", "DEAD_LETTER"}
           /\ ReconciledJob(job) \in ParseJobs
           /\ ReconciledJob(job).status \in {"RETRY_WAIT", "DEAD_LETTER"}
<1>1. job \in [status : JobStatuses, attempts : Nat, lost : BOOLEAN]
  BY DEF ResourcesTypeOK, ParseJobs
<1>2. NewJob \in ParseJobs /\ NewJob.status = "QUEUED"
  BY DEF NewJob, ParseJobs, JobStatuses
<1>3. StartedJob(job) \in ParseJobs /\ StartedJob(job).status = "RUNNING"
  BY <1>1 DEF StartedJob, ParseJobs, JobStatuses
<1>8. LostDelivery(job) \in ParseJobs /\ LostDelivery(job).status = job.status
  BY <1>1 DEF LostDelivery, ParseJobs
<1>4. ASSUME NEW s \in EndedStatuses \cup {"RETRY_WAIT"}
      PROVE  [job EXCEPT !.status = s] \in ParseJobs /\ [job EXCEPT !.status = s].status = s
  BY <1>1, <1>4 DEF ParseJobs, JobStatuses
<1>5. SucceededJob(job) \in ParseJobs /\ SucceededJob(job).status = "SUCCEEDED"
  BY <1>4 DEF SucceededJob, EndedStatuses
<1>6. ASSUME NEW b \in BOOLEAN
      PROVE  /\ FailedJob(job, b) \in ParseJobs
             /\ FailedJob(job, b).status \in {"FAILED", "RETRY_WAIT", "DEAD_LETTER"}
  <2> DEFINE s == IF ~b THEN "FAILED" ELSE IF job.attempts < MaxAttempts THEN "RETRY_WAIT"
                  ELSE "DEAD_LETTER"
  <2>1. s \in {"FAILED", "RETRY_WAIT", "DEAD_LETTER"} /\ s \in EndedStatuses \cup {"RETRY_WAIT"}
    BY DEF EndedStatuses
  <2>2. FailedJob(job, b) = [job EXCEPT !.status = s]
    BY DEF FailedJob
  <2> HIDE DEF s
  <2> QED BY <1>4, <2>1, <2>2
<1>7. /\ ReconciledJob(job) \in ParseJobs
      /\ ReconciledJob(job).status \in {"RETRY_WAIT", "DEAD_LETTER"}
  <2> DEFINE s == IF job.attempts >= MaxAttempts THEN "DEAD_LETTER" ELSE "RETRY_WAIT"
  <2>1. s \in {"RETRY_WAIT", "DEAD_LETTER"} /\ s \in EndedStatuses \cup {"RETRY_WAIT"}
    BY DEF EndedStatuses
  <2>2. ReconciledJob(job) = [job EXCEPT !.status = s]
    BY DEF ReconciledJob
  <2> HIDE DEF s
  <2> QED BY <1>4, <2>1, <2>2
<1> QED BY <1>2, <1>3, <1>5, <1>6, <1>7, <1>8

-----------------------------------------------------------------------------
\* Steps that leave the import, its sections and what the worker loaded alone.
LEMMA ImportKept ==
    ASSUME ResourcesInv, UNCHANGED <<content, sections, resource>>,
           loaded' \in {loaded, "none"} \/ (resource # NoResource /\ loaded' = resource.status),
           task' = "parsed" => task = "parsed",
           job'.status = "SUCCEEDED" => job.status = "SUCCEEDED" \/ task = "parsed"
    PROVE  ParsedShown' /\ RowsOrNone' /\ Confirmed' /\ StoredAsParsed'
<1>1. Parsed' = Parsed
  BY SameParse
<1>2. loaded' = "REVIEW_REQUIRED" =>
        \/ loaded = "REVIEW_REQUIRED"
        \/ resource # NoResource /\ resource.status = "REVIEW_REQUIRED"
  OBVIOUS
<1>3. ParsedShown'
  BY <1>2 DEF ResourcesInv, ParsedShown
<1>4. RowsOrNone' /\ Confirmed' /\ StoredAsParsed'
  BY <1>1 DEF ResourcesInv, RowsOrNone, Confirmed, StoredAsParsed
<1> QED BY <1>3, <1>4

\* Sections that are left alone keep their type.
LEMMA ChunksKept ==
    ASSUME ResourcesTypeOK, UNCHANGED <<content, sections>>
    PROVE  sections' \in [DOMAIN sections' -> Chunks']
<1>1. Chunks' = Chunks
  BY SameParse DEF Chunks
<1> QED BY <1>1 DEF ResourcesTypeOK

\* The upload up to the file on disk.
LEMMA UploadSteps ==
    ASSUME ResourcesInv, NEW u \in Uploads,
           CheckUpload(u) \/ WriteFile(u) \/ CrashRequest(u)
    PROVE  ResourcesInv'
<1>1. /\ UNCHANGED <<content, sections, resource, job, task, loaded>>
      /\ disk \subseteq disk' /\ disk' \subseteq disk \cup {u}
  BY DEF CheckUpload, WriteFile, CrashRequest, reviewVars, workVars
<1>2. PICK stage \in {"checked", "refused", "written", "crashed"} :
        /\ upload' = [upload EXCEPT ![u] = stage]
        /\ stage = "written" => u \in disk'
  BY DEF CheckUpload, WriteFile, CrashRequest
<1>3. upload' \in [Uploads -> RequestStages] /\ upload'[u] = stage
      /\ \A v \in Uploads \ {u} : upload'[v] = upload[v]
  BY <1>2 DEF ResourcesInv, ResourcesTypeOK, RequestStages
<1>4. ResourcesTypeOK'
  BY <1>1, <1>3, ChunksKept DEF ResourcesInv, ResourcesTypeOK
<1>5. UploadsInOrder'
  BY <1>1, <1>2, <1>3 DEF ResourcesInv, UploadsInOrder
<1>6. WorkerOfJob'
  BY <1>1 DEF ResourcesInv, WorkerOfJob
<1> QED BY <1>1, <1>4, <1>5, <1>6, ImportKept DEF ResourcesInv

\* The rows are committed once: the hash of the content is unique.
LEMMA UploadCommits ==
    ASSUME ResourcesInv, NEW u \in Uploads, CommitUpload(u)
    PROVE  ResourcesInv'
<1>1. UNCHANGED <<content, sections, disk, job, task, loaded>> /\ upload[u] = "written"
  BY DEF CommitUpload, reviewVars, workVars
<1>2. CASE resource # NoResource
  <2>1. UNCHANGED resource /\ upload' = [upload EXCEPT ![u] = "failed"]
    BY <1>2 DEF CommitUpload
  <2>2. upload' \in [Uploads -> RequestStages] /\ upload'[u] = "failed"
        /\ \A v \in Uploads \ {u} : upload'[v] = upload[v]
    BY <2>1 DEF ResourcesInv, ResourcesTypeOK, RequestStages
  <2>3. ResourcesTypeOK'
    BY <1>1, <2>1, <2>2, ChunksKept DEF ResourcesInv, ResourcesTypeOK
  <2>4. UploadsInOrder' /\ WorkerOfJob'
    BY <1>1, <2>1, <2>2 DEF ResourcesInv, UploadsInOrder, WorkerOfJob
  <2> QED BY <1>1, <2>1, <2>3, <2>4, ImportKept DEF ResourcesInv
<1>3. CASE resource = NoResource
  <2>1. /\ resource' = [status |-> "PROCESSING", file |-> u, import |-> "QUEUED"]
        /\ upload' = [upload EXCEPT ![u] = "uploaded"]
    BY <1>3 DEF CommitUpload
  <2>2. upload' \in [Uploads -> RequestStages] /\ upload'[u] = "uploaded"
        /\ \A v \in Uploads \ {u} : upload'[v] = upload[v]
    BY <2>1 DEF ResourcesInv, ResourcesTypeOK, RequestStages
  <2>3. resource' \in Rows /\ resource'.status = "PROCESSING" /\ resource'.file = u
    BY <2>1 DEF Rows, ResourceStatuses
  <2>4. resource' # NoResource
    BY <2>3 DEF NoResource
  <2>5. ResourcesTypeOK'
    BY <1>1, <2>2, <2>3, ChunksKept DEF ResourcesInv, ResourcesTypeOK
  <2>6. UploadsInOrder'
    BY <1>1, <1>3, <2>2, <2>3, <2>4 DEF ResourcesInv, UploadsInOrder
  <2>7. WorkerOfJob'
    BY <1>1 DEF ResourcesInv, WorkerOfJob
  <2>8. /\ task # "parsed" /\ job.status # "SUCCEEDED" /\ DOMAIN sections = {}
        /\ loaded # "REVIEW_REQUIRED"
    BY <1>3 DEF ResourcesInv, ParsedShown
  <2>9. ParsedShown' /\ RowsOrNone' /\ Confirmed' /\ StoredAsParsed'
    BY <1>1, <2>1, <2>3, <2>8 DEF ParsedShown, RowsOrNone, Confirmed, StoredAsParsed
  <2> QED BY <2>5, <2>6, <2>7, <2>9 DEF ResourcesInv
<1> QED BY <1>2, <1>3

\* The job is created once, by the request that committed the rows.
LEMMA UploadEnqueues ==
    ASSUME ResourcesInv, NEW u \in Uploads, CreateJob(u)
    PROVE  ResourcesInv'
<1>1. /\ UNCHANGED <<content, sections, disk, resource, task, loaded>> /\ upload[u] = "uploaded"
      /\ job' = NewJob /\ upload' = [upload EXCEPT ![u] = "accepted"]
  BY DEF CreateJob, reviewVars
<1>2. upload' \in [Uploads -> RequestStages] /\ upload'[u] = "accepted"
      /\ \A v \in Uploads \ {u} : upload'[v] = upload[v]
  BY <1>1 DEF ResourcesInv, ResourcesTypeOK, RequestStages
<1>3. resource # NoResource /\ job = NoJob /\ \A v \in Uploads : upload'[v] # "uploaded"
  BY <1>1, <1>2 DEF ResourcesInv, UploadsInOrder
<1>4. job' \in ParseJobs /\ job'.status = "QUEUED" /\ job.status = "none"
  BY <1>1, <1>3, JobRows DEF ResourcesInv, NoJob
<1>5. ResourcesTypeOK'
  BY <1>1, <1>2, <1>4, ChunksKept DEF ResourcesInv, ResourcesTypeOK
<1>6. UploadsInOrder' /\ WorkerOfJob'
  BY <1>1, <1>2, <1>3, <1>4 DEF ResourcesInv, UploadsInOrder, WorkerOfJob
<1> QED BY <1>1, <1>4, <1>5, <1>6, ImportKept DEF ResourcesInv

-----------------------------------------------------------------------------
\* The steps of the worker and of the reconciliation that store no sections.
LEMMA WorkerMoves ==
    ASSUME ResourcesInv,
           \/ StartParseJob \/ LoseDelivery \/ LoadRows \/ ParseFails \/ FinishParseJob
           \/ HandleParseFailure \/ CrashWorker \/ Reconcile
    PROVE  ResourcesInv'
<1>1. UNCHANGED <<content, sections, upload, disk, resource>>
  BY DEF StartParseJob, LoseDelivery, LoadRows, ParseFails, FinishParseJob, HandleParseFailure, CrashWorker,
         Reconcile, reviewVars
<1>2. /\ job' \in ParseJobs /\ job'.status # "none" /\ job.status # "none"
      /\ task' \in TaskStages /\ loaded' \in {"none"} \cup ResourceStatuses
      /\ task' # "parsed"
      /\ task' # "idle" => job'.status = "RUNNING"
      /\ task' \in {"idle", "dispatch"} => loaded' = "none"
      /\ loaded' \in {loaded, "none"} \/ (resource # NoResource /\ loaded' = resource.status)
      /\ job'.status = "SUCCEEDED" => job.status = "SUCCEEDED" \/ task = "parsed"
  <2>1. CASE StartParseJob
    BY <2>1, JobRows DEF StartParseJob, CanStart, ResourcesInv, ResourcesTypeOK, TaskStages,
                         WorkerOfJob
  <2>2. CASE LoadRows
    BY <2>2 DEF LoadRows, ResourcesInv, ResourcesTypeOK, TaskStages, WorkerOfJob,
                UploadsInOrder, Rows
  <2>3. CASE ParseFails
    BY <2>3 DEF ParseFails, ResourcesInv, ResourcesTypeOK, TaskStages, WorkerOfJob
  <2>4. CASE FinishParseJob
    BY <2>4, JobRows DEF FinishParseJob, ResourcesInv, ResourcesTypeOK, TaskStages, WorkerOfJob
  <2>5. CASE HandleParseFailure
    <3>1. (task = "transient") \in BOOLEAN
      OBVIOUS
    <3>2. /\ FailedJob(job, task = "transient") \in ParseJobs
          /\ FailedJob(job, task = "transient").status \in {"FAILED", "RETRY_WAIT", "DEAD_LETTER"}
      BY <3>1, JobRows DEF ResourcesInv
    <3> QED BY <2>5, <3>2 DEF HandleParseFailure, ResourcesInv, ResourcesTypeOK, TaskStages,
                              WorkerOfJob
  <2>6. CASE CrashWorker
    BY <2>6 DEF CrashWorker, ResourcesInv, ResourcesTypeOK, TaskStages, WorkerOfJob
  <2>7. CASE Reconcile
    BY <2>7, JobRows DEF Reconcile, ResourcesInv, ResourcesTypeOK, TaskStages, WorkerOfJob
  <2>8. CASE LoseDelivery
    BY <2>8, JobRows DEF LoseDelivery, CanStart, ResourcesInv, ResourcesTypeOK, WorkerOfJob
  <2> QED BY <2>1, <2>2, <2>3, <2>4, <2>5, <2>6, <2>7, <2>8
<1>3. ResourcesTypeOK'
  BY <1>1, <1>2, ChunksKept DEF ResourcesInv, ResourcesTypeOK
<1>4. \A u \in Uploads : upload[u] # "uploaded"
  BY <1>2 DEF ResourcesInv, UploadsInOrder, NoJob
<1>5. UploadsInOrder'
  BY <1>1, <1>2, <1>4 DEF ResourcesInv, UploadsInOrder
<1>6. WorkerOfJob'
  BY <1>2 DEF WorkerOfJob
<1> QED BY <1>1, <1>2, <1>3, <1>5, <1>6, ImportKept DEF ResourcesInv

\* The parsed sections are stored: if the resource was published while the
\* parse ran again, the document has no sections.
LEMMA WorkerStores ==
    ASSUME ResourcesInv, StoreSections
    PROVE  ResourcesInv'
<1>1. /\ UNCHANGED <<content, nodes, upload, disk, job, loaded>>
      /\ task = "parsing" /\ job.status = "RUNNING" /\ resource \in Rows /\ resource # NoResource
  BY DEF StoreSections, ResourcesInv, WorkerOfJob, UploadsInOrder, ResourcesTypeOK
<1>2. \A u \in Uploads : upload[u] # "uploaded"
  BY <1>1 DEF ResourcesInv, UploadsInOrder, NoJob
<1>3. CASE sections # <<>>
  <2>1. UNCHANGED <<sections, resource>> /\ task' = "fatal"
    BY <1>3 DEF StoreSections, PathsFree
  <2>2. ResourcesTypeOK'
    BY <1>1, <2>1, ChunksKept DEF ResourcesInv, ResourcesTypeOK, TaskStages
  <2>3. UploadsInOrder' /\ WorkerOfJob'
    BY <1>1, <2>1 DEF ResourcesInv, UploadsInOrder, WorkerOfJob
  <2> QED BY <1>1, <2>1, <2>2, <2>3, ImportKept DEF ResourcesInv
<1>4. CASE sections = <<>>
  <2>1. /\ sections' = [i \in DOMAIN Parsed |->
                          [text |-> Parsed[i], mapping |-> Candidate, version |-> 1]]
        /\ resource' = [resource EXCEPT
                          !.import = "REVIEW_REQUIRED",
                          !.status = IF loaded = "REVIEW_REQUIRED" THEN @ ELSE "REVIEW_REQUIRED"]
        /\ task' = "parsed"
    BY <1>4 DEF StoreSections, PathsFree
  <2>2. DOMAIN sections = {}
    BY <1>4, EmptySections DEF ResourcesInv
  <2>3. /\ resource' \in Rows /\ resource'.import = "REVIEW_REQUIRED"
        /\ resource'.file = resource.file
        /\ resource'.status = "PUBLISHED" => loaded = "REVIEW_REQUIRED"
    BY <1>1, <2>1 DEF Rows, ResourceStatuses
  <2>4. resource' # NoResource
    BY <2>3 DEF Rows, ResourceStatuses, NoResource
  <2>5. Parsed' = Parsed /\ Chunks' = Chunks
    BY <1>1, SameParse DEF Chunks
  <2>6. /\ DOMAIN sections' = DOMAIN Parsed /\ sections' \in [DOMAIN sections' -> Chunks]
        /\ \A i \in DOMAIN Parsed : sections'[i].text = Parsed[i]
    <3>1. \A i \in DOMAIN Parsed :
            [text |-> Parsed[i], mapping |-> Candidate, version |-> 1] \in Chunks
      BY DEF Chunks, Candidate
    <3> QED BY <2>1, <3>1
  <2>7. ResourcesTypeOK'
    BY <1>1, <2>1, <2>3, <2>5, <2>6 DEF ResourcesInv, ResourcesTypeOK, TaskStages
  <2>8. UploadsInOrder' /\ WorkerOfJob'
    BY <1>1, <1>2, <2>1, <2>3, <2>4 DEF ResourcesInv, UploadsInOrder, WorkerOfJob
  <2>9. ParsedShown' /\ RowsOrNone' /\ StoredAsParsed'
    BY <2>3, <2>4, <2>5, <2>6 DEF ParsedShown, RowsOrNone, StoredAsParsed
  <2>10. Confirmed'
    <3>1. SUFFICES ASSUME resource'.status = "PUBLISHED" PROVE DOMAIN sections' = {}
      BY DEF Confirmed
    <3>2. loaded = "REVIEW_REQUIRED"
      BY <2>3, <3>1
    <3>3. resource.import = "REVIEW_REQUIRED"
      BY <3>2 DEF ResourcesInv, ParsedShown
    <3> QED BY <1>1, <2>2, <2>6, <3>3 DEF ResourcesInv, RowsOrNone
  <2> QED BY <2>7, <2>8, <2>9, <2>10 DEF ResourcesInv
<1> QED BY <1>3, <1>4

\* A reviewer confirms the mappings of a section.
LEMMA ReviewerConfirms ==
    ASSUME ResourcesInv, NEW i \in DOMAIN sections, UpdateSection(i)
    PROVE  ResourcesInv'
<1>1. UNCHANGED <<content, nodes, upload, disk, resource, job, task, loaded>>
  BY DEF UpdateSection, workVars
<1>2. sections[i] \in Chunks /\ sections[i].version \in Nat
  BY DEF ResourcesInv, ResourcesTypeOK, Chunks
<1> DEFINE n == sections[i].version + 1
           s == [sections[i] EXCEPT !.mapping = "confirmed", !.version = n]
<1>3. sections' = [sections EXCEPT ![i] = s]
  BY DEF UpdateSection
<1>4. n \in Nat
  BY <1>2
<1> HIDE DEF n
<1>5. s \in Chunks /\ s.mapping = "confirmed" /\ s.text = sections[i].text
  BY <1>2, <1>4 DEF Chunks
<1> HIDE DEF s
<1>6. /\ DOMAIN sections' = DOMAIN sections /\ sections' \in [DOMAIN sections -> Chunks]
      /\ sections'[i].mapping = "confirmed" /\ sections'[i].text = sections[i].text
      /\ \A j \in DOMAIN sections \ {i} : sections'[j] = sections[j]
  BY <1>3, <1>5 DEF ResourcesInv, ResourcesTypeOK
<1>7. Parsed' = Parsed /\ Chunks' = Chunks
  BY <1>1, SameParse DEF Chunks
<1>8. ResourcesTypeOK'
  BY <1>1, <1>6, <1>7 DEF ResourcesInv, ResourcesTypeOK
<1>9. UploadsInOrder' /\ WorkerOfJob' /\ ParsedShown' /\ RowsOrNone'
  BY <1>1, <1>6, <1>7 DEF ResourcesInv, UploadsInOrder, WorkerOfJob, ParsedShown, RowsOrNone
<1>10. Confirmed' /\ StoredAsParsed'
  BY <1>1, <1>6, <1>7 DEF ResourcesInv, Confirmed, StoredAsParsed
<1> QED BY <1>8, <1>9, <1>10 DEF ResourcesInv

\* publish changes nothing but the status, and finds nothing unconfirmed.
LEMMA ReviewerPublishes ==
    ASSUME ResourcesInv, Publish
    PROVE  ResourcesInv'
<1>1. /\ UNCHANGED <<content, nodes, sections, upload, disk, job, task, loaded>>
      /\ resource # NoResource /\ \A i \in DOMAIN sections : sections[i].mapping # "candidate"
      /\ resource' = [resource EXCEPT !.status = "PUBLISHED"]
  BY DEF Publish, reviewVars, workVars
<1>2. resource' \in Rows /\ resource'.status = "PUBLISHED" /\ resource'.file = resource.file
      /\ resource'.import = resource.import
  BY <1>1 DEF ResourcesInv, ResourcesTypeOK, Rows, ResourceStatuses
<1>3. resource' # NoResource
  BY <1>2 DEF NoResource
<1>4. ResourcesTypeOK'
  BY <1>1, <1>2, ChunksKept DEF ResourcesInv, ResourcesTypeOK
<1>5. UploadsInOrder' /\ WorkerOfJob'
  BY <1>1, <1>2, <1>3 DEF ResourcesInv, UploadsInOrder, WorkerOfJob
<1>6. Parsed' = Parsed
  BY <1>1, SameParse
<1>7. ParsedShown' /\ RowsOrNone' /\ Confirmed' /\ StoredAsParsed'
  BY <1>1, <1>2, <1>3, <1>6
     DEF ResourcesInv, ParsedShown, RowsOrNone, Confirmed, StoredAsParsed
<1> QED BY <1>4, <1>5, <1>7 DEF ResourcesInv

-----------------------------------------------------------------------------
\* Uploads, job, worker, sections and status agree in every reachable state.
THEOREM ResourcesInvariant == ResourcesSpec => []ResourcesInv
<1>1. ResourcesInit => ResourcesInv
  <2> SUFFICES ASSUME ResourcesInit PROVE ResourcesInv
    OBVIOUS
  <2>1. DOMAIN sections = {} /\ sections \in [DOMAIN sections -> Chunks]
    BY DEF ResourcesInit
  <2>2. NoJob \in ParseJobs /\ NoJob.status = "none"
    BY DEF NoJob, ParseJobs, JobStatuses
  <2>3. ResourcesTypeOK
    BY <2>1, <2>2 DEF ResourcesInit, ResourcesTypeOK, RequestStages, TaskStages
  <2> QED BY <2>1, <2>2, <2>3 DEF ResourcesInit, ResourcesInv, UploadsInOrder, WorkerOfJob,
                                  ParsedShown, RowsOrNone, Confirmed, StoredAsParsed
<1>2. ResourcesInv /\ [ResourcesNext]_resourcesVars => ResourcesInv'
  <2> SUFFICES ASSUME ResourcesInv, [ResourcesNext]_resourcesVars PROVE ResourcesInv'
    OBVIOUS
  <2>1. ASSUME NEW u \in Uploads, \/ CheckUpload(u) \/ WriteFile(u) \/ CommitUpload(u)
                                  \/ CreateJob(u) \/ CrashRequest(u)
        PROVE  ResourcesInv'
    BY <2>1, UploadSteps, UploadCommits, UploadEnqueues
  <2>2. CASE \/ StartParseJob \/ LoseDelivery \/ LoadRows \/ ParseFails \/ FinishParseJob
             \/ HandleParseFailure \/ CrashWorker \/ Reconcile
    BY <2>2, WorkerMoves
  <2>3. CASE StoreSections
    BY <2>3, WorkerStores
  <2>4. CASE Review
    BY <2>4, ReviewerPublishes, ReviewerConfirms DEF Review
  <2>5. CASE UNCHANGED resourcesVars
    <3>1. UNCHANGED <<content, sections, upload, disk, resource, job, task, loaded>>
      BY <2>5 DEF resourcesVars
    <3>2. ResourcesTypeOK' /\ UploadsInOrder' /\ WorkerOfJob'
      BY <3>1, ChunksKept DEF ResourcesInv, ResourcesTypeOK, UploadsInOrder, WorkerOfJob
    <3> QED BY <3>1, <3>2, ImportKept DEF ResourcesInv
  <2> QED BY <2>1, <2>2, <2>3, <2>4, <2>5 DEF ResourcesNext
<1> QED BY <1>1, <1>2, PTL DEF ResourcesSpec

\* PublishedConfirmed: publish does not look at the import, and parse_run does
\* not lock the resource, yet nothing that is published waits for a reviewer.
THEOREM PublishedConfirmedHolds == ResourcesSpec => []PublishedConfirmed
<1>1. ResourcesInv => PublishedConfirmed
  <2>1. NoResource.status # "PUBLISHED"
    BY DEF NoResource
  <2> QED BY <2>1 DEF ResourcesInv, Confirmed, PublishedConfirmed
<1> QED BY <1>1, ResourcesInvariant, PTL

\* JobTellsImport: upload_resource writes the file before the rows and the rows
\* before the job, and parse_run commits before the job succeeds.
THEOREM JobTellsImportHolds == ResourcesSpec => []JobTellsImport
<1>1. ResourcesInv => JobTellsImport
  <2> SUFFICES ASSUME ResourcesInv PROVE JobTellsImport
    OBVIOUS
  <2>1. sections # <<>> => DOMAIN sections # {}
    BY EmptySections DEF ResourcesInv
  <2>2. job # NoJob => resource # NoResource
    BY DEF ResourcesInv, UploadsInOrder
  <2> QED BY <2>1, <2>2 DEF ResourcesInv, UploadsInOrder, ParsedShown, JobTellsImport
<1> QED BY <1>1, ResourcesInvariant, PTL

\* However often a parse runs again, and whatever is reviewed or published
\* meanwhile, the stored text is the parse of the document: TextStored, which
\* is about the text in the sections, depends on the parsers alone.
THEOREM SectionsAsParsed == ResourcesSpec => []StoredAsParsed
<1>1. ResourcesInv => StoredAsParsed
  BY DEF ResourcesInv
<1> QED BY <1>1, ResourcesInvariant, PTL
-----------------------------------------------------------------------------
Marks == {"H", "T", "E"}
Texts(body) == Positions(body, {"T"})
Headings(body) == Positions(body, {"H"})

\* The sections out and what is left over cut the text into parts that have no
\* position in common.
Cut(out, rest, text) ==
    /\ out \in Seq(SUBSET Nat) /\ rest \subseteq Nat
    /\ \A i, j \in DOMAIN out : i # j => out[i] \cap out[j] = {}
    /\ \A i \in DOMAIN out : out[i] \cap rest = {}
    /\ \A p : p \in text <=> (p \in rest \/ \E i \in DOMAIN out : p \in out[i])

\* The text that is left over, taken as one more section, leaves nothing over:
\* the append after the loop of _parse_docx.
LEMMA SectionClosed ==
    ASSUME NEW out, NEW rest, NEW text, Cut(out, rest, text)
    PROVE  Cut(Append(out, rest), {}, text)
<1> DEFINE all == Append(out, rest)
<1>1. /\ all \in Seq(SUBSET Nat) /\ Len(out) \in Nat /\ DOMAIN out = 1 .. Len(out)
      /\ DOMAIN all = DOMAIN out \cup {Len(out) + 1} /\ Len(out) + 1 \notin DOMAIN out
      /\ all[Len(out) + 1] = rest /\ \A i \in DOMAIN out : all[i] = out[i]
  BY DEF Cut
<1> HIDE DEF all
<1>2. \A p : (\E i \in DOMAIN all : p \in all[i])
               <=> (p \in rest \/ \E i \in DOMAIN out : p \in out[i])
  BY <1>1
<1>3. \A i, j \in DOMAIN all : i # j => all[i] \cap all[j] = {}
  BY <1>1 DEF Cut
<1> QED BY <1>1, <1>2, <1>3 DEF Cut, all

\* What one more line adds to the text and to the headings.
LEMMA TextRead ==
    ASSUME NEW body \in Seq(Marks), NEW n \in 1 .. Len(body)
    PROVE  /\ Texts(body) \cap 1 .. n = (Texts(body) \cap 1 .. n - 1)
                                         \cup IF body[n] = "T" THEN {n} ELSE {}
           /\ Headings(body) \cap 1 .. n = (Headings(body) \cap 1 .. n - 1)
                                         \cup IF body[n] = "H" THEN {n} ELSE {}
           /\ body[n] \in Marks /\ n \in Nat
<1>1. \A i \in 1 .. n : i = n \/ i \in 1 .. n - 1
  OBVIOUS
<1>2. n \in DOMAIN body /\ n \notin 1 .. n - 1 /\ body[n] \in Marks
  OBVIOUS
<1>3. 1 .. n - 1 \subseteq 1 .. n /\ n \in 1 .. n
  OBVIOUS
<1> QED BY <1>1, <1>2, <1>3 DEF Texts, Headings, Positions

Read == [out : Seq(SUBSET Nat), buffer : SUBSET Nat]

\* The loop of _parse_docx has a run: DocxRead is the function it is defined
\* as.
LEMMA DocxRuns ==
    ASSUME NEW body \in Seq(Marks)
    PROVE  DocxRead(body) =
             [n \in 0 .. Len(body) |->
                IF n = 0 THEN [out |-> <<>>, buffer |-> {}]
                ELSE DocxStep(body, DocxRead(body)[n - 1], n)]
<1> DEFINE N == Len(body)
           base == [out |-> <<>>, buffer |-> {}]
           F == [n \in 1 .. N |-> [x \in Read |-> DocxStep(body, x, n)]]
<1>1. N \in Nat
  OBVIOUS
<1>2. base \in Read
  BY DEF Read
<1>3. \A n \in 1 .. N : \A x \in Read : DocxStep(body, x, n) \in Read
  BY DEF DocxStep, Read
<1>4. StepsIn(F, N, Read)
  BY <1>3 DEF StepsIn
<1> HIDE DEF base
<1>5. PICK f : RunOf(f, base, F, N, Read)
  <2> HIDE DEF N, F
  <2> QED BY <1>1, <1>2, <1>4, Iteration
<1>6. f = [n \in 0 .. N |-> IF n = 0 THEN base ELSE DocxStep(body, f[n - 1], n)]
  <2>1. \A n \in 0 .. N : f[n] = IF n = 0 THEN base ELSE DocxStep(body, f[n - 1], n)
    <3> SUFFICES ASSUME NEW n \in 0 .. N
                 PROVE  f[n] = IF n = 0 THEN base ELSE DocxStep(body, f[n - 1], n)
      OBVIOUS
    <3>1. CASE n = 0
      BY <3>1, <1>5 DEF RunOf
    <3>2. CASE n # 0
      <4>1. n \in 1 .. N /\ n - 1 \in 0 .. N
        BY <3>2, <1>1
      <4>2. f[n - 1] \in Read
        BY <4>1, <1>5 DEF RunOf
      <4>3. F[n][f[n - 1]] = DocxStep(body, f[n - 1], n)
        BY <4>1, <4>2
      <4> QED BY <3>2, <4>3, <1>5 DEF RunOf
    <3> QED BY <3>1, <3>2
  <2> QED BY <2>1, <1>5 DEF RunOf
<1> QED BY <1>6 DEF DocxRead, base

\* After every paragraph, the sections of _parse_docx and its buffer cut the
\* text read so far into disjoint parts (by induction on the paragraphs).
LEMMA DocxCut ==
    ASSUME NEW body \in Seq(Marks)
    PROVE  LET end == DocxRead(body)[Len(body)]
           IN  Cut(end.out, end.buffer, Texts(body))
<1> DEFINE N == Len(body)
           d == DocxRead(body)
           Good(n) == d[n] \in Read /\ Cut(d[n].out, d[n].buffer, Texts(body) \cap 1 .. n)
           T == {n \in 0 .. N : Good(n)}
<1>1. N \in Nat
  OBVIOUS
<1>2. d = [n \in 0 .. N |-> IF n = 0 THEN [out |-> <<>>, buffer |-> {}]
                            ELSE DocxStep(body, d[n - 1], n)]
  BY DocxRuns
<1> HIDE DEF d, N
<1>3. 0 \in T
  <2>1. d[0] = [out |-> <<>>, buffer |-> {}]
    BY <1>1, <1>2
  <2>2. 1 .. 0 = {} /\ DOMAIN <<>> = {} /\ <<>> \in Seq(SUBSET Nat)
    OBVIOUS
  <2>3. Cut(<<>>, {}, {})
    BY <2>2 DEF Cut
  <2>4. d[0] \in Read
    BY <2>1, <2>2 DEF Read
  <2>5. Texts(body) \cap 1 .. 0 = {}
    BY <2>2
  <2>6. Cut(d[0].out, d[0].buffer, Texts(body) \cap 1 .. 0)
    BY <2>1, <2>3, <2>5
  <2> QED BY <1>1, <2>4, <2>6
<1>4. ASSUME NEW n \in 1 .. N, n - 1 \in T PROVE n \in T
  <2> DEFINE x == d[n - 1]
             text == Texts(body) \cap 1 .. n - 1
  <2>1. n \in 0 .. N /\ n # 0 /\ d[n] = DocxStep(body, x, n)
    <3> HIDE DEF T
    <3>1. n \in 0 .. N /\ n # 0
      BY <1>1
    <3> QED BY <1>2, <3>1
  <2>2. x \in Read /\ Cut(x.out, x.buffer, text) /\ n \notin text
    BY <1>4
  <2> HIDE DEF x, text
  <2>3. CASE body[n] = "E"
    <3>1. d[n] = x /\ Texts(body) \cap 1 .. n = text
      BY <2>1, <2>3, TextRead DEF DocxStep, text, N
    <3> QED BY <2>1, <2>2, <3>1
  <2>4. CASE body[n] = "T"
    <3>1. Texts(body) \cap 1 .. n = text \cup {n} /\ n \in Nat
      BY <2>4, TextRead DEF text, N
    <3>2. d[n] = [out |-> x.out, buffer |-> x.buffer \cup {n}]
      BY <2>1, <2>2, <2>4 DEF DocxStep, Read
    <3>3. Cut(x.out, x.buffer \cup {n}, text \cup {n})
      BY <2>2, <3>1 DEF Cut
    <3>4. d[n] \in Read
      BY <2>2, <3>1, <3>2 DEF Read
    <3>5. d[n].out = x.out /\ d[n].buffer = x.buffer \cup {n}
      BY <3>2
    <3> QED BY <2>1, <3>1, <3>3, <3>4, <3>5
  <2>5. CASE body[n] = "H"
    <3>1. Texts(body) \cap 1 .. n = text
      BY <2>5, TextRead DEF text, N
    <3>2. d[n] = [out |-> IF x.buffer = {} THEN x.out ELSE Append(x.out, x.buffer),
                  buffer |-> {}]
      BY <2>1, <2>5 DEF DocxStep
    <3>3. Cut(Append(x.out, x.buffer), {}, text)
      BY <2>2, SectionClosed
    <3>4. Cut(d[n].out, d[n].buffer, text)
      <4>1. CASE x.buffer = {}
        <5>1. d[n].out = x.out /\ d[n].buffer = x.buffer
          BY <3>2, <4>1
        <5> QED BY <2>2, <5>1
      <4>2. CASE x.buffer # {}
        <5>1. d[n].out = Append(x.out, x.buffer) /\ d[n].buffer = {}
          BY <3>2, <4>2
        <5> QED BY <3>3, <5>1
      <4> QED BY <4>1, <4>2
    <3>5. d[n] \in Read
      BY <3>2, <3>4 DEF Cut, Read
    <3> QED BY <2>1, <3>1, <3>4, <3>5
  <2>6. body[n] \in Marks
    BY TextRead DEF N
  <2> QED BY <2>3, <2>4, <2>5, <2>6 DEF Marks
<1> HIDE DEF T
<1>5. N \in T
  <2>1. 0 .. N \subseteq T
    BY <1>1, <1>3, <1>4, Induction
  <2> QED BY <1>1, <2>1
<1>6. Texts(body) \cap 1 .. N = Texts(body)
  BY DEF Texts, Positions, N
<1> QED BY <1>5, <1>6 DEF T, d, N

\* _parse_docx: every paragraph of text is in exactly one section.
LEMMA DocxParsed ==
    ASSUME NEW body \in Seq(Marks)
    PROVE  Cut(ParseDocx(body), {}, Texts(body))
<1> DEFINE end == DocxRead(body)[Len(body)]
<1>1. Cut(end.out, end.buffer, Texts(body))
  BY DocxCut
<1>2. ParseDocx(body) = IF end.buffer # {} \/ end.out = <<>>
                        THEN Append(end.out, end.buffer) ELSE end.out
  BY DEF ParseDocx
<1> HIDE DEF end
<1>3. Cut(Append(end.out, end.buffer), {}, Texts(body))
  BY <1>1, SectionClosed
<1> QED BY <1>1, <1>2, <1>3

-----------------------------------------------------------------------------
\* The headings x among the first n lines, in their order.
InOrder(body, n, x) ==
    /\ x \in Seq(Nat)
    /\ \A i, j \in DOMAIN x : i < j => x[i] < x[j]
    /\ \A p : p \in Headings(body) \cap 1 .. n <=> \E i \in DOMAIN x : x[i] = p

HeadingsStep(body, x, n) == IF body[n] = "H" THEN Append(x, n) ELSE x

\* The loop of _parse_markdown over the lines has a run.
LEMMA HeadingsRuns ==
    ASSUME NEW body \in Seq(Marks)
    PROVE  HeadingsRead(body) =
             [n \in 0 .. Len(body) |->
                IF n = 0 THEN <<>> ELSE HeadingsStep(body, HeadingsRead(body)[n - 1], n)]
<1> DEFINE N == Len(body)
           F == [n \in 1 .. N |-> [x \in Seq(Nat) |-> HeadingsStep(body, x, n)]]
<1>1. N \in Nat
  OBVIOUS
<1>2. <<>> \in Seq(Nat)
  OBVIOUS
<1>3. \A n \in 1 .. N : \A x \in Seq(Nat) : HeadingsStep(body, x, n) \in Seq(Nat)
  BY DEF HeadingsStep
<1>4. StepsIn(F, N, Seq(Nat))
  BY <1>3 DEF StepsIn
<1>5. PICK f : RunOf(f, <<>>, F, N, Seq(Nat))
  <2> HIDE DEF N, F
  <2> QED BY <1>1, <1>2, <1>4, Iteration
<1>6. f = [n \in 0 .. N |-> IF n = 0 THEN <<>> ELSE HeadingsStep(body, f[n - 1], n)]
  <2>1. \A n \in 0 .. N : f[n] = IF n = 0 THEN <<>> ELSE HeadingsStep(body, f[n - 1], n)
    <3> SUFFICES ASSUME NEW n \in 0 .. N
                 PROVE  f[n] = IF n = 0 THEN <<>> ELSE HeadingsStep(body, f[n - 1], n)
      OBVIOUS
    <3>1. CASE n = 0
      BY <3>1, <1>5 DEF RunOf
    <3>2. CASE n # 0
      <4>1. n \in 1 .. N /\ n - 1 \in 0 .. N
        BY <3>2, <1>1
      <4>2. f[n - 1] \in Seq(Nat)
        BY <4>1, <1>5 DEF RunOf
      <4>3. F[n][f[n - 1]] = HeadingsStep(body, f[n - 1], n)
        BY <4>1, <4>2
      <4> QED BY <3>2, <4>3, <1>5 DEF RunOf
    <3> QED BY <3>1, <3>2
  <2> QED BY <2>1, <1>5 DEF RunOf
<1> QED BY <1>6 DEF HeadingsRead, HeadingsStep

\* It finds all the headings, in their order (by induction on the lines).
LEMMA HeadingsFound ==
    ASSUME NEW body \in Seq(Marks)
    PROVE  InOrder(body, Len(body), HeadingsRead(body)[Len(body)])
<1> DEFINE N == Len(body)
           d == HeadingsRead(body)
           T == {n \in 0 .. N : InOrder(body, n, d[n])}
<1>1. N \in Nat
  OBVIOUS
<1>2. d = [n \in 0 .. N |-> IF n = 0 THEN <<>> ELSE HeadingsStep(body, d[n - 1], n)]
  BY HeadingsRuns
<1> HIDE DEF d, N
<1>3. 0 \in T
  <2>1. d[0] = <<>>
    BY <1>1, <1>2
  <2>2. 1 .. 0 = {} /\ DOMAIN <<>> = {} /\ <<>> \in Seq(Nat)
    OBVIOUS
  <2>3. InOrder(body, 0, <<>>)
    BY <2>2 DEF InOrder
  <2> QED BY <1>1, <2>1, <2>3
<1>4. ASSUME NEW n \in 1 .. N, n - 1 \in T PROVE n \in T
  <2> DEFINE x == d[n - 1]
  <2>1. n \in 0 .. N /\ n # 0 /\ d[n] = HeadingsStep(body, x, n)
    <3> HIDE DEF T
    <3>1. n \in 0 .. N /\ n # 0
      BY <1>1
    <3> QED BY <1>2, <3>1
  <2>2. InOrder(body, n - 1, x)
    BY <1>4
  <2>3. /\ Headings(body) \cap 1 .. n = (Headings(body) \cap 1 .. n - 1)
                                          \cup IF body[n] = "H" THEN {n} ELSE {}
        /\ n \in Nat
    BY TextRead DEF N
  <2> HIDE DEF x
  <2>4. CASE body[n] = "H"
    <3> DEFINE y == Append(x, n)
    <3>1. /\ y \in Seq(Nat) /\ Len(x) \in Nat /\ DOMAIN x = 1 .. Len(x)
          /\ DOMAIN y = DOMAIN x \cup {Len(x) + 1} /\ y[Len(x) + 1] = n
          /\ \A i \in DOMAIN x : y[i] = x[i]
      BY <2>2, <2>3 DEF InOrder
    <3> HIDE DEF y
    <3>2. \A i \in DOMAIN x : x[i] \in Nat /\ x[i] < n
      <4>1. \A i \in DOMAIN x : x[i] \in Headings(body) \cap 1 .. n - 1
        BY <2>2 DEF InOrder
      <4> QED BY <4>1, <2>3
    <3>3. \A i, j \in DOMAIN y : i < j => y[i] < y[j]
      BY <2>2, <3>1, <3>2 DEF InOrder
    <3>4. \A p : p \in Headings(body) \cap 1 .. n <=> \E i \in DOMAIN y : y[i] = p
      <4>1. Headings(body) \cap 1 .. n = (Headings(body) \cap 1 .. n - 1) \cup {n}
        BY <2>3, <2>4
      <4> QED BY <4>1, <2>2, <3>1 DEF InOrder
    <3>5. InOrder(body, n, y)
      BY <3>1, <3>3, <3>4 DEF InOrder
    <3> QED BY <2>1, <2>4, <3>5 DEF HeadingsStep, y
  <2>5. CASE body[n] # "H"
    <3>1. Headings(body) \cap 1 .. n = Headings(body) \cap 1 .. n - 1
      BY <2>3, <2>5
    <3>2. InOrder(body, n, x)
      BY <2>2, <3>1 DEF InOrder
    <3> QED BY <2>1, <2>5, <3>2 DEF HeadingsStep
  <2> QED BY <2>4, <2>5
<1> HIDE DEF T
<1>5. N \in T
  <2>1. 0 .. N \subseteq T
    BY <1>1, <1>3, <1>4, Induction
  <2> QED BY <1>1, <2>1
<1> QED BY <1>5 DEF T, d, N

\* _parse_markdown: the sections are disjoint, and hold the text after the
\* first heading, or all of it when there is no heading.
LEMMA MarkdownParsed ==
    ASSUME NEW body \in Seq(Marks)
    PROVE  Cut(ParseMarkdown(body), {},
               {i \in Texts(body) : Headings(body) = {} \/ \E h \in Headings(body) : h < i})
<1> DEFINE N == Len(body)
           x == HeadingsRead(body)[N]
           end(k) == IF k < Len(x) THEN x[k + 1] - 1 ELSE N
           made == [k \in 1 .. Len(x) |-> Texts(body) \cap (x[k] .. end(k))]
           kept == {i \in Texts(body) : Headings(body) = {} \/ \E h \in Headings(body) : h < i}
<1>1. ParseMarkdown(body) = IF x = <<>> THEN <<Texts(body)>> ELSE made
  BY DEF ParseMarkdown, Texts
<1>2. /\ N \in Nat /\ Texts(body) \subseteq 1 .. N /\ Headings(body) \subseteq 1 .. N
      /\ Texts(body) \cap Headings(body) = {}
  BY DEF Texts, Headings, Positions
<1>3. InOrder(body, N, x)
  BY HeadingsFound
<1> HIDE DEF N, x
<1>4. /\ x \in Seq(Nat) /\ DOMAIN x = 1 .. Len(x) /\ Len(x) \in Nat
      /\ \A i \in 1 .. Len(x) : x[i] \in Headings(body) /\ x[i] \in 1 .. N
      /\ \A h \in Headings(body) : \E i \in 1 .. Len(x) : x[i] = h
      /\ \A i, j \in 1 .. Len(x) : i < j => x[i] < x[j]
  BY <1>2, <1>3 DEF InOrder
<1>5. CASE x = <<>>
  <2>1. Headings(body) = {}
    BY <1>4, <1>5
  <2>2. kept = Texts(body)
    BY <2>1
  <2> DEFINE one == <<Texts(body)>>
  <2>3. one \in Seq(SUBSET Nat) /\ DOMAIN one = {1} /\ one[1] = Texts(body)
    BY <1>2
  <2> HIDE DEF one
  <2>4. Cut(one, {}, Texts(body))
    BY <2>3 DEF Cut
  <2> QED BY <1>1, <1>5, <2>2, <2>4 DEF one
<1>6. CASE x # <<>>
  <2>1. Len(x) \in Nat \ {0}
    BY <1>4, <1>6
  <2>2. DOMAIN made = 1 .. Len(x) /\ made \in Seq(SUBSET Nat)
    BY <1>2, <1>4
  <2>3. ASSUME NEW k \in 1 .. Len(x), NEW l \in 1 .. Len(x), k < l
        PROVE  made[k] \cap made[l] = {}
    <3>1. k + 1 \in 1 .. Len(x) /\ end(k) = x[k + 1] - 1 /\ (k + 1 = l \/ k + 1 < l)
      BY <2>3, <1>4
    <3>2. x[k + 1] <= x[l] /\ x[k + 1] \in Nat /\ x[l] \in Nat
      BY <3>1, <1>4
    <3>3. end(k) < x[l] /\ end(k) \in Int
      BY <3>1, <3>2
    <3> HIDE DEF end
    <3> QED BY <1>2, <3>2, <3>3
  <2>4. ASSUME NEW i \in Texts(body), NEW h \in Headings(body), h < i
        PROVE  \E k \in 1 .. Len(x) : i \in made[k]
    <3> SUFFICES ASSUME \A k \in 1 .. Len(x) : ~ (i \in x[k] .. end(k)) PROVE FALSE
      OBVIOUS
    <3> DEFINE M == Len(x) - 1
               T == {m \in 0 .. M : x[m + 1] <= i}
    <3>1. M \in Nat /\ i \in Nat /\ i <= N
      BY <1>2, <2>1
    <3>2. 0 \in T
      <4>1. PICK j \in 1 .. Len(x) : x[j] = h
        BY <1>4
      <4>2. x[1] <= x[j] /\ x[1] \in Nat /\ x[j] \in Nat
        BY <1>4, <2>1
      <4> QED BY <4>1, <4>2, <3>1, <2>4
    <3>3. ASSUME NEW m \in 1 .. M, m - 1 \in T PROVE m \in T
      <4>1. m \in 1 .. Len(x) /\ m < Len(x) /\ m + 1 \in 1 .. Len(x) /\ m \in 0 .. M
        BY <3>1, <1>4
      <4>2. x[m] <= i
        BY <3>3
      <4>3. end(m) = x[m + 1] - 1 /\ x[m + 1] \in Nat /\ x[m] \in Nat
        BY <4>1, <1>4
      <4>4. ~ (i \in x[m] .. end(m))
        BY <4>1
      <4> HIDE DEF end, T
      <4>5. x[m + 1] <= i
        BY <4>2, <4>3, <4>4, <3>1
      <4> QED BY <4>1, <4>5 DEF T
    <3> HIDE DEF M, T
    <3>4. M \in T
      <4>1. 0 .. M \subseteq T
        BY <3>1, <3>2, <3>3, Induction
      <4> QED BY <3>1, <4>1
    <3>5. x[Len(x)] <= i /\ end(Len(x)) = N /\ Len(x) \in 1 .. Len(x) /\ x[Len(x)] \in Nat
      BY <3>4, <1>4, <2>1 DEF M, T
    <3> HIDE DEF end
    <3> QED BY <3>1, <3>5, <1>2
  <2>5. ASSUME NEW k \in 1 .. Len(x), NEW i \in made[k]
        PROVE  i \in kept
    <3>1. i \in Texts(body) /\ x[k] <= i /\ x[k] \in Headings(body) /\ i # x[k]
      BY <1>2, <1>4, <2>5
    <3> QED BY <3>1, <1>2, <1>4
  <2> HIDE DEF made
  <2>6. \A i \in kept : \E k \in 1 .. Len(x) : i \in made[k]
    <3>1. Headings(body) # {}
      BY <1>4, <2>1
    <3> QED BY <2>4, <3>1
  <2>7. \A i, j \in DOMAIN made : i # j => made[i] \cap made[j] = {}
    <3> SUFFICES ASSUME NEW i \in 1 .. Len(x), NEW j \in 1 .. Len(x), i # j
                 PROVE  made[i] \cap made[j] = {}
      BY <2>2
    <3>1. i < j \/ j < i
      BY <1>4
    <3> QED BY <2>3, <3>1
  <2> HIDE DEF kept
  <2>8. Cut(made, {}, kept)
    BY <2>2, <2>5, <2>6, <2>7 DEF Cut
  <2> QED BY <1>1, <1>6, <2>8 DEF kept
<1> QED BY <1>5, <1>6


ContentOK == content \in Contents

\* The uploaded document never changes.
LEMMA ContentStays == ResourcesSpec => []ContentOK
<1>1. ResourcesInit => ContentOK
  BY DEF ResourcesInit, ContentOK
<1>2. ContentOK /\ [ResourcesNext]_resourcesVars => ContentOK'
  <2> SUFFICES ASSUME [ResourcesNext]_resourcesVars
               PROVE  content' = content
    BY DEF ContentOK
  <2>1. ASSUME NEW u \in Uploads, \/ CheckUpload(u) \/ WriteFile(u) \/ CommitUpload(u)
                                  \/ CreateJob(u) \/ CrashRequest(u)
        PROVE  content' = content
    BY <2>1 DEF CheckUpload, WriteFile, CommitUpload, CreateJob, CrashRequest, reviewVars
  <2>2. CASE \/ StartParseJob \/ LoseDelivery \/ LoadRows \/ ParseFails \/ FinishParseJob
             \/ HandleParseFailure \/ CrashWorker \/ Reconcile
    BY <2>2 DEF StartParseJob, LoseDelivery, LoadRows, ParseFails, FinishParseJob, HandleParseFailure,
                CrashWorker, Reconcile, reviewVars
  <2>3. CASE StoreSections \/ Review
    BY <2>3 DEF StoreSections, Review, Publish, UpdateSection, reviewVars
  <2>4. CASE UNCHANGED resourcesVars
    BY <2>4 DEF resourcesVars
  <2> QED BY <2>1, <2>2, <2>3, <2>4 DEF ResourcesNext
<1> QED BY <1>1, <1>2, PTL DEF ResourcesSpec

\* What each of the parsers keeps of a document.
LEMMA ParsedOnce ==
    ASSUME ContentOK
    PROVE  LET text == Texts(content.body)
               headings == Headings(content.body)
               kept == UNION {Parsed[i] : i \in DOMAIN Parsed}
           IN  /\ \A i, j \in DOMAIN Parsed : i # j => Parsed[i] \cap Parsed[j] = {}
               /\ content.kind = "docx" => kept = text
               /\ content.kind = "markdown" =>
                    kept = {i \in text : headings = {} \/ \E h \in headings : h < i}
<1> DEFINE body == content.body
           text == Texts(body)
           headings == Headings(body)
           kept == UNION {Parsed[i] : i \in DOMAIN Parsed}
           told == {i \in text : headings = {} \/ \E h \in headings : h < i}
<1>1. /\ content.kind \in {"docx", "markdown", "pdf", "image"} /\ body \in Seq(Marks)
  BY ResourcesAssumption DEF Marks, ContentOK
<1> HIDE DEF body
<1>2. CASE content.kind = "docx"
  <2>1. Parsed = ParseDocx(body)
    BY <1>2 DEF Parsed, body
  <2>2. Cut(Parsed, {}, text)
    BY <1>1, <2>1, DocxParsed
  <2>3. kept = text
    BY <2>2 DEF Cut
  <2>4. \A i, j \in DOMAIN Parsed : i # j => Parsed[i] \cap Parsed[j] = {}
    BY <2>2 DEF Cut
  <2> QED BY <1>2, <2>3, <2>4 DEF body
<1>3. CASE content.kind = "markdown"
  <2>1. Parsed = ParseMarkdown(body)
    BY <1>3 DEF Parsed, body
  <2>2. Cut(Parsed, {}, told)
    BY <1>1, <2>1, MarkdownParsed
  <2> HIDE DEF told
  <2>3. kept = told
    BY <2>2 DEF Cut
  <2>4. \A i, j \in DOMAIN Parsed : i # j => Parsed[i] \cap Parsed[j] = {}
    BY <2>2 DEF Cut
  <2> QED BY <1>3, <2>3, <2>4 DEF body, told
<1>4. CASE content.kind = "pdf"
  <2>1. Parsed = [i \in 1 .. Len(body) |-> {i}]
    BY <1>4 DEF Parsed, ParsePdf, body
  <2> QED BY <1>4, <2>1
<1>5. CASE content.kind = "image"
  <2>1. Parsed = <<{1}>>
    BY <1>5 DEF Parsed
  <2> QED BY <1>5, <2>1
<1> QED BY <1>1, <1>2, <1>3, <1>4, <1>5

\* TextStored: what is stored of any document, of whatever length, is the text
\* that its parser is to keep, no piece of it twice, however often the parse
\* runs again and whatever is reviewed or published meanwhile.
THEOREM TextIsStored == ResourcesSpec => []TextStored
<1>1. ResourcesInv /\ ContentOK => TextStored
  <2> SUFFICES ASSUME ResourcesInv, ContentOK, sections # <<>>
               PROVE  LET text == Positions(content.body, {"T"})
                          headings == Positions(content.body, {"H"})
                          kept == UNION {sections[i].text : i \in DOMAIN sections}
                      IN  /\ \A i, j \in DOMAIN sections :
                               i # j => sections[i].text \cap sections[j].text = {}
                          /\ content.kind = "docx" => kept = text
                          /\ content.kind = "markdown" =>
                               kept = {i \in text : headings = {} \/ \E h \in headings : h < i}
    BY DEF TextStored
  <2>1. DOMAIN sections # {} /\ StoredAsParsed
    BY EmptySections DEF ResourcesInv
  <2>2. DOMAIN sections = DOMAIN Parsed /\ \A i \in DOMAIN Parsed : sections[i].text = Parsed[i]
    BY <2>1 DEF StoredAsParsed
  <2>3. {sections[i].text : i \in DOMAIN sections} = {Parsed[i] : i \in DOMAIN Parsed}
    BY <2>2
  <2>4. \A i, j \in DOMAIN sections : i # j => sections[i].text \cap sections[j].text = {}
    BY <2>2, ParsedOnce
  <2> QED BY <2>3, <2>4, ParsedOnce DEF Texts, Headings
<1> QED BY <1>1, ResourcesInvariant, ContentStays, PTL
=============================================================================
