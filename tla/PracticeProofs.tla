--------------------------- MODULE PracticeProofs ---------------------------
(***************************************************************************)
(* Proofs about Practice, for any number of requests, tasks, knowledge     *)
(* points, questions and reports.                                          *)
(*                                                                         *)
(* No report of a student is lost, whoever reports at the same time; the   *)
(* mastery of a knowledge point rests on every recorded answer once; an    *)
(* efficiency profile holds the samples of the last reports accepted for   *)
(* it, with percentiles that lie among them.                               *)
(*                                                                         *)
(* The row locks carry the last two: what a transaction has loaded and not *)
(* just found missing is its own, so that what it will write is what is    *)
(* committed until then, moved by what it has observed.  The loops of the  *)
(* code are recursive functions; what they compute is proved by induction  *)
(* on the number of their steps.                                           *)
(***************************************************************************)
EXTENDS Practice, FiniteSetTheorems, WellFoundedInduction, TLAPS

(* Induction on numbers *)

\* Induction over a range: what holds of 0 and of every number whose
\* predecessor has it holds of all. The step is a set, so that no operator is
\* a parameter; it follows from the well-foundedness of < (WFMin).
LEMMA Induction ==
    ASSUME NEW N \in Nat, NEW T,
           0 \in T, \A n \in 1 .. N : n - 1 \in T => n \in T
    PROVE  0 .. N \subseteq T
<1> DEFINE R == OpToRel(<, Nat)
           Left == {n \in 0 .. N : n \notin T}
<1> SUFFICES ASSUME Left # {} PROVE FALSE
  OBVIOUS
<1>1. IsWellFoundedOn(R, Nat)
  BY NatLessThanWellFounded
<1>2. Left \subseteq Nat
  OBVIOUS
<1> HIDE DEF R, Left
<1>3. PICK n \in Left : \A m \in Left : ~ (<<m, n>> \in R)
  BY <1>1, <1>2, WFMin
<1> USE DEF R, Left
<1>4. n \in 1 .. N /\ n - 1 \in 0 .. N
  OBVIOUS
<1>5. <<n - 1, n>> \in R
  BY <1>4 DEF OpToRel
<1>6. n - 1 \in T
  BY <1>3, <1>4, <1>5
<1> QED BY <1>4, <1>6

StepsIn(F, N, S) == F \in [1 .. N -> [S -> S]]
RunOf(f, base, F, N, S) ==
    /\ f \in [0 .. N -> S]
    /\ \A n \in 0 .. N : f[n] = IF n = 0 THEN base ELSE F[n][f[n - 1]]

\* A loop of N steps that stay in S has a run: there is a function that starts
\* at base and takes one step of F at a time. This is what gives a recursive
\* function over 0 .. N its values.
LEMMA Iteration ==
    ASSUME NEW N \in Nat, NEW S, NEW base \in S, NEW F, StepsIn(F, N, S)
    PROVE  \E f : RunOf(f, base, F, N, S)
<1> USE DEF StepsIn, RunOf
<1> DEFINE Fits(n, f) == \A i \in 0 .. n : f[i] = IF i = 0 THEN base ELSE F[i][f[i - 1]]
           T == {n \in 0 .. N : \E f \in [0 .. n -> S] : Fits(n, f)}
<1>1. 0 \in T
  <2> DEFINE f == [i \in 0 .. 0 |-> base]
  <2>1. f \in [0 .. 0 -> S] /\ Fits(0, f)
    OBVIOUS
  <2> HIDE DEF f, Fits
  <2> QED BY <2>1
<1>2. ASSUME NEW n \in 1 .. N, n - 1 \in T PROVE n \in T
  <2>1. PICK f \in [0 .. n - 1 -> S] : Fits(n - 1, f)
    BY <1>2
  <2> DEFINE g == [i \in 0 .. n |-> IF i = n THEN F[n][f[n - 1]] ELSE f[i]]
  <2>2. n - 1 \in 0 .. n - 1 /\ f[n - 1] \in S /\ n \in Nat /\ n # 0
    OBVIOUS
  <2>3. g \in [0 .. n -> S]
    BY <2>2
  <2>4. Fits(n, g)
    <3> SUFFICES ASSUME NEW i \in 0 .. n
                 PROVE  g[i] = IF i = 0 THEN base ELSE F[i][g[i - 1]]
      OBVIOUS
    <3>1. CASE i = n
      <4>1. g[i - 1] = f[n - 1]
        BY <3>1, <2>2
      <4> QED BY <3>1, <4>1, <2>2
    <3>2. CASE i # n
      <4>1. i \in 0 .. n - 1
        BY <3>2
      <4>2. f[i] = IF i = 0 THEN base ELSE F[i][f[i - 1]]
        BY <2>1, <4>1
      <4>3. g[i] = f[i] /\ (i # 0 => g[i - 1] = f[i - 1])
        BY <4>1
      <4> QED BY <4>2, <4>3
    <3> QED BY <3>1, <3>2
  <2> HIDE DEF Fits, g
  <2> QED BY <2>3, <2>4
<1> HIDE DEF T
<1>3. 0 .. N \subseteq T
  BY <1>1, <1>2, Induction
<1>4. N \in T
  BY <1>3
<1> QED BY <1>4 DEF T

-----------------------------------------------------------------------------
(* Reports *)

IsReport(x) == x.kind \in {"post", "put"}
Samples == {ReportSamples(kind, t, report) :
              kind \in {"post", "put"}, t \in Tasks, report \in Reports}
FeedbackRows == [key : Keys, task : Tasks, version : Nat \ {0}, completion : Int]
AcceptedRows ==
    [task : Tasks, seen : Nat, anomaly : BOOLEAN, completion : Int, samples : Samples]

\* What a transaction is and has read, whatever rows it has loaded since.
TxOK(x) ==
    /\ {"at", "kind", "task"} \subseteq DOMAIN x
    /\ x.at \in {"begun", "open"} /\ x.kind \in {"practice", "exam", "post", "put"}
    /\ IsReport(x) =>
         /\ {"key", "report", "seen"} \subseteq DOMAIN x
         /\ x.task \in Tasks /\ x.key \in Keys /\ x.report \in Reports /\ x.seen \in Nat
         /\ x.kind = "post" => x.seen = 0
    /\ IsReport(x) /\ x.at = "open" => "anomaly" \in DOMAIN x /\ x.anomaly \in BOOLEAN

PracticeTypeOK ==
    /\ tx = [r \in Requests |-> tx[r]]
    /\ \A r \in Requests : tx[r] # NoTx => TxOK(tx[r])
    /\ feedback \in Seq(FeedbackRows) /\ accepted \in Seq(AcceptedRows)
    /\ status \in [Tasks -> {"PENDING", "IN_PROGRESS", "COMPLETED"}]
    /\ IsFiniteSet(jobs)

\* The lock of the task: what an open report has seen of the feedback is what there is.
Reporting(r) == tx[r].at = "open" /\ IsReport(tx[r])
TasksLocked ==
    /\ \A r \in Requests : Reporting(r) => tx[r].seen = VersionOf(tx[r].task)
    /\ \A r, o \in Requests : Reporting(r) /\ Reporting(o) /\ tx[r].task = tx[o].task => r = o

OneFeedback == \A i, k \in DOMAIN feedback : feedback[i].task = feedback[k].task => i = k

\* A key was used for one version of the feedback.
JobsKeyed ==
    \A j \in jobs : \E t \in Tasks :
        \/ j = <<"post", t>> /\ VersionOf(t) > 0
        \/ \E v \in 1 .. VersionOf(t) : j = <<"put", t, v>>

PracticeInv == PracticeTypeOK /\ TasksLocked /\ OneFeedback /\ JobsKeyed /\ ReportsNotLost
-----------------------------------------------------------------------------
\* A task has one feedback at most, and its version is positive once it is
\* there (uq_feedback_task).
LEMMA VersionFacts ==
    ASSUME PracticeInv, NEW t \in Tasks
    PROVE  /\ VersionOf(t) \in Nat
           /\ FeedbackOf(t) = {} => VersionOf(t) = 0
           /\ FeedbackOf(t) # {} => /\ FeedbackOf(t) = {FeedbackRow(t)}
                                    /\ FeedbackRow(t) \in DOMAIN feedback
                                    /\ feedback[FeedbackRow(t)].task = t
                                    /\ VersionOf(t) > 0
<1>1. feedback \in Seq(FeedbackRows) /\ OneFeedback
  BY DEF PracticeInv, PracticeTypeOK
<1>2. CASE FeedbackOf(t) = {}
  BY <1>2 DEF VersionOf
<1>3. CASE FeedbackOf(t) # {}
  <2>1. FeedbackRow(t) \in FeedbackOf(t)
    BY <1>3 DEF FeedbackRow
  <2>2. FeedbackRow(t) \in DOMAIN feedback /\ feedback[FeedbackRow(t)].task = t
    BY <2>1 DEF FeedbackOf
  <2>3. feedback[FeedbackRow(t)] \in FeedbackRows
    BY <1>1, <2>2
  <2>4. VersionOf(t) \in Nat /\ VersionOf(t) > 0
    BY <1>3, <2>3 DEF VersionOf, FeedbackRows
  <2>5. FeedbackOf(t) = {FeedbackRow(t)}
    BY <1>1, <2>1 DEF FeedbackOf, OneFeedback
  <2> QED BY <1>3, <2>2, <2>4, <2>5
<1> QED BY <1>2, <1>3

\* Tasks without reports satisfy the invariant.
LEMMA PracticeInitInv == PracticeInit => PracticeInv
<1> SUFFICES ASSUME PracticeInit PROVE PracticeInv
  OBVIOUS
<1>1. \A t \in Tasks : FeedbackOf(t) = {} /\ VersionOf(t) = 0 /\ Accepted(t) = {} /\ JobsOf(t) = {}
  BY DEF PracticeInit, FeedbackOf, VersionOf, Accepted, JobsOf
<1>2. IsFiniteSet({}) /\ Cardinality({}) = 0
  BY FS_EmptySet
<1>3. ReportsNotLost
  <2> SUFFICES ASSUME NEW t \in Tasks
               PROVE  /\ VersionOf(t) = Cardinality(Accepted(t))
                      /\ Accepted(t) = {}
                      /\ Cardinality(JobsOf(t)) =
                           Cardinality({i \in Accepted(t) : accepted[i].anomaly})
    BY DEF ReportsNotLost
  <2>1. {i \in Accepted(t) : accepted[i].anomaly} = {}
    BY <1>1
  <2> QED BY <1>1, <1>2, <2>1
<1>4. PracticeTypeOK
  <2>1. tx = [r \in Requests |-> tx[r]] /\ \A r \in Requests : tx[r] = NoTx
    BY DEF PracticeInit
  <2>2. feedback \in Seq(FeedbackRows) /\ accepted \in Seq(AcceptedRows)
    BY DEF PracticeInit
  <2>3. status \in [Tasks -> {"PENDING", "IN_PROGRESS", "COMPLETED"}]
    BY DEF PracticeInit
  <2>4. IsFiniteSet(jobs)
    BY <1>2 DEF PracticeInit
  <2> QED BY <2>1, <2>2, <2>3, <2>4 DEF PracticeTypeOK
<1>5. TasksLocked
  BY DEF PracticeInit, TasksLocked, Reporting, NoTx
<1>6. OneFeedback /\ JobsKeyed
  BY DEF PracticeInit, OneFeedback, JobsKeyed
<1> QED BY <1>3, <1>4, <1>5, <1>6 DEF PracticeInv

\* What changes no feedback, status, job or accepted report loses no report.
LEMMA SameReports ==
    ASSUME ReportsNotLost, UNCHANGED <<status, feedback, jobs, accepted>>
    PROVE  ReportsNotLost'
<1> SUFFICES ASSUME NEW t \in Tasks
             PROVE  /\ VersionOf(t)' = Cardinality(Accepted(t)')
                    /\ \A i \in Accepted(t)' :
                         accepted'[i].seen = Cardinality({k \in Accepted(t)' : k < i})
                    /\ \A i \in Accepted(t)' : (\A k \in Accepted(t)' : k <= i) =>
                         (status'[t] = "COMPLETED" <=> accepted'[i].completion >= 100)
                    /\ Cardinality(JobsOf(t)') =
                         Cardinality({i \in Accepted(t)' : accepted'[i].anomaly})
  BY DEF ReportsNotLost
<1>1. VersionOf(t)' = VersionOf(t) /\ Accepted(t)' = Accepted(t) /\ JobsOf(t)' = JobsOf(t)
  BY DEF VersionOf, FeedbackOf, FeedbackRow, Accepted, JobsOf
<1>2. /\ VersionOf(t) = Cardinality(Accepted(t))
      /\ Cardinality(JobsOf(t)) = Cardinality({i \in Accepted(t) : accepted[i].anomaly})
  BY DEF ReportsNotLost
<1>3. {i \in Accepted(t)' : accepted'[i].anomaly} = {i \in Accepted(t) : accepted[i].anomaly}
  BY <1>1
<1>4. ASSUME NEW i \in Accepted(t)
      PROVE  accepted'[i].seen = Cardinality({k \in Accepted(t)' : k < i})
  <2>1. {k \in Accepted(t)' : k < i} = {k \in Accepted(t) : k < i}
    BY <1>1
  <2>2. accepted[i].seen = Cardinality({k \in Accepted(t) : k < i})
    BY DEF ReportsNotLost
  <2> QED BY <2>1, <2>2
<1>5. \A i \in Accepted(t) : (\A k \in Accepted(t) : k <= i) =>
         (status[t] = "COMPLETED" <=> accepted[i].completion >= 100)
  BY DEF ReportsNotLost
<1> QED BY <1>1, <1>2, <1>3, <1>4, <1>5

\* A transaction that only moves keeps the invariant, if what it has seen of
\* the feedback is what there is and no other report holds the task.
LEMMA TxMoves ==
    ASSUME PracticeInv, NEW r \in Requests, NEW y, tx' = [tx EXCEPT ![r] = y],
           UNCHANGED <<status, feedback, jobs, accepted>>,
           y # NoTx =>
              /\ TxOK(y)
              /\ (y.at = "open" /\ IsReport(y)) =>
                   /\ y.seen = VersionOf(y.task)
                   /\ \A o \in Requests \ {r} : Reporting(o) => tx[o].task # y.task
    PROVE  PracticeInv'
<1>1. \A o \in Requests : tx'[o] = IF o = r THEN y ELSE tx[o]
  BY DEF PracticeInv, PracticeTypeOK
<1>2. \A t \in Tasks : VersionOf(t)' = VersionOf(t) /\ Accepted(t)' = Accepted(t)
                       /\ JobsOf(t)' = JobsOf(t)
  BY DEF VersionOf, FeedbackOf, FeedbackRow, Accepted, JobsOf
<1>3. PracticeTypeOK'
  <2>1. tx' = [o \in Requests |-> tx'[o]]
    BY DEF PracticeInv, PracticeTypeOK
  <2>2. \A o \in Requests : tx'[o] # NoTx => TxOK(tx'[o])
    BY <1>1 DEF PracticeInv, PracticeTypeOK
  <2>3. (\A o \in Requests : tx[o] # NoTx => TxOK(tx[o]))'
    BY <2>2 DEF TxOK, IsReport
  <2> QED BY <2>1, <2>3 DEF PracticeInv, PracticeTypeOK
<1>4. TasksLocked'
  <2>1. NoTx.at = "idle"
    BY DEF NoTx
  <2>2. \A o \in Requests : Reporting(o)' =>
           IF o = r THEN y # NoTx /\ y.at = "open" /\ IsReport(y) ELSE Reporting(o)
    BY <1>1, <2>1 DEF Reporting, IsReport
  <2>3. \A o \in Requests : Reporting(o)' => tx'[o].task \in Tasks
    BY <1>1, <1>3, <2>1 DEF Reporting, IsReport, PracticeTypeOK, TxOK
  <2>4. \A o \in Requests : Reporting(o)' => tx'[o].seen = VersionOf(tx'[o].task)
    BY <1>1, <2>2 DEF PracticeInv, TasksLocked
  <2>5. \A o \in Requests : Reporting(o)' => tx'[o].seen = VersionOf(tx[o].task)'
    BY <1>2, <2>3, <2>4 DEF VersionOf, FeedbackOf, FeedbackRow
  <2>6. \A o, q \in Requests : Reporting(o)' /\ Reporting(q)' /\ tx'[o].task = tx'[q].task => o = q
    BY <1>1, <2>2 DEF PracticeInv, TasksLocked
  <2> QED BY <2>5, <2>6 DEF TasksLocked
<1>5. OneFeedback' /\ ReportsNotLost'
  <2>1. OneFeedback'
    BY DEF PracticeInv, OneFeedback
  <2>2. ReportsNotLost'
    BY SameReports DEF PracticeInv
  <2> QED BY <2>1, <2>2
<1>6. JobsKeyed'
  BY <1>2 DEF PracticeInv, JobsKeyed
<1> QED BY <1>3, <1>4, <1>5, <1>6 DEF PracticeInv

\* Loading and inserting profile rows keeps all the rest of what a transaction
\* is.
LEMMA RowsMove ==
    ASSUME PracticeInv, NEW r \in Requests, tx[r] # NoTx, NEW y, tx' = [tx EXCEPT ![r] = y],
           UNCHANGED <<status, feedback, jobs, accepted>>,
           DOMAIN y = DOMAIN tx[r],
           \A f \in {"at", "kind", "task", "key", "report", "seen", "anomaly"} :
              f \in DOMAIN tx[r] => y[f] = tx[r][f]
    PROVE  PracticeInv'
<1>1. TxOK(tx[r])
  BY DEF PracticeInv, PracticeTypeOK
<1>2. /\ y.at = tx[r].at /\ y.kind = tx[r].kind /\ y.task = tx[r].task
      /\ IsReport(y) = IsReport(tx[r])
  BY <1>1 DEF TxOK, IsReport
<1>3. IsReport(y) => y.key = tx[r].key /\ y.report = tx[r].report /\ y.seen = tx[r].seen
  BY <1>1, <1>2 DEF TxOK, IsReport
<1>4. IsReport(y) /\ y.at = "open" => y.anomaly = tx[r].anomaly
  BY <1>1, <1>2 DEF TxOK, IsReport
<1>5. TxOK(y)
  BY <1>1, <1>2, <1>3, <1>4 DEF TxOK
<1>6. y.at = "open" /\ IsReport(y) =>
        /\ y.seen = VersionOf(y.task)
        /\ \A o \in Requests \ {r} : Reporting(o) => tx[o].task # y.task
  BY <1>1, <1>2, <1>3 DEF PracticeInv, TasksLocked, Reporting
<1> QED BY <1>5, <1>6, TxMoves

\* A transaction that has begun is one.
LEMMA OpenIsThere ==
    ASSUME NEW r \in Requests, tx[r].at \in {"begun", "open"}
    PROVE  tx[r] # NoTx
BY DEF NoTx

\* Loading a row of the profile keeps the invariant.
LEMMA LoadRowInv ==
    ASSUME PracticeInv, NEW r \in Requests, LoadRow(r)
    PROVE  PracticeInv'
<1>1. tx[r] # NoTx
  BY OpenIsThere DEF LoadRow, Open
<1> DEFINE x == Head(tx[r].todo).row
           held == x \in DOMAIN tx[r].rows
           row == IF held THEN tx[r].rows[x]
                  ELSE IF Committed(x) = NoRow THEN New(x) ELSE Committed(x)
           y == [tx[r] EXCEPT !.rows = Over([z \in {x} |-> Observe(r, x, row)], @),
                              !.fresh = IF ~held /\ Committed(x) = NoRow THEN {x} ELSE {},
                              !.todo = Tail(@)]
<1>2. tx' = [tx EXCEPT ![r] = y]
  BY DEF LoadRow
<1>3. /\ DOMAIN y = DOMAIN tx[r]
      /\ \A f \in {"at", "kind", "task", "key", "report", "seen", "anomaly"} :
           f \in DOMAIN tx[r] => y[f] = tx[r][f]
  OBVIOUS
<1>4. tx' = [tx EXCEPT ![r] = y] /\ UNCHANGED <<status, feedback, jobs, accepted>>
  BY <1>2 DEF LoadRow, stored
<1> HIDE DEF y
<1> QED BY <1>1, <1>3, <1>4, RowsMove

\* Inserting a row of the profile keeps it, whether the row is there by now or
\* not.
LEMMA InsertRowInv ==
    ASSUME PracticeInv, NEW r \in Requests, InsertRow(r)
    PROVE  PracticeInv'
<1>1. tx[r] # NoTx /\ UNCHANGED <<status, feedback, jobs, accepted>>
  BY OpenIsThere DEF InsertRow, Open, stored
<1> DEFINE Flushed(x) == IF Committed(x) # NoRow THEN NoTx
                      ELSE [tx[r] EXCEPT !.fresh = {}, !.inserted = @ \cup {x}]
<1>2. \A x \in tx[r].fresh : tx' = [tx EXCEPT ![r] = Flushed(x)]
  BY DEF InsertRow
<1>3. \A x : Flushed(x) # NoTx =>
        /\ DOMAIN Flushed(x) = DOMAIN tx[r]
        /\ \A f \in {"at", "kind", "task", "key", "report", "seen", "anomaly"} :
             f \in DOMAIN tx[r] => Flushed(x)[f] = tx[r][f]
  OBVIOUS
<1> HIDE DEF Flushed
<1>4. PICK x \in tx[r].fresh : tx' = [tx EXCEPT ![r] = Flushed(x)]
  BY <1>2 DEF InsertRow
<1>5. CASE Flushed(x) = NoTx
  BY <1>1, <1>4, <1>5, TxMoves
<1>6. CASE Flushed(x) # NoTx
  BY <1>1, <1>3, <1>4, <1>6, RowsMove
<1> QED BY <1>5, <1>6

\* A transaction rolled back leaves nothing.
LEMMA AbortInv ==
    ASSUME PracticeInv, NEW r \in Requests, Abort(r)
    PROVE  PracticeInv'
<1>1. tx' = [tx EXCEPT ![r] = NoTx] /\ UNCHANGED <<status, feedback, jobs, accepted>>
  BY DEF Abort, stored
<1> QED BY <1>1, TxMoves

\* A set of answers that is begun keeps the invariant.
LEMMA BeginAnswersInv ==
    ASSUME PracticeInv, NEW r \in Requests, NEW kind \in {"practice", "exam"},
           NEW k, NEW questions, NEW ratio, NEW t, BeginAnswers(r, kind, k, questions, ratio, t)
    PROVE  PracticeInv'
<1> DEFINE y == [at |-> "begun", kind |-> kind, key |-> k, task |-> t,
                 questions |-> questions, ratio |-> ratio]
<1>1. tx' = [tx EXCEPT ![r] = y] /\ UNCHANGED <<status, feedback, jobs, accepted>>
  BY DEF BeginAnswers, stored
<1>2. TxOK(y) /\ ~IsReport(y)
  BY DEF TxOK, IsReport
<1> HIDE DEF y
<1> QED BY <1>1, <1>2, TxMoves

\* Its answers inserted, or found recorded already under its key, keep it.
LEMMA InsertAnswersInv ==
    ASSUME PracticeInv, NEW r \in Requests, InsertAnswers(r)
    PROVE  PracticeInv'
<1> DEFINE y == [at |-> "open", kind |-> tx[r].kind, key |-> tx[r].key, task |-> tx[r].task,
                 questions |-> tx[r].questions, ratio |-> tx[r].ratio,
                 todo |-> Observations(tx[r].questions, tx[r].ratio),
                 rows |-> <<>>, fresh |-> {}, inserted |-> {}]
<1>1. UNCHANGED <<status, feedback, jobs, accepted>>
  BY DEF InsertAnswers, stored
<1>2. tx' = [tx EXCEPT ![r] = NoTx] \/ tx' = [tx EXCEPT ![r] = y]
  BY DEF InsertAnswers
<1>3. TxOK(y) /\ ~IsReport(y)
  BY DEF TxOK, IsReport, InsertAnswers
<1> HIDE DEF y
<1> QED BY <1>1, <1>2, <1>3, TxMoves

\* Its commit touches no report.
LEMMA CommitAnswersInv ==
    ASSUME PracticeInv, NEW r \in Requests, CommitAnswers(r)
    PROVE  PracticeInv'
<1>1. tx' = [tx EXCEPT ![r] = NoTx] /\ UNCHANGED <<status, feedback, jobs, accepted>>
  BY DEF CommitAnswers
<1> QED BY <1>1, TxMoves

\* A report that begins has not locked the task yet.
LEMMA BeginReportInv ==
    ASSUME PracticeInv, NEW r \in Requests, NEW kind \in {"post", "put"}, NEW t \in Tasks,
           NEW k \in Keys, NEW report \in Reports, BeginReport(r, kind, t, k, report)
    PROVE  PracticeInv'
<1> DEFINE y == [at |-> "begun", kind |-> kind, key |-> k, task |-> t, report |-> report,
                 seen |-> IF kind = "post" THEN 0 ELSE VersionOf(t)]
<1>1. tx' = [tx EXCEPT ![r] = y] /\ UNCHANGED <<status, feedback, jobs, accepted>>
  BY DEF BeginReport, stored
<1>2. VersionOf(t) \in Nat
  BY VersionFacts
<1>3. TxOK(y) /\ y.at = "begun"
  BY <1>2 DEF TxOK, IsReport
<1> HIDE DEF y
<1> QED BY <1>1, <1>3, TxMoves

\* The lock of the task: a report goes on only when no other holds the task,
\* and only if the version it has seen is the current one.
LEMMA LockTaskInv ==
    ASSUME PracticeInv, NEW r \in Requests, LockTask(r)
    PROVE  PracticeInv'
<1> DEFINE t == tx[r].task
           y == [at |-> "open", kind |-> tx[r].kind, key |-> tx[r].key, task |-> t,
                 report |-> tx[r].report, seen |-> tx[r].seen,
                 anomaly |-> IF tx[r].kind = "post" THEN Detect(t, tx[r].report)
                             ELSE LearningAnomaly(tx[r].report),
                 todo |-> ReportSamples(tx[r].kind, t, tx[r].report),
                 rows |-> <<>>, fresh |-> {}, inserted |-> {}]
<1>1. UNCHANGED <<status, feedback, jobs, accepted>>
  BY DEF LockTask, stored
<1>2. CASE ~Acceptable(r)
  <2>1. tx' = [tx EXCEPT ![r] = NoTx]
    BY <1>2 DEF LockTask
  <2> QED BY <1>1, <2>1, TxMoves
<1>3. CASE Acceptable(r)
  <2>1. tx' = [tx EXCEPT ![r] = y]
    BY <1>3 DEF LockTask
  <2>2. TxOK(tx[r]) /\ IsReport(tx[r])
    BY OpenIsThere DEF PracticeInv, PracticeTypeOK, LockTask, IsReport
  <2>3. /\ LearningAnomaly(tx[r].report) \in BOOLEAN
        /\ Detect(t, tx[r].report) \in BOOLEAN
    <3>1. tx[r].report \in Reports
      BY <2>2 DEF TxOK
    <3> QED BY <3>1, PracticeAssumption DEF LearningAnomaly, Detect
  <2> HIDE DEF t
  <2>4. TxOK(y)
    <3> HIDE DEF y
    <3>1. y.anomaly \in BOOLEAN
      BY <2>3 DEF y
    <3> QED BY <2>2, <3>1 DEF TxOK, IsReport, y, t
  <2>5. y.seen = VersionOf(y.task)
    BY <1>3 DEF Acceptable, t
  <2>6. \A o \in Requests \ {r} : Reporting(o) => tx[o].task # y.task
    BY DEF LockTask, Others, Open, Reporting, t
  <2> HIDE DEF y
  <2> QED BY <1>1, <2>1, <2>4, <2>5, <2>6, TxMoves
<1> QED BY <1>2, <1>3

-----------------------------------------------------------------------------
\* A report about to commit holds the task and has seen its current version.
LEMMA ReportFacts ==
    ASSUME PracticeInv, NEW r \in Requests, CommitReport(r)
    PROVE  /\ Reporting(r) /\ TxOK(tx[r]) /\ tx[r].task \in Tasks
           /\ tx[r].seen = VersionOf(tx[r].task) /\ VersionOf(tx[r].task) \in Nat
           /\ tx[r].report.completion \in Int
<1>1. Reporting(r) /\ tx[r] # NoTx
  BY OpenIsThere DEF CommitReport, Ready, Open, Reporting, IsReport
<1>2. TxOK(tx[r]) /\ tx[r].seen = VersionOf(tx[r].task)
  BY <1>1 DEF PracticeInv, PracticeTypeOK, TasksLocked
<1>3. tx[r].task \in Tasks /\ tx[r].report \in Reports
  BY <1>1, <1>2 DEF TxOK, Reporting
<1>4. tx[r].report.completion \in Int
  <2>1. tx[r].report \in [sample : Nat \ {0}, completion : 0 .. 100, slow : BOOLEAN,
                          poor : BOOLEAN, units : BOOLEAN]
    BY <1>3, PracticeAssumption
  <2>2. tx[r].report.completion \in 0 .. 100
    BY <2>1
  <2> QED BY <2>2
<1> QED BY <1>1, <1>2, <1>3, <1>4, VersionFacts

\* The commit of a report raises the version of its task by one, and no
\* other's, whether the feedback is inserted or updated.
LEMMA FeedbackCommitted ==
    ASSUME PracticeInv, NEW r \in Requests, CommitReport(r), NEW t \in Tasks, t = tx[r].task
    PROVE  /\ feedback' \in Seq(FeedbackRows) /\ OneFeedback'
           /\ VersionOf(t)' = VersionOf(t) + 1
           /\ \A u \in Tasks \ {t} : VersionOf(u)' = VersionOf(u)
<1> DEFINE n == VersionOf(t) + 1
           new == [key |-> tx[r].key, task |-> t, version |-> n,
                   completion |-> tx[r].report.completion]
<1>1. /\ TxOK(tx[r]) /\ IsReport(tx[r]) /\ t \in Tasks /\ VersionOf(t) \in Nat
      /\ tx[r].report.completion \in Int
  BY ReportFacts DEF Reporting
<1>2. feedback \in Seq(FeedbackRows) /\ OneFeedback
  BY DEF PracticeInv, PracticeTypeOK
<1>3. n \in Nat \ {0} /\ tx[r].key \in Keys
  BY <1>1 DEF TxOK
<1>4. feedback' = IF FeedbackOf(t) = {} THEN Append(feedback, new)
                  ELSE [feedback EXCEPT ![FeedbackRow(t)].version = n,
                          ![FeedbackRow(t)].completion = tx[r].report.completion]
  BY DEF CommitReport
<1>5. CASE FeedbackOf(t) = {}
  <2>1. new \in FeedbackRows /\ new.task = t /\ new.version = n
    BY <1>1, <1>3 DEF FeedbackRows
  <2>2. feedback' = Append(feedback, new)
    BY <1>4, <1>5
  <2>3. n = 1
    BY <1>1, <1>5, VersionFacts
  <2> HIDE DEF new, n
  <2>4. /\ feedback' \in Seq(FeedbackRows) /\ Len(feedback') = Len(feedback) + 1
        /\ DOMAIN feedback' = DOMAIN feedback \cup {Len(feedback) + 1}
        /\ Len(feedback) + 1 \notin DOMAIN feedback
        /\ feedback'[Len(feedback) + 1] = new
        /\ \A i \in DOMAIN feedback : feedback'[i] = feedback[i]
    BY <1>2, <2>1, <2>2
  <2>5. \A i \in DOMAIN feedback : feedback[i].task # t
    BY <1>5 DEF FeedbackOf
  <2>6. OneFeedback'
    BY <1>2, <2>1, <2>4, <2>5 DEF OneFeedback
  <2>7. FeedbackOf(t)' = {Len(feedback) + 1}
    BY <2>1, <2>4, <2>5 DEF FeedbackOf
  <2>8. VersionOf(t)' = n
    <3>1. FeedbackRow(t)' = Len(feedback) + 1
      BY <2>7 DEF FeedbackRow
    <3> QED BY <2>1, <2>4, <2>7, <3>1 DEF VersionOf
  <2>9. \A u \in Tasks \ {t} : VersionOf(u)' = VersionOf(u)
    <3> SUFFICES ASSUME NEW u \in Tasks \ {t} PROVE VersionOf(u)' = VersionOf(u)
      OBVIOUS
    <3>1. FeedbackOf(u)' = FeedbackOf(u)
      BY <2>1, <2>4 DEF FeedbackOf
    <3>2. FeedbackRow(u)' = FeedbackRow(u)
      BY <3>1 DEF FeedbackRow
    <3>3. FeedbackOf(u) # {} => FeedbackRow(u) \in DOMAIN feedback
      BY VersionFacts
    <3> QED BY <2>4, <3>1, <3>2, <3>3 DEF VersionOf
  <2> QED BY <2>4, <2>6, <2>8, <2>9 DEF n
<1>6. CASE FeedbackOf(t) # {}
  <2>0. PICK i \in DOMAIN feedback : i = FeedbackRow(t)
    BY <1>6, VersionFacts
  <2> DEFINE row == [feedback[i] EXCEPT !.version = n, !.completion = tx[r].report.completion]
  <2>1. /\ FeedbackOf(t) = {i} /\ i \in DOMAIN feedback /\ feedback[i].task = t
        /\ feedback[i] \in FeedbackRows
    BY <1>1, <1>2, <1>6, <2>0, VersionFacts
  <2>2. feedback' = [feedback EXCEPT ![i] = row]
    BY <1>4, <1>6, <2>0
  <2>3. row \in FeedbackRows /\ row.task = t /\ row.version = n
    BY <1>1, <1>3, <2>1 DEF FeedbackRows
  <2> HIDE DEF n, row
  <2>4. /\ feedback' \in Seq(FeedbackRows) /\ DOMAIN feedback' = DOMAIN feedback
        /\ feedback'[i] = row
        /\ \A k \in DOMAIN feedback \ {i} : feedback'[k] = feedback[k]
    BY <1>2, <2>1, <2>2, <2>3
  <2>5. \A k \in DOMAIN feedback : feedback'[k].task = feedback[k].task
    BY <2>1, <2>3, <2>4
  <2>6. OneFeedback'
    BY <1>2, <2>4, <2>5 DEF OneFeedback
  <2>7. \A u : FeedbackOf(u)' = FeedbackOf(u)
    BY <2>4, <2>5 DEF FeedbackOf
  <2>8. \A u : FeedbackRow(u)' = FeedbackRow(u)
    BY <2>7 DEF FeedbackRow
  <2>9. VersionOf(t)' = n
    BY <2>1, <2>3, <2>4, <2>7, <2>8, <2>0 DEF VersionOf
  <2>10. \A u \in Tasks \ {t} : VersionOf(u)' = VersionOf(u)
    <3> SUFFICES ASSUME NEW u \in Tasks \ {t} PROVE VersionOf(u)' = VersionOf(u)
      OBVIOUS
    <3>1. FeedbackOf(u) # {} => FeedbackRow(u) \in DOMAIN feedback /\ FeedbackRow(u) # i
      BY <2>0, <2>1, VersionFacts
    <3> QED BY <2>4, <2>7, <2>8, <3>1 DEF VersionOf
  <2> QED BY <2>4, <2>6, <2>9, <2>10 DEF n
<1> QED BY <1>5, <1>6

\* The accepted reports of its task are the ones there were and this one,
\* after them.
LEMMA AcceptedCommitted ==
    ASSUME PracticeInv, NEW r \in Requests, CommitReport(r), NEW t \in Tasks, t = tx[r].task
    PROVE  LET last == Len(accepted) + 1
           IN  /\ accepted' \in Seq(AcceptedRows) /\ last \in Nat
               /\ \A i \in DOMAIN accepted : i \in Nat /\ i < last /\ accepted'[i] = accepted[i]
               /\ accepted'[last].seen = tx[r].seen /\ accepted'[last].anomaly = tx[r].anomaly
               /\ accepted'[last].completion = tx[r].report.completion
               /\ Accepted(t)' = Accepted(t) \cup {last}
               /\ \A u \in Tasks \ {t} : Accepted(u)' = Accepted(u)
<1> DEFINE last == Len(accepted) + 1
           new == [task |-> t, seen |-> tx[r].seen, anomaly |-> tx[r].anomaly,
                   completion |-> tx[r].report.completion,
                   samples |-> ReportSamples(tx[r].kind, t, tx[r].report)]
<1>1. accepted \in Seq(AcceptedRows)
  BY DEF PracticeInv, PracticeTypeOK
<1>2. new \in AcceptedRows
  <2>1. /\ tx[r].task \in Tasks /\ tx[r].seen \in Nat /\ tx[r].anomaly \in BOOLEAN
        /\ tx[r].report \in Reports /\ tx[r].kind \in {"post", "put"}
        /\ tx[r].report.completion \in Int
    BY ReportFacts DEF Reporting, IsReport, TxOK
  <2>2. ReportSamples(tx[r].kind, t, tx[r].report) \in Samples
    BY <2>1 DEF Samples
  <2> QED BY <2>1, <2>2 DEF AcceptedRows
<1>3. accepted' = Append(accepted, new)
  BY DEF CommitReport
<1>4. /\ new.task = t /\ new.seen = tx[r].seen /\ new.anomaly = tx[r].anomaly
      /\ new.completion = tx[r].report.completion
  OBVIOUS
<1> HIDE DEF new
<1>5. /\ accepted' \in Seq(AcceptedRows) /\ last \in Nat
      /\ DOMAIN accepted' = DOMAIN accepted \cup {last}
      /\ accepted'[last] = new
      /\ \A i \in DOMAIN accepted : i \in Nat /\ i < last /\ accepted'[i] = accepted[i]
  BY <1>1, <1>2, <1>3
<1> HIDE DEF last
<1>6. Accepted(t)' = Accepted(t) \cup {last}
  BY <1>4, <1>5 DEF Accepted
<1>7. \A u \in Tasks \ {t} : Accepted(u)' = Accepted(u)
  BY <1>4, <1>5 DEF Accepted
<1> QED BY <1>4, <1>5, <1>6, <1>7 DEF last

\* The diagnosis job that an anomaly asks for has a key of its own, since it
\* names the new version, so that it is never taken for one there was.
LEMMA JobsCommitted ==
    ASSUME PracticeInv, NEW r \in Requests, CommitReport(r), NEW t \in Tasks, t = tx[r].task
    PROVE  /\ IsFiniteSet(jobs') /\ JobsKeyed'
           /\ Cardinality(JobsOf(t)') =
                Cardinality(JobsOf(t)) + (IF tx[r].anomaly THEN 1 ELSE 0)
           /\ \A u \in Tasks \ {t} : JobsOf(u)' = JobsOf(u)
<1> DEFINE key == JobKey(tx[r].kind, t, VersionOf(t) + 1)
<1>1. /\ t \in Tasks /\ VersionOf(t) \in Nat /\ tx[r].seen = VersionOf(t)
      /\ tx[r].kind \in {"post", "put"} /\ (tx[r].kind = "post" => tx[r].seen = 0)
  BY ReportFacts DEF Reporting, IsReport, TxOK
<1>2. jobs' = IF tx[r].anomaly THEN jobs \cup {key} ELSE jobs
  BY DEF CommitReport
<1>3. IsFiniteSet(jobs) /\ JobsKeyed
  BY DEF PracticeInv, PracticeTypeOK
<1>4. \/ key = <<"post", t>> /\ VersionOf(t) = 0
      \/ key = <<"put", t, VersionOf(t) + 1>>
  BY <1>1 DEF JobKey
<1>5. key[2] = t
  BY <1>4
<1>6. key \notin jobs
  <2> SUFFICES ASSUME key \in jobs PROVE FALSE
    OBVIOUS
  <2>1. PICK u \in Tasks : \/ key = <<"post", u>> /\ VersionOf(u) > 0
                           \/ \E v \in 1 .. VersionOf(u) : key = <<"put", u, v>>
    BY <1>3 DEF JobsKeyed
  <2>2. u = t
    BY <1>5, <2>1
  <2>3. CASE key = <<"post", t>> /\ VersionOf(t) = 0
    BY <2>1, <2>2, <2>3
  <2>4. CASE key = <<"put", t, VersionOf(t) + 1>>
    BY <1>1, <2>1, <2>2, <2>4
  <2> QED BY <1>4, <2>3, <2>4
<1>7. VersionOf(t)' = VersionOf(t) + 1 /\ \A u \in Tasks \ {t} : VersionOf(u)' = VersionOf(u)
  BY FeedbackCommitted
<1> HIDE DEF key
<1>8. IsFiniteSet(jobs')
  BY <1>2, <1>3, FS_AddElement
<1>9. JobsKeyed'
  <2> SUFFICES ASSUME NEW j \in jobs'
               PROVE  \E u \in Tasks : \/ j = <<"post", u>> /\ VersionOf(u)' > 0
                                       \/ \E v \in 1 .. VersionOf(u)' : j = <<"put", u, v>>
    BY DEF JobsKeyed
  <2>1. CASE j \in jobs
    <3>1. PICK u \in Tasks : \/ j = <<"post", u>> /\ VersionOf(u) > 0
                             \/ \E v \in 1 .. VersionOf(u) : j = <<"put", u, v>>
      BY <1>3, <2>1 DEF JobsKeyed
    <3>2. VersionOf(u) \in Nat /\ VersionOf(u)' \in {VersionOf(u), VersionOf(u) + 1}
      BY <1>1, <1>7, VersionFacts
    <3> QED BY <3>1, <3>2
  <2>2. CASE j = key
    BY <1>1, <1>4, <1>7, <2>2
  <2> QED BY <1>2, <2>1, <2>2
<1>10. \A u \in Tasks \ {t} : JobsOf(u)' = JobsOf(u)
  BY <1>2, <1>5 DEF JobsOf
<1>11. Cardinality(JobsOf(t)') = Cardinality(JobsOf(t)) + (IF tx[r].anomaly THEN 1 ELSE 0)
  <2>1. JobsOf(t) \in SUBSET jobs
    BY DEF JobsOf
  <2>2. IsFiniteSet(JobsOf(t)) /\ Cardinality(JobsOf(t)) \in Nat
    BY <1>3, <2>1, FS_Subset, FS_CardinalityType
  <2>3. CASE tx[r].anomaly
    <3>1. JobsOf(t)' = JobsOf(t) \cup {key} /\ key \notin JobsOf(t)
      BY <1>2, <1>5, <1>6, <2>3 DEF JobsOf
    <3> QED BY <2>2, <2>3, <3>1, FS_AddElement
  <2>4. CASE ~tx[r].anomaly
    <3>1. JobsOf(t)' = JobsOf(t)
      BY <1>2, <2>4 DEF JobsOf
    <3> QED BY <2>2, <2>4, <3>1
  <2> QED BY <2>3, <2>4
<1> QED BY <1>8, <1>9, <1>10, <1>11

\* The commit of a report keeps the invariant.
LEMMA CommitReportInv ==
    ASSUME PracticeInv, NEW r \in Requests, CommitReport(r)
    PROVE  PracticeInv'
<1> DEFINE last == Len(accepted) + 1
<1>0. PICK t \in Tasks : t = tx[r].task
  BY ReportFacts
<1>1. /\ Reporting(r) /\ tx[r].seen = VersionOf(t) /\ VersionOf(t) \in Nat
      /\ tx[r].report.completion \in Int /\ tx[r].anomaly \in BOOLEAN
  BY <1>0, ReportFacts DEF TxOK, Reporting
<1>2. /\ feedback' \in Seq(FeedbackRows) /\ OneFeedback'
      /\ VersionOf(t)' = VersionOf(t) + 1
      /\ \A u \in Tasks \ {t} : VersionOf(u)' = VersionOf(u)
  BY <1>0, FeedbackCommitted
<1>3. /\ accepted' \in Seq(AcceptedRows) /\ last \in Nat
      /\ \A i \in DOMAIN accepted : i \in Nat /\ i < last /\ accepted'[i] = accepted[i]
      /\ accepted'[last].seen = tx[r].seen /\ accepted'[last].anomaly = tx[r].anomaly
      /\ accepted'[last].completion = tx[r].report.completion
      /\ Accepted(t)' = Accepted(t) \cup {last}
      /\ \A u \in Tasks \ {t} : Accepted(u)' = Accepted(u)
  BY <1>0, AcceptedCommitted
<1>4. /\ IsFiniteSet(jobs') /\ JobsKeyed'
      /\ Cardinality(JobsOf(t)') = Cardinality(JobsOf(t)) + (IF tx[r].anomaly THEN 1 ELSE 0)
      /\ \A u \in Tasks \ {t} : JobsOf(u)' = JobsOf(u)
  BY <1>0, JobsCommitted
<1>5. /\ tx' = [tx EXCEPT ![r] = NoTx]
      /\ status' = [status EXCEPT ![t] =
            IF tx[r].report.completion >= 100 THEN "COMPLETED" ELSE "IN_PROGRESS"]
  BY <1>0 DEF CommitReport
<1>6. \A o \in Requests : tx'[o] = IF o = r THEN NoTx ELSE tx[o]
  BY <1>5 DEF PracticeInv, PracticeTypeOK
<1>7. /\ status' \in [Tasks -> {"PENDING", "IN_PROGRESS", "COMPLETED"}]
      /\ \A u \in Tasks \ {t} : status'[u] = status[u]
      /\ status'[t] = "COMPLETED" <=> tx[r].report.completion >= 100
  BY <1>5 DEF PracticeInv, PracticeTypeOK
<1> HIDE DEF last
<1>8. PracticeTypeOK'
  <2>1. tx' = [o \in Requests |-> tx'[o]]
    BY <1>5 DEF PracticeInv, PracticeTypeOK
  <2>2. \A o \in Requests : tx'[o] # NoTx => TxOK(tx'[o])
    BY <1>6 DEF PracticeInv, PracticeTypeOK
  <2>3. (\A o \in Requests : tx[o] # NoTx => TxOK(tx[o]))'
    BY <2>2 DEF TxOK, IsReport
  <2> QED BY <1>2, <1>3, <1>4, <1>7, <2>1, <2>3 DEF PracticeTypeOK
<1>9. TasksLocked'
  <2>1. \A o \in Requests : Reporting(o)' => o # r /\ Reporting(o) /\ tx'[o] = tx[o]
    BY <1>6 DEF Reporting, IsReport, NoTx
  <2>2. \A o \in Requests \ {r} : Reporting(o) =>
           tx[o].task \in Tasks \ {t} /\ tx[o].seen = VersionOf(tx[o].task)
    <3> SUFFICES ASSUME NEW o \in Requests \ {r}, Reporting(o)
                 PROVE  tx[o].task \in Tasks \ {t} /\ tx[o].seen = VersionOf(tx[o].task)
      OBVIOUS
    <3>1. TxOK(tx[o])
      BY OpenIsThere DEF PracticeInv, PracticeTypeOK, Reporting
    <3> QED BY <1>0, <1>1, <3>1 DEF PracticeInv, TasksLocked, TxOK, Reporting
  <2>3. ASSUME NEW o \in Requests, Reporting(o)'
        PROVE  tx'[o].seen = VersionOf(tx[o].task)'
    <3>1. PICK u \in Tasks \ {t} : u = tx[o].task
      BY <2>1, <2>2, <2>3
    <3>2. u = tx'[o].task /\ tx'[o].seen = VersionOf(u)
      BY <2>1, <2>2, <2>3, <3>1
    <3>3. VersionOf(u)' = VersionOf(u)
      BY <1>2
    <3>4. VersionOf(tx[o].task)' = VersionOf(u)'
      BY <3>2 DEF VersionOf, FeedbackOf, FeedbackRow
    <3> QED BY <3>2, <3>3, <3>4
  <2>4. \A o, q \in Requests : Reporting(o)' /\ Reporting(q)' /\ tx'[o].task = tx'[q].task => o = q
    BY <2>1 DEF PracticeInv, TasksLocked
  <2> QED BY <2>3, <2>4 DEF TasksLocked
<1>10. ReportsNotLost'
  <2> SUFFICES ASSUME NEW u \in Tasks
               PROVE  /\ VersionOf(u)' = Cardinality(Accepted(u)')
                      /\ \A i \in Accepted(u)' :
                           accepted'[i].seen = Cardinality({k \in Accepted(u)' : k < i})
                      /\ \A i \in Accepted(u)' : (\A k \in Accepted(u)' : k <= i) =>
                           (status'[u] = "COMPLETED" <=> accepted'[i].completion >= 100)
                      /\ Cardinality(JobsOf(u)') =
                           Cardinality({i \in Accepted(u)' : accepted'[i].anomaly})
    BY DEF ReportsNotLost
  <2> DEFINE A == Accepted(u)
             Anomalies == {i \in A : accepted[i].anomaly}
  <2>1. /\ VersionOf(u) = Cardinality(A)
        /\ \A i \in A : accepted[i].seen = Cardinality({k \in A : k < i})
        /\ \A i \in A : (\A k \in A : k <= i) =>
             (status[u] = "COMPLETED" <=> accepted[i].completion >= 100)
        /\ Cardinality(JobsOf(u)) = Cardinality(Anomalies)
    BY DEF PracticeInv, ReportsNotLost
  <2>2. A \subseteq DOMAIN accepted /\ IsFiniteSet(A)
    <3>1. accepted \in Seq(AcceptedRows)
      BY DEF PracticeInv, PracticeTypeOK
    <3>2. DOMAIN accepted = 1 .. Len(accepted) /\ Len(accepted) \in Nat
      BY <3>1
    <3>3. IsFiniteSet(1 .. Len(accepted))
      BY <3>2, FS_Interval
    <3>4. A \in SUBSET (1 .. Len(accepted))
      BY <3>2 DEF Accepted
    <3> QED BY <3>2, <3>3, <3>4, FS_Subset
  <2>3. /\ \A i \in A : i \in Nat /\ i < last /\ accepted'[i] = accepted[i]
        /\ last \in Nat /\ last \notin A
    BY <1>3, <2>2
  <2>4. CASE u # t
    <3>1. /\ VersionOf(u)' = VersionOf(u) /\ Accepted(u)' = A /\ JobsOf(u)' = JobsOf(u)
          /\ status'[u] = status[u]
      BY <1>2, <1>3, <1>4, <1>7, <2>4
    <3> HIDE DEF A
    <3>2. {i \in A : accepted'[i].anomaly} = Anomalies
      BY <2>3
    <3>3. \A i \in A : accepted'[i].seen = Cardinality({k \in A : k < i})
      BY <2>1, <2>3
    <3>4. \A i \in A : (\A k \in A : k <= i) =>
             (status'[u] = "COMPLETED" <=> accepted'[i].completion >= 100)
      BY <2>1, <2>3, <3>1
    <3> HIDE DEF Anomalies
    <3> QED BY <2>1, <3>1, <3>2, <3>3, <3>4
  <2>5. CASE u = t
    <3>1. /\ VersionOf(u)' = VersionOf(u) + 1 /\ Accepted(u)' = A \cup {last}
          /\ Cardinality(JobsOf(u)') = Cardinality(JobsOf(u)) + (IF tx[r].anomaly THEN 1 ELSE 0)
          /\ status'[u] = "COMPLETED" <=> tx[r].report.completion >= 100
      BY <1>2, <1>3, <1>4, <1>7, <2>5
    <3> HIDE DEF A
    <3>2. Cardinality(A) \in Nat /\ Cardinality(A \cup {last}) = Cardinality(A) + 1
      BY <2>2, <2>3, FS_AddElement, FS_CardinalityType
    <3>3. ASSUME NEW i \in A \cup {last}
          PROVE  accepted'[i].seen = Cardinality({k \in A \cup {last} : k < i})
      <4>1. CASE i = last
        <5>2. \A k \in A : k \in A \cup {last} /\ k < last
          BY <2>3
        <5>3. ~(last < last)
          BY <2>3
        <5>1. {k \in A \cup {last} : k < i} = A
          BY <4>1, <5>2, <5>3
        <5> QED BY <1>1, <1>3, <2>1, <2>5, <4>1, <5>1
      <4>2. CASE i \in A
        <5>1. {k \in A \cup {last} : k < i} = {k \in A : k < i}
          BY <2>3, <4>2
        <5> QED BY <2>1, <2>3, <4>2, <5>1
      <4> QED BY <4>1, <4>2
    <3>4. ASSUME NEW i \in A \cup {last}, \A k \in A \cup {last} : k <= i
          PROVE  status'[u] = "COMPLETED" <=> accepted'[i].completion >= 100
      <4>1. i = last
        BY <2>3, <3>4
      <4> QED BY <1>3, <3>1, <4>1
    <3>5. Cardinality(Anomalies) \in Nat /\ IsFiniteSet(Anomalies)
      <4>1. Anomalies \in SUBSET A
        OBVIOUS
      <4> QED BY <2>2, <4>1, FS_Subset, FS_CardinalityType
    <3>6. Cardinality({i \in A \cup {last} : accepted'[i].anomaly}) =
            Cardinality(Anomalies) + (IF tx[r].anomaly THEN 1 ELSE 0)
      <4>1. CASE tx[r].anomaly
        <5>1. /\ {i \in A \cup {last} : accepted'[i].anomaly} = Anomalies \cup {last}
              /\ last \notin Anomalies
          BY <1>3, <2>3, <4>1
        <5> HIDE DEF Anomalies
        <5> QED BY <3>5, <4>1, <5>1, FS_AddElement
      <4>2. CASE ~tx[r].anomaly
        <5>1. {i \in A \cup {last} : accepted'[i].anomaly} = Anomalies
          BY <1>3, <2>3, <4>2
        <5>2. Cardinality(Anomalies) = Cardinality(Anomalies) + (IF tx[r].anomaly THEN 1 ELSE 0)
          <6> HIDE DEF Anomalies
          <6> QED BY <3>5, <4>2
        <5> QED BY <5>1, <5>2
      <4> QED BY <4>1, <4>2
    <3> HIDE DEF Anomalies
    <3>7. VersionOf(u)' = Cardinality(A \cup {last})
      BY <2>1, <3>1, <3>2
    <3>8. Cardinality(JobsOf(u)') = Cardinality({i \in A \cup {last} : accepted'[i].anomaly})
      BY <2>1, <3>1, <3>5, <3>6
    <3> QED BY <3>1, <3>3, <3>4, <3>7, <3>8
  <2> QED BY <2>4, <2>5
<1> QED BY <1>2, <1>4, <1>8, <1>9, <1>10 DEF PracticeInv

\* Every step of the practice and feedback code keeps the invariant.
LEMMA PracticeNextInv ==
    ASSUME PracticeInv, [PracticeNext]_practiceVars
    PROVE  PracticeInv'
<1>1. ASSUME NEW r \in Requests, Answer(r) PROVE PracticeInv'
  BY <1>1, BeginAnswersInv, InsertAnswersInv, CommitAnswersInv
     DEF Answer, BeginAttempt, BeginExam
<1>2. ASSUME NEW r \in Requests, Report(r) PROVE PracticeInv'
  BY <1>2, BeginReportInv, LockTaskInv, CommitReportInv DEF Report
<1>3. ASSUME NEW r \in Requests, LoadRow(r) \/ InsertRow(r) \/ Abort(r) PROVE PracticeInv'
  BY <1>3, LoadRowInv, InsertRowInv, AbortInv
<1>4. CASE \/ UNCHANGED practiceVars
           \/ \E k \in Keys, c \in Chapters, ratio \in Ratios : SubmitChapter(k, c, ratio)
  <2>1. UNCHANGED <<tx, status, feedback, jobs, accepted>>
    BY <1>4 DEF SubmitChapter, practiceVars, stored
  <2>2. PracticeTypeOK' /\ OneFeedback'
    BY <2>1 DEF PracticeInv, PracticeTypeOK, OneFeedback, TxOK, IsReport
  <2>3. TasksLocked' /\ JobsKeyed'
    BY <2>1 DEF PracticeInv, TasksLocked, JobsKeyed, Reporting, IsReport, VersionOf,
                FeedbackOf,
                FeedbackRow
  <2>4. ReportsNotLost'
    BY <2>1, SameReports DEF PracticeInv
  <2> QED BY <2>2, <2>3, <2>4 DEF PracticeInv
<1> QED BY <1>1, <1>2, <1>3, <1>4 DEF PracticeNext

\* What a report has read of its task under the task's lock is what there is,
\* in every reachable state: the invariant that the theorem below needs.
THEOREM PracticeInvariant == PracticeSpec => []PracticeInv
BY PracticeInitInv, PracticeNextInv, PTL DEF PracticeSpec

\* No report of a student is lost, counted twice or overtaken: the version of
\* a task counts the accepted reports, each was made on what it had seen, the
\* status is that of the last one, and each anomaly asked for one diagnosis,
\* for any number of requests, tasks and keys.
THEOREM ReportsAreKept == PracticeSpec => []ReportsNotLost
<1>1. PracticeInv => ReportsNotLost
  BY DEF PracticeInv
<1> QED BY <1>1, PracticeInvariant, PTL

-----------------------------------------------------------------------------
(* What is learned from answers and reports *)

Answers(t) == t.kind \in {"practice", "exam"}
MasteryRows == [evidence : Nat, errors : Nat, corrects : Nat]
ProfileRows == [samples : Seq(Nat \ {0}), p50 : Int, p75 : Int]
AttemptRows == [kind : {"practice", "exam", "chapter"}, key : Keys, question : Questions,
                ratio : Ratios, task : Tasks \cup {NoTask}]

\* The rows that a transaction may load.
Work(t) == IF Answers(t) THEN Nodes ELSE Profiles

\* How often x is asked about, and how often it is still to be observed.
Asking(questions, x) ==
    Cardinality({i \in DOMAIN questions : x \in Range(KnowledgeOf[questions[i]])})
Count(todo, x) == Cardinality({i \in DOMAIN todo : todo[i].row = x})

Transactions == {tx[r] : r \in Requests} \ {NoTx}

AnswersOK(t) ==
    Answers(t) =>
        /\ {"key", "questions", "ratio"} \subseteq DOMAIN t
        /\ t.key \in Keys /\ t.task \in Tasks \cup {NoTask} /\ t.ratio \in Ratios
        /\ t.questions \in Seq(Questions)
        /\ t.kind = "practice" => Len(t.questions) = 1

OpenOK(t) ==
    t.at = "open" =>
        /\ {"todo", "rows", "fresh", "inserted"} \subseteq DOMAIN t
        /\ t.todo \in Seq([row : Work(t), saw : Nat])
        /\ t.rows = [x \in DOMAIN t.rows |-> t.rows[x]] /\ DOMAIN t.rows \subseteq Work(t)
        /\ t.fresh \subseteq DOMAIN t.rows /\ t.inserted \subseteq DOMAIN t.rows \ t.fresh
        /\ \A x, y \in t.fresh : x = y

\* What a loaded row was before the transaction observed anything there.
Base(t, x) == IF x \in t.fresh \cup t.inserted THEN New(x) ELSE Committed(x)

\* Each row was observed as often as the questions before todo ask about it.
AnswersSeen(t) ==
    \A x \in Nodes :
        LET seen == Asking(t.questions, x) - Count(t.todo, x)
        IN  IF x \in DOMAIN t.rows
            THEN /\ seen >= 1
                 /\ t.rows[x] = IF t.kind = "practice" THEN Practised(Base(t, x), t.ratio)
                                ELSE [Base(t, x) EXCEPT !.evidence = @ + seen]
            ELSE seen = 0

SampleSeen(t) ==
    LET samples == ReportSamples(t.kind, t.task, t.report)
    IN  IF samples = <<>> THEN t.todo = <<>> /\ DOMAIN t.rows = {}
        ELSE \/ t.todo = samples /\ DOMAIN t.rows = {}
             \/ /\ t.todo = <<>> /\ DOMAIN t.rows = {samples[1].row}
                /\ t.rows[samples[1].row] =
                     Sampled(Base(t, samples[1].row), samples[1].saw)

Seen(t) ==
    t.at = "open" =>
        IF Answers(t) THEN AnswersSeen(t) /\ \A i \in DOMAIN t.todo : t.todo[i].saw = t.ratio
        ELSE SampleSeen(t)

\* The row locks: what a transaction has loaded and not just found missing is
\* its own, and is there unless the transaction has inserted it.
Mine(r) == DOMAIN tx[r].rows \ tx[r].fresh
RowsLocked ==
    /\ \A r \in Requests : Open(r) =>
         \A x \in Mine(r) : x \in tx[r].inserted <=> Committed(x) = NoRow
    /\ \A r, o \in Requests : (Open(r) /\ Open(o) /\ r # o) => Mine(r) \cap Mine(o) = {}

LearnedTypeOK ==
    /\ attempts \in Seq(AttemptRows)
    /\ state \in [Nodes -> MasteryRows \cup {NoRow}]
    /\ profile \in [Profiles -> ProfileRows \cup {NoRow}]
    /\ \A t \in Transactions : AnswersOK(t) /\ OpenOK(t)

LearnedInv ==
    /\ LearnedTypeOK /\ RowsLocked
    /\ \A t \in Transactions : Seen(t)
    /\ EvidenceCounts /\ SamplesTellReports

UpTo(s, v) == {i \in DOMAIN s : s[i] <= v}
Under(s, v) == {i \in DOMAIN s : s[i] < v}

\* The places of the samples up to a value, and below it, are finitely many.
LEMMA PlacesFinite ==
    ASSUME NEW s \in Seq(Nat), NEW v
    PROVE  /\ IsFiniteSet(UpTo(s, v)) /\ Cardinality(UpTo(s, v)) \in Nat
           /\ IsFiniteSet(Under(s, v)) /\ Cardinality(Under(s, v)) \in Nat
           /\ Cardinality(DOMAIN s) = Len(s)
<1>1. DOMAIN s = 1 .. Len(s) /\ Len(s) \in Nat
  OBVIOUS
<1>2. IsFiniteSet(DOMAIN s) /\ Cardinality(DOMAIN s) = Len(s)
  <2>1. /\ IsFiniteSet(1 .. Len(s))
        /\ Cardinality(1 .. Len(s)) = IF 1 > Len(s) THEN 0 ELSE Len(s) - 1 + 1
    BY <1>1, FS_Interval
  <2> QED BY <1>1, <2>1
<1>3. UpTo(s, v) \in SUBSET DOMAIN s /\ Under(s, v) \in SUBSET DOMAIN s
  BY DEF UpTo, Under
<1> QED BY <1>2, <1>3, FS_Subset, FS_CardinalityType

\* A sequence of samples has an upper bound, by induction on its length.
LEMMA SamplesBounded ==
    ASSUME NEW s \in Seq(Nat)
    PROVE  \E b \in Nat : \A i \in DOMAIN s : s[i] <= b
<1> DEFINE N == Len(s)
           T == {n \in 0 .. N : \E b \in Nat : \A i \in 1 .. n : s[i] <= b}
<1>1. N \in Nat /\ DOMAIN s = 1 .. N
  OBVIOUS
<1>2. 0 \in T
  OBVIOUS
<1>3. ASSUME NEW n \in 1 .. N, n - 1 \in T PROVE n \in T
  <2>1. PICK b \in Nat : \A i \in 1 .. n - 1 : s[i] <= b
    BY <1>3
  <2> DEFINE c == IF b < s[n] THEN s[n] ELSE b
  <2>2. s[n] \in Nat
    OBVIOUS
  <2>3. c \in Nat /\ s[n] <= c /\ b <= c
    BY <2>2
  <2>4. \A i \in 1 .. n : i = n \/ i \in 1 .. n - 1
    OBVIOUS
  <2>5. \A i \in 1 .. n : s[i] \in Nat
    OBVIOUS
  <2>6. \A i \in 1 .. n : s[i] <= c
    BY <2>1, <2>3, <2>4, <2>5
  <2>7. n \in 0 .. N
    BY <1>1
  <2> HIDE DEF c
  <2> QED BY <2>3, <2>6, <2>7
<1> HIDE DEF T, N
<1>4. 0 .. N \subseteq T
  BY <1>1, <1>2, <1>3, Induction
<1>5. N \in T
  BY <1>1, <1>4
<1> QED BY <1>1, <1>5 DEF T

\* Every place of the sorted list is taken by a sample: the least value that
\* enough samples are up to has fewer samples below it.
LEMMA PlaceTaken ==
    ASSUME NEW s \in Seq(Nat), NEW k \in DOMAIN s
    PROVE  \E v \in Range(s) : Cardinality(Under(s, v)) < k /\ Cardinality(UpTo(s, v)) >= k
<1> DEFINE Enough == {v \in Nat : Cardinality(UpTo(s, v)) >= k}
<1>1. k \in Nat /\ 0 < k /\ k <= Len(s) /\ Len(s) \in Nat
  OBVIOUS
<1>2. Enough # {}
  <2>1. PICK b \in Nat : \A i \in DOMAIN s : s[i] <= b
    BY SamplesBounded
  <2>2. UpTo(s, b) = DOMAIN s
    BY <2>1 DEF UpTo
  <2>3. Cardinality(UpTo(s, b)) = Len(s)
    BY <2>2, PlacesFinite
  <2>4. b \in Enough
    BY <2>3, <1>1
  <2> QED BY <2>4
<1> HIDE DEF Enough
<1>3. PICK v \in Enough : \A w \in Enough : ~ (<<w, v>> \in OpToRel(<, Nat))
  <2>1. IsWellFoundedOn(OpToRel(<, Nat), Nat)
    BY NatLessThanWellFounded
  <2>2. Enough \subseteq Nat
    BY DEF Enough
  <2> HIDE DEF OpToRel
  <2> QED BY <1>2, <2>1, <2>2, WFMin
<1>4. v \in Nat /\ Cardinality(UpTo(s, v)) >= k
  BY DEF Enough
<1>5. Cardinality(Under(s, v)) < k
  <2>1. CASE v = 0
    <3>1. Under(s, v) = {}
      BY <2>1 DEF Under
    <3> QED BY <3>1, <1>1, FS_EmptySet
  <2>2. CASE v # 0
    <3>1. v - 1 \in Nat /\ <<v - 1, v>> \in OpToRel(<, Nat)
      BY <2>2, <1>4 DEF OpToRel
    <3>2. v - 1 \notin Enough
      BY <3>1, <1>3
    <3>3. Under(s, v) = UpTo(s, v - 1)
      <4>1. \A i \in DOMAIN s : s[i] \in Nat
        OBVIOUS
      <4>2. \A i \in DOMAIN s : s[i] < v <=> s[i] <= v - 1
        BY <4>1, <1>4
      <4> QED BY <4>2 DEF Under, UpTo
    <3>4. Cardinality(UpTo(s, v - 1)) \in Nat
      BY PlacesFinite
    <3>5. ~ (Cardinality(UpTo(s, v - 1)) >= k)
      BY <3>1, <3>2 DEF Enough
    <3> QED BY <3>3, <3>4, <3>5, <1>1
  <2> QED BY <2>1, <2>2
<1>6. v \in Range(s)
  <2> SUFFICES ASSUME v \notin Range(s) PROVE FALSE
    OBVIOUS
  <2>1. \A i \in DOMAIN s : s[i] \in Nat /\ s[i] # v
    BY DEF Range
  <2>2. UpTo(s, v) = Under(s, v)
    BY <2>1, <1>4 DEF UpTo, Under
  <2>3. Cardinality(Under(s, v)) \in Nat
    BY PlacesFinite
  <2> QED BY <2>2, <2>3, <1>1, <1>4, <1>5
<1> QED BY <1>4, <1>5, <1>6

\* sorted(): the list is as long as the samples, made of them, and in order.
LEMMA SortedFacts ==
    ASSUME NEW s \in Seq(Nat)
    PROVE  /\ Sorted(s) \in Seq(Nat) /\ Len(Sorted(s)) = Len(s)
           /\ \A k \in 1 .. Len(s) : Sorted(s)[k] \in Range(s)
           /\ \A k, l \in 1 .. Len(s) : k <= l => Sorted(s)[k] <= Sorted(s)[l]
<1> DEFINE t == Sorted(s)
           Placed(k, v) == Cardinality(Under(s, v)) < k /\ Cardinality(UpTo(s, v)) >= k
<1>1. DOMAIN s = 1 .. Len(s) /\ Len(s) \in Nat /\ Range(s) \subseteq Nat
  BY DEF Range
<1>2. t = [k \in 1 .. Len(s) |-> CHOOSE v \in Range(s) : Placed(k, v)]
  BY <1>1 DEF Sorted, Under, UpTo
<1> HIDE DEF t
<1>3. \A k \in 1 .. Len(s) : t[k] \in Range(s) /\ Placed(k, t[k])
  <2> SUFFICES ASSUME NEW k \in 1 .. Len(s) PROVE t[k] \in Range(s) /\ Placed(k, t[k])
    OBVIOUS
  <2>1. \E v \in Range(s) : Placed(k, v)
    BY <1>1, PlaceTaken
  <2>2. t[k] = CHOOSE v \in Range(s) : Placed(k, v)
    BY <1>2
  <2> HIDE DEF Placed
  <2> QED BY <2>1, <2>2
<1>4. \A k \in 1 .. Len(s) : t[k] \in Nat
  BY <1>1, <1>3
<1>5. ASSUME NEW k \in 1 .. Len(s), NEW l \in 1 .. Len(s), k <= l
      PROVE  t[k] <= t[l]
  <2> SUFFICES ASSUME t[l] < t[k] PROVE FALSE
    BY <1>4
  <2>1. UpTo(s, t[l]) \in SUBSET Under(s, t[k])
    <3>1. \A i \in DOMAIN s : s[i] \in Nat
      OBVIOUS
    <3> QED BY <3>1, <1>4 DEF UpTo, Under
  <2>2. /\ Cardinality(UpTo(s, t[l])) <= Cardinality(Under(s, t[k]))
        /\ Cardinality(UpTo(s, t[l])) \in Nat /\ Cardinality(Under(s, t[k])) \in Nat
    BY <2>1, PlacesFinite, FS_Subset
  <2>3. k \in Nat /\ l \in Nat
    BY <1>1
  <2> QED BY <1>3, <1>5, <2>2, <2>3
<1>6. t \in Seq(Nat) /\ Len(t) = Len(s)
  <2>1. t = [k \in 1 .. Len(s) |-> t[k]]
    BY <1>2
  <2>2. t \in [1 .. Len(s) -> Nat]
    BY <1>4, <2>1
  <2> QED BY <1>1, <2>2
<1> QED BY <1>3, <1>5, <1>6 DEF t

\* round() of quarters keeps their order, halves and all.
LEMMA RoundKeepsOrder ==
    ASSUME NEW a \in Nat, NEW b \in Nat, a <= b
    PROVE  Round(a, 4) <= Round(b, 4) /\ Round(a, 4) \in Nat
<1> DEFINE p == a \div 4
           q == b \div 4
           i == a % 4
           j == b % 4
<1>1. /\ p \in Nat /\ i \in 0 .. 3 /\ a = 4 * p + i
      /\ q \in Nat /\ j \in 0 .. 3 /\ b = 4 * q + j
  OBVIOUS
<1>2. Round(a, 4) = IF 2 * i > 4 \/ (2 * i = 4 /\ p % 2 = 1) THEN p + 1 ELSE p
  BY DEF Round
<1>3. Round(b, 4) = IF 2 * j > 4 \/ (2 * j = 4 /\ q % 2 = 1) THEN q + 1 ELSE q
  BY DEF Round
<1> HIDE DEF p, q, i, j
<1>4. p < q \/ (p = q /\ i <= j)
  BY <1>1
<1>5. CASE p < q
  BY <1>1, <1>2, <1>3, <1>5
<1>6. CASE p = q /\ i <= j
  BY <1>1, <1>2, <1>3, <1>6
<1> QED BY <1>4, <1>5, <1>6

\* round() leaves a whole number as it is.
LEMMA RoundOfQuarters ==
    ASSUME NEW v \in Nat
    PROVE  Round(4 * v, 4) = v
<1>1. (4 * v) \div 4 = v /\ (4 * v) % 4 = 0
  OBVIOUS
<1> QED BY <1>1 DEF Round

Between(values, index) ==
    LET lower == values[index \div 4 + 1]
        upper == IF index % 4 = 0 THEN lower ELSE values[index \div 4 + 2]
    IN  Round(4 * lower + (upper - lower) * (index % 4), 4)

\* The place of a percentile, in whole places and quarters.
LEMMA Quarters ==
    ASSUME NEW index \in Nat
    PROVE  /\ index \div 4 \in Nat /\ index % 4 \in 0 .. 3
           /\ index = 4 * (index \div 4) + (index % 4)
OBVIOUS

\* The value before rounding lies between its two neighbours in the sorted
\* list.
LEMMA BetweenNeighbours ==
    ASSUME NEW n \in Nat \ {0}, NEW f, \A k \in 1 .. n : f[k] \in Nat,
           \A k, l \in 1 .. n : k <= l => f[k] <= f[l],
           NEW index \in Nat, index <= 4 * (n - 1)
    PROVE  LET i == index \div 4
               m == index % 4
           IN  /\ Between(f, index) \in Nat
               /\ i + 1 \in 1 .. n /\ f[i + 1] <= Between(f, index)
               /\ m = 0 => Between(f, index) = f[i + 1]
               /\ m # 0 => /\ i + 2 \in 1 .. n /\ Between(f, index) <= f[i + 2]
                           /\ Between(f, index) =
                                Round(4 * f[i + 1] + (f[i + 2] - f[i + 1]) * m, 4)
<1> DEFINE i == index \div 4
           m == index % 4
<1>0. i \in Nat /\ m \in 0 .. 3 /\ index = 4 * i + m
  BY Quarters
<1>1. index \div 4 = i /\ index % 4 = m /\ i + 1 \in 1 .. n /\ f[i + 1] \in Nat
  <2> HIDE DEF i, m
  <2>1. i + 1 \in 1 .. n
    BY <1>0
  <2> QED BY <2>1 DEF i, m
<1> HIDE DEF i, m
<1>2. CASE m = 0
  <2>1. Between(f, index) = Round(4 * f[i + 1] + (f[i + 1] - f[i + 1]) * 0, 4)
    BY <1>1, <1>2 DEF Between
  <2>2. 4 * f[i + 1] + (f[i + 1] - f[i + 1]) * 0 = 4 * f[i + 1]
    BY <1>1
  <2>3. Between(f, index) = f[i + 1]
    BY <2>1, <2>2, <1>1, RoundOfQuarters
  <2> QED BY <1>1, <1>2, <2>3
<1>3. CASE m # 0
  <2>1. i + 2 \in 1 .. n /\ f[i + 2] \in Nat /\ f[i + 1] <= f[i + 2]
    <3>1. i + 2 \in 1 .. n /\ i + 1 <= i + 2
      BY <1>0, <1>3
    <3> QED BY <3>1, <1>1
  <2> DEFINE lo == f[i + 1]
             hi == f[i + 2]
             a == 4 * lo + (hi - lo) * m
  <2>2. Between(f, index) = Round(a, 4)
    BY <1>1, <1>3 DEF Between
  <2>3. a \in Nat /\ 4 * lo <= a /\ a <= 4 * hi
    <3>1. m \in {1, 2, 3}
      BY <1>0, <1>3
    <3>2. lo \in Nat /\ hi \in Nat /\ lo <= hi
      BY <1>1, <2>1
    <3> HIDE DEF lo, hi
    <3>3. m = 1 => a = 3 * lo + hi
      BY <3>2
    <3>4. m = 2 => a = 2 * lo + 2 * hi
      BY <3>2
    <3>5. m = 3 => a = lo + 3 * hi
      BY <3>2
    <3> QED BY <3>1, <3>2, <3>3, <3>4, <3>5
  <2> HIDE DEF a
  <2>4. 4 * lo \in Nat /\ 4 * hi \in Nat
    BY <1>1, <2>1
  <2>5. /\ Round(4 * lo, 4) <= Round(a, 4) /\ Round(a, 4) <= Round(4 * hi, 4)
        /\ Round(a, 4) \in Nat
    BY <2>3, <2>4, RoundKeepsOrder
  <2>6. Round(4 * lo, 4) = lo /\ Round(4 * hi, 4) = hi
    BY <1>1, <2>1, RoundOfQuarters
  <2> QED BY <1>1, <1>3, <2>1, <2>2, <2>5, <2>6 DEF a
<1> QED BY <1>2, <1>3 DEF i, m

\* EfficiencyEstimator._percentile: the median is at most the third quartile,
\* and both lie among the samples after rounding.
LEMMA PercentileFacts ==
    ASSUME NEW f \in Seq(Nat), f # <<>>, \A k, l \in 1 .. Len(f) : k <= l => f[k] <= f[l]
    PROVE  /\ Percentile(f, 2) \in Nat /\ Percentile(f, 3) \in Nat
           /\ Percentile(f, 2) <= Percentile(f, 3)
           /\ \E k \in 1 .. Len(f) : f[k] <= Percentile(f, 2)
           /\ \E k \in 1 .. Len(f) : f[k] >= Percentile(f, 3)
<1> DEFINE n == Len(f)
           i == ((n - 1) * 2) \div 4
           m == ((n - 1) * 2) % 4
           j == ((n - 1) * 3) \div 4
           o == ((n - 1) * 3) % 4
           P == Between(f, (n - 1) * 2)
           Q == Between(f, (n - 1) * 3)
<1>1. n \in Nat \ {0} /\ \A k \in 1 .. n : f[k] \in Nat
  OBVIOUS
<1>2. Percentile(f, 2) = P /\ Percentile(f, 3) = Q
  BY DEF Percentile, Between
<1>3. /\ i \in Nat /\ m \in 0 .. 3 /\ (n - 1) * 2 = 4 * i + m
      /\ j \in Nat /\ o \in 0 .. 3 /\ (n - 1) * 3 = 4 * j + o
      /\ (n - 1) * 2 <= 4 * (n - 1) /\ (n - 1) * 3 <= 4 * (n - 1)
      /\ i < j \/ (i = j /\ m <= o)
  <2>1. /\ i \in Nat /\ m \in 0 .. 3 /\ (n - 1) * 2 = 4 * i + m
        /\ (n - 1) * 2 <= 4 * (n - 1)
    <3>1. (n - 1) * 2 \in Nat /\ (n - 1) * 2 <= 4 * (n - 1)
      BY <1>1
    <3> HIDE DEF n
    <3> QED BY <3>1, Quarters
  <2>2. /\ j \in Nat /\ o \in 0 .. 3 /\ (n - 1) * 3 = 4 * j + o
        /\ (n - 1) * 3 <= 4 * (n - 1)
    <3>1. (n - 1) * 3 \in Nat /\ (n - 1) * 3 <= 4 * (n - 1)
      BY <1>1
    <3> HIDE DEF n
    <3> QED BY <3>1, Quarters
  <2> HIDE DEF n, i, m, j, o
  <2>3. 4 * i + m <= 4 * j + o
    BY <1>1, <2>1, <2>2
  <2>4. i < j \/ (i = j /\ m <= o)
    BY <2>1, <2>2, <2>3
  <2> QED BY <2>1, <2>2, <2>4
<1> HIDE DEF i, m, j, o, P, Q, n
<1>4. \A k, l \in 1 .. n : k <= l => f[k] <= f[l]
  BY DEF n
<1>5. /\ P \in Nat /\ i + 1 \in 1 .. n /\ f[i + 1] <= P
      /\ m = 0 => P = f[i + 1]
      /\ m # 0 => /\ i + 2 \in 1 .. n /\ P <= f[i + 2]
                  /\ P = Round(4 * f[i + 1] + (f[i + 2] - f[i + 1]) * m, 4)
  <2> DEFINE index == (n - 1) * 2
  <2>1. index \in Nat /\ index <= 4 * (n - 1)
    BY <1>1, <1>3
  <2>2. P = Between(f, index) /\ i = index \div 4 /\ m = index % 4
    BY DEF P, i, m
  <2> HIDE DEF index
  <2> QED BY <1>1, <1>4, <2>1, <2>2, BetweenNeighbours
<1>6. /\ Q \in Nat /\ j + 1 \in 1 .. n /\ f[j + 1] <= Q
      /\ o = 0 => Q = f[j + 1]
      /\ o # 0 => /\ j + 2 \in 1 .. n /\ Q <= f[j + 2]
                  /\ Q = Round(4 * f[j + 1] + (f[j + 2] - f[j + 1]) * o, 4)
  <2> DEFINE index == (n - 1) * 3
  <2>1. index \in Nat /\ index <= 4 * (n - 1)
    BY <1>1, <1>3
  <2>2. Q = Between(f, index) /\ j = index \div 4 /\ o = index % 4
    BY DEF Q, j, o
  <2> HIDE DEF index
  <2> QED BY <1>1, <1>4, <2>1, <2>2, BetweenNeighbours
<1>7. P <= Q
  <2>1. CASE i < j
    <3>1. m = 0 => P <= f[j + 1]
      <4>1. i + 1 <= j + 1
        BY <1>3, <2>1
      <4> QED BY <4>1, <1>4, <1>5, <1>6
    <3>2. m # 0 => P <= f[j + 1]
      <4> SUFFICES ASSUME m # 0 PROVE P <= f[j + 1]
        OBVIOUS
      <4>1. i + 2 <= j + 1
        BY <1>3, <2>1
      <4>2. f[i + 2] <= f[j + 1] /\ f[i + 2] \in Nat /\ f[j + 1] \in Nat
        BY <4>1, <1>1, <1>4, <1>5, <1>6
      <4> QED BY <4>2, <1>5
    <3>3. f[j + 1] \in Nat
      BY <1>1, <1>6
    <3> QED BY <3>1, <3>2, <3>3, <1>5, <1>6
  <2>2. CASE i = j /\ m <= o /\ m = 0
    BY <2>2, <1>5, <1>6
  <2>3. CASE i = j /\ m <= o /\ m # 0
    <3> DEFINE lo == f[i + 1]
               hi == f[i + 2]
    <3>1. o # 0
      BY <2>3, <1>3
    <3>2. P = Round(4 * lo + (hi - lo) * m, 4) /\ Q = Round(4 * lo + (hi - lo) * o, 4)
      BY <2>3, <3>1, <1>5, <1>6
    <3>3. lo \in Nat /\ hi \in Nat /\ lo <= hi
      <4>1. i + 1 <= i + 2
        BY <1>3
      <4> QED BY <4>1, <2>3, <1>1, <1>4, <1>5
    <3>4. m \in {1, 2, 3} /\ o \in {1, 2, 3} /\ m <= o
      BY <2>3, <3>1, <1>3
    <3> HIDE DEF lo, hi
    <3>5. /\ 4 * lo + (hi - lo) * m \in Nat /\ 4 * lo + (hi - lo) * o \in Nat
          /\ 4 * lo + (hi - lo) * m <= 4 * lo + (hi - lo) * o
      <4> DEFINE A(k) == 4 * lo + (hi - lo) * k
      <4>1. A(1) = 3 * lo + hi /\ A(2) = 2 * lo + 2 * hi /\ A(3) = lo + 3 * hi
        BY <3>3
      <4>2. A(1) \in Nat /\ A(2) \in Nat /\ A(3) \in Nat /\ A(1) <= A(2) /\ A(2) <= A(3)
        BY <4>1, <3>3
      <4> HIDE DEF A
      <4>3. A(m) \in Nat /\ A(o) \in Nat /\ A(m) <= A(o)
        BY <4>2, <3>4
      <4> QED BY <4>3 DEF A
    <3> QED BY <3>2, <3>5, RoundKeepsOrder
  <2> QED BY <2>1, <2>2, <2>3, <1>3
<1>8. \E k \in 1 .. n : f[k] >= Q
  <2>1. CASE o = 0
    BY <2>1, <1>6
  <2>2. CASE o # 0
    <3>1. f[j + 2] \in Nat /\ Q <= f[j + 2] /\ j + 2 \in 1 .. n
      BY <2>2, <1>1, <1>6
    <3> QED BY <3>1, <1>6
  <2> QED BY <2>1, <2>2
<1> QED BY <1>2, <1>5, <1>6, <1>7, <1>8 DEF n

\* EfficiencyEstimator.estimate of some samples keeps them and gives
\* percentiles that lie among them, in their order.
LEMMA Estimation ==
    ASSUME NEW s \in Seq(Nat \ {0}), s # <<>>
    PROVE  /\ Estimated(s) \in ProfileRows /\ Estimated(s).samples = s
           /\ Estimated(s).p50 <= Estimated(s).p75
           /\ \E v \in Range(s) : v <= Estimated(s).p50
           /\ \E v \in Range(s) : v >= Estimated(s).p75
<1> DEFINE t == Sorted(s)
<1>1. s \in Seq(Nat) /\ Len(s) > 0
  OBVIOUS
<1>2. /\ t \in Seq(Nat) /\ Len(t) = Len(s) /\ \A k \in 1 .. Len(t) : t[k] \in Range(s)
      /\ \A k, l \in 1 .. Len(t) : k <= l => t[k] <= t[l]
  BY <1>1, SortedFacts
<1>3. Estimated(s) = [samples |-> s, p50 |-> Percentile(t, 2), p75 |-> Percentile(t, 3)]
  BY DEF Estimated
<1> HIDE DEF t
<1>4. t # <<>>
  BY <1>1, <1>2
<1>5. /\ Percentile(t, 2) \in Nat /\ Percentile(t, 3) \in Nat
      /\ Percentile(t, 2) <= Percentile(t, 3)
      /\ \E k \in 1 .. Len(t) : t[k] <= Percentile(t, 2)
      /\ \E k \in 1 .. Len(t) : t[k] >= Percentile(t, 3)
  BY <1>2, <1>4, PercentileFacts
<1> QED BY <1>2, <1>3, <1>5 DEF ProfileRows

\* Shifting places changes neither that they are finitely many nor how many.
LEMMA PlacesShifted ==
    ASSUME NEW I, IsFiniteSet(I), I \subseteq Nat, NEW k \in Nat
    PROVE  /\ IsFiniteSet({i + k : i \in I})
           /\ Cardinality({i + k : i \in I}) = Cardinality(I)
<1> DEFINE J == {i + k : i \in I}
           f == [i \in I |-> i + k]
<1>1. f \in Bijection(I, J)
  <2>1. f \in [I -> J] /\ \A j \in J : \E i \in I : f[i] = j
    OBVIOUS
  <2>2. \A i, j \in I : f[i] = f[j] => i = j
    OBVIOUS
  <2> HIDE DEF J, f
  <2> QED BY <2>1, <2>2 DEF Bijection, Injection, Surjection, IsInjective
<1> HIDE DEF J, f
<1>2. ExistsBijection(I, J)
  BY <1>1 DEF ExistsBijection
<1>3. IsFiniteSet(J) /\ Cardinality(J) = Cardinality(I)
  BY <1>2, FS_Bijection
<1> QED BY <1>3 DEF J

ToDo == [row : Nodes \cup Profiles, saw : Nat]

\* The observations of a row that are still to be made are a number.
LEMMA CountFacts ==
    ASSUME NEW s \in Seq(ToDo), NEW x
    PROVE  /\ IsFiniteSet({i \in DOMAIN s : s[i].row = x}) /\ Count(s, x) \in Nat
           /\ s = <<>> => Count(s, x) = 0
<1>1. DOMAIN s = 1 .. Len(s) /\ Len(s) \in Nat
  OBVIOUS
<1>2. IsFiniteSet(1 .. Len(s))
  BY <1>1, FS_Interval
<1>3. {i \in DOMAIN s : s[i].row = x} \in SUBSET (1 .. Len(s))
  BY <1>1
<1>4. IsFiniteSet({i \in DOMAIN s : s[i].row = x})
  BY <1>2, <1>3, FS_Subset
<1>5. s = <<>> => {i \in DOMAIN s : s[i].row = x} = {}
  BY <1>1
<1> QED BY <1>4, <1>5, FS_CardinalityType, FS_EmptySet DEF Count

\* They add up when lists of observations are joined.
LEMMA CountOfJoin ==
    ASSUME NEW s \in Seq(ToDo), NEW u \in Seq(ToDo), NEW x
    PROVE  Count(s \o u, x) = Count(s, x) + Count(u, x)
<1> DEFINE S == {i \in DOMAIN s : s[i].row = x}
           U == {i \in DOMAIN u : u[i].row = x}
           V == {i + Len(s) : i \in U}
           W == {i \in DOMAIN (s \o u) : (s \o u)[i].row = x}
<1>1. /\ Len(s) \in Nat /\ Len(u) \in Nat /\ DOMAIN s = 1 .. Len(s) /\ DOMAIN u = 1 .. Len(u)
      /\ DOMAIN (s \o u) = 1 .. Len(s) + Len(u)
      /\ \A i \in DOMAIN s : (s \o u)[i] = s[i]
      /\ \A i \in DOMAIN u : (s \o u)[i + Len(s)] = u[i]
  OBVIOUS
<1>2. W = S \cup V
  <2>1. ASSUME NEW i \in W PROVE i \in S \cup V
    <3>1. CASE i \in DOMAIN s
      BY <1>1, <3>1
    <3>2. CASE i \notin DOMAIN s
      <4>1. i - Len(s) \in DOMAIN u /\ i = (i - Len(s)) + Len(s)
        BY <1>1, <3>2
      <4>2. u[i - Len(s)] = (s \o u)[i]
        BY <1>1, <4>1
      <4> QED BY <4>1, <4>2
    <3> QED BY <3>1, <3>2
  <2>2. ASSUME NEW i \in S PROVE i \in W
    BY <1>1
  <2>3. ASSUME NEW i \in U PROVE i + Len(s) \in W
    BY <1>1
  <2> QED BY <2>1, <2>2, <2>3
<1>3. S \cap V = {}
  BY <1>1
<1>4. IsFiniteSet(S) /\ IsFiniteSet(U) /\ U \subseteq Nat
  <2>1. IsFiniteSet(S)
    BY CountFacts
  <2>2. IsFiniteSet(U)
    BY CountFacts
  <2> QED BY <1>1, <2>1, <2>2
<1>5. IsFiniteSet(V) /\ Cardinality(V) = Cardinality(U)
  BY <1>1, <1>4, PlacesShifted
<1> HIDE DEF S, U, V
<1>6. Cardinality(S \cup V) = Cardinality(S) + Cardinality(V)
  <2>1. Cardinality(S \cup V) = Cardinality(S) + Cardinality(V) - Cardinality(S \cap V)
    BY <1>4, <1>5, FS_Union
  <2>2. Cardinality(S \cap V) = 0 /\ Cardinality(S) \in Nat /\ Cardinality(V) \in Nat
    BY <1>3, <1>4, <1>5, FS_EmptySet, FS_CardinalityType
  <2> QED BY <2>1, <2>2
<1>7. Cardinality(W) = Cardinality(S) + Cardinality(U)
  BY <1>2, <1>5, <1>6
<1> QED BY <1>7 DEF Count, S, U

\* Loading the first row takes one observation of it from the list.
LEMMA CountOfTail ==
    ASSUME NEW s \in Seq(ToDo), s # <<>>, NEW x
    PROVE  /\ Tail(s) \in Seq(ToDo) /\ Head(s) \in ToDo
           /\ Count(s, x) = Count(Tail(s), x) + (IF Head(s).row = x THEN 1 ELSE 0)
<1> DEFINE h == <<Head(s)>>
<1>1. Tail(s) \in Seq(ToDo) /\ Head(s) \in ToDo /\ h \in Seq(ToDo) /\ s = h \o Tail(s)
  OBVIOUS
<1>2. Count(s, x) = Count(h, x) + Count(Tail(s), x)
  <2> HIDE DEF h
  <2>1. Count(h \o Tail(s), x) = Count(h, x) + Count(Tail(s), x)
    BY <1>1, CountOfJoin
  <2> QED BY <1>1, <2>1
<1>3. Count(h, x) = IF Head(s).row = x THEN 1 ELSE 0
  <2>1. DOMAIN h = {1} /\ h[1] = Head(s)
    OBVIOUS
  <2>2. {i \in DOMAIN h : h[i].row = x} = IF Head(s).row = x THEN {1} ELSE {}
    BY <2>1
  <2> QED BY <2>2, FS_EmptySet, FS_Singleton DEF Count
<1>4. Count(Tail(s), x) \in Nat
  BY <1>1, CountFacts
<1> HIDE DEF h
<1> QED BY <1>1, <1>2, <1>3, <1>4

Asked(questions, n, x) == {i \in 1 .. n : x \in Range(KnowledgeOf[questions[i]])}
Told(ratio) == [row : Nodes, saw : {ratio}]

\* What one question tells is typed.
LEMMA ToldOf ==
    ASSUME NEW q \in Questions, NEW ratio \in Ratios
    PROVE  ObservationsOf(q, ratio) \in Seq(Told(ratio))
<1> DEFINE K == KnowledgeOf[q]
           s == ObservationsOf(q, ratio)
<1>1. K \in Seq(Nodes)
  BY PracticeAssumption
<1>2. \A i \in 1 .. Len(K) : K[i] \in Nodes
  BY <1>1
<1>3. Len(K) \in Nat /\ DOMAIN K = 1 .. Len(K)
  BY <1>1
<1>4. s = [i \in 1 .. Len(K) |-> [row |-> K[i], saw |-> ratio]]
  BY <1>3 DEF ObservationsOf
<1> HIDE DEF s, K
<1>5. \A i \in 1 .. Len(K) : [row |-> K[i], saw |-> ratio] \in Told(ratio)
  BY <1>2 DEF Told
<1>6. s \in Seq(Told(ratio))
  BY <1>3, <1>4, <1>5
<1> QED BY <1>6 DEF s

\* A question observes each of its knowledge points once.
LEMMA AskedOnce ==
    ASSUME NEW q \in Questions, NEW ratio, NEW x
    PROVE  Count(ObservationsOf(q, ratio), x) = IF x \in Range(KnowledgeOf[q]) THEN 1 ELSE 0
<1> DEFINE K == KnowledgeOf[q]
           s == ObservationsOf(q, ratio)
           S == {i \in DOMAIN s : s[i].row = x}
<1>1. \A i, j \in DOMAIN K : K[i] = K[j] => i = j
  BY PracticeAssumption
<1>2. DOMAIN s = DOMAIN K /\ \A i \in DOMAIN K : s[i] = [row |-> K[i], saw |-> ratio]
  BY DEF ObservationsOf
<1> HIDE DEF s, K
<1>3. \A i \in DOMAIN K : s[i].row = K[i]
  BY <1>2
<1>4. CASE x \in Range(K)
  <2>1. PICK i \in DOMAIN K : K[i] = x
    BY <1>4 DEF Range
  <2>2. S = {i}
    BY <1>1, <1>2, <1>3, <2>1
  <2> QED BY <1>4, <2>2, FS_Singleton DEF Count, s, K
<1>5. CASE x \notin Range(K)
  <2>1. S = {}
    BY <1>2, <1>3, <1>5 DEF Range
  <2> QED BY <1>5, <2>1, FS_EmptySet DEF Count, s, K
<1> QED BY <1>4, <1>5 DEF K

\* One more question asks at most once more about a knowledge point.
LEMMA AskedFacts ==
    ASSUME NEW questions \in Seq(Questions), NEW n \in 1 .. Len(questions), NEW x
    PROVE  /\ Cardinality(Asked(questions, n - 1, x)) \in Nat
           /\ Cardinality(Asked(questions, n, x)) = Cardinality(Asked(questions, n - 1, x))
                + (IF x \in Range(KnowledgeOf[questions[n]]) THEN 1 ELSE 0)
<1> DEFINE A == Asked(questions, n - 1, x)
<1>1. IsFiniteSet(A) /\ Cardinality(A) \in Nat
  <2>1. IsFiniteSet(1 .. n - 1)
    BY FS_Interval
  <2>2. A \in SUBSET (1 .. n - 1)
    BY DEF Asked
  <2> QED BY <2>1, <2>2, FS_Subset, FS_CardinalityType
<1>2. \A i : i \in 1 .. n <=> (i \in 1 .. n - 1 \/ i = n)
  OBVIOUS
<1>3. n \notin 1 .. n - 1
  OBVIOUS
<1>4. CASE x \in Range(KnowledgeOf[questions[n]])
  <2>1. Asked(questions, n, x) = A \cup {n} /\ n \notin A
    BY <1>2, <1>3, <1>4 DEF Asked
  <2> QED BY <1>1, <1>4, <2>1, FS_AddElement
<1>5. CASE x \notin Range(KnowledgeOf[questions[n]])
  <2>1. Asked(questions, n, x) = A
    BY <1>2, <1>5 DEF Asked
  <2> QED BY <1>1, <1>5, <2>1
<1> QED BY <1>4, <1>5

\* The loop over the questions has values, and each follows from the one
\* before.
LEMMA ObservationsRun ==
    ASSUME NEW questions \in Seq(Questions), NEW ratio \in Ratios
    PROVE  ObservationsUpTo(questions, ratio) =
             [n \in 0 .. Len(questions) |->
                IF n = 0 THEN <<>>
                ELSE ObservationsUpTo(questions, ratio)[n - 1]
                       \o ObservationsOf(questions[n], ratio)]
<1> DEFINE N == Len(questions)
           S == Seq(Told(ratio))
           Step(n, s) == s \o ObservationsOf(questions[n], ratio)
           F == [n \in 1 .. N |-> [s \in S |-> Step(n, s)]]
<1>1. N \in Nat /\ <<>> \in S /\ \A n \in 1 .. N : questions[n] \in Questions
  OBVIOUS
<1>2. \A n \in 1 .. N, s \in S : Step(n, s) \in S
  <2> SUFFICES ASSUME NEW n \in 1 .. N, NEW s \in S PROVE Step(n, s) \in S
    OBVIOUS
  <2>1. ObservationsOf(questions[n], ratio) \in S
    BY <1>1, ToldOf
  <2> QED BY <2>1
<1> HIDE DEF Step, S, N
<1>3. StepsIn(F, N, S)
  BY <1>2 DEF StepsIn
<1>4. PICK f : RunOf(f, <<>>, F, N, S)
  <2> HIDE DEF F
  <2> QED BY <1>1, <1>3, Iteration
<1>5. f = [n \in 0 .. N |-> IF n = 0 THEN <<>> ELSE Step(n, f[n - 1])]
  <2>1. \A n \in 0 .. N : f[n] = IF n = 0 THEN <<>> ELSE Step(n, f[n - 1])
    <3> SUFFICES ASSUME NEW n \in 0 .. N
                 PROVE  f[n] = IF n = 0 THEN <<>> ELSE Step(n, f[n - 1])
      OBVIOUS
    <3>1. CASE n = 0
      BY <3>1, <1>4 DEF RunOf
    <3>2. CASE n # 0
      <4>1. n \in 1 .. N /\ n - 1 \in 0 .. N
        BY <3>2, <1>1
      <4>2. f[n - 1] \in S
        BY <4>1, <1>4 DEF RunOf
      <4>3. F[n][f[n - 1]] = Step(n, f[n - 1])
        BY <4>1, <4>2
      <4> QED BY <3>2, <4>3, <1>4 DEF RunOf
    <3> QED BY <3>1, <3>2
  <2> QED BY <2>1, <1>4 DEF RunOf
<1> QED BY <1>5 DEF ObservationsUpTo, Step, N

\* What a transaction is to observe at a knowledge point is what its questions
\* ask about it, by induction on the questions.
LEMMA ObservedUpTo ==
    ASSUME NEW questions \in Seq(Questions), NEW ratio \in Ratios
    PROVE  /\ Observations(questions, ratio) \in Seq(Told(ratio))
           /\ \A x : Count(Observations(questions, ratio), x) = Asking(questions, x)
<1> DEFINE N == Len(questions)
           d == ObservationsUpTo(questions, ratio)
           S == Seq(Told(ratio))
           Good(n) == d[n] \in S /\ \A x : Count(d[n], x) = Cardinality(Asked(questions, n, x))
           T == {n \in 0 .. N : Good(n)}
<1>1. N \in Nat /\ <<>> \in S /\ \A n \in 1 .. N : questions[n] \in Questions
  OBVIOUS
<1>2. d = [n \in 0 .. N |-> IF n = 0 THEN <<>>
                            ELSE d[n - 1] \o ObservationsOf(questions[n], ratio)]
  BY ObservationsRun
<1>3. S \subseteq Seq(ToDo)
  <2>1. 0 .. 100 \subseteq Nat
    OBVIOUS
  <2>2. ratio \in Nat
    BY <2>1, PracticeAssumption
  <2>3. Told(ratio) \subseteq ToDo
    BY <2>2 DEF Told, ToDo
  <2> QED BY <2>3
<1> HIDE DEF d, S, N
<1>4. 0 \in T
  <2>1. d[0] = <<>> /\ 0 \in 0 .. N
    BY <1>1, <1>2
  <2>2. ASSUME NEW x PROVE Count(d[0], x) = Cardinality(Asked(questions, 0, x))
    <3>1. Asked(questions, 0, x) = {}
      BY DEF Asked
    <3>2. Count(<<>>, x) = 0
      BY <1>1, <1>3, CountFacts
    <3> QED BY <2>1, <3>1, <3>2, FS_EmptySet
  <2> QED BY <1>1, <2>1, <2>2
<1>5. ASSUME NEW n \in 1 .. N, n - 1 \in T PROVE n \in T
  <2> DEFINE o == ObservationsOf(questions[n], ratio)
  <2>1. d[n] = d[n - 1] \o o /\ n \in 0 .. N
    BY <1>1, <1>2
  <2>2. o \in S /\ questions[n] \in Questions
    BY <1>1, ToldOf DEF S
  <2>3. d[n - 1] \in S /\ \A x : Count(d[n - 1], x) = Cardinality(Asked(questions, n - 1, x))
    BY <1>5
  <2>4. ASSUME NEW x PROVE Count(d[n], x) = Cardinality(Asked(questions, n, x))
    <3>1. Count(o, x) = IF x \in Range(KnowledgeOf[questions[n]]) THEN 1 ELSE 0
      BY <2>2, AskedOnce
    <3>2. Cardinality(Asked(questions, n, x)) = Cardinality(Asked(questions, n - 1, x))
                + (IF x \in Range(KnowledgeOf[questions[n]]) THEN 1 ELSE 0)
      BY AskedFacts DEF N
    <3> HIDE DEF o
    <3>3. Count(d[n - 1] \o o, x) = Count(d[n - 1], x) + Count(o, x)
      BY <1>3, <2>2, <2>3, CountOfJoin
    <3> QED BY <2>1, <2>3, <3>1, <3>2, <3>3
  <2>5. d[n - 1] \o o \in S
    <3> HIDE DEF o
    <3> QED BY <2>2, <2>3 DEF S
  <2> HIDE DEF o
  <2> QED BY <2>1, <2>4, <2>5
<1> HIDE DEF T
<1>6. 0 .. N \subseteq T
  BY <1>1, <1>4, <1>5, Induction
<1>7. N \in T
  BY <1>1, <1>6
<1>8. \A x : Asked(questions, N, x) =
                 {i \in DOMAIN questions : x \in Range(KnowledgeOf[questions[i]])}
  BY DEF Asked, N
<1> QED BY <1>7, <1>8 DEF T, Observations, Asking, d, N, S

\* What a transaction has seen stays so while the rows it has locked stay.
LEMMA SeenKept ==
    ASSUME NEW t, OpenOK(t), Seen(t),
           t.at = "open" => \A x \in DOMAIN t.rows \ (t.fresh \cup t.inserted) :
                               Committed(x)' = Committed(x)
    PROVE  Seen(t)'
<1>1. ASSUME t.at = "open" PROVE \A x \in DOMAIN t.rows : Base(t, x)' = Base(t, x)
  BY <1>1 DEF Base
<1>2. ASSUME t.at = "open", AnswersSeen(t) PROVE AnswersSeen(t)'
  BY <1>1, <1>2 DEF AnswersSeen
<1>3. ASSUME t.at = "open", SampleSeen(t) PROVE SampleSeen(t)'
  BY <1>1, <1>3 DEF SampleSeen
<1> QED BY <1>2, <1>3 DEF Seen, Answers

\* A step that changes neither answers nor mastery keeps EvidenceCounts.
LEMMA SameEvidence ==
    ASSUME EvidenceCounts, UNCHANGED <<attempts, state>>
    PROVE  EvidenceCounts'
<1>1. \A n \in Nodes : /\ Answering(n)' = Answering(n) /\ Practising(n)' = Practising(n)
                       /\ AtEnd(Practising(n), Wrong)' = AtEnd(Practising(n), Wrong)
                       /\ AtEnd(Practising(n), Right)' = AtEnd(Practising(n), Right)
  BY DEF Answering, Practising, AtEnd, Wrong, Right
<1> QED BY <1>1 DEF EvidenceCounts

\* A step that changes neither accepted reports nor profiles keeps
\* SamplesTellReports.
LEMMA SameSamples ==
    ASSUME SamplesTellReports, UNCHANGED <<accepted, profile>>
    PROVE  SamplesTellReports'
<1>1. \A p \in Profiles : Sampling(p)' = Sampling(p)
  BY DEF Sampling
<1> QED BY <1>1 DEF SamplesTellReports, SamplesTell

\* A step of one transaction that stores nothing keeps the invariant, provided
\* the rows it has newly locked are locked by no other.
LEMMA LearnedMoves ==
    ASSUME PracticeInv, LearnedInv, NEW r \in Requests, NEW y, tx' = [tx EXCEPT ![r] = y],
           UNCHANGED stored,
           y # NoTx => AnswersOK(y) /\ OpenOK(y) /\ Seen(y),
           y.at = "open" => \A x \in DOMAIN y.rows \ y.fresh :
              /\ x \in y.inserted <=> Committed(x) = NoRow
              /\ \A o \in Requests \ {r} : Open(o) => x \notin Mine(o)
    PROVE  LearnedInv'
<1>1. \A o \in Requests : tx'[o] = IF o = r THEN y ELSE tx[o]
  BY DEF PracticeInv, PracticeTypeOK
<1>2. UNCHANGED <<attempts, state, profile, accepted>> /\ \A x : Committed(x)' = Committed(x)
  BY DEF Committed, stored
<1>3. \A t \in Transactions' : t \in Transactions \/ (t = y /\ y # NoTx)
  BY <1>1 DEF Transactions
<1>4. \A t \in Transactions' : AnswersOK(t) /\ OpenOK(t) /\ Seen(t)
  BY <1>3 DEF LearnedInv, LearnedTypeOK
<1>5. \A t \in Transactions' : Seen(t)'
  BY <1>2, <1>4, SeenKept
<1>6. LearnedTypeOK'
  <2>1. \A t \in Transactions' : AnswersOK(t)' /\ OpenOK(t)'
    BY <1>4 DEF AnswersOK, OpenOK, Answers, Work
  <2> QED BY <1>2, <2>1 DEF LearnedInv, LearnedTypeOK
<1>7. RowsLocked'
  <2>1. \A o \in Requests : Open(o)' <=> tx'[o].at = "open"
    BY DEF Open
  <2>2. \A o \in Requests : Mine(o)' = DOMAIN tx'[o].rows \ tx'[o].fresh
    BY DEF Mine
  <2>3. \A o \in Requests \ {r} : Open(o)' = Open(o) /\ Mine(o)' = Mine(o) /\ tx'[o] = tx[o]
    BY <1>1 DEF Open, Mine
  <2>4. ASSUME NEW o \in Requests, Open(o)', NEW x \in Mine(o)'
        PROVE  x \in tx'[o].inserted <=> Committed(x)' = NoRow
    <3>1. CASE o = r
      BY <1>1, <1>2, <2>1, <2>2, <2>4, <3>1
    <3>2. CASE o # r
      BY <1>2, <2>3, <2>4, <3>2 DEF LearnedInv, RowsLocked
    <3> QED BY <3>1, <3>2
  <2>5. ASSUME NEW o \in Requests, NEW q \in Requests, Open(o)', Open(q)', o # q
        PROVE  Mine(o)' \cap Mine(q)' = {}
    <3>1. CASE o = r
      BY <1>1, <2>1, <2>2, <2>3, <2>5, <3>1
    <3>2. CASE q = r
      BY <1>1, <2>1, <2>2, <2>3, <2>5, <3>2
    <3>3. CASE o # r /\ q # r
      BY <2>3, <2>5, <3>3 DEF LearnedInv, RowsLocked
    <3> QED BY <3>1, <3>2, <3>3
  <2> QED BY <2>4, <2>5 DEF RowsLocked
<1>8. EvidenceCounts' /\ SamplesTellReports'
  BY <1>2, SameEvidence, SameSamples DEF LearnedInv
<1> QED BY <1>5, <1>6, <1>7, <1>8 DEF LearnedInv

\* Nothing learned and no transaction: the invariant holds.
LEMMA LearnedInit == PracticeInit => LearnedInv
<1> SUFFICES ASSUME PracticeInit PROVE LearnedInv
  OBVIOUS
<1>1. \A r \in Requests : tx[r] = NoTx /\ ~Open(r)
  BY DEF PracticeInit, Open, NoTx
<1>2. Transactions = {} /\ RowsLocked
  BY <1>1 DEF Transactions, RowsLocked
<1>3. LearnedTypeOK
  BY <1>2 DEF LearnedTypeOK, PracticeInit
<1>4. EvidenceCounts
  BY DEF EvidenceCounts, Answering, PracticeInit
<1>5. SamplesTellReports
  BY DEF SamplesTellReports, SamplesTell, Sampling, PracticeInit
<1> QED BY <1>2, <1>3, <1>4, <1>5 DEF LearnedInv

\* A transaction that is rolled back gives up its locks.
LEMMA LearnedAborts ==
    ASSUME PracticeInv, LearnedInv, NEW r \in Requests, Abort(r)
    PROVE  LearnedInv'
<1>1. tx' = [tx EXCEPT ![r] = NoTx] /\ UNCHANGED stored /\ NoTx.at # "open"
  BY DEF Abort, NoTx
<1> QED BY <1>1, LearnedMoves

\* A transaction that begins has no locks yet.
LEMMA LearnedBegins ==
    ASSUME PracticeInv, LearnedInv, NEW r \in Requests, NEW y, y.at = "begun",
           tx' = [tx EXCEPT ![r] = y], UNCHANGED stored, AnswersOK(y)
    PROVE  LearnedInv'
<1>1. OpenOK(y) /\ Seen(y) /\ y.at # "open"
  BY DEF OpenOK, Seen
<1> QED BY <1>1, LearnedMoves

\* record_attempt and the submits begin.
LEMMA AnswersBegin ==
    ASSUME PracticeInv, LearnedInv, NEW r \in Requests, NEW k \in Keys, NEW ratio \in Ratios,
           \/ \E q \in Questions, t \in Tasks \cup {NoTask} : BeginAttempt(r, k, q, ratio, t)
           \/ \E e \in Exams : BeginExam(r, k, e, ratio)
    PROVE  LearnedInv'
<1> DEFINE y(kind, questions, t) ==
             [at |-> "begun", kind |-> kind, key |-> k, task |-> t,
              questions |-> questions, ratio |-> ratio]
<1>1. \A kind, questions, t : y(kind, questions, t).at = "begun"
  OBVIOUS
<1>2. \A q \in Questions, t \in Tasks \cup {NoTask} : AnswersOK(y("practice", <<q>>, t))
  BY DEF AnswersOK
<1>3. \A e \in Exams : AnswersOK(y("exam", e, NoTask))
  BY PracticeAssumption DEF AnswersOK
<1>4. CASE \E q \in Questions, t \in Tasks \cup {NoTask} : BeginAttempt(r, k, q, ratio, t)
  <2>1. PICK q \in Questions, t \in Tasks \cup {NoTask} :
           tx' = [tx EXCEPT ![r] = y("practice", <<q>>, t)] /\ UNCHANGED stored
    BY <1>4 DEF BeginAttempt, BeginAnswers
  <2> HIDE DEF y
  <2> QED BY <1>1, <1>2, <2>1, LearnedBegins
<1>5. CASE \E e \in Exams : BeginExam(r, k, e, ratio)
  <2>1. PICK e \in Exams : tx' = [tx EXCEPT ![r] = y("exam", e, NoTask)] /\ UNCHANGED stored
    BY <1>5 DEF BeginExam, BeginAnswers
  <2> HIDE DEF y
  <2> QED BY <1>1, <1>3, <2>1, LearnedBegins
<1> QED BY <1>4, <1>5

\* The reports begin.
LEMMA ReportBegins ==
    ASSUME PracticeInv, LearnedInv, NEW r \in Requests, NEW kind \in {"post", "put"},
           NEW t, NEW k, NEW report, BeginReport(r, kind, t, k, report)
    PROVE  LearnedInv'
<1> DEFINE y == [at |-> "begun", kind |-> kind, key |-> k, task |-> t, report |-> report,
                 seen |-> IF kind = "post" THEN 0 ELSE VersionOf(t)]
<1>1. tx' = [tx EXCEPT ![r] = y] /\ UNCHANGED stored
  BY DEF BeginReport
<1>2. y.at = "begun" /\ AnswersOK(y)
  BY DEF AnswersOK, Answers
<1> HIDE DEF y
<1> QED BY <1>1, <1>2, LearnedBegins

\* A report has one sample or none, for a profile.
LEMMA SampleTypes ==
    ASSUME NEW kind \in {"post", "put"}, NEW t \in Tasks, NEW report \in Reports
    PROVE  LET samples == ReportSamples(kind, t, report)
           IN  /\ samples \in Seq([row : Profiles, saw : Nat])
               /\ samples # <<>> => /\ Len(samples) = 1 /\ samples[1].row \in Profiles
                                    /\ samples[1].saw \in Nat \ {0}
                                    /\ Tail(samples) = <<>> /\ Head(samples) = samples[1]
<1>1. report.sample \in Nat \ {0}
  BY PracticeAssumption
<1>2. <<"profile", Topic[t]>> \in Profiles /\ <<"profile", General>> \in Profiles
  BY DEF Profiles
<1>3. \A p \in Profiles :
        LET s == <<[row |-> p, saw |-> report.sample]>>
        IN  /\ s \in Seq([row : Profiles, saw : Nat]) /\ Len(s) = 1
            /\ s[1].row = p /\ s[1].saw = report.sample
            /\ Tail(s) = <<>> /\ Head(s) = s[1]
  BY <1>1
<1>4. \/ ReportSamples(kind, t, report) = <<>>
      \/ \E p \in Profiles :
            ReportSamples(kind, t, report) = <<[row |-> p, saw |-> report.sample]>>
  BY <1>2 DEF ReportSamples
<1>5. <<>> \in Seq([row : Profiles, saw : Nat])
  OBVIOUS
<1> DEFINE samples == ReportSamples(kind, t, report)
<1>6. CASE samples = <<>>
  BY <1>5, <1>6
<1>7. CASE \E p \in Profiles : samples = <<[row |-> p, saw |-> report.sample]>>
  <2>1. PICK p \in Profiles : samples = <<[row |-> p, saw |-> report.sample]>>
    BY <1>7
  <2>2. /\ samples \in Seq([row : Profiles, saw : Nat]) /\ Len(samples) = 1
        /\ samples[1].row = p /\ samples[1].saw = report.sample
        /\ Tail(samples) = <<>> /\ Head(samples) = samples[1]
    BY <1>3, <2>1
  <2> HIDE DEF samples
  <2> QED BY <1>1, <2>2 DEF samples
<1> QED BY <1>4, <1>6, <1>7

\* What the invariant says of one open transaction.
LEMMA OpenFacts ==
    ASSUME PracticeInv, LearnedInv, NEW r \in Requests, Open(r)
    PROVE  /\ tx[r] # NoTx /\ TxOK(tx[r]) /\ AnswersOK(tx[r]) /\ OpenOK(tx[r]) /\ Seen(tx[r])
           /\ tx[r].at = "open"
           /\ \A x \in Mine(r) : /\ x \in tx[r].inserted <=> Committed(x) = NoRow
                                 /\ \A o \in Requests \ {r} : Open(o) => x \notin Mine(o)
<1>1. tx[r] # NoTx /\ tx[r].at = "open"
  BY DEF Open, NoTx
<1>2. tx[r] \in Transactions
  BY <1>1 DEF Transactions
<1>3. TxOK(tx[r])
  BY <1>1 DEF PracticeInv, PracticeTypeOK
<1> QED BY <1>1, <1>2, <1>3 DEF LearnedInv, LearnedTypeOK, RowsLocked

\* The INSERT of answers: all their questions are still to be observed.
LEMMA AnswersInsert ==
    ASSUME PracticeInv, LearnedInv, NEW r \in Requests, InsertAnswers(r)
    PROVE  LearnedInv'
<1> DEFINE t == tx[r]
           y == [at |-> "open", kind |-> t.kind, key |-> t.key, task |-> t.task,
                 questions |-> t.questions, ratio |-> t.ratio,
                 todo |-> Observations(t.questions, t.ratio),
                 rows |-> <<>>, fresh |-> {}, inserted |-> {}]
<1>1. UNCHANGED stored /\ (tx' = [tx EXCEPT ![r] = NoTx] \/ tx' = [tx EXCEPT ![r] = y])
  BY DEF InsertAnswers
<1>2. NoTx.at # "open"
  BY DEF NoTx
<1>3. t \in Transactions /\ t.kind \in {"practice", "exam"}
  BY DEF InsertAnswers, Transactions, NoTx
<1>4. /\ t.key \in Keys /\ t.task \in Tasks \cup {NoTask} /\ t.ratio \in Ratios
      /\ t.questions \in Seq(Questions) /\ (t.kind = "practice" => Len(t.questions) = 1)
  BY <1>3 DEF LearnedInv, LearnedTypeOK, AnswersOK, Answers
<1>5. /\ y.kind = t.kind /\ y.ratio = t.ratio /\ y.questions = t.questions /\ y.at = "open"
      /\ y.todo = Observations(t.questions, t.ratio) /\ DOMAIN y.rows = {} /\ Answers(y)
      /\ y.fresh = {} /\ y.inserted = {}
      /\ {"todo", "rows", "fresh", "inserted"} \subseteq DOMAIN y
      /\ y.rows = [x \in DOMAIN y.rows |-> y.rows[x]]
  BY <1>3 DEF Answers
<1>6. AnswersOK(y)
  BY <1>4 DEF AnswersOK
<1> HIDE DEF t, y
<1>7. /\ y.todo \in Seq(Told(t.ratio)) /\ \A i \in DOMAIN y.todo : y.todo[i] \in Told(t.ratio)
      /\ \A x : Count(y.todo, x) = Asking(t.questions, x)
  <2>1. y.todo \in Seq(Told(t.ratio)) /\ \A x : Count(y.todo, x) = Asking(t.questions, x)
    BY <1>4, <1>5, ObservedUpTo
  <2> HIDE DEF Told
  <2> QED BY <2>1
<1>8. OpenOK(y)
  <2>1. t.ratio \in Nat
    <3>1. 0 .. 100 \subseteq Nat
      OBVIOUS
    <3> QED BY <3>1, <1>4, PracticeAssumption
  <2>2. Told(t.ratio) \subseteq [row : Work(y), saw : Nat]
    BY <2>1, <1>5 DEF Told, Work
  <2> DEFINE R == [row : Work(y), saw : Nat]
             S == Told(t.ratio)
  <2>3. y.todo \in Seq(R)
    <3>1. y.todo \in Seq(S) /\ S \subseteq R
      BY <1>7, <2>2
    <3> HIDE DEF R, S
    <3> QED BY <3>1
  <2> QED BY <1>5, <2>3 DEF OpenOK
<1>9. Seen(y)
  <2>1. \A x : Count(y.todo, x) \in Nat
    <3>1. Told(t.ratio) \subseteq ToDo
      <4>1. 0 .. 100 \subseteq Nat
        OBVIOUS
      <4> QED BY <4>1, <1>4, PracticeAssumption DEF Told, ToDo
    <3>2. y.todo \in Seq(ToDo)
      BY <1>7, <3>1
    <3> QED BY <3>2, CountFacts
  <2>2. \A x : Asking(y.questions, x) - Count(y.todo, x) = 0
    BY <1>5, <1>7, <2>1
  <2>3. AnswersSeen(y)
    BY <1>5, <2>2 DEF AnswersSeen
  <2>4. \A i \in DOMAIN y.todo : y.todo[i].saw = y.ratio
    BY <1>5, <1>7 DEF Told
  <2> QED BY <1>5, <2>3, <2>4 DEF Seen
<1>10. CASE tx' = [tx EXCEPT ![r] = NoTx]
  BY <1>1, <1>2, <1>10, LearnedMoves
<1>11. CASE tx' = [tx EXCEPT ![r] = y]
  BY <1>1, <1>5, <1>6, <1>8, <1>9, <1>11, LearnedMoves
<1> QED BY <1>1, <1>10, <1>11

\* A report that has locked its task: its sample is still to be observed.
LEMMA ReportLocks ==
    ASSUME PracticeInv, LearnedInv, NEW r \in Requests, LockTask(r)
    PROVE  LearnedInv'
<1> DEFINE t == tx[r]
           y == [at |-> "open", kind |-> t.kind, key |-> t.key, task |-> t.task,
                 report |-> t.report, seen |-> t.seen,
                 anomaly |-> IF t.kind = "post" THEN Detect(t.task, t.report)
                             ELSE LearningAnomaly(t.report),
                 todo |-> ReportSamples(t.kind, t.task, t.report),
                 rows |-> <<>>, fresh |-> {}, inserted |-> {}]
<1>1. UNCHANGED stored /\ (tx' = [tx EXCEPT ![r] = NoTx] \/ tx' = [tx EXCEPT ![r] = y])
  BY DEF LockTask
<1>2. NoTx.at # "open"
  BY DEF NoTx
<1>3. t # NoTx /\ t.kind \in {"post", "put"}
  BY DEF LockTask, NoTx
<1>4. t.task \in Tasks /\ t.report \in Reports
  BY <1>3 DEF PracticeInv, PracticeTypeOK, TxOK, IsReport
<1>5. /\ y.kind = t.kind /\ y.task = t.task /\ y.report = t.report /\ y.at = "open"
      /\ y.todo = ReportSamples(y.kind, y.task, y.report) /\ DOMAIN y.rows = {} /\ ~Answers(y)
      /\ y.fresh = {} /\ y.inserted = {}
      /\ {"todo", "rows", "fresh", "inserted"} \subseteq DOMAIN y
      /\ y.rows = [x \in DOMAIN y.rows |-> y.rows[x]]
  BY <1>3 DEF Answers
<1> HIDE DEF t, y
<1>6. AnswersOK(y) /\ Seen(y)
  BY <1>5 DEF AnswersOK, Seen, SampleSeen
<1>7. OpenOK(y)
  <2>1. y.todo \in Seq([row : Profiles, saw : Nat])
    <3>1. ReportSamples(t.kind, t.task, t.report) \in Seq([row : Profiles, saw : Nat])
      BY <1>3, <1>4, SampleTypes
    <3> QED BY <1>5, <3>1
  <2> QED BY <1>5, <2>1 DEF OpenOK, Work
<1>8. CASE tx' = [tx EXCEPT ![r] = NoTx]
  BY <1>1, <1>2, <1>8, LearnedMoves
<1>9. CASE tx' = [tx EXCEPT ![r] = y]
  BY <1>1, <1>5, <1>6, <1>7, <1>9, LearnedMoves
<1> QED BY <1>1, <1>8, <1>9

\* What Base and the rows are typed as.
LEMMA BaseTypes ==
    ASSUME PracticeInv, LearnedInv, NEW r \in Requests, Open(r), NEW x \in DOMAIN tx[r].rows
    PROVE  /\ Answers(tx[r]) => x \in Nodes /\ Base(tx[r], x) \in MasteryRows
           /\ ~Answers(tx[r]) =>
                x \in Profiles /\ x \notin Nodes /\ Base(tx[r], x) \in ProfileRows
<1>1. Nodes \cap Profiles = {}
  BY PracticeAssumption
<1>2. OpenOK(tx[r]) /\ tx[r].at = "open"
  BY OpenFacts
<1>3. x \in Work(tx[r])
  BY <1>2 DEF OpenOK
<1>4. NewState \in MasteryRows /\ NewProfile \in ProfileRows
  BY DEF NewState, NewProfile, MasteryRows, ProfileRows
<1>5. x \in tx[r].fresh \cup tx[r].inserted \/ Committed(x) # NoRow
  BY OpenFacts DEF Mine
<1>6. CASE Answers(tx[r])
  <2>1. x \in Nodes /\ New(x) = NewState /\ Committed(x) = state[x]
    BY <1>3, <1>6 DEF Work, New, Committed
  <2>2. state[x] \in MasteryRows \cup {NoRow}
    BY <2>1 DEF LearnedInv, LearnedTypeOK
  <2> QED BY <1>4, <1>5, <1>6, <2>1, <2>2 DEF Base
<1>7. CASE ~Answers(tx[r])
  <2>1. x \in Profiles /\ x \notin Nodes
    BY <1>1, <1>3, <1>7 DEF Work
  <2>2. New(x) = NewProfile /\ Committed(x) = profile[x]
    BY <2>1 DEF New, Committed
  <2>3. profile[x] \in ProfileRows \cup {NoRow}
    BY <2>1 DEF LearnedInv, LearnedTypeOK
  <2> QED BY <1>4, <1>5, <1>7, <2>1, <2>2, <2>3 DEF Base
<1> QED BY <1>6, <1>7

\* What a loaded row holds: nothing else of the transaction changes.
Loaded(t, y, x, row, missing) ==
    /\ y.at = t.at /\ y.kind = t.kind /\ y.task = t.task
    /\ DOMAIN y = DOMAIN t
    /\ \A f \in DOMAIN t \ {"rows", "fresh", "todo"} : y[f] = t[f]
    /\ y.todo = Tail(t.todo)
    /\ y.fresh = IF missing THEN {x} ELSE {}
    /\ y.rows = [z \in {x} \cup DOMAIN t.rows |-> IF z = x THEN row ELSE t.rows[z]]

\* A loaded row leaves a transaction well formed.
LEMMA LoadedOpen ==
    ASSUME NEW t, t.at = "open", OpenOK(t), t.todo # <<>>, t.fresh = {}, NEW y, NEW x, NEW row,
           NEW missing \in BOOLEAN, x = Head(t.todo).row, missing => x \notin DOMAIN t.rows,
           Loaded(t, y, x, row, missing)
    PROVE  OpenOK(y) /\ y.inserted = t.inserted /\ x \in Work(t) /\ Head(t.todo).saw \in Nat
<1>1. /\ {"todo", "rows", "fresh", "inserted"} \subseteq DOMAIN t
      /\ DOMAIN t.rows \subseteq Work(t) /\ t.inserted \subseteq DOMAIN t.rows
  BY DEF OpenOK
<1>2. Work(y) = Work(t)
  BY DEF Work, Answers, Loaded
<1>3. x \in Work(t) /\ Head(t.todo).saw \in Nat /\ y.todo \in Seq([row : Work(t), saw : Nat])
  <2> DEFINE R == [row : Work(t), saw : Nat]
  <2>1. t.todo \in Seq(R) /\ t.todo # <<>>
    BY DEF OpenOK
  <2>2. \A h \in R : h.row \in Work(t) /\ h.saw \in Nat
    OBVIOUS
  <2> HIDE DEF R
  <2>3. Head(t.todo) \in R /\ Tail(t.todo) \in Seq(R)
    BY <2>1
  <2>4. y.todo \in Seq(R)
    BY <2>3 DEF Loaded
  <2> QED BY <2>2, <2>3, <2>4 DEF R
<1>4. y.inserted = t.inserted
  BY <1>1 DEF Loaded
<1>5. DOMAIN y.rows = {x} \cup DOMAIN t.rows /\ y.rows = [z \in DOMAIN y.rows |-> y.rows[z]]
  BY DEF Loaded
<1>6. y.fresh \subseteq DOMAIN y.rows /\ y.inserted \subseteq DOMAIN y.rows \ y.fresh
      /\ \A u, v \in y.fresh : u = v
  BY <1>1, <1>4, <1>5 DEF Loaded
<1>7. {"todo", "rows", "fresh", "inserted"} \subseteq DOMAIN y
  BY <1>1 DEF Loaded
<1>8. DOMAIN y.rows \subseteq Work(t)
  BY <1>1, <1>3, <1>5
<1> QED BY <1>2, <1>3, <1>4, <1>5, <1>6, <1>7, <1>8 DEF OpenOK

\* One question asks at most once.
LEMMA AskingFacts ==
    ASSUME NEW questions \in Seq(Questions), NEW x
    PROVE  /\ Asking(questions, x) \in Nat
           /\ Len(questions) = 1 => Asking(questions, x) <= 1
<1> DEFINE A == {i \in DOMAIN questions : x \in Range(KnowledgeOf[questions[i]])}
<1>1. DOMAIN questions = 1 .. Len(questions) /\ Len(questions) \in Nat
  OBVIOUS
<1>2. /\ IsFiniteSet(1 .. Len(questions))
      /\ Cardinality(1 .. Len(questions)) =
           IF 1 > Len(questions) THEN 0 ELSE Len(questions) - 1 + 1
  BY <1>1, FS_Interval
<1>3. A \in SUBSET (1 .. Len(questions))
  BY <1>1
<1> HIDE DEF A
<1>4. /\ IsFiniteSet(A) /\ Cardinality(A) <= Cardinality(1 .. Len(questions))
      /\ Cardinality(A) \in Nat
  BY <1>2, <1>3, FS_Subset, FS_CardinalityType
<1> QED BY <1>1, <1>2, <1>4 DEF Asking, A

\* Another question of an exam about a knowledge point adds one to what the
\* exam has added.
LEMMA ExaminedTwice ==
    ASSUME NEW b \in MasteryRows, NEW k \in Int, NEW l, l = k + 1
    PROVE  Examined([b EXCEPT !.evidence = @ + k]) = [b EXCEPT !.evidence = @ + l]
<1>1. b.evidence \in Nat /\ (b.evidence + k) + 1 = b.evidence + l
  BY DEF MasteryRows
<1>2. Examined([b EXCEPT !.evidence = @ + k]) = [b EXCEPT !.evidence = (b.evidence + k) + 1]
  BY DEF Examined, MasteryRows
<1> QED BY <1>1, <1>2

\* Loading a row of a knowledge point moves it by the next observation, from
\* what was committed or from what the transaction has of it.
LEMMA LoadedAnswers ==
    ASSUME PracticeInv, LearnedInv, NEW r \in Requests, LoadRow(r), Answers(tx[r]),
           NEW y, NEW x, NEW row, NEW missing \in BOOLEAN, x = Head(tx[r].todo).row,
           row = IF x \in DOMAIN tx[r].rows THEN tx[r].rows[x]
                 ELSE IF Committed(x) = NoRow THEN New(x) ELSE Committed(x),
           missing <=> (x \notin DOMAIN tx[r].rows /\ Committed(x) = NoRow),
           Loaded(tx[r], y, x, Observe(r, x, row), missing)
    PROVE  Seen(y)
<1> DEFINE t == tx[r]
<1>1. /\ Open(r) /\ OpenOK(t) /\ t.at = "open" /\ AnswersOK(t) /\ t.todo # <<>> /\ t.fresh = {}
      /\ Seen(t)
  BY OpenFacts DEF LoadRow
<1>2. OpenOK(y) /\ y.inserted = t.inserted /\ x \in Nodes
  BY <1>1, LoadedOpen DEF Work
<1>3. /\ {"key", "questions", "ratio"} \subseteq DOMAIN t /\ t.questions \in Seq(Questions)
      /\ t.kind = "practice" => Len(t.questions) = 1
      /\ t.kind \in {"practice", "exam"}
  BY <1>1 DEF AnswersOK, Answers
<1>4. /\ y.questions = t.questions /\ y.ratio = t.ratio /\ y.kind = t.kind /\ y.at = "open"
      /\ Answers(y) /\ y.todo = Tail(t.todo)
  BY <1>1, <1>3 DEF Loaded, Answers
<1>5. AnswersSeen(t) /\ \A i \in DOMAIN t.todo : t.todo[i].saw = t.ratio
  BY <1>1 DEF Seen
<1>6. t.todo \in Seq(ToDo)
  <2> DEFINE R == [row : Work(t), saw : Nat]
  <2>1. R \subseteq ToDo /\ t.todo \in Seq(R)
    BY <1>1 DEF OpenOK, Work, ToDo
  <2> HIDE DEF R, t
  <2> QED BY <2>1
<1>7. \A z : /\ Count(t.todo, z) = Count(y.todo, z) + (IF x = z THEN 1 ELSE 0)
             /\ Count(y.todo, z) \in Nat /\ Count(t.todo, z) \in Nat
             /\ Asking(t.questions, z) \in Nat
  <2>1. Tail(t.todo) \in Seq(ToDo)
    BY <1>1, <1>6, CountOfTail
  <2>2. \A z : Count(t.todo, z) = Count(y.todo, z) + (IF x = z THEN 1 ELSE 0)
    BY <1>1, <1>4, <1>6, CountOfTail
  <2> HIDE DEF t
  <2> QED BY <1>3, <1>4, <1>6, <2>1, <2>2, CountFacts, AskingFacts
<1>8. Head(t.todo).saw = t.ratio
  <2> HIDE DEF t
  <2>1. Head(t.todo) = t.todo[1] /\ 1 \in DOMAIN t.todo
    BY <1>1, <1>6
  <2> QED BY <1>5, <2>1
<1>9. Observe(r, x, row) = IF t.kind = "practice" THEN Practised(row, t.ratio) ELSE Examined(row)
  BY <1>2, <1>3, <1>8 DEF Observe
<1>10. /\ DOMAIN y.rows = {x} \cup DOMAIN t.rows /\ y.rows[x] = Observe(r, x, row)
       /\ \A z \in DOMAIN t.rows : z # x => y.rows[z] = t.rows[z]
       /\ y.fresh = IF missing THEN {x} ELSE {}
  BY DEF Loaded
<1>11. \A z \in DOMAIN t.rows : z # x => Base(y, z) = Base(t, z)
  BY <1>1, <1>2, <1>10 DEF Base
<1>12. t.inserted \subseteq DOMAIN t.rows
  BY <1>1 DEF OpenOK
<1> DEFINE was(z) == Asking(t.questions, z) - Count(t.todo, z)
           now(z) == Asking(t.questions, z) - Count(y.todo, z)
<1>13. \A z : was(z) \in Int /\ now(z) = was(z) + (IF x = z THEN 1 ELSE 0)
  BY <1>7
<1>14. \A z \in Nodes : IF z \in DOMAIN t.rows
                        THEN /\ was(z) >= 1
                             /\ t.rows[z] = IF t.kind = "practice"
                                            THEN Practised(Base(t, z), t.ratio)
                                            ELSE [Base(t, z) EXCEPT !.evidence = @ + was(z)]
                        ELSE was(z) = 0
  BY <1>5 DEF AnswersSeen
<1>15. t.kind = "practice" => x \notin DOMAIN t.rows
  <2> SUFFICES ASSUME t.kind = "practice" PROVE ~(was(x) >= 1)
    BY <1>2, <1>14
  <2> QED BY <1>3, <1>7, AskingFacts
<1>16. x \notin DOMAIN t.rows => row = Base(y, x)
  BY <1>2, <1>10, <1>12 DEF Base
<1>17. x \in DOMAIN t.rows => row = t.rows[x] /\ Base(y, x) = Base(t, x)
  BY <1>1, <1>2, <1>10 DEF Base
<1>18. x \in DOMAIN t.rows => Base(t, x) \in MasteryRows
  BY <1>1, BaseTypes
<1>19. /\ now(x) >= 1
       /\ y.rows[x] = IF t.kind = "practice" THEN Practised(Base(y, x), t.ratio)
                      ELSE [Base(y, x) EXCEPT !.evidence = @ + now(x)]
  <2>1. CASE x \notin DOMAIN t.rows
    <3> HIDE DEF was, now, t
    <3>0. was(x) = 0
      BY <1>2, <1>14, <2>1
    <3>1. now(x) = 1
      BY <1>13, <3>0
    <3>2. Examined(row) = [row EXCEPT !.evidence = @ + 1]
      BY DEF Examined
    <3>3. row = Base(y, x)
      BY <1>16, <2>1
    <3>4. [row EXCEPT !.evidence = @ + 1] = [Base(y, x) EXCEPT !.evidence = @ + now(x)]
      BY <3>1, <3>3
    <3>5. y.rows[x] = IF t.kind = "practice" THEN Practised(row, t.ratio) ELSE Examined(row)
      BY <1>9, <1>10
    <3>6. y.rows[x] = IF t.kind = "practice" THEN Practised(Base(y, x), t.ratio)
                      ELSE [Base(y, x) EXCEPT !.evidence = @ + now(x)]
      BY <3>2, <3>3, <3>4, <3>5
    <3> QED BY <3>1, <3>6
  <2>2. CASE x \in DOMAIN t.rows
    <3>1. now(x) = was(x) + 1 /\ was(x) >= 1 /\ was(x) \in Int /\ t.kind # "practice"
      BY <1>2, <1>13, <1>14, <1>15, <2>2
    <3>2. t.rows[x] = [Base(t, x) EXCEPT !.evidence = @ + was(x)]
      BY <1>2, <1>14, <2>2, <3>1
    <3>3. y.rows[x] = Examined(t.rows[x])
      BY <1>9, <1>10, <1>17, <2>2, <3>1
    <3> HIDE DEF was, now, t
    <3>4. Base(t, x) \in MasteryRows
      BY <1>18, <2>2
    <3>5. Examined(t.rows[x]) = [Base(t, x) EXCEPT !.evidence = @ + now(x)]
      <4> DEFINE b == Base(t, x)
                 k == was(x)
                 l == now(x)
      <4>1. b \in MasteryRows /\ k \in Int /\ l = k + 1
        BY <3>1, <3>4
      <4>2. t.rows[x] = [b EXCEPT !.evidence = @ + k]
        BY <3>2
      <4> HIDE DEF b, k, l
      <4>3. Examined([b EXCEPT !.evidence = @ + k]) = [b EXCEPT !.evidence = @ + l]
        BY <4>1, ExaminedTwice
      <4> QED BY <4>2, <4>3 DEF b, l
    <3>6. Base(y, x) = Base(t, x)
      BY <1>17, <2>2
    <3>7. now(x) >= 1 /\ t.kind # "practice"
      BY <3>1
    <3>8. y.rows[x] = [Base(y, x) EXCEPT !.evidence = @ + now(x)]
      BY <3>3, <3>5, <3>6
    <3> QED BY <3>7, <3>8
  <2> QED BY <2>1, <2>2
<1> HIDE DEF was, now
<1>20. \A z \in Nodes : IF z \in DOMAIN y.rows
                        THEN /\ now(z) >= 1
                             /\ y.rows[z] = IF y.kind = "practice"
                                            THEN Practised(Base(y, z), y.ratio)
                                            ELSE [Base(y, z) EXCEPT !.evidence = @ + now(z)]
                        ELSE now(z) = 0
  <2> HIDE DEF t
  <2> SUFFICES ASSUME NEW z \in Nodes, z # x
               PROVE  IF z \in DOMAIN y.rows
                      THEN /\ now(z) >= 1
                           /\ y.rows[z] = IF y.kind = "practice"
                                          THEN Practised(Base(y, z), y.ratio)
                                          ELSE [Base(y, z) EXCEPT !.evidence = @ + now(z)]
                      ELSE now(z) = 0
    BY <1>4, <1>10, <1>19
  <2>1. now(z) = was(z) /\ (z \in DOMAIN y.rows <=> z \in DOMAIN t.rows)
    BY <1>10, <1>13
  <2> QED BY <1>4, <1>10, <1>11, <1>14, <2>1
<1>21. AnswersSeen(y)
  BY <1>4, <1>20 DEF AnswersSeen, now
<1>22. \A i \in DOMAIN y.todo : y.todo[i].saw = y.ratio
  <2> HIDE DEF t
  <2>1. \A i \in DOMAIN Tail(t.todo) : i + 1 \in DOMAIN t.todo /\ Tail(t.todo)[i] = t.todo[i + 1]
    BY <1>1, <1>6
  <2> QED BY <1>4, <1>5, <2>1
<1> QED BY <1>4, <1>21, <1>22 DEF Seen

\* Loading a profile adds the sample of the report to it.
LEMMA LoadedReport ==
    ASSUME PracticeInv, LearnedInv, NEW r \in Requests, LoadRow(r), ~Answers(tx[r]),
           NEW y, NEW x, NEW row, NEW missing \in BOOLEAN, x = Head(tx[r].todo).row,
           row = IF x \in DOMAIN tx[r].rows THEN tx[r].rows[x]
                 ELSE IF Committed(x) = NoRow THEN New(x) ELSE Committed(x),
           missing <=> (x \notin DOMAIN tx[r].rows /\ Committed(x) = NoRow),
           Loaded(tx[r], y, x, Observe(r, x, row), missing)
    PROVE  Seen(y)
<1> DEFINE t == tx[r]
           samples == ReportSamples(t.kind, t.task, t.report)
<1>1. /\ Open(r) /\ OpenOK(t) /\ t.at = "open" /\ TxOK(t) /\ t.todo # <<>> /\ t.fresh = {}
      /\ Seen(t)
  BY OpenFacts DEF LoadRow
<1>2. OpenOK(y) /\ y.inserted = t.inserted /\ x \in Profiles
  BY <1>1, LoadedOpen DEF Work
<1>3. IsReport(t) /\ t.task \in Tasks /\ t.report \in Reports /\ t.kind \in {"post", "put"}
      /\ {"kind", "task", "report"} \subseteq DOMAIN t
  BY <1>1 DEF TxOK, IsReport, Answers
<1>4. /\ y.kind = t.kind /\ y.task = t.task /\ y.report = t.report /\ y.at = "open"
      /\ ~Answers(y) /\ y.todo = Tail(t.todo)
  BY <1>1, <1>3 DEF Loaded, Answers
<1>5. samples # <<>> /\ t.todo = samples /\ DOMAIN t.rows = {}
  BY <1>1 DEF Seen, SampleSeen
<1>6. x = samples[1].row /\ Head(t.todo).saw = samples[1].saw /\ y.todo = <<>>
  <2>1. Tail(samples) = <<>> /\ Head(samples) = samples[1]
    BY <1>3, <1>5, SampleTypes
  <2> HIDE DEF samples
  <2> QED BY <1>4, <1>5, <2>1
<1>7. x \notin Nodes
  BY <1>2, PracticeAssumption
<1>8. Observe(r, x, row) = Sampled(row, samples[1].saw)
  <2>1. Observe(r, x, row) = Sampled(row, Head(t.todo).saw)
    BY <1>7 DEF Observe
  <2> HIDE DEF samples, t
  <2> QED BY <1>6, <2>1
<1>9. row = Base(y, x)
  <2>1. t.inserted = {}
    BY <1>1, <1>5 DEF OpenOK
  <2>2. x \notin DOMAIN t.rows /\ y.fresh = IF missing THEN {x} ELSE {}
    BY <1>5 DEF Loaded
  <2> QED BY <1>2, <2>1, <2>2 DEF Base
<1>10. DOMAIN y.rows = {x} /\ y.rows[x] = Observe(r, x, row)
  BY <1>5 DEF Loaded
<1>11. ReportSamples(y.kind, y.task, y.report) = samples
  BY <1>4
<1> HIDE DEF samples, t
<1>12. SampleSeen(y)
  BY <1>5, <1>6, <1>8, <1>9, <1>10, <1>11 DEF SampleSeen
<1> QED BY <1>4, <1>12 DEF Seen

\* SELECT ... FOR UPDATE keeps the invariant: no other transaction has the
\* row.
LEMMA RowLoads ==
    ASSUME PracticeInv, LearnedInv, NEW r \in Requests, LoadRow(r)
    PROVE  LearnedInv'
<1> DEFINE t == tx[r]
           x == Head(t.todo).row
           held == x \in DOMAIN t.rows
           row == IF held THEN t.rows[x]
                  ELSE IF Committed(x) = NoRow THEN New(x) ELSE Committed(x)
           missing == ~held /\ Committed(x) = NoRow
           y == [t EXCEPT !.rows = Over([z \in {x} |-> Observe(r, x, row)], @),
                          !.fresh = IF missing THEN {x} ELSE {},
                          !.todo = Tail(@)]
<1>1. /\ Open(r) /\ OpenOK(t) /\ t.at = "open" /\ AnswersOK(t) /\ TxOK(t) /\ t # NoTx
      /\ t.todo # <<>> /\ t.fresh = {}
      /\ \A z \in Mine(r) : /\ z \in t.inserted <=> Committed(z) = NoRow
                            /\ \A o \in Requests \ {r} : Open(o) => z \notin Mine(o)
  BY OpenFacts DEF LoadRow
<1>2. tx' = [tx EXCEPT ![r] = y] /\ UNCHANGED stored /\ \A o \in Others(r) : ~Locks(o, x)
  BY DEF LoadRow
<1>3. {"at", "kind", "task", "todo", "rows", "fresh", "inserted"} \subseteq DOMAIN t
  BY <1>1 DEF OpenOK, TxOK
<1>4. Loaded(t, y, x, Observe(r, x, row), missing)
  <2>1. Over([z \in {x} |-> Observe(r, x, row)], t.rows) =
          [z \in {x} \cup DOMAIN t.rows |-> IF z = x THEN Observe(r, x, row) ELSE t.rows[z]]
    BY DEF Over
  <2> DEFINE loaded == Observe(r, x, row)
             all == Over([z \in {x} |-> loaded], t.rows)
             new == IF missing THEN {x} ELSE {}
  <2>2. y = [t EXCEPT !.rows = all, !.fresh = new, !.todo = Tail(t.todo)]
    BY <1>3
  <2> HIDE DEF t, all, new, y
  <2>3. /\ DOMAIN y = DOMAIN t /\ y.rows = all /\ y.fresh = new /\ y.todo = Tail(t.todo)
        /\ \A f \in DOMAIN t \ {"rows", "fresh", "todo"} : y[f] = t[f]
    BY <1>3, <2>2
  <2>4. y.at = t.at /\ y.kind = t.kind /\ y.task = t.task
    BY <1>3, <2>3
  <2> QED BY <2>1, <2>3, <2>4 DEF Loaded, all, new
<1>5. Seen(y)
  <2>1. missing \in BOOLEAN
    OBVIOUS
  <2>2. missing <=> (x \notin DOMAIN tx[r].rows /\ Committed(x) = NoRow)
    OBVIOUS
  <2>3. /\ x = Head(tx[r].todo).row
        /\ row = IF x \in DOMAIN tx[r].rows THEN tx[r].rows[x]
                 ELSE IF Committed(x) = NoRow THEN New(x) ELSE Committed(x)
    OBVIOUS
  <2>4. Loaded(tx[r], y, x, Observe(r, x, row), missing)
    BY <1>4
  <2> HIDE DEF y, row, missing, x
  <2>5. CASE Answers(tx[r])
    BY <2>1, <2>2, <2>3, <2>4, <2>5, LoadedAnswers
  <2>6. CASE ~Answers(tx[r])
    BY <2>1, <2>2, <2>3, <2>4, <2>6, LoadedReport
  <2> QED BY <2>5, <2>6
<1>6. OpenOK(y) /\ y.inserted = t.inserted
  <2> HIDE DEF y, row
  <2> QED BY <1>1, <1>4, LoadedOpen
<1>7. y.at = "open" /\ y # NoTx /\ AnswersOK(y)
  <2>1. y.at = "open" /\ y.kind = t.kind /\ y.task = t.task /\ DOMAIN y = DOMAIN t
        /\ \A f \in DOMAIN t \ {"rows", "fresh", "todo"} : y[f] = t[f]
    BY <1>1, <1>4 DEF Loaded
  <2> HIDE DEF y, t
  <2>2. AnswersOK(y)
    BY <1>1, <2>1 DEF AnswersOK, Answers
  <2> QED BY <2>1, <2>2 DEF NoTx
<1>8. ASSUME NEW z \in DOMAIN y.rows \ y.fresh
      PROVE  /\ z \in y.inserted <=> Committed(z) = NoRow
             /\ \A o \in Requests \ {r} : Open(o) => z \notin Mine(o)
  <2>1. DOMAIN y.rows = {x} \cup DOMAIN t.rows /\ y.fresh = IF missing THEN {x} ELSE {}
    BY <1>4 DEF Loaded
  <2>2. CASE z \in DOMAIN t.rows
    <3>1. z \in Mine(r)
      BY <1>1, <2>2 DEF Mine
    <3> HIDE DEF y
    <3> QED BY <1>1, <1>6, <3>1
  <2>3. CASE z \notin DOMAIN t.rows
    <3>1. z = x /\ Committed(x) # NoRow
      BY <1>8, <2>1, <2>3
    <3>2. z \notin y.inserted
      BY <1>1, <1>6, <2>3 DEF OpenOK
    <3>3. ASSUME NEW o \in Requests \ {r}, Open(o), x \in Mine(o) PROVE FALSE
      <4>1. ~Locks(o, x)
        BY <1>2, <3>3 DEF Others
      <4>2. x \in tx[o].inserted
        BY <3>3, <4>1 DEF Locks, Mine
      <4>3. x \in tx[o].inserted <=> Committed(x) = NoRow
        BY <3>3 DEF LearnedInv, RowsLocked
      <4> QED BY <3>1, <4>2, <4>3
    <3> HIDE DEF x, y
    <3> QED BY <3>1, <3>2, <3>3
  <2> QED BY <2>2, <2>3
<1> HIDE DEF y
<1> QED BY <1>2, <1>5, <1>6, <1>7, <1>8, LearnedMoves

\* The INSERT of a new row keeps it: no other transaction has inserted it.
LEMMA RowInserts ==
    ASSUME PracticeInv, LearnedInv, NEW r \in Requests, InsertRow(r)
    PROVE  LearnedInv'
<1> DEFINE t == tx[r]
<1>1. /\ Open(r) /\ OpenOK(t) /\ t.at = "open" /\ AnswersOK(t) /\ TxOK(t) /\ t # NoTx
      /\ Seen(t)
      /\ \A z \in Mine(r) : /\ z \in t.inserted <=> Committed(z) = NoRow
                            /\ \A o \in Requests \ {r} : Open(o) => z \notin Mine(o)
  BY OpenFacts DEF InsertRow
<1>2. PICK x \in t.fresh : TRUE
  BY DEF InsertRow
<1> DEFINE y == [t EXCEPT !.fresh = {}, !.inserted = @ \cup {x}]
<1>3. /\ UNCHANGED stored /\ \A o \in Others(r) : x \notin tx[o].inserted
      /\ tx' = [tx EXCEPT ![r] = IF Committed(x) # NoRow THEN NoTx ELSE y]
  BY DEF InsertRow
<1>4. CASE Committed(x) # NoRow
  <2>1. NoTx.at # "open"
    BY DEF NoTx
  <2> QED BY <1>3, <1>4, <2>1, LearnedMoves
<1>5. CASE Committed(x) = NoRow
  <2>1. /\ t.fresh = {x}
        /\ {"at", "kind", "task", "todo", "rows", "fresh", "inserted"} \subseteq DOMAIN t
    BY <1>1, <1>2 DEF OpenOK, TxOK
  <2> HIDE DEF t
  <2>2. /\ DOMAIN y = DOMAIN t /\ y.fresh = {} /\ y.inserted = t.inserted \cup {x}
        /\ \A f \in DOMAIN t \ {"fresh", "inserted"} : y[f] = t[f]
    BY <2>1
  <2> HIDE DEF y
  <2>3. /\ y.at = "open" /\ y.kind = t.kind /\ y.task = t.task /\ y.rows = t.rows
        /\ y.todo = t.todo /\ y # NoTx
    BY <1>1, <2>1, <2>2 DEF NoTx
  <2>4. AnswersOK(y)
    BY <1>1, <2>2, <2>3 DEF AnswersOK, Answers
  <2>5. OpenOK(y)
    <3>1. Work(y) = Work(t)
      BY <2>3 DEF Work, Answers
    <3> QED BY <1>1, <2>1, <2>2, <2>3, <3>1 DEF OpenOK
  <2>6. Seen(y)
    <3>1. \A z : Base(y, z) = Base(t, z)
      BY <2>1, <2>2 DEF Base
    <3>2. CASE Answers(t)
      <4>1. y.questions = t.questions /\ y.ratio = t.ratio /\ Answers(y)
        BY <1>1, <2>2, <2>3, <3>2 DEF AnswersOK, Answers
      <4>2. AnswersSeen(y)
        BY <1>1, <2>3, <3>1, <3>2, <4>1 DEF AnswersSeen, Seen
      <4> QED BY <1>1, <2>3, <3>2, <4>1, <4>2 DEF Seen
    <3>3. CASE ~Answers(t)
      <4>1. y.report = t.report /\ ~Answers(y)
        BY <1>1, <2>2, <2>3, <3>3 DEF TxOK, IsReport, Answers
      <4>2. SampleSeen(y)
        BY <1>1, <2>3, <3>1, <3>3, <4>1 DEF SampleSeen, Seen
      <4> QED BY <4>1, <4>2 DEF Seen
    <3> QED BY <3>2, <3>3
  <2>7. ASSUME NEW z \in DOMAIN y.rows \ y.fresh
        PROVE  /\ z \in y.inserted <=> Committed(z) = NoRow
               /\ \A o \in Requests \ {r} : Open(o) => z \notin Mine(o)
    <3>1. CASE z # x
      <4>1. z \in Mine(r)
        BY <2>1, <2>3, <2>7, <3>1 DEF Mine, t
      <4> QED BY <1>1, <2>2, <3>1, <4>1
    <3>2. CASE z = x
      <4>1. ASSUME NEW o \in Requests \ {r}, Open(o), x \in Mine(o) PROVE FALSE
        <5>1. x \notin tx[o].inserted
          BY <1>3, <4>1 DEF Others
        <5>2. x \in tx[o].inserted <=> Committed(x) = NoRow
          BY <4>1 DEF LearnedInv, RowsLocked
        <5> QED BY <1>5, <5>1, <5>2
      <4> QED BY <1>5, <2>2, <3>2, <4>1
    <3> QED BY <3>1, <3>2
  <2>8. tx' = [tx EXCEPT ![r] = y]
    BY <1>3, <1>5
  <2> QED BY <1>3, <2>3, <2>4, <2>5, <2>6, <2>7, <2>8, LearnedMoves
<1> QED BY <1>4, <1>5

\* A commit changes only rows that the transaction has locked, so that what
\* the others have seen is still what is committed.
LEMMA CommitKeeps ==
    ASSUME PracticeInv, LearnedInv, NEW r \in Requests, Ready(r), tx' = [tx EXCEPT ![r] = NoTx],
           \A x \in (Nodes \cup Profiles) \ DOMAIN tx[r].rows : Committed(x)' = Committed(x)
    PROVE  RowsLocked' /\ \A t \in Transactions' : AnswersOK(t)' /\ OpenOK(t)' /\ Seen(t)'
<1>1. Open(r) /\ Mine(r) = DOMAIN tx[r].rows
  BY DEF Ready, Mine
<1>2. \A o \in Requests : tx'[o] = IF o = r THEN NoTx ELSE tx[o]
  BY DEF PracticeInv, PracticeTypeOK
<1>3. \A o \in Requests : Open(o)' => /\ o # r /\ Open(o) /\ tx'[o] = tx[o]
                                      /\ Mine(o)' = Mine(o)
  BY <1>2 DEF Open, NoTx, Mine
<1>4. ASSUME NEW o \in Requests \ {r}, Open(o), NEW x \in Mine(o)
      PROVE  Committed(x)' = Committed(x)
  <2>1. x \notin Mine(r)
    BY <1>1, <1>4 DEF LearnedInv, RowsLocked
  <2>2. x \in Work(tx[o])
    BY <1>4, OpenFacts DEF OpenOK, Mine
  <2> QED BY <1>1, <2>1, <2>2 DEF Work
<1>5. RowsLocked'
  <2>1. ASSUME NEW o \in Requests, Open(o)', NEW x \in Mine(o)'
        PROVE  x \in tx'[o].inserted <=> Committed(x)' = NoRow
    <3>1. o \in Requests \ {r} /\ Open(o) /\ x \in Mine(o) /\ tx'[o] = tx[o]
      BY <1>3, <2>1
    <3>2. Committed(x)' = Committed(x)
      BY <1>4, <3>1
    <3> QED BY <3>1, <3>2 DEF LearnedInv, RowsLocked
  <2>2. \A o, q \in Requests : (Open(o)' /\ Open(q)' /\ o # q) => Mine(o)' \cap Mine(q)' = {}
    BY <1>3 DEF LearnedInv, RowsLocked
  <2> QED BY <2>1, <2>2 DEF RowsLocked
<1>6. ASSUME NEW t \in Transactions' PROVE AnswersOK(t)' /\ OpenOK(t)' /\ Seen(t)'
  <2>1. PICK o \in Requests \ {r} : t = tx[o] /\ t # NoTx
    BY <1>2, <1>6 DEF Transactions
  <2>2. t \in Transactions
    BY <2>1 DEF Transactions
  <2>3. AnswersOK(t) /\ OpenOK(t) /\ Seen(t)
    BY <2>2 DEF LearnedInv, LearnedTypeOK
  <2>4. ASSUME t.at = "open", NEW x \in DOMAIN t.rows \ (t.fresh \cup t.inserted)
        PROVE  Committed(x)' = Committed(x)
    <3>1. Open(o) /\ x \in Mine(o)
      BY <2>1, <2>4 DEF Open, Mine
    <3> QED BY <1>4, <3>1
  <2>5. Seen(t)'
    BY <2>3, <2>4, SeenKept
  <2>6. AnswersOK(t)' /\ OpenOK(t)'
    BY <2>3 DEF AnswersOK, OpenOK, Answers, Work
  <2> QED BY <2>5, <2>6
<1> QED BY <1>5, <1>6

\* How many answers at the end are wrong, or right, is a number.
LEMMA AtEndFacts ==
    ASSUME NEW I, I \subseteq Nat, IsFiniteSet(I), NEW J, NEW J2,
           \A i \in I : i \in J2 <=> i \in J
    PROVE  /\ AtEnd(I, J2) = AtEnd(I, J) /\ AtEnd(I, J) \in Nat
           /\ I = {} => AtEnd(I, J) = 0
<1> DEFINE S == {i \in I : \A j \in I : j >= i => j \in J}
<1>1. S = {i \in I : \A j \in I : j >= i => j \in J2} /\ S \in SUBSET I
  OBVIOUS
<1>2. IsFiniteSet(S) /\ Cardinality(S) \in Nat
  BY <1>1, FS_Subset, FS_CardinalityType
<1>3. I = {} => Cardinality(S) = 0
  BY <1>1, FS_EmptySet
<1>4. AtEnd(I, J) = Cardinality(S) /\ AtEnd(I, J2) = Cardinality(S)
  BY <1>1 DEF AtEnd
<1> HIDE DEF S
<1> QED BY <1>2, <1>3, <1>4

\* One more answer at the end prolongs the streak or ends it.
LEMMA AtEndAdds ==
    ASSUME NEW I, I \subseteq Nat, IsFiniteSet(I), NEW J, NEW J2,
           \A i \in I : i \in J2 <=> i \in J, NEW k \in Nat, \A i \in I : i < k
    PROVE  AtEnd(I \cup {k}, J2) = IF k \in J2 THEN AtEnd(I, J) + 1 ELSE 0
<1> DEFINE S == {i \in I : \A j \in I : j >= i => j \in J}
           K == {i \in I \cup {k} : \A j \in I \cup {k} : j >= i => j \in J2}
<1>1. S = {i \in I : \A j \in I : j >= i => j \in J2} /\ S \in SUBSET I
  OBVIOUS
<1>2. IsFiniteSet(S)
  BY <1>1, FS_Subset
<1>3. k \notin I /\ \A i \in I : i \in Nat /\ k >= i /\ ~(i >= k)
  OBVIOUS
<1>4. CASE k \in J2
  <2>1. K = S \cup {k} /\ k \notin S
    BY <1>1, <1>3, <1>4
  <2> HIDE DEF S, K
  <2>2. Cardinality(K) = Cardinality(S) + 1
    BY <1>2, <2>1, FS_AddElement
  <2> QED BY <1>4, <2>2 DEF AtEnd, S, K
<1>5. CASE k \notin J2
  <2>1. k \in I \cup {k} /\ \A i \in I \cup {k} : k >= i
    BY <1>3
  <2>2. K = {}
    BY <1>5, <2>1
  <2> HIDE DEF K
  <2>3. Cardinality(K) = 0
    BY <2>2, FS_EmptySet
  <2> QED BY <1>5, <2>3 DEF AtEnd, K
<1> QED BY <1>4, <1>5

\* The answers to questions about a knowledge point are finitely many.
LEMMA AnsweringFacts ==
    ASSUME PracticeInv, LearnedInv, NEW n
    PROVE  /\ IsFiniteSet(Answering(n)) /\ Answering(n) \subseteq 1 .. Len(attempts)
           /\ IsFiniteSet(Practising(n)) /\ Practising(n) \subseteq 1 .. Len(attempts)
           /\ Len(attempts) \in Nat /\ DOMAIN attempts = 1 .. Len(attempts)
<1>1. Len(attempts) \in Nat /\ DOMAIN attempts = 1 .. Len(attempts)
  BY DEF LearnedInv, LearnedTypeOK
<1>2. IsFiniteSet(1 .. Len(attempts))
  BY <1>1, FS_Interval
<1>3. Answering(n) \in SUBSET (1 .. Len(attempts)) /\ Practising(n) \in SUBSET (1 .. Len(attempts))
  BY <1>1 DEF Answering, Practising
<1> QED BY <1>1, <1>2, <1>3, FS_Subset

\* What a transaction has moved on from is what the recorded answers say.
LEMMA BaseCounts ==
    ASSUME PracticeInv, LearnedInv, NEW r \in Requests, Open(r), Answers(tx[r]), tx[r].fresh = {},
           NEW n \in DOMAIN tx[r].rows
    PROVE  Base(tx[r], n) = [evidence |-> Cardinality(Answering(n)),
                             errors   |-> AtEnd(Practising(n), Wrong),
                             corrects |-> AtEnd(Practising(n), Right)]
<1>1. n \in Nodes /\ n \in Mine(r)
  BY BaseTypes DEF Mine
<1>2. Committed(n) = state[n] /\ New(n) = NewState
  BY <1>1 DEF Committed, New
<1>3. IF Answering(n) = {} THEN state[n] = NoRow
      ELSE state[n] = [evidence |-> Cardinality(Answering(n)),
                       errors   |-> AtEnd(Practising(n), Wrong),
                       corrects |-> AtEnd(Practising(n), Right)]
  BY <1>1 DEF LearnedInv, EvidenceCounts
<1>4. \A a, b, c : [evidence |-> a, errors |-> b, corrects |-> c] # NoRow
  BY DEF NoRow
<1>5. CASE n \in tx[r].inserted
  <2>1. state[n] = NoRow
    BY <1>1, <1>2, <1>5, OpenFacts
  <2>2. Answering(n) = {}
    BY <1>3, <1>4, <2>1
  <2>3. Practising(n) = {}
    BY <2>2 DEF Practising
  <2>4. AtEnd({}, Wrong) = 0 /\ AtEnd({}, Right) = 0 /\ Cardinality({}) = 0
    BY AtEndFacts, FS_EmptySet
  <2> QED BY <1>2, <1>5, <2>2, <2>3, <2>4 DEF Base, NewState
<1>6. CASE n \notin tx[r].inserted
  <2>1. state[n] # NoRow
    BY <1>1, <1>2, <1>6, OpenFacts
  <2> QED BY <1>2, <1>3, <1>6, <2>1 DEF Base
<1> QED BY <1>5, <1>6

\* A commit appends the answers of its transaction.
LEMMA AttemptsCommitted ==
    ASSUME PracticeInv, LearnedInv, NEW r \in Requests, CommitAnswers(r)
    PROVE  /\ attempts' \in Seq(AttemptRows) /\ Len(attempts) \in Nat
           /\ DOMAIN attempts = 1 .. Len(attempts)
           /\ DOMAIN attempts' = DOMAIN attempts
                \cup {i + Len(attempts) : i \in DOMAIN tx[r].questions}
           /\ \A i \in DOMAIN attempts : attempts'[i] = attempts[i]
           /\ \A i \in DOMAIN tx[r].questions :
                LET a == attempts'[i + Len(attempts)]
                IN  /\ a.kind = tx[r].kind /\ a.question = tx[r].questions[i]
                    /\ a.ratio = tx[r].ratio
<1> DEFINE t == tx[r]
           Row(i) == [kind |-> t.kind, key |-> t.key, question |-> t.questions[i],
                      ratio |-> t.ratio, task |-> t.task]
           new == [i \in DOMAIN t.questions |-> Row(i)]
<1>1. attempts' = attempts \o new
  BY DEF CommitAnswers
<1>2. attempts \in Seq(AttemptRows)
  BY DEF LearnedInv, LearnedTypeOK
<1>3. AnswersOK(t) /\ t.kind \in {"practice", "exam"}
  BY OpenFacts DEF CommitAnswers, Ready
<1>4. /\ t.key \in Keys /\ t.task \in Tasks \cup {NoTask} /\ t.ratio \in Ratios
      /\ t.questions \in Seq(Questions)
  BY <1>3 DEF AnswersOK, Answers
<1>5. DOMAIN t.questions = 1 .. Len(t.questions) /\ Len(t.questions) \in Nat
      /\ \A i \in DOMAIN t.questions : t.questions[i] \in Questions
  BY <1>4
<1>6. \A i \in DOMAIN t.questions : /\ Row(i) \in AttemptRows
                                    /\ Row(i).kind = t.kind /\ Row(i).question = t.questions[i]
                                    /\ Row(i).ratio = t.ratio
  BY <1>3, <1>4, <1>5 DEF AttemptRows
<1> HIDE DEF t, Row
<1>7. new \in Seq(AttemptRows) /\ Len(new) = Len(t.questions) /\ DOMAIN new = DOMAIN t.questions
      /\ \A i \in DOMAIN t.questions : new[i] = Row(i)
  BY <1>5, <1>6
<1> HIDE DEF new
<1>8. /\ attempts \o new \in Seq(AttemptRows) /\ Len(attempts) \in Nat
      /\ DOMAIN attempts = 1 .. Len(attempts)
      /\ DOMAIN (attempts \o new) = 1 .. Len(attempts) + Len(new)
      /\ \A i \in DOMAIN attempts : (attempts \o new)[i] = attempts[i]
      /\ \A i \in 1 .. Len(new) : (attempts \o new)[i + Len(attempts)] = new[i]
  BY <1>2, <1>7
<1>9. DOMAIN attempts' = DOMAIN attempts \cup {i + Len(attempts) : i \in DOMAIN t.questions}
  <2>1. \A k \in 1 .. Len(attempts) + Len(new) :
           k \in DOMAIN attempts \/ (k - Len(attempts) \in 1 .. Len(new)
                                     /\ k = (k - Len(attempts)) + Len(attempts))
    BY <1>5, <1>7, <1>8
  <2>2. \A i \in 1 .. Len(new) : i + Len(attempts) \in 1 .. Len(attempts) + Len(new)
    BY <1>5, <1>7, <1>8
  <2>3. \A i \in DOMAIN attempts : i \in 1 .. Len(attempts) + Len(new)
    BY <1>5, <1>7, <1>8
  <2> QED BY <1>1, <1>5, <1>7, <1>8, <2>1, <2>2, <2>3
<1>10. \A i \in DOMAIN t.questions : attempts'[i + Len(attempts)] = Row(i)
  BY <1>1, <1>5, <1>7, <1>8
<1> QED BY <1>1, <1>6, <1>8, <1>9, <1>10 DEF t

\* Those about a knowledge point are as many as its questions ask.
LEMMA AnsweringCommitted ==
    ASSUME PracticeInv, LearnedInv, NEW r \in Requests, CommitAnswers(r), NEW n
    PROVE  LET new == {i + Len(attempts) :
                         i \in {j \in DOMAIN tx[r].questions :
                                  n \in Range(KnowledgeOf[tx[r].questions[j]])}}
           IN  /\ Answering(n)' = Answering(n) \cup new
               /\ Practising(n)' = IF tx[r].kind = "practice" THEN Practising(n) \cup new
                                   ELSE Practising(n)
               /\ \A i \in DOMAIN attempts : /\ i \in Wrong' <=> i \in Wrong
                                             /\ i \in Right' <=> i \in Right
               /\ \A i \in new : /\ i \in Wrong' <=> tx[r].ratio < 60
                                 /\ i \in Right' <=> tx[r].ratio >= 80
               /\ Cardinality(Answering(n)') =
                    Cardinality(Answering(n)) + Asking(tx[r].questions, n)
<1> DEFINE t == tx[r]
           l == Len(attempts)
           Q == {j \in DOMAIN t.questions : n \in Range(KnowledgeOf[t.questions[j]])}
           new == {i + l : i \in Q}
<1>1. /\ l \in Nat /\ DOMAIN attempts = 1 .. l
      /\ DOMAIN attempts' = DOMAIN attempts \cup {i + l : i \in DOMAIN t.questions}
      /\ \A i \in DOMAIN attempts : attempts'[i] = attempts[i]
      /\ \A i \in DOMAIN t.questions : /\ attempts'[i + l].kind = t.kind
                                       /\ attempts'[i + l].question = t.questions[i]
                                       /\ attempts'[i + l].ratio = t.ratio
  BY AttemptsCommitted
<1>2. t.questions \in Seq(Questions) /\ DOMAIN t.questions = 1 .. Len(t.questions)
      /\ Len(t.questions) \in Nat /\ t.kind \in {"practice", "exam"}
  BY OpenFacts DEF CommitAnswers, Ready, AnswersOK, Answers
<1>3. /\ Answering(n) = {i \in DOMAIN attempts :
                            /\ attempts[i].kind \in {"practice", "exam"}
                            /\ n \in Range(KnowledgeOf[attempts[i].question])}
      /\ Answering(n)' = {i \in DOMAIN attempts' :
                            /\ attempts'[i].kind \in {"practice", "exam"}
                            /\ n \in Range(KnowledgeOf[attempts'[i].question])}
      /\ Practising(n) = {i \in Answering(n) : attempts[i].kind = "practice"}
      /\ Practising(n)' = {i \in Answering(n)' : attempts'[i].kind = "practice"}
      /\ Wrong = {i \in DOMAIN attempts : attempts[i].ratio < 60}
      /\ Wrong' = {i \in DOMAIN attempts' : attempts'[i].ratio < 60}
      /\ Right = {i \in DOMAIN attempts : attempts[i].ratio >= 80}
      /\ Right' = {i \in DOMAIN attempts' : attempts'[i].ratio >= 80}
  BY DEF Answering, Practising, Wrong, Right
<1> HIDE DEF t, l
<1>4. Answering(n)' = Answering(n) \cup new
  BY <1>1, <1>2, <1>3
<1>5. Practising(n)' = IF t.kind = "practice" THEN Practising(n) \cup new ELSE Practising(n)
  <2>1. \A i \in new : i \in DOMAIN attempts' /\ attempts'[i].kind = t.kind
    BY <1>1
  <2>2. Answering(n) \subseteq DOMAIN attempts
    BY <1>3
  <2> HIDE DEF new
  <2> QED BY <1>1, <1>3, <1>4, <2>1, <2>2
<1>6. \A i \in DOMAIN attempts : (i \in Wrong' <=> i \in Wrong) /\ (i \in Right' <=> i \in Right)
  BY <1>1, <1>3
<1>7. \A i \in new : (i \in Wrong' <=> t.ratio < 60) /\ (i \in Right' <=> t.ratio >= 80)
  BY <1>1, <1>3
<1>8. Cardinality(Answering(n)') = Cardinality(Answering(n)) + Asking(t.questions, n)
  <2>1. IsFiniteSet(Q) /\ Q \subseteq Nat
    <3>1. IsFiniteSet(1 .. Len(t.questions)) /\ Q \in SUBSET (1 .. Len(t.questions))
      BY <1>2, FS_Interval
    <3>2. 1 .. Len(t.questions) \subseteq Nat
      OBVIOUS
    <3> HIDE DEF Q
    <3> QED BY <3>1, <3>2, FS_Subset
  <2>2. Answering(n) \cap new = {}
    <3>1. \A i \in Q : i >= 1 /\ i \in Nat
      BY <1>2
    <3> HIDE DEF Q
    <3> QED BY <1>1, <1>3, <3>1
  <2>3. Asking(t.questions, n) = Cardinality(Q)
    BY DEF Asking
  <2> HIDE DEF Q
  <2>4. IsFiniteSet(new) /\ Cardinality(new) = Cardinality(Q)
    BY <1>1, <2>1, PlacesShifted
  <2> HIDE DEF new
  <2>5. IsFiniteSet(Answering(n))
    BY AnsweringFacts
  <2>6. Cardinality(Answering(n) \cup new) =
          Cardinality(Answering(n)) + Cardinality(new) - Cardinality(Answering(n) \cap new)
    BY <2>4, <2>5, FS_Union
  <2>7. /\ Cardinality(Answering(n) \cap new) = 0 /\ Cardinality(Answering(n)) \in Nat
        /\ Cardinality(new) \in Nat
    BY <2>2, <2>4, <2>5, FS_EmptySet, FS_CardinalityType
  <2> QED BY <1>4, <2>3, <2>4, <2>6, <2>7
<1> QED BY <1>4, <1>5, <1>6, <1>7, <1>8 DEF t, l

\* A commit of answers keeps EvidenceCounts.
LEMMA EvidenceCommitted ==
    ASSUME PracticeInv, LearnedInv, NEW r \in Requests, CommitAnswers(r)
    PROVE  EvidenceCounts'
<1> DEFINE t == tx[r]
<1>1. /\ Open(r) /\ OpenOK(t) /\ AnswersOK(t) /\ Seen(t) /\ t.todo = <<>> /\ t.fresh = {}
      /\ t.at = "open" /\ Answers(t) /\ state' = Over(t.rows, state)
  BY OpenFacts DEF CommitAnswers, Ready, Answers
<1>2. /\ t.questions \in Seq(Questions) /\ Len(attempts) \in Nat
      /\ t.kind = "practice" => Len(t.questions) = 1
      /\ t.kind \in {"practice", "exam"}
  BY <1>1, AnsweringFacts DEF AnswersOK, Answers
<1>3. AnswersSeen(t)
  BY <1>1 DEF Seen
<1>4. SUFFICES ASSUME NEW n \in Nodes
               PROVE  IF Answering(n)' = {} THEN state'[n] = NoRow
                      ELSE state'[n] = [evidence |-> Cardinality(Answering(n)'),
                                        errors   |-> AtEnd(Practising(n)', Wrong'),
                                        corrects |-> AtEnd(Practising(n)', Right')]
  BY DEF EvidenceCounts, AtEnd
<1> DEFINE Q == {j \in DOMAIN t.questions : n \in Range(KnowledgeOf[t.questions[j]])}
           new == {i + Len(attempts) : i \in Q}
           seen == Asking(t.questions, n)
<1>5. /\ Answering(n)' = Answering(n) \cup new
      /\ Practising(n)' = IF t.kind = "practice" THEN Practising(n) \cup new ELSE Practising(n)
      /\ \A i \in DOMAIN attempts : /\ i \in Wrong' <=> i \in Wrong
                                    /\ i \in Right' <=> i \in Right
      /\ \A i \in new : /\ i \in Wrong' <=> t.ratio < 60
                        /\ i \in Right' <=> t.ratio >= 80
      /\ Cardinality(Answering(n)') = Cardinality(Answering(n)) + seen
  BY AnsweringCommitted
<1>6. Count(t.todo, n) = 0 /\ seen \in Nat
  <2>1. <<>> \in Seq(ToDo)
    OBVIOUS
  <2> QED BY <1>1, <1>2, <2>1, CountFacts, AskingFacts
<1>7. IF n \in DOMAIN t.rows
      THEN /\ seen >= 1
           /\ t.rows[n] = IF t.kind = "practice" THEN Practised(Base(t, n), t.ratio)
                          ELSE [Base(t, n) EXCEPT !.evidence = @ + seen]
      ELSE seen = 0
  <2>1. seen - Count(t.todo, n) = seen
    BY <1>6
  <2> HIDE DEF seen, t
  <2> QED BY <1>3, <1>4, <2>1 DEF AnswersSeen, seen
<1>8. state'[n] = IF n \in DOMAIN t.rows THEN t.rows[n] ELSE state[n]
  <2>1. n \in DOMAIN state
    BY DEF LearnedInv, LearnedTypeOK
  <2> QED BY <1>1, <2>1 DEF Over
<1>9. seen = Cardinality(Q) /\ IsFiniteSet(Q)
  <2>1. DOMAIN t.questions = 1 .. Len(t.questions) /\ Len(t.questions) \in Nat
    BY <1>2
  <2>2. IsFiniteSet(1 .. Len(t.questions)) /\ Q \in SUBSET (1 .. Len(t.questions))
    BY <2>1, FS_Interval
  <2> QED BY <2>2, FS_Subset DEF Asking
<1>10. /\ IsFiniteSet(Answering(n)) /\ Answering(n) \subseteq 1 .. Len(attempts)
       /\ IsFiniteSet(Practising(n)) /\ Practising(n) \subseteq 1 .. Len(attempts)
       /\ DOMAIN attempts = 1 .. Len(attempts)
  BY AnsweringFacts
<1>11. /\ Practising(n) \subseteq Nat
       /\ \A i \in Practising(n) : i \in Wrong' <=> i \in Wrong
       /\ \A i \in Practising(n) : i \in Right' <=> i \in Right
  <2>1. \A i \in 1 .. Len(attempts) : i \in Nat
    BY <1>2
  <2> QED BY <1>5, <1>10, <2>1
<1>12. /\ AtEnd(Practising(n), Wrong') = AtEnd(Practising(n), Wrong)
       /\ AtEnd(Practising(n), Right') = AtEnd(Practising(n), Right)
       /\ \A k \in Nat : (\A i \in Practising(n) : i < k) =>
            /\ AtEnd(Practising(n) \cup {k}, Wrong') =
                 IF k \in Wrong' THEN AtEnd(Practising(n), Wrong) + 1 ELSE 0
            /\ AtEnd(Practising(n) \cup {k}, Right') =
                 IF k \in Right' THEN AtEnd(Practising(n), Right) + 1 ELSE 0
  <2>1. AtEnd(Practising(n), Wrong') = AtEnd(Practising(n), Wrong)
    BY <1>10, <1>11, AtEndFacts
  <2>2. AtEnd(Practising(n), Right') = AtEnd(Practising(n), Right)
    BY <1>10, <1>11, AtEndFacts
  <2>3. ASSUME NEW k \in Nat, \A i \in Practising(n) : i < k
        PROVE  /\ AtEnd(Practising(n) \cup {k}, Wrong') =
                    IF k \in Wrong' THEN AtEnd(Practising(n), Wrong) + 1 ELSE 0
               /\ AtEnd(Practising(n) \cup {k}, Right') =
                    IF k \in Right' THEN AtEnd(Practising(n), Right) + 1 ELSE 0
    <3>1. AtEnd(Practising(n) \cup {k}, Wrong') =
            IF k \in Wrong' THEN AtEnd(Practising(n), Wrong) + 1 ELSE 0
      BY <1>10, <1>11, <2>3, AtEndAdds, ZenonT(60)
    <3>2. AtEnd(Practising(n) \cup {k}, Right') =
            IF k \in Right' THEN AtEnd(Practising(n), Right) + 1 ELSE 0
      <4>1. Practising(n) \subseteq Nat /\ IsFiniteSet(Practising(n))
            /\ \A i \in Practising(n) : i \in Right' <=> i \in Right
        BY <1>10, <1>11
      <4> QED BY <2>3, <4>1, AtEndAdds, ZenonT(60)
    <3> QED BY <3>1, <3>2
  <2> QED BY <2>1, <2>2, <2>3
<1>13. CASE n \notin DOMAIN t.rows
  <2>1. seen = 0
    BY <1>7, <1>13
  <2>2. Q = {}
    <3> HIDE DEF Q, seen
    <3> QED BY <1>9, <2>1, FS_EmptySet
  <2>3. new = {}
    BY <2>2
  <2> HIDE DEF new, Q, seen, t
  <2>4. Answering(n)' = Answering(n) /\ Practising(n)' = Practising(n)
    BY <1>5, <2>3
  <2>7. AtEnd(Practising(n)', Wrong') = AtEnd(Practising(n), Wrong)
        /\ AtEnd(Practising(n)', Right') = AtEnd(Practising(n), Right)
    BY <1>12, <2>4
  <2>8. state'[n] = state[n]
    BY <1>8, <1>13
  <2>9. IF Answering(n) = {} THEN state[n] = NoRow
        ELSE state[n] = [evidence |-> Cardinality(Answering(n)),
                         errors   |-> AtEnd(Practising(n), Wrong),
                         corrects |-> AtEnd(Practising(n), Right)]
    BY <1>4 DEF LearnedInv, EvidenceCounts
  <2> QED BY <2>4, <2>7, <2>8, <2>9
<1>14. CASE n \in DOMAIN t.rows
  <2>1. seen >= 1 /\ state'[n] = t.rows[n]
    BY <1>7, <1>8, <1>14
  <2>2. Base(t, n) = [evidence |-> Cardinality(Answering(n)),
                      errors   |-> AtEnd(Practising(n), Wrong),
                      corrects |-> AtEnd(Practising(n), Right)]
    BY <1>1, <1>14, BaseCounts
  <2>3. Cardinality(Answering(n)) \in Nat /\ Answering(n)' # {}
    <3>1. Q # {}
      BY <1>9, <2>1, FS_EmptySet
    <3>2. new # {}
      BY <3>1
    <3> QED BY <1>5, <1>10, <3>2, FS_CardinalityType
  <2> HIDE DEF seen, t
  <2>4. CASE t.kind # "practice"
    <3>1. t.rows[n] = [Base(t, n) EXCEPT !.evidence = @ + seen]
      BY <1>7, <1>14, <2>4
    <3>2. Practising(n)' = Practising(n)
      BY <1>5, <2>4
    <3>5. AtEnd(Practising(n)', Wrong') = AtEnd(Practising(n), Wrong)
          /\ AtEnd(Practising(n)', Right') = AtEnd(Practising(n), Right)
      BY <1>12, <3>2
    <3>6. t.rows[n] = [evidence |-> Cardinality(Answering(n)) + seen,
                       errors   |-> AtEnd(Practising(n), Wrong),
                       corrects |-> AtEnd(Practising(n), Right)]
      BY <2>2, <3>1
    <3> QED BY <1>5, <2>1, <2>3, <3>5, <3>6
  <2>5. CASE t.kind = "practice"
    <3> DEFINE k == 1 + Len(attempts)
    <3>1. DOMAIN t.questions = {1}
      BY <1>2, <2>5
    <3>2. Q = {1}
      <4>1. Q # {} /\ Q \subseteq {1}
        <5>1. Q # {}
          BY <1>9, <2>1, FS_EmptySet
        <5> QED BY <3>1, <5>1
      <4> HIDE DEF Q
      <4> QED BY <4>1
    <3>3. new = {k} /\ seen = 1
      <4>1. new = {k}
        BY <3>2
      <4>2. seen = 1
        <5> HIDE DEF Q
        <5> QED BY <1>9, <3>2, FS_Singleton
      <4> QED BY <4>1, <4>2
    <3>4. k \in Nat /\ \A i \in Practising(n) : i < k
      <4>1. \A i \in 1 .. Len(attempts) : i < k
        BY <1>2
      <4> QED BY <1>2, <1>10, <4>1
    <3> HIDE DEF k, new, Q
    <3>5. (k \in Wrong' <=> t.ratio < 60) /\ (k \in Right' <=> t.ratio >= 80)
      BY <1>5, <3>3
    <3>6. Practising(n)' = Practising(n) \cup {k}
      BY <1>5, <2>5, <3>3
    <3>7. AtEnd(Practising(n) \cup {k}, Wrong') =
            IF t.ratio < 60 THEN AtEnd(Practising(n), Wrong) + 1 ELSE 0
      BY <1>12, <3>4, <3>5
    <3>8. AtEnd(Practising(n) \cup {k}, Right') =
            IF t.ratio >= 80 THEN AtEnd(Practising(n), Right) + 1 ELSE 0
      BY <1>12, <3>4, <3>5
    <3>9. t.rows[n] = Practised(Base(t, n), t.ratio)
      BY <1>7, <1>14, <2>5
    <3>10. AtEnd(Practising(n)', Wrong') = AtEnd(Practising(n) \cup {k}, Wrong')
           /\ AtEnd(Practising(n)', Right') = AtEnd(Practising(n) \cup {k}, Right')
      BY <3>6
    <3>11. t.rows[n] = [evidence |-> Cardinality(Answering(n)) + 1,
                        errors   |-> AtEnd(Practising(n) \cup {k}, Wrong'),
                        corrects |-> AtEnd(Practising(n) \cup {k}, Right')]
      BY <2>2, <3>7, <3>8, <3>9 DEF Practised
    <3> QED BY <1>5, <2>1, <2>3, <3>3, <3>10, <3>11
  <2> QED BY <2>4, <2>5
<1> QED BY <1>13, <1>14

\* It keeps the invariant.
LEMMA AnswersCommit ==
    ASSUME PracticeInv, LearnedInv, NEW r \in Requests, CommitAnswers(r)
    PROVE  LearnedInv'
<1> DEFINE t == tx[r]
<1>1. /\ Open(r) /\ Ready(r) /\ tx' = [tx EXCEPT ![r] = NoTx] /\ state' = Over(t.rows, state)
      /\ UNCHANGED <<profile, accepted>> /\ t.fresh = {} /\ t.todo = <<>>
      /\ t.kind \in {"practice", "exam"}
  BY DEF CommitAnswers, Ready
<1>2. OpenOK(t) /\ AnswersOK(t) /\ Seen(t) /\ Answers(t) /\ t.at = "open"
  BY <1>1, OpenFacts DEF Answers
<1>3. DOMAIN t.rows \subseteq Nodes /\ DOMAIN state = Nodes
  BY <1>2 DEF OpenOK, Work, LearnedInv, LearnedTypeOK
<1>4. \A x \in (Nodes \cup Profiles) \ DOMAIN t.rows : Committed(x)' = Committed(x)
  BY <1>1, <1>3 DEF Committed, Over
<1>5. RowsLocked' /\ \A y \in Transactions' : AnswersOK(y)' /\ OpenOK(y)' /\ Seen(y)'
  BY <1>1, <1>4, CommitKeeps
<1>6. \A x \in DOMAIN t.rows : t.rows[x] \in MasteryRows
  <2> SUFFICES ASSUME NEW x \in DOMAIN t.rows PROVE t.rows[x] \in MasteryRows
    OBVIOUS
  <2>1. x \in Nodes /\ Base(t, x) \in MasteryRows
    BY <1>1, <1>2, BaseTypes
  <2> DEFINE seen == Asking(t.questions, x) - Count(t.todo, x)
  <2>2. t.rows[x] = IF t.kind = "practice" THEN Practised(Base(t, x), t.ratio)
                    ELSE [Base(t, x) EXCEPT !.evidence = @ + seen]
    BY <1>2, <2>1 DEF Seen, AnswersSeen
  <2>3. seen \in Nat
    <3>1. <<>> \in Seq(ToDo)
      OBVIOUS
    <3>2. Count(t.todo, x) = 0
      BY <1>1, <3>1, CountFacts
    <3>3. Asking(t.questions, x) \in Nat
      BY <1>2, AskingFacts DEF AnswersOK
    <3> QED BY <3>2, <3>3
  <2> HIDE DEF seen, t
  <2>4. Practised(Base(t, x), t.ratio) \in MasteryRows
    BY <2>1 DEF MasteryRows, Practised
  <2>5. [Base(t, x) EXCEPT !.evidence = @ + seen] \in MasteryRows
    BY <2>1, <2>3 DEF MasteryRows
  <2> QED BY <2>2, <2>4, <2>5
<1>7. state' \in [Nodes -> MasteryRows \cup {NoRow}]
  <2>1. state \in [Nodes -> MasteryRows \cup {NoRow}]
    BY DEF LearnedInv, LearnedTypeOK
  <2>2. state' = [x \in Nodes |-> IF x \in DOMAIN t.rows THEN t.rows[x] ELSE state[x]]
    BY <1>1, <1>3 DEF Over
  <2> HIDE DEF t
  <2> QED BY <1>6, <2>1, <2>2
<1>8. LearnedTypeOK'
  <2>1. attempts' \in Seq(AttemptRows)
    BY AttemptsCommitted
  <2>2. profile' \in [Profiles -> ProfileRows \cup {NoRow}]
    BY <1>1 DEF LearnedInv, LearnedTypeOK
  <2> QED BY <1>5, <1>7, <2>1, <2>2 DEF LearnedTypeOK
<1>9. EvidenceCounts' /\ SamplesTellReports'
  BY <1>1, EvidenceCommitted, SameSamples DEF LearnedInv
<1> QED BY <1>5, <1>8, <1>9 DEF LearnedInv

\* The newest samples: the sample appended is the last of them, and the others
\* keep their distance from the end, plus one.
LEMMA RecentFacts ==
    ASSUME NEW s \in Seq(Nat \ {0}), NEW v \in Nat \ {0}, NEW n \in Nat \ {0}
    PROVE  LET u == Recent(Append(s, v), n)
               l == IF Len(s) + 1 > n THEN n ELSE Len(s) + 1
           IN  /\ u \in Seq(Nat \ {0}) /\ Len(u) = l
               /\ \A k \in 1 .. l : u[l + 1 - k] = IF k = 1 THEN v ELSE s[Len(s) + 2 - k]
<1> DEFINE S == Nat \ {0}
           a == Append(s, v)
           m == Len(s) + 1
           l == IF m > n THEN n ELSE m
           u == Recent(a, n)
<1>1. /\ a \in Seq(S) /\ Len(a) = m /\ m \in Nat /\ Len(s) \in Nat
      /\ \A i \in 1 .. m : a[i] = IF i = m THEN v ELSE s[i]
  OBVIOUS
<1> HIDE DEF a, S
<1>2. l \in Nat /\ l >= 1 /\ l <= m
  BY <1>1
<1>3. u \in Seq(S) /\ Len(u) = l /\ \A j \in 1 .. l : u[j] = a[m - l + j]
  <2>1. CASE m > n
    <3>1. u = SubSeq(a, m - n + 1, m) /\ l = n
      BY <1>1, <2>1 DEF Recent, LastOf
    <3>2. m - n + 1 \in 1 .. m /\ m - (m - n + 1) + 1 = n
      BY <1>1, <2>1
    <3>3. /\ SubSeq(a, m - n + 1, m) \in Seq(S) /\ Len(SubSeq(a, m - n + 1, m)) = n
          /\ \A j \in 1 .. n : SubSeq(a, m - n + 1, m)[j] = a[m - n + j]
      <4> DEFINE p == m - n + 1
      <4>1. p \in 1 .. m /\ p \in Int /\ m - p + 1 = n /\ \A j \in 1 .. n : p + j - 1 = m - n + j
        BY <1>1, <2>1
      <4> HIDE DEF p, m
      <4>2. /\ SubSeq(a, p, m) \in Seq(S) /\ Len(SubSeq(a, p, m)) = m - p + 1
            /\ \A j \in 1 .. m - p + 1 : SubSeq(a, p, m)[j] = a[p + j - 1]
        BY <1>1, <4>1
      <4> QED BY <4>1, <4>2 DEF p
    <3> QED BY <3>1, <3>3
  <2>2. CASE ~(m > n)
    <3>1. u = a /\ l = m
      BY <1>1, <2>2 DEF Recent
    <3>2. \A j \in 1 .. m : m - m + j = j
      BY <1>1
    <3> QED BY <1>1, <3>1, <3>2
  <2> QED BY <2>1, <2>2
<1> HIDE DEF u
<1>4. ASSUME NEW k \in 1 .. l PROVE u[l + 1 - k] = IF k = 1 THEN v ELSE s[Len(s) + 2 - k]
  <2>1. l + 1 - k \in 1 .. l /\ m - l + (l + 1 - k) = m + 1 - k /\ m + 1 - k \in 1 .. m
    <3> HIDE DEF l, m
    <3> QED BY <1>1, <1>2
  <2>2. u[l + 1 - k] = a[m + 1 - k]
    BY <1>3, <2>1
  <2>3. (m + 1 - k = m <=> k = 1) /\ m + 1 - k = Len(s) + 2 - k
    BY <1>1, <1>2
  <2> HIDE DEF l
  <2> QED BY <1>1, <2>1, <2>2, <2>3
<1> QED BY <1>3, <1>4 DEF u, a, S

\* How far i is from the end of I.
FromEnd(I, i) == Cardinality({k \in I : k >= i})

\* A report after all others: each of those is one further from the end.
LEMMA PlacesFromEnd ==
    ASSUME NEW I, IsFiniteSet(I), NEW last \in Nat, \A i \in I : i \in Nat /\ i < last
    PROVE  /\ Cardinality(I) \in Nat /\ Cardinality(I \cup {last}) = Cardinality(I) + 1
           /\ FromEnd(I \cup {last}, last) = 1
           /\ \A i \in I : /\ FromEnd(I, i) \in 1 .. Cardinality(I)
                           /\ FromEnd(I \cup {last}, i) = FromEnd(I, i) + 1
<1>1. last \notin I /\ Cardinality(I) \in Nat
  BY FS_CardinalityType
<1>2. Cardinality(I \cup {last}) = Cardinality(I) + 1
  BY <1>1, FS_AddElement
<1>3. Cardinality({k \in I \cup {last} : k >= last}) = 1
  <2>1. {k \in I \cup {last} : k >= last} = {last}
    OBVIOUS
  <2> QED BY <2>1, FS_Singleton
<1>4. ASSUME NEW i \in I
      PROVE  /\ Cardinality({k \in I : k >= i}) \in 1 .. Cardinality(I)
             /\ Cardinality({k \in I \cup {last} : k >= i}) = Cardinality({k \in I : k >= i}) + 1
  <2> DEFINE A == {k \in I : k >= i}
  <2>1. A \in SUBSET I /\ i \in A /\ last \notin A
    BY <1>1
  <2>2. {k \in I \cup {last} : k >= i} = A \cup {last}
    OBVIOUS
  <2> HIDE DEF A
  <2>3. /\ IsFiniteSet(A) /\ Cardinality(A) \in Nat /\ Cardinality(A) <= Cardinality(I)
        /\ Cardinality(A) # 0
    <3>1. IsFiniteSet(A) /\ Cardinality(A) <= Cardinality(I)
      BY <2>1, FS_Subset
    <3> QED BY <2>1, <3>1, FS_CardinalityType, FS_EmptySet
  <2>4. Cardinality(A \cup {last}) = Cardinality(A) + 1
    BY <2>1, <2>3, FS_AddElement
  <2> QED BY <1>1, <2>2, <2>3, <2>4 DEF A
<1> QED BY <1>1, <1>2, <1>3, <1>4 DEF FromEnd

\* A commit of a report appends it to the accepted ones.
LEMMA SamplesAppended ==
    ASSUME PracticeInv, LearnedInv, NEW r \in Requests, CommitReport(r)
    PROVE  LET last == Len(accepted) + 1
           IN  /\ last \in Nat /\ DOMAIN accepted' = DOMAIN accepted \cup {last}
               /\ \A i \in DOMAIN accepted : i \in Nat /\ i < last /\ accepted'[i] = accepted[i]
               /\ IsFiniteSet(DOMAIN accepted)
               /\ accepted'[last].samples = ReportSamples(tx[r].kind, tx[r].task, tx[r].report)
<1> DEFINE last == Len(accepted) + 1
           samples == ReportSamples(tx[r].kind, tx[r].task, tx[r].report)
           row == [task |-> tx[r].task, seen |-> tx[r].seen, anomaly |-> tx[r].anomaly,
                   completion |-> tx[r].report.completion, samples |-> samples]
<1>1. accepted' = Append(accepted, row)
  BY DEF CommitReport
<1>2. accepted \in Seq(AcceptedRows) /\ row.samples = samples
  BY DEF PracticeInv, PracticeTypeOK
<1> HIDE DEF row, samples
<1>3. /\ last \in Nat /\ DOMAIN accepted' = DOMAIN accepted \cup {last} /\ accepted'[last] = row
      /\ \A i \in DOMAIN accepted : i \in Nat /\ i < last /\ accepted'[i] = accepted[i]
  BY <1>1, <1>2
<1>4. IsFiniteSet(DOMAIN accepted)
  <2>1. DOMAIN accepted = 1 .. Len(accepted) /\ Len(accepted) \in Nat
    BY <1>2
  <2> QED BY <2>1, FS_Interval
<1> QED BY <1>2, <1>3, <1>4 DEF samples

\* It leaves the profiles alone that it has no sample for.
LEMMA ProfileUntouched ==
    ASSUME PracticeInv, LearnedInv, NEW r \in Requests, CommitReport(r), NEW p \in Profiles,
           LET samples == ReportSamples(tx[r].kind, tx[r].task, tx[r].report)
           IN  samples = <<>> \/ samples[1].row # p
    PROVE  SamplesTell(p)'
<1> DEFINE t == tx[r]
           samples == ReportSamples(t.kind, t.task, t.report)
           last == Len(accepted) + 1
<1>1. /\ Open(r) /\ Seen(t) /\ t.at = "open" /\ ~Answers(t) /\ profile' = Over(t.rows, profile)
  BY OpenFacts DEF CommitReport, Ready, Answers
<1>2. DOMAIN t.rows = {} \/ (samples # <<>> /\ DOMAIN t.rows = {samples[1].row})
  BY <1>1 DEF Seen, SampleSeen
<1>3. profile'[p] = profile[p]
  BY <1>1, <1>2 DEF Over, LearnedInv, LearnedTypeOK
<1>4. /\ DOMAIN accepted' = DOMAIN accepted \cup {last} /\ accepted'[last].samples = samples
      /\ \A i \in DOMAIN accepted : accepted'[i] = accepted[i]
      /\ \A i \in DOMAIN accepted : i \in Nat /\ i < last
  BY SamplesAppended
<1> HIDE DEF samples, last, t
<1>5. Sampling(p)' = Sampling(p) /\ \A i \in Sampling(p) : accepted'[i] = accepted[i]
  BY <1>4 DEF Sampling, samples, t
<1>6. SamplesTell(p)
  BY DEF LearnedInv, SamplesTellReports
<1> QED BY <1>3, <1>5, <1>6 DEF SamplesTell

\* The samples of p when r commits, before its own.
LEMMA SamplesBefore ==
    ASSUME PracticeInv, LearnedInv, NEW r \in Requests, Ready(r), ~Answers(tx[r]),
           NEW p \in DOMAIN tx[r].rows
    PROVE  LET s == Base(tx[r], p).samples
               many == Cardinality(Sampling(p))
               fromEnd(i) == Cardinality({k \in Sampling(p) : k >= i})
           IN  /\ s \in Seq(Nat \ {0})
               /\ Len(s) = IF many > MaxSamples THEN MaxSamples ELSE many
               /\ \A i \in Sampling(p) : fromEnd(i) <= MaxSamples =>
                    s[Len(s) + 1 - fromEnd(i)] = accepted[i].samples[1].saw
<1> DEFINE t == tx[r]
<1>1. Open(r) /\ t.fresh = {}
  BY DEF Ready
<1>2. /\ p \in Mine(r) /\ p \in Profiles /\ p \notin Nodes /\ Base(t, p) \in ProfileRows
  BY <1>1, BaseTypes DEF Mine
<1>3. Committed(p) = profile[p] /\ New(p) = NewProfile
  BY <1>2 DEF Committed, New
<1>4. p \in t.inserted <=> profile[p] = NoRow
  BY <1>1, <1>2, <1>3, OpenFacts
<1>5. SamplesTell(p)
  BY <1>2 DEF LearnedInv, SamplesTellReports
<1>6. Base(t, p).samples \in Seq(Nat \ {0})
  BY <1>2 DEF ProfileRows
<1>7. CASE Sampling(p) = {}
  <2>1. Base(t, p) = NewProfile
    BY <1>1, <1>3, <1>4, <1>5, <1>7 DEF SamplesTell, Base
  <2>2. Len(Base(t, p).samples) = 0
    BY <2>1 DEF NewProfile
  <2>3. Cardinality(Sampling(p)) = 0 /\ ~(0 > MaxSamples)
    BY <1>7, FS_EmptySet, PracticeAssumption
  <2> QED BY <1>6, <1>7, <2>2, <2>3
<1>8. CASE Sampling(p) # {}
  <2>1. profile[p] # NoRow
    BY <1>5, <1>8 DEF SamplesTell
  <2>2. Base(t, p) = profile[p]
    BY <1>1, <1>3, <1>4, <2>1 DEF Base
  <2> QED BY <1>5, <1>6, <1>8, <2>2 DEF SamplesTell
<1> QED BY <1>7, <1>8

\* The profile of its sample tells it too.
LEMMA ProfileTold ==
    ASSUME PracticeInv, LearnedInv, NEW r \in Requests, CommitReport(r), NEW p \in Profiles,
           LET samples == ReportSamples(tx[r].kind, tx[r].task, tx[r].report)
           IN  samples # <<>> /\ samples[1].row = p
    PROVE  SamplesTell(p)' /\ profile'[p] \in ProfileRows
<1> DEFINE t == tx[r]
           samples == ReportSamples(t.kind, t.task, t.report)
           v == samples[1].saw
           last == Len(accepted) + 1
           I == Sampling(p)
           s == Base(t, p).samples
           u == Recent(Append(s, v), MaxSamples)
           l == IF Len(s) + 1 > MaxSamples THEN MaxSamples ELSE Len(s) + 1
           was(i) == FromEnd(I, i)
           now(i) == FromEnd(I \cup {last}, i)
<1>1. /\ Ready(r) /\ Open(r) /\ Seen(t) /\ t.at = "open" /\ ~Answers(t) /\ t.todo = <<>>
      /\ TxOK(t) /\ t.kind \in {"post", "put"} /\ profile' = Over(t.rows, profile)
  BY OpenFacts DEF CommitReport, Ready, Answers
<1>2. samples # <<>> /\ samples[1].row = p /\ v \in Nat \ {0}
  <2>1. t.task \in Tasks /\ t.report \in Reports
    BY <1>1 DEF TxOK, IsReport
  <2> QED BY <1>1, <2>1, SampleTypes
<1>3. DOMAIN t.rows = {p} /\ t.rows[p] = Sampled(Base(t, p), v)
  BY <1>1, <1>2 DEF Seen, SampleSeen
<1>4. profile'[p] = Sampled(Base(t, p), v)
  BY <1>1, <1>3 DEF Over, LearnedInv, LearnedTypeOK
<1>5. /\ s \in Seq(Nat \ {0})
      /\ Len(s) = IF Cardinality(I) > MaxSamples THEN MaxSamples ELSE Cardinality(I)
      /\ \A i \in I : was(i) <= MaxSamples =>
           s[Len(s) + 1 - was(i)] = accepted[i].samples[1].saw
  BY <1>1, <1>3, SamplesBefore DEF FromEnd
<1>6. /\ last \in Nat /\ DOMAIN accepted' = DOMAIN accepted \cup {last}
      /\ \A i \in DOMAIN accepted : i \in Nat /\ i < last /\ accepted'[i] = accepted[i]
      /\ IsFiniteSet(DOMAIN accepted)
      /\ accepted'[last].samples = samples
  BY SamplesAppended
<1>7. MaxSamples \in Nat \ {0}
  BY PracticeAssumption
<1> HIDE DEF t, samples, v, last, s, u
<1>8. Sampling(p)' = I \cup {last}
  BY <1>2, <1>6 DEF Sampling
<1>9. I \in SUBSET DOMAIN accepted
  BY DEF Sampling
<1>10. IsFiniteSet(I) /\ \A i \in I : i \in Nat /\ i < last /\ accepted'[i] = accepted[i]
  BY <1>6, <1>9, FS_Subset
<1>11. profile'[p] = Estimated(u)
  BY <1>4 DEF Sampled, s, u
<1>12. /\ u \in Seq(Nat \ {0}) /\ Len(u) = l
       /\ \A k \in 1 .. l : u[l + 1 - k] = IF k = 1 THEN v ELSE s[Len(s) + 2 - k]
  BY <1>2, <1>5, <1>7, RecentFacts DEF u
<1>13. Len(s) \in Nat /\ l \in Nat /\ l >= 1 /\ u # <<>>
  BY <1>5, <1>7, <1>12
<1>14. /\ Estimated(u) \in ProfileRows /\ Estimated(u).samples = u
       /\ Estimated(u).p50 <= Estimated(u).p75
       /\ \E x \in Range(u) : x <= Estimated(u).p50
       /\ \E x \in Range(u) : x >= Estimated(u).p75
  BY <1>12, <1>13, Estimation
<1>15. /\ Cardinality(I) \in Nat /\ Cardinality(I \cup {last}) = Cardinality(I) + 1
       /\ now(last) = 1
       /\ \A i \in I : was(i) \in 1 .. Cardinality(I) /\ now(i) = was(i) + 1
  <2> HIDE DEF I
  <2> QED BY <1>6, <1>10, PlacesFromEnd
<1> HIDE DEF I, was, now
<1>16. Len(u) = IF Cardinality(I \cup {last}) > MaxSamples THEN MaxSamples
                ELSE Cardinality(I \cup {last})
  BY <1>5, <1>7, <1>12, <1>15
<1>17. ASSUME NEW i \in I \cup {last}, now(i) <= MaxSamples
       PROVE  u[Len(u) + 1 - now(i)] = accepted'[i].samples[1].saw
  <2>1. CASE i = last
    <3>1. 1 \in 1 .. l
      BY <1>13
    <3>2. u[l + 1 - 1] = v
      BY <1>12, <3>1
    <3> QED BY <1>6, <1>12, <1>15, <2>1, <3>2 DEF v
  <2>2. CASE i \in I
    <3>1. was(i) \in 1 .. Cardinality(I) /\ now(i) = was(i) + 1
      BY <1>15, <2>2
    <3>2. /\ now(i) \in 1 .. l /\ now(i) # 1 /\ was(i) <= MaxSamples
          /\ Len(s) + 2 - now(i) = Len(s) + 1 - was(i)
      <4>1. was(i) \in Nat /\ was(i) >= 1 /\ was(i) <= Cardinality(I) /\ was(i) + 1 <= MaxSamples
        BY <1>15, <1>17, <3>1
      <4>2. now(i) <= l
        <5>1. was(i) <= Len(s)
          BY <1>5, <1>7, <1>15, <4>1
        <5> QED BY <1>7, <1>13, <3>1, <4>1, <5>1
      <4> HIDE DEF l
      <4> QED BY <1>7, <1>13, <3>1, <4>1, <4>2
    <3> HIDE DEF l
    <3>3. u[l + 1 - now(i)] = s[Len(s) + 1 - was(i)]
      BY <1>12, <3>2
    <3>4. s[Len(s) + 1 - was(i)] = accepted'[i].samples[1].saw
      BY <1>5, <1>10, <2>2, <3>2
    <3> QED BY <1>12, <3>3, <3>4
  <2> QED BY <1>17, <2>1, <2>2
<1>18. profile'[p] \in ProfileRows /\ profile'[p] # NoRow /\ profile'[p].samples = u
  <2>1. NoRow \notin ProfileRows
    BY DEF NoRow, ProfileRows
  <2> QED BY <1>11, <1>14, <2>1
<1>19. SamplesTell(p)'
  <2> DEFINE S == I \cup {last}
  <2>1. /\ Sampling(p)' = S /\ S # {} /\ profile'[p] # NoRow /\ profile'[p].samples = u
        /\ Len(u) = IF Cardinality(S) > MaxSamples THEN MaxSamples ELSE Cardinality(S)
        /\ profile'[p].p50 <= profile'[p].p75
        /\ \E x \in Range(u) : x <= profile'[p].p50
        /\ \E x \in Range(u) : x >= profile'[p].p75
    BY <1>8, <1>11, <1>14, <1>16, <1>18 DEF I
  <2>2. \A i \in S : Cardinality({k \in S : k >= i}) <= MaxSamples =>
          u[Len(u) + 1 - Cardinality({k \in S : k >= i})] = accepted'[i].samples[1].saw
    BY <1>17 DEF now, FromEnd
  <2> HIDE DEF S
  <2> QED BY <2>1, <2>2 DEF SamplesTell
<1> QED BY <1>18, <1>19

\* A commit of a report keeps the invariant.
LEMMA ReportCommit ==
    ASSUME PracticeInv, LearnedInv, NEW r \in Requests, CommitReport(r)
    PROVE  LearnedInv'
<1> DEFINE t == tx[r]
           samples == ReportSamples(t.kind, t.task, t.report)
<1>1. /\ Open(r) /\ Ready(r) /\ tx' = [tx EXCEPT ![r] = NoTx]
      /\ profile' = Over(t.rows, profile)
      /\ UNCHANGED <<attempts, state>> /\ t.kind \in {"post", "put"} /\ ~Answers(t)
  BY DEF CommitReport, Ready, Answers
<1>2. OpenOK(t) /\ Seen(t) /\ t.at = "open"
  BY <1>1, OpenFacts
<1>3. DOMAIN t.rows \subseteq Profiles /\ DOMAIN profile = Profiles
  BY <1>1, <1>2 DEF OpenOK, Work, LearnedInv, LearnedTypeOK
<1>4. \A x \in (Nodes \cup Profiles) \ DOMAIN t.rows : Committed(x)' = Committed(x)
  BY <1>1, <1>3 DEF Committed, Over
<1>5. RowsLocked' /\ \A y \in Transactions' : AnswersOK(y)' /\ OpenOK(y)' /\ Seen(y)'
  BY <1>1, <1>4, CommitKeeps
<1>6. ASSUME NEW p \in Profiles
      PROVE  SamplesTell(p)' /\ profile'[p] \in ProfileRows \cup {NoRow}
  <2>1. CASE samples # <<>> /\ samples[1].row = p
    BY <2>1, ProfileTold
  <2>2. CASE samples = <<>> \/ samples[1].row # p
    <3>1. SamplesTell(p)'
      BY <2>2, ProfileUntouched
    <3>2. p \notin DOMAIN t.rows
      BY <1>1, <1>2, <2>2 DEF Seen, SampleSeen
    <3>3. profile'[p] = profile[p]
      BY <1>1, <1>3, <3>2 DEF Over
    <3> QED BY <3>1, <3>3 DEF LearnedInv, LearnedTypeOK
  <2> QED BY <2>1, <2>2
<1>7. profile' \in [Profiles -> ProfileRows \cup {NoRow}]
  <2>1. profile' = [x \in Profiles |-> profile'[x]]
    BY <1>1, <1>3 DEF Over
  <2> QED BY <1>6, <2>1
<1>8. LearnedTypeOK'
  BY <1>1, <1>5, <1>7 DEF LearnedInv, LearnedTypeOK
<1>9. SamplesTellReports'
  BY <1>6 DEF SamplesTellReports
<1>10. EvidenceCounts'
  BY <1>1, SameEvidence DEF LearnedInv
<1> QED BY <1>5, <1>8, <1>9, <1>10 DEF LearnedInv

\* A step that stores no more than answers keeps it, if EvidenceCounts.
LEMMA AttemptsStored ==
    ASSUME LearnedInv, UNCHANGED <<tx, state, profile, accepted>>,
           attempts' \in Seq(AttemptRows), EvidenceCounts'
    PROVE  LearnedInv'
<1>1. /\ Transactions' = Transactions /\ \A x : Committed(x)' = Committed(x)
      /\ \A r \in Requests : Open(r)' = Open(r) /\ Mine(r)' = Mine(r)
  BY DEF Transactions, Committed, Open, Mine
<1>2. \A t \in Transactions : AnswersOK(t) /\ OpenOK(t) /\ Seen(t)
  BY DEF LearnedInv, LearnedTypeOK
<1>3. ASSUME NEW t, AnswersOK(t), OpenOK(t) PROVE AnswersOK(t)' /\ OpenOK(t)'
  BY <1>3 DEF AnswersOK, OpenOK, Answers, Work
<1>4. \A t \in Transactions : Seen(t)'
  BY <1>1, <1>2, SeenKept
<1>5. LearnedTypeOK'
  BY <1>1, <1>2, <1>3 DEF LearnedInv, LearnedTypeOK
<1>6. RowsLocked'
  BY <1>1 DEF LearnedInv, RowsLocked
<1>7. SamplesTellReports'
  BY SameSamples DEF LearnedInv
<1> QED BY <1>1, <1>4, <1>5, <1>6, <1>7 DEF LearnedInv

\* The answers of a chapter session are recorded, and are no evidence.
LEMMA ChapterSubmits ==
    ASSUME LearnedInv, NEW k \in Keys, NEW c \in Chapters, NEW ratio \in Ratios,
           SubmitChapter(k, c, ratio)
    PROVE  LearnedInv'
<1> DEFINE new == {q \in c : ~ChapterAnswered(k, q)}
           Row(q) == [kind |-> "chapter", key |-> k, question |-> q, ratio |-> ratio,
                      task |-> NoTask]
<1>1. PICK order \in [1 .. Cardinality(new) -> new] :
         attempts' = attempts \o [i \in DOMAIN order |-> Row(order[i])]
  BY DEF SubmitChapter
<1>2. Cardinality(new) \in Nat
  <2>1. IsFiniteSet(c) /\ new \subseteq c
    BY PracticeAssumption
  <2> QED BY <2>1, FS_Subset, FS_CardinalityType
<1>3. \A q \in new : Row(q) \in AttemptRows /\ Row(q).kind = "chapter"
  <2>1. new \subseteq Questions
    BY PracticeAssumption
  <2> QED BY <2>1 DEF AttemptRows
<1> DEFINE rows == [i \in DOMAIN order |-> Row(order[i])]
           m == Cardinality(new)
<1>4. /\ rows \in Seq(AttemptRows) /\ Len(rows) = m
      /\ \A i \in 1 .. m : rows[i].kind = "chapter"
  <2> HIDE DEF new, Row
  <2>1. DOMAIN order = 1 .. m /\ \A i \in 1 .. m : order[i] \in new
    BY <1>1
  <2> QED BY <1>2, <1>3, <2>1
<1>5. attempts \in Seq(AttemptRows) /\ attempts' = attempts \o rows
  BY <1>1 DEF LearnedInv, LearnedTypeOK
<1> HIDE DEF rows, m, new, Row
<1>6. /\ attempts' \in Seq(AttemptRows)
      /\ DOMAIN attempts \subseteq DOMAIN attempts'
      /\ \A i \in DOMAIN attempts : attempts'[i] = attempts[i]
      /\ \A i \in DOMAIN attempts' \ DOMAIN attempts : attempts'[i].kind = "chapter"
  <2>1. /\ attempts \o rows \in Seq(AttemptRows) /\ Len(attempts) \in Nat /\ Len(rows) \in Nat
        /\ DOMAIN attempts = 1 .. Len(attempts)
        /\ DOMAIN (attempts \o rows) = 1 .. Len(attempts) + Len(rows)
        /\ \A i \in DOMAIN attempts : (attempts \o rows)[i] = attempts[i]
        /\ \A i \in 1 .. Len(attempts) + Len(rows) : i > Len(attempts) =>
              (attempts \o rows)[i] = rows[i - Len(attempts)]
    BY <1>4, <1>5
  <2>2. \A i \in 1 .. Len(attempts) + Len(rows) : i > Len(attempts) =>
           i - Len(attempts) \in 1 .. Len(rows)
    BY <2>1
  <2> QED BY <1>4, <1>5, <2>1, <2>2
<1>7. EvidenceCounts'
  <2>1. ASSUME NEW n \in Nodes
        PROVE  Answering(n)' = Answering(n) /\ Practising(n)' = Practising(n)
    <3>1. Answering(n)' = Answering(n)
      BY <1>6 DEF Answering
    <3> QED BY <1>6, <3>1 DEF Practising, Answering
  <2>2. ASSUME NEW n \in Nodes
        PROVE  /\ AtEnd(Practising(n), Wrong)' = AtEnd(Practising(n), Wrong)
               /\ AtEnd(Practising(n), Right)' = AtEnd(Practising(n), Right)
    <3>1. \A i \in Practising(n) :
             (i \in Wrong' <=> i \in Wrong) /\ (i \in Right' <=> i \in Right)
      BY <1>6 DEF Practising, Answering, Wrong, Right
    <3> QED BY <2>1, <3>1 DEF AtEnd
  <2>3. UNCHANGED state
    BY DEF SubmitChapter
  <2> QED BY <2>1, <2>2, <2>3 DEF LearnedInv, EvidenceCounts
<1> QED BY <1>5, <1>6, <1>7, AttemptsStored DEF SubmitChapter

\* Every step of the practice and feedback code keeps it.
LEMMA LearnedNext ==
    ASSUME PracticeInv, LearnedInv, [PracticeNext]_practiceVars
    PROVE  LearnedInv'
<1>1. ASSUME NEW r \in Requests, Answer(r) PROVE LearnedInv'
  BY <1>1, AnswersBegin, AnswersInsert, AnswersCommit DEF Answer
<1>2. ASSUME NEW r \in Requests, Report(r) PROVE LearnedInv'
  BY <1>2, ReportBegins, ReportLocks, ReportCommit DEF Report
<1>3. ASSUME NEW r \in Requests, LoadRow(r) \/ InsertRow(r) \/ Abort(r) PROVE LearnedInv'
  BY <1>3, RowLoads, RowInserts, LearnedAborts
<1>4. CASE UNCHANGED practiceVars
  <2>1. UNCHANGED <<tx, attempts, state, profile, accepted>>
    BY <1>4 DEF practiceVars, stored
  <2>2. EvidenceCounts'
    BY <2>1, SameEvidence DEF LearnedInv
  <2> QED BY <2>1, <2>2, AttemptsStored DEF LearnedInv, LearnedTypeOK
<1>5. ASSUME NEW k \in Keys, NEW c \in Chapters, NEW ratio \in Ratios, SubmitChapter(k, c, ratio)
      PROVE  LearnedInv'
  BY <1>5, ChapterSubmits
<1> QED BY <1>1, <1>2, <1>3, <1>4, <1>5 DEF PracticeNext

\* In every reachable state the rows that an open transaction has loaded are
\* its own, and hold what was committed moved by what it has observed: the
\* invariant that the two theorems below need.
THEOREM LearnedInvariant == PracticeSpec => []LearnedInv
BY PracticeInvariant, LearnedInit, LearnedNext, PTL DEF PracticeSpec

\* The mastery of a knowledge point counts once each answer about it that was
\* recorded in practice or in a whole exam, and none of a chapter session, and
\* has the streaks at the end of its practice, for any number of concurrent,
\* retried and aborted submissions.
THEOREM EvidenceIsCounted == PracticeSpec => []EvidenceCounts
<1>1. LearnedInv => EvidenceCounts
  BY DEF LearnedInv
<1> QED BY <1>1, LearnedInvariant, PTL

\* An efficiency profile has the samples of the last accepted reports for it,
\* each once and in order, and percentiles that lie among them.
THEOREM SamplesAreTold == PracticeSpec => []SamplesTellReports
<1>1. LearnedInv => SamplesTellReports
  BY DEF LearnedInv
<1> QED BY <1>1, LearnedInvariant, PTL
=============================================================================
