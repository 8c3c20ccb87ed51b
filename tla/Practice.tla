------------------------------ MODULE Practice ------------------------------
(***************************************************************************)
(* What a student reports and what the program learns from it              *)
(* (app/application/practice.py, with the mastery updates of true_exams.py *)
(* and mock_exams.py and the estimators of app/domain/learning): answers   *)
(* given in practice and in whole exams move the mastery of their          *)
(* knowledge points, reports on tasks move the efficiency profile and may  *)
(* ask the agent for a diagnosis.  Chapter true exams (unlocks.py) record  *)
(* their answers in the same table, and move no mastery.                   *)
(*                                                                         *)
(* A request is one transaction under READ COMMITTED.  It is split where   *)
(* it takes a row lock or inserts under a unique constraint, and it may be *)
(* aborted at every such place: by a constraint, by the deadlock detector  *)
(* of PostgreSQL or by a lost connection.  The client may then retry it    *)
(* with the same key.                                                      *)
(***************************************************************************)
EXTENDS Integers, Sequences, FiniteSets, Functions

CONSTANTS Requests,     \* concurrent requests
          Keys,         \* idempotency keys
          Nodes,        \* knowledge points
          Questions,
          KnowledgeOf,  \* KnowledgeOf[q]: its knowledge points, as the query lists them
          Exams,        \* whole true or mock exams, as sequences of questions
          Chapters,     \* chapter true exam sessions, as sets of questions
          Ratios,       \* score_ratio of an answer, in percent
          Tasks,        \* plan tasks of one task type
          Assigned,     \* <<t, q>>: question q belongs to task t
          Topic,        \* Topic[t]: the knowledge point of t
          NoTask,       \* an answer outside any task
          General,      \* the profile with knowledge_id NULL
          Reports,      \* what a student may report on a task
          MaxSamples,   \* EfficiencyEstimator.max_samples
          StreakLimit,  \* errors in a row that are an anomaly
          MaxWrites     \* bound: answers and reports stored when the last request begins

\* The efficiency profiles, one for each knowledge point of a task.
Profiles == {<<"profile", Topic[t]>> : t \in Tasks} \cup {<<"profile", General>>}

\* A question is linked to a knowledge point once (the primary key of
\* question_knowledge).  A report: seconds per unit, completion in percent, the
\* total above one and a half times what was expected, fewer than 40% of five
\* or more units right, and whether any unit was done at all.
ASSUME PracticeAssumption ==
    /\ KnowledgeOf \in [Questions -> Seq(Nodes)]
    /\ \A q \in Questions : \A i, j \in DOMAIN KnowledgeOf[q] :
         KnowledgeOf[q][i] = KnowledgeOf[q][j] => i = j
    /\ Nodes \cap Profiles = {}
    /\ \A e \in Exams : e \in Seq(Questions)
    /\ \A c \in Chapters : c \subseteq Questions /\ IsFiniteSet(c)
    /\ Ratios \subseteq 0 .. 100
    /\ Assigned \subseteq Tasks \X Questions /\ Topic \in [Tasks -> Nodes]
    /\ NoTask \notin Tasks /\ General \notin Nodes
    /\ Reports \subseteq [sample : Nat \ {0}, completion : 0 .. 100, slow : BOOLEAN,
                          poor : BOOLEAN, units : BOOLEAN]
    /\ MaxSamples \in Nat \ {0} /\ StreakLimit \in Nat \ {0}
    /\ MaxWrites \in Nat

VARIABLES attempts,  \* the QuestionAttempt rows, in the order of their commits
          state,     \* state[n]: the StudentKnowledgeState, or NoRow
          status,    \* status[t]: PlanTask.status
          feedback,  \* the Feedback rows, in the order of their creation
          profile,   \* profile[p]: the EfficiencyProfile, or NoRow
          jobs,      \* the idempotency keys of the AGENT_DIAGNOSIS jobs
          accepted,  \* the reports answered with success, in that order
          tx         \* tx[r]: the open transaction of request r

stored == <<attempts, state, status, feedback, profile, jobs, accepted>>
practiceVars == <<stored, tx>>

NoRow == [none |-> TRUE]
NoTx == [at |-> "idle"]

PracticeInit ==
    /\ attempts = <<>> /\ feedback = <<>> /\ accepted = <<>> /\ jobs = {}
    /\ state = [n \in Nodes |-> NoRow]
    /\ profile = [p \in Profiles |-> NoRow]
    /\ status = [t \in Tasks |-> "PENDING"]
    /\ tx = [r \in Requests |-> NoTx]

-----------------------------------------------------------------------------
\* Mastery

NewState == [evidence |-> 0, errors |-> 0, corrects |-> 0]

\* MasteryStrategy.update and the streaks, which exams leave alone.
Practised(row, ratio) ==
    [evidence |-> row.evidence + 1,
     errors   |-> IF ratio < 60 THEN row.errors + 1 ELSE 0,
     corrects |-> IF ratio >= 80 THEN row.corrects + 1 ELSE 0]
Examined(row) == [row EXCEPT !.evidence = @ + 1]

-----------------------------------------------------------------------------
\* Efficiency

\* round() of a / b: a half goes to the even neighbour.
Round(a, b) ==
    LET q == a \div b  m == 2 * (a % b)
    IN  IF m > b \/ (m = b /\ q % 2 = 1) THEN q + 1 ELSE q

\* Variant: the part between two samples is added to the upper one.
PercentileAbove(values, quarters) ==
    LET index == (Len(values) - 1) * quarters
        lower == values[index \div 4 + 1]
        upper == IF index % 4 = 0 THEN lower ELSE values[index \div 4 + 2]
    IN  Round(4 * upper + (upper - lower) * (index % 4), 4)

\* EfficiencyEstimator._percentile, of a sorted list, in quarters.
Percentile(values, quarters) ==
    LET index == (Len(values) - 1) * quarters
        lower == values[index \div 4 + 1]
        upper == IF index % 4 = 0 THEN lower ELSE values[index \div 4 + 2]
    IN  Round(4 * lower + (upper - lower) * (index % 4), 4)

LastOf(s, n) == SubSeq(s, Len(s) - n + 1, Len(s))
Recent(s, n) == IF Len(s) > n THEN LastOf(s, n) ELSE s

\* sorted(): the sample at place k has fewer than k samples below it.
Sorted(samples) ==
    [k \in DOMAIN samples |->
        CHOOSE v \in Range(samples) :
            /\ Cardinality({i \in DOMAIN samples : samples[i] < v}) < k
            /\ Cardinality({i \in DOMAIN samples : samples[i] <= v}) >= k]

\* EfficiencyEstimator.estimate
Estimated(samples) ==
    [samples |-> samples,
     p50 |-> Percentile(Sorted(samples), 2), p75 |-> Percentile(Sorted(samples), 3)]

NewProfile == [samples |-> <<>>, p50 |-> 0, p75 |-> 0]
Sampled(row, sample) == Estimated(Recent(Append(row.samples, sample), MaxSamples))

-----------------------------------------------------------------------------
\* Anomalies

\* The feedback of a task (uq_feedback_task), and its version.
FeedbackOf(t) == {i \in DOMAIN feedback : feedback[i].task = t}
FeedbackRow(t) == CHOOSE i \in FeedbackOf(t) : TRUE
VersionOf(t) == IF FeedbackOf(t) = {} THEN 0 ELSE feedback[FeedbackRow(t)].version

\* _same_error_streak of _recent_attempts: the newest answers of the task.
SameErrorStreak(t) ==
    LET recent == SelectSeq(attempts, LAMBDA a : a.task = t)
        wrong(n) == \A i \in 1 .. n : recent[Len(recent) + 1 - i].ratio < 60
    IN  CHOOSE n \in 0 .. Len(recent) :
            wrong(n) /\ (n < Len(recent) => ~wrong(n + 1))

\* _low_completion_days: among the two newest feedback rows, of any day.
LowCompletionDays ==
    Cardinality({i \in DOMAIN feedback : i > Len(feedback) - 2 /\ feedback[i].completion < 60})

\* AnomalyDetector.detect, for POST
Detect(t, report) ==
    \/ report.slow
    \/ report.poor
    \/ SameErrorStreak(t) >= StreakLimit
    \/ LowCompletionDays >= 2 /\ report.completion < 60

\* _learning_anomaly, for PUT
LearningAnomaly(report) == report.slow \/ report.poor \/ report.completion < 60

-----------------------------------------------------------------------------
\* Transactions.  rows: what the transaction holds of each row it has loaded;
\* fresh: a row it found missing and has not inserted yet; todo: the rows still
\* to be loaded, each with what is to be observed there.

Open(r) == tx[r].at = "open"
Others(r) == {o \in Requests \ {r} : Open(o)}

\* A row that existed when it was loaded is locked until the end.
Locks(o, x) == x \in DOMAIN tx[o].rows /\ x \notin tx[o].inserted \cup tx[o].fresh
Committed(x) == IF x \in Nodes THEN state[x] ELSE profile[x]
New(x) == IF x \in Nodes THEN NewState ELSE NewProfile

\* Rows written over those there were.
Over(new, old) ==
    [x \in DOMAIN new \cup DOMAIN old |-> IF x \in DOMAIN new THEN new[x] ELSE old[x]]

Observe(r, x, row) ==
    LET o == Head(tx[r].todo).saw
    IN  IF x \notin Nodes THEN Sampled(row, o)
        ELSE IF tx[r].kind = "practice" THEN Practised(row, o) ELSE Examined(row)

\* Variant: SELECT without FOR UPDATE.
LoadRowUnlocked(r) ==
    /\ Open(r) /\ tx[r].todo # <<>> /\ tx[r].fresh = {}
    /\ LET x == Head(tx[r].todo).row
           held == x \in DOMAIN tx[r].rows
           row == IF held THEN tx[r].rows[x]
                  ELSE IF Committed(x) = NoRow THEN New(x) ELSE Committed(x)
       IN  tx' = [tx EXCEPT ![r].rows = Over([z \in {x} |-> Observe(r, x, row)], @),
                            ![r].fresh = IF ~held /\ Committed(x) = NoRow THEN {x} ELSE {},
                            ![r].todo = Tail(@)]
    /\ UNCHANGED stored

\* SELECT ... FOR UPDATE waits for the transaction that has locked the row; a
\* row that another one has inserted and not committed is not seen at all.
LoadRow(r) ==
    /\ Open(r) /\ tx[r].todo # <<>> /\ tx[r].fresh = {}
    /\ LET x == Head(tx[r].todo).row
           held == x \in DOMAIN tx[r].rows
           row == IF held THEN tx[r].rows[x]
                  ELSE IF Committed(x) = NoRow THEN New(x) ELSE Committed(x)
       IN  /\ \A o \in Others(r) : ~Locks(o, x)
           /\ tx' = [tx EXCEPT ![r].rows = Over([z \in {x} |-> Observe(r, x, row)], @),
                               ![r].fresh = IF ~held /\ Committed(x) = NoRow THEN {x} ELSE {},
                               ![r].todo = Tail(@)]
    /\ UNCHANGED stored

\* The next query or the commit flushes the new row: the unique constraint waits
\* for another insert of it and fails once that is committed.
InsertRow(r) ==
    /\ Open(r) /\ tx[r].fresh # {}
    /\ \A x \in tx[r].fresh :
         /\ \A o \in Others(r) : x \notin tx[o].inserted
         /\ tx' = [tx EXCEPT ![r] = IF Committed(x) # NoRow THEN NoTx
                                    ELSE [tx[r] EXCEPT !.fresh = {}, !.inserted = @ \cup {x}]]
    /\ UNCHANGED stored

\* Deadlock, lost connection, crash: everything is rolled back.
Abort(r) ==
    /\ tx[r] # NoTx
    /\ tx' = [tx EXCEPT ![r] = NoTx]
    /\ UNCHANGED stored

Ready(r) == Open(r) /\ tx[r].todo = <<>> /\ tx[r].fresh = {}

-----------------------------------------------------------------------------
\* Answers

Recorded(kind, k) == \E i \in DOMAIN attempts : attempts[i].kind = kind /\ attempts[i].key = k

\* record_attempt and the two submits look for the key without a lock.
BeginAnswers(r, kind, k, questions, ratio, t) ==
    /\ tx[r] = NoTx
    /\ Len(attempts) + Len(accepted) <= MaxWrites
    /\ ~Recorded(kind, k)
    /\ tx' = [tx EXCEPT ![r] = [at |-> "begun", kind |-> kind, key |-> k, task |-> t,
                                questions |-> questions, ratio |-> ratio]]
    /\ UNCHANGED stored
BeginAttempt(r, k, q, ratio, t) ==
    /\ t # NoTask => <<t, q>> \in Assigned
    /\ BeginAnswers(r, "practice", k, <<q>>, ratio, t)
BeginExam(r, k, e, ratio) == BeginAnswers(r, "exam", k, e, ratio, NoTask)

\* Question by question, for each of its knowledge points.
ObservationsOf(q, ratio) ==
    [i \in DOMAIN KnowledgeOf[q] |-> [row |-> KnowledgeOf[q][i], saw |-> ratio]]
ObservationsUpTo(questions, ratio) ==
    LET seen[n \in 0 .. Len(questions)] ==
          IF n = 0 THEN <<>> ELSE seen[n - 1] \o ObservationsOf(questions[n], ratio)
    IN  seen
Observations(questions, ratio) == ObservationsUpTo(questions, ratio)[Len(questions)]

\* The INSERT waits for another one with the key, and, by its foreign key, for
\* a transaction that has locked the task.
InsertAnswers(r) ==
    /\ tx[r].at = "begun" /\ tx[r].kind \in {"practice", "exam"}
    /\ \A o \in Others(r) :
         /\ tx[o].kind = tx[r].kind => tx[o].key # tx[r].key
         /\ tx[o].kind \in {"post", "put"} => tx[o].task # tx[r].task
    /\ tx' = [tx EXCEPT ![r] =
                IF Recorded(tx[r].kind, tx[r].key) THEN NoTx
                ELSE [at |-> "open", kind |-> @.kind, key |-> @.key, task |-> @.task,
                      questions |-> @.questions, ratio |-> @.ratio,
                      todo |-> Observations(@.questions, @.ratio),
                      rows |-> <<>>, fresh |-> {}, inserted |-> {}]]
    /\ UNCHANGED stored

CommitAnswers(r) ==
    /\ Ready(r) /\ tx[r].kind \in {"practice", "exam"}
    /\ attempts' = attempts \o
         [i \in DOMAIN tx[r].questions |->
            [kind |-> tx[r].kind, key |-> tx[r].key, question |-> tx[r].questions[i],
             ratio |-> tx[r].ratio, task |-> tx[r].task]]
    /\ state' = Over(tx[r].rows, state)
    /\ tx' = [tx EXCEPT ![r] = NoTx]
    /\ UNCHANGED <<status, feedback, profile, jobs, accepted>>

ChapterAnswered(k, q) ==
    \E i \in DOMAIN attempts :
        attempts[i].kind = "chapter" /\ attempts[i].key = k /\ attempts[i].question = q

\* submit_chapter_session, one transaction: the answers that are not recorded
\* with the key yet, in any order.  The true exam profile and the progress that
\* it moves as well are those of module StageUnlock.
SubmitChapter(k, c, ratio) ==
    /\ Len(attempts) + Len(accepted) < MaxWrites
    /\ LET new == {q \in c : ~ChapterAnswered(k, q)}
       IN  \E order \in [1 .. Cardinality(new) -> new] :
             /\ IsInjective(order)
             /\ attempts' = attempts \o
                  [i \in DOMAIN order |-> [kind |-> "chapter", key |-> k, question |-> order[i],
                                          ratio |-> ratio, task |-> NoTask]]
    /\ UNCHANGED <<state, status, feedback, profile, jobs, accepted, tx>>

-----------------------------------------------------------------------------
\* Reports

KeyUsed(k) == \E i \in DOMAIN feedback : feedback[i].key = k

\* submit_feedback, for a task of any type, looks for the key first;
\* upsert_learning_feedback brings the version its page has shown.
BeginReport(r, kind, t, k, report) ==
    /\ tx[r] = NoTx
    /\ Len(attempts) + Len(accepted) <= MaxWrites
    /\ kind = "post" => ~KeyUsed(k)
    /\ tx' = [tx EXCEPT ![r] = [at |-> "begun", kind |-> kind, key |-> k, task |-> t,
                                report |-> report,
                                seen |-> IF kind = "post" THEN 0 ELSE VersionOf(t)]]
    /\ UNCHANGED stored

\* Variant: the report replaces whatever feedback there is.
AcceptableUnversioned(r) ==
    \/ tx[r].kind = "put" /\ VersionOf(tx[r].task) > 0
    \/ VersionOf(tx[r].task) = 0 /\ ~KeyUsed(tx[r].key)

\* POST inserts and meets both unique constraints; PUT inserts when its page has
\* shown no feedback and updates when it has shown the current one.
Acceptable(r) ==
    /\ VersionOf(tx[r].task) = tx[r].seen
    /\ tx[r].seen = 0 => ~KeyUsed(tx[r].key)

\* Post: per item, for the general profile, if any item was done; put: per unit,
\* for the profile of the task's knowledge point.
ReportSamples(kind, t, report) ==
    IF kind = "put" THEN <<[row |-> <<"profile", Topic[t]>>, saw |-> report.sample]>>
    ELSE IF report.units THEN <<[row |-> <<"profile", General>>, saw |-> report.sample]>>
    ELSE <<>>

\* _owned_task locks the task, against reports on it and against answers that
\* name it.  The anomaly of a POST is detected before its row is inserted.
LockTask(r) ==
    /\ tx[r].at = "begun" /\ tx[r].kind \in {"post", "put"}
    /\ \A o \in Others(r) :
         /\ tx[o].task # tx[r].task
         /\ tx[o].kind \in {"post", "put"} /\ tx[o].seen = 0 /\ tx[r].seen = 0 =>
              tx[o].key # tx[r].key
    /\ LET t == tx[r].task
       IN  tx' = [tx EXCEPT ![r] =
                    IF ~Acceptable(r) THEN NoTx
                    ELSE [at |-> "open", kind |-> @.kind, key |-> @.key, task |-> t,
                          report |-> @.report, seen |-> @.seen,
                          anomaly |-> IF @.kind = "post" THEN Detect(t, @.report)
                                      ELSE LearningAnomaly(@.report),
                          todo |-> ReportSamples(@.kind, t, @.report),
                          rows |-> <<>>, fresh |-> {}, inserted |-> {}]]
    /\ UNCHANGED stored

\* feedback-agent:<feedback> and learning-feedback-agent:<feedback>:<version>;
\* a feedback is known by its task.
JobKey(kind, t, version) == IF kind = "post" THEN <<kind, t>> ELSE <<kind, t, version>>

\* JobService.create(commit=False) returns the job that has the key already.
CommitReport(r) ==
    /\ Ready(r) /\ tx[r].kind \in {"post", "put"}
    /\ LET t == tx[r].task
           report == tx[r].report
           version == VersionOf(t) + 1
       IN  /\ feedback' =
                IF FeedbackOf(t) = {}
                THEN Append(feedback, [key |-> tx[r].key, task |-> t, version |-> version,
                                       completion |-> report.completion])
                ELSE [feedback EXCEPT ![FeedbackRow(t)].version = version,
                                      ![FeedbackRow(t)].completion = report.completion]
           /\ status' = [status EXCEPT ![t] =
                           IF report.completion >= 100 THEN "COMPLETED" ELSE "IN_PROGRESS"]
           /\ jobs' = IF tx[r].anomaly THEN jobs \cup {JobKey(tx[r].kind, t, version)} ELSE jobs
           /\ accepted' = Append(accepted,
                [task |-> t, seen |-> tx[r].seen, anomaly |-> tx[r].anomaly,
                 completion |-> report.completion,
                 samples |-> ReportSamples(tx[r].kind, t, report)])
    /\ profile' = Over(tx[r].rows, profile)
    /\ tx' = [tx EXCEPT ![r] = NoTx]
    /\ UNCHANGED <<attempts, state>>

Answer(r) ==
    \/ \E k \in Keys, ratio \in Ratios :
         \/ \E q \in Questions, t \in Tasks \cup {NoTask} : BeginAttempt(r, k, q, ratio, t)
         \/ \E e \in Exams : BeginExam(r, k, e, ratio)
    \/ InsertAnswers(r) \/ CommitAnswers(r)
Report(r) ==
    \/ \E kind \in {"post", "put"}, t \in Tasks, k \in Keys, report \in Reports :
         BeginReport(r, kind, t, k, report)
    \/ LockTask(r) \/ CommitReport(r)

PracticeNext ==
    \/ \E r \in Requests : Answer(r) \/ Report(r) \/ LoadRow(r) \/ InsertRow(r) \/ Abort(r)
    \/ \E k \in Keys, c \in Chapters, ratio \in Ratios : SubmitChapter(k, c, ratio)

PracticeSpec == PracticeInit /\ [][PracticeNext]_practiceVars

-----------------------------------------------------------------------------
\* Properties

\* The answers to questions about n that were given in practice or in a whole
\* exam, and those of them given in practice.
Answering(n) ==
    {i \in DOMAIN attempts : /\ attempts[i].kind \in {"practice", "exam"}
                             /\ n \in Range(KnowledgeOf[attempts[i].question])}
Practising(n) == {i \in Answering(n) : attempts[i].kind = "practice"}
Wrong == {i \in DOMAIN attempts : attempts[i].ratio < 60}
Right == {i \in DOMAIN attempts : attempts[i].ratio >= 80}

\* How many answers at the end of I are in J.
AtEnd(I, J) == Cardinality({i \in I : \A j \in I : j >= i => j \in J})

(* The mastery of a knowledge point rests once on each answer recorded in   *)
(* practice and in whole true and mock exams, and on no answer of a chapter *)
(* session: whatever is recorded at the same time, retried or rolled back,  *)
(* evidence_count is the number of those answers and the streaks are those  *)
(* at the end of its practice, in the order of the commits.                 *)
EvidenceCounts ==
    \A n \in Nodes :
        IF Answering(n) = {} THEN state[n] = NoRow
        ELSE state[n] = [evidence |-> Cardinality(Answering(n)),
                         errors   |-> AtEnd(Practising(n), Wrong),
                         corrects |-> AtEnd(Practising(n), Right)]

\* The accepted reports with a sample for p; a report has one sample or none.
Sampling(p) ==
    {i \in DOMAIN accepted : accepted[i].samples # <<>> /\ accepted[i].samples[1].row = p}

\* The samples of p are those of the last of these reports, in their order, and
\* its percentiles lie among them.
SamplesTell(p) ==
    LET fromEnd(i) == Cardinality({k \in Sampling(p) : k >= i})
        samples == profile[p].samples
        many == Cardinality(Sampling(p))
    IN  IF Sampling(p) = {} THEN profile[p] = NoRow
        ELSE /\ profile[p] # NoRow
             /\ Len(samples) = IF many > MaxSamples THEN MaxSamples ELSE many
             /\ \A i \in Sampling(p) : fromEnd(i) <= MaxSamples =>
                  samples[Len(samples) + 1 - fromEnd(i)] = accepted[i].samples[1].saw
             /\ profile[p].p50 <= profile[p].p75
             /\ \E s \in Range(samples) : s <= profile[p].p50
             /\ \E s \in Range(samples) : s >= profile[p].p75

(* An efficiency profile holds the samples of the last reports that were    *)
(* accepted for it, each once and in order, though reports on different     *)
(* tasks share it; its median and its third quartile lie among them, in     *)
(* this order, after rounding.                                              *)
SamplesTellReports == \A p \in Profiles : SamplesTell(p)

\* The reports accepted for t, and the diagnosis jobs that they asked for.
Accepted(t) == {i \in DOMAIN accepted : accepted[i].task = t}
JobsOf(t) == {j \in jobs : j[2] = t}

(* No report is lost: the feedback of a task counts the reports accepted    *)
(* for it, each from a page that had seen the one before, the task tells    *)
(* the last of them, and every anomaly among them has its own diagnosis     *)
(* job, whatever else was under way or tried again.                         *)
ReportsNotLost ==
    \A t \in Tasks :
        /\ VersionOf(t) = Cardinality(Accepted(t))
        /\ \A i \in Accepted(t) : accepted[i].seen = Cardinality({k \in Accepted(t) : k < i})
        /\ \A i \in Accepted(t) : (\A k \in Accepted(t) : k <= i) =>
             (status[t] = "COMPLETED" <=> accepted[i].completion >= 100)
        /\ Cardinality(JobsOf(t)) = Cardinality({i \in Accepted(t) : accepted[i].anomaly})
=============================================================================
