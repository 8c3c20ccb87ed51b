---------------------------- MODULE StageUnlock ----------------------------
(***************************************************************************)
(* The unlock chain of one student (app/application/unlocks.py with        *)
(* true_exams.py, school_change.py and the mock exam routes): learning     *)
(* tasks, confirmed knowledge points, chapter true exams, specialized      *)
(* mocks, the stage and the full mock.                                     *)
(*                                                                         *)
(* A request is one transaction and one step, because it locks the rows it *)
(* depends on or because nothing it read can change under it, with two     *)
(* exceptions.  TrueExamService.submit reads the student's stage without a *)
(* lock and writes it at the end, so it is split there.  The route that    *)
(* asks for a mock commits the job before it checks the access, so the job *)
(* has a life of its own.                                                  *)
(***************************************************************************)
EXTENDS Integers, Sequences, FiniteSets, FiniteSetsExt

CONSTANTS Nodes,        \* knowledge points
          Parent,       \* Parent[n], or Root for a chapter
          Root,
          Schools,
          Syllabus,     \* Syllabus[s]: the knowledge points school s examines
          Questions,    \* true exam questions
          SchoolOf,     \* SchoolOf[q]
          KnowledgeOf,  \* KnowledgeOf[q]: its knowledge points
          FirstBank,    \* the questions seeded at the start
          Exams,        \* Exams: the whole true exams, as sets of questions
          Tasks,        \* learning tasks
          TaskNode,     \* TaskNode[t]: the knowledge point of t
          Keys,         \* idempotency keys
          MaxMoves,     \* bound: changes of target school
          MaxMocks      \* bound: mocks asked for

ASSUME UnlockAssumption ==
    /\ Parent \in [Nodes -> Nodes \cup {Root}] /\ Root \notin Nodes
    /\ Syllabus \in [Schools -> SUBSET Nodes]
    /\ SchoolOf \in [Questions -> Schools]
    /\ KnowledgeOf \in [Questions -> SUBSET Nodes]
    /\ FirstBank \subseteq Questions
    /\ \A e \in Exams : e \subseteq Questions /\ \E s \in Schools : \A q \in e : SchoolOf[q] = s
    /\ TaskNode \in [Tasks -> Nodes]
    /\ IsFiniteSet(Nodes) /\ IsFiniteSet(Questions) /\ IsFiniteSet(Keys) /\ IsFiniteSet(Tasks)
    /\ MaxMoves \in Nat /\ MaxMocks \in Nat

VARIABLES school,        \* student.target_school_id
          stage,         \* student.current_stage
          moves,         \* how often the school has changed
          task,          \* task[t]: the status of the PlanTask
          strengthened,  \* knowledge points with status STRENGTHENED
          bank,          \* the VALID true exam questions
          sessions,      \* the ChapterTrueExamSession rows
          attempts,      \* the QuestionAttempt rows of context TRUE_EXAM
          profile,       \* profile[s][n]: attempt_count of the TrueExamProfile
          exam,          \* exam[k]: the open TrueExamService.submit with key k
          mocks          \* the mocks asked for, with their jobs

unlockVars == <<school, stage, moves, task, strengthened, bank, sessions, attempts,
                profile, exam, mocks>>

MockStages == {"MOCK_EXAM", "SPRINT"}
EarlyStages == {"FOUNDATION", "STRENGTHEN"}
NoExam == [open |-> FALSE]
Chapters(s) == {n \in Syllabus[s] : Parent[n] = Root}

UnlockInit ==
    /\ school \in Schools
    /\ stage = "FOUNDATION" /\ moves = 0
    /\ task = [t \in Tasks |-> "none"]
    /\ strengthened = {}
    /\ bank = FirstBank
    /\ sessions = {} /\ attempts = {}
    /\ profile = [s \in Schools |-> [n \in Nodes |-> 0]]
    /\ exam = [k \in Keys |-> NoExam]
    /\ mocks = <<>>

-----------------------------------------------------------------------------
\* What the checks count

\* _learning_task_counts leaves out SKIPPED tasks only (and SUPERSEDED_LEGACY,
\* which nothing sets any more).
LearningTasks(n) == {t \in Tasks : TaskNode[t] = n /\ task[t] \notin {"none", "SKIPPED"}}
LearningDone(n) == LearningTasks(n) # {} /\ \A t \in LearningTasks(n) : task[t] = "COMPLETED"

\* _question_snapshot and _true_question_count
Snapshot(s, n) == {q \in bank : SchoolOf[q] = s /\ n \in KnowledgeOf[q]}
TrueTotal(n) == Cardinality(Snapshot(school, n))

\* _true_completed_count counts attempts, of every school.
AttemptsAt(n) == {a \in attempts : n \in KnowledgeOf[a.question]}
TrueDone(n) == Cardinality(AttemptsAt(n))

\* _chapter_nodes: the chapter and what lies below it in the syllabus, the
\* smallest set with the chapter and the children of its members.
ChapterNodes(c) ==
    {n \in Nodes :
       \A S \in SUBSET Nodes :
          (c \in S /\ \A k \in Syllabus[school] : Parent[k] \in S => k \in S) => n \in S}
Examined(c) == {n \in ChapterNodes(c) : TrueTotal(n) > 0}

\* One question short of the total is enough.
SpecializedAccessOffByOne(c) ==
    /\ c \in Chapters(school)
    /\ Examined(c) # {}
    /\ \A n \in Examined(c) : n \in strengthened /\ TrueDone(n) + 1 >= TrueTotal(n)

\* assert_mock_access, SPECIALIZED: each point by itself.
SpecializedAccess(c) ==
    /\ c \in Chapters(school)
    /\ Examined(c) # {}
    /\ \A n \in Examined(c) : n \in strengthened /\ TrueDone(n) >= TrueTotal(n)

\* The sum of the numbers f[n], as the number of pairs below them.
Below(f) == UNION {{n} \X (1 .. f[n]) : n \in DOMAIN f}
Total(f) == Cardinality(Below(f))

\* specialized_scopes without the cap per knowledge point.
ScopeUnlockedUncapped(c) ==
    /\ Examined(c) # {} /\ Examined(c) \subseteq strengthened
    /\ Total([n \in Examined(c) |-> TrueDone(n)]) >= Total([n \in Examined(c) |-> TrueTotal(n)])

\* specialized_scopes: the sums over the chapter.
Capped(n) == Min({TrueDone(n), TrueTotal(n)})
ScopeUnlocked(c) ==
    /\ Examined(c) # {} /\ Examined(c) \subseteq strengthened
    /\ Total([n \in Examined(c) |-> Capped(n)]) >= Total([n \in Examined(c) |-> TrueTotal(n)])

SyllabusDone == Syllabus[school] \subseteq strengthened

\* assert_mock_access, FULL
FullAccess == SyllabusDone /\ stage \in MockStages

-----------------------------------------------------------------------------
\* Learning tasks

\* LearningPlanService: resources of the school's syllabus become tasks.
PlanTask(t) ==
    /\ task[t] = "none" /\ TaskNode[t] \in Syllabus[school]
    /\ task' = [task EXCEPT ![t] = "PENDING"]
    /\ UNCHANGED <<school, stage, moves, strengthened, bank, sessions, attempts,
                   profile, exam, mocks>>

\* PracticeService.upsert_learning_feedback: whatever the task's status was.
LearningFeedback(t) ==
    /\ task[t] # "none"
    /\ \E status \in {"COMPLETED", "IN_PROGRESS"} : task' = [task EXCEPT ![t] = status]
    /\ UNCHANGED <<school, stage, moves, strengthened, bank, sessions, attempts,
                   profile, exam, mocks>>

\* LearningPlanService._apply_change, DELETE
RemoveTask(t) ==
    /\ task[t] \notin {"none", "COMPLETED"}
    /\ task' = [task EXCEPT ![t] = "SKIPPED"]
    /\ UNCHANGED <<school, stage, moves, strengthened, bank, sessions, attempts,
                   profile, exam, mocks>>

ConfirmStrengthened(n) ==
    /\ LearningDone(n)
    /\ strengthened' = strengthened \cup {n}
    /\ UNCHANGED <<school, stage, moves, task, bank, sessions, attempts,
                   profile, exam, mocks>>

\* SchoolChangeService.apply
ChangeSchool(s) ==
    /\ s # school /\ moves < MaxMoves
    /\ school' = s /\ moves' = moves + 1
    /\ task' = [t \in Tasks |->
                  IF task[t] = "PENDING" /\ TaskNode[t] \notin Syllabus[s]
                  THEN "SUPERSEDED" ELSE task[t]]
    /\ UNCHANGED <<stage, strengthened, bank, sessions, attempts, profile, exam, mocks>>

-----------------------------------------------------------------------------
\* True exams

\* The seed command adds the questions of a new year.
SeedQuestion(q) ==
    /\ q \notin bank
    /\ bank' = bank \cup {q}
    /\ UNCHANGED <<school, stage, moves, task, strengthened, sessions, attempts,
                   profile, exam, mocks>>

\* _update_true_exam_profile and _update_true_profile, once per question and
\* knowledge point.
Observed(s, questions) ==
    [profile EXCEPT ![s] = [n \in Nodes |->
        @[n] + Cardinality({q \in questions : n \in KnowledgeOf[q]})]]

\* An existing session of the same snapshot is returned as it is.
CreateChapterSession(n) ==
    /\ n \in strengthened
    /\ Snapshot(school, n) # {}
    /\ sessions' = sessions \cup
         {[node |-> n, school |-> school, questions |-> Snapshot(school, n)]}
    /\ UNCHANGED <<school, stage, moves, task, strengthened, bank, attempts,
                   profile, exam, mocks>>

\* A retry observes the questions a second time.
SubmitChapterTwice(ss, k) ==
    /\ attempts' = attempts \cup {[by |-> "chapter", key |-> k, question |-> q] : q \in ss.questions}
    /\ profile' = Observed(ss.school, ss.questions)
    /\ UNCHANGED <<school, stage, moves, task, strengthened, bank, sessions, exam, mocks>>

\* The idempotency key is looked up question by question; the status of the
\* session is not looked at, so a new key submits it once more.
SubmitChapterSession(ss, k) ==
    LET new == {q \in ss.questions :
                  [by |-> "chapter", key |-> k, question |-> q] \notin attempts}
    IN  /\ attempts' = attempts \cup {[by |-> "chapter", key |-> k, question |-> q] : q \in new}
        /\ profile' = Observed(ss.school, new)
        /\ UNCHANGED <<school, stage, moves, task, strengthened, bank, sessions, exam, mocks>>

\* TrueExamService.submit up to the reading of the student's row: a key is
\* used once.
BeginExam(k, e) ==
    /\ exam[k] = NoExam
    /\ \A a \in attempts : a.by = "exam" => a.key # k
    /\ \A q \in e : q \in bank /\ SchoolOf[q] = school
    /\ exam' = [exam EXCEPT ![k] = [open |-> TRUE, questions |-> e, school |-> school, stage |-> stage]]
    /\ UNCHANGED <<school, stage, moves, task, strengthened, bank, sessions, attempts,
                   profile, mocks>>

\* The stage that was read at the beginning decides what is written.
CommitExam(k) ==
    /\ exam[k].open
    /\ attempts' = attempts \cup {[by |-> "exam", key |-> k, question |-> q] : q \in exam[k].questions}
    /\ profile' = Observed(exam[k].school, exam[k].questions)
    /\ stage' = IF exam[k].stage \in EarlyStages THEN "TRUE_EXAM" ELSE stage
    /\ exam' = [exam EXCEPT ![k] = NoExam]
    /\ UNCHANGED <<school, moves, task, strengthened, bank, sessions, mocks>>

-----------------------------------------------------------------------------
\* Mock exams

ConfirmFullMock ==
    /\ Syllabus[school] # {} /\ SyllabusDone
    /\ stage' = "MOCK_EXAM"
    /\ UNCHANGED <<school, moves, task, strengthened, bank, sessions, attempts,
                   profile, exam, mocks>>

\* POST /me/mock-exams: the job is committed, then the access is checked.
RequestMock(granted, c) ==
    /\ Len(mocks) < MaxMocks
    /\ mocks' = Append(mocks, [target |-> c, granted |-> granted, status |-> "QUEUED"])
    /\ UNCHANGED <<school, stage, moves, task, strengthened, bank, sessions, attempts,
                   profile, exam>>
RequestSpecialized(c) == RequestMock(SpecializedAccess(c), c)
RequestFull == RequestMock(FullAccess, Root)

\* The GENERATE_MOCK job publishes the paper (module MockExam); a specialized
\* target has to be a chapter of the school.
GenerateMock(m) ==
    /\ mocks[m].status = "QUEUED"
    /\ mocks[m].target \in Chapters(school) \cup {Root}
    /\ mocks' = [mocks EXCEPT ![m].status = "PUBLISHED"]
    /\ UNCHANGED <<school, stage, moves, task, strengthened, bank, sessions, attempts,
                   profile, exam>>

\* MockExamService.submit moves the student on, whatever the kind of mock.
SubmitMock(m) ==
    /\ mocks[m].status = "PUBLISHED"
    /\ mocks' = [mocks EXCEPT ![m].status = "COMPLETED"]
    /\ stage' = "MOCK_EXAM"
    /\ UNCHANGED <<school, moves, task, strengthened, bank, sessions, attempts,
                   profile, exam>>

Learn ==
    \/ \E t \in Tasks : PlanTask(t) \/ LearningFeedback(t) \/ RemoveTask(t)
    \/ \E n \in Nodes : ConfirmStrengthened(n)
    \/ \E s \in Schools : ChangeSchool(s)
TakeTrueExams ==
    \/ \E q \in Questions : SeedQuestion(q)
    \/ \E n \in Nodes : CreateChapterSession(n)
    \/ \E ss \in sessions, k \in Keys : SubmitChapterSession(ss, k)
    \/ \E k \in Keys : (\E e \in Exams : BeginExam(k, e)) \/ CommitExam(k)
TakeMocks ==
    \/ ConfirmFullMock \/ RequestFull
    \/ \E c \in Nodes : RequestSpecialized(c)
    \/ \E m \in DOMAIN mocks : GenerateMock(m) \/ SubmitMock(m)

UnlockNext == Learn \/ TakeTrueExams \/ TakeMocks

UnlockSpec == UnlockInit /\ [][UnlockNext]_unlockVars

-----------------------------------------------------------------------------
\* Properties

(* The list of scopes and the check at the creation of a mock are two        *)
(* implementations of one rule (unlocks.py:90-157 and 159-199), the one with *)
(* sums, the other point by point: they agree on every chapter.              *)
ScopesAgree ==
    \A c \in Chapters(school) : ScopeUnlocked(c) <=> SpecializedAccess(c)

(* The true exam profile counts every attempt of its school once, whichever  *)
(* of the two services recorded it and however often a request is repeated.  *)
ProfileCountsAttempts ==
    \A s \in Schools, n \in Nodes :
        profile[s][n] = Cardinality({a \in AttemptsAt(n) : SchoolOf[a.question] = s})

(* README.md: "完成当前题库版本的全部章节真题后，解锁该章专项强化".  The check    *)
(* counts attempts; as long as no question is answered twice and none of     *)
(* another school, the count means that every current question is answered.  *)
SpecializedEarned ==
    (/\ \A a, b \in attempts : a.question = b.question => a = b
     /\ \A a \in attempts : SchoolOf[a.question] = school) =>
    \A c \in Chapters(school) : SpecializedAccess(c) =>
        \A n \in Examined(c) : Snapshot(school, n) \subseteq {a.question : a \in attempts}
=============================================================================
