------------------------------ MODULE MockExam ------------------------------
(***************************************************************************)
(* The mock papers of one student (app/application/mock_exams.py): a       *)
(* GENERATE_MOCK job fills the slots of a paper from the question bank;    *)
(* what the bank lacks becomes AI candidates, and the paper waits until    *)
(* reviewers have decided on all of them, which queues a job that resumes  *)
(* the paper; the student submits a published paper.                       *)
(*                                                                         *)
(* Jobs, reviews and submissions are database transactions under READ      *)
(* COMMITTED.  Each is split where its reads end and its commit begins, so *)
(* what it read may be stale when it commits; a transaction that fails     *)
(* leaves nothing behind.  The queue that carries the jobs is module       *)
(* JobQueue.                                                               *)
(***************************************************************************)
EXTENDS Integers, Sequences, FiniteSets

CONSTANTS Papers,          \* the papers the student may ask for
          Bank,            \* the questions of the bank at the start
          Pairs,           \* (knowledge point, difficulty) pairs
          BankPairs,       \* BankPairs[q]: the pairs question q counts for
          Schools,         \* target schools
          Slots,           \* Slots[s]: the pairs a paper of school s asks for
          Reviewers,
          Keys,            \* idempotency keys of submissions
          Verdicts,        \* the verdicts reviewers give: TRUE approves
          Answers,         \* may a candidate lack an answer? a set of BOOLEAN
          Practised,       \* bank questions the student may practise
          NoQuestion,      \* a slot that no question fills
          MaxAttempts,     \* job_max_attempts
          MaxCandidates,   \* bound: candidates generated in all
          MaxMoves         \* bound: changes of target school

ASSUME ExamAssumption ==
    /\ BankPairs \in [Bank -> SUBSET Pairs]
    /\ Slots \in [Schools -> Seq(Pairs)]
    /\ \A s \in Schools : Slots[s] # <<>>
    /\ Verdicts \subseteq BOOLEAN /\ Answers \subseteq BOOLEAN
    /\ Practised \subseteq Bank
    /\ Bank \cap Nat = {} /\ NoQuestion \notin Bank \cup Nat
    /\ MaxAttempts \in Nat \ {0} /\ MaxCandidates \in Nat /\ MaxMoves \in Nat

VARIABLES school,     \* student.target_school_id
          moves,      \* how often it has changed
          paper,      \* paper[p]: the MockExam row and its MockExamQuestion rows
          jobs,       \* the GENERATE_MOCK jobs, oldest first
          cands,      \* the GeneratedQuestionCandidate rows, oldest first
          decisions,  \* the ReviewDecision rows
          attempted,  \* questions with a QuestionAttempt of the student
          attempts,   \* the MockExamAttempt rows with what they recorded
          review,     \* review[r]: the open decide transaction of reviewer r
          submission  \* submission[k]: the open submit transaction with key k

vars == <<school, moves, paper, jobs, cands, decisions, attempted, attempts,
          review, submission>>

Idle == [open |-> FALSE]
Live == {"QUEUED", "RUNNING"}

\* A candidate is known by its row number, and so is the question it becomes.
Questions == Bank \cup 1..MaxCandidates

Init ==
    /\ school \in Schools
    /\ moves = 0
    /\ paper = [p \in Papers |-> [status |-> "none", profile |-> school, questions |-> <<>>]]
    /\ jobs = <<>> /\ cands = <<>>
    /\ decisions = {} /\ attempted = {} /\ attempts = {}
    /\ review = [r \in Reviewers |-> Idle]
    /\ submission = [k \in Keys |-> Idle]

-----------------------------------------------------------------------------
\* The question bank

Valid == Bank \cup {c \in DOMAIN cands : cands[c].status = "VALID"}
PairsOf(q) == IF q \in Bank THEN BankPairs[q] ELSE {cands[q].pair}
HasAnswer(q) == q \notin Bank => cands[q].answer

\* _best_candidate: a question of the bank before a generated one; which of
\* several depends on their codes.
BestCandidates(pair, excluded) ==
    LET candidates == {q \in Valid : pair \in PairsOf(q) /\ q \notin excluded}
    IN  IF candidates \cap Bank # {} THEN candidates \cap Bank ELSE candidates

\* _select_questions walks the slots in order and never takes a question
\* that the student has attempted or an earlier slot has used.
Selections(slots) ==
    {sel \in [DOMAIN slots -> Valid \cup {NoQuestion}] :
        \A i \in DOMAIN slots :
            LET used == {sel[j] : j \in 1..(i - 1)}
                best == BestCandidates(slots[i], attempted \cup used)
            IN  IF best = {} THEN sel[i] = NoQuestion ELSE sel[i] \in best}

Filled(sel) == \A i \in DOMAIN sel : sel[i] # NoQuestion

\* MockExamValidator: every slot filled, no question twice, every answer there.
\* The distributions follow from the slots, and the total score too, for the
\* total of a profile is a multiple of its question count.
Validates(sel) ==
    /\ Filled(sel)
    /\ \A i, j \in DOMAIN sel : sel[i] = sel[j] => i = j
    /\ \A i \in DOMAIN sel : HasAnswer(sel[i])

\* _missing_pairs, or the first pair when the paper is invalid for another
\* reason.
MissingPairs(slots, sel) ==
    LET unfilled == {i \in DOMAIN slots : sel[i] = NoQuestion}
        nth(n) == CHOOSE i \in unfilled :
                     Cardinality({j \in unfilled : j < i}) = n - 1
    IN  IF unfilled = {} THEN <<slots[1]>>
        ELSE [n \in 1..Cardinality(unfilled) |-> slots[nth(n)]]

Pending(p) == {c \in DOMAIN cands : cands[c].paper = p /\ cands[c].status = "REVIEW_REQUIRED"}
LiveJobs(p) == {j \in DOMAIN jobs : jobs[j].paper = p /\ jobs[j].status \in Live}

-----------------------------------------------------------------------------
\* GENERATE_MOCK jobs

NewJob(p) == [paper |-> p, status |-> "QUEUED", attempts |-> 0, school |-> school, sel |-> <<>>]

\* POST /me/mock-exams
RequestPaper(p) ==
    /\ \A j \in DOMAIN jobs : jobs[j].paper # p
    /\ jobs' = Append(jobs, NewJob(p))
    /\ UNCHANGED <<school, moves, paper, cands, decisions, attempted, attempts,
                   review, submission>>

\* MockExamGenerationService.execute_job up to _validate_selection.  The exam
\* profile is that of the student's school now, for a resumed paper too.
SelectQuestions(j) ==
    /\ jobs[j].status = "QUEUED"
    /\ \E sel \in Selections(Slots[school]) :
         jobs' = [jobs EXCEPT ![j].status = "RUNNING", ![j].attempts = @ + 1,
                              ![j].school = school, ![j].sel = sel]
    /\ UNCHANGED <<school, moves, paper, cands, decisions, attempted, attempts,
                   review, submission>>

\* _load_or_create_mock: a new row is created for the profile of the job, a
\* resumed one keeps the profile it names.
ProfileOf(j) ==
    LET p == jobs[j].paper
    IN  IF paper[p].status = "none" THEN jobs[j].school ELSE paper[p].profile

Publish(j) ==
    /\ jobs[j].status = "RUNNING" /\ Validates(jobs[j].sel)
    /\ paper' = [paper EXCEPT ![jobs[j].paper] =
                   [status |-> "PUBLISHED", profile |-> ProfileOf(j), questions |-> jobs[j].sel]]
    /\ jobs' = [jobs EXCEPT ![j].status = "SUCCEEDED"]
    /\ UNCHANGED <<school, moves, cands, decisions, attempted, attempts, review, submission>>

\* _create_review_candidates creates none while one awaits review.
NewCandidates(j) ==
    LET p == jobs[j].paper
        missing == MissingPairs(Slots[jobs[j].school], jobs[j].sel)
    IN  IF Pending(p) # {} THEN {<<>>}
        ELSE {[n \in DOMAIN missing |-> [paper |-> p, pair |-> missing[n],
                                         answer |-> answer[n], status |-> "REVIEW_REQUIRED"]] :
                answer \in [DOMAIN missing -> Answers]}

AwaitReview(j) ==
    /\ jobs[j].status = "RUNNING" /\ ~Validates(jobs[j].sel)
    /\ \E new \in NewCandidates(j) :
         /\ Len(cands) + Len(new) <= MaxCandidates
         /\ cands' = cands \o new
    /\ paper' = [paper EXCEPT ![jobs[j].paper] =
                   [status |-> "WAITING_FOR_REVIEW", profile |-> ProfileOf(j), questions |-> <<>>]]
    /\ jobs' = [jobs EXCEPT ![j].status = "WAITING_FOR_REVIEW"]
    /\ UNCHANGED <<school, moves, decisions, attempted, attempts, review, submission>>

\* The attempt rolls back: retried while attempts are left (RETRY_WAIT or the
\* reconciliation of a stale job), else FAILED or DEAD_LETTER.
GenerationFails(j) ==
    /\ jobs[j].status = "RUNNING"
    /\ \E status \in {"QUEUED", "FAILED"} :
         /\ status = "QUEUED" => jobs[j].attempts < MaxAttempts
         /\ jobs' = [jobs EXCEPT ![j].status = status, ![j].sel = <<>>]
    /\ UNCHANGED <<school, moves, paper, cands, decisions, attempted, attempts,
                   review, submission>>

-----------------------------------------------------------------------------
\* GeneratedQuestionReviewService.decide

\* The candidate is read without FOR UPDATE.
BeginDecideUnlocked(r, c) ==
    /\ review[r] = Idle
    /\ cands[c].status = "REVIEW_REQUIRED"
    /\ \E approve \in Verdicts :
         review' = [review EXCEPT ![r] =
                      [open |-> TRUE, candidate |-> c, approve |-> approve,
                       resume |-> Pending(cands[c].paper) = {c}]]
    /\ UNCHANGED <<school, moves, paper, jobs, cands, decisions, attempted, attempts, submission>>

\* The candidate itself counts as pending: nothing is ever resumed.
BeginDecideCountsItself(r, c) ==
    /\ review[r] = Idle
    /\ cands[c].status = "REVIEW_REQUIRED"
    /\ \A o \in Reviewers : review[o].open => review[o].candidate # c
    /\ \E approve \in Verdicts :
         review' = [review EXCEPT ![r] =
                      [open |-> TRUE, candidate |-> c, approve |-> approve, resume |-> FALSE]]
    /\ UNCHANGED <<school, moves, paper, jobs, cands, decisions, attempted, attempts, submission>>

\* The transaction locks the candidate and looks for others of the paper that
\* await review, whose own decision may be under way.  A reviewer who waited
\* for the lock finds the candidate decided and leaves it alone.
BeginDecide(r, c) ==
    /\ review[r] = Idle
    /\ cands[c].status = "REVIEW_REQUIRED"
    /\ \A o \in Reviewers : review[o].open => review[o].candidate # c
    /\ \E approve \in Verdicts :
         review' = [review EXCEPT ![r] =
                      [open |-> TRUE, candidate |-> c, approve |-> approve,
                       resume |-> Pending(cands[c].paper) = {c}]]
    /\ UNCHANGED <<school, moves, paper, jobs, cands, decisions, attempted, attempts, submission>>

\* Every decision resumes the paper.
CommitDecideResumes(r) ==
    /\ review[r].open
    /\ LET c == review[r].candidate
       IN  /\ cands' = [cands EXCEPT ![c].status = IF review[r].approve THEN "VALID" ELSE "REJECTED"]
           /\ decisions' = decisions \cup
                {[candidate |-> c, reviewer |-> r, approve |-> review[r].approve]}
           /\ jobs' = Append(jobs, NewJob(cands[c].paper))
    /\ review' = [review EXCEPT ![r] = Idle]
    /\ UNCHANGED <<school, moves, paper, attempted, attempts, submission>>

\* _publish, the ReviewDecision row, _resume_if_ready and the commit.
CommitDecide(r) ==
    /\ review[r].open
    /\ LET c == review[r].candidate
       IN  /\ cands' = [cands EXCEPT ![c].status = IF review[r].approve THEN "VALID" ELSE "REJECTED"]
           /\ decisions' = decisions \cup
                {[candidate |-> c, reviewer |-> r, approve |-> review[r].approve]}
           /\ jobs' = IF review[r].resume THEN Append(jobs, NewJob(cands[c].paper)) ELSE jobs
    /\ review' = [review EXCEPT ![r] = Idle]
    /\ UNCHANGED <<school, moves, paper, attempted, attempts, submission>>

AbortDecide(r) ==
    /\ review[r].open
    /\ review' = [review EXCEPT ![r] = Idle]
    /\ UNCHANGED <<school, moves, paper, jobs, cands, decisions, attempted, attempts, submission>>

-----------------------------------------------------------------------------
\* MockExamService.submit: nothing is locked

Recorded(k) == \E a \in attempts : a.key = k

BeginSubmit(k, p) ==
    /\ submission[k] = Idle
    /\ paper[p].status = "PUBLISHED"
    /\ ~Recorded(k)
    /\ submission' = [submission EXCEPT ![k] =
                        [open |-> TRUE, paper |-> p, questions |-> paper[p].questions]]
    /\ UNCHANGED <<school, moves, paper, jobs, cands, decisions, attempted, attempts, review>>

CommitSubmit(k) ==
    /\ submission[k].open
    /\ LET s == submission[k]
       IN  /\ attempts' = attempts \cup {[key |-> k, paper |-> s.paper, questions |-> s.questions]}
           /\ attempted' = attempted \cup {s.questions[i] : i \in DOMAIN s.questions}
           /\ paper' = [paper EXCEPT ![s.paper].status = "COMPLETED"]
    /\ submission' = [submission EXCEPT ![k] = Idle]
    /\ UNCHANGED <<school, moves, jobs, cands, decisions, review>>

-----------------------------------------------------------------------------
\* What else the student does

\* PracticeService.record_attempt
Practise(q) ==
    /\ q \notin attempted
    /\ attempted' = attempted \cup {q}
    /\ UNCHANGED <<school, moves, paper, jobs, cands, decisions, attempts, review, submission>>

\* SchoolChangeService.apply
ChangeSchool(s) ==
    /\ s # school /\ moves < MaxMoves
    /\ school' = s /\ moves' = moves + 1
    /\ UNCHANGED <<paper, jobs, cands, decisions, attempted, attempts, review, submission>>

GenerateMock(j) == SelectQuestions(j) \/ Publish(j) \/ AwaitReview(j) \/ GenerationFails(j)
Decide(r) == (\E c \in DOMAIN cands : BeginDecide(r, c)) \/ CommitDecide(r) \/ AbortDecide(r)
Submit(k) == (\E p \in Papers : BeginSubmit(k, p)) \/ CommitSubmit(k)

Next ==
    \/ \E p \in Papers : RequestPaper(p)
    \/ \E j \in DOMAIN jobs : GenerateMock(j)
    \/ \E r \in Reviewers : Decide(r)
    \/ \E k \in Keys : Submit(k)
    \/ \E q \in Practised : Practise(q)
    \/ \E s \in Schools : ChangeSchool(s)

Spec == Init /\ [][Next]_vars
-----------------------------------------------------------------------------
\* Properties

(* A candidate is decided once: decide() locks the row and returns early    *)
(* when it is no longer REVIEW_REQUIRED, so an approval and a rejection of  *)
(* two reviewers never both take effect, and the row tells the verdict.     *)
OneVerdict ==
    /\ \A d, e \in decisions : d.candidate = e.candidate => d = e
    /\ \A c \in DOMAIN cands :
         cands[c].status # "REVIEW_REQUIRED" <=>
         \E d \in decisions : /\ d.candidate = c
                             /\ cands[c].status = IF d.approve THEN "VALID" ELSE "REJECTED"

(* A paper is generated by one job at a time, and by none once it is        *)
(* published or while a candidate of its awaits review: _resume_if_ready    *)
(* queues a job only for the last decision.                                 *)
OneGeneration ==
    \A p \in Papers : LiveJobs(p) # {} =>
        /\ Cardinality(LiveJobs(p)) = 1
        /\ Pending(p) = {}
        /\ paper[p].status \notin {"PUBLISHED", "COMPLETED"}

(* The questions an attempt recorded are those of the paper, for good: the  *)
(* delete in execute_job never replaces a paper the student has seen.       *)
AttemptMatchesPaper ==
    /\ \A a \in attempts : a.questions = paper[a.paper].questions
    /\ \A k \in Keys : submission[k].open =>
         submission[k].questions = paper[submission[k].paper].questions

\* The worker keeps processing jobs; reviewers decide on what awaits them, and
\* a decision that fails again and again is committed in the end.
Fairness ==
    /\ WF_vars(\E j \in DOMAIN jobs : GenerateMock(j))
    /\ \A r \in Reviewers : WF_vars(Decide(r)) /\ SF_vars(CommitDecide(r))

FairSpec == Spec /\ Fairness

(* "Reviewer 审核后会自动续跑组卷" (MockExamsPage.tsx): as long as no two        *)
(* decisions overlap, a paper the student asked for is published in the end, *)
(* through as many rounds of candidates as it takes, unless its job reports  *)
(* a failure or a candidate of its is rejected or has no answer.  Of two     *)
(* overlapping decisions each sees the other's candidate still pending, and  *)
(* nobody resumes the paper.                                                 *)
RequestedIsPublished ==
    [](Cardinality({r \in Reviewers : review[r].open}) <= 1) =>
    \A p \in Papers :
        LiveJobs(p) # {} ~>
            \/ paper[p].status \in {"PUBLISHED", "COMPLETED"}
            \/ \E j \in DOMAIN jobs : jobs[j].paper = p /\ jobs[j].status = "FAILED"
            \/ \E c \in DOMAIN cands : /\ cands[c].paper = p
                                      /\ (cands[c].status = "REJECTED" \/ ~cands[c].answer)
=============================================================================
