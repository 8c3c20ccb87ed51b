--------------------------- MODULE MockExamProofs ---------------------------
(***************************************************************************)
(* Proofs about MockExam, for any bank, schools, reviewers and keys: what  *)
(* jobs, reviews and submissions leave in the tables fits together, though *)
(* each of them commits on what it read some time before.                  *)
(***************************************************************************)
EXTENDS MockExam, FiniteSetTheorems, SequenceTheorems, TLAPS

\* A paper the student has seen.
Frozen == {"PUBLISHED", "COMPLETED"}
Selected == Bank \cup Nat \cup {NoQuestion}

PaperRow == [status : {"none", "WAITING_FOR_REVIEW"} \cup Frozen, profile : Schools,
             questions : Seq(Selected)]
JobRow == [paper : Papers, status : Live \cup {"SUCCEEDED", "WAITING_FOR_REVIEW", "FAILED"},
           attempts : Nat, school : Schools, sel : Seq(Selected)]

\* A candidate has these columns; which pair it is for does not matter here.
IsCandidate(x) ==
    /\ x = [paper |-> x.paper, pair |-> x.pair, answer |-> x.answer, status |-> x.status]
    /\ x.paper \in Papers
    /\ x.status \in {"REVIEW_REQUIRED", "VALID", "REJECTED"}

Rows(s) == {s[i] : i \in DOMAIN s}
Table(s) == s \in Seq(Rows(s))

TypeInv ==
    /\ school \in Schools
    /\ paper \in [Papers -> PaperRow]
    /\ jobs \in Seq(JobRow)
    /\ Table(cands)
    /\ \A c \in DOMAIN cands : IsCandidate(cands[c])
    /\ review \in [Reviewers ->
          {Idle} \cup [open : {TRUE}, candidate : Nat, approve : BOOLEAN, resume : BOOLEAN]]
    /\ submission \in [Keys ->
          {Idle} \cup [open : {TRUE}, paper : Papers, questions : Seq(Selected)]]
    /\ attempts \subseteq [key : Keys, paper : Papers, questions : Seq(Selected)]
    /\ decisions \subseteq [candidate : Nat, reviewer : Reviewers, approve : BOOLEAN]

Verdict(approve) == IF approve THEN "VALID" ELSE "REJECTED"

\* The verdict of a decision is that of its candidate.
DecisionInv ==
    /\ \A d \in decisions :
          d.candidate \in DOMAIN cands /\ cands[d.candidate].status = Verdict(d.approve)
    /\ \A d, e \in decisions : d.candidate = e.candidate => d = e
    /\ \A c \in DOMAIN cands : cands[c].status # "REVIEW_REQUIRED" =>
          \E d \in decisions : d.candidate = c

\* No other candidate of the paper awaits review.
LastOf(c) ==
    \A d \in DOMAIN cands :
        cands[d].status = "REVIEW_REQUIRED" /\ cands[d].paper = cands[c].paper => d = c

\* An open decision holds the lock of its candidate, which nobody has decided; if
\* it is to resume the paper no other candidate of the paper has come up.
ReviewInv ==
    /\ \A r \in Reviewers : review[r].open =>
          LET c == review[r].candidate
          IN  /\ c \in DOMAIN cands /\ cands[c].status = "REVIEW_REQUIRED"
              /\ review[r].resume => LastOf(c)
    /\ \A r, o \in Reviewers :
          review[r].open /\ review[o].open /\ review[r].candidate = review[o].candidate => r = o

\* A paper with a live job has no other, waits for nobody and was not seen.
JobInv ==
    /\ \A i, j \in DOMAIN jobs :
          (jobs[i].paper = jobs[j].paper /\ jobs[i].status \in Live /\ jobs[j].status \in Live)
             => i = j
    /\ \A j \in DOMAIN jobs : jobs[j].status \in Live =>
          Pending(jobs[j].paper) = {} /\ paper[jobs[j].paper].status \notin Frozen

Asked(p) == \E j \in DOMAIN jobs : jobs[j].paper = p

\* What there is of a paper comes from a job, and its candidates wait with it.
PaperInv ==
    /\ \A p \in Papers : paper[p].status # "none" => Asked(p)
    /\ \A c \in DOMAIN cands : Asked(cands[c].paper)
    /\ \A c \in DOMAIN cands : cands[c].status = "REVIEW_REQUIRED" =>
          paper[cands[c].paper].status = "WAITING_FOR_REVIEW"

\* The student works on papers that were published.
SubmitInv ==
    /\ \A a \in attempts : /\ paper[a.paper].status \in Frozen
                           /\ a.questions = paper[a.paper].questions
    /\ \A k \in Keys : submission[k].open =>
          /\ paper[submission[k].paper].status \in Frozen
          /\ submission[k].questions = paper[submission[k].paper].questions

(* A published paper has questions of the bank and approved candidates, all *)
(* with answers, none twice: MockExamValidator saw the rows as they stay.   *)
PublishedIsReviewed ==
    \A p \in Papers : paper[p].status \in Frozen =>
        LET qs == paper[p].questions
        IN  /\ \A i \in DOMAIN qs : qs[i] \in Valid /\ HasAnswer(qs[i])
            /\ \A i, j \in DOMAIN qs : qs[i] = qs[j] => i = j

\* A selection stays valid while its job runs.
SelectionInv ==
    /\ \A j \in DOMAIN jobs : jobs[j].status = "RUNNING" =>
          \A i \in DOMAIN jobs[j].sel : jobs[j].sel[i] \in Valid \cup {NoQuestion}
    /\ PublishedIsReviewed

ExamInv == /\ TypeInv /\ DecisionInv /\ ReviewInv /\ JobInv /\ PaperInv /\ SubmitInv
           /\ SelectionInv
-----------------------------------------------------------------------------
\* A row of a table is replaced.
LEMMA ReplacedRow ==
    ASSUME NEW S, NEW s \in Seq(S), NEW j \in DOMAIN s, NEW x \in S
    PROVE  /\ [s EXCEPT ![j] = x] \in Seq(S)
           /\ DOMAIN [s EXCEPT ![j] = x] = DOMAIN s
           /\ [s EXCEPT ![j] = x][j] = x
           /\ \A i \in DOMAIN s : i # j => [s EXCEPT ![j] = x][i] = s[i]
<1>1. j \in 1..Len(s) /\ DOMAIN s = 1..Len(s)
  BY LenProperties
<1>2. [s EXCEPT ![j] = x] \in Seq(S)
  BY <1>1, ExceptSeq
<1> QED BY <1>2

\* A row is added to a table.
LEMMA AddedRow ==
    ASSUME NEW S, NEW s \in Seq(S), NEW x \in S
    PROVE  /\ Append(s, x) \in Seq(S)
           /\ DOMAIN Append(s, x) = DOMAIN s \cup {Len(s) + 1}
           /\ Len(s) + 1 \notin DOMAIN s
           /\ Append(s, x)[Len(s) + 1] = x
           /\ \A i \in DOMAIN s : Append(s, x)[i] = s[i]
<1>1. /\ Append(s, x) \in Seq(S) /\ Len(Append(s, x)) = Len(s) + 1
      /\ DOMAIN s = 1..Len(s) /\ Len(s) \in Nat
      /\ DOMAIN Append(s, x) = 1..(Len(s) + 1)
      /\ Append(s, x)[Len(s) + 1] = x
      /\ \A i \in 1..Len(s) : Append(s, x)[i] = s[i]
  BY AppendProperties, LenProperties
<1> QED BY <1>1

\* The rows of the tables, one by one.
LEMMA RowFacts ==
    ASSUME TypeInv
    PROVE  /\ \A j \in DOMAIN jobs : jobs[j] \in JobRow /\ jobs[j].paper \in Papers
           /\ \A c \in DOMAIN cands : IsCandidate(cands[c]) /\ c \in Nat
           /\ \A r \in Reviewers : review[r].open =>
                 review[r].candidate \in Nat /\ review[r].approve \in BOOLEAN
           /\ \A k \in Keys : submission[k].open => submission[k].paper \in Papers
           /\ \A p \in Papers : paper[p] \in PaperRow
<1>1. \A j \in DOMAIN jobs : jobs[j] \in JobRow
  BY ElementOfSeq, LenProperties DEF TypeInv
<1>2. \A c \in DOMAIN cands : c \in Nat
  BY LenProperties DEF TypeInv, Table, Rows
<1>3. \A r \in Reviewers : review[r].open =>
         review[r].candidate \in Nat /\ review[r].approve \in BOOLEAN
  <2> SUFFICES ASSUME NEW r \in Reviewers, review[r].open
               PROVE  review[r] \in
                        [open : {TRUE}, candidate : Nat, approve : BOOLEAN, resume : BOOLEAN]
    OBVIOUS
  <2>1. review[r] # Idle
    BY DEF Idle
  <2> QED BY <2>1 DEF TypeInv
<1>4. \A k \in Keys : submission[k].open => submission[k].paper \in Papers
  <2> SUFFICES ASSUME NEW k \in Keys, submission[k].open
               PROVE  submission[k] \in [open : {TRUE}, paper : Papers, questions : Seq(Selected)]
    OBVIOUS
  <2>1. submission[k] # Idle
    BY DEF Idle
  <2> QED BY <2>1 DEF TypeInv
<1> QED BY <1>1, <1>2, <1>3, <1>4 DEF TypeInv, JobRow

\* The state before the first request.
LEMMA InitExam == Init => ExamInv
<1> SUFFICES ASSUME Init PROVE ExamInv
  OBVIOUS
<1>1. /\ jobs = <<>> /\ cands = <<>> /\ DOMAIN jobs = {} /\ DOMAIN cands = {}
      /\ jobs \in Seq(JobRow) /\ Table(cands)
  BY EmptySeq DEF Init, Table, Rows
<1>2. TypeInv
  <2>1. paper \in [Papers -> PaperRow]
    <3>1. <<>> \in Seq(Selected)
      BY EmptySeq
    <3> QED BY <3>1 DEF Init, PaperRow
  <2> QED BY <1>1, <2>1 DEF Init, TypeInv
<1>3. DecisionInv /\ ReviewInv /\ JobInv /\ PaperInv /\ SubmitInv /\ SelectionInv
  BY <1>1 DEF Init, DecisionInv, ReviewInv, JobInv, PaperInv, SubmitInv, SelectionInv,
     PublishedIsReviewed, Idle, Frozen
<1> QED BY <1>2, <1>3 DEF ExamInv

\* A job is taken up, or its attempt fails.
LEMMA JobRowStep ==
    ASSUME ExamInv, NEW j \in DOMAIN jobs, NEW row \in JobRow,
           jobs' = [jobs EXCEPT ![j] = row],
           row.paper = jobs[j].paper, jobs[j].status \in Live,
           row.status = "RUNNING" =>
              \A i \in DOMAIN row.sel : row.sel[i] \in Valid \cup {NoQuestion},
           UNCHANGED <<school, paper, cands, decisions, attempts, review, submission>>
    PROVE  ExamInv'
<1>1. /\ jobs' \in Seq(JobRow) /\ DOMAIN jobs' = DOMAIN jobs /\ jobs'[j] = row
      /\ \A i \in DOMAIN jobs : i # j => jobs'[i] = jobs[i]
  BY ReplacedRow DEF ExamInv, TypeInv
<1>2. TypeInv'
  BY <1>1 DEF ExamInv, TypeInv
<1>3. DecisionInv' /\ ReviewInv' /\ SubmitInv'
  BY DEF ExamInv, DecisionInv, ReviewInv, SubmitInv, LastOf
<1>4. JobInv'
  BY <1>1 DEF ExamInv, JobInv, Pending
<1>5. PaperInv'
  BY <1>1 DEF ExamInv, PaperInv, Asked
<1>6. SelectionInv'
  BY <1>1 DEF ExamInv, SelectionInv, PublishedIsReviewed, Valid, HasAnswer
<1> QED BY <1>2, <1>3, <1>4, <1>5, <1>6 DEF ExamInv

\* SelectQuestions takes questions of the bank and approved candidates.
LEMMA SelectStep ==
    ASSUME ExamInv, NEW j \in DOMAIN jobs, SelectQuestions(j)
    PROVE  ExamInv'
<1>1. PICK sel \in Selections(Slots[school]) :
         jobs' = [jobs EXCEPT ![j].status = "RUNNING", ![j].attempts = @ + 1,
                              ![j].school = school, ![j].sel = sel]
  BY DEF SelectQuestions
<1> DEFINE slots == Slots[school]
           row == [jobs[j] EXCEPT !.status = "RUNNING", !.attempts = @ + 1,
                                  !.school = school, !.sel = sel]
<1>2. jobs[j] \in JobRow /\ jobs[j].attempts + 1 \in Nat /\ school \in Schools
  <2>1. jobs[j] \in JobRow
    BY RowFacts DEF ExamInv
  <2> QED BY <2>1 DEF JobRow, ExamInv, TypeInv
<1>3. sel \in [DOMAIN slots -> Valid \cup {NoQuestion}]
  BY <1>1 DEF Selections
<1>4. Valid \subseteq Bank \cup Nat
  BY RowFacts DEF Valid, ExamInv
<1>5. sel \in Seq(Selected)
  <2>1. slots \in Seq(Pairs)
    BY <1>2, ExamAssumption
  <2>2. DOMAIN slots = 1..Len(slots) /\ Len(slots) \in Nat
    BY <2>1, LenProperties
  <2> HIDE DEF slots
  <2>3. \A i \in 1..Len(slots) : sel[i] \in Selected
    BY <1>3, <1>4, <2>2 DEF Selected
  <2>4. sel = [i \in 1..Len(slots) |-> sel[i]]
    BY <1>3, <2>2
  <2> QED BY <2>2, <2>3, <2>4, SeqDef
<1>6. row \in JobRow /\ row.paper = jobs[j].paper /\ row.sel = sel
  BY <1>2, <1>5 DEF JobRow, Live
<1>7. jobs' = [jobs EXCEPT ![j] = row]
  BY <1>1
<1>8. \A i \in DOMAIN row.sel : row.sel[i] \in Valid \cup {NoQuestion}
  BY <1>3, <1>6
<1>9. /\ jobs[j].status \in Live
      /\ UNCHANGED <<school, paper, cands, decisions, attempts, review, submission>>
  BY DEF SelectQuestions, Live
<1> HIDE DEF row
<1> QED BY <1>6, <1>7, <1>8, <1>9, JobRowStep

\* The attempt rolls back.
LEMMA FailStep ==
    ASSUME ExamInv, NEW j \in DOMAIN jobs, GenerationFails(j)
    PROVE  ExamInv'
<1>1. PICK status \in {"QUEUED", "FAILED"} :
         jobs' = [jobs EXCEPT ![j].status = status, ![j].sel = <<>>]
  BY DEF GenerationFails
<1> DEFINE row == [jobs[j] EXCEPT !.status = status, !.sel = <<>>]
<1>2. row \in JobRow /\ row.paper = jobs[j].paper /\ row.status # "RUNNING"
  <2>1. <<>> \in Seq(Selected)
    BY EmptySeq
  <2> QED BY <2>1, RowFacts DEF ExamInv, JobRow, Live
<1>3. jobs' = [jobs EXCEPT ![j] = row]
  BY <1>1
<1>4. /\ jobs[j].status \in Live
      /\ UNCHANGED <<school, paper, cands, decisions, attempts, review, submission>>
  BY DEF GenerationFails, Live
<1> HIDE DEF row
<1> QED BY <1>2, <1>3, <1>4, JobRowStep

\* A job for a paper nobody has asked for.
LEMMA RequestStep ==
    ASSUME ExamInv, NEW p \in Papers, RequestPaper(p)
    PROVE  ExamInv'
<1> DEFINE row == NewJob(p)
           n == Len(jobs) + 1
<1>1. row \in JobRow /\ row.paper = p /\ row.status = "QUEUED"
  <2>1. <<>> \in Seq(Selected)
    BY EmptySeq
  <2> QED BY <2>1 DEF NewJob, JobRow, Live, ExamInv, TypeInv
<1> HIDE DEF row
<1>2. /\ jobs' \in Seq(JobRow) /\ DOMAIN jobs' = DOMAIN jobs \cup {n} /\ n \notin DOMAIN jobs
      /\ jobs'[n] = row /\ \A i \in DOMAIN jobs : jobs'[i] = jobs[i]
  BY <1>1, AddedRow DEF ExamInv, TypeInv, RequestPaper, row
<1> HIDE DEF n
<1>3. /\ ~Asked(p)
      /\ UNCHANGED <<school, paper, cands, decisions, attempts, review, submission>>
  BY DEF RequestPaper, Asked
<1>4. paper[p].status = "none" /\ Pending(p) = {}
  BY <1>3 DEF ExamInv, PaperInv, Pending
<1>5. TypeInv'
  BY <1>2, <1>3 DEF ExamInv, TypeInv
<1>6. DecisionInv' /\ ReviewInv' /\ SubmitInv'
  BY <1>3 DEF ExamInv, DecisionInv, ReviewInv, SubmitInv, LastOf
<1>7. JobInv'
  <2>1. \A i \in DOMAIN jobs : jobs'[i].paper # p
    BY <1>2, <1>3 DEF Asked
  <2>2. /\ Pending(p)' = {} /\ paper'[p].status \notin Frozen
        /\ \A q : Pending(q)' = Pending(q)
    BY <1>3, <1>4 DEF Pending, Frozen
  <2>3. ASSUME NEW i \in DOMAIN jobs', NEW j \in DOMAIN jobs',
               jobs'[i].paper = jobs'[j].paper,
               jobs'[i].status \in Live, jobs'[j].status \in Live
        PROVE  i = j
    BY <2>3, <1>1, <1>2, <2>1 DEF ExamInv, JobInv
  <2>4. ASSUME NEW j \in DOMAIN jobs', jobs'[j].status \in Live
        PROVE  Pending(jobs[j].paper)' = {} /\ paper'[jobs'[j].paper].status \notin Frozen
    <3>1. PICK q \in Papers : q = jobs'[j].paper
      BY <2>4, <1>5, RowFacts, <1>1, <1>2 DEF ExamInv
    <3>2. Pending(q) = {} /\ paper[q].status \notin Frozen
      BY <2>4, <3>1, <1>1, <1>2, <1>4 DEF ExamInv, JobInv, Frozen
    <3> QED BY <3>1, <3>2, <1>3 DEF Pending
  <2> QED BY <2>3, <2>4 DEF JobInv, Pending
<1>8. PaperInv'
  BY <1>2, <1>3 DEF ExamInv, PaperInv, Asked
<1>9. SelectionInv'
  BY <1>1, <1>2, <1>3 DEF ExamInv, SelectionInv, PublishedIsReviewed, Valid, HasAnswer
<1> QED BY <1>5, <1>6, <1>7, <1>8, <1>9 DEF ExamInv

\* Publish and AwaitReview: job j of paper p ends, and p gets a new row.  Nobody
\* has seen p, and no decision is open for it.
LEMMA GenerateFacts ==
    ASSUME ExamInv, NEW j \in DOMAIN jobs, jobs[j].status = "RUNNING"
    PROVE  /\ jobs[j] \in JobRow /\ jobs[j].paper \in Papers /\ Asked(jobs[j].paper)
           /\ ProfileOf(j) \in Schools
           /\ Pending(jobs[j].paper) = {}
           /\ \A a \in attempts : a.paper # jobs[j].paper /\ a.paper \in Papers
           /\ \A k \in Keys : submission[k].open => submission[k].paper # jobs[j].paper
           /\ \A i \in DOMAIN jobs : i # j /\ jobs[i].status \in Live
                                        => jobs[i].paper # jobs[j].paper
           /\ \A c \in DOMAIN cands : cands[c].status = "REVIEW_REQUIRED"
                                        => cands[c].paper # jobs[j].paper
<1>1. jobs[j] \in JobRow /\ jobs[j].paper \in Papers /\ Asked(jobs[j].paper)
  BY RowFacts DEF ExamInv, Asked
<1>2. /\ Pending(jobs[j].paper) = {} /\ paper[jobs[j].paper].status \notin Frozen
      /\ \A i \in DOMAIN jobs : i # j /\ jobs[i].status \in Live
                                        => jobs[i].paper # jobs[j].paper
  BY DEF ExamInv, JobInv, Live
<1>3. /\ \A a \in attempts : a.paper # jobs[j].paper /\ a.paper \in Papers
      /\ \A k \in Keys : submission[k].open => submission[k].paper # jobs[j].paper
  BY <1>2 DEF ExamInv, SubmitInv, TypeInv
<1>4. ProfileOf(j) \in Schools
  BY <1>1 DEF ProfileOf, ExamInv, TypeInv, JobRow, PaperRow
<1>5. \A c \in DOMAIN cands : cands[c].status = "REVIEW_REQUIRED" => cands[c].paper # jobs[j].paper
  BY <1>2 DEF Pending
<1> QED BY <1>1, <1>2, <1>3, <1>4, <1>5

\* A paper is published: its selection has what the student may be asked.
LEMMA PublishStep ==
    ASSUME ExamInv, NEW j \in DOMAIN jobs, Publish(j)
    PROVE  ExamInv'
<1> DEFINE p == jobs[j].paper
           sel == jobs[j].sel
           row == [status |-> "PUBLISHED", profile |-> ProfileOf(j), questions |-> sel]
           job == [jobs[j] EXCEPT !.status = "SUCCEEDED"]
<1>1. /\ jobs[j].status = "RUNNING" /\ Validates(sel)
      /\ paper' = [paper EXCEPT ![p] = row] /\ jobs' = [jobs EXCEPT ![j] = job]
      /\ UNCHANGED <<school, cands, decisions, attempts, review, submission>>
  BY DEF Publish
<1>2. /\ jobs[j] \in JobRow /\ p \in Papers /\ Asked(p) /\ ProfileOf(j) \in Schools
      /\ \A a \in attempts : a.paper # p /\ a.paper \in Papers
      /\ \A k \in Keys : submission[k].open => submission[k].paper # p
      /\ \A i \in DOMAIN jobs : i # j /\ jobs[i].status \in Live => jobs[i].paper # p
      /\ \A c \in DOMAIN cands : cands[c].status = "REVIEW_REQUIRED" => cands[c].paper # p
  BY <1>1, GenerateFacts
<1>3. row \in PaperRow /\ job \in JobRow /\ job.paper = p /\ job.status = "SUCCEEDED"
  BY <1>2 DEF PaperRow, JobRow, Frozen
<1>4. row.status = "PUBLISHED" /\ row.questions = sel
  OBVIOUS
<1>5. /\ \A i \in DOMAIN sel : sel[i] \in Valid /\ HasAnswer(sel[i])
      /\ \A i, k \in DOMAIN sel : sel[i] = sel[k] => i = k
  BY <1>1 DEF Validates, Filled, ExamInv, SelectionInv
<1> HIDE DEF row, job, p, sel
<1>6. /\ paper' \in [Papers -> PaperRow] /\ paper'[p] = row
      /\ \A q \in Papers : q # p => paper'[q] = paper[q]
  BY <1>1, <1>2, <1>3 DEF ExamInv, TypeInv
<1>7. /\ jobs' \in Seq(JobRow) /\ DOMAIN jobs' = DOMAIN jobs /\ jobs'[j] = job
      /\ \A i \in DOMAIN jobs : i # j => jobs'[i] = jobs[i]
  BY <1>1, <1>3, ReplacedRow DEF ExamInv, TypeInv
<1>8. TypeInv'
  BY <1>1, <1>6, <1>7 DEF ExamInv, TypeInv
<1>9. DecisionInv' /\ ReviewInv'
  BY <1>1 DEF ExamInv, DecisionInv, ReviewInv, LastOf
<1>10. JobInv'
  <2>1. ASSUME NEW i \in DOMAIN jobs', jobs'[i].status \in Live
        PROVE  i # j /\ i \in DOMAIN jobs /\ jobs'[i] = jobs[i] /\ jobs[i].paper # p
               /\ jobs[i].paper \in Papers
    BY <2>1, <1>2, <1>3, <1>7, RowFacts DEF Live, ExamInv
  <2> QED BY <2>1, <1>1, <1>6 DEF ExamInv, JobInv, Pending
<1>11. PaperInv'
  <2>1. \A q : Asked(q)' <=> Asked(q)
    BY <1>2, <1>3, <1>7 DEF Asked, p
  <2>2. \A c \in DOMAIN cands : cands[c].paper \in Papers
    BY RowFacts DEF ExamInv, IsCandidate
  <2> QED BY <1>1, <1>2, <1>6, <2>1, <2>2 DEF ExamInv, PaperInv
<1>12. SubmitInv'
  <2>1. \A k \in Keys : submission[k].open => submission[k].paper \in Papers
    BY RowFacts DEF ExamInv
  <2> QED BY <2>1, <1>1, <1>2, <1>6 DEF ExamInv, SubmitInv
<1>13. SelectionInv'
  <2>1. ASSUME NEW i \in DOMAIN jobs', jobs'[i].status = "RUNNING"
        PROVE  \A n \in DOMAIN jobs'[i].sel : jobs'[i].sel[n] \in Valid' \cup {NoQuestion}
    BY <2>1, <1>1, <1>3, <1>7 DEF ExamInv, SelectionInv, Valid
  <2>2. PublishedIsReviewed'
    BY <1>1, <1>4, <1>5, <1>6 DEF ExamInv, SelectionInv, PublishedIsReviewed, Valid, HasAnswer
  <2> QED BY <2>1, <2>2 DEF SelectionInv
<1> QED BY <1>8, <1>9, <1>10, <1>11, <1>12, <1>13 DEF ExamInv

\* The candidates a job adds, if any, await review.
LEMMA NewCandidateFacts ==
    ASSUME ExamInv, NEW j \in DOMAIN jobs, jobs[j].status = "RUNNING",
           NEW new \in NewCandidates(j)
    PROVE  /\ Table(new)
           /\ \A n \in DOMAIN new : /\ IsCandidate(new[n]) /\ new[n].paper = jobs[j].paper
                                    /\ new[n].status = "REVIEW_REQUIRED"
<1> DEFINE p == jobs[j].paper
           slots == Slots[jobs[j].school]
           sel == jobs[j].sel
           missing == MissingPairs(slots, sel)
<1>0. jobs[j] \in JobRow /\ p \in Papers /\ slots \in Seq(Pairs)
  BY GenerateFacts, ExamAssumption DEF JobRow
<1>1. CASE new = <<>>
  BY <1>1, EmptySeq DEF Table, Rows
<1>2. CASE new # <<>>
  <2>1. PICK answer \in [DOMAIN missing -> Answers] :
           new = [n \in DOMAIN missing |-> [paper |-> p, pair |-> missing[n],
                                         answer |-> answer[n], status |-> "REVIEW_REQUIRED"]]
    BY <1>2 DEF NewCandidates
  <2>2. \E n \in Nat : DOMAIN missing = 1..n
    <3> DEFINE unfilled == {i \in DOMAIN slots : sel[i] = NoQuestion}
    <3>1. Cardinality(unfilled) \in Nat
      <4>1. DOMAIN slots = 1..Len(slots) /\ Len(slots) \in Nat
        BY <1>0, LenProperties
      <4>2. IsFiniteSet(1..Len(slots))
        BY <4>1, FS_Interval
      <4>3. IsFiniteSet(unfilled)
        BY <4>1, <4>2, FS_Subset
      <4> QED BY <4>3, FS_CardinalityType
    <3>2. CASE unfilled = {}
      <4>1. missing = <<slots[1]>>
        BY <3>2 DEF MissingPairs
      <4>2. DOMAIN missing = 1..1
        BY <4>1
      <4> QED BY <4>2
    <3>3. CASE unfilled # {}
      <4>1. DOMAIN missing = 1..Cardinality(unfilled)
        BY <3>3 DEF MissingPairs
      <4> QED BY <3>1, <4>1
    <3> QED BY <3>2, <3>3
  <2> HIDE DEF missing
  <2>3. PICK n \in Nat : DOMAIN missing = 1..n
    BY <2>2
  <2>4. Table(new)
    <3>1. new = [i \in 1..n |-> new[i]] /\ DOMAIN new = 1..n
      BY <2>1, <2>3
    <3> QED BY <3>1, SeqDef DEF Table, Rows
  <2>5. \A i \in DOMAIN new : new[i] = [paper |-> p, pair |-> missing[i],
                                         answer |-> answer[i], status |-> "REVIEW_REQUIRED"]
    BY <2>1
  <2> QED BY <1>0, <2>4, <2>5 DEF IsCandidate
<1> QED BY <1>1, <1>2

\* A sequence of any rows is a table of its own rows.
LEMMA SequenceIsTable ==
    ASSUME NEW X, NEW s \in Seq(X)
    PROVE  Table(s)
<1>1. PICK n \in Nat : s \in [1..n -> X]
  BY SeqDef
<1> DEFINE Y == {s[i] : i \in DOMAIN s}
<1>2. DOMAIN s = 1..n /\ s = [i \in 1..n |-> s[i]]
  BY <1>1
<1>3. \A i \in 1..n : s[i] \in Y
  BY <1>2
<1> HIDE DEF Y
<1>4. s \in [1..n -> Y]
  BY <1>2, <1>3
<1>5. s \in Seq(Y)
  BY <1>4, SeqDef
<1> QED BY <1>5 DEF Table, Rows, Y

\* Two tables, one after the other.
LEMMA JoinedTables ==
    ASSUME NEW s, NEW t, NEW both, Table(s), Table(t), both = s \o t
    PROVE  /\ Table(both) /\ DOMAIN s \subseteq DOMAIN both
           /\ \A i \in DOMAIN s : both[i] = s[i]
           /\ \A i \in DOMAIN both : i \in DOMAIN s \/ both[i] \in Rows(t)
<1> DEFINE S == {s[i] : i \in DOMAIN s}
           T == {t[i] : i \in DOMAIN t}
<1>1. s \in Seq(S) /\ t \in Seq(T)
  BY DEF Table, Rows
<1>2. /\ Len(s) \in Nat /\ DOMAIN s = 1..Len(s)
      /\ Len(t) \in Nat /\ DOMAIN t = 1..Len(t)
  BY <1>1, LenProperties
<1>3. s \in Seq(S \cup T) /\ t \in Seq(S \cup T)
  BY <1>1, <1>2, SeqDef
<1> HIDE DEF S, T
<1>4. /\ both \in Seq(S \cup T) /\ Len(both) = Len(s) + Len(t)
      /\ \A i \in 1..(Len(s) + Len(t)) :
            both[i] = IF i <= Len(s) THEN s[i] ELSE t[i - Len(s)]
  BY <1>3, ConcatProperties
<1>5. DOMAIN both = 1..(Len(s) + Len(t))
  BY <1>4, LenProperties
<1>6. Table(both)
  BY <1>4, SequenceIsTable
<1>7. ASSUME NEW i \in DOMAIN both, i \notin DOMAIN s
      PROVE  both[i] \in Rows(t)
  <2>1. i - Len(s) \in DOMAIN t /\ both[i] = t[i - Len(s)]
    BY <1>2, <1>4, <1>5, <1>7
  <2> QED BY <2>1 DEF Rows
<1> QED BY <1>2, <1>4, <1>5, <1>6, <1>7

\* What the bank lacks becomes candidates, and the paper waits for them.
LEMMA AwaitStep ==
    ASSUME ExamInv, NEW j \in DOMAIN jobs, AwaitReview(j)
    PROVE  ExamInv'
<1> DEFINE p == jobs[j].paper
           row == [status |-> "WAITING_FOR_REVIEW", profile |-> ProfileOf(j), questions |-> <<>>]
           job == [jobs[j] EXCEPT !.status = "WAITING_FOR_REVIEW"]
<1>1. /\ jobs[j].status = "RUNNING"
      /\ paper' = [paper EXCEPT ![p] = row] /\ jobs' = [jobs EXCEPT ![j] = job]
      /\ UNCHANGED <<school, decisions, attempts, review, submission>>
  BY DEF AwaitReview
<1>2. /\ jobs[j] \in JobRow /\ p \in Papers /\ Asked(p) /\ ProfileOf(j) \in Schools
      /\ \A a \in attempts : a.paper # p /\ a.paper \in Papers
      /\ \A k \in Keys : submission[k].open => submission[k].paper # p
      /\ \A i \in DOMAIN jobs : i # j /\ jobs[i].status \in Live => jobs[i].paper # p
      /\ \A c \in DOMAIN cands : cands[c].status = "REVIEW_REQUIRED" => cands[c].paper # p
  BY <1>1, GenerateFacts
<1>3. row \in PaperRow /\ job \in JobRow /\ job.paper = p /\ job.status = "WAITING_FOR_REVIEW"
  <2>1. <<>> \in Seq(Selected)
    BY EmptySeq
  <2> QED BY <1>2, <2>1 DEF PaperRow, JobRow
<1>4. row.status = "WAITING_FOR_REVIEW"
  OBVIOUS
<1>5. PICK new \in NewCandidates(j) : cands' = cands \o new
  BY DEF AwaitReview
<1>6. /\ Table(new)
      /\ \A n \in DOMAIN new : /\ IsCandidate(new[n]) /\ new[n].paper = p
                               /\ new[n].status = "REVIEW_REQUIRED"
  BY <1>1, NewCandidateFacts
<1> HIDE DEF row, job, p
<1>7. /\ Table(cands') /\ DOMAIN cands \subseteq DOMAIN cands'
      /\ \A c \in DOMAIN cands : cands'[c] = cands[c]
      /\ \A c \in DOMAIN cands' : c \notin DOMAIN cands =>
            /\ IsCandidate(cands'[c]) /\ cands'[c].paper = p
            /\ cands'[c].status = "REVIEW_REQUIRED"
  <2> DEFINE both == cands \o new
  <2>1. Table(cands) /\ Table(new)
    BY <1>6 DEF ExamInv, TypeInv
  <2>2. both = cands \o new /\ cands' = both
    BY <1>5
  <2> HIDE DEF both
  <2>6. Table(both) /\ DOMAIN cands \subseteq DOMAIN both
    BY <2>1, <2>2, JoinedTables
  <2>7. \A i \in DOMAIN cands : both[i] = cands[i]
    BY <2>1, <2>2, JoinedTables
  <2>8. \A i \in DOMAIN both : i \in DOMAIN cands \/ both[i] \in Rows(new)
    BY <2>1, <2>2, JoinedTables
  <2>3. /\ Table(both) /\ DOMAIN cands \subseteq DOMAIN both
        /\ \A i \in DOMAIN cands : both[i] = cands[i]
        /\ \A i \in DOMAIN both : i \in DOMAIN cands \/ both[i] \in Rows(new)
    BY <2>6, <2>7, <2>8
  <2>4. \A i \in DOMAIN both : i \notin DOMAIN cands =>
           IsCandidate(both[i]) /\ both[i].paper = p /\ both[i].status = "REVIEW_REQUIRED"
    BY <2>3, <1>6 DEF Rows
  <2>5. Table(cands')
    BY <2>2, <2>3 DEF Table, Rows
  <2> QED BY <2>2, <2>3, <2>4, <2>5
<1>8. /\ paper' \in [Papers -> PaperRow] /\ paper'[p] = row
      /\ \A q \in Papers : q # p => paper'[q] = paper[q]
  BY <1>1, <1>2, <1>3 DEF ExamInv, TypeInv
<1>9. /\ jobs' \in Seq(JobRow) /\ DOMAIN jobs' = DOMAIN jobs /\ jobs'[j] = job
      /\ \A i \in DOMAIN jobs : i # j => jobs'[i] = jobs[i]
  BY <1>1, <1>3, ReplacedRow DEF ExamInv, TypeInv
<1>10. \A q \in Papers : q # p => Pending(q)' = Pending(q)
  BY <1>7 DEF Pending
<1>11. \A c \in DOMAIN cands : cands[c].paper \in Papers
  BY RowFacts DEF ExamInv, IsCandidate
<1>12. TypeInv'
  BY <1>1, <1>7, <1>8, <1>9 DEF ExamInv, TypeInv
<1>13. DecisionInv'
  BY <1>1, <1>7 DEF ExamInv, DecisionInv
<1>14. ReviewInv'
  <2>1. ASSUME NEW r \in Reviewers, review[r].open
        PROVE  /\ review[r].candidate \in DOMAIN cands'
               /\ cands'[review[r].candidate].status = "REVIEW_REQUIRED"
               /\ review[r].resume => LastOf(review[r].candidate)'
    <3> DEFINE d == review[r].candidate
    <3>1. /\ d \in DOMAIN cands /\ cands[d].status = "REVIEW_REQUIRED"
          /\ review[r].resume => LastOf(d)
      BY <2>1 DEF ExamInv, ReviewInv
    <3>2. d \in DOMAIN cands' /\ cands'[d] = cands[d] /\ cands[d].paper # p
      BY <3>1, <1>2, <1>7
    <3>3. review'[r] = review[r]
      BY <1>1
    <3>4. LastOf(d) => LastOf(review[r].candidate)'
      BY <3>2, <3>3, <1>7 DEF LastOf
    <3> QED BY <3>1, <3>2, <3>4
  <2> QED BY <2>1, <1>1 DEF ExamInv, ReviewInv, LastOf
<1>15. JobInv'
  <2>1. ASSUME NEW i \in DOMAIN jobs', jobs'[i].status \in Live
        PROVE  i # j /\ i \in DOMAIN jobs /\ jobs'[i] = jobs[i] /\ jobs[i].paper # p
               /\ jobs[i].paper \in Papers
    BY <2>1, <1>2, <1>3, <1>9, RowFacts DEF Live, ExamInv
  <2>2. ASSUME NEW i \in DOMAIN jobs', jobs'[i].status \in Live
        PROVE  Pending(jobs[i].paper)' = {} /\ paper'[jobs'[i].paper].status \notin Frozen
    <3>1. PICK q \in Papers : q = jobs'[i].paper /\ q = jobs[i].paper /\ q # p
      BY <2>1, <2>2
    <3>2. Pending(q) = {} /\ paper[q].status \notin Frozen
      BY <2>1, <2>2, <3>1 DEF ExamInv, JobInv
    <3>3. Pending(q)' = {} /\ paper'[q].status \notin Frozen
      BY <3>1, <3>2, <1>8, <1>10
    <3> QED BY <3>1, <3>3 DEF Pending
  <2> QED BY <2>1, <2>2 DEF ExamInv, JobInv, Pending
<1>16. PaperInv'
  <2>1. \A q : Asked(q)' <=> Asked(q)
    BY <1>2, <1>3, <1>9 DEF Asked, p
  <2> QED BY <1>2, <1>4, <1>7, <1>8, <1>11, <2>1 DEF ExamInv, PaperInv
<1>17. SubmitInv'
  <2>1. \A k \in Keys : submission[k].open => submission[k].paper \in Papers
    BY RowFacts DEF ExamInv
  <2> QED BY <2>1, <1>1, <1>2, <1>8 DEF ExamInv, SubmitInv
<1>18. SelectionInv'
  <2>1. Valid \subseteq Valid' /\ \A q \in Valid : HasAnswer(q)' = HasAnswer(q)
    BY <1>7 DEF Valid, HasAnswer
  <2>2. ASSUME NEW i \in DOMAIN jobs', jobs'[i].status = "RUNNING"
        PROVE  \A n \in DOMAIN jobs'[i].sel : jobs'[i].sel[n] \in Valid' \cup {NoQuestion}
    BY <2>1, <2>2, <1>3, <1>9 DEF ExamInv, SelectionInv
  <2>3. PublishedIsReviewed'
    BY <2>1, <1>4, <1>8 DEF ExamInv, SelectionInv, PublishedIsReviewed, Frozen
  <2> QED BY <2>2, <2>3 DEF SelectionInv
<1> QED BY <1>12, <1>13, <1>14, <1>15, <1>16, <1>17, <1>18 DEF ExamInv

\* What the student does next to reviews and jobs, and a decision that rolls back.
LEMMA OtherSteps ==
    ASSUME ExamInv,
           \/ \E r \in Reviewers : AbortDecide(r)
           \/ \E q \in Practised : Practise(q)
           \/ \E s \in Schools : ChangeSchool(s)
           \/ UNCHANGED vars
    PROVE  ExamInv'
<1>1. UNCHANGED <<paper, jobs, cands, decisions, attempts, submission>>
  BY DEF AbortDecide, Practise, ChangeSchool, vars
<1>2. school' \in Schools
  BY DEF AbortDecide, Practise, ChangeSchool, vars, ExamInv, TypeInv
<1>3. /\ review' \in [Reviewers -> {Idle} \cup
            [open : {TRUE}, candidate : Nat, approve : BOOLEAN, resume : BOOLEAN]]
      /\ \A r \in Reviewers : review'[r].open => review'[r] = review[r]
  <2>1. CASE \E r \in Reviewers : AbortDecide(r)
    <3>1. PICK r \in Reviewers : review' = [review EXCEPT ![r] = Idle]
      BY <2>1 DEF AbortDecide
    <3>2. ~Idle.open
      BY DEF Idle
    <3> QED BY <3>1, <3>2 DEF ExamInv, TypeInv
  <2>2. CASE UNCHANGED review
    BY <2>2 DEF ExamInv, TypeInv
  <2> QED BY <2>1, <2>2 DEF Practise, ChangeSchool, vars
<1>4. TypeInv'
  BY <1>1, <1>2, <1>3 DEF ExamInv, TypeInv
<1>5. ReviewInv'
  BY <1>1, <1>3 DEF ExamInv, ReviewInv, LastOf
<1>6. DecisionInv' /\ JobInv' /\ PaperInv' /\ SubmitInv' /\ SelectionInv'
  BY <1>1 DEF ExamInv, DecisionInv, JobInv, PaperInv, SubmitInv, SelectionInv,
     PublishedIsReviewed, Pending, Asked, Valid, HasAnswer
<1> QED BY <1>4, <1>5, <1>6 DEF ExamInv

\* The candidate is locked, and the others of its paper looked at.
LEMMA BeginDecideStep ==
    ASSUME ExamInv, NEW r \in Reviewers, NEW c \in DOMAIN cands, BeginDecide(r, c)
    PROVE  ExamInv'
<1>1. PICK approve \in Verdicts :
         review' = [review EXCEPT ![r] = [open |-> TRUE, candidate |-> c, approve |-> approve,
                                          resume |-> Pending(cands[c].paper) = {c}]]
  BY DEF BeginDecide
<1> DEFINE row == [open |-> TRUE, candidate |-> c, approve |-> approve,
                   resume |-> Pending(cands[c].paper) = {c}]
<1>2. /\ cands[c].status = "REVIEW_REQUIRED"
      /\ \A o \in Reviewers : review[o].open => review[o].candidate # c
      /\ UNCHANGED <<school, paper, jobs, cands, decisions, attempts, submission>>
  BY DEF BeginDecide
<1>3. /\ row \in [open : {TRUE}, candidate : Nat, approve : BOOLEAN, resume : BOOLEAN]
      /\ row.candidate = c
  <2>1. c \in Nat /\ approve \in BOOLEAN
    BY RowFacts, ExamAssumption DEF ExamInv
  <2> QED BY <2>1
<1>4. row.resume => LastOf(c)
  <2>1. row.resume => Pending(cands[c].paper) = {c}
    OBVIOUS
  <2> HIDE DEF row
  <2> QED BY <2>1 DEF LastOf, Pending
<1>5. review' = [review EXCEPT ![r] = row]
  BY <1>1
<1> HIDE DEF row
<1>6. /\ review' \in [Reviewers -> {Idle} \cup
            [open : {TRUE}, candidate : Nat, approve : BOOLEAN, resume : BOOLEAN]]
      /\ review'[r] = row
      /\ \A o \in Reviewers : o # r => review'[o] = review[o]
  BY <1>3, <1>5 DEF ExamInv, TypeInv
<1>7. TypeInv'
  BY <1>2, <1>6 DEF ExamInv, TypeInv
<1>8. ReviewInv'
  BY <1>2, <1>3, <1>4, <1>6 DEF ExamInv, ReviewInv, LastOf
<1>9. DecisionInv' /\ JobInv' /\ PaperInv' /\ SubmitInv' /\ SelectionInv'
  BY <1>2 DEF ExamInv, DecisionInv, JobInv, PaperInv, SubmitInv, SelectionInv,
     PublishedIsReviewed, Pending, Asked, Valid, HasAnswer
<1> QED BY <1>7, <1>8, <1>9 DEF ExamInv

\* The candidate of an open decision: its paper waits for it, no job works on the
\* paper, and no other open decision is to resume it.
LEMMA CommitFacts ==
    ASSUME ExamInv, NEW r \in Reviewers, review[r].open
    PROVE  LET c == review[r].candidate
               p == cands[c].paper
           IN  /\ c \in DOMAIN cands /\ cands[c].status = "REVIEW_REQUIRED"
               /\ p \in Papers /\ paper[p].status = "WAITING_FOR_REVIEW" /\ Asked(p)
               /\ \A j \in DOMAIN jobs : jobs[j].status \in Live => jobs[j].paper # p
               /\ \A d \in decisions : d.candidate # c
               /\ review[r].resume => LastOf(c)
<1> DEFINE c == review[r].candidate
           p == cands[c].paper
<1>1. /\ c \in DOMAIN cands /\ cands[c].status = "REVIEW_REQUIRED"
      /\ review[r].resume => LastOf(c)
  BY DEF ExamInv, ReviewInv
<1>2. c \in Pending(p)
  BY <1>1 DEF Pending
<1> HIDE DEF c
<1>3. /\ p \in Papers /\ paper[p].status = "WAITING_FOR_REVIEW" /\ Asked(p)
  BY <1>1, RowFacts DEF ExamInv, PaperInv, IsCandidate
<1>4. \A j \in DOMAIN jobs : jobs[j].status \in Live => jobs[j].paper # p
  BY <1>2 DEF ExamInv, JobInv
<1>5. \A d \in decisions : d.candidate # c
  BY <1>1 DEF ExamInv, DecisionInv, Verdict
<1> QED BY <1>1, <1>3, <1>4, <1>5 DEF c

\* The verdict takes effect, and the last one queues a job that resumes the paper.
LEMMA CommitDecideStep ==
    ASSUME ExamInv, NEW r \in Reviewers, CommitDecide(r)
    PROVE  ExamInv'
<1> DEFINE c == review[r].candidate
           p == cands[c].paper
           row == [cands[c] EXCEPT !.status = Verdict(review[r].approve)]
           decision == [candidate |-> c, reviewer |-> r, approve |-> review[r].approve]
<1>1. /\ review[r].open
      /\ cands' = [cands EXCEPT ![c] = row]
      /\ decisions' = decisions \cup {decision}
      /\ jobs' = IF review[r].resume THEN Append(jobs, NewJob(p)) ELSE jobs
      /\ review' = [review EXCEPT ![r] = Idle]
      /\ UNCHANGED <<school, paper, attempts, submission>>
  BY DEF CommitDecide, Verdict
<1>2. /\ c \in DOMAIN cands /\ cands[c].status = "REVIEW_REQUIRED"
      /\ p \in Papers /\ paper[p].status = "WAITING_FOR_REVIEW" /\ Asked(p)
      /\ \A j \in DOMAIN jobs : jobs[j].status \in Live => jobs[j].paper # p
      /\ \A d \in decisions : d.candidate # c
      /\ review[r].resume => LastOf(c)
  BY <1>1, CommitFacts
<1>3. /\ IsCandidate(row) /\ row.paper = p /\ row.status = Verdict(review[r].approve)
      /\ row.answer = cands[c].answer
  BY <1>2, RowFacts DEF IsCandidate, Verdict, ExamInv
<1>4. /\ decision \in [candidate : Nat, reviewer : Reviewers, approve : BOOLEAN]
      /\ decision.candidate = c /\ row.status = Verdict(decision.approve)
  BY <1>1, <1>2, <1>3, RowFacts DEF ExamInv
<1> HIDE DEF row, decision
<1>5. /\ Table(cands') /\ DOMAIN cands' = DOMAIN cands /\ cands'[c] = row
      /\ \A d \in DOMAIN cands : d # c => cands'[d] = cands[d]
  <2>1. cands \in Seq(Rows(cands) \cup {row}) /\ row \in Rows(cands) \cup {row}
    <3>1. cands \in Seq(Rows(cands)) /\ Rows(cands) \subseteq Rows(cands) \cup {row}
      BY DEF ExamInv, TypeInv, Table
    <3>2. PICK n \in Nat : cands \in [1..n -> Rows(cands)]
      BY <3>1, SeqDef
    <3>3. cands \in [1..n -> Rows(cands) \cup {row}]
      BY <3>2
    <3> QED BY <3>3, SeqDef
  <2>2. /\ cands' \in Seq(Rows(cands) \cup {row}) /\ DOMAIN cands' = DOMAIN cands
        /\ cands'[c] = row /\ \A d \in DOMAIN cands : d # c => cands'[d] = cands[d]
    BY <1>1, <1>2, <2>1, ReplacedRow
  <2>3. Table(cands')
    BY <2>2, SequenceIsTable
  <2> QED BY <2>2, <2>3
<1>6. \A d \in DOMAIN cands : cands'[d].paper = cands[d].paper
  BY <1>3, <1>5
<1>7. \A d \in DOMAIN cands : cands'[d].status = "REVIEW_REQUIRED" =>
         d # c /\ cands[d].status = "REVIEW_REQUIRED" /\ cands'[d] = cands[d]
  BY <1>3, <1>5 DEF Verdict
<1>8. /\ review' \in [Reviewers -> {Idle} \cup
            [open : {TRUE}, candidate : Nat, approve : BOOLEAN, resume : BOOLEAN]]
      /\ \A o \in Reviewers : review'[o].open => o # r /\ review'[o] = review[o]
  <2>1. ~Idle.open
    BY DEF Idle
  <2> QED BY <2>1, <1>1 DEF ExamInv, TypeInv
<1>9. /\ jobs' \in Seq(JobRow) /\ DOMAIN jobs \subseteq DOMAIN jobs'
      /\ \A i \in DOMAIN jobs : jobs'[i] = jobs[i]
      /\ \A i \in DOMAIN jobs' : i \notin DOMAIN jobs =>
            jobs'[i].paper = p /\ jobs'[i].status = "QUEUED" /\ LastOf(c)
      /\ \A i, j \in DOMAIN jobs' : i \notin DOMAIN jobs /\ j \notin DOMAIN jobs => i = j
  <2> DEFINE new == NewJob(p)
  <2>1. new \in JobRow /\ new.paper = p /\ new.status = "QUEUED"
    <3>1. <<>> \in Seq(Selected)
      BY EmptySeq
    <3> QED BY <1>2, <3>1 DEF NewJob, JobRow, Live, ExamInv, TypeInv
  <2>2. jobs \in Seq(JobRow) /\ (jobs' = jobs \/ (jobs' = Append(jobs, new) /\ LastOf(c)))
    BY <1>1, <1>2 DEF ExamInv, TypeInv
  <2> HIDE DEF new
  <2>3. CASE jobs' = jobs
    BY <2>2, <2>3
  <2>4. CASE jobs' = Append(jobs, new) /\ LastOf(c)
    BY <2>1, <2>2, <2>4, AddedRow
  <2> QED BY <2>2, <2>3, <2>4
<1> HIDE DEF p, c
<1>10. TypeInv'
  BY <1>1, <1>3, <1>4, <1>5, <1>8, <1>9 DEF ExamInv, TypeInv
<1>11. DecisionInv'
  BY <1>1, <1>2, <1>4, <1>5 DEF ExamInv, DecisionInv
<1>12. ReviewInv'
  <2>1. ASSUME NEW o \in Reviewers, review'[o].open
        PROVE  /\ review[o].open /\ review[o].candidate # c /\ review'[o] = review[o]
               /\ review[o].candidate \in DOMAIN cands
               /\ cands[review[o].candidate].status = "REVIEW_REQUIRED"
               /\ review[o].resume => LastOf(review[o].candidate)
    BY <2>1, <1>1, <1>8 DEF ExamInv, ReviewInv, c
  <2>2. \A d \in DOMAIN cands : LastOf(d) => LastOf(d)'
    BY <1>5, <1>6, <1>7 DEF LastOf
  <2>3. ASSUME NEW o \in Reviewers, review'[o].open
        PROVE  /\ review'[o].candidate \in DOMAIN cands'
               /\ cands'[review'[o].candidate].status = "REVIEW_REQUIRED"
               /\ review'[o].resume => LastOf(review[o].candidate)'
    <3>1. PICK d \in DOMAIN cands : d = review[o].candidate
      BY <2>1, <2>3
    <3>2. LastOf(d) => LastOf(d)'
      BY <2>2
    <3>3. d = review[o].candidate /\ d = review'[o].candidate
      BY <2>1, <2>3, <3>1
    <3>4. LastOf(d)' => LastOf(review[o].candidate)'
      BY <3>3 DEF LastOf
    <3> QED BY <2>1, <2>3, <3>1, <3>2, <3>3, <3>4, <1>5
  <2>4. \A o, q \in Reviewers :
           review'[o].open /\ review'[q].open /\ review'[o].candidate = review'[q].candidate
              => o = q
    BY <2>1 DEF ExamInv, ReviewInv
  <2> QED BY <2>3, <2>4 DEF ReviewInv
<1>13. ASSUME NEW i \in DOMAIN jobs', jobs'[i].status \in Live
       PROVE  \/ i \in DOMAIN jobs /\ jobs'[i] = jobs[i] /\ jobs[i].paper # p
              \/ i \notin DOMAIN jobs /\ jobs'[i].paper = p /\ LastOf(c)
  BY <1>2, <1>9, <1>13
<1>14. JobInv'
  <2>1. ASSUME NEW i \in DOMAIN jobs', NEW j \in DOMAIN jobs', jobs'[i].paper = jobs'[j].paper,
               jobs'[i].status \in Live, jobs'[j].status \in Live
        PROVE  i = j
    BY <2>1, <1>9, <1>13 DEF ExamInv, JobInv
  <2>2. ASSUME NEW i \in DOMAIN jobs', jobs'[i].status \in Live
        PROVE  /\ paper'[jobs'[i].paper].status \notin Frozen
               /\ \A d \in DOMAIN cands' : cands'[d].status = "REVIEW_REQUIRED"
                                              => cands'[d].paper # jobs'[i].paper
    <3>1. CASE i \in DOMAIN jobs /\ jobs'[i] = jobs[i] /\ jobs[i].paper # p
      <4>1. jobs[i].status \in Live
        BY <2>2, <3>1
      <4>2. Pending(jobs[i].paper) = {} /\ paper[jobs[i].paper].status \notin Frozen
        BY <3>1, <4>1 DEF ExamInv, JobInv
      <4> QED BY <3>1, <4>2, <1>1, <1>5, <1>7 DEF Pending
    <3>2. CASE i \notin DOMAIN jobs /\ jobs'[i].paper = p /\ LastOf(c)
      <4>1. paper'[p].status \notin Frozen
        BY <1>1, <1>2 DEF Frozen
      <4>2. \A d \in DOMAIN cands' : cands'[d].status = "REVIEW_REQUIRED" => cands'[d].paper # p
        BY <3>2, <1>5, <1>7 DEF LastOf, p
      <4> QED BY <3>2, <4>1, <4>2
    <3> QED BY <2>2, <1>13, <3>1, <3>2
  <2> QED BY <2>1, <2>2 DEF JobInv, Pending
<1>15. PaperInv'
  <2>1. \A q : Asked(q) => Asked(q)'
    BY <1>9 DEF Asked
  <2>2. \A q \in Papers : paper'[q].status # "none" => Asked(q)'
    BY <2>1, <1>1 DEF ExamInv, PaperInv
  <2>3. ASSUME NEW d \in DOMAIN cands'
        PROVE  /\ Asked(cands[d].paper)'
               /\ cands'[d].status = "REVIEW_REQUIRED" =>
                     paper'[cands'[d].paper].status = "WAITING_FOR_REVIEW"
    <3>1. PICK q : q = cands[d].paper
      OBVIOUS
    <3>2. Asked(q)'
      BY <3>1, <2>1, <1>5 DEF ExamInv, PaperInv
    <3>3. cands'[d].paper = q
      BY <3>1, <1>5, <1>6
    <3>4. cands'[d].status = "REVIEW_REQUIRED" => paper[q].status = "WAITING_FOR_REVIEW"
      BY <3>1, <1>5, <1>7 DEF ExamInv, PaperInv
    <3> QED BY <3>2, <3>3, <3>4, <1>1 DEF Asked
  <2> QED BY <2>2, <2>3 DEF PaperInv
<1>16. SubmitInv'
  BY <1>1 DEF ExamInv, SubmitInv
<1>17. SelectionInv'
  <2>1. Valid \subseteq Valid'
    BY <1>2, <1>5 DEF Valid
  <2>2. \A q \in Valid : HasAnswer(q) => HasAnswer(q)'
    BY <1>2, <1>5 DEF Valid, HasAnswer
  <2>3. ASSUME NEW i \in DOMAIN jobs', jobs'[i].status = "RUNNING"
        PROVE  \A n \in DOMAIN jobs'[i].sel : jobs'[i].sel[n] \in Valid' \cup {NoQuestion}
    BY <2>1, <2>3, <1>9 DEF ExamInv, SelectionInv
  <2>4. PublishedIsReviewed'
    BY <2>1, <2>2, <1>1 DEF ExamInv, SelectionInv, PublishedIsReviewed
  <2> QED BY <2>3, <2>4 DEF SelectionInv
<1> QED BY <1>10, <1>11, <1>12, <1>14, <1>15, <1>16, <1>17 DEF ExamInv

\* The published paper is read.
LEMMA BeginSubmitStep ==
    ASSUME ExamInv, NEW k \in Keys, NEW p \in Papers, BeginSubmit(k, p)
    PROVE  ExamInv'
<1> DEFINE row == [open |-> TRUE, paper |-> p, questions |-> paper[p].questions]
<1>1. /\ paper[p].status = "PUBLISHED"
      /\ submission' = [submission EXCEPT ![k] = row]
      /\ UNCHANGED <<school, paper, jobs, cands, decisions, attempts, review>>
  BY DEF BeginSubmit
<1>2. /\ row \in [open : {TRUE}, paper : Papers, questions : Seq(Selected)]
      /\ row.paper = p /\ row.questions = paper[p].questions
  <2>1. paper[p].questions \in Seq(Selected)
    BY DEF ExamInv, TypeInv, PaperRow
  <2> QED BY <2>1
<1> HIDE DEF row
<1>3. /\ submission' \in [Keys -> {Idle} \cup
            [open : {TRUE}, paper : Papers, questions : Seq(Selected)]]
      /\ submission'[k] = row
      /\ \A o \in Keys : o # k => submission'[o] = submission[o]
  BY <1>1, <1>2 DEF ExamInv, TypeInv
<1>4. TypeInv'
  BY <1>1, <1>3 DEF ExamInv, TypeInv
<1>5. SubmitInv'
  BY <1>1, <1>2, <1>3 DEF ExamInv, SubmitInv, Frozen
<1>6. DecisionInv' /\ ReviewInv' /\ JobInv' /\ PaperInv' /\ SelectionInv'
  BY <1>1 DEF ExamInv, DecisionInv, ReviewInv, LastOf, JobInv, PaperInv, SelectionInv,
     PublishedIsReviewed, Pending, Asked, Valid, HasAnswer
<1> QED BY <1>4, <1>5, <1>6 DEF ExamInv

\* The answers are recorded for the questions that were read.
LEMMA CommitSubmitStep ==
    ASSUME ExamInv, NEW k \in Keys, CommitSubmit(k)
    PROVE  ExamInv'
<1> DEFINE p == submission[k].paper
           qs == submission[k].questions
           attempt == [key |-> k, paper |-> p, questions |-> qs]
           row == [paper[p] EXCEPT !.status = "COMPLETED"]
<1>1. /\ submission[k].open
      /\ attempts' = attempts \cup {attempt}
      /\ paper' = [paper EXCEPT ![p] = row]
      /\ submission' = [submission EXCEPT ![k] = Idle]
      /\ UNCHANGED <<school, jobs, cands, decisions, review>>
  BY DEF CommitSubmit
<1>2. /\ p \in Papers /\ paper[p].status \in Frozen /\ qs = paper[p].questions
      /\ paper[p] \in PaperRow
  BY <1>1, RowFacts DEF ExamInv, SubmitInv
<1>3. /\ row \in PaperRow /\ row.status = "COMPLETED" /\ row.questions = paper[p].questions
      /\ qs \in Seq(Selected)
  BY <1>2 DEF PaperRow, Frozen
<1>4. /\ attempt \in [key : Keys, paper : Papers, questions : Seq(Selected)]
      /\ attempt.paper = p /\ attempt.questions = qs
  BY <1>2, <1>3
<1> HIDE DEF row, attempt, p, qs
<1>5. /\ paper' \in [Papers -> PaperRow] /\ paper'[p] = row
      /\ \A q \in Papers : q # p => paper'[q] = paper[q]
  BY <1>1, <1>2, <1>3 DEF ExamInv, TypeInv
<1>6. \A q \in Papers : /\ paper'[q].questions = paper[q].questions
                        /\ paper[q].status \in Frozen <=> paper'[q].status \in Frozen
                        /\ q # p => paper'[q] = paper[q]
  BY <1>2, <1>3, <1>5 DEF Frozen
<1>7. /\ submission' \in [Keys -> {Idle} \cup
            [open : {TRUE}, paper : Papers, questions : Seq(Selected)]]
      /\ \A o \in Keys :
            submission'[o].open => submission[o].open /\ submission'[o] = submission[o]
  <2>1. ~Idle.open
    BY DEF Idle
  <2> QED BY <2>1, <1>1 DEF ExamInv, TypeInv
<1>8. TypeInv'
  BY <1>1, <1>4, <1>5, <1>7 DEF ExamInv, TypeInv
<1>9. DecisionInv' /\ ReviewInv'
  BY <1>1 DEF ExamInv, DecisionInv, ReviewInv, LastOf
<1>10. JobInv'
  <2>1. \A j \in DOMAIN jobs : jobs[j].paper \in Papers
    BY RowFacts DEF ExamInv
  <2> QED BY <2>1, <1>1, <1>6 DEF ExamInv, JobInv, Pending
<1>11. PaperInv'
  <2>1. \A c \in DOMAIN cands : cands[c].paper \in Papers
    BY RowFacts DEF ExamInv, IsCandidate
  <2>2. Asked(p)
    BY <1>2 DEF ExamInv, PaperInv, Frozen
  <2>3. \A c \in DOMAIN cands : cands[c].status = "REVIEW_REQUIRED" => cands[c].paper # p
    BY <1>2 DEF ExamInv, PaperInv, Frozen
  <2> QED BY <2>1, <2>2, <2>3, <1>1, <1>5 DEF ExamInv, PaperInv, Asked
<1>12. SubmitInv'
  <2>1. \A o \in Keys : submission[o].open => submission[o].paper \in Papers
    BY RowFacts DEF ExamInv
  <2>2. \A a \in attempts : a.paper \in Papers
    BY DEF ExamInv, TypeInv
  <2> QED BY <2>1, <2>2, <1>1, <1>2, <1>4, <1>6, <1>7 DEF ExamInv, SubmitInv
<1>13. SelectionInv'
  BY <1>1, <1>6 DEF ExamInv, SelectionInv, PublishedIsReviewed, Valid, HasAnswer
<1> QED BY <1>8, <1>9, <1>10, <1>11, <1>12, <1>13 DEF ExamInv

\* Every step keeps the invariant.
LEMMA NextExam == ExamInv /\ [Next]_vars => ExamInv'
<1> SUFFICES ASSUME ExamInv, [Next]_vars PROVE ExamInv'
  OBVIOUS
<1>1. CASE \E p \in Papers : RequestPaper(p)
  BY <1>1, RequestStep
<1>2. CASE \E j \in DOMAIN jobs : GenerateMock(j)
  BY <1>2, SelectStep, PublishStep, AwaitStep, FailStep DEF GenerateMock
<1>3. CASE \E r \in Reviewers : Decide(r)
  BY <1>3, BeginDecideStep, CommitDecideStep, OtherSteps DEF Decide
<1>4. CASE \E k \in Keys : Submit(k)
  BY <1>4, BeginSubmitStep, CommitSubmitStep DEF Submit
<1>5. CASE \E q \in Practised : Practise(q)
  BY <1>5, OtherSteps
<1>6. CASE \E s \in Schools : ChangeSchool(s)
  BY <1>6, OtherSteps
<1>7. CASE UNCHANGED vars
  BY <1>7, OtherSteps
<1> QED BY <1>1, <1>2, <1>3, <1>4, <1>5, <1>6, <1>7 DEF Next

-----------------------------------------------------------------------------

(* The tables agree in every reachable state: the locks and reads of decide(), *)
(* the jobs of _resume_if_ready and the papers of execute_job fit together.    *)
THEOREM ExamInvariant == Spec => []ExamInv
<1>1. Init => ExamInv
  BY InitExam
<1>2. ExamInv /\ [Next]_vars => ExamInv'
  BY NextExam
<1> QED BY <1>1, <1>2, PTL DEF Spec

(* A candidate is decided once, whatever the number of reviewers: decide()     *)
(* holds the row's lock from the check of its status to the commit.            *)
THEOREM OneVerdictHolds == Spec => []OneVerdict
<1>1. ExamInv => OneVerdict
  <2> SUFFICES ASSUME ExamInv PROVE OneVerdict
    OBVIOUS
  <2>1. ASSUME NEW c \in DOMAIN cands, cands[c].status # "REVIEW_REQUIRED"
        PROVE  \E d \in decisions : /\ d.candidate = c
                                    /\ cands[c].status = IF d.approve THEN "VALID" ELSE "REJECTED"
    BY <2>1 DEF ExamInv, DecisionInv, Verdict
  <2> QED BY <2>1 DEF ExamInv, DecisionInv, Verdict, OneVerdict
<1> QED BY <1>1, ExamInvariant, PTL

(* A paper has at most one live job, and none once the student has seen it or  *)
(* while a candidate of it awaits review.                                      *)
THEOREM OneGenerationHolds == Spec => []OneGeneration
<1>1. ExamInv => OneGeneration
  <2> SUFFICES ASSUME ExamInv, NEW p \in Papers, LiveJobs(p) # {}
               PROVE  /\ Cardinality(LiveJobs(p)) = 1
                      /\ Pending(p) = {}
                      /\ paper[p].status \notin {"PUBLISHED", "COMPLETED"}
    BY DEF OneGeneration
  <2>1. PICK j \in LiveJobs(p) : TRUE
    OBVIOUS
  <2>2. j \in DOMAIN jobs /\ jobs[j].paper = p /\ jobs[j].status \in Live
    BY <2>1 DEF LiveJobs
  <2>3. LiveJobs(p) = {j}
    BY <2>1, <2>2 DEF LiveJobs, ExamInv, JobInv
  <2>4. Cardinality(LiveJobs(p)) = 1
    BY <2>3, FS_Singleton
  <2> QED BY <2>2, <2>4 DEF ExamInv, JobInv, Frozen
<1> QED BY <1>1, ExamInvariant, PTL

(* What an attempt recorded are the questions of its paper, for good.          *)
THEOREM AttemptMatchesPaperHolds == Spec => []AttemptMatchesPaper
<1>1. ExamInv => AttemptMatchesPaper
  BY DEF ExamInv, SubmitInv, AttemptMatchesPaper
<1> QED BY <1>1, ExamInvariant, PTL

(* A published paper has questions of the bank and approved candidates, all    *)
(* with answers, none twice: what MockExamValidator checked stays true of the  *)
(* rows it was checked of.                                                     *)
THEOREM PublishedAreReviewed == Spec => []PublishedIsReviewed
<1>1. ExamInv => PublishedIsReviewed
  BY DEF ExamInv, SelectionInv
<1> QED BY <1>1, ExamInvariant, PTL
=============================================================================
