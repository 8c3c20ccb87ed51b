-------------------------- MODULE ProposalsProofs ---------------------------
(***************************************************************************)
(* Proofs about Proposals, for any proposals, tasks and limits: the        *)
(* proposals implement ProposalLife, a job and its proposal end alike, and *)
(* nothing is applied on evidence that had changed when it was read.       *)
(***************************************************************************)
EXTENDS Proposals, TLAPS

AllKinds == {"MINOR_ADJUST", "MAJOR_REPLAN", "STAGE_TRANSITION"}
Done == {"APPLIED", "AUTO_COMMITTED"}
Granted == {"APPROVED", "APPLYING"}
ProposalStatus == Open \cup Granted \cup Done \cup {"APPLY_FAILED", "REJECTED", "EXPIRED"}

ProposalRows == [kind : AllKinds, status : ProposalStatus, expiry : {"none", "ahead", "past"},
                 evidence : Nat, seen : Nat]
TaskRows == [pending : BOOLEAN, version : Nat, changes : Nat]
JobRows == [status : {"none", "QUEUED", "RUNNING", "RETRY_WAIT"} \cup EndedStatuses,
            attempts : Nat, lost : BOOLEAN]
Decisions == [at : {"idle", "waiting", "locked"}]
             \cup [at : {"checked"}, target : Tasks \cup {Nobody}, fresh : BOOLEAN]
Appliers == [at : {"running", "done"}]
            \cup [at : {"checked"}, target : Tasks \cup {Nobody}, fresh : BOOLEAN,
                  expiry : {"none", "ahead"}]

TypeOK ==
    /\ proposal \in [Ids -> {NoProposal} \cup ProposalRows]
    /\ task \in [Tasks -> TaskRows]
    /\ decision \in [Ids -> Decisions]
    /\ applier \in [Ids -> Appliers]
    /\ job \in [Ids -> JobRows]
    /\ worker \in [Ids -> {"idle", "started", "rolled"}]
    /\ adjusted \in [Ids -> Nat]
    /\ rolled \in [Ids -> {0, 1}]

\* The version of a task counts its changes, so the version that a proposal
\* carries as evidence tells whether anything has happened since.
VersionsCount == \A t \in Tasks : task[t].version = task[t].changes + 1
EvidenceOK(p) == Exists(p) => proposal[p].evidence = proposal[p].seen + 1

\* Before it is made, nothing has been done with a proposal but to end its run.
AbsentOK(p) ==
    ~Exists(p) => /\ adjusted[p] = 0 /\ rolled[p] = 0 /\ job[p] = NoJob
                  /\ decision[p].at = "idle" /\ applier[p].at # "checked"

\* A minor adjustment changes a task in the step that ends it.
MinorOK(p) ==
    (Exists(p) /\ proposal[p].kind = "MINOR_ADJUST") =>
        /\ adjusted[p] = (IF proposal[p].status \in Done THEN 1 ELSE 0)
        /\ rolled[p] = 0 /\ job[p] = NoJob /\ proposal[p].status \notin Granted

\* The others change nothing themselves, and are granted only with a job.
OtherOK(p) ==
    (Exists(p) /\ proposal[p].kind # "MINOR_ADJUST") =>
        /\ adjusted[p] = 0
        /\ proposal[p].status \notin {"PENDING", "AUTO_COMMITTED"}
        /\ job[p] = NoJob => proposal[p].status \notin Granted \cup {"APPLIED"}

\* The statuses of a job and of its proposal.
JobOK(p) ==
    /\ job[p].status = "SUCCEEDED" => proposal[p].status = "APPLIED"
    /\ job[p].status \in {"FAILED", "DEAD_LETTER"} => proposal[p].status = "APPLY_FAILED"
    /\ job[p].status = "QUEUED" => proposal[p].status = "APPROVED"
    /\ job[p].status \in {"RUNNING", "RETRY_WAIT"} => proposal[p].status = "APPLYING"

\* Without a job nothing was carried out; a job belongs to a replan, runs only
\* while a worker is on it, and succeeds when the plan is rolled.
ReplanOK(p) ==
    /\ job[p].status = "none" => job[p] = NoJob
    /\ job[p] = NoJob => rolled[p] = 0 /\ worker[p] = "idle"
    /\ job[p] # NoJob => Exists(p) /\ proposal[p].kind = "MAJOR_REPLAN"
    /\ worker[p] # "idle" => job[p].status = "RUNNING"
    /\ (worker[p] = "rolled" \/ job[p].status = "SUCCEEDED") => rolled[p] = 1

\* The locks of the two transactions, and what they have found under them.
LocksOK(p) ==
    /\ applier[p].at = "checked" =>
         /\ proposal[p].status = "PENDING" /\ decision[p].at \in {"idle", "waiting"}
         /\ applier[p].target # Nobody => applier[p].fresh
    /\ decision[p].at = "checked" =>
         /\ proposal[p].status \in Open /\ decision[p].fresh
         /\ proposal[p].kind # "MINOR_ADJUST" => decision[p].target = Nobody

ProposalOK(p) ==
    /\ EvidenceOK(p) /\ JobOK(p) /\ AbsentOK(p) /\ MinorOK(p) /\ OtherOK(p)
    /\ ReplanOK(p) /\ LocksOK(p)

ProposalsInv ==
    /\ TypeOK /\ VersionsCount
    /\ \A p \in Ids : ProposalOK(p)

-----------------------------------------------------------------------------
\* Nothing was proposed at first.
LEMMA InitInv == Init => ProposalsInv
<1> SUFFICES ASSUME Init PROVE ProposalsInv
  OBVIOUS
<1> USE ProposalsAssumption DEF Init, NoProposal, Idle, NoJob
<1>1. TypeOK
  BY DEF TypeOK, TaskRows, JobRows, Decisions, Appliers
<1>2. VersionsCount
  BY DEF VersionsCount, TypeOK
<1>3. ASSUME NEW p \in Ids PROVE ProposalOK(p)
  BY DEF ProposalOK, JobOK, EvidenceOK, AbsentOK, MinorOK, OtherOK, ReplanOK, LocksOK, Exists
<1> QED BY <1>1, <1>2, <1>3 DEF ProposalsInv


\* A step about one proposal leaves the others as they are.
LEMMA Elsewhere ==
    ASSUME ProposalsInv, NEW p \in Ids, TypeOK', VersionsCount', ProposalOK(p)',
           \A q \in Ids \ {p} :
              /\ proposal'[q] = proposal[q] /\ decision'[q] = decision[q]
              /\ applier'[q] = applier[q] /\ job'[q] = job[q] /\ worker'[q] = worker[q]
              /\ adjusted'[q] = adjusted[q] /\ rolled'[q] = rolled[q]
    PROVE  ProposalsInv'
<1>1. ASSUME NEW q \in Ids, q # p PROVE ProposalOK(q)'
  BY <1>1 DEF ProposalsInv, ProposalOK, EvidenceOK, JobOK, AbsentOK, MinorOK, OtherOK,
              ReplanOK, LocksOK, Exists
<1> QED BY <1>1 DEF ProposalsInv

\* The tool call makes the row, with the version of the task as evidence.
LEMMA ProposeInv ==
    ASSUME ProposalsInv, NEW p \in Ids, Propose(p)
    PROVE  ProposalsInv'
<1>1. PICK kind \in Kinds[p] :
         proposal' = [proposal EXCEPT ![p] =
             [kind |-> kind,
              status |-> IF kind = "MINOR_ADJUST" THEN "PENDING" ELSE "AWAITING_CONFIRMATION",
              expiry |-> IF kind = "MINOR_ADJUST" THEN "none" ELSE "ahead",
              evidence |-> task[Source[p]].version, seen |-> task[Source[p]].changes]]
  BY DEF Propose
<1>2. kind \in AllKinds /\ Source[p] \in Tasks
  BY ProposalsAssumption DEF AllKinds
<1>3. task[Source[p]] \in TaskRows /\ task[Source[p]].version = task[Source[p]].changes + 1
  BY <1>2 DEF ProposalsInv, TypeOK, VersionsCount
<1>4. proposal'[p] \in ProposalRows
  BY <1>1, <1>2, <1>3 DEF ProposalsInv, TypeOK, ProposalRows, TaskRows, ProposalStatus, Open
<1>5. TypeOK' /\ VersionsCount'
  BY <1>1, <1>4 DEF ProposalsInv, TypeOK, VersionsCount, Propose
<1>6. ProposalOK(p)'
  BY <1>1, <1>3 DEF ProposalsInv, TypeOK, ProposalOK, EvidenceOK, JobOK, AbsentOK, MinorOK,
                    OtherOK, ReplanOK, LocksOK, Exists, Propose, Open, Done, Granted, NoJob,
                    NoProposal, TaskRows
<1>7. \A q \in Ids \ {p} : proposal'[q] = proposal[q]
  BY <1>1 DEF ProposalsInv, TypeOK
<1> QED BY <1>5, <1>6, <1>7, Elsewhere DEF Propose

\* The row of a proposal that was made.
LEMMA RowTyped ==
    ASSUME ProposalsInv, NEW p \in Ids, Exists(p)
    PROVE  proposal[p] \in ProposalRows
BY DEF ProposalsInv, TypeOK, Exists, NoProposal

\* A change of nothing but the status.
LEMMA StatusTyped ==
    ASSUME ProposalsInv, NEW p \in Ids, Exists(p), NEW s \in ProposalStatus, SetStatus(p, s)
    PROVE  /\ proposal' \in [Ids -> {NoProposal} \cup ProposalRows]
           /\ proposal'[p] = [proposal[p] EXCEPT !.status = s]
           /\ \A q \in Ids \ {p} : proposal'[q] = proposal[q]
<1>1. proposal[p] \in ProposalRows /\ proposal \in [Ids -> {NoProposal} \cup ProposalRows]
  BY RowTyped DEF ProposalsInv, TypeOK
<1>2. [proposal[p] EXCEPT !.status = s] \in ProposalRows
  BY <1>1 DEF ProposalRows
<1> QED BY <1>1, <1>2 DEF SetStatus

\* The run ends without the applier.
LEMMA RunEndsInv ==
    ASSUME ProposalsInv, NEW p \in Ids, RunEnds(p)
    PROVE  ProposalsInv'
<1>1. [at |-> "done"] \in Appliers
  BY DEF Appliers
<1>2. applier' \in [Ids -> Appliers] /\ applier'[p] = [at |-> "done"]
      /\ \A q \in Ids \ {p} : applier'[q] = applier[q]
  BY <1>1 DEF RunEnds, ProposalsInv, TypeOK
<1>3. TypeOK' /\ VersionsCount'
  BY <1>2 DEF RunEnds, ProposalsInv, TypeOK, VersionsCount
<1>4. ProposalOK(p)'
  BY <1>2 DEF RunEnds, ProposalsInv, TypeOK, ProposalOK, EvidenceOK, JobOK, AbsentOK,
              MinorOK, OtherOK, ReplanOK, LocksOK, Exists
<1> QED BY <1>2, <1>3, <1>4, Elsewhere DEF RunEnds

\* The applier finds a task only if the version is still the one it carries.
LEMMA ApplyReadInv ==
    ASSUME ProposalsInv, NEW p \in Ids, ApplyRead(p)
    PROVE  ProposalsInv'
<1>1. PICK confident \in BOOLEAN, t \in Tasks \cup {Nobody} :
        /\ t \in IF confident THEN Eligible(p) ELSE {Nobody}
        /\ applier' = [applier EXCEPT ![p] =
                        [at |-> "checked", target |-> t, fresh |-> Fresh(p),
                         expiry |-> IF confident THEN "none" ELSE "ahead"]]
  BY DEF ApplyRead, Eligible, Targets
<1>2. Fresh(p) \in BOOLEAN
  BY DEF Fresh
<1>3. applier'[p] \in Appliers
  BY <1>1, <1>2 DEF Appliers, ProposalsInv, TypeOK
<1>4. TypeOK' /\ VersionsCount'
  BY <1>1, <1>3 DEF ApplyRead, ProposalsInv, TypeOK, VersionsCount
<1>5. /\ proposal[p].evidence = proposal[p].seen + 1 /\ proposal[p] \in ProposalRows
      /\ task[Source[p]].version = task[Source[p]].changes + 1 /\ task[Source[p]] \in TaskRows
  BY RowTyped, ProposalsAssumption
     DEF ApplyRead, ProposalsInv, ProposalOK, EvidenceOK, VersionsCount, Exists, TypeOK
<1>6. Current(p) => Fresh(p)
  BY <1>5 DEF Current, Fresh, ProposalRows, TaskRows
<1>7. t # Nobody => Fresh(p)
  BY <1>1, <1>6 DEF Eligible
<1>8. applier'[p] = [at |-> "checked", target |-> t, fresh |-> Fresh(p),
                         expiry |-> IF confident THEN "none" ELSE "ahead"]
      /\ \A q \in Ids \ {p} : applier'[q] = applier[q]
  BY <1>1 DEF ProposalsInv, TypeOK
<1>9. decision[p].at \in {"idle", "waiting"}
  BY DEF ApplyRead, ProposalsInv, TypeOK, Decisions
<1>10. ProposalOK(p)'
  BY <1>7, <1>8, <1>9 DEF ApplyRead, ProposalsInv, TypeOK, ProposalOK, EvidenceOK, JobOK,
                          AbsentOK, MinorOK, OtherOK, ReplanOK, LocksOK, Exists
<1> QED BY <1>4, <1>8, <1>10, Elsewhere DEF ApplyRead

\* Both transactions end with one change of the task they have locked.
LEMMA AdjustedTyped ==
    ASSUME ProposalsInv, NEW t \in Tasks, task' = AdjustedTask(t)
    PROVE  task' \in [Tasks -> TaskRows] /\ VersionsCount'
<1>1. task \in [Tasks -> TaskRows] /\ task[t] \in TaskRows
  BY DEF ProposalsInv, TypeOK
<1>2. task[t].version \in Nat /\ task[t].changes \in Nat /\ task[t].pending \in BOOLEAN
      /\ task[t].version = task[t].changes + 1
  BY <1>1 DEF TaskRows, ProposalsInv, VersionsCount
<1>3. task' = [task EXCEPT ![t] = [pending |-> task[t].pending,
                                   version |-> task[t].version + 1,
                                   changes |-> task[t].changes + 1]]
  BY <1>1 DEF AdjustedTask, TaskRows
<1>4. [pending |-> task[t].pending, version |-> task[t].version + 1,
       changes |-> task[t].changes + 1] \in TaskRows
  BY <1>2 DEF TaskRows
<1> QED BY <1>1, <1>2, <1>3, <1>4 DEF ProposalsInv, VersionsCount

\* The applier ends the proposal, with or without a task changed.
LEMMA ApplyCommitInv ==
    ASSUME ProposalsInv, NEW p \in Ids, ApplyCommit(p)
    PROVE  ProposalsInv'
<1>1. /\ Exists(p) /\ proposal[p].status = "PENDING" /\ proposal[p] \in ProposalRows
      /\ proposal[p].kind = "MINOR_ADJUST" /\ applier[p].fresh \in BOOLEAN
      /\ applier[p].target \in Tasks \cup {Nobody} /\ applier[p].expiry \in {"none", "ahead"}
      /\ job[p] = NoJob
  BY RowTyped DEF ApplyCommit, Appliers, ProposalsInv, TypeOK, ProposalOK, EvidenceOK,
                  JobOK, AbsentOK, MinorOK, OtherOK, ReplanOK, LocksOK, Exists
<1>2. [at |-> "done"] \in Appliers
  BY DEF Appliers
<1>3. applier' \in [Ids -> Appliers] /\ applier'[p] = [at |-> "done"]
      /\ \A q \in Ids \ {p} : applier'[q] = applier[q]
  BY <1>2 DEF ApplyCommit, ProposalsInv, TypeOK
<1>4. CASE applier[p].target = Nobody
  <2>1. proposal' = [proposal EXCEPT ![p] = [proposal[p] EXCEPT
                       !.status = "AWAITING_CONFIRMATION", !.expiry = applier[p].expiry]]
    BY <1>1, <1>4 DEF ApplyCommit, ProposalRows, ProposalsInv, TypeOK
  <2>2. [proposal[p] EXCEPT !.status = "AWAITING_CONFIRMATION", !.expiry = applier[p].expiry]
          \in ProposalRows
    BY <1>1 DEF ProposalRows, ProposalStatus, Open
  <2>3. TypeOK' /\ VersionsCount'
    BY <1>3, <1>4, <2>1, <2>2 DEF ApplyCommit, ProposalsInv, TypeOK, VersionsCount
  <2>4. /\ proposal'[p] \in ProposalRows /\ proposal'[p].status = "AWAITING_CONFIRMATION"
        /\ proposal'[p].kind = proposal[p].kind /\ proposal'[p].evidence = proposal[p].evidence
        /\ proposal'[p].seen = proposal[p].seen
        /\ \A q \in Ids \ {p} : proposal'[q] = proposal[q]
    BY <1>1, <2>1, <2>2 DEF ProposalsInv, TypeOK, ProposalRows
  <2>5. ProposalOK(p)'
    BY <1>1, <1>3, <1>4, <2>4 DEF ApplyCommit, Done, Granted, ProposalsInv, TypeOK,
                                  ProposalOK, EvidenceOK, JobOK, AbsentOK, MinorOK, OtherOK,
                                  ReplanOK, LocksOK, Exists, NoJob
  <2> QED BY <1>3, <1>4, <2>3, <2>4, <2>5, Elsewhere DEF ApplyCommit
<1>5. CASE applier[p].target # Nobody
  <2>1. /\ SetStatus(p, "AUTO_COMMITTED") /\ task' = AdjustedTask(applier[p].target)
        /\ adjusted' = [adjusted EXCEPT ![p] = @ + 1] /\ "AUTO_COMMITTED" \in ProposalStatus
    BY <1>5 DEF ApplyCommit, ProposalStatus, Done
  <2>2. task' \in [Tasks -> TaskRows] /\ VersionsCount'
    BY <1>1, <1>5, <2>1, AdjustedTyped
  <2>3. /\ proposal' \in [Ids -> {NoProposal} \cup ProposalRows]
        /\ proposal'[p] = [proposal[p] EXCEPT !.status = "AUTO_COMMITTED"]
        /\ \A q \in Ids \ {p} : proposal'[q] = proposal[q]
    BY <1>1, <2>1, StatusTyped
  <2>4. adjusted' \in [Ids -> Nat] /\ adjusted'[p] = adjusted[p] + 1
        /\ \A q \in Ids \ {p} : adjusted'[q] = adjusted[q]
    BY <2>1 DEF ProposalsInv, TypeOK
  <2>5. TypeOK'
    BY <1>3, <2>2, <2>3, <2>4 DEF ApplyCommit, ProposalsInv, TypeOK
  <2>6. /\ proposal'[p].status = "AUTO_COMMITTED" /\ proposal'[p].seen = proposal[p].seen
        /\ proposal'[p].kind = proposal[p].kind /\ proposal'[p].evidence = proposal[p].evidence
    BY <1>1, <2>3 DEF ProposalRows
  <2>7. adjusted[p] = 0 /\ rolled[p] = 0
    BY <1>1 DEF ProposalsInv, ProposalOK, MinorOK, Done
  <2>8. ProposalOK(p)'
    BY <1>1, <1>3, <2>4, <2>6, <2>7 DEF ApplyCommit, Done, Granted, ProposalsInv, TypeOK,
                                        ProposalOK, EvidenceOK, JobOK, AbsentOK, MinorOK,
                                        OtherOK, ReplanOK, LocksOK, Exists, NoJob
  <2> QED BY <1>3, <2>2, <2>3, <2>4, <2>5, <2>8, Elsewhere DEF ApplyCommit
<1> QED BY <1>4, <1>5

\* A request locks the proposal.
LEMMA DecideLockInv ==
    ASSUME ProposalsInv, NEW p \in Ids, DecideLock(p)
    PROVE  ProposalsInv'
<1>1. [at |-> IF applier[p].at = "checked" THEN "waiting" ELSE "locked"] \in Decisions
  BY DEF Decisions
<1>2. /\ decision' \in [Ids -> Decisions]
      /\ decision'[p] = [at |-> IF applier[p].at = "checked" THEN "waiting" ELSE "locked"]
      /\ \A q \in Ids \ {p} : decision'[q] = decision[q]
  BY <1>1 DEF DecideLock, ProposalsInv, TypeOK
<1>3. TypeOK' /\ VersionsCount'
  BY <1>2 DEF DecideLock, ProposalsInv, TypeOK, VersionsCount
<1>4. ProposalOK(p)'
  BY <1>2 DEF DecideLock, ProposalsInv, TypeOK, ProposalOK, EvidenceOK, JobOK, AbsentOK,
              MinorOK, OtherOK, ReplanOK, LocksOK, Exists
<1> QED BY <1>2, <1>3, <1>4, Elsewhere DEF DecideLock

\* A request gets the lock of the run when the applier has ended.
LEMMA DecideLockRunInv ==
    ASSUME ProposalsInv, NEW p \in Ids, DecideLockRun(p)
    PROVE  ProposalsInv'
<1>1. decision[p] \in [at : {"idle", "waiting", "locked"}]
  BY DEF DecideLockRun, ProposalsInv, TypeOK, Decisions
<1>2. [decision[p] EXCEPT !.at = "locked"] \in [at : {"idle", "waiting", "locked"}]
      /\ [decision[p] EXCEPT !.at = "locked"].at = "locked"
  BY <1>1
<1>3. /\ decision' \in [Ids -> Decisions] /\ decision'[p].at = "locked"
      /\ \A q \in Ids \ {p} : decision'[q] = decision[q]
  BY <1>2 DEF DecideLockRun, ProposalsInv, TypeOK, Decisions
<1>4. TypeOK' /\ VersionsCount'
  BY <1>3 DEF DecideLockRun, ProposalsInv, TypeOK, VersionsCount
<1>5. ProposalOK(p)'
  BY <1>3 DEF DecideLockRun, ProposalsInv, TypeOK, ProposalOK, EvidenceOK, JobOK, AbsentOK,
              MinorOK, OtherOK, ReplanOK, LocksOK, Exists
<1> QED BY <1>3, <1>4, <1>5, Elsewhere DEF DecideLockRun

\* The locks of a request are given up together.
LEMMA AnswerTyped ==
    ASSUME ProposalsInv, NEW p \in Ids, Answer(p)
    PROVE  /\ decision' \in [Ids -> Decisions] /\ decision'[p].at = "idle"
           /\ \A q \in Ids \ {p} : decision'[q] = decision[q]
<1>1. Idle \in Decisions /\ Idle.at = "idle"
  BY DEF Decisions, Idle
<1> QED BY <1>1 DEF Answer, ProposalsInv, TypeOK

\* A request refuses the proposal, or finds it decided.
LEMMA DecideAnswerInv ==
    ASSUME ProposalsInv, NEW p \in Ids, DecideAnswer(p)
    PROVE  ProposalsInv'
<1>1. /\ decision' \in [Ids -> Decisions] /\ decision'[p].at = "idle"
      /\ \A q \in Ids \ {p} : decision'[q] = decision[q]
  BY AnswerTyped DEF DecideAnswer
<1>2. Exists(p) /\ proposal[p] \in ProposalRows /\ applier[p].at # "checked"
  BY RowTyped DEF DecideAnswer, ProposalsInv, ProposalOK, AbsentOK, LocksOK
<1>3. CASE UNCHANGED proposal
  <2>1. TypeOK' /\ VersionsCount'
    BY <1>1, <1>3 DEF DecideAnswer, ProposalsInv, TypeOK, VersionsCount
  <2>2. ProposalOK(p)'
    BY <1>1, <1>2, <1>3 DEF DecideAnswer, ProposalsInv, TypeOK, ProposalOK, EvidenceOK,
                            JobOK, AbsentOK, MinorOK, OtherOK, ReplanOK, LocksOK, Exists
  <2> QED BY <1>1, <1>3, <2>1, <2>2, Elsewhere DEF DecideAnswer
<1>4. ASSUME NEW s \in {"EXPIRED", "REJECTED"}, SetStatus(p, s),
             proposal[p].status \in Open
      PROVE  ProposalsInv'
  <2>1. s \in ProposalStatus /\ s \notin Open \cup Granted \cup Done
    BY DEF ProposalStatus, Open, Granted, Done
  <2>2. /\ proposal' \in [Ids -> {NoProposal} \cup ProposalRows]
        /\ proposal'[p] = [proposal[p] EXCEPT !.status = s]
        /\ \A q \in Ids \ {p} : proposal'[q] = proposal[q]
    BY <1>2, <1>4, <2>1, StatusTyped
  <2>3. TypeOK' /\ VersionsCount'
    BY <1>1, <2>2 DEF DecideAnswer, ProposalsInv, TypeOK, VersionsCount
  <2>4. /\ proposal'[p].status = s /\ proposal'[p].seen = proposal[p].seen
        /\ proposal'[p].kind = proposal[p].kind /\ proposal'[p].evidence = proposal[p].evidence
    BY <1>2, <2>2 DEF ProposalRows
  <2>5. ProposalOK(p)'
    BY <1>1, <1>2, <1>4, <2>1, <2>4 DEF DecideAnswer, Open, Done, Granted, ProposalsInv,
                                        TypeOK, ProposalOK, EvidenceOK, JobOK, AbsentOK,
                                        MinorOK, OtherOK, ReplanOK, LocksOK, Exists
  <2> QED BY <1>1, <2>2, <2>3, <2>5, Elsewhere DEF DecideAnswer
<1> QED BY <1>3, <1>4 DEF DecideAnswer, Decidable

\* The version is read under the lock of the proposal and of the target.
LEMMA DecideReadInv ==
    ASSUME ProposalsInv, NEW p \in Ids, DecideRead(p)
    PROVE  ProposalsInv'
<1>1. PICK t \in Tasks \cup {Nobody} :
        /\ proposal[p].kind # "MINOR_ADJUST" => t = Nobody
        /\ decision' = [decision EXCEPT ![p] =
                           [at |-> "checked", target |-> t, fresh |-> Fresh(p)]]
  BY DEF DecideRead, Eligible, Targets
<1>2. Exists(p) /\ proposal[p] \in ProposalRows /\ proposal[p].status \in Open
      /\ applier[p].at # "checked"
  BY RowTyped DEF DecideRead, Decidable, ProposalsInv, ProposalOK, AbsentOK, LocksOK
<1>3. /\ proposal[p].evidence = proposal[p].seen + 1
      /\ task[Source[p]].version = task[Source[p]].changes + 1 /\ task[Source[p]] \in TaskRows
  BY <1>2, ProposalsAssumption DEF ProposalsInv, ProposalOK, EvidenceOK, VersionsCount, TypeOK
<1>4. Fresh(p) /\ Fresh(p) \in BOOLEAN
  BY <1>2, <1>3 DEF DecideRead, Current, Fresh, ProposalRows, TaskRows
<1>5. [at |-> "checked", target |-> t, fresh |-> Fresh(p)] \in Decisions
  BY <1>4 DEF Decisions
<1>6. /\ decision' \in [Ids -> Decisions]
      /\ decision'[p] = [at |-> "checked", target |-> t, fresh |-> Fresh(p)]
      /\ \A q \in Ids \ {p} : decision'[q] = decision[q]
  BY <1>1, <1>5 DEF ProposalsInv, TypeOK
<1>7. TypeOK' /\ VersionsCount'
  BY <1>6 DEF DecideRead, ProposalsInv, TypeOK, VersionsCount
<1>8. ProposalOK(p)'
  BY <1>1, <1>2, <1>4, <1>6 DEF DecideRead, ProposalsInv, TypeOK, ProposalOK, EvidenceOK,
                                JobOK, AbsentOK, MinorOK, OtherOK, ReplanOK, LocksOK,
                                Exists
<1> QED BY <1>6, <1>7, <1>8, Elsewhere DEF DecideRead

\* A request ends the proposal, or grants it with a job.
LEMMA DecideCommitInv ==
    ASSUME ProposalsInv, NEW p \in Ids, DecideCommit(p)
    PROVE  ProposalsInv'
<1>1. /\ decision' \in [Ids -> Decisions] /\ decision'[p].at = "idle"
      /\ \A q \in Ids \ {p} : decision'[q] = decision[q]
  BY AnswerTyped DEF DecideCommit
<1>2. /\ Exists(p) /\ proposal[p] \in ProposalRows /\ proposal[p].status \in Open
      /\ applier[p].at # "checked" /\ decision[p].target \in Tasks \cup {Nobody}
  BY RowTyped DEF DecideCommit, Decisions, ProposalsInv, ProposalOK, AbsentOK, LocksOK, TypeOK
<1>3. job[p].status = "none" /\ job[p] = NoJob
  BY <1>2 DEF ProposalsInv, ProposalOK, JobOK, ReplanOK, TypeOK, JobRows, EndedStatuses, Open
<1>4. CASE proposal[p].kind = "MINOR_ADJUST" /\ decision[p].target # Nobody
  <2>1. /\ SetStatus(p, "APPLIED") /\ task' = AdjustedTask(decision[p].target)
        /\ adjusted' = [adjusted EXCEPT ![p] = @ + 1] /\ "APPLIED" \in ProposalStatus
        /\ UNCHANGED <<applier, job, worker, rolled>>
    BY <1>4 DEF DecideCommit, ProposalStatus, Done
  <2>2. task' \in [Tasks -> TaskRows] /\ VersionsCount'
    BY <1>2, <1>4, <2>1, AdjustedTyped
  <2>3. /\ proposal' \in [Ids -> {NoProposal} \cup ProposalRows]
        /\ proposal'[p] = [proposal[p] EXCEPT !.status = "APPLIED"]
        /\ \A q \in Ids \ {p} : proposal'[q] = proposal[q]
    BY <1>2, <2>1, StatusTyped
  <2>4. adjusted' \in [Ids -> Nat] /\ adjusted'[p] = adjusted[p] + 1
        /\ \A q \in Ids \ {p} : adjusted'[q] = adjusted[q]
    BY <2>1 DEF ProposalsInv, TypeOK
  <2>5. TypeOK'
    BY <1>1, <2>1, <2>2, <2>3, <2>4 DEF ProposalsInv, TypeOK
  <2>6. /\ proposal'[p].status = "APPLIED" /\ proposal'[p].seen = proposal[p].seen
        /\ proposal'[p].kind = proposal[p].kind /\ proposal'[p].evidence = proposal[p].evidence
    BY <1>2, <2>3 DEF ProposalRows
  <2>7. adjusted[p] = 0 /\ rolled[p] = 0
    BY <1>2, <1>4 DEF ProposalsInv, ProposalOK, MinorOK, Open, Done
  <2>8. ProposalOK(p)'
    BY <1>1, <1>2, <1>3, <1>4, <2>1, <2>4, <2>6, <2>7
       DEF Done, Granted, Open, ProposalsInv, TypeOK, ProposalOK, EvidenceOK, JobOK,
           AbsentOK, MinorOK, OtherOK, ReplanOK, LocksOK, Exists, NoJob
  <2> QED BY <1>1, <2>1, <2>2, <2>3, <2>4, <2>5, <2>8, Elsewhere
<1>5. CASE proposal[p].kind # "MAJOR_REPLAN" /\ decision[p].target = Nobody
            /\ SetStatus(p, "APPLY_FAILED") /\ UNCHANGED <<task, adjusted, job>>
  <2>1. /\ proposal' \in [Ids -> {NoProposal} \cup ProposalRows]
        /\ proposal'[p] = [proposal[p] EXCEPT !.status = "APPLY_FAILED"]
        /\ \A q \in Ids \ {p} : proposal'[q] = proposal[q]
    BY <1>2, <1>5, StatusTyped DEF ProposalStatus
  <2>2. TypeOK' /\ VersionsCount'
    BY <1>1, <1>5, <2>1 DEF DecideCommit, ProposalsInv, TypeOK, VersionsCount
  <2>3. /\ proposal'[p].status = "APPLY_FAILED" /\ proposal'[p].seen = proposal[p].seen
        /\ proposal'[p].kind = proposal[p].kind /\ proposal'[p].evidence = proposal[p].evidence
    BY <1>2, <2>1 DEF ProposalRows
  <2>4. ProposalOK(p)'
    BY <1>1, <1>2, <1>3, <1>5, <2>3 DEF DecideCommit, Done, Granted, Open, ProposalsInv,
                                        TypeOK, ProposalOK, EvidenceOK, JobOK, AbsentOK,
                                        MinorOK, OtherOK, ReplanOK, LocksOK, Exists, NoJob
  <2> QED BY <1>1, <1>5, <2>1, <2>2, <2>4, Elsewhere DEF DecideCommit
<1>6. CASE proposal[p].kind = "MAJOR_REPLAN" /\ SetStatus(p, "APPROVED")
            /\ job' = [job EXCEPT ![p] = NewJob] /\ UNCHANGED <<task, adjusted>>
  <2>1. /\ proposal' \in [Ids -> {NoProposal} \cup ProposalRows]
        /\ proposal'[p] = [proposal[p] EXCEPT !.status = "APPROVED"]
        /\ \A q \in Ids \ {p} : proposal'[q] = proposal[q]
    BY <1>2, <1>6, StatusTyped DEF ProposalStatus, Granted
  <2>2. job' \in [Ids -> JobRows] /\ job'[p] = NewJob
        /\ \A q \in Ids \ {p} : job'[q] = job[q]
    BY <1>6 DEF ProposalsInv, TypeOK, JobRows, NewJob
  <2>3. TypeOK' /\ VersionsCount'
    BY <1>1, <1>6, <2>1, <2>2 DEF DecideCommit, ProposalsInv, TypeOK, VersionsCount
  <2>4. /\ proposal'[p].status = "APPROVED" /\ proposal'[p].seen = proposal[p].seen
        /\ proposal'[p].kind = "MAJOR_REPLAN" /\ proposal'[p].evidence = proposal[p].evidence
    BY <1>2, <1>6, <2>1 DEF ProposalRows
  <2>5. job'[p].status = "QUEUED" /\ job'[p] # NoJob
    BY <2>2 DEF NewJob, NoJob
  <2>6. worker[p] = "idle" /\ rolled[p] = 0 /\ adjusted[p] = 0
    BY <1>2, <1>3, <1>6 DEF ProposalsInv, ProposalOK, ReplanOK, OtherOK
  <2>7. ProposalOK(p)'
    BY <1>1, <1>2, <1>6, <2>4, <2>5, <2>6
       DEF DecideCommit, Open, Done, Granted, ProposalsInv, TypeOK, ProposalOK, EvidenceOK,
           JobOK, AbsentOK, MinorOK, OtherOK, ReplanOK, LocksOK, Exists
  <2> QED BY <1>1, <1>6, <2>1, <2>2, <2>3, <2>7, Elsewhere DEF DecideCommit
<1>7. CASE UNCHANGED <<proposal, job, task, adjusted>>
  <2>1. TypeOK' /\ VersionsCount'
    BY <1>1, <1>7 DEF DecideCommit, ProposalsInv, TypeOK, VersionsCount
  <2>2. ProposalOK(p)'
    BY <1>1, <1>2, <1>7 DEF DecideCommit, ProposalsInv, TypeOK, ProposalOK, EvidenceOK,
                            JobOK, AbsentOK, MinorOK, OtherOK, ReplanOK, LocksOK, Exists
  <2> QED BY <1>1, <1>7, <2>1, <2>2, Elsewhere DEF DecideCommit
<1> QED BY <1>4, <1>5, <1>6, <1>7 DEF DecideCommit

\* Of a deadlock, or when a process dies, only the transaction is gone.
LEMMA GivenUpInv ==
    ASSUME ProposalsInv, NEW p \in Ids, Deadlock(p) \/ Lost(p)
    PROVE  ProposalsInv'
<1>1. CASE Answer(p) /\ UNCHANGED applier
  <2>1. /\ decision' \in [Ids -> Decisions] /\ decision'[p].at = "idle"
        /\ \A q \in Ids \ {p} : decision'[q] = decision[q]
    BY <1>1, AnswerTyped
  <2>2. TypeOK' /\ VersionsCount'
    BY <1>1, <2>1 DEF Deadlock, Lost, ProposalsInv, TypeOK, VersionsCount
  <2>3. ProposalOK(p)'
    BY <1>1, <2>1 DEF Deadlock, Lost, ProposalsInv, TypeOK, ProposalOK, EvidenceOK, JobOK,
                      AbsentOK, MinorOK, OtherOK, ReplanOK, LocksOK, Exists
  <2> QED BY <1>1, <2>1, <2>2, <2>3, Elsewhere DEF Deadlock, Lost
<1>2. CASE applier' = [applier EXCEPT ![p] = [at |-> "done"]] /\ UNCHANGED decision
  <2>1. [at |-> "done"] \in Appliers
    BY DEF Appliers
  <2>2. applier' \in [Ids -> Appliers] /\ applier'[p] = [at |-> "done"]
        /\ \A q \in Ids \ {p} : applier'[q] = applier[q]
    BY <1>2, <2>1 DEF ProposalsInv, TypeOK
  <2>3. TypeOK' /\ VersionsCount'
    BY <1>2, <2>2 DEF Deadlock, Lost, ProposalsInv, TypeOK, VersionsCount
  <2>4. ProposalOK(p)'
    BY <1>2, <2>2 DEF Deadlock, Lost, ProposalsInv, TypeOK, ProposalOK, EvidenceOK, JobOK,
                      AbsentOK, MinorOK, OtherOK, ReplanOK, LocksOK, Exists
  <2> QED BY <1>2, <2>2, <2>3, <2>4, Elsewhere DEF Deadlock, Lost
<1> QED BY <1>1, <1>2 DEF Deadlock, Lost

\* The clock changes nothing that the invariant is about.
LEMMA ExpiryPassesInv ==
    ASSUME ProposalsInv, NEW p \in Ids, ExpiryPasses(p)
    PROVE  ProposalsInv'
<1>1. Exists(p) /\ proposal[p] \in ProposalRows
  BY RowTyped DEF ExpiryPasses
<1>2. /\ proposal' = [proposal EXCEPT ![p] = [proposal[p] EXCEPT !.expiry = "past"]]
      /\ [proposal[p] EXCEPT !.expiry = "past"] \in ProposalRows
  BY <1>1 DEF ExpiryPasses, ProposalRows, ProposalsInv, TypeOK
<1>3. /\ proposal'[p].status = proposal[p].status /\ proposal'[p].seen = proposal[p].seen
      /\ proposal'[p].kind = proposal[p].kind /\ proposal'[p].evidence = proposal[p].evidence
      /\ \A q \in Ids \ {p} : proposal'[q] = proposal[q]
  BY <1>1, <1>2 DEF ProposalRows, ProposalsInv, TypeOK
<1>4. TypeOK' /\ VersionsCount'
  BY <1>2 DEF ExpiryPasses, ProposalsInv, TypeOK, VersionsCount
<1>5. ProposalOK(p)'
  BY <1>1, <1>3 DEF ExpiryPasses, ProposalsInv, TypeOK, ProposalOK, EvidenceOK, JobOK,
                    AbsentOK, MinorOK, OtherOK, ReplanOK, LocksOK, Exists
<1> QED BY <1>3, <1>4, <1>5, Elsewhere DEF ExpiryPasses

\* The expired proposals wait for an answer and nobody has them locked.
LEMMA ExpireProposalsInv ==
    ASSUME ProposalsInv, ExpireProposals
    PROVE  ProposalsInv'
<1>1. ASSUME NEW p \in Expirable
      PROVE  /\ p \in Ids /\ proposal[p] \in ProposalRows /\ decision[p].at = "idle"
             /\ proposal[p].status = "AWAITING_CONFIRMATION"
             /\ [proposal[p] EXCEPT !.status = "EXPIRED"] \in ProposalRows
  BY RowTyped DEF Expirable, Unlocked, ProposalRows, ProposalStatus
<1>2. proposal' \in [Ids -> {NoProposal} \cup ProposalRows]
  BY <1>1 DEF ExpireProposals, ProposalsInv, TypeOK
<1>3. TypeOK' /\ VersionsCount'
  BY <1>2 DEF ExpireProposals, ProposalsInv, TypeOK, VersionsCount
<1>4. ASSUME NEW p \in Ids PROVE ProposalOK(p)'
  <2>1. CASE p \in Expirable
    <3>1. /\ proposal'[p].status = "EXPIRED" /\ proposal'[p].kind = proposal[p].kind
          /\ proposal'[p].evidence = proposal[p].evidence
          /\ proposal'[p].seen = proposal[p].seen /\ Exists(p)
      BY <1>1, <2>1 DEF ExpireProposals, ProposalRows, Expirable
    <3> QED BY <1>1, <2>1, <3>1 DEF ExpireProposals, Open, Done, Granted, ProposalsInv,
                                    TypeOK, ProposalOK, EvidenceOK, JobOK, AbsentOK,
                                    MinorOK, OtherOK, ReplanOK, LocksOK, Exists
  <2>2. CASE p \notin Expirable
    BY <2>2 DEF ExpireProposals, ProposalsInv, TypeOK, ProposalOK, EvidenceOK, JobOK,
                AbsentOK, MinorOK, OtherOK, ReplanOK, LocksOK, Exists
  <2> QED BY <2>1, <2>2
<1> QED BY <1>3, <1>4 DEF ProposalsInv

\* A task and its version change together.
LEMMA ChangeTaskInv ==
    ASSUME ProposalsInv, NEW t \in Tasks, ChangeTask(t)
    PROVE  ProposalsInv'
<1>1. task[t] \in TaskRows /\ task[t].version = task[t].changes + 1
  BY DEF ProposalsInv, TypeOK, VersionsCount
<1>2. PICK pending \in {FALSE, task[t].pending} :
        task' = [task EXCEPT ![t] = [pending |-> pending, version |-> task[t].version + 1,
                                     changes |-> task[t].changes + 1]]
  BY DEF ChangeTask, ProposalsInv, TypeOK
<1>3. [pending |-> pending, version |-> task[t].version + 1,
       changes |-> task[t].changes + 1] \in TaskRows
  <2>1. task[t].version \in Nat /\ task[t].changes \in Nat /\ pending \in BOOLEAN
    BY <1>1 DEF TaskRows
  <2> QED BY <2>1 DEF TaskRows
<1>4. TypeOK' /\ VersionsCount'
  BY <1>1, <1>2, <1>3 DEF ChangeTask, ProposalsInv, TypeOK, VersionsCount, TaskRows
<1>5. ASSUME NEW p \in Ids PROVE ProposalOK(p)'
  BY DEF ChangeTask, ProposalsInv, TypeOK, ProposalOK, EvidenceOK, JobOK, AbsentOK, MinorOK,
         OtherOK, ReplanOK, LocksOK, Exists
<1> QED BY <1>4, <1>5 DEF ProposalsInv

-----------------------------------------------------------------------------
\* The row of a job, started or ended, and the mark it leaves on the proposal.
LEMMA ReplanInv ==
    ASSUME ProposalsInv, NEW p \in Ids, job[p] # NoJob,
           NEW j \in JobRows, j.status # "none", job' = [job EXCEPT ![p] = j],
           NEW w \in {"idle", "started"}, worker' = [worker EXCEPT ![p] = w],
           w = "started" => j.status = "RUNNING",
           j.status = "SUCCEEDED" => rolled[p] = 1,
           NEW s \in ProposalStatus,
           SetStatus(p, s) \/ (UNCHANGED proposal /\ proposal[p].status = s),
           j.status = "SUCCEEDED" => s = "APPLIED",
           j.status \in {"FAILED", "DEAD_LETTER"} => s = "APPLY_FAILED",
           j.status = "QUEUED" => s = "APPROVED",
           j.status \in {"RUNNING", "RETRY_WAIT"} => s = "APPLYING",
           decision[p].at # "checked" \/ UNCHANGED proposal,
           UNCHANGED <<task, decision, applier, adjusted, rolled>>
    PROVE  ProposalsInv'
<1>1. /\ Exists(p) /\ proposal[p] \in ProposalRows /\ proposal[p].kind = "MAJOR_REPLAN"
      /\ proposal[p].status # "PENDING" /\ applier[p].at # "checked"
  BY RowTyped DEF ProposalsInv, ProposalOK, ReplanOK, OtherOK, LocksOK
<1>2. s \notin {"none", "PENDING", "AUTO_COMMITTED"}
  BY DEF JobRows, EndedStatuses
<1>3. /\ proposal' \in [Ids -> {NoProposal} \cup ProposalRows]
      /\ proposal'[p].status = s /\ proposal'[p].seen = proposal[p].seen
      /\ proposal'[p].kind = "MAJOR_REPLAN" /\ proposal'[p].evidence = proposal[p].evidence
      /\ \A q \in Ids \ {p} : proposal'[q] = proposal[q]
  <2>1. CASE SetStatus(p, s)
    <3>1. /\ proposal' \in [Ids -> {NoProposal} \cup ProposalRows]
          /\ proposal'[p] = [proposal[p] EXCEPT !.status = s]
          /\ \A q \in Ids \ {p} : proposal'[q] = proposal[q]
      BY <1>1, <2>1, StatusTyped
    <3> QED BY <1>1, <3>1 DEF ProposalRows
  <2>2. CASE UNCHANGED proposal /\ proposal[p].status = s
    BY <1>1, <2>2 DEF ProposalsInv, TypeOK
  <2> QED BY <2>1, <2>2
<1>4. /\ job' \in [Ids -> JobRows] /\ job'[p] = j /\ worker'[p] = w
      /\ worker' \in [Ids -> {"idle", "started", "rolled"}]
      /\ \A q \in Ids \ {p} : job'[q] = job[q] /\ worker'[q] = worker[q]
  BY DEF ProposalsInv, TypeOK
<1>5. j # NoJob
  BY DEF NoJob
<1>6. TypeOK' /\ VersionsCount'
  BY <1>3, <1>4 DEF ProposalsInv, TypeOK, VersionsCount
<1>7. EvidenceOK(p)' /\ AbsentOK(p)' /\ MinorOK(p)' /\ OtherOK(p)' /\ JobOK(p)'
  BY <1>1, <1>2, <1>3, <1>4, <1>5 DEF ProposalsInv, TypeOK, ProposalOK, EvidenceOK, JobOK,
                                      AbsentOK, MinorOK, OtherOK, ReplanOK, LocksOK, Exists
<1>8. ReplanOK(p)' /\ LocksOK(p)'
  BY <1>1, <1>2, <1>3, <1>4, <1>5 DEF ProposalsInv, TypeOK, ProposalOK, EvidenceOK, JobOK,
                                      AbsentOK, MinorOK, OtherOK, ReplanOK, LocksOK, Exists
<1> QED BY <1>3, <1>4, <1>6, <1>7, <1>8, Elsewhere DEF ProposalOK

\* A worker starts the job of a granted replan.
LEMMA StartReplanInv ==
    ASSUME ProposalsInv, NEW p \in Ids, StartReplan(p)
    PROVE  ProposalsInv'
<1>1. job[p] \in JobRows /\ job[p] # NoJob
  BY DEF StartReplan, CanStart, NoJob, ProposalsInv, TypeOK
<1>2. StartedJob(job[p]) \in JobRows /\ StartedJob(job[p]).status = "RUNNING"
  BY <1>1 DEF StartedJob, JobRows
<1>3. proposal[p].status \in {"APPROVED", "APPLYING"}
  BY DEF StartReplan, CanStart, ProposalsInv, ProposalOK, JobOK
<1>4. SetStatus(p, "APPLYING") \/ (UNCHANGED proposal /\ proposal[p].status = "APPLYING")
  BY <1>3 DEF StartReplan, Marked, SetStatus
<1>5. "APPLYING" \in ProposalStatus
  BY DEF ProposalStatus, Granted
<1>6. job' = [job EXCEPT ![p] = StartedJob(job[p])]
  BY DEF StartReplan, ProposalsInv, TypeOK
<1> QED BY <1>1, <1>2, <1>4, <1>5, <1>6, ReplanInv DEF StartReplan, Unlocked

\* A delivery is lost before a worker has begun.
LEMMA LoseReplanInv ==
    ASSUME ProposalsInv, NEW p \in Ids, LoseReplan(p)
    PROVE  ProposalsInv'
<1>1. /\ job[p] \in JobRows /\ job[p] # NoJob /\ worker[p] = "idle"
      /\ job[p].status \in {"QUEUED", "RETRY_WAIT"}
  BY DEF LoseReplan, CanStart, NoJob, ProposalsInv, TypeOK, ProposalOK, ReplanOK
<1>2. LostDelivery(job[p]) \in JobRows /\ LostDelivery(job[p]).status = job[p].status
  BY <1>1 DEF LostDelivery, JobRows
<1>3. /\ job[p].status = "QUEUED" => proposal[p].status = "APPROVED"
      /\ job[p].status = "RETRY_WAIT" => proposal[p].status = "APPLYING"
  BY DEF ProposalsInv, ProposalOK, JobOK
<1>4. proposal[p].status \in ProposalStatus
  BY <1>1, <1>3 DEF ProposalStatus, Granted
<1>5. /\ job' = [job EXCEPT ![p] = LostDelivery(job[p])]
      /\ worker' = [worker EXCEPT ![p] = "idle"]
  BY <1>1 DEF LoseReplan, ProposalsInv, TypeOK
<1> QED BY <1>1, <1>2, <1>3, <1>4, <1>5, ReplanInv DEF LoseReplan

\* A worker rolls the plan of a running job.
LEMMA RollPlanInv ==
    ASSUME ProposalsInv, NEW p \in Ids, RollPlan(p)
    PROVE  ProposalsInv'
<1>1. /\ worker' \in [Ids -> {"idle", "started", "rolled"}] /\ worker'[p] = "rolled"
      /\ rolled' \in [Ids -> {0, 1}] /\ rolled'[p] = 1
      /\ \A q \in Ids \ {p} : worker'[q] = worker[q] /\ rolled'[q] = rolled[q]
  BY DEF RollPlan, ProposalsInv, TypeOK
<1>2. job[p].status = "RUNNING" /\ job[p] # NoJob /\ Exists(p)
      /\ proposal[p].kind = "MAJOR_REPLAN"
  BY DEF RollPlan, ProposalsInv, ProposalOK, ReplanOK, NoJob
<1>3. TypeOK' /\ VersionsCount'
  BY <1>1 DEF RollPlan, ProposalsInv, TypeOK, VersionsCount
<1>4. ProposalOK(p)'
  BY <1>1, <1>2 DEF RollPlan, ProposalsInv, TypeOK, ProposalOK, EvidenceOK, JobOK, AbsentOK,
                    MinorOK, OtherOK, ReplanOK, LocksOK, Exists
<1> QED BY <1>1, <1>3, <1>4, Elsewhere DEF RollPlan

\* A job succeeds after the plan was rolled.
LEMMA FinishReplanInv ==
    ASSUME ProposalsInv, NEW p \in Ids, FinishReplan(p)
    PROVE  ProposalsInv'
<1>1. job[p] \in JobRows /\ job[p].status = "RUNNING" /\ job[p] # NoJob /\ rolled[p] = 1
  BY DEF FinishReplan, NoJob, ProposalsInv, TypeOK, ProposalOK, ReplanOK
<1>2. SucceededJob(job[p]) \in JobRows /\ SucceededJob(job[p]).status = "SUCCEEDED"
  BY <1>1 DEF SucceededJob, JobRows, EndedStatuses
<1>3. proposal[p].status = "APPLYING"
  BY <1>1 DEF ProposalsInv, ProposalOK, JobOK
<1>4. SetStatus(p, "APPLIED") /\ "APPLIED" \in ProposalStatus
  BY <1>3 DEF FinishReplan, Marked, SetStatus, ProposalStatus, Done
<1>5. job' = [job EXCEPT ![p] = SucceededJob(job[p])]
  BY DEF FinishReplan, ProposalsInv, TypeOK
<1> QED BY <1>1, <1>2, <1>4, <1>5, ReplanInv DEF FinishReplan, Unlocked

\* What a failure makes of a running job, and of the proposal it applies.
LEMMA FailedMark ==
    ASSUME ProposalsInv, NEW p \in Ids, job[p].status = "RUNNING",
           NEW j \in JobRows, j.status \in {"FAILED", "DEAD_LETTER", "RETRY_WAIT"},
           proposal' = MarkFailed(p, j.status)
    PROVE  \E s \in ProposalStatus :
              /\ SetStatus(p, s) \/ (UNCHANGED proposal /\ proposal[p].status = s)
              /\ j.status \in {"FAILED", "DEAD_LETTER"} => s = "APPLY_FAILED"
              /\ j.status = "RETRY_WAIT" => s = "APPLYING"
<1>1. proposal[p].status = "APPLYING"
  BY DEF ProposalsInv, ProposalOK, JobOK
<1>2. "APPLYING" \in ProposalStatus /\ "APPLY_FAILED" \in ProposalStatus
  BY DEF ProposalStatus, Granted
<1>3. CASE j.status = "RETRY_WAIT"
  BY <1>1, <1>2, <1>3 DEF MarkFailed
<1>4. CASE j.status \in {"FAILED", "DEAD_LETTER"}
  BY <1>1, <1>2, <1>4 DEF MarkFailed, Marked, SetStatus
<1> QED BY <1>3, <1>4

\* A job fails or waits for another attempt.
LEMMA FailReplanInv ==
    ASSUME ProposalsInv, NEW p \in Ids, FailReplan(p)
    PROVE  ProposalsInv'
<1>1. job[p] \in JobRows /\ job[p].status = "RUNNING" /\ job[p] # NoJob
  BY DEF FailReplan, NoJob, ProposalsInv, TypeOK, ProposalOK, ReplanOK
<1>2. PICK transient \in BOOLEAN :
         /\ job' = [job EXCEPT ![p] = FailedJob(job[p], transient)]
         /\ proposal' = MarkFailed(p, FailedJob(job[p], transient).status)
  BY DEF FailReplan
<1> DEFINE j == FailedJob(job[p], transient)
<1>3. j \in JobRows /\ j.status \in {"FAILED", "DEAD_LETTER", "RETRY_WAIT"}
  BY <1>1 DEF FailedJob, JobRows, EndedStatuses
<1> HIDE DEF j
<1>4. PICK s \in ProposalStatus :
              /\ SetStatus(p, s) \/ (UNCHANGED proposal /\ proposal[p].status = s)
              /\ j.status \in {"FAILED", "DEAD_LETTER"} => s = "APPLY_FAILED"
              /\ j.status = "RETRY_WAIT" => s = "APPLYING"
  BY <1>1, <1>2, <1>3, FailedMark DEF j
<1>5. job' = [job EXCEPT ![p] = j]
  BY <1>2 DEF j
<1> QED BY <1>1, <1>3, <1>4, <1>5, ReplanInv DEF FailReplan, Unlocked

\* A stale job ends or waits for another attempt.
LEMMA ReconcileReplanInv ==
    ASSUME ProposalsInv, NEW p \in Ids, ReconcileReplan(p)
    PROVE  ProposalsInv'
<1>1. job[p] \in JobRows /\ job[p].status = "RUNNING" /\ job[p] # NoJob
  BY DEF ReconcileReplan, NoJob, ProposalsInv, TypeOK
<1> DEFINE j == ReconciledJob(job[p])
<1>2. job' = [job EXCEPT ![p] = j] /\ proposal' = MarkFailed(p, j.status)
  BY DEF ReconcileReplan
<1>3. j \in JobRows /\ j.status \in {"DEAD_LETTER", "RETRY_WAIT"}
  BY <1>1 DEF ReconciledJob, JobRows, EndedStatuses
<1> HIDE DEF j
<1>4. PICK s \in ProposalStatus :
              /\ SetStatus(p, s) \/ (UNCHANGED proposal /\ proposal[p].status = s)
              /\ j.status \in {"FAILED", "DEAD_LETTER"} => s = "APPLY_FAILED"
              /\ j.status = "RETRY_WAIT" => s = "APPLYING"
  BY <1>1, <1>2, <1>3, FailedMark
<1>5. worker' = [worker EXCEPT ![p] = "idle"]
  BY DEF ReconcileReplan, ProposalsInv, TypeOK
<1> QED BY <1>1, <1>2, <1>3, <1>4, <1>5, ReplanInv DEF ReconcileReplan, Unlocked

\* A worker dies and leaves the job running.
LEMMA CrashReplanInv ==
    ASSUME ProposalsInv, NEW p \in Ids, CrashReplan(p)
    PROVE  ProposalsInv'
<1>1. job[p] \in JobRows /\ job[p].status = "RUNNING" /\ job[p] # NoJob
      /\ proposal[p].status = "APPLYING"
  BY DEF CrashReplan, NoJob, ProposalsInv, TypeOK, ProposalOK, ReplanOK, JobOK
<1>2. "APPLYING" \in ProposalStatus
  BY DEF ProposalStatus, Granted
<1>3. job' = [job EXCEPT ![p] = job[p]]
  BY DEF CrashReplan, ProposalsInv, TypeOK
<1> QED BY <1>1, <1>2, <1>3, ReplanInv DEF CrashReplan

\* The invariant is inductive.
LEMMA NextInv == ProposalsInv /\ [Next]_vars => ProposalsInv'
<1> SUFFICES ASSUME ProposalsInv, [Next]_vars PROVE ProposalsInv'
  OBVIOUS
<1>1. CASE UNCHANGED vars
  BY <1>1 DEF vars, VersionsCount, ProposalsInv, TypeOK, ProposalOK, EvidenceOK, JobOK,
              AbsentOK, MinorOK, OtherOK, ReplanOK, LocksOK, Exists
<1>2. ASSUME NEW p \in Ids,
             \/ Propose(p) \/ RunEnds(p) \/ ApplyRead(p) \/ ApplyCommit(p)
             \/ DecideLock(p) \/ Decide(p) \/ Deadlock(p) \/ Lost(p)
             \/ ExpiryPasses(p)
             \/ StartReplan(p) \/ LoseReplan(p) \/ Replan(p) \/ CrashReplan(p)
             \/ ReconcileReplan(p)
      PROVE  ProposalsInv'
  BY <1>2, ProposeInv, RunEndsInv, ApplyReadInv, ApplyCommitInv, DecideLockInv,
     DecideLockRunInv, DecideAnswerInv, DecideReadInv, DecideCommitInv, GivenUpInv,
     ExpiryPassesInv, StartReplanInv, LoseReplanInv, RollPlanInv, FinishReplanInv, FailReplanInv,
     CrashReplanInv, ReconcileReplanInv DEF Decide, Replan
<1>3. ASSUME NEW t \in Tasks, ChangeTask(t) PROVE ProposalsInv'
  BY <1>3, ChangeTaskInv
<1>4. CASE ExpireProposals
  BY <1>4, ExpireProposalsInv
<1> QED BY <1>1, <1>2, <1>3, <1>4 DEF Next

\* The statuses of a proposal, of its job, its transactions and its worker,
\* and what was done in its name, fit together in every reachable state.
THEOREM ProposalsInvariant == Spec => []ProposalsInv
BY InitInv, NextInv, PTL DEF Spec

\* The job of a replan and its proposal end together and alike.
THEOREM JobTellsProposalHolds == Spec => []JobTellsProposal
<1>1. ProposalsInv => JobTellsProposal
  BY DEF ProposalsInv, TypeOK, JobRows, EndedStatuses, ProposalOK, JobOK, JobTellsProposal
<1> QED BY <1>1, ProposalsInvariant, PTL

-----------------------------------------------------------------------------
\* Nothing is applied or approved but by a transaction that found the task of
\* the evidence unchanged.
Backed(p) ==
    (adjusted'[p] # adjusted[p] \/ (job[p] = NoJob /\ job'[p] # NoJob)) =>
        \/ decision[p].at = "checked" /\ decision[p].fresh
        \/ applier[p].at = "checked" /\ applier[p].fresh

\* What a step adjusts or approves was read under the lock that it holds.
LEMMA StepBacked ==
    ASSUME ProposalsInv, [Next]_vars, NEW q \in Ids
    PROVE  Backed(q)
<1>1. CASE UNCHANGED vars
  BY <1>1 DEF vars, Backed
<1>2. ASSUME NEW p \in Ids, ApplyCommit(p) PROVE Backed(q)
  <2>1. \A r \in Ids \ {p} : adjusted'[r] = adjusted[r]
    BY <1>2 DEF ApplyCommit, ProposalsInv, TypeOK
  <2>2. applier[p].at = "checked" /\ (adjusted' # adjusted => applier[p].fresh)
    BY <1>2 DEF ApplyCommit, ProposalsInv, ProposalOK, LocksOK
  <2> QED BY <1>2, <2>1, <2>2 DEF ApplyCommit, Backed
<1>3. ASSUME NEW p \in Ids, DecideCommit(p) PROVE Backed(q)
  <2>1. \A r \in Ids \ {p} : adjusted'[r] = adjusted[r] /\ job'[r] = job[r]
    BY <1>3 DEF DecideCommit, ProposalsInv, TypeOK
  <2>2. decision[p].at = "checked" /\ decision[p].fresh
    BY <1>3 DEF DecideCommit, ProposalsInv, ProposalOK, LocksOK
  <2> QED BY <2>1, <2>2 DEF Backed
<1>4. ASSUME NEW p \in Ids,
             \/ StartReplan(p) \/ LoseReplan(p) \/ FinishReplan(p) \/ FailReplan(p)
             \/ ReconcileReplan(p)
      PROVE  Backed(q)
  <2>1. job[p] # NoJob
    BY <1>4 DEF StartReplan, LoseReplan, FinishReplan, FailReplan, ReconcileReplan, CanStart,
                NoJob, ProposalsInv, ProposalOK, ReplanOK
  <2>2. \A r \in Ids \ {p} : job'[r] = job[r]
    BY <1>4 DEF StartReplan, LoseReplan, FinishReplan, FailReplan, ReconcileReplan,
                ProposalsInv, TypeOK
  <2>3. UNCHANGED adjusted
    BY <1>4 DEF StartReplan, LoseReplan, FinishReplan, FailReplan, ReconcileReplan
  <2> QED BY <2>1, <2>2, <2>3 DEF Backed
<1>5. ASSUME NEW p \in Ids,
             \/ Propose(p) \/ RunEnds(p) \/ ApplyRead(p) \/ DecideLock(p)
             \/ DecideLockRun(p) \/ DecideAnswer(p) \/ DecideRead(p) \/ Deadlock(p)
             \/ Lost(p) \/ ExpiryPasses(p) \/ RollPlan(p) \/ CrashReplan(p)
      PROVE  Backed(q)
  BY <1>5 DEF Propose, RunEnds, ApplyRead, DecideLock, DecideLockRun, DecideAnswer, DecideRead,
              Deadlock, Lost, ExpiryPasses, RollPlan, CrashReplan, Backed
<1>6. CASE ExpireProposals \/ \E t \in Tasks : ChangeTask(t)
  BY <1>6 DEF ExpireProposals, ChangeTask, Backed
<1> QED BY <1>1, <1>2, <1>3, <1>4, <1>5, <1>6 DEF Next, Decide, Replan

\* A task is adjusted and a replan approved only on evidence that was current
\* when the plan was read for it.
THEOREM FreshEvidenceHolds == Spec => FreshEvidence
<1>1. ProposalsInv /\ [Next]_vars =>
        [\A p \in Ids :
         (adjusted'[p] # adjusted[p] \/ (job[p] = NoJob /\ job'[p] # NoJob)) =>
             \/ decision[p].at = "checked" /\ decision[p].fresh
             \/ applier[p].at = "checked" /\ applier[p].fresh]_vars
  BY StepBacked DEF Backed
<1> QED BY <1>1, ProposalsInvariant, PTL DEF Spec, FreshEvidence

-----------------------------------------------------------------------------
\* The phases of the rows that occur.
LEMMA PhaseValues ==
    /\ Phase(NoProposal) = "absent"
    /\ \A r \in ProposalRows :
         /\ r.status \in Open => Phase(r) = "open"
         /\ r.status \in Granted => Phase(r) = "granted"
         /\ r.status \in Done => Phase(r) = "done"
         /\ r.status = "APPLY_FAILED" => Phase(r) = "failed"
         /\ r.status \in {"REJECTED", "EXPIRED"} => Phase(r) = "refused"
BY DEF Phase, NoProposal, ProposalRows, ProposalStatus, Open, Granted, Done

\* The initial state is one of ProposalLife.
LEMMA InitLife == Init => Life!LifeInit
BY PhaseValues DEF Init, Life!LifeInit, Exists, NoProposal

\* The mapping, to be named in the steps.
LifePhase == [p \in Ids |-> Phase(proposal[p])]
LifeDirect == {p \in Ids : Exists(p) /\ proposal[p].kind = "MINOR_ADJUST"}
LifeEffect == [p \in Ids |-> adjusted[p] + rolled[p]]

\* A change of the status changes the phase, and nothing else of the mapping.
LEMMA StatusMove ==
    ASSUME ProposalsInv, NEW p \in Ids, Exists(p), NEW s \in ProposalStatus, SetStatus(p, s)
    PROVE  /\ proposal'[p] \in ProposalRows /\ proposal'[p].status = s
           /\ LifePhase' = [LifePhase EXCEPT ![p] = Phase(proposal'[p])]
           /\ LifeDirect' = LifeDirect
<1>1. proposal[p] \in ProposalRows
  BY RowTyped
<1>2. /\ proposal' \in [Ids -> {NoProposal} \cup ProposalRows]
      /\ proposal'[p] = [proposal[p] EXCEPT !.status = s]
      /\ \A q \in Ids \ {p} : proposal'[q] = proposal[q]
  BY StatusTyped
<1>3. /\ proposal'[p] \in ProposalRows /\ proposal'[p].status = s
      /\ proposal'[p].kind = proposal[p].kind /\ s # "none"
  BY <1>1, <1>2 DEF ProposalRows, ProposalStatus, Open, Granted, Done
<1>4. LifePhase' = [LifePhase EXCEPT ![p] = Phase(proposal'[p])]
  BY <1>2 DEF LifePhase
<1>5. LifeDirect' = LifeDirect
  BY <1>2, <1>3 DEF LifeDirect, Exists
<1> QED BY <1>3, <1>4, <1>5

\* A change of the counters of one proposal.
LEMMA EffectMove ==
    ASSUME NEW p \in Ids, NEW n, adjusted'[p] + rolled'[p] = n,
           \A q \in Ids \ {p} : adjusted'[q] = adjusted[q] /\ rolled'[q] = rolled[q]
    PROVE  /\ LifeEffect' = [LifeEffect EXCEPT ![p] = n]
           /\ LifeEffect[p] = adjusted[p] + rolled[p]
BY DEF LifeEffect

\* The change of one task in the name of an open proposal completes it.
LEMMA AdjustCompletes ==
    ASSUME ProposalsInv, NEW p \in Ids, Exists(p), proposal[p].status \in Open,
           proposal[p].kind = "MINOR_ADJUST", NEW s \in Done, SetStatus(p, s),
           adjusted' = [adjusted EXCEPT ![p] = @ + 1], UNCHANGED rolled
    PROVE  Life!Complete(p)
<1>1. /\ proposal[p] \in ProposalRows /\ adjusted[p] = 0 /\ rolled[p] = 0
      /\ s \in ProposalStatus
  BY RowTyped DEF ProposalsInv, ProposalOK, MinorOK, Open, Done, ProposalStatus
<1>2. /\ proposal'[p] \in ProposalRows /\ proposal'[p].status = s
      /\ LifePhase' = [LifePhase EXCEPT ![p] = Phase(proposal'[p])]
      /\ LifeDirect' = LifeDirect
  BY <1>1, StatusMove
<1>3. Phase(proposal[p]) = "open" /\ Phase(proposal'[p]) = "done"
  BY <1>1, <1>2, PhaseValues
<1>4. LifeEffect' = [LifeEffect EXCEPT ![p] = 1] /\ LifeEffect[p] = 0
  <2>1. adjusted'[p] + rolled'[p] = 1 /\ adjusted[p] + rolled[p] = 0
    BY <1>1 DEF ProposalsInv, TypeOK
  <2>2. \A q \in Ids \ {p} : adjusted'[q] = adjusted[q] /\ rolled'[q] = rolled[q]
    BY DEF ProposalsInv, TypeOK
  <2> QED BY <2>1, <2>2, EffectMove
<1> QED BY <1>2, <1>3, <1>4 DEF Life!Complete, Life!Move, LifePhase, LifeDirect, LifeEffect

\* The tool call submits the proposal.
LEMMA ProposeLife ==
    ASSUME ProposalsInv, NEW p \in Ids, Propose(p)
    PROVE  Life!Submit(p)
<1>1. PICK kind \in AllKinds :
         proposal' = [proposal EXCEPT ![p] =
             [kind |-> kind,
              status |-> IF kind = "MINOR_ADJUST" THEN "PENDING" ELSE "AWAITING_CONFIRMATION",
              expiry |-> IF kind = "MINOR_ADJUST" THEN "none" ELSE "ahead",
              evidence |-> task[Source[p]].version, seen |-> task[Source[p]].changes]]
  BY ProposalsAssumption DEF Propose, AllKinds
<1>2. /\ proposal'[p].status \in Open /\ proposal'[p].kind = kind
      /\ proposal[p] = NoProposal
      /\ \A q \in Ids \ {p} : proposal'[q] = proposal[q]
  BY <1>1 DEF Propose, Exists, ProposalsInv, TypeOK, Open, ProposalRows, ProposalStatus,
              Granted, Done
<1>3. Phase(proposal[p]) = "absent" /\ Phase(proposal'[p]) = "open"
  <2>1. proposal'[p] \in ProposalRows
    BY <1>2, ProposeInv DEF ProposalsInv, TypeOK, NoProposal, Open
  <2> QED BY <1>2, <2>1, PhaseValues
<1>4. LifePhase' = [LifePhase EXCEPT ![p] = "open"]
  <2>1. LifePhase' = [LifePhase EXCEPT ![p] = Phase(proposal'[p])]
    BY <1>2 DEF LifePhase
  <2> QED BY <1>3, <2>1
<1>5. LifeDirect' \in {LifeDirect, LifeDirect \cup {p}}
  BY <1>2 DEF LifeDirect, Exists, NoProposal, Open
<1>6. LifeEffect' = LifeEffect
  BY DEF Propose, LifeEffect
<1> QED BY <1>3, <1>4, <1>5, <1>6 DEF Life!Submit, Life!Move, LifePhase, LifeDirect, LifeEffect

\* The applier completes the proposal or leaves it open.
LEMMA ApplyCommitLife ==
    ASSUME ProposalsInv, NEW p \in Ids, ApplyCommit(p)
    PROVE  Life!Complete(p) \/ UNCHANGED Life!lifeVars
<1>1. /\ Exists(p) /\ proposal[p] \in ProposalRows /\ proposal[p].status = "PENDING"
      /\ proposal[p].kind = "MINOR_ADJUST"
  BY RowTyped DEF ApplyCommit, ProposalsInv, ProposalOK, LocksOK, AbsentOK, OtherOK
<1>2. CASE applier[p].target = Nobody
  <2>1. /\ \A q \in Ids \ {p} : proposal'[q] = proposal[q]
        /\ proposal'[p].status = "AWAITING_CONFIRMATION" /\ proposal'[p].kind = "MINOR_ADJUST"
    BY <1>1, <1>2 DEF ApplyCommit, ProposalsInv, TypeOK, ProposalRows
  <2>2. Phase(proposal[p]) = "open" /\ Phase(proposal'[p]) = "open"
    BY <1>1, <2>1, PhaseValues DEF Phase, Open
  <2>3. LifePhase' = LifePhase
    BY <2>1, <2>2 DEF LifePhase
  <2>4. LifeDirect' = LifeDirect
    BY <1>1, <2>1 DEF LifeDirect, Exists
  <2>5. LifeEffect' = LifeEffect
    BY <1>2 DEF ApplyCommit, LifeEffect
  <2> QED BY <2>3, <2>4, <2>5 DEF Life!lifeVars, LifePhase, LifeDirect, LifeEffect
<1>3. CASE applier[p].target # Nobody
  BY <1>1, <1>3, AdjustCompletes DEF ApplyCommit, Open, Done
<1> QED BY <1>2, <1>3

\* An answer refuses the proposal or leaves it as it was.
LEMMA DecideAnswerLife ==
    ASSUME ProposalsInv, NEW p \in Ids, DecideAnswer(p)
    PROVE  Life!Refuse(p) \/ UNCHANGED Life!lifeVars
<1>1. CASE UNCHANGED proposal
  BY <1>1 DEF DecideAnswer, Life!lifeVars, Exists
<1>2. ASSUME NEW s \in {"EXPIRED", "REJECTED"}, SetStatus(p, s),
             proposal[p].status \in Open
      PROVE  Life!Refuse(p)
  <2>1. Exists(p) /\ proposal[p] \in ProposalRows /\ s \in ProposalStatus
    BY <1>2, RowTyped DEF Exists, Open, ProposalStatus
  <2>2. /\ proposal'[p] \in ProposalRows /\ proposal'[p].status = s
        /\ LifePhase' = [LifePhase EXCEPT ![p] = Phase(proposal'[p])]
        /\ LifeDirect' = LifeDirect
    BY <1>2, <2>1, StatusMove
  <2>3. Phase(proposal[p]) = "open" /\ Phase(proposal'[p]) = "refused"
    BY <1>2, <2>1, <2>2, PhaseValues
  <2>4. LifeEffect' = LifeEffect
    BY DEF DecideAnswer, LifeEffect
  <2> QED BY <2>2, <2>3, <2>4 DEF Life!Refuse, Life!Move, LifePhase, LifeDirect, LifeEffect
<1> QED BY <1>1, <1>2 DEF DecideAnswer, Decidable

\* A commit completes, gives up or grants the proposal.
LEMMA DecideCommitLife ==
    ASSUME ProposalsInv, NEW p \in Ids, DecideCommit(p)
    PROVE  Life!Complete(p) \/ Life!GiveUp(p) \/ Life!Grant(p) \/ UNCHANGED Life!lifeVars
<1>1. Exists(p) /\ proposal[p] \in ProposalRows /\ proposal[p].status \in Open
  BY RowTyped DEF DecideCommit, ProposalsInv, ProposalOK, AbsentOK, LocksOK
<1>2. Phase(proposal[p]) = "open"
  BY <1>1, PhaseValues
<1>3. CASE proposal[p].kind = "MINOR_ADJUST" /\ decision[p].target # Nobody
  BY <1>1, <1>3, AdjustCompletes DEF DecideCommit, Open, Done
<1>4. CASE SetStatus(p, "APPLY_FAILED") /\ UNCHANGED adjusted
  <2>1. /\ proposal'[p] \in ProposalRows /\ proposal'[p].status = "APPLY_FAILED"
        /\ LifePhase' = [LifePhase EXCEPT ![p] = Phase(proposal'[p])]
        /\ LifeDirect' = LifeDirect
    BY <1>1, <1>4, StatusMove DEF ProposalStatus
  <2>2. Phase(proposal'[p]) = "failed"
    BY <2>1, PhaseValues
  <2>3. LifeEffect' = LifeEffect
    BY <1>4 DEF DecideCommit, LifeEffect
  <2> QED BY <1>2, <2>1, <2>2, <2>3
          DEF Life!GiveUp, Life!Move, LifePhase, LifeDirect, LifeEffect
<1>5. CASE proposal[p].kind = "MAJOR_REPLAN" /\ SetStatus(p, "APPROVED") /\ UNCHANGED adjusted
  <2>1. /\ proposal'[p] \in ProposalRows /\ proposal'[p].status = "APPROVED"
        /\ LifePhase' = [LifePhase EXCEPT ![p] = Phase(proposal'[p])]
        /\ LifeDirect' = LifeDirect
    BY <1>1, <1>5, StatusMove DEF ProposalStatus, Granted
  <2>2. Phase(proposal'[p]) = "granted"
    BY <2>1, PhaseValues DEF Granted
  <2>3. LifeEffect' = LifeEffect
    BY <1>5 DEF DecideCommit, LifeEffect
  <2>4. p \notin LifeDirect
    BY <1>5 DEF LifeDirect
  <2> QED BY <1>2, <2>1, <2>2, <2>3, <2>4
          DEF Life!Grant, Life!Move, LifePhase, LifeDirect, LifeEffect
<1>6. CASE UNCHANGED <<proposal, adjusted>>
  BY <1>6 DEF DecideCommit, Life!lifeVars, Exists
<1> QED BY <1>3, <1>4, <1>5, <1>6 DEF DecideCommit

\* The clock leaves the phase alone.
LEMMA ExpiryPassesLife ==
    ASSUME ProposalsInv, NEW p \in Ids, ExpiryPasses(p)
    PROVE  UNCHANGED Life!lifeVars
<1>1. proposal[p] \in ProposalRows
  BY RowTyped DEF ExpiryPasses
<1>2. /\ \A q \in Ids \ {p} : proposal'[q] = proposal[q]
      /\ proposal'[p].status = proposal[p].status /\ proposal'[p].kind = proposal[p].kind
  BY <1>1 DEF ExpiryPasses, ProposalsInv, TypeOK, ProposalRows
<1>3. LifePhase' = LifePhase
  <2>0. proposal'[p].status = "AWAITING_CONFIRMATION" /\ proposal[p].status \in Open
    BY <1>2 DEF ExpiryPasses, Open
  <2>1. proposal'[p] \in ProposalRows
    BY <2>0, ExpiryPassesInv DEF ProposalsInv, TypeOK, NoProposal
  <2>2. Phase(proposal'[p]) = "open" /\ Phase(proposal[p]) = "open"
    BY <1>1, <1>2, <2>0, <2>1, PhaseValues
  <2>3. LifePhase' = [LifePhase EXCEPT ![p] = Phase(proposal'[p])]
    BY <1>2 DEF LifePhase
  <2>4. LifePhase[p] = Phase(proposal[p])
    BY DEF LifePhase
  <2> QED BY <2>2, <2>3, <2>4 DEF LifePhase
<1>4. LifeDirect' = LifeDirect
  BY <1>2 DEF LifeDirect, Exists
<1>5. LifeEffect' = LifeEffect
  BY DEF ExpiryPasses, LifeEffect
<1> QED BY <1>3, <1>4, <1>5 DEF Life!lifeVars, LifePhase, LifeDirect, LifeEffect

\* The cron job refuses several proposals at once.
LEMMA ExpireProposalsLife ==
    ASSUME ProposalsInv, ExpireProposals
    PROVE  Life!RefuseMany
<1>1. ASSUME NEW p \in Expirable
      PROVE  /\ p \in Ids /\ proposal[p] \in ProposalRows
             /\ Phase(proposal[p]) = "open" /\ Phase(proposal'[p]) = "refused"
             /\ proposal'[p].status # "none" /\ proposal'[p].kind = proposal[p].kind
  <2>1. p \in Ids /\ proposal[p] \in ProposalRows /\ proposal[p].status \in Open
    BY RowTyped DEF Expirable, Open
  <2>2. proposal'[p] \in ProposalRows /\ proposal'[p].status = "EXPIRED"
        /\ proposal'[p].kind = proposal[p].kind
    BY <2>1 DEF ExpireProposals, ProposalRows, ProposalStatus
  <2> QED BY <2>1, <2>2, PhaseValues
<1>2. \A p \in Ids \ Expirable : proposal'[p] = proposal[p]
  BY DEF ExpireProposals
<1>3. LifePhase' = [p \in Ids |-> IF p \in Expirable THEN "refused" ELSE LifePhase[p]]
  BY <1>1, <1>2 DEF LifePhase
<1>4. Expirable \in SUBSET {p \in Ids : LifePhase[p] = "open"}
  BY <1>1 DEF LifePhase
<1>5. LifeDirect' = LifeDirect
  BY <1>1, <1>2 DEF LifeDirect, Exists, Expirable
<1>6. LifeEffect' = LifeEffect
  BY DEF ExpireProposals, LifeEffect
<1> QED BY <1>3, <1>4, <1>5, <1>6 DEF Life!RefuseMany, LifePhase, LifeDirect, LifeEffect

\* A started replan is still granted.
LEMMA StartReplanLife ==
    ASSUME ProposalsInv, NEW p \in Ids, StartReplan(p)
    PROVE  UNCHANGED Life!lifeVars
<1>1. /\ Exists(p) /\ proposal[p] \in ProposalRows /\ proposal[p].status \in Granted
  BY RowTyped DEF StartReplan, CanStart, NoJob, ProposalsInv, ProposalOK, ReplanOK, JobOK,
                  Granted
<1>2. CASE UNCHANGED proposal
  BY <1>2 DEF StartReplan, Life!lifeVars, Exists
<1>3. CASE SetStatus(p, "APPLYING")
  <2>1. /\ proposal'[p] \in ProposalRows /\ proposal'[p].status = "APPLYING"
        /\ LifePhase' = [LifePhase EXCEPT ![p] = Phase(proposal'[p])]
        /\ LifeDirect' = LifeDirect
    BY <1>1, <1>3, StatusMove DEF ProposalStatus, Granted
  <2>2. Phase(proposal[p]) = "granted" /\ Phase(proposal'[p]) = "granted"
    BY <1>1, <2>1, PhaseValues DEF Granted
  <2>3. LifePhase' = LifePhase
    BY <2>1, <2>2 DEF LifePhase
  <2>4. LifeEffect' = LifeEffect
    BY DEF StartReplan, LifeEffect
  <2> QED BY <2>1, <2>3, <2>4 DEF Life!lifeVars, LifePhase, LifeDirect, LifeEffect
<1> QED BY <1>2, <1>3 DEF StartReplan, Marked, SetStatus

\* The first roll carries the proposal out, a second one changes nothing.
LEMMA RollPlanLife ==
    ASSUME ProposalsInv, NEW p \in Ids, RollPlan(p)
    PROVE  Life!CarryOut(p) \/ UNCHANGED Life!lifeVars
<1>1. /\ Exists(p) /\ proposal[p] \in ProposalRows /\ proposal[p].status = "APPLYING"
      /\ proposal[p].kind = "MAJOR_REPLAN" /\ adjusted[p] = 0
  BY RowTyped DEF RollPlan, NoJob, ProposalsInv, ProposalOK, ReplanOK, JobOK, OtherOK
<1>2. Phase(proposal[p]) = "granted"
  BY <1>1, PhaseValues DEF Granted
<1>3. LifeEffect' = [LifeEffect EXCEPT ![p] = 1] /\ LifeEffect[p] = rolled[p]
  <2>1. adjusted'[p] + rolled'[p] = 1 /\ adjusted[p] + rolled[p] = rolled[p]
    BY <1>1 DEF RollPlan, ProposalsInv, TypeOK
  <2>2. \A q \in Ids \ {p} : adjusted'[q] = adjusted[q] /\ rolled'[q] = rolled[q]
    BY DEF RollPlan, ProposalsInv, TypeOK
  <2> QED BY <2>1, <2>2, EffectMove
<1>4. LifePhase' = LifePhase /\ LifeDirect' = LifeDirect
  BY DEF RollPlan, LifePhase, LifeDirect, Exists
<1>5. CASE rolled[p] = 0
  BY <1>2, <1>3, <1>4, <1>5 DEF Life!CarryOut, LifePhase, LifeDirect, LifeEffect
<1>6. CASE rolled[p] = 1
  <2>1. LifeEffect' = LifeEffect
    BY <1>3, <1>6 DEF LifeEffect
  <2> QED BY <1>4, <2>1 DEF Life!lifeVars, LifePhase, LifeDirect, LifeEffect
<1> QED BY <1>5, <1>6 DEF ProposalsInv, TypeOK

\* A replan is completed after it was carried out.
LEMMA FinishReplanLife ==
    ASSUME ProposalsInv, NEW p \in Ids, FinishReplan(p)
    PROVE  Life!Complete(p)
<1>1. /\ Exists(p) /\ proposal[p] \in ProposalRows /\ proposal[p].status = "APPLYING"
      /\ proposal[p].kind = "MAJOR_REPLAN" /\ adjusted[p] = 0 /\ rolled[p] = 1
  BY RowTyped DEF FinishReplan, NoJob, ProposalsInv, ProposalOK, ReplanOK, JobOK, OtherOK
<1>2. SetStatus(p, "APPLIED")
  BY <1>1 DEF FinishReplan, Marked, SetStatus
<1>3. /\ proposal'[p] \in ProposalRows /\ proposal'[p].status = "APPLIED"
      /\ LifePhase' = [LifePhase EXCEPT ![p] = Phase(proposal'[p])]
      /\ LifeDirect' = LifeDirect
  BY <1>1, <1>2, StatusMove DEF ProposalStatus, Done
<1>4. Phase(proposal[p]) = "granted" /\ Phase(proposal'[p]) = "done"
  BY <1>1, <1>3, PhaseValues DEF Granted, Done
<1>5. LifeEffect' = LifeEffect /\ LifeEffect[p] = 1 /\ p \notin LifeDirect
  BY <1>1 DEF FinishReplan, LifeEffect, LifeDirect
<1> QED BY <1>3, <1>4, <1>5 DEF Life!Complete, Life!Move, LifePhase, LifeDirect, LifeEffect

\* A retry leaves the proposal granted, the last failure gives it up.
LEMMA MarkFailedLife ==
    ASSUME ProposalsInv, NEW p \in Ids, job[p].status = "RUNNING", NEW ended,
           proposal' = MarkFailed(p, ended), UNCHANGED <<adjusted, rolled>>
    PROVE  Life!GiveUp(p) \/ UNCHANGED Life!lifeVars
<1>1. /\ Exists(p) /\ proposal[p] \in ProposalRows /\ proposal[p].status = "APPLYING"
  BY RowTyped DEF NoJob, ProposalsInv, ProposalOK, ReplanOK, JobOK
<1>2. CASE UNCHANGED proposal
  BY <1>2 DEF Life!lifeVars, Exists
<1>3. CASE SetStatus(p, "APPLY_FAILED")
  <2>1. /\ proposal'[p] \in ProposalRows /\ proposal'[p].status = "APPLY_FAILED"
        /\ LifePhase' = [LifePhase EXCEPT ![p] = Phase(proposal'[p])]
        /\ LifeDirect' = LifeDirect
    BY <1>1, <1>3, StatusMove DEF ProposalStatus
  <2>2. Phase(proposal[p]) = "granted" /\ Phase(proposal'[p]) = "failed"
    BY <1>1, <2>1, PhaseValues DEF Granted
  <2>3. LifeEffect' = LifeEffect
    BY DEF LifeEffect
  <2> QED BY <2>1, <2>2, <2>3 DEF Life!GiveUp, Life!Move, LifePhase, LifeDirect, LifeEffect
<1> QED BY <1>2, <1>3 DEF MarkFailed, Marked, SetStatus

\* Every step maps to a step of ProposalLife or to a stutter.
LEMMA NextLife ==
    ProposalsInv /\ [Next]_vars => [Life!LifeNext \/ Life!RefuseMany]_(Life!lifeVars)
<1> SUFFICES ASSUME ProposalsInv, [Next]_vars
             PROVE  [Life!LifeNext \/ Life!RefuseMany]_(Life!lifeVars)
  OBVIOUS
<1>1. CASE UNCHANGED vars
  BY <1>1 DEF vars, Life!lifeVars, Exists
<1>2. ASSUME NEW p \in Ids,
             \/ Propose(p) \/ ApplyCommit(p) \/ DecideAnswer(p) \/ DecideCommit(p)
             \/ RollPlan(p) \/ FinishReplan(p)
      PROVE  Life!LifeNext \/ UNCHANGED Life!lifeVars
  BY <1>2, ProposeLife, ApplyCommitLife, DecideAnswerLife, DecideCommitLife, RollPlanLife,
     FinishReplanLife DEF Life!LifeNext
<1>3. ASSUME NEW p \in Ids, FailReplan(p) \/ ReconcileReplan(p)
      PROVE  Life!LifeNext \/ UNCHANGED Life!lifeVars
  <2>1. job[p].status = "RUNNING"
    BY <1>3 DEF FailReplan, ReconcileReplan, ProposalsInv, ProposalOK, ReplanOK
  <2>2. \E ended : proposal' = MarkFailed(p, ended) /\ UNCHANGED <<adjusted, rolled>>
    BY <1>3 DEF FailReplan, ReconcileReplan
  <2> QED BY <2>1, <2>2, MarkFailedLife DEF Life!LifeNext
<1>4. ASSUME NEW p \in Ids,
             \/ RunEnds(p) \/ ApplyRead(p) \/ DecideLock(p) \/ DecideLockRun(p)
             \/ DecideRead(p) \/ Deadlock(p) \/ Lost(p) \/ LoseReplan(p) \/ CrashReplan(p)
      PROVE  UNCHANGED Life!lifeVars
  BY <1>4 DEF RunEnds, ApplyRead, DecideLock, DecideLockRun, DecideRead, Deadlock, Lost,
              LoseReplan, CrashReplan, Life!lifeVars, Exists
<1>5. ASSUME NEW p \in Ids, ExpiryPasses(p) \/ StartReplan(p)
      PROVE  UNCHANGED Life!lifeVars
  BY <1>5, ExpiryPassesLife, StartReplanLife
<1>6. ASSUME NEW t \in Tasks, ChangeTask(t) PROVE UNCHANGED Life!lifeVars
  BY <1>6 DEF ChangeTask, Life!lifeVars, Exists
<1>7. CASE ExpireProposals
  BY <1>7, ExpireProposalsLife
<1> QED BY <1>1, <1>2, <1>3, <1>4, <1>5, <1>6, <1>7 DEF Next, Decide, Replan

\* The proposals implement ProposalLife: decided once, a task changed at most
\* once, never after a refusal, and nothing reported as applied before it was.
THEOREM ProposalsImplementLife == Spec => ImplementsLife
BY InitLife, NextLife, ProposalsInvariant, PTL DEF Spec, ImplementsLife, Life!LifeSpec
=============================================================================
