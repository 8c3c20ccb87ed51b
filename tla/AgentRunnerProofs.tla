-------------------------- MODULE AgentRunnerProofs --------------------------
(***************************************************************************)
(* What holds of module AgentRunner for any number of attempts, steps,     *)
(* tools and retries: it implements the lease protocol, keeps its types    *)
(* (hence its budgets), never lets a superseded attempt overwrite a        *)
(* checkpoint, and makes at most one proposal.  The second part: its       *)
(* ledger, its trace and its final status tell what was done.              *)
(*                                                                         *)
(* What is proved of the lease in JobQueueProofs is used here; the attempts*)
(* of this module are the workers of that one.                             *)
(***************************************************************************)
EXTENDS AgentRunner, JobQueueProofs

\* The labels inside ToolExecutor.execute after begin(), and all of them.
LedgerLabels == {"reconcile", "markStarted", "handler", "succeed",
                 "succeedReplay", "unknown", "reconcileRetry", "fail"}
CallLabels == {"read", "begin"} \cup LedgerLabels

RunTypeOK ==
    /\ pc \in [Workers -> Labels]
    /\ rs \in [Workers -> RuntimeState]
    /\ tries \in [Workers -> 0..MaxToolAttempts]
    /\ ckpts \in [Steps -> Checkpoint \cup {NoRow}]
    /\ ledger \in [Keys -> LedgerRow \cup {NoRow}]
    /\ proposals \in [Keys -> Proposal \cup {NoRow}]
    /\ steps \in [Steps -> Tools \cup {NoCall, NoRow}]

\* A run that is about to execute a tool knows which.
StateOK(s) == s.phase = "TOOL_PENDING" => s.pending # NoCall

KeyOf(s) == <<s.loop, s.pending.tool>>

\* What an attempt in state s knows at the await l.
PcAt(l, s) ==
    /\ StateOK(s)
    /\ l = "load" => s = Fresh
    /\ l \in {"top", "model", "saveStall", "afterStall"} => s.phase = "READY"
    /\ l = "afterTool" => s.final \/ s.phase = "READY"
    /\ l = "model" => s.loop < MaxSteps
    /\ l \in {"saveTool", "tool"} \cup CallLabels => s.phase = "TOOL_PENDING"
    /\ l \in CallLabels => s.calls < MaxToolCalls
    /\ l \in {"begin"} \cup LedgerLabels => s.pending.tool \in ProposalTools
    /\ l \in LedgerLabels => ledger[KeyOf(s)] # NoRow

PcOK == \A w \in Workers : PcAt(pc[w], rs[w])

\* A worker without a token is not inside hold().
IdleOK == \A w \in Workers : token[w] = 0 => pc[w] = "idle" /\ rs[w] = Fresh

\* A checkpoint row belongs to its step and to an attempt that was granted.
CkptOK ==
    \A n \in Steps : ckpts[n] # NoRow =>
        /\ StateOK(ckpts[n].state)
        /\ ckpts[n].state.loop = n
        /\ ckpts[n].tok <= fencingToken

NoneAbove(n) == \A m \in Steps : m > n => ckpts[m] = NoRow

\* load_latest finds a checkpoint whenever one was saved.
LatestOK == Saved # {} => \E n \in Saved : NoneAbove(n)

-----------------------------------------------------------------------------
\* State s cannot start another proposal than that of key k: it stands at the
\* step of k, and whatever it resumes is the tool of k.
Bound(s, k) ==
    /\ s.loop = k[1]
    /\ s.phase # "READY"
    /\ s.phase = "TOOL_PENDING" => s.pending.tool = k[2]
    /\ s.phase = "TERMINATED" /\ s.err = "RETRYABLE"
         => s.pending # NoCall /\ s.pending.tool = k[2]

BoundToLedger(s) == \A k \in Keys : ledger[k] # NoRow => Bound(s, k)

\* The attempt with the newest token, whether or not its lease is still live.
Newest(w) == token[w] # 0 /\ token[w] = fencingToken

\* At the await l the newest attempt, in state s, works on the newest
\* checkpoint, is bound to the ledger entry if there is one, and has saved its
\* decision before it calls the tool.
RunAt(l, s) ==
    l \notin {"idle", "load", "release"} =>
        /\ NoneAbove(s.loop)
        /\ BoundToLedger(s)
        /\ l \in {"tool", "begin"} =>
              ckpts[s.loop] # NoRow /\ Bound(ckpts[s.loop].state, KeyOf(s))

RunOK == \A w \in Workers : Newest(w) => RunAt(pc[w], rs[w])

\* The newest checkpoint is bound to the ledger entry, and there is only one.
LedgerOK ==
    /\ \A k \in Keys : ledger[k] # NoRow =>
          /\ ckpts[k[1]] # NoRow
          /\ NoneAbove(k[1])
          /\ Bound(ckpts[k[1]].state, k)
    /\ \A j, k \in Keys : ledger[j] # NoRow /\ ledger[k] # NoRow => j = k

\* No proposal without a ledger entry.
ProposalOK == \A k \in Keys : proposals[k] # NoRow => ledger[k] # NoRow

WorkInv ==
    /\ RunTypeOK /\ PcOK /\ IdleOK /\ CkptOK /\ LatestOK
    /\ RunOK /\ LedgerOK /\ ProposalOK
RunInv == LeaseInv /\ WorkInv

-----------------------------------------------------------------------------
\* Every step of the runner is a step of the lease protocol or leaves the run
\* row and the tokens alone.
LEMMA NextLease ==
    ASSUME [Next]_vars
    PROVE  [LeaseNext]_leaseVars
<1>1. ASSUME NEW w \in Workers, AttemptStep(w)
      PROVE  [LeaseNext]_leaseVars
  <2>1. CASE ToolStep(w)
    BY <2>1 DEF ToolStep, ReadSucceeds, ReadFails, BeginNew, BeginExisting,
       Reconcile, MarkStarted, HandlerCommits, HandlerTransient, HandlerRefuses,
       Succeed, SucceedLost, SucceedReplay, Unknown, ReconcileFound, RetryTool,
       GiveUpTool, Fail, LedgerStale
  <2>2. CASE FinalizeRun(w) \/ LeaveHold(w) \/ CancelJob(w)
    BY <2>2 DEF FinalizeRun, LeaveHold, CancelJob, LeaseNext
  <2>3. CASE \/ LoadFresh(w) \/ LoadResume(w)
             \/ CheckActive(w) \/ BudgetTrips(w) \/ CallModel(w)
             \/ DecideFinish(w) \/ DecideCall(w) \/ DecideFails(w)
             \/ DecideOverBudget(w)
    BY <2>3 DEF LoadFresh, LoadResume, CheckActive, BudgetTrips, CallModel,
       DecideFinish, DecideCall, DecideFails, DecideOverBudget
  <2>4. CASE \/ SaveTool(w) \/ SaveFinal(w) \/ SaveStall(w)
             \/ EnterTool(w) \/ AfterTool(w) \/ AfterStall(w)
             \/ Complete(w) \/ SaveEnd(w) \/ InternalError(w) \/ Abort(w)
             \/ Apply(w) \/ Fenced(w)
    BY <2>4 DEF SaveTool, SaveFinal, SaveStall, EnterTool, AfterTool, AfterStall,
       Complete, SaveEnd, InternalError, Abort, Apply, Fenced
  <2> QED BY <1>1, <2>1, <2>2, <2>3, <2>4 DEF AttemptStep
<1>2. CASE Environment
  BY <1>2 DEF Environment, Start, StartCancelled, Heartbeat, Die, Decide, LeaseNext
<1>3. CASE UNCHANGED vars
  BY <1>3 DEF vars
<1> QED BY <1>1, <1>2, <1>3 DEF Next

\* AgentRunner implements the lease protocol: whatever the loop, its retries
\* and its crashes do, the run row is used as RunLease says.
THEOREM RunnerImplementsLease == Spec => LeaseSpec
<1>1. Init => LeaseInit
  BY DEF Init
<1>2. [Next]_vars => [LeaseNext]_leaseVars
  BY NextLease
<1> QED BY <1>1, <1>2, PTL DEF Spec, LeaseSpec

-----------------------------------------------------------------------------
\* Attempt w goes on at the await l in state s; the others stay where they are.
Move(w, l, s) ==
    /\ pc' = [pc EXCEPT ![w] = l]
    /\ rs' = [rs EXCEPT ![w] = s]

\* tries and steps are only typed: any step that keeps them so will do.
Typed ==
    /\ tries' \in [Workers -> 0..MaxToolAttempts]
    /\ steps' \in [Steps -> Tools \cup {NoCall, NoRow}]

\* A step of w that writes no checkpoint, ledger entry or proposal.
LEMMA QuietInv ==
    ASSUME WorkInv, NEW w \in Workers, NEW l \in Labels, NEW s \in RuntimeState,
           Move(w, l, s), Typed, UNCHANGED <<leaseVars, ckpts, ledger, proposals>>,
           pc[w] # "idle", PcAt(l, s), Newest(w) => RunAt(l, s)
    PROVE  WorkInv'
<1> USE DEF WorkInv, Move, leaseVars
<1>1. RunTypeOK'
  BY DEF RunTypeOK, Typed
<1>2. pc'[w] = l /\ rs'[w] = s
  BY DEF RunTypeOK
<1>3. \A v \in Workers \ {w} : pc'[v] = pc[v] /\ rs'[v] = rs[v]
  BY DEF RunTypeOK
<1>5. PcOK'
  BY <1>2, <1>3 DEF PcOK, PcAt, StateOK, KeyOf
<1>6. CkptOK' /\ LatestOK' /\ LedgerOK' /\ ProposalOK'
  BY DEF CkptOK, LatestOK, Saved, LedgerOK, ProposalOK, NoneAbove
<1>7. RunOK'
  BY <1>2, <1>3 DEF RunOK, Newest, RunAt, NoneAbove, BoundToLedger
<1>8. IdleOK'
  BY <1>2, <1>3 DEF IdleOK
<1> QED BY <1>1, <1>5, <1>6, <1>7, <1>8

\* A step of w that saves the checkpoint of state c and goes on in state s.
LEMMA SaveInv ==
    ASSUME LeaseInv, WorkInv,
           NEW w \in Workers, NEW l \in Labels, NEW s \in RuntimeState,
           NEW c \in RuntimeState,
           SaveCheckpoint(w, c), Move(w, l, s), Typed,
           UNCHANGED <<leaseVars, ledger, proposals>>,
           c.loop = s.loop, StateOK(c), NoneAbove(c.loop), BoundToLedger(c),
           PcAt(l, s), BoundToLedger(s),
           l \in {"tool", "begin"} => Bound(c, KeyOf(s))
    PROVE  WorkInv'
<1> DEFINE row == [state |-> c, tok |-> token[w]]
<1> USE DEF WorkInv
<1>1. /\ Newest(w) /\ token[w] <= fencingToken
      /\ row \in Checkpoint /\ row # NoRow
      /\ c.loop \in Steps
      /\ \A v \in Workers : Newest(v) => v = w
  BY ToolAssumption DEF SaveCheckpoint, Fence, Newest, Checkpoint, RuntimeState,
     LeaseInv, LeaseTypeOK, TokensDistinct
<1>2. /\ ckpts'[c.loop] = row
      /\ \A n \in Steps : n # c.loop => ckpts'[n] = ckpts[n]
  BY <1>1 DEF SaveCheckpoint, RunTypeOK
<1>3. RunTypeOK'
  BY <1>1 DEF RunTypeOK, Typed, Move, SaveCheckpoint
<1>4. /\ pc'[w] = l /\ rs'[w] = s
      /\ \A v \in Workers \ {w} : pc'[v] = pc[v] /\ rs'[v] = rs[v]
  BY DEF RunTypeOK, Move
<1>5. PcOK'
  BY <1>4 DEF PcOK, PcAt, StateOK, KeyOf
<1>6. CkptOK'
  BY <1>1, <1>2 DEF CkptOK, leaseVars
<1>7. NoneAbove(c.loop)'
  BY <1>2, <1>1 DEF NoneAbove, Steps
<1>8. RunOK'
  <2> SUFFICES ASSUME NEW v \in Workers, Newest(v)'
               PROVE  RunAt(pc[v], rs[v])'
    BY DEF RunOK
  <2>1. v = w
    BY <1>1 DEF Newest, leaseVars
  <2>2. RunAt(l, s)'
    BY <1>1, <1>2, <1>7 DEF RunAt, NoneAbove, BoundToLedger
  <2> QED BY <2>1, <2>2, <1>4 DEF RunAt, NoneAbove, BoundToLedger
<1>9. LedgerOK'
  <2>1. ASSUME NEW k \in Keys, ledger[k] # NoRow
        PROVE  ckpts'[k[1]] # NoRow /\ NoneAbove(k[1])' /\ Bound(ckpts'[k[1]].state, k)
    <3>1. c.loop = k[1] /\ Bound(c, k)
      BY <2>1 DEF BoundToLedger, Bound
    <3> QED BY <3>1, <1>1, <1>2, <1>7 DEF NoneAbove
  <2> QED BY <2>1 DEF LedgerOK, NoneAbove
<1>10. ProposalOK'
  BY DEF ProposalOK
<1>11. IdleOK'
  BY <1>1, <1>4 DEF IdleOK, Newest, leaseVars
<1>12. LatestOK'
  BY <1>1, <1>2, <1>7 DEF LatestOK, Saved
<1> QED BY <1>3, <1>5, <1>6, <1>8, <1>9, <1>10, <1>11, <1>12

\* A step of w that changes entries of the ledger, or adds w's own.
LEMMA LedgerInv ==
    ASSUME LeaseInv, WorkInv, NEW w \in Workers, NEW l \in Labels,
           NEW s \in RuntimeState, Move(w, l, s), Typed,
           UNCHANGED <<leaseVars, ckpts>>,
           ledger' \in [Keys -> LedgerRow \cup {NoRow}],
           proposals' \in [Keys -> Proposal \cup {NoRow}],
           \A k \in Keys : (ledger'[k] # NoRow) <=> (ledger[k] # NoRow),
           \A k \in Keys : proposals'[k] # NoRow => ledger[k] # NoRow,
           pc[w] # "idle", PcAt(l, s), KeyOf(s) \in Keys \/ l \notin LedgerLabels,
           Newest(w) => RunAt(l, s)
    PROVE  WorkInv'
<1> USE DEF WorkInv
<1>1. RunTypeOK'
  BY DEF RunTypeOK, Typed, Move
<1>2. /\ pc'[w] = l /\ rs'[w] = s
      /\ \A v \in Workers \ {w} : pc'[v] = pc[v] /\ rs'[v] = rs[v]
  BY DEF RunTypeOK, Move
<1>3. PcOK'
  <2> SUFFICES ASSUME NEW v \in Workers PROVE PcAt(pc[v], rs[v])'
    BY DEF PcOK
  <2>1. CASE v = w
    BY <2>1, <1>2 DEF PcAt, StateOK, KeyOf
  <2>2. CASE v # w
    <3>1. PcAt(pc[v], rs[v]) /\ rs[v] \in RuntimeState
      BY DEF PcOK, RunTypeOK
    <3>2. pc[v] \in LedgerLabels => KeyOf(rs[v]) \in Keys
      BY <3>1 DEF PcAt, KeyOf, Keys, RuntimeState
    <3> QED BY <2>2, <1>2, <3>1, <3>2 DEF PcAt, StateOK, KeyOf
  <2> QED BY <2>1, <2>2
<1>4. CkptOK' /\ LatestOK' /\ LedgerOK' /\ ProposalOK'
  BY DEF CkptOK, LatestOK, Saved, LedgerOK, ProposalOK, NoneAbove, leaseVars
<1>5. RunOK'
  BY <1>2 DEF RunOK, Newest, RunAt, NoneAbove, BoundToLedger, leaseVars
<1>6. IdleOK'
  BY <1>2 DEF IdleOK, leaseVars
<1> QED BY <1>1, <1>3, <1>4, <1>5, <1>6

-----------------------------------------------------------------------------
\* The state of an attempt, as the invariant describes it.
LEMMA AttemptFacts ==
    ASSUME WorkInv, NEW w \in Workers
    PROVE  /\ pc[w] \in Labels /\ rs[w] \in RuntimeState
           /\ PcAt(pc[w], rs[w])
           /\ Newest(w) => RunAt(pc[w], rs[w])
           /\ pc[w] \in {"begin"} \cup LedgerLabels =>
                 /\ KeyOf(rs[w]) \in Keys /\ Key(w) = KeyOf(rs[w])
                 /\ rs[w].pending \in Call
BY DEF WorkInv, RunTypeOK, PcOK, RunOK, PcAt, KeyOf, Keys, Key, RuntimeState,
       CallLabels, LedgerLabels, StateOK

\* A terminated state resumes nothing but, after a retryable error, the tool
\* that was pending.
LEMMA EndedFacts ==
    ASSUME NEW s \in RuntimeState, NEW reason \in Reasons, NEW error \in Errors
    PROVE  /\ Ended(s, reason, error) \in RuntimeState
           /\ Ended(s, reason, error).loop = s.loop
           /\ PcAt("saveEnd", Ended(s, reason, error))
           /\ StateOK(Ended(s, reason, error))
           /\ \A k : (Bound(s, k) /\ (error # "RETRYABLE" \/ (s.phase = "TOOL_PENDING" /\ s.pending # NoCall)))
                        => Bound(Ended(s, reason, error), k)
<1> DEFINE t == Ended(s, reason, error)
<1>1. /\ t.phase = "TERMINATED" /\ t.err = error /\ t.loop = s.loop
      /\ t.pending = s.pending /\ t \in RuntimeState
  BY DEF Ended, RuntimeState, Phases
<1>2. PcAt("saveEnd", t) /\ StateOK(t)
  BY <1>1 DEF PcAt, StateOK, CallLabels, LedgerLabels
<1>3. ASSUME NEW k, Bound(s, k),
             error # "RETRYABLE" \/ (s.phase = "TOOL_PENDING" /\ s.pending # NoCall)
      PROVE  Bound(t, k)
  BY <1>1, <1>3 DEF Bound
<1> HIDE DEF t
<1> QED BY <1>1, <1>2, <1>3 DEF t

\* _terminate from any await of the loop; only a tool call that is still pending
\* may end with a retryable error, or a state with no ledger entry.
LEMMA TerminatingInv ==
    ASSUME WorkInv, NEW w \in Workers, NEW reason \in Reasons, NEW error \in Errors,
           Terminating(w, reason, error), Typed,
           UNCHANGED <<leaseVars, ckpts, ledger, proposals>>,
           pc[w] \notin {"idle", "load", "release"},
           error # "RETRYABLE" \/ rs[w].phase \in {"TOOL_PENDING", "READY"}
    PROVE  WorkInv'
<1> DEFINE s == Ended(rs[w], reason, error)
<1>1. s \in RuntimeState /\ s.loop = rs[w].loop /\ PcAt("saveEnd", s)
  BY AttemptFacts, EndedFacts
<1>2. Move(w, "saveEnd", s)
  BY DEF Terminating, Goto, Become, Move
<1>3. Newest(w) => RunAt("saveEnd", s)
  <2> SUFFICES ASSUME Newest(w) PROVE NoneAbove(s.loop) /\ BoundToLedger(s)
    BY DEF RunAt
  <2>1. NoneAbove(rs[w].loop) /\ BoundToLedger(rs[w]) /\ rs[w] \in RuntimeState /\ StateOK(rs[w])
    BY AttemptFacts DEF RunAt, PcAt
  <2>2. ASSUME NEW k \in Keys, ledger[k] # NoRow PROVE Bound(s, k)
    <3>1. Bound(rs[w], k)
      BY <2>1, <2>2 DEF BoundToLedger
    <3>2. error # "RETRYABLE" \/ (rs[w].phase = "TOOL_PENDING" /\ rs[w].pending # NoCall)
      BY <2>1, <3>1 DEF Bound, StateOK
    <3> QED BY <2>1, <3>1, <3>2, EndedFacts
  <2> QED BY <1>1, <2>1, <2>2 DEF BoundToLedger
<1>4. "saveEnd" \in Labels
  BY DEF Labels
<1> HIDE DEF s
<1> QED BY <1>1, <1>2, <1>3, <1>4, QuietInv

\* A step of w that keeps its state, at an await that asks for no more.
LEMMA GotoInv ==
    ASSUME WorkInv, NEW w \in Workers, NEW l \in Labels, Goto(w, l), Typed,
           UNCHANGED <<leaseVars, rs, ckpts, ledger, proposals>>,
           pc[w] # "idle", PcAt(l, rs[w]),
           l \in {"idle", "load", "release"} \/ pc[w] \notin {"idle", "load", "release"},
           l \in {"tool", "begin"} => pc[w] \in {"tool", "begin"}
    PROVE  WorkInv'
<1>1. Move(w, l, rs[w])
  BY DEF Goto, Move, WorkInv, RunTypeOK
<1>2. Newest(w) => RunAt(l, rs[w])
  BY AttemptFacts DEF RunAt
<1> QED BY <1>1, <1>2, AttemptFacts, QuietInv

\* The executor is done with the tool call of w.
LEMMA ToolDoneFacts ==
    ASSUME WorkInv, NEW w \in Workers, pc[w] \in CallLabels, ToolDone(w)
    PROVE  \E l \in {"afterTool", "afterStall"}, s \in RuntimeState :
              Move(w, l, s) /\ PcAt(l, s) /\ (Newest(w) => RunAt(l, s))
<1> DEFINE t == [rs[w] EXCEPT !.calls = @ + 1, !.pending = NoCall]
           f == [t EXCEPT !.final = TRUE, !.phase = "FINAL_PENDING"]
           r == [t EXCEPT !.phase = "READY"]
<1>1. /\ rs[w] \in RuntimeState /\ rs[w].phase = "TOOL_PENDING"
      /\ rs[w].calls < MaxToolCalls
      /\ Newest(w) => NoneAbove(rs[w].loop) /\ BoundToLedger(rs[w])
  BY AttemptFacts DEF PcAt, RunAt, CallLabels, LedgerLabels
<1>2. /\ f \in RuntimeState /\ f.loop = rs[w].loop /\ f.phase = "FINAL_PENDING" /\ f.final
      /\ r \in RuntimeState /\ r.loop = rs[w].loop /\ r.phase = "READY"
  <2>1. rs[w].calls + 1 \in 0..MaxToolCalls
    BY <1>1, BudgetAssumption DEF RuntimeState
  <2>2. t \in RuntimeState /\ t.loop = rs[w].loop
    BY <1>1, <2>1 DEF RuntimeState
  <2> HIDE DEF t
  <2> QED BY <2>2 DEF RuntimeState, Phases
<1>3. /\ PcAt("afterTool", f) /\ PcAt("afterTool", r) /\ PcAt("afterStall", r)
  BY <1>2 DEF PcAt, StateOK, CallLabels, LedgerLabels
<1>4. CASE rs[w].pending.tool \in ProposalTools
  <2>1. Move(w, "afterTool", f)
    BY <1>4 DEF ToolDone, Goto, Become, Move
  <2>2. Newest(w) => RunAt("afterTool", f)
    BY <1>1, <1>2 DEF RunAt, BoundToLedger, Bound
  <2> HIDE DEF f
  <2> QED BY <2>1, <2>2, <1>2, <1>3
<1>5. CASE rs[w].pending.tool \notin ProposalTools
  <2>1. PICK l \in {"afterTool", "afterStall"} : Move(w, l, r)
    BY <1>5 DEF ToolDone, Goto, Become, Move
  <2>2. Newest(w) => \A k \in Keys : ledger[k] = NoRow
    BY <1>1, <1>5 DEF BoundToLedger, Bound, Keys
  <2>3. Newest(w) => RunAt(l, r)
    BY <1>1, <1>2, <2>1, <2>2 DEF RunAt, BoundToLedger
  <2> HIDE DEF r
  <2> QED BY <2>1, <2>3, <1>2, <1>3
<1> QED BY <1>4, <1>5

\* After the tool the attempt goes on to its checkpoint.
LEMMA ToolDoneInv ==
    ASSUME WorkInv, NEW w \in Workers, pc[w] \in CallLabels, ToolDone(w), Typed,
           UNCHANGED <<leaseVars, ckpts, ledger, proposals>>
    PROVE  WorkInv'
<1>1. PICK l \in {"afterTool", "afterStall"}, s \in RuntimeState :
              Move(w, l, s) /\ PcAt(l, s) /\ (Newest(w) => RunAt(l, s))
  BY ToolDoneFacts
<1>2. l \in Labels /\ pc[w] # "idle"
  BY DEF Labels, CallLabels, LedgerLabels
<1> QED BY <1>1, <1>2, QuietInv

\* A ledger call that sets the status of w's entry.
LEMMA SetLedgerInv ==
    ASSUME LeaseInv, WorkInv, NEW w \in Workers, NEW l \in Labels,
           NEW s \in RuntimeState, NEW status \in {"STARTED", "SUCCEEDED", "FAILED", "UNKNOWN"},
           pc[w] \in LedgerLabels, SetLedger(w, status), Move(w, l, s), Typed,
           UNCHANGED <<leaseVars, ckpts, proposals>>,
           PcAt(l, s), l \notin LedgerLabels \/ s = rs[w], Newest(w) => RunAt(l, s)
    PROVE  WorkInv'
<1>1. /\ ledger \in [Keys -> LedgerRow \cup {NoRow}]
      /\ Key(w) \in Keys /\ ledger[Key(w)] # NoRow
      /\ Key(w) = KeyOf(rs[w])
  BY AttemptFacts DEF WorkInv, RunTypeOK, PcAt
<1>2. /\ ledger' \in [Keys -> LedgerRow \cup {NoRow}]
      /\ \A k \in Keys : k # Key(w) => ledger'[k] = ledger[k]
      /\ ledger'[Key(w)] \in LedgerRow
  BY <1>1 DEF SetLedger, LedgerRow
<1>3. \A k \in Keys : (ledger'[k] # NoRow) <=> (ledger[k] # NoRow)
  BY <1>1, <1>2, ToolAssumption
<1>4. /\ proposals' \in [Keys -> Proposal \cup {NoRow}]
      /\ \A k \in Keys : proposals'[k] # NoRow => ledger[k] # NoRow
  BY DEF WorkInv, RunTypeOK, ProposalOK
<1>5. (KeyOf(s) \in Keys \/ l \notin LedgerLabels) /\ pc[w] # "idle"
  BY <1>1 DEF LedgerLabels
<1> QED BY <1>2, <1>3, <1>4, <1>5, LedgerInv

\* begin() adds the entry of the pending call: the newest attempt is bound to
\* whatever entry there is, hence there was none.
LEMMA BeginNewInv ==
    ASSUME LeaseInv, WorkInv, NEW w \in Workers, BeginNew(w)
    PROVE  WorkInv'
<1> DEFINE k0 == KeyOf(rs[w])
           row == [arg |-> rs[w].pending.arg, status |-> "STARTED"]
<1> USE DEF WorkInv
<1>1. /\ pc[w] = "begin" /\ Fence(w) /\ rs[w] \in RuntimeState
      /\ k0 \in Keys /\ Key(w) = k0 /\ rs[w].pending \in Call
      /\ PcAt("begin", rs[w])
      /\ Newest(w) /\ RunAt("begin", rs[w])
  BY AttemptFacts DEF BeginNew, Fence, Newest
<1>2. row \in LedgerRow /\ row # NoRow
  BY <1>1, ToolAssumption DEF LedgerRow, Call
<1>3. /\ pc' = [pc EXCEPT ![w] = "handler"] /\ rs' = rs
      /\ ledger' = [ledger EXCEPT ![k0] = row]
      /\ UNCHANGED <<leaseVars, ckpts, proposals, steps>>
      /\ tries' = [tries EXCEPT ![w] = 1]
      /\ ledger[k0] = NoRow
  BY <1>1 DEF BeginNew, Goto
<1>4. RunTypeOK'
  BY <1>1, <1>2, <1>3, BudgetAssumption DEF RunTypeOK, Labels
<1>5. /\ ledger'[k0] = row
      /\ \A k \in Keys : k # k0 => ledger'[k] = ledger[k]
  BY <1>1, <1>3 DEF RunTypeOK
<1>6. rs[w].phase = "TOOL_PENDING" /\ rs[w].pending # NoCall
  BY <1>1 DEF PcAt, StateOK, CallLabels
<1>7. \A k \in Keys : ledger[k] = NoRow
  <2> SUFFICES ASSUME NEW k \in Keys, ledger[k] # NoRow PROVE FALSE
    OBVIOUS
  <2>1. Bound(rs[w], k)
    BY <1>1 DEF RunAt, BoundToLedger
  <2>2. k = k0
    BY <2>1, <1>6 DEF Bound, KeyOf, Keys
  <2> QED BY <2>2, <1>3
<1> HIDE DEF k0, row
<1>8. PcOK'
  <2> SUFFICES ASSUME NEW v \in Workers PROVE PcAt(pc[v], rs[v])'
    BY DEF PcOK
  <2>1. CASE v = w
    <3>1. pc'[v] = "handler" /\ rs'[v] = rs[w]
      BY <2>1, <1>3 DEF RunTypeOK
    <3>2. ledger'[KeyOf(rs[w])] # NoRow
      BY <1>5, <1>2 DEF k0
    <3> QED BY <3>1, <3>2, <1>1 DEF PcAt, StateOK, CallLabels, LedgerLabels, KeyOf
  <2>2. CASE v # w
    <3>1. PcAt(pc[v], rs[v]) /\ pc'[v] = pc[v] /\ rs'[v] = rs[v]
      BY <2>2, <1>3 DEF PcOK, RunTypeOK
    <3>2. pc[v] \in LedgerLabels => KeyOf(rs[v]) \in Keys
      BY AttemptFacts
    <3>3. pc[v] \notin LedgerLabels
      BY <3>1, <3>2, <1>7 DEF PcAt
    <3> QED BY <3>1, <3>3 DEF PcAt, StateOK
  <2> QED BY <2>1, <2>2
<1>9. CkptOK'
  BY <1>3 DEF CkptOK, leaseVars
<1>10. Bound(rs[w], k0)
  BY <1>6 DEF Bound, KeyOf, k0
<1>11. RunOK'
  <2> SUFFICES ASSUME NEW v \in Workers, Newest(v)' PROVE RunAt(pc[v], rs[v])'
    BY DEF RunOK
  <2>1. v = w
    BY <1>1, <1>3 DEF Newest, leaseVars, LeaseInv, TokensDistinct
  <2>2. pc'[v] = "handler" /\ rs'[v] = rs[w]
    BY <2>1, <1>3 DEF RunTypeOK
  <2>3. NoneAbove(rs[w].loop)'
    BY <1>1, <1>3 DEF RunAt, NoneAbove
  <2>4. BoundToLedger(rs[w])'
    BY <1>3, <1>5, <1>7, <1>10 DEF BoundToLedger
  <2> QED BY <2>1, <1>3, <2>2, <2>3, <2>4 DEF RunAt, NoneAbove, BoundToLedger
<1>12. LedgerOK'
  <2>1. /\ ckpts[k0[1]] # NoRow /\ NoneAbove(k0[1]) /\ Bound(ckpts[k0[1]].state, k0)
    BY <1>1 DEF RunAt, KeyOf, k0
  <2> QED BY <2>1, <1>3, <1>5, <1>7 DEF LedgerOK, NoneAbove
<1>13. ProposalOK'
  BY <1>3, <1>5, <1>7 DEF ProposalOK
<1>14. IdleOK' /\ LatestOK'
  BY <1>1, <1>3 DEF IdleOK, Newest, LatestOK, Saved, NoneAbove, leaseVars, RunTypeOK
<1> QED BY <1>4, <1>8, <1>9, <1>11, <1>12, <1>13, <1>14

\* The handler adds the proposal of w's ledger entry.
LEMMA HandlerCommitsInv ==
    ASSUME LeaseInv, WorkInv, NEW w \in Workers, HandlerCommits(w)
    PROVE  WorkInv'
<1>1. /\ pc[w] = "handler" /\ rs[w] \in RuntimeState /\ rs[w].pending \in Call
      /\ Key(w) \in Keys /\ Key(w) = KeyOf(rs[w]) /\ ledger[Key(w)] # NoRow
      /\ PcAt("handler", rs[w]) /\ (Newest(w) => RunAt("handler", rs[w]))
  BY AttemptFacts DEF HandlerCommits, LedgerLabels, PcAt
<1>2. PICK l \in {"succeed", "unknown", "fail"} : Goto(w, l)
  BY DEF HandlerCommits
<1>3. Move(w, l, rs[w]) /\ l \in Labels
  BY <1>2 DEF HandlerCommits, Goto, Move, WorkInv, RunTypeOK, Labels
<1>4. PcAt(l, rs[w]) /\ (Newest(w) => RunAt(l, rs[w]))
  BY <1>1 DEF PcAt, RunAt, LedgerLabels, CallLabels
<1>5. /\ proposals \in [Keys -> Proposal \cup {NoRow}]
      /\ \A k \in Keys : proposals[k] # NoRow => ledger[k] # NoRow
  BY DEF WorkInv, RunTypeOK, ProposalOK
<1>6. /\ proposals' \in [Keys -> Proposal \cup {NoRow}]
      /\ \A k \in Keys : proposals'[k] # NoRow => ledger[k] # NoRow
  <2>1. CASE UNCHANGED proposals
    BY <2>1, <1>5
  <2>2. CASE CreateProposal(w)
    <3> DEFINE p == [arg |-> rs[w].pending.arg, adjusted |-> 0,
                     status |-> IF rs[w].pending.tool \in MinorTools
                                THEN "PENDING" ELSE "AWAITING_CONFIRMATION"]
    <3>1. p \in Proposal
      BY <1>1 DEF Proposal, Call
    <3>2. proposals' = [proposals EXCEPT ![Key(w)] = p]
      BY <2>2 DEF CreateProposal
    <3> HIDE DEF p
    <3> QED BY <3>1, <3>2, <1>1, <1>5
  <2> QED BY <2>1, <2>2 DEF HandlerCommits, InsertProposal
<1>7. Typed /\ UNCHANGED <<leaseVars, ckpts, ledger>>
      /\ ledger \in [Keys -> LedgerRow \cup {NoRow}]
  BY DEF HandlerCommits, Typed, WorkInv, RunTypeOK
<1> QED BY <1>1, <1>3, <1>4, <1>6, <1>7, LedgerInv

\* Every step of ToolExecutor.execute preserves the invariant.
LEMMA ToolStepInv ==
    ASSUME LeaseInv, WorkInv, NEW w \in Workers, ToolStep(w)
    PROVE  WorkInv'
<1> USE DEF rows
<1>0. /\ pc[w] \in Labels /\ rs[w] \in RuntimeState /\ PcAt(pc[w], rs[w])
      /\ tries \in [Workers -> 0..MaxToolAttempts]
      /\ steps \in [Steps -> Tools \cup {NoCall, NoRow}]
      /\ \A s \in RuntimeState : s.err \in Errors
      /\ {"RETRYABLE", "OTHER"} \subseteq Errors /\ "FAILED" \in Reasons
  BY AttemptFacts DEF WorkInv, RunTypeOK, RuntimeState, Errors, Reasons
<1>1. CASE ReadSucceeds(w)
  <2>1. pc[w] \in CallLabels /\ Typed
    BY <1>0, <1>1 DEF ReadSucceeds, CallLabels, Typed
  <2> QED BY <1>1, <2>1, ToolDoneInv DEF ReadSucceeds
<1>2. CASE ReadFails(w)
  <2>1. PICK e \in {"RETRYABLE", "OTHER"} : Terminating(w, "FAILED", e)
    BY <1>2 DEF ReadFails
  <2>2. /\ pc[w] = "read" /\ rs[w].phase = "TOOL_PENDING" /\ Typed
        /\ UNCHANGED <<leaseVars, ckpts, ledger, proposals>>
    BY <1>0, <1>2 DEF ReadFails, PcAt, CallLabels, Typed
  <2> QED BY <1>0, <2>1, <2>2, TerminatingInv
<1>3. CASE BeginNew(w)
  BY <1>3, BeginNewInv
<1>4. CASE BeginExisting(w)
  <2>1. /\ pc[w] = "begin" /\ Typed /\ UNCHANGED <<leaseVars, ckpts, ledger, proposals>>
        /\ Key(w) = KeyOf(rs[w]) /\ ledger[Key(w)] # NoRow
    BY <1>0, <1>4, AttemptFacts DEF BeginExisting, Typed
  <2>2. CASE Terminating(w, "FAILED", "OTHER")
    BY <1>0, <2>1, <2>2, TerminatingInv
  <2>3. CASE ToolDone(w)
    BY <2>1, <2>3, ToolDoneInv DEF CallLabels
  <2>4. CASE Goto(w, "reconcile") /\ UNCHANGED rs
    <3>1. PcAt("reconcile", rs[w]) /\ "reconcile" \in Labels
      BY <1>0, <2>1 DEF PcAt, CallLabels, LedgerLabels, Labels
    <3> QED BY <2>1, <2>4, <3>1, GotoInv
  <2> QED BY <1>4, <2>2, <2>3, <2>4 DEF BeginExisting
<1>5. CASE \/ Reconcile(w) \/ HandlerTransient(w) \/ HandlerRefuses(w)
           \/ SucceedLost(w) \/ ReconcileFound(w) \/ RetryTool(w)
  <2>1. PICK l \in LedgerLabels : Goto(w, l)
    BY <1>5 DEF Reconcile, HandlerTransient, HandlerRefuses, SucceedLost,
       ReconcileFound, RetryTool, LedgerLabels
  <2>2. /\ pc[w] \in LedgerLabels
        /\ UNCHANGED <<leaseVars, rs, ckpts, ledger, proposals, steps>>
    BY <1>5 DEF Reconcile, HandlerTransient, HandlerRefuses, SucceedLost,
       ReconcileFound, RetryTool, LedgerLabels
  <2>3. tries' \in [Workers -> 0..MaxToolAttempts]
    BY <1>0, <1>5, BudgetAssumption DEF Reconcile, HandlerTransient, HandlerRefuses,
       SucceedLost, ReconcileFound, RetryTool
  <2>4. PcAt(l, rs[w]) /\ l \in Labels
    BY <1>0, <2>2 DEF PcAt, CallLabels, LedgerLabels, Labels
  <2>5. /\ pc[w] \notin {"idle", "load", "release"}
        /\ l \notin {"tool", "begin"}
    BY <2>2 DEF LedgerLabels
  <2> QED BY <1>0, <2>1, <2>2, <2>3, <2>4, <2>5, GotoInv DEF Typed
<1>6. CASE MarkStarted(w)
  <2>1. /\ pc[w] \in LedgerLabels /\ pc[w] \notin {"idle", "load", "release"}
        /\ Move(w, "handler", rs[w]) /\ Typed /\ SetLedger(w, "STARTED")
        /\ UNCHANGED <<leaseVars, ckpts, proposals>>
    BY <1>0, <1>6 DEF MarkStarted, LedgerLabels, Goto, Move, Typed, WorkInv, RunTypeOK
  <2>2. /\ PcAt("handler", rs[w]) /\ "handler" \in Labels
        /\ Newest(w) => RunAt("handler", rs[w])
    BY <1>0, <2>1, AttemptFacts DEF PcAt, CallLabels, LedgerLabels, Labels, RunAt
  <2> QED BY <1>0, <2>1, <2>2, SetLedgerInv
<1>7. CASE HandlerCommits(w)
  BY <1>7, HandlerCommitsInv
<1>8. CASE Succeed(w) \/ SucceedReplay(w)
  <2>1. /\ pc[w] \in LedgerLabels /\ ToolDone(w) /\ SetLedger(w, "SUCCEEDED")
        /\ Typed /\ UNCHANGED <<leaseVars, ckpts, proposals>>
    BY <1>0, <1>8 DEF Succeed, SucceedReplay, LedgerLabels, Typed
  <2>2. PICK l \in {"afterTool", "afterStall"}, s \in RuntimeState :
                Move(w, l, s) /\ PcAt(l, s) /\ (Newest(w) => RunAt(l, s))
    BY <2>1, ToolDoneFacts DEF CallLabels
  <2>3. l \in Labels /\ l \notin LedgerLabels
    BY DEF Labels, LedgerLabels
  <2> QED BY <2>1, <2>2, <2>3, SetLedgerInv
<1>9. CASE Unknown(w)
  <2>1. /\ pc[w] \in LedgerLabels /\ pc[w] \notin {"idle", "load", "release"}
        /\ Move(w, "reconcileRetry", rs[w]) /\ Typed /\ SetLedger(w, "UNKNOWN")
        /\ UNCHANGED <<leaseVars, ckpts, proposals>>
    BY <1>0, <1>9 DEF Unknown, LedgerLabels, Goto, Move, Typed, WorkInv, RunTypeOK
  <2>2. /\ PcAt("reconcileRetry", rs[w]) /\ "reconcileRetry" \in Labels
        /\ Newest(w) => RunAt("reconcileRetry", rs[w])
    BY <1>0, <2>1, AttemptFacts DEF PcAt, CallLabels, LedgerLabels, Labels, RunAt
  <2> QED BY <1>0, <2>1, <2>2, SetLedgerInv
<1>10. CASE GiveUpTool(w)
  <2>1. /\ pc[w] = "reconcileRetry" /\ rs[w].phase = "TOOL_PENDING" /\ Typed
        /\ Terminating(w, "FAILED", "RETRYABLE")
        /\ UNCHANGED <<leaseVars, ckpts, ledger, proposals>>
    BY <1>0, <1>10 DEF GiveUpTool, PcAt, CallLabels, LedgerLabels, Typed
  <2> QED BY <1>0, <2>1, TerminatingInv
<1>11. CASE Fail(w)
  <2> DEFINE s == Ended(rs[w], "FAILED", "OTHER")
  <2>1. /\ pc[w] \in LedgerLabels /\ pc[w] \notin {"idle", "load", "release"}
        /\ Move(w, "saveEnd", s) /\ Typed /\ SetLedger(w, "FAILED")
        /\ UNCHANGED <<leaseVars, ckpts, proposals>>
    BY <1>0, <1>11 DEF Fail, LedgerLabels, Goto, Become, Terminating, Move, Typed
  <2>2. /\ s \in RuntimeState /\ s.loop = rs[w].loop /\ PcAt("saveEnd", s)
        /\ \A k : Bound(rs[w], k) => Bound(s, k)
    BY <1>0, EndedFacts
  <2>3. "saveEnd" \in Labels /\ "saveEnd" \notin LedgerLabels
    BY DEF Labels, LedgerLabels
  <2> HIDE DEF s
  <2>4. Newest(w) => RunAt("saveEnd", s)
    BY <2>1, <2>2, AttemptFacts DEF RunAt, BoundToLedger
  <2> QED BY <2>1, <2>2, <2>3, <2>4, SetLedgerInv
<1>12. CASE LedgerStale(w)
  <2>1. /\ Goto(w, "release") /\ Typed /\ pc[w] # "idle"
        /\ UNCHANGED <<leaseVars, rs, ckpts, ledger, proposals>>
    BY <1>0, <1>12 DEF LedgerStale, Stale, Typed
  <2>2. PcAt("release", rs[w]) /\ "release" \in Labels
    BY <1>0 DEF PcAt, CallLabels, LedgerLabels, Labels
  <2> QED BY <2>1, <2>2, GotoInv
<1> QED BY <1>1, <1>2, <1>3, <1>4, <1>5, <1>6, <1>7, <1>8, <1>9, <1>10, <1>11, <1>12
        DEF ToolStep

-----------------------------------------------------------------------------
\* What load_latest returns when there are checkpoints.
LEMMA LatestFacts ==
    ASSUME LatestOK, Saved # {}
    PROVE  Latest \in Saved /\ \A m \in Saved : m <= Latest
<1>1. PICK n \in Saved : NoneAbove(n)
  BY DEF LatestOK
<1>2. \A m \in Saved : m <= n
  BY <1>1, BudgetAssumption DEF NoneAbove, Saved, Steps
<1> QED BY <1>2 DEF Latest

\* A resumed state stands at its checkpoint, and its entry point fits it.
LEMMA ResumeFacts ==
    ASSUME NEW c \in RuntimeState, StateOK(c)
    PROVE  /\ Prepare(c) \in RuntimeState
           /\ Prepare(c).loop = c.loop
           /\ EntryPoint(Prepare(c)) \in {"apply", "finalize", "complete", "tool", "top"}
           /\ PcAt(EntryPoint(Prepare(c)), Prepare(c))
           /\ \A k : Bound(c, k) => Bound(Prepare(c), k)
           /\ EntryPoint(Prepare(c)) = "tool" => Bound(c, KeyOf(Prepare(c)))
<1> DEFINE p == Prepare(c)
<1>1. /\ p \in RuntimeState /\ p.loop = c.loop /\ p.pending = c.pending
      /\ \/ p = c /\ ~(c.phase = "TERMINATED" /\ c.err = "RETRYABLE")
         \/ /\ c.phase = "TERMINATED" /\ c.err = "RETRYABLE"
            /\ p.phase = IF c.pending # NoCall THEN "TOOL_PENDING" ELSE "READY"
  <2>1. CASE c.phase = "TERMINATED" /\ c.err = "RETRYABLE"
    BY <2>1 DEF Prepare, RuntimeState, Phases, Reasons, Errors
  <2>2. CASE ~(c.phase = "TERMINATED" /\ c.err = "RETRYABLE")
    BY <2>2 DEF Prepare
  <2> QED BY <2>1, <2>2
<1> HIDE DEF p
<1>2. /\ p.phase = "TERMINATED" => EntryPoint(p) \in {"apply", "finalize"}
      /\ p.phase = "FINAL_PENDING" => EntryPoint(p) = "complete"
      /\ p.phase = "TOOL_PENDING" => EntryPoint(p) = "tool"
      /\ p.phase = "READY" => EntryPoint(p) = "top"
      /\ p.phase \in Phases
  BY <1>1 DEF EntryPoint, RuntimeState, Phases
<1>3. EntryPoint(p) \in {"apply", "finalize", "complete", "tool", "top"}
  BY <1>2 DEF Phases
<1>4. StateOK(p)
  BY <1>1 DEF StateOK
<1>5. PcAt(EntryPoint(p), p)
  BY <1>2, <1>4 DEF PcAt, CallLabels, LedgerLabels, Phases
<1>6. ASSUME NEW k, Bound(c, k) PROVE Bound(p, k)
  BY <1>1, <1>6 DEF Bound
<1>7. EntryPoint(p) = "tool" => Bound(c, KeyOf(p))
  <2>1. EntryPoint(p) = "tool" => p.phase = "TOOL_PENDING"
    BY <1>2 DEF Phases
  <2> QED BY <2>1, <1>1, <1>4 DEF Bound, KeyOf, StateOK
<1> QED BY <1>1, <1>3, <1>5, <1>6, <1>7 DEF p

\* load_latest
LEMMA LoadInv ==
    ASSUME LeaseInv, WorkInv, NEW w \in Workers, LoadFresh(w) \/ LoadResume(w)
    PROVE  WorkInv'
<1> USE DEF rows
<1>1. CASE LoadFresh(w)
  <2>1. /\ Move(w, "top", rs[w]) /\ Typed /\ pc[w] # "idle" /\ "top" \in Labels
        /\ UNCHANGED <<leaseVars, ckpts, ledger, proposals>>
        /\ rs[w] = Fresh /\ rs[w] \in RuntimeState
    BY <1>1, AttemptFacts DEF LoadFresh, Goto, Move, Typed, Labels, PcAt, WorkInv, RunTypeOK
  <2>2. PcAt("top", rs[w])
    BY <2>1 DEF PcAt, StateOK, Fresh, CallLabels, LedgerLabels
  <2>3. \A n \in Steps : ckpts[n] = NoRow
    BY <1>1 DEF LoadFresh, Saved
  <2>4. RunAt("top", rs[w])
    BY <2>3 DEF RunAt, NoneAbove, BoundToLedger, WorkInv, LedgerOK, Keys
  <2> QED BY <2>1, <2>2, <2>4, QuietInv
<1>2. CASE LoadResume(w)
  <2> DEFINE n == Latest
             c == ckpts[n].state
             s == Prepare(c)
  <2>1. /\ Move(w, EntryPoint(s), s) /\ Typed /\ pc[w] # "idle"
        /\ UNCHANGED <<leaseVars, ckpts, ledger, proposals>>
    BY <1>2 DEF LoadResume, Goto, Become, Move, Typed, WorkInv, RunTypeOK
  <2>2. n \in Steps /\ ckpts[n] # NoRow /\ NoneAbove(n)
    BY <1>2, LatestFacts, BudgetAssumption DEF WorkInv, LoadResume, Saved, NoneAbove, Steps
  <2>3. c \in RuntimeState /\ c.loop = n /\ StateOK(c)
    BY <2>2 DEF WorkInv, RunTypeOK, CkptOK, Checkpoint
  <2> HIDE DEF c, n
  <2>4. BoundToLedger(c)
    <3> SUFFICES ASSUME NEW k \in Keys, ledger[k] # NoRow PROVE Bound(c, k)
      BY DEF BoundToLedger
    <3>1. /\ k[1] \in Steps /\ ckpts[k[1]] # NoRow /\ NoneAbove(k[1])
          /\ Bound(ckpts[k[1]].state, k)
      BY DEF WorkInv, LedgerOK, Keys
    <3>2. k[1] = n
      BY <3>1, <2>2, BudgetAssumption DEF NoneAbove, Steps
    <3> QED BY <3>1, <3>2 DEF c
  <2>5. /\ s \in RuntimeState /\ s.loop = n
        /\ EntryPoint(s) \in {"apply", "finalize", "complete", "tool", "top"}
        /\ PcAt(EntryPoint(s), s) /\ BoundToLedger(s)
        /\ EntryPoint(s) = "tool" => Bound(c, KeyOf(s))
    BY <2>3, <2>4, ResumeFacts DEF BoundToLedger
  <2> HIDE DEF s
  <2>6. EntryPoint(s) \in Labels
    BY <2>5 DEF Labels
  <2>7. RunAt(EntryPoint(s), s)
    BY <2>2, <2>5 DEF RunAt, c
  <2> QED BY <2>1, <2>5, <2>6, <2>7, QuietInv
<1> QED BY <1>1, <1>2

\* The decision of the model: the step is recorded, nothing else is written.
\* There is no ledger entry yet, for the attempt is READY.
LEMMA DecideInv ==
    ASSUME LeaseInv, WorkInv, NEW w \in Workers,
           DecideFinish(w) \/ DecideCall(w) \/ DecideFails(w) \/ DecideOverBudget(w)
    PROVE  WorkInv'
<1> DEFINE n == NextStep(rs[w])
<1> USE DEF rows
<1>1. /\ pc[w] = "model" /\ rs[w] \in RuntimeState /\ rs[w].phase = "READY"
      /\ rs[w].loop < MaxSteps /\ (Newest(w) => RunAt("model", rs[w]))
      /\ UNCHANGED <<leaseVars, ckpts, ledger, proposals, tries>>
      /\ tries \in [Workers -> 0..MaxToolAttempts]
      /\ steps \in [Steps -> Tools \cup {NoCall, NoRow}]
  BY AttemptFacts DEF DecideFinish, DecideCall, DecideFails, DecideOverBudget, PcAt,
     WorkInv, RunTypeOK
<1>2. n \in RuntimeState /\ n.loop = rs[w].loop + 1 /\ n.loop \in Steps /\ n.phase = "READY"
  <2>1. rs[w].loop + 1 \in Steps
    BY <1>1, BudgetAssumption DEF RuntimeState, Steps
  <2> QED BY <1>1, <2>1 DEF NextStep, RuntimeState
<1>3. Typed
  BY <1>1, <1>2 DEF DecideFinish, DecideCall, DecideFails, DecideOverBudget, Typed,
     RecordStep, Call
<1> HIDE DEF n
<1>4. Newest(w) => NoneAbove(n.loop) /\ \A s : BoundToLedger(s)
  BY <1>1, <1>2, BudgetAssumption DEF RunAt, NoneAbove, BoundToLedger, Bound, Steps,
     RuntimeState
<1>5. ASSUME NEW l \in {"saveFinal", "saveStall", "saveTool", "saveEnd"},
             NEW s \in RuntimeState, Move(w, l, s), PcAt(l, s), s.loop = n.loop
      PROVE  WorkInv'
  <2>1. Newest(w) => RunAt(l, s)
    BY <1>4, <1>5 DEF RunAt
  <2>2. l \in Labels
    BY DEF Labels
  <2> QED BY <1>1, <1>3, <1>5, <2>1, <2>2, QuietInv
<1>6. ASSUME NEW e \in Errors, Become(w, Ended(n, "FAILED", e)), Goto(w, "saveEnd")
      PROVE  WorkInv'
  <2>1. /\ Ended(n, "FAILED", e) \in RuntimeState
        /\ Ended(n, "FAILED", e).loop = n.loop
        /\ PcAt("saveEnd", Ended(n, "FAILED", e))
    BY <1>2, EndedFacts DEF Reasons
  <2>2. Move(w, "saveEnd", Ended(n, "FAILED", e))
    BY <1>6 DEF Become, Goto, Move
  <2> QED BY <2>1, <2>2, <1>5
<1>7. CASE DecideFinish(w)
  <2> DEFINE s == [n EXCEPT !.final = TRUE, !.phase = "FINAL_PENDING"]
  <2>1. Move(w, "saveFinal", s)
    BY <1>7 DEF DecideFinish, Become, Goto, Move, n
  <2>2. s \in RuntimeState /\ s.loop = n.loop /\ s.phase = "FINAL_PENDING"
    BY <1>2 DEF RuntimeState, Phases
  <2> HIDE DEF s
  <2>3. PcAt("saveFinal", s)
    BY <2>2 DEF PcAt, StateOK, CallLabels, LedgerLabels
  <2> QED BY <2>1, <2>2, <2>3, <1>5
<1>8. CASE DecideCall(w)
  <2>1. PICK c \in Call :
              \/ Become(w, n) /\ Goto(w, "saveStall")
              \/ Become(w, Ended(n, "FAILED", "OTHER")) /\ Goto(w, "saveEnd")
              \/ /\ Become(w, [n EXCEPT !.pending = c, !.phase = "TOOL_PENDING"])
                 /\ Goto(w, "saveTool")
    BY <1>8 DEF DecideCall, n
  <2>2. CASE Become(w, n) /\ Goto(w, "saveStall")
    <3>1. Move(w, "saveStall", n) /\ PcAt("saveStall", n)
      BY <2>2, <1>2 DEF Become, Goto, Move, PcAt, StateOK, CallLabels, LedgerLabels
    <3> QED BY <3>1, <1>2, <1>5
  <2>3. CASE Become(w, Ended(n, "FAILED", "OTHER")) /\ Goto(w, "saveEnd")
    BY <2>3, <1>6 DEF Errors
  <2>4. CASE /\ Become(w, [n EXCEPT !.pending = c, !.phase = "TOOL_PENDING"])
             /\ Goto(w, "saveTool")
    <3> DEFINE s == [n EXCEPT !.pending = c, !.phase = "TOOL_PENDING"]
    <3>1. Move(w, "saveTool", s)
      BY <2>4 DEF Become, Goto, Move
    <3>2. s \in RuntimeState /\ s.loop = n.loop /\ s.phase = "TOOL_PENDING" /\ s.pending = c
      BY <1>2 DEF RuntimeState, Phases
    <3> HIDE DEF s
    <3>3. PcAt("saveTool", s)
      BY <3>2, ToolAssumption DEF PcAt, StateOK, CallLabels, LedgerLabels
    <3> QED BY <3>1, <3>2, <3>3, <1>5
  <2> QED BY <2>1, <2>2, <2>3, <2>4
<1>9. CASE DecideFails(w)
  BY <1>9, <1>6 DEF DecideFails, n, Errors
<1>10. CASE DecideOverBudget(w)
  BY <1>10, <1>6 DEF DecideOverBudget, n, Errors
<1> QED BY <1>7, <1>8, <1>9, <1>10

\* The checkpoints of the loop.
LEMMA CheckpointInv ==
    ASSUME LeaseInv, WorkInv, NEW w \in Workers,
           \/ SaveTool(w) \/ SaveFinal(w) \/ SaveStall(w) \/ AfterTool(w)
           \/ AfterStall(w) \/ Complete(w) \/ SaveEnd(w)
    PROVE  WorkInv'
<1>0. /\ rs[w] \in RuntimeState /\ PcAt(pc[w], rs[w]) /\ StateOK(rs[w])
      /\ Newest(w) /\ NoneAbove(rs[w].loop) /\ BoundToLedger(rs[w])
      /\ Typed /\ UNCHANGED <<leaseVars, ledger, proposals>>
      /\ rs[w].err \in Errors
      /\ rs \in [Workers -> RuntimeState]
  <2>1. /\ SaveCheckpoint(w, rs[w]) \/ SaveCheckpoint(w, Ended(rs[w], "COMPLETED", "NONE"))
        /\ pc[w] \notin {"idle", "load", "release"}
    BY DEF SaveTool, SaveFinal, SaveStall, AfterTool, AfterStall, Complete, SaveEnd
  <2>2. Newest(w)
    BY <2>1 DEF SaveCheckpoint, Fence, Newest
  <2>3. Typed /\ UNCHANGED <<leaseVars, ledger, proposals>>
    BY DEF SaveTool, SaveFinal, SaveStall, AfterTool, AfterStall, Complete, SaveEnd,
       Typed, WorkInv, RunTypeOK
  <2> QED BY <2>1, <2>2, <2>3, AttemptFacts DEF PcAt, RunAt, WorkInv, RunTypeOK, RuntimeState
<1>1. ASSUME NEW l \in {"tool", "complete", "finalize", "top"},
             SaveCheckpoint(w, rs[w]), Goto(w, l), UNCHANGED rs, PcAt(l, rs[w]),
             l = "tool" => rs[w].phase = "TOOL_PENDING"
      PROVE  WorkInv'
  <2>1. Move(w, l, rs[w]) /\ l \in Labels
    BY <1>0, <1>1 DEF Goto, Move, Labels
  <2>2. l \in {"tool", "begin"} => Bound(rs[w], KeyOf(rs[w]))
    BY <1>0, <1>1 DEF Bound, KeyOf
  <2> QED BY <1>0, <1>1, <2>1, <2>2, SaveInv
<1>2. CASE SaveTool(w)
  <2>1. PcAt("tool", rs[w]) /\ rs[w].phase = "TOOL_PENDING"
    BY <1>0, <1>2 DEF SaveTool, PcAt, CallLabels, LedgerLabels
  <2> QED BY <1>1, <1>2, <2>1 DEF SaveTool
<1>3. CASE SaveFinal(w)
  <2>1. PcAt("complete", rs[w])
    BY <1>0 DEF PcAt, CallLabels, LedgerLabels
  <2> QED BY <1>1, <1>3, <2>1 DEF SaveFinal
<1>4. CASE SaveEnd(w)
  <2>1. PcAt("finalize", rs[w])
    BY <1>0 DEF PcAt, CallLabels, LedgerLabels
  <2> QED BY <1>1, <1>4, <2>1 DEF SaveEnd
<1>5. CASE SaveStall(w) \/ AfterStall(w)
  <2> DEFINE s == Ended(rs[w], "LOOP_STALLED", rs[w].err)
  <2>1. rs[w].phase = "READY" /\ SaveCheckpoint(w, rs[w]) /\ Move(w, "saveEnd", s)
    BY <1>0, <1>5 DEF SaveStall, AfterStall, PcAt, Terminating, Goto, Become, Move
  <2>2. s \in RuntimeState /\ s.loop = rs[w].loop /\ PcAt("saveEnd", s)
    BY <1>0, EndedFacts DEF Reasons
  <2>3. BoundToLedger(s) /\ "saveEnd" \in Labels
    BY <1>0, <2>1 DEF BoundToLedger, Bound, Labels
  <2> HIDE DEF s
  <2> QED BY <1>0, <2>1, <2>2, <2>3, SaveInv
<1>6. CASE AfterTool(w)
  <2>1. rs[w].final => PcAt("complete", rs[w])
    BY <1>0 DEF PcAt, CallLabels, LedgerLabels
  <2>2. ~rs[w].final => PcAt("top", rs[w])
    BY <1>0, <1>6 DEF PcAt, CallLabels, LedgerLabels, AfterTool
  <2> QED BY <1>1, <1>6, <2>1, <2>2 DEF AfterTool
<1>7. CASE Complete(w)
  <2> DEFINE s == Ended(rs[w], "COMPLETED", "NONE")
  <2>1. SaveCheckpoint(w, s) /\ Move(w, "apply", s)
    BY <1>7 DEF Complete, Goto, Become, Move
  <2>2. /\ s \in RuntimeState /\ s.loop = rs[w].loop /\ StateOK(s) /\ PcAt("saveEnd", s)
        /\ \A k : Bound(rs[w], k) => Bound(s, k)
    BY <1>0, EndedFacts DEF Reasons, Errors
  <2> HIDE DEF s
  <2>3. BoundToLedger(s) /\ PcAt("apply", s) /\ "apply" \in Labels
    BY <1>0, <2>2 DEF BoundToLedger, PcAt, CallLabels, LedgerLabels, Labels
  <2> QED BY <1>0, <2>1, <2>2, <2>3, SaveInv
<1> QED BY <1>2, <1>3, <1>4, <1>5, <1>6, <1>7

\* The steps of the loop that write nothing.
LEMMA LoopInv ==
    ASSUME LeaseInv, WorkInv, NEW w \in Workers,
           \/ CheckActive(w) \/ BudgetTrips(w) \/ CallModel(w) \/ EnterTool(w)
           \/ InternalError(w) \/ Abort(w) \/ Fenced(w)
    PROVE  WorkInv'
<1> USE DEF rows
<1>0. /\ rs[w] \in RuntimeState /\ PcAt(pc[w], rs[w])
      /\ Typed /\ UNCHANGED <<leaseVars, ckpts, ledger, proposals>>
      /\ "OTHER" \in Errors /\ {"FAILED", "CANCELLED"} \subseteq Reasons
  BY AttemptFacts DEF CheckActive, BudgetTrips, CallModel, EnterTool, InternalError,
     Abort, Fenced, Cancelled, LostLease, Stale, Typed, WorkInv, RunTypeOK, Errors, Reasons
<1>1. pc[w] \notin {"idle", "release"}
  BY DEF CheckActive, BudgetTrips, CallModel, EnterTool, InternalError, Abort, Fenced,
     RunnerLabels, Labels
<1>2. CASE \E reason \in {"FAILED", "CANCELLED"} : Terminating(w, reason, "OTHER") /\ pc[w] # "load"
  BY <1>0, <1>1, <1>2, TerminatingInv
<1>3. CASE Goto(w, "release") /\ UNCHANGED rs
  <2>1. PcAt("release", rs[w]) /\ "release" \in Labels
    BY <1>0 DEF PcAt, CallLabels, LedgerLabels, Labels
  <2> QED BY <1>0, <1>1, <1>3, <2>1, GotoInv
<1>4. CASE CallModel(w)
  <2>1. /\ pc[w] = "top" /\ Goto(w, "model") /\ UNCHANGED rs
        /\ rs[w].loop < MaxSteps /\ "model" \in Labels
    BY <1>4 DEF CallModel, StepAllowed, Labels
  <2>2. PcAt("model", rs[w])
    BY <1>0, <2>1 DEF PcAt, CallLabels, LedgerLabels
  <2> QED BY <1>0, <2>1, <2>2, GotoInv
<1>5. CASE EnterTool(w) /\ ~Terminating(w, "FAILED", "OTHER")
  <2>1. /\ pc[w] = "tool" /\ rs[w].calls < MaxToolCalls /\ UNCHANGED rs
        /\ \/ Goto(w, "begin") /\ rs[w].pending.tool \in ProposalTools
           \/ Goto(w, "read") /\ rs[w].pending.tool \notin ProposalTools
    BY <1>5 DEF EnterTool, ToolAllowed
  <2>2. /\ PcAt("read", rs[w]) /\ "read" \in Labels /\ "begin" \in Labels
        /\ rs[w].pending.tool \in ProposalTools => PcAt("begin", rs[w])
    BY <1>0, <2>1 DEF PcAt, CallLabels, LedgerLabels, Labels
  <2> QED BY <1>0, <2>1, <2>2, GotoInv
<1> QED
  BY <1>2, <1>3, <1>4, <1>5 DEF CheckActive, BudgetTrips, EnterTool, InternalError, Abort,
     Fenced, Cancelled, LostLease, Stale, RunnerLabels

\* apply_minor_proposals and decide change proposals and make none.
LEMMA ProposalsInv ==
    ASSUME LeaseInv, WorkInv, (\E w \in Workers : Apply(w)) \/ (\E k \in Keys : Decide(k))
    PROVE  WorkInv'
<1>0. /\ proposals \in [Keys -> Proposal \cup {NoRow}]
      /\ ledger \in [Keys -> LedgerRow \cup {NoRow}]
      /\ \A k \in Keys : proposals[k] # NoRow => ledger[k] # NoRow
      /\ NoRow \notin Proposal
  BY ToolAssumption DEF WorkInv, RunTypeOK, ProposalOK
<1>1. ASSUME NEW p \in Proposal
      PROVE  /\ Adjust(p, "AUTO_COMMITTED") \in Proposal /\ Adjust(p, "APPLIED") \in Proposal
             /\ Defer(p) \in Proposal /\ [p EXCEPT !.status = "CLOSED"] \in Proposal
  <2>1. p.adjusted + 1 \in Nat
    BY DEF Proposal
  <2> QED BY <2>1 DEF Adjust, Defer, Proposal
<1>2. ASSUME NEW w \in Workers, Apply(w) PROVE WorkInv'
  <2>1. \A k \in Keys : AutoApplicable(k) => proposals[k] \in Proposal
    BY <1>0 DEF AutoApplicable
  <2>2. PICK S \in SUBSET {k \in Keys : AutoApplicable(k)} :
           proposals' = [k \in Keys |->
             CASE k \in S -> Adjust(proposals[k], "AUTO_COMMITTED")
               [] AutoApplicable(k) /\ k \notin S -> Defer(proposals[k])
               [] OTHER -> proposals[k]]
    BY <1>2 DEF Apply
  <2>3. \A k \in Keys :
           /\ k \in S => proposals'[k] = Adjust(proposals[k], "AUTO_COMMITTED")
           /\ k \notin S /\ AutoApplicable(k) => proposals'[k] = Defer(proposals[k])
           /\ k \notin S /\ ~AutoApplicable(k) => proposals'[k] = proposals[k]
    BY <2>2
  <2>4. \A k \in Keys : /\ proposals'[k] \in Proposal \cup {NoRow}
                        /\ proposals'[k] # NoRow => proposals[k] # NoRow
    BY <1>0, <1>1, <2>1, <2>3
  <2>5. proposals' \in [Keys -> Proposal \cup {NoRow}]
    <3>1. proposals' = [k \in Keys |-> proposals'[k]]
      BY <2>2
    <3> QED BY <3>1, <2>4
  <2>6. /\ Move(w, "finalize", rs[w]) /\ Typed /\ pc[w] = "apply"
        /\ UNCHANGED <<leaseVars, ckpts, ledger>>
    BY <1>2 DEF Apply, Goto, Move, Typed, WorkInv, RunTypeOK
  <2>7. /\ PcAt("finalize", rs[w]) /\ rs[w] \in RuntimeState
        /\ Newest(w) => RunAt("finalize", rs[w])
        /\ "finalize" \in Labels \ LedgerLabels
    BY <2>6, AttemptFacts DEF PcAt, RunAt, CallLabels, LedgerLabels, Labels
  <2> QED BY <1>0, <2>4, <2>5, <2>6, <2>7, LedgerInv
<1>3. ASSUME NEW k \in Keys, Decide(k) PROVE WorkInv'
  <2>1. proposals[k] \in Proposal
    BY <1>0, <1>3 DEF Decide, Decidable
  <2>2. PICK q \in Proposal : proposals' = [proposals EXCEPT ![k] = q]
    BY <1>1, <1>3, <2>1 DEF Decide
  <2>3. /\ proposals' \in [Keys -> Proposal \cup {NoRow}] /\ ProposalOK'
        /\ UNCHANGED <<leaseVars, pc, rs, tries, ckpts, ledger, steps>>
    BY <1>0, <1>3, <2>1, <2>2 DEF Decide, ProposalOK
  <2> QED BY <2>3 DEF WorkInv, RunTypeOK, PcOK, PcAt, IdleOK, CkptOK, LatestOK, Saved,
             RunOK, RunAt, Newest, LedgerOK, NoneAbove, BoundToLedger, leaseVars
<1> QED BY <1>2, <1>3

\* A step of the lease that leaves the tokens and the attempts where they are.
LEMMA LeaseOnlyInv ==
    ASSUME WorkInv, UNCHANGED <<token, fencingToken, pc, rs, tries, rows>>
    PROVE  WorkInv'
BY DEF rows, WorkInv, RunTypeOK, PcOK, PcAt, IdleOK, CkptOK, LatestOK, Saved, RunOK, RunAt,
       Newest, LedgerOK, ProposalOK, NoneAbove, BoundToLedger

\* A step of w into or out of hold(): nobody else becomes the newest attempt.
LEMMA HoldInv ==
    ASSUME LeaseInv, WorkInv, NEW w \in Workers, NEW l \in {"idle", "load", "release"},
           NEW s \in RuntimeState, Move(w, l, s), PcAt(l, s), Typed, UNCHANGED rows,
           token' \in [Workers -> Nat], fencingToken' \in {fencingToken, fencingToken + 1},
           \A v \in Workers \ {w} : token'[v] = token[v],
           token'[w] = 0 => l = "idle" /\ s = Fresh
    PROVE  WorkInv'
<1> USE DEF WorkInv, rows
<1>1. /\ pc'[w] = l /\ rs'[w] = s
      /\ \A v \in Workers \ {w} : pc'[v] = pc[v] /\ rs'[v] = rs[v]
  BY DEF RunTypeOK, Move
<1>2. RunTypeOK'
  BY DEF RunTypeOK, Move, Typed, Labels
<1>3. PcOK' /\ IdleOK'
  BY <1>1 DEF PcOK, PcAt, IdleOK
<1>4. CkptOK'
  <2>1. fencingToken \in Nat /\ fencingToken <= fencingToken'
    BY DEF LeaseInv, LeaseTypeOK
  <2>2. \A n \in Steps : ckpts[n] # NoRow => ckpts[n].tok \in Nat
    BY AttemptsAssumption DEF RunTypeOK, Checkpoint
  <2> QED BY <2>1, <2>2 DEF CkptOK, LeaseInv, LeaseTypeOK
<1>5. LatestOK' /\ LedgerOK' /\ ProposalOK'
  BY DEF LatestOK, Saved, LedgerOK, ProposalOK, NoneAbove
<1>6. \A v \in Workers \ {w} : Newest(v)' => Newest(v)
  BY DEF Newest, LeaseInv, LeaseTypeOK, TokensDistinct
<1>7. RunOK'
  BY <1>1, <1>6 DEF RunOK, RunAt, NoneAbove, BoundToLedger
<1> QED BY <1>2, <1>3, <1>4, <1>5, <1>7

\* The steps into and out of hold(), and those of the lease alone.
LEMMA LeaseStepsInv ==
    ASSUME LeaseInv, LeaseInv', WorkInv,
           \/ \E w \in Workers :
                 \/ Start(w) \/ LeaveHold(w) \/ Die(w) \/ FinalizeRun(w)
                 \/ StartCancelled(w) \/ CancelJob(w) \/ Heartbeat(w)
           \/ (Expire \/ RequestCancel) /\ UNCHANGED <<pc, rs, tries, rows>>
    PROVE  WorkInv'
<1>0. /\ token \in [Workers -> Nat] /\ token' \in [Workers -> Nat]
      /\ tries \in [Workers -> 0..MaxToolAttempts]
      /\ steps \in [Steps -> Tools \cup {NoCall, NoRow}]
      /\ rs \in [Workers -> RuntimeState]
      /\ Fresh \in RuntimeState /\ PcAt("idle", Fresh) /\ PcAt("load", Fresh)
  <2>1. Fresh \in RuntimeState /\ 0 \in 0..MaxToolAttempts
    BY BudgetAssumption DEF Fresh, RuntimeState, Steps, Phases, Reasons, Errors
  <2>2. PcAt("idle", Fresh) /\ PcAt("load", Fresh)
    BY DEF PcAt, StateOK, Fresh, CallLabels, LedgerLabels
  <2> QED BY <2>1, <2>2, AttemptsAssumption DEF LeaseInv, LeaseTypeOK, WorkInv, RunTypeOK
<1>1. ASSUME NEW w \in Workers, Start(w) PROVE WorkInv'
  <2>1. /\ Move(w, "load", Fresh) /\ Typed /\ UNCHANGED rows
        /\ fencingToken' = fencingToken + 1
        /\ \A v \in Workers \ {w} : token'[v] = token[v]
        /\ token'[w] = fencingToken + 1
    <3>1. token[w] = 0 /\ rs[w] = Fresh
      BY <1>1 DEF Start, Acquire, TakeOver, Idle, WorkInv, IdleOK
    <3>2. rs' = [rs EXCEPT ![w] = Fresh]
      BY <1>0, <1>1, <3>1 DEF Start
    <3> QED BY <1>0, <1>1, <3>2 DEF Start, Acquire, TakeOver, NextToken, Goto, Move, Typed,
       rows
  <2>2. token'[w] # 0
    BY <2>1, AttemptsAssumption DEF LeaseInv, LeaseTypeOK
  <2> QED BY <1>0, <2>1, <2>2, HoldInv
<1>2. ASSUME NEW w \in Workers, LeaveHold(w) \/ Die(w) PROVE WorkInv'
  <2>1. /\ Move(w, "idle", Fresh) /\ Typed /\ UNCHANGED rows
        /\ fencingToken' = fencingToken
        /\ \A v \in Workers \ {w} : token'[v] = token[v]
    BY <1>0, <1>2, BudgetAssumption
       DEF LeaveHold, Die, Release, Crash, Goto, Become, Move, Typed, rows
  <2> QED BY <1>0, <2>1, HoldInv
<1>3. ASSUME NEW w \in Workers, FinalizeRun(w) PROVE WorkInv'
  <2>1. /\ Move(w, "release", rs[w]) /\ Typed /\ UNCHANGED rows /\ pc[w] = "finalize"
        /\ fencingToken' = fencingToken /\ token' = token /\ token'[w] # 0
    BY <1>0, <1>3 DEF FinalizeRun, Finalize, Fence, Goto, Move, Typed, rows
  <2>2. PcAt("release", rs[w]) /\ rs[w] \in RuntimeState
    BY <1>0, <2>1, AttemptFacts DEF PcAt, CallLabels, LedgerLabels
  <2> QED BY <1>0, <2>1, <2>2, HoldInv
<1>4. ASSUME NEW w \in Workers, StartCancelled(w) \/ CancelJob(w) \/ Heartbeat(w) PROVE WorkInv'
  BY <1>4, LeaseOnlyInv
     DEF StartCancelled, CancelJob, Heartbeat, AcquireCancelled, MarkCancelled, Renew
<1>5. CASE (Expire \/ RequestCancel) /\ UNCHANGED <<pc, rs, tries, rows>>
  BY <1>5, LeaseOnlyInv DEF Expire, RequestCancel
<1> QED BY <1>1, <1>2, <1>3, <1>4, <1>5

-----------------------------------------------------------------------------
\* A run before its first attempt.
LEMMA InitInv == Init => RunInv
<1> SUFFICES ASSUME Init PROVE RunInv
  OBVIOUS
<1>1. LeaseInv
  BY LeaseInitInv DEF Init
<1>2. RunTypeOK
  BY BudgetAssumption DEF Init, RunTypeOK, Labels, Fresh, RuntimeState, Steps, Phases,
     Reasons, Errors
<1>3. PcOK /\ IdleOK
  BY DEF Init, PcOK, PcAt, IdleOK, StateOK, Fresh, CallLabels, LedgerLabels
<1>4. CkptOK /\ LatestOK /\ RunOK /\ LedgerOK /\ ProposalOK
  BY DEF Init, LeaseInit, CkptOK, LatestOK, Saved, RunOK, Newest, LedgerOK, ProposalOK
<1> QED BY <1>1, <1>2, <1>3, <1>4 DEF RunInv, WorkInv

\* Every step of every attempt and of its environment keeps the invariant.
LEMMA NextInv ==
    ASSUME RunInv, [Next]_vars
    PROVE  RunInv'
<1>0. LeaseInv /\ WorkInv /\ LeaseInv'
  BY NextLease, LeaseNextInv DEF RunInv
<1> SUFFICES WorkInv'
  BY <1>0 DEF RunInv
<1>1. ASSUME NEW w \in Workers, AttemptStep(w) PROVE WorkInv'
  <2>1. CASE LoadFresh(w) \/ LoadResume(w)
    BY <1>0, <2>1, LoadInv
  <2>2. CASE \/ CheckActive(w) \/ BudgetTrips(w) \/ CallModel(w) \/ EnterTool(w)
             \/ InternalError(w) \/ Abort(w) \/ Fenced(w)
    BY <1>0, <2>2, LoopInv
  <2>3. CASE DecideFinish(w) \/ DecideCall(w) \/ DecideFails(w) \/ DecideOverBudget(w)
    BY <1>0, <2>3, DecideInv
  <2>4. CASE \/ SaveTool(w) \/ SaveFinal(w) \/ SaveStall(w) \/ AfterTool(w)
             \/ AfterStall(w) \/ Complete(w) \/ SaveEnd(w)
    BY <1>0, <2>4, CheckpointInv
  <2>5. CASE ToolStep(w)
    BY <1>0, <2>5, ToolStepInv
  <2>6. CASE Apply(w)
    BY <1>0, <2>6, ProposalsInv
  <2>7. CASE FinalizeRun(w) \/ LeaveHold(w) \/ CancelJob(w)
    BY <1>0, <2>7, LeaseStepsInv
  <2> QED BY <1>1, <2>1, <2>2, <2>3, <2>4, <2>5, <2>6, <2>7 DEF AttemptStep
<1>2. CASE Environment
  <2>1. CASE \E k \in Keys : Decide(k)
    BY <1>0, <2>1, ProposalsInv
  <2>2. CASE \/ \E w \in Workers : Start(w) \/ StartCancelled(w) \/ Heartbeat(w) \/ Die(w)
             \/ (Expire \/ RequestCancel) /\ UNCHANGED <<pc, rs, tries, rows>>
    BY <1>0, <2>2, LeaseStepsInv
  <2> QED BY <1>2, <2>1, <2>2 DEF Environment
<1>3. CASE UNCHANGED vars
  BY <1>0, <1>3, LeaseOnlyInv DEF vars, leaseVars
<1> QED BY <1>1, <1>2, <1>3 DEF Next

\* The inductive invariant holds in every state of a run.
THEOREM RunnerInvariant == Spec => []RunInv
BY InitInv, NextInv, PTL DEF Spec

\* Type correctness: loop_count, tool_call_count and the tool retries of every
\* attempt and of every checkpoint stay within their budgets, and the fencing
\* token within the retry limit of the job.
THEOREM RunnerTypeCorrect == Spec => []TypeOK
<1>1. RunInv => TypeOK
  BY DEF RunInv, LeaseInv, WorkInv, RunTypeOK, TypeOK
<1> QED BY <1>1, RunnerInvariant, PTL

\* However often a run is retried, taken over, resumed or fails halfway through
\* execute(), it makes at most one proposal.
THEOREM OneProposal == Spec => []AtMostOneProposal
<1>1. RunInv => AtMostOneProposal
  BY DEF RunInv, WorkInv, ProposalOK, LedgerOK, AtMostOneProposal
<1> QED BY <1>1, RunnerInvariant, PTL

\* A step that changes checkpoints is a fenced save.
LEMMA OnlySaves ==
    ASSUME RunInv, [Next]_vars, ckpts' # ckpts
    PROVE  \E w \in Workers, c \in RuntimeState : SaveCheckpoint(w, c)
<1>1. PICK w \in Workers : AttemptStep(w)
  BY DEF Next, Environment, Start, StartCancelled, Heartbeat, Die, Decide, vars, rows
<1>2. CASE ToolStep(w)
  BY <1>2 DEF ToolStep, ReadSucceeds, ReadFails, BeginNew, BeginExisting,
       Reconcile, MarkStarted, HandlerCommits, HandlerTransient, HandlerRefuses,
       Succeed, SucceedLost, SucceedReplay, Unknown, ReconcileFound, RetryTool,
       GiveUpTool, Fail, LedgerStale, Stale, rows
<1>3. CASE \/ LoadFresh(w) \/ LoadResume(w) \/ CheckActive(w) \/ BudgetTrips(w)
           \/ CallModel(w) \/ DecideFinish(w) \/ DecideCall(w) \/ DecideFails(w)
           \/ DecideOverBudget(w) \/ EnterTool(w) \/ InternalError(w) \/ Abort(w)
           \/ Apply(w) \/ FinalizeRun(w) \/ Fenced(w) \/ LeaveHold(w) \/ CancelJob(w)
  BY <1>3 DEF LoadFresh, LoadResume, CheckActive, BudgetTrips, CallModel, DecideFinish,
     DecideCall, DecideFails, DecideOverBudget, EnterTool, InternalError, Abort, Apply,
     FinalizeRun, Fenced, LeaveHold, CancelJob, Cancelled, LostLease, Stale, rows
<1>4. CASE \/ SaveTool(w) \/ SaveFinal(w) \/ SaveStall(w) \/ AfterTool(w)
           \/ AfterStall(w) \/ Complete(w) \/ SaveEnd(w)
  <2>1. rs[w] \in RuntimeState /\ Ended(rs[w], "COMPLETED", "NONE") \in RuntimeState
    BY AttemptFacts, EndedFacts DEF RunInv, Reasons, Errors
  <2> QED BY <1>4, <2>1 DEF SaveTool, SaveFinal, SaveStall, AfterTool, AfterStall,
             Complete, SaveEnd
<1> QED BY <1>1, <1>2, <1>3, <1>4 DEF AttemptStep

\* A superseded attempt never overwrites what a newer one saved: every save
\* passes the fence, so its token is at least that of every checkpoint.
THEOREM CheckpointsAreFenced == Spec => CheckpointsFenced
<1>1. ASSUME RunInv, [Next]_vars, NEW n \in Steps, ckpts'[n] # ckpts[n]
      PROVE  /\ ckpts'[n] # NoRow
             /\ \A m \in Saved : ckpts[m].tok <= ckpts'[n].tok
  <2>1. PICK w \in Workers, c \in RuntimeState : SaveCheckpoint(w, c)
    BY <1>1, OnlySaves
  <2>2. /\ ckpts \in [Steps -> Checkpoint \cup {NoRow}]
        /\ fencingToken \in 0..MaxAttempts
        /\ CkptOK
    BY <1>1 DEF RunInv, LeaseInv, LeaseTypeOK, WorkInv, RunTypeOK
  <2>3. ckpts'[n] = [state |-> c, tok |-> fencingToken]
    BY <1>1, <2>1, <2>2 DEF SaveCheckpoint, Fence
  <2>4. ckpts'[n] # NoRow
    BY <2>2, <2>3, ToolAssumption DEF Checkpoint
  <2> QED BY <2>2, <2>3, <2>4 DEF CkptOK, Saved
<1>2. RunInv /\ [Next]_vars
        => [\A n \in Steps : ckpts'[n] # ckpts[n] =>
              /\ ckpts'[n] # NoRow
              /\ \A m \in Saved : ckpts[m].tok <= ckpts'[n].tok]_vars
  BY <1>1
<1> QED BY <1>2, RunnerInvariant, PTL DEF Spec, CheckpointsFenced

-----------------------------------------------------------------------------
\* What a state is like at the await l, whoever holds it.
Shape(s) ==
    /\ s.phase \in {"READY", "FINAL_PENDING"} => s.pending = NoCall
    /\ s.phase = "TERMINATED" /\ s.term = "COMPLETED" => s.pending = NoCall
    /\ s.final => s.phase \in {"FINAL_PENDING", "TERMINATED"}

ShapeAt(l, s) ==
    /\ Shape(s)
    /\ l \in {"saveFinal", "complete"} => s.phase = "FINAL_PENDING"
    /\ l = "afterTool" => s.phase \in {"READY", "FINAL_PENDING"}
    /\ l \in {"saveEnd", "apply", "finalize"} => s.phase = "TERMINATED"
    /\ l = "saveEnd" => s.term # "COMPLETED"
    /\ l = "apply" => s.term = "COMPLETED"
    /\ l = "read" => s.pending.tool \notin ProposalTools
    /\ l \in {"succeed", "succeedReplay"} => proposals[KeyOf(s)] # NoRow

ShapeOK ==
    /\ \A w \in Workers : ShapeAt(pc[w], rs[w])
    /\ \A n \in Steps : ckpts[n] # NoRow => Shape(ckpts[n].state)

\* The run is on its way to COMPLETED, or there.
Concluding(s) == s.phase = "FINAL_PENDING" \/ (s.phase = "TERMINATED" /\ s.term = "COMPLETED")

\* The pending call of s is the one that was recorded and, if there is an entry,
\* that of the ledger; a run that goes on to its end has its entry SUCCEEDED.
Truthful(s) ==
    /\ s.pending # NoCall => steps[s.loop] = s.pending.tool
    /\ s.pending # NoCall => \A k \in Keys : ledger[k] # NoRow => s.pending.arg = ledger[k].arg
    /\ Concluding(s) => \A k \in Keys : ledger[k] # NoRow => ledger[k].status = "SUCCEEDED"

\* What the newest attempt, in state s, has saved at the await l.
SavedAt(l, s) ==
    /\ l \in {"tool"} \cup CallLabels =>
          ckpts[s.loop] # NoRow /\ ckpts[s.loop].state.pending = s.pending
    /\ l \in {"apply", "finalize"} => ckpts[s.loop] # NoRow /\ ckpts[s.loop].state = s
    /\ l = "finalize" /\ s.term = "COMPLETED" => \A k \in Keys : ~AutoApplicable(k)

TruthAt(l, s) == l \notin {"idle", "load", "release"} => Truthful(s) /\ SavedAt(l, s)

NewestOK ==
    /\ \A w \in Workers : Newest(w) => TruthAt(pc[w], rs[w])
    /\ \A n \in Steps : ckpts[n] # NoRow /\ NoneAbove(n) => Truthful(ckpts[n].state)

EffectsOK ==
    /\ \A k \in Keys : proposals[k] # NoRow => proposals[k].arg = ledger[k].arg
    /\ \A k \in Keys : ledger[k] # NoRow /\ ledger[k].status = "SUCCEEDED" => proposals[k] # NoRow

\* After _finalize_run the attempt only releases its lease.
FinalOK ==
    runStatus \in {"COMPLETED", "STALLED", "FAILED"} =>
        \A w \in Workers : Newest(w) => pc[w] = "release"

TruthInv ==
    ShapeOK /\ NewestOK /\ EffectsOK /\ TraceExplainsLedger /\ FinalOK /\ FinalStatusBacked

-----------------------------------------------------------------------------
\* Statuses _finalize_run leaves; only an attempt that takes over resets them.
FinalStatus == {"COMPLETED", "STALLED", "FAILED"}

\* What TruthInv says of attempt w.
LEMMA TruthFacts ==
    ASSUME RunInv, TruthInv, NEW w \in Workers
    PROVE  /\ pc[w] \in Labels /\ rs[w] \in RuntimeState /\ PcAt(pc[w], rs[w])
           /\ ShapeAt(pc[w], rs[w]) /\ Shape(rs[w])
           /\ Newest(w) => RunAt(pc[w], rs[w]) /\ TruthAt(pc[w], rs[w])
           /\ Fence(w) => Newest(w)
           /\ Newest(w) /\ pc[w] # "release" => runStatus \notin FinalStatus
BY AttemptFacts DEF RunInv, TruthInv, ShapeOK, NewestOK, ShapeAt, FinalOK, FinalStatus,
   Fence, Newest

\* A step of w alone that writes nothing.
LEMMA QuietTruth ==
    ASSUME RunInv, TruthInv, NEW w \in Workers, NEW l, NEW s, Move(w, l, s),
           UNCHANGED <<leaseVars, ckpts, ledger, proposals, steps>>,
           pc[w] # "release", ShapeAt(l, s), Newest(w) => TruthAt(l, s)
    PROVE  TruthInv'
<1> USE DEF TruthInv, leaseVars
<1>1. /\ pc'[w] = l /\ rs'[w] = s
      /\ \A v \in Workers \ {w} : pc'[v] = pc[v] /\ rs'[v] = rs[v]
  BY DEF Move, RunInv, WorkInv, RunTypeOK
<1>2. ShapeOK'
  BY <1>1 DEF ShapeOK, ShapeAt, Shape, KeyOf
<1>3. NewestOK'
  BY <1>1 DEF NewestOK, Newest, NoneAbove, TruthAt, Truthful, Concluding, SavedAt,
     AutoApplicable
<1>4. EffectsOK' /\ TraceExplainsLedger' /\ FinalStatusBacked'
  BY DEF EffectsOK, TraceExplainsLedger, FinalStatusBacked, Saved, Latest, AutoApplicable
<1>5. FinalOK'
  BY <1>1 DEF FinalOK, Newest
<1> QED BY <1>2, <1>3, <1>4, <1>5

\* A step of the newest attempt w: the others keep only their shape.
LEMMA FencedTruth ==
    ASSUME RunInv, TruthInv, NEW w \in Workers, NEW l, NEW s, Move(w, l, s),
           UNCHANGED leaseVars, Newest(w), pc[w] # "release",
           \A k \in Keys : proposals[k] # NoRow => proposals'[k] # NoRow,
           ShapeAt(l, s)', TruthAt(l, s)',
           \A n \in Steps : ckpts'[n] # NoRow =>
              Shape(ckpts'[n].state) /\ (NoneAbove(n)' => Truthful(ckpts[n].state)'),
           EffectsOK', TraceExplainsLedger'
    PROVE  TruthInv'
<1> USE DEF leaseVars
<1>1. /\ pc'[w] = l /\ rs'[w] = s
      /\ \A v \in Workers \ {w} : pc'[v] = pc[v] /\ rs'[v] = rs[v]
  BY DEF Move, RunInv, WorkInv, RunTypeOK
<1>2. \A v \in Workers : Newest(v)' => v = w
  BY DEF Newest, RunInv, LeaseInv, TokensDistinct
<1>3. ShapeOK'
  <2>1. ASSUME NEW v \in Workers PROVE ShapeAt(pc[v], rs[v])'
    <3>1. CASE v = w
      BY <3>1, <1>1 DEF ShapeAt, KeyOf
    <3>2. CASE v # w
      <4>1. ShapeAt(pc[v], rs[v])
        BY TruthFacts
      <4>2. pc[v] \in {"succeed", "succeedReplay"} => KeyOf(rs[v]) \in Keys
        BY AttemptFacts DEF RunInv, LedgerLabels
      <4> QED BY <3>2, <1>1, <4>1, <4>2 DEF ShapeAt, KeyOf
    <3> QED BY <3>1, <3>2
  <2> QED BY <2>1 DEF ShapeOK
<1>4. NewestOK'
  <2>1. ASSUME NEW v \in Workers, Newest(v)' PROVE TruthAt(pc[v], rs[v])'
    <3>1. v = w
      BY <2>1, <1>2
    <3> QED BY <3>1, <1>1 DEF TruthAt, Truthful, Concluding, SavedAt, AutoApplicable
  <2> QED BY <2>1 DEF NewestOK
<1>5. runStatus' \notin FinalStatus
  BY TruthFacts
<1> QED BY <1>3, <1>4, <1>5 DEF TruthInv, FinalOK, FinalStatusBacked, FinalStatus

\* A step that moves the lease only: nobody becomes the newest attempt, and a
\* final status stays what it was or goes.
LEMMA LeaseTruth ==
    ASSUME RunInv, TruthInv, UNCHANGED <<token, fencingToken, pc, rs, rows>>,
           runStatus' \in FinalStatus => runStatus' = runStatus
    PROVE  TruthInv'
<1> USE DEF TruthInv, rows
<1>1. ShapeOK' /\ EffectsOK' /\ TraceExplainsLedger'
  BY DEF ShapeOK, ShapeAt, Shape, EffectsOK, TraceExplainsLedger
<1>2. NewestOK'
  BY DEF NewestOK, Newest, NoneAbove, TruthAt, Truthful, Concluding, SavedAt, AutoApplicable
<1>3. FinalOK' /\ FinalStatusBacked'
  BY DEF FinalOK, FinalStatusBacked, FinalStatus, Newest, Saved, Latest, AutoApplicable
<1> QED BY <1>1, <1>2, <1>3

\* A step of w into or out of hold().
LEMMA HoldTruth ==
    ASSUME RunInv, TruthInv, NEW w \in Workers, NEW l \in {"idle", "load"},
           Move(w, l, Fresh), UNCHANGED rows,
           \A v \in Workers \ {w} : Newest(v)' => Newest(v),
           \/ runStatus' \notin FinalStatus
           \/ runStatus' = runStatus /\ ~Newest(w)'
    PROVE  TruthInv'
<1> USE DEF TruthInv, rows
<1>1. /\ pc'[w] = l /\ rs'[w] = Fresh
      /\ \A v \in Workers \ {w} : pc'[v] = pc[v] /\ rs'[v] = rs[v]
  BY DEF Move, RunInv, WorkInv, RunTypeOK
<1>2. Shape(Fresh)
  BY DEF Shape, Fresh
<1>3. ShapeOK'
  BY <1>1, <1>2 DEF ShapeOK, ShapeAt, Shape
<1>4. NewestOK'
  BY <1>1 DEF NewestOK, NoneAbove, TruthAt, Truthful, Concluding, SavedAt, AutoApplicable
<1>5. EffectsOK' /\ TraceExplainsLedger'
  BY DEF EffectsOK, TraceExplainsLedger
<1>6. FinalOK' /\ FinalStatusBacked'
  BY <1>1 DEF FinalOK, FinalStatusBacked, FinalStatus, Saved, Latest, AutoApplicable
<1> QED BY <1>3, <1>4, <1>5, <1>6

\* A run before its first attempt.
LEMMA InitTruth == Init => TruthInv
<1> SUFFICES ASSUME Init PROVE TruthInv
  OBVIOUS
<1>1. ShapeOK
  BY DEF Init, ShapeOK, ShapeAt, Shape, Fresh
<1>2. NewestOK /\ EffectsOK /\ TraceExplainsLedger
  BY DEF Init, NewestOK, TruthAt, EffectsOK, TraceExplainsLedger, Keys
<1>3. FinalOK /\ FinalStatusBacked
  BY DEF Init, LeaseInit, FinalOK, FinalStatusBacked
<1> QED BY <1>1, <1>2, <1>3 DEF TruthInv

-----------------------------------------------------------------------------
\* A step of w that goes on in the same state, at an await that asks for no more.
LEMMA GotoTruth ==
    ASSUME RunInv, TruthInv, NEW w \in Workers, NEW l, Goto(w, l),
           UNCHANGED <<leaseVars, rs, rows>>,
           pc[w] \notin {"idle", "load", "release"}, ShapeAt(l, rs[w]),
           l \notin {"apply", "finalize"},
           l \in {"tool"} \cup CallLabels => pc[w] \in {"tool"} \cup CallLabels
    PROVE  TruthInv'
<1>1. Move(w, l, rs[w])
  BY DEF Goto, Move, RunInv, WorkInv, RunTypeOK
<1>2. Newest(w) => TruthAt(l, rs[w])
  BY TruthFacts DEF TruthAt, SavedAt
<1> QED BY <1>1, <1>2, TruthFacts, QuietTruth DEF rows

\* A terminated state keeps its pending call.
LEMMA EndedShape ==
    ASSUME NEW s \in RuntimeState, NEW reason \in Reasons \ {"COMPLETED"}, NEW error \in Errors
    PROVE  /\ ShapeAt("saveEnd", Ended(s, reason, error))
           /\ Truthful(s) => TruthAt("saveEnd", Ended(s, reason, error))
<1> DEFINE t == Ended(s, reason, error)
<1>1. t.phase = "TERMINATED" /\ t.term = reason /\ t.loop = s.loop /\ t.pending = s.pending
  BY DEF Ended, RuntimeState
<1> HIDE DEF t
<1>2. ShapeAt("saveEnd", t)
  BY <1>1 DEF ShapeAt, Shape
<1>3. Truthful(s) => TruthAt("saveEnd", t)
  BY <1>1 DEF Truthful, Concluding, TruthAt, SavedAt, CallLabels, LedgerLabels
<1> QED BY <1>2, <1>3 DEF t

\* _terminate
LEMMA TerminatingTruth ==
    ASSUME RunInv, TruthInv, NEW w \in Workers, NEW reason \in Reasons \ {"COMPLETED"},
           NEW error \in Errors, Terminating(w, reason, error),
           UNCHANGED <<leaseVars, rows>>, pc[w] \notin {"idle", "load", "release"}
    PROVE  TruthInv'
<1>1. Move(w, "saveEnd", Ended(rs[w], reason, error))
  BY DEF Terminating, Goto, Become, Move
<1>2. rs[w] \in RuntimeState /\ (Newest(w) => Truthful(rs[w]))
  BY TruthFacts DEF TruthAt
<1> QED BY <1>1, <1>2, EndedShape, QuietTruth DEF rows

\* The executor is done with the tool call of w: after a proposal tool, whose
\* entry has SUCCEEDED by then, the run goes on to its end.
LEMMA ToolDoneShape ==
    ASSUME RunInv, TruthInv, NEW w \in Workers, pc[w] \in CallLabels, ToolDone(w)
    PROVE  \E l \in {"afterTool", "afterStall"}, s \in RuntimeState :
              /\ Move(w, l, s) /\ ShapeAt(l, s)
              /\ s.loop = rs[w].loop /\ s.pending = NoCall
              /\ s.phase = "FINAL_PENDING" \/ s.phase = "READY"
              /\ s.phase = "FINAL_PENDING" => rs[w].pending.tool \in ProposalTools
<1> DEFINE t == [rs[w] EXCEPT !.calls = @ + 1, !.pending = NoCall]
           f == [t EXCEPT !.final = TRUE, !.phase = "FINAL_PENDING"]
           r == [t EXCEPT !.phase = "READY"]
<1>1. /\ rs[w] \in RuntimeState /\ rs[w].phase = "TOOL_PENDING" /\ ~rs[w].final
      /\ rs[w].calls < MaxToolCalls
  BY TruthFacts DEF PcAt, Shape, CallLabels, LedgerLabels, RuntimeState
<1>2. t \in RuntimeState /\ t.loop = rs[w].loop /\ t.pending = NoCall /\ ~t.final
  <2>1. rs[w].calls + 1 \in 0..MaxToolCalls
    BY <1>1, BudgetAssumption DEF RuntimeState
  <2> QED BY <1>1, <2>1 DEF RuntimeState
<1>3. \/ Move(w, "afterTool", f) /\ rs[w].pending.tool \in ProposalTools
      \/ Move(w, "afterTool", r) \/ Move(w, "afterStall", r)
  BY DEF ToolDone, Goto, Become, Move
<1> HIDE DEF t
<1>4. /\ f \in RuntimeState /\ f.loop = t.loop /\ f.pending = NoCall /\ f.phase = "FINAL_PENDING"
      /\ r \in RuntimeState /\ r.loop = t.loop /\ r.pending = NoCall /\ r.phase = "READY"
      /\ ~r.final
  BY <1>2 DEF RuntimeState, Phases
<1> HIDE DEF f, r
<1>5. ShapeAt("afterTool", f) /\ ShapeAt("afterTool", r) /\ ShapeAt("afterStall", r)
  BY <1>4 DEF ShapeAt, Shape
<1> QED BY <1>2, <1>3, <1>4, <1>5

\* A tool call that is done without a write: a read, or a replayed success.
LEMMA ToolDoneTruth ==
    ASSUME RunInv, TruthInv, NEW w \in Workers, pc[w] \in CallLabels, ToolDone(w),
           UNCHANGED <<leaseVars, rows>>,
           Newest(w) /\ rs[w].pending.tool \in ProposalTools =>
              \A k \in Keys : ledger[k] # NoRow => ledger[k].status = "SUCCEEDED"
    PROVE  TruthInv'
<1>1. PICK l \in {"afterTool", "afterStall"}, s \in RuntimeState :
         /\ Move(w, l, s) /\ ShapeAt(l, s)
         /\ s.loop = rs[w].loop /\ s.pending = NoCall
         /\ s.phase = "FINAL_PENDING" \/ s.phase = "READY"
         /\ s.phase = "FINAL_PENDING" => rs[w].pending.tool \in ProposalTools
  BY ToolDoneShape
<1>2. Newest(w) => TruthAt(l, s)
  BY <1>1 DEF TruthAt, Truthful, Concluding, SavedAt, CallLabels, LedgerLabels
<1>3. pc[w] # "release"
  BY DEF CallLabels, LedgerLabels
<1> QED BY <1>1, <1>2, <1>3, QuietTruth DEF rows

\* The newest attempt inside a proposal tool: the newest checkpoint holds its
\* pending call, and no entry but its own exists.
LEMMA CallFacts ==
    ASSUME RunInv, TruthInv, NEW w \in Workers, Newest(w),
           pc[w] \in {"begin"} \cup LedgerLabels
    PROVE  /\ rs[w].phase = "TOOL_PENDING" /\ rs[w].pending \in Call /\ rs[w].pending # NoCall
           /\ KeyOf(rs[w]) \in Keys /\ Key(w) = KeyOf(rs[w])
           /\ Truthful(rs[w]) /\ pc[w] # "release"
           /\ \A k \in Keys : ledger[k] # NoRow => k = Key(w)
           /\ \A n \in Steps : ckpts[n] # NoRow /\ NoneAbove(n) =>
                 ckpts[n].state.pending = rs[w].pending /\ ~Concluding(ckpts[n].state)
<1>1. /\ rs[w].phase = "TOOL_PENDING" /\ rs[w].pending \in Call /\ rs[w].pending # NoCall
      /\ KeyOf(rs[w]) \in Keys /\ Key(w) = KeyOf(rs[w]) /\ rs[w] \in RuntimeState
      /\ Truthful(rs[w]) /\ SavedAt(pc[w], rs[w]) /\ pc[w] # "release"
      /\ RunAt(pc[w], rs[w])
  BY AttemptFacts, TruthFacts, ToolAssumption
     DEF RunInv, PcAt, StateOK, TruthAt, CallLabels, LedgerLabels
<1>2. \A k \in Keys : ledger[k] # NoRow => k = Key(w)
  <2> SUFFICES ASSUME NEW k \in Keys, ledger[k] # NoRow PROVE k = KeyOf(rs[w])
    BY <1>1
  <2>1. Bound(rs[w], k)
    BY <1>1 DEF RunAt, BoundToLedger, LedgerLabels
  <2> QED BY <2>1, <1>1 DEF Bound, KeyOf, Keys
<1>3. ASSUME NEW n \in Steps, ckpts[n] # NoRow, NoneAbove(n)
      PROVE  ckpts[n].state.pending = rs[w].pending /\ Shape(ckpts[n].state)
  <2>1. ckpts[rs[w].loop] # NoRow /\ ckpts[rs[w].loop].state.pending = rs[w].pending
    BY <1>1 DEF SavedAt, CallLabels
  <2>2. n = rs[w].loop
    <3>1. NoneAbove(rs[w].loop) /\ rs[w].loop \in Steps
      BY <1>1 DEF RunAt, LedgerLabels, RuntimeState
    <3> QED BY <2>1, <1>3, <3>1, BudgetAssumption DEF NoneAbove, Steps
  <2> QED BY <2>1, <2>2, <1>3 DEF TruthInv, ShapeOK
<1> QED BY <1>1, <1>2, <1>3 DEF Shape, Concluding

\* A ledger call that sets the status of w's entry.
LEMMA SetLedgerTruth ==
    ASSUME RunInv, TruthInv, NEW w \in Workers, NEW l, NEW s,
           NEW status \in {"STARTED", "SUCCEEDED", "FAILED", "UNKNOWN"},
           pc[w] \in LedgerLabels, SetLedger(w, status), Move(w, l, s),
           UNCHANGED <<leaseVars, ckpts, proposals, steps>>,
           ShapeAt(l, s), s.loop = rs[w].loop, s.pending \in {NoCall, rs[w].pending},
           Concluding(s) => status = "SUCCEEDED",
           l \in {"tool"} \cup CallLabels => s.pending = rs[w].pending,
           l \notin {"apply", "finalize"},
           status = "SUCCEEDED" => proposals[Key(w)] # NoRow
    PROVE  TruthInv'
<1>1. Newest(w) /\ pc[w] # "release"
  BY TruthFacts DEF SetLedger, LedgerLabels
<1>2. /\ Key(w) = KeyOf(rs[w]) /\ Key(w) \in Keys /\ Truthful(rs[w])
      /\ \A k \in Keys : ledger[k] # NoRow => k = Key(w)
      /\ \A n \in Steps : ckpts[n] # NoRow /\ NoneAbove(n) => ~Concluding(ckpts[n].state)
  BY <1>1, CallFacts
<1>3. /\ ledger \in [Keys -> LedgerRow \cup {NoRow}] /\ ledger[Key(w)] # NoRow
      /\ \A k \in Keys : proposals[k] # NoRow => proposals[k].arg = ledger[k].arg
  BY <1>2, TruthFacts DEF RunInv, WorkInv, RunTypeOK, PcAt, TruthInv, EffectsOK
<1>4. /\ \A k \in Keys : ledger'[k] # NoRow => k = Key(w) /\ ledger[k] # NoRow
      /\ ledger'[Key(w)].arg = ledger[Key(w)].arg
      /\ ledger'[Key(w)].status = status
      /\ \A k \in Keys : k # Key(w) => ledger'[k] = ledger[k]
  BY <1>2, <1>3 DEF SetLedger, LedgerRow
<1>5. ASSUME NEW t, Truthful(t), ~Concluding(t)
      PROVE  Truthful(t)'
  BY <1>4, <1>5 DEF Truthful, Concluding
<1>6. Truthful(s)'
  BY <1>2, <1>4 DEF Truthful, Concluding
<1>7. ShapeAt(l, s)'
  BY DEF ShapeAt
<1>8. SavedAt(l, s)'
  BY <1>1, TruthFacts DEF TruthAt, SavedAt, LedgerLabels, CallLabels
<1>9. \A n \in Steps : ckpts'[n] # NoRow =>
         Shape(ckpts'[n].state) /\ (NoneAbove(n)' => Truthful(ckpts[n].state)')
  <2> SUFFICES ASSUME NEW n \in Steps, ckpts[n] # NoRow
               PROVE  Shape(ckpts[n].state) /\ (NoneAbove(n) => Truthful(ckpts[n].state)')
    BY DEF NoneAbove
  <2>1. Shape(ckpts[n].state) /\ (NoneAbove(n) => Truthful(ckpts[n].state))
    BY DEF TruthInv, ShapeOK, NewestOK
  <2> QED BY <2>1, <1>2, <1>5
<1>10. EffectsOK'
  BY <1>3, <1>4 DEF EffectsOK
<1>11. TraceExplainsLedger'
  BY <1>4 DEF TruthInv, TraceExplainsLedger
<1>12. TruthAt(l, s)'
  BY <1>6, <1>8 DEF TruthAt
<1> QED BY <1>1, <1>7, <1>9, <1>10, <1>11, <1>12, FencedTruth

\* begin() enters the arguments of the call that was saved and recorded.
LEMMA BeginNewTruth ==
    ASSUME RunInv, TruthInv, NEW w \in Workers, BeginNew(w)
    PROVE  TruthInv'
<1> DEFINE row == [arg |-> rs[w].pending.arg, status |-> "STARTED"]
<1>1. /\ Newest(w) /\ pc[w] = "begin" /\ Move(w, "handler", rs[w])
      /\ UNCHANGED <<leaseVars, rs, ckpts, proposals, steps>>
      /\ ledger[Key(w)] = NoRow /\ ledger' = [ledger EXCEPT ![Key(w)] = row]
      /\ ledger \in [Keys -> LedgerRow \cup {NoRow}]
      /\ \A k \in Keys : proposals[k] # NoRow => ledger[k] # NoRow
  BY TruthFacts DEF BeginNew, Goto, Move, RunInv, WorkInv, RunTypeOK, ProposalOK
<1>2. /\ rs[w].phase = "TOOL_PENDING" /\ rs[w].pending # NoCall
      /\ Key(w) = KeyOf(rs[w]) /\ Key(w) \in Keys /\ Truthful(rs[w])
      /\ \A k \in Keys : ledger[k] # NoRow => k = Key(w)
      /\ \A n \in Steps : ckpts[n] # NoRow /\ NoneAbove(n) =>
            ckpts[n].state.pending = rs[w].pending /\ ~Concluding(ckpts[n].state)
  BY <1>1, CallFacts
<1>3. /\ \A k \in Keys : ledger'[k] # NoRow => k = Key(w)
      /\ ledger'[Key(w)].arg = rs[w].pending.arg /\ ledger'[Key(w)].status = "STARTED"
  BY <1>1, <1>2
<1> HIDE DEF row
<1>4. ASSUME NEW t, Truthful(t), ~Concluding(t), t.pending = rs[w].pending
      PROVE  Truthful(t)'
  BY <1>1, <1>3, <1>4 DEF Truthful, Concluding
<1>5. TruthAt("handler", rs[w])'
  <2>1. Truthful(rs[w])'
    BY <1>1, <1>2, <1>4 DEF Concluding
  <2>2. SavedAt("handler", rs[w])'
    BY <1>1, TruthFacts DEF TruthAt, SavedAt, LedgerLabels, CallLabels
  <2> QED BY <2>1, <2>2 DEF TruthAt
<1>6. ShapeAt("handler", rs[w])'
  BY <1>1, TruthFacts DEF ShapeAt
<1>7. \A n \in Steps : ckpts'[n] # NoRow =>
         Shape(ckpts'[n].state) /\ (NoneAbove(n)' => Truthful(ckpts[n].state)')
  <2> SUFFICES ASSUME NEW n \in Steps, ckpts[n] # NoRow
               PROVE  Shape(ckpts[n].state) /\ (NoneAbove(n) => Truthful(ckpts[n].state)')
    BY <1>1 DEF NoneAbove
  <2>1. Shape(ckpts[n].state) /\ (NoneAbove(n) => Truthful(ckpts[n].state))
    BY DEF TruthInv, ShapeOK, NewestOK
  <2> QED BY <2>1, <1>1, <1>2, <1>4
<1>8. \A k \in Keys : proposals[k] = NoRow
  BY <1>1, <1>2
<1>9. EffectsOK'
  BY <1>1, <1>3, <1>8 DEF EffectsOK
<1>10. TraceExplainsLedger'
  BY <1>1, <1>2, <1>3 DEF TraceExplainsLedger, Truthful, Concluding, KeyOf
<1>11. pc[w] # "release"
  BY <1>1
<1> QED BY <1>1, <1>5, <1>6, <1>7, <1>8, <1>9, <1>10, <1>11, FencedTruth

\* propose() stores the arguments the ledger has.
LEMMA HandlerCommitsTruth ==
    ASSUME RunInv, TruthInv, NEW w \in Workers, HandlerCommits(w)
    PROVE  TruthInv'
<1>1. /\ Newest(w) /\ pc[w] = "handler" /\ pc[w] \in LedgerLabels
      /\ UNCHANGED <<leaseVars, rs, ckpts, ledger, steps>>
      /\ proposals \in [Keys -> Proposal \cup {NoRow}]
      /\ ledger[KeyOf(rs[w])] # NoRow
  BY TruthFacts DEF HandlerCommits, LedgerLabels, PcAt, RunInv, WorkInv, RunTypeOK
<1>2. PICK l \in {"succeed", "unknown", "fail"} : Goto(w, l)
  BY DEF HandlerCommits
<1>3. Move(w, l, rs[w])
  BY <1>1, <1>2 DEF Goto, Move, RunInv, WorkInv, RunTypeOK
<1>4. /\ rs[w].pending \in Call /\ rs[w].pending # NoCall
      /\ Key(w) = KeyOf(rs[w]) /\ Key(w) \in Keys /\ Truthful(rs[w])
      /\ \A k \in Keys : ledger[k] # NoRow => k = Key(w)
  BY <1>1, CallFacts
<1>5. /\ \A k \in Keys : proposals[k] # NoRow => proposals'[k] # NoRow
      /\ proposals'[Key(w)] # NoRow /\ proposals'[Key(w)].arg = ledger[Key(w)].arg
      /\ \A k \in Keys : k # Key(w) => proposals'[k] = proposals[k]
  <2>1. CASE proposals[Key(w)] # NoRow
    BY <2>1, <1>4 DEF HandlerCommits, InsertProposal, TruthInv, EffectsOK
  <2>2. CASE proposals[Key(w)] = NoRow
    <3> DEFINE p == [arg |-> rs[w].pending.arg, adjusted |-> 0,
                     status |-> IF rs[w].pending.tool \in MinorTools
                                THEN "PENDING" ELSE "AWAITING_CONFIRMATION"]
    <3>1. p \in Proposal /\ p.arg = rs[w].pending.arg
      BY <1>4 DEF Proposal, Call
    <3>2. proposals' = [proposals EXCEPT ![Key(w)] = p]
      BY <2>2 DEF HandlerCommits, InsertProposal, CreateProposal
    <3>3. rs[w].pending.arg = ledger[Key(w)].arg
      BY <1>1, <1>4 DEF Truthful, Concluding
    <3> HIDE DEF p
    <3> QED BY <3>1, <3>2, <3>3, <1>1, <1>4, ToolAssumption
  <2> QED BY <2>1, <2>2
<1>6. ShapeAt(l, rs[w])'
  BY <1>1, <1>4, <1>5, TruthFacts DEF ShapeAt
<1>7. TruthAt(l, rs[w])'
  BY <1>1, TruthFacts DEF TruthAt, Truthful, Concluding, SavedAt, LedgerLabels, CallLabels
<1>8. \A n \in Steps : ckpts'[n] # NoRow =>
         Shape(ckpts'[n].state) /\ (NoneAbove(n)' => Truthful(ckpts[n].state)')
  BY <1>1 DEF TruthInv, ShapeOK, NewestOK, NoneAbove, Truthful, Concluding
<1>9. EffectsOK'
  BY <1>1, <1>4, <1>5 DEF EffectsOK, TruthInv
<1>10. TraceExplainsLedger'
  BY <1>1 DEF TraceExplainsLedger, TruthInv
<1>11. pc[w] # "release"
  BY <1>1
<1> QED BY <1>1, <1>3, <1>5, <1>6, <1>7, <1>8, <1>9, <1>10, <1>11, FencedTruth

\* Every step of ToolExecutor.execute keeps the ledger truthful.
LEMMA ToolStepTruth ==
    ASSUME RunInv, TruthInv, NEW w \in Workers, ToolStep(w)
    PROVE  TruthInv'
<1> USE DEF rows
<1>0. /\ pc[w] \in Labels /\ rs[w] \in RuntimeState /\ PcAt(pc[w], rs[w])
      /\ ShapeAt(pc[w], rs[w]) /\ Shape(rs[w]) /\ rs \in [Workers -> RuntimeState]
      /\ {"RETRYABLE", "OTHER"} \subseteq Errors /\ "FAILED" \in Reasons \ {"COMPLETED"}
  BY TruthFacts DEF Errors, Reasons, RunInv, WorkInv, RunTypeOK
<1>1. CASE ReadSucceeds(w)
  <2>1. /\ pc[w] \in CallLabels /\ ToolDone(w) /\ UNCHANGED <<leaseVars, rows>>
        /\ rs[w].pending.tool \notin ProposalTools
    BY <1>0, <1>1 DEF ReadSucceeds, CallLabels, ShapeAt
  <2> QED BY <2>1, ToolDoneTruth
<1>2. CASE ReadFails(w)
  <2>1. PICK e \in {"RETRYABLE", "OTHER"} : Terminating(w, "FAILED", e)
    BY <1>2 DEF ReadFails
  <2>2. pc[w] = "read" /\ UNCHANGED <<leaseVars, rows>>
    BY <1>2 DEF ReadFails
  <2> QED BY <1>0, <2>1, <2>2, TerminatingTruth
<1>3. CASE BeginNew(w)
  BY <1>3, BeginNewTruth
<1>4. CASE BeginExisting(w)
  <2>1. /\ pc[w] = "begin" /\ pc[w] \in CallLabels /\ UNCHANGED <<leaseVars, rows>>
        /\ Newest(w)
    BY <1>4, TruthFacts DEF BeginExisting, CallLabels
  <2>2. CASE Terminating(w, "FAILED", "OTHER")
    BY <1>0, <2>1, <2>2, TerminatingTruth
  <2>3. CASE ToolDone(w) /\ ledger[Key(w)].status = "SUCCEEDED"
    <3>1. \A k \in Keys : ledger[k] # NoRow => k = Key(w)
      BY <2>1, CallFacts
    <3> QED BY <2>1, <2>3, <3>1, ToolDoneTruth
  <2>4. CASE Goto(w, "reconcile") /\ UNCHANGED rs
    <3>1. ShapeAt("reconcile", rs[w])
      BY <1>0 DEF ShapeAt
    <3> QED BY <2>1, <2>4, <3>1, GotoTruth
  <2> QED BY <1>4, <2>2, <2>3, <2>4 DEF BeginExisting
<1>5. CASE \/ Reconcile(w) \/ HandlerTransient(w) \/ HandlerRefuses(w)
           \/ SucceedLost(w) \/ ReconcileFound(w) \/ RetryTool(w)
  <2>1. PICK l \in LedgerLabels : Goto(w, l) /\ (l \in {"succeed", "succeedReplay"} =>
                                                  proposals[Key(w)] # NoRow)
    BY <1>5 DEF Reconcile, HandlerTransient, HandlerRefuses, SucceedLost,
       ReconcileFound, RetryTool, LedgerLabels
  <2>2. pc[w] \in LedgerLabels /\ UNCHANGED <<leaseVars, rs, rows>>
    BY <1>5 DEF Reconcile, HandlerTransient, HandlerRefuses, SucceedLost,
       ReconcileFound, RetryTool, LedgerLabels
  <2>3. ShapeAt(l, rs[w])
    <3>1. Key(w) = KeyOf(rs[w])
      BY DEF Key, KeyOf
    <3> QED BY <1>0, <2>1, <3>1 DEF ShapeAt, LedgerLabels
  <2>4. /\ pc[w] \notin {"idle", "load", "release"} /\ pc[w] \in CallLabels
        /\ l \notin {"apply", "finalize"}
    BY <2>1, <2>2 DEF LedgerLabels, CallLabels
  <2> QED BY <2>1, <2>2, <2>3, <2>4, GotoTruth
<1>6. CASE MarkStarted(w) \/ Unknown(w)
  <2>1. PICK l \in {"handler", "reconcileRetry"}, status \in {"STARTED", "UNKNOWN"} :
           Goto(w, l) /\ SetLedger(w, status)
    BY <1>6 DEF MarkStarted, Unknown
  <2>2. /\ pc[w] \in LedgerLabels /\ Move(w, l, rs[w])
        /\ UNCHANGED <<leaseVars, ckpts, proposals, steps>>
    BY <1>0, <1>6, <2>1 DEF MarkStarted, Unknown, LedgerLabels, Goto, Move
  <2>3. /\ ShapeAt(l, rs[w]) /\ rs[w].phase = "TOOL_PENDING"
    BY <1>0, <2>2 DEF ShapeAt, PcAt, LedgerLabels, CallLabels
  <2> QED BY <2>1, <2>2, <2>3, SetLedgerTruth DEF Concluding
<1>7. CASE HandlerCommits(w)
  BY <1>7, HandlerCommitsTruth
<1>8. CASE Succeed(w) \/ SucceedReplay(w)
  <2>1. /\ pc[w] \in LedgerLabels /\ pc[w] \in {"succeed", "succeedReplay"}
        /\ ToolDone(w) /\ SetLedger(w, "SUCCEEDED")
        /\ UNCHANGED <<leaseVars, ckpts, proposals, steps>>
    BY <1>8 DEF Succeed, SucceedReplay, LedgerLabels
  <2>2. PICK l \in {"afterTool", "afterStall"}, s \in RuntimeState :
           /\ Move(w, l, s) /\ ShapeAt(l, s)
           /\ s.loop = rs[w].loop /\ s.pending = NoCall
           /\ s.phase = "FINAL_PENDING" \/ s.phase = "READY"
           /\ s.phase = "FINAL_PENDING" => rs[w].pending.tool \in ProposalTools
    BY <2>1, ToolDoneShape DEF CallLabels
  <2>3. proposals[Key(w)] # NoRow
    BY <1>0, <2>1 DEF ShapeAt, Key, KeyOf
  <2> QED BY <2>1, <2>2, <2>3, SetLedgerTruth DEF CallLabels, LedgerLabels, Concluding
<1>9. CASE GiveUpTool(w)
  BY <1>0, <1>9, TerminatingTruth DEF GiveUpTool
<1>10. CASE Fail(w)
  <2> DEFINE s == Ended(rs[w], "FAILED", "OTHER")
  <2>1. /\ pc[w] \in LedgerLabels /\ Move(w, "saveEnd", s) /\ SetLedger(w, "FAILED")
        /\ UNCHANGED <<leaseVars, ckpts, proposals, steps>>
    BY <1>10 DEF Fail, LedgerLabels, Goto, Become, Terminating, Move
  <2>2. /\ ShapeAt("saveEnd", s) /\ s.loop = rs[w].loop /\ s.pending = rs[w].pending
        /\ s.phase = "TERMINATED" /\ s.term = "FAILED"
    BY <1>0, EndedShape DEF Ended, RuntimeState
  <2> HIDE DEF s
  <2> QED BY <2>1, <2>2, SetLedgerTruth DEF CallLabels, LedgerLabels, Concluding
<1>11. CASE LedgerStale(w)
  <2>1. Goto(w, "release") /\ UNCHANGED <<leaseVars, rs, rows>>
    BY <1>11 DEF LedgerStale, Stale
  <2>2. pc[w] \notin {"idle", "load", "release"}
    BY <1>11 DEF LedgerStale
  <2>3. ShapeAt("release", rs[w])
    BY <1>0 DEF ShapeAt
  <2> QED BY <2>1, <2>2, <2>3, GotoTruth DEF CallLabels, LedgerLabels
<1> QED BY <1>1, <1>2, <1>3, <1>4, <1>5, <1>6, <1>7, <1>8, <1>9, <1>10, <1>11 DEF ToolStep

-----------------------------------------------------------------------------
\* load_latest: the newest checkpoint is resumed as it was saved, or prepared for
\* a retry of what was pending.
LEMMA LoadTruth ==
    ASSUME RunInv, TruthInv, NEW w \in Workers, LoadFresh(w) \/ LoadResume(w)
    PROVE  TruthInv'
<1> USE DEF rows
<1>1. CASE LoadFresh(w)
  <2>1. Move(w, "top", rs[w]) /\ UNCHANGED <<leaseVars, ckpts, ledger, proposals, steps>>
    BY <1>1 DEF LoadFresh, Goto, Move, RunInv, WorkInv, RunTypeOK
  <2>2. rs[w] = Fresh
    BY <1>1, TruthFacts DEF LoadFresh, PcAt
  <2>3. ShapeAt("top", rs[w]) /\ TruthAt("top", rs[w])
    BY <2>2 DEF ShapeAt, Shape, TruthAt, Truthful, Concluding, SavedAt, Fresh, CallLabels,
       LedgerLabels
  <2>4. pc[w] # "release"
    BY <1>1 DEF LoadFresh
  <2> QED BY <2>1, <2>3, <2>4, QuietTruth
<1>2. CASE LoadResume(w)
  <2> DEFINE n == Latest
             c == ckpts[n].state
             s == Prepare(c)
  <2>1. /\ Move(w, EntryPoint(s), s) /\ pc[w] # "release"
        /\ UNCHANGED <<leaseVars, ckpts, ledger, proposals, steps>>
    BY <1>2 DEF LoadResume, Goto, Become, Move
  <2>2. n \in Steps /\ ckpts[n] # NoRow /\ NoneAbove(n)
    BY <1>2, LatestFacts, BudgetAssumption
       DEF RunInv, WorkInv, LoadResume, Saved, NoneAbove, Steps
  <2> HIDE DEF n
  <2>3. c \in RuntimeState /\ c.loop = n /\ Shape(c) /\ Truthful(c)
    BY <2>2 DEF RunInv, WorkInv, RunTypeOK, CkptOK, Checkpoint, TruthInv, ShapeOK, NewestOK
  <2> HIDE DEF c
  <2>4. /\ s \in RuntimeState /\ s.loop = n /\ s.pending = c.pending
        /\ \/ s = c /\ ~(c.phase = "TERMINATED" /\ c.err = "RETRYABLE")
           \/ /\ s.phase = IF c.pending # NoCall THEN "TOOL_PENDING" ELSE "READY"
              /\ s.final = FALSE
    <3>1. CASE c.phase = "TERMINATED" /\ c.err = "RETRYABLE"
      BY <2>3, <3>1 DEF Prepare, RuntimeState, Phases, Reasons, Errors
    <3>2. CASE ~(c.phase = "TERMINATED" /\ c.err = "RETRYABLE")
      BY <2>3, <3>2 DEF Prepare
    <3> QED BY <3>1, <3>2
  <2> HIDE DEF s
  <2>5. /\ s.phase = "TERMINATED" /\ s.term = "COMPLETED" => EntryPoint(s) = "apply"
        /\ s.phase = "TERMINATED" /\ s.term # "COMPLETED" => EntryPoint(s) = "finalize"
        /\ s.phase = "FINAL_PENDING" => EntryPoint(s) = "complete"
        /\ s.phase = "TOOL_PENDING" => EntryPoint(s) = "tool"
        /\ s.phase = "READY" => EntryPoint(s) = "top"
        /\ s.phase \in Phases
    BY <2>4 DEF EntryPoint, RuntimeState, Phases
  <2>6. Shape(s) /\ Truthful(s)
    BY <2>3, <2>4 DEF Shape, Truthful, Concluding
  <2>7. ShapeAt(EntryPoint(s), s)
    BY <2>5, <2>6 DEF ShapeAt, Phases
  <2>8. SavedAt(EntryPoint(s), s)
    <3>1. ckpts[s.loop] # NoRow /\ ckpts[s.loop].state = c
      BY <2>2, <2>4 DEF c
    <3>2. EntryPoint(s) \in {"apply", "finalize"} => s = c
      BY <2>4, <2>5 DEF Phases
    <3>3. EntryPoint(s) = "finalize" => s.term # "COMPLETED"
      BY <2>5 DEF Phases
    <3>4. EntryPoint(s) \notin CallLabels
      BY <2>5 DEF Phases, CallLabels, LedgerLabels
    <3> QED BY <2>4, <3>1, <3>2, <3>3, <3>4 DEF SavedAt
  <2> QED BY <2>1, <2>6, <2>7, <2>8, QuietTruth DEF TruthAt
<1> QED BY <1>1, <1>2

\* The steps of the loop that write nothing.
LEMMA LoopTruth ==
    ASSUME RunInv, TruthInv, NEW w \in Workers,
           \/ CheckActive(w) \/ BudgetTrips(w) \/ CallModel(w) \/ EnterTool(w)
           \/ InternalError(w) \/ Abort(w) \/ Fenced(w)
    PROVE  TruthInv'
<1> USE DEF rows
<1>0. /\ rs[w] \in RuntimeState /\ ShapeAt(pc[w], rs[w]) /\ Shape(rs[w])
      /\ UNCHANGED <<leaseVars, rows>>
      /\ "OTHER" \in Errors /\ {"FAILED", "CANCELLED"} \subseteq Reasons \ {"COMPLETED"}
      /\ pc[w] \notin {"idle", "release"}
  BY TruthFacts DEF CheckActive, BudgetTrips, CallModel, EnterTool, InternalError,
     Abort, Fenced, Cancelled, LostLease, Stale, RunnerLabels, Labels, Errors, Reasons
<1>1. CASE \E reason \in {"FAILED", "CANCELLED"} : Terminating(w, reason, "OTHER") /\ pc[w] # "load"
  BY <1>0, <1>1, TerminatingTruth
<1>2. CASE Goto(w, "release") /\ UNCHANGED rs
  <2>1. Move(w, "release", rs[w])
    BY <1>2 DEF Goto, Move, RunInv, WorkInv, RunTypeOK
  <2>2. ShapeAt("release", rs[w]) /\ TruthAt("release", rs[w])
    BY <1>0 DEF ShapeAt, TruthAt
  <2> QED BY <1>0, <2>1, <2>2, QuietTruth
<1>3. CASE CallModel(w)
  <2>1. /\ pc[w] = "top" /\ Goto(w, "model") /\ UNCHANGED rs /\ ShapeAt("model", rs[w])
    BY <1>0, <1>3 DEF CallModel, ShapeAt
  <2> QED BY <1>0, <2>1, GotoTruth DEF CallLabels, LedgerLabels
<1>4. CASE EnterTool(w) /\ ~Terminating(w, "FAILED", "OTHER")
  <2>1. /\ pc[w] = "tool" /\ UNCHANGED rs
        /\ \/ Goto(w, "begin")
           \/ Goto(w, "read") /\ rs[w].pending.tool \notin ProposalTools
    BY <1>4 DEF EnterTool
  <2>2. /\ ShapeAt("begin", rs[w])
        /\ rs[w].pending.tool \notin ProposalTools => ShapeAt("read", rs[w])
    BY <1>0 DEF ShapeAt
  <2> QED BY <1>0, <2>1, <2>2, GotoTruth
<1> QED
  BY <1>1, <1>2, <1>3, <1>4 DEF CheckActive, BudgetTrips, EnterTool, InternalError, Abort,
     Fenced, Cancelled, LostLease, Stale, RunnerLabels

-----------------------------------------------------------------------------
\* A recorded decision: the newest checkpoint and the ledger entry belong to
\* earlier steps, so the new row disturbs neither.
LEMMA RecordTruth ==
    ASSUME RunInv, TruthInv, NEW w \in Workers,
           NEW l \in {"saveFinal", "saveStall", "saveTool", "saveEnd"},
           NEW s, NEW n, NEW t, pc[w] = "model", n = rs[w].loop + 1,
           RecordStep(w, n, t), Move(w, l, s),
           UNCHANGED <<leaseVars, ckpts, ledger, proposals>>,
           ShapeAt(l, s), s.loop = n, s.pending # NoCall => s.pending.tool = t,
           t \in Tools \cup {NoCall}
    PROVE  TruthInv'
<1>1. /\ Newest(w) /\ pc[w] # "release" /\ NoneAbove(rs[w].loop)
      /\ rs[w] \in RuntimeState /\ rs[w].loop < MaxSteps
      /\ \A k \in Keys : ledger[k] = NoRow
      /\ steps \in [Steps -> Tools \cup {NoCall, NoRow}]
      /\ \A m \in Steps : ckpts[m] # NoRow => ckpts[m].state.loop = m
  BY TruthFacts DEF RecordStep, RunAt, BoundToLedger, Bound, PcAt, RunInv, WorkInv,
     RunTypeOK, CkptOK
<1>2. /\ n \in Steps /\ rs[w].loop \in Nat
      /\ steps'[n] = t /\ \A m \in Steps : m # n => steps'[m] = steps[m]
  BY <1>1, BudgetAssumption DEF RuntimeState, Steps, RecordStep
<1>3. \A m \in Steps : ckpts[m] # NoRow => m # n
  BY <1>1, <1>2, BudgetAssumption DEF NoneAbove, Steps, RuntimeState
<1>4. \A k \in Keys : ledger'[k] = NoRow
  BY <1>1
<1>5. TruthAt(l, s)'
  BY <1>2, <1>4 DEF TruthAt, Truthful, Concluding, SavedAt, CallLabels, LedgerLabels
<1>6. ShapeAt(l, s)'
  BY DEF ShapeAt
<1>7. \A m \in Steps : ckpts'[m] # NoRow =>
         Shape(ckpts'[m].state) /\ (NoneAbove(m)' => Truthful(ckpts[m].state)')
  <2> SUFFICES ASSUME NEW m \in Steps, ckpts[m] # NoRow
               PROVE  Shape(ckpts[m].state) /\ (NoneAbove(m) => Truthful(ckpts[m].state)')
    BY DEF NoneAbove
  <2>1. Shape(ckpts[m].state) /\ (NoneAbove(m) => Truthful(ckpts[m].state))
    BY DEF TruthInv, ShapeOK, NewestOK
  <2>2. steps'[m] = steps[m] /\ ckpts[m].state.loop = m
    BY <1>1, <1>2, <1>3
  <2> QED BY <2>1, <2>2, <1>4 DEF Truthful, Concluding
<1>8. \A k \in Keys : proposals'[k] = NoRow
  BY <1>1 DEF RunInv, WorkInv, ProposalOK
<1>9. EffectsOK' /\ TraceExplainsLedger'
  BY <1>4, <1>8 DEF EffectsOK, TraceExplainsLedger
<1> QED BY <1>1, <1>5, <1>6, <1>7, <1>9, FencedTruth

\* The decision of the model.
LEMMA DecideTruth ==
    ASSUME RunInv, TruthInv, NEW w \in Workers,
           DecideFinish(w) \/ DecideCall(w) \/ DecideFails(w) \/ DecideOverBudget(w)
    PROVE  TruthInv'
<1> DEFINE n == NextStep(rs[w])
<1> USE DEF rows
<1>1. /\ pc[w] = "model" /\ rs[w] \in RuntimeState /\ rs[w].phase = "READY"
      /\ rs[w].loop < MaxSteps /\ Shape(rs[w])
      /\ UNCHANGED <<leaseVars, ckpts, ledger, proposals>>
      /\ Newest(w) => Truthful(rs[w])
  BY TruthFacts DEF DecideFinish, DecideCall, DecideFails, DecideOverBudget, PcAt, TruthAt
<1>2. /\ n \in RuntimeState /\ n.loop = rs[w].loop + 1 /\ n.phase = "READY"
      /\ n.pending = NoCall /\ ~n.final
  <2>1. rs[w].loop + 1 \in Steps
    BY <1>1, BudgetAssumption DEF RuntimeState, Steps
  <2> QED BY <1>1, <2>1 DEF NextStep, RuntimeState, Shape
<1> HIDE DEF n
<1>3. NoCall \in Tools \cup {NoCall} /\ \A c \in Call : c.tool \in Tools
  BY DEF Call
<1>4. ASSUME NEW e \in Errors
      PROVE  /\ ShapeAt("saveEnd", Ended(n, "FAILED", e))
             /\ Ended(n, "FAILED", e).loop = n.loop /\ Ended(n, "FAILED", e).pending = NoCall
             /\ Truthful(n) => TruthAt("saveEnd", Ended(n, "FAILED", e))
  BY <1>2, EndedShape DEF Ended, RuntimeState, Reasons
<1>5. CASE DecideFinish(w)
  <2> DEFINE s == [n EXCEPT !.final = TRUE, !.phase = "FINAL_PENDING"]
  <2>1. Move(w, "saveFinal", s) /\ RecordStep(w, n.loop, NoCall)
    BY <1>5 DEF DecideFinish, Become, Goto, Move, n
  <2>2. s.loop = n.loop /\ s.phase = "FINAL_PENDING" /\ s.pending = NoCall
    BY <1>2 DEF RuntimeState, Phases
  <2> HIDE DEF s
  <2>3. ShapeAt("saveFinal", s)
    BY <2>2 DEF ShapeAt, Shape
  <2> QED BY <2>1, <2>2, <2>3, <1>1, <1>2, <1>3, RecordTruth
<1>6. CASE DecideCall(w)
  <2>1. PICK c \in Call :
              /\ RecordStep(w, n.loop, c.tool)
              /\ \/ Become(w, n) /\ Goto(w, "saveStall")
                 \/ Become(w, Ended(n, "FAILED", "OTHER")) /\ Goto(w, "saveEnd")
                 \/ /\ Become(w, [n EXCEPT !.pending = c, !.phase = "TOOL_PENDING"])
                    /\ Goto(w, "saveTool")
    BY <1>6 DEF DecideCall, n
  <2>2. CASE Become(w, n) /\ Goto(w, "saveStall")
    <3>1. Move(w, "saveStall", n) /\ ShapeAt("saveStall", n)
      BY <2>2, <1>2 DEF Become, Goto, Move, ShapeAt, Shape
    <3> QED BY <3>1, <2>1, <1>1, <1>2, <1>3, RecordTruth
  <2>3. CASE Become(w, Ended(n, "FAILED", "OTHER")) /\ Goto(w, "saveEnd")
    <3> DEFINE s == Ended(n, "FAILED", "OTHER")
    <3>1. Move(w, "saveEnd", s)
      BY <2>3 DEF Become, Goto, Move
    <3>2. ShapeAt("saveEnd", s) /\ s.loop = n.loop /\ s.pending = NoCall
      BY <1>4 DEF Errors
    <3> HIDE DEF s
    <3> QED BY <3>1, <3>2, <2>1, <1>1, <1>2, <1>3, RecordTruth
  <2>4. CASE /\ Become(w, [n EXCEPT !.pending = c, !.phase = "TOOL_PENDING"])
             /\ Goto(w, "saveTool")
    <3> DEFINE s == [n EXCEPT !.pending = c, !.phase = "TOOL_PENDING"]
    <3>1. Move(w, "saveTool", s)
      BY <2>4 DEF Become, Goto, Move
    <3>2. s.loop = n.loop /\ s.phase = "TOOL_PENDING" /\ s.pending = c /\ ~s.final
      BY <1>2 DEF RuntimeState, Phases
    <3> HIDE DEF s
    <3>3. ShapeAt("saveTool", s)
      BY <3>2 DEF ShapeAt, Shape
    <3> QED BY <3>1, <3>2, <3>3, <2>1, <1>1, <1>2, <1>3, RecordTruth
  <2> QED BY <2>1, <2>2, <2>3, <2>4
<1>7. CASE DecideFails(w)
  <2>1. PICK e \in {"RETRYABLE", "OTHER", "NONE"} : Become(w, Ended(n, "FAILED", e))
    BY <1>7 DEF DecideFails, n
  <2> DEFINE s == Ended(n, "FAILED", e)
  <2>2. Move(w, "saveEnd", s) /\ RecordStep(w, n.loop, NoCall)
    BY <1>7, <2>1 DEF DecideFails, Become, Goto, Move, n
  <2>3. ShapeAt("saveEnd", s) /\ s.loop = n.loop /\ s.pending = NoCall
    BY <1>4 DEF Errors
  <2> HIDE DEF s
  <2> QED BY <2>2, <2>3, <1>1, <1>2, <1>3, RecordTruth
<1>8. CASE DecideOverBudget(w)
  <2> DEFINE s == Ended(n, "FAILED", "OTHER")
  <2>1. Move(w, "saveEnd", s) /\ UNCHANGED steps
    BY <1>8 DEF DecideOverBudget, Become, Goto, Move, n
  <2>2. ShapeAt("saveEnd", s) /\ (Truthful(n) => TruthAt("saveEnd", s))
    BY <1>4 DEF Errors
  <2>3. Truthful(n)
    BY <1>2 DEF Truthful, Concluding
  <2> HIDE DEF s
  <2> QED BY <2>1, <2>2, <2>3, <1>1, QuietTruth
<1> QED BY <1>5, <1>6, <1>7, <1>8

-----------------------------------------------------------------------------
\* A step of w that saves the checkpoint of state c and goes on in state s.
LEMMA SaveTruth ==
    ASSUME RunInv, TruthInv, NEW w \in Workers, NEW l, NEW s, NEW c \in RuntimeState,
           SaveCheckpoint(w, c), Move(w, l, s), pc[w] \notin {"idle", "load", "release"},
           UNCHANGED <<leaseVars, ledger, proposals, steps>>,
           c.loop = rs[w].loop, s.loop = c.loop, Shape(c), Truthful(c),
           ShapeAt(l, s), Truthful(s),
           l \in {"tool"} \cup CallLabels => c.pending = s.pending,
           l \in {"apply", "finalize"} => s = c,
           l = "finalize" => s.term # "COMPLETED"
    PROVE  TruthInv'
<1> DEFINE row == [state |-> c, tok |-> token[w]]
<1>1. /\ Newest(w) /\ pc[w] # "release" /\ NoneAbove(c.loop) /\ c.loop \in Steps
      /\ row \in Checkpoint /\ row # NoRow
      /\ ckpts \in [Steps -> Checkpoint \cup {NoRow}]
  BY TruthFacts, ToolAssumption
     DEF SaveCheckpoint, RunAt, RuntimeState, Checkpoint, RunInv, WorkInv, RunTypeOK,
         LeaseInv, LeaseTypeOK
<1>2. /\ ckpts'[c.loop] = row
      /\ \A n \in Steps : n # c.loop => ckpts'[n] = ckpts[n]
  BY <1>1 DEF SaveCheckpoint
<1> HIDE DEF row
<1>3. ckpts'[c.loop] # NoRow /\ ckpts'[c.loop].state = c
  BY <1>1, <1>2 DEF row
<1>4. TruthAt(l, s)'
  <2>1. Truthful(s)'
    BY DEF Truthful, Concluding
  <2>2. SavedAt(l, s)'
    BY <1>3 DEF SavedAt
  <2> QED BY <2>1, <2>2 DEF TruthAt
<1>5. ShapeAt(l, s)'
  BY DEF ShapeAt
<1>6. ASSUME NEW n \in Steps, ckpts'[n] # NoRow
      PROVE  Shape(ckpts'[n].state) /\ (NoneAbove(n)' => Truthful(ckpts[n].state)')
  <2>1. CASE n = c.loop
    BY <2>1, <1>3 DEF Truthful, Concluding
  <2>2. CASE n # c.loop /\ NoneAbove(n)'
    <3>1. n > c.loop
      BY <2>2, <1>1, <1>3, BudgetAssumption DEF NoneAbove, Steps
    <3> QED BY <3>1, <2>2, <1>1, <1>2, <1>6 DEF NoneAbove
  <2>3. CASE n # c.loop /\ ~NoneAbove(n)'
    BY <2>3, <1>2, <1>6 DEF TruthInv, ShapeOK
  <2> QED BY <2>1, <2>2, <2>3
<1>7. EffectsOK' /\ TraceExplainsLedger'
  BY DEF TruthInv, EffectsOK, TraceExplainsLedger
<1> QED BY <1>1, <1>4, <1>5, <1>6, <1>7, FencedTruth

\* The checkpoints of the loop.
LEMMA CheckpointTruth ==
    ASSUME RunInv, TruthInv, NEW w \in Workers,
           \/ SaveTool(w) \/ SaveFinal(w) \/ SaveStall(w) \/ AfterTool(w)
           \/ AfterStall(w) \/ Complete(w) \/ SaveEnd(w)
    PROVE  TruthInv'
<1>0. /\ rs[w] \in RuntimeState /\ ShapeAt(pc[w], rs[w]) /\ Shape(rs[w]) /\ Truthful(rs[w])
      /\ pc[w] \notin {"idle", "load", "release"}
      /\ UNCHANGED <<leaseVars, ledger, proposals, steps>>
      /\ rs[w].err \in Errors /\ rs \in [Workers -> RuntimeState]
  <2>1. /\ Fence(w) /\ pc[w] \notin {"idle", "load", "release"}
        /\ UNCHANGED <<leaseVars, ledger, proposals, steps>>
    BY DEF SaveTool, SaveFinal, SaveStall, AfterTool, AfterStall, Complete, SaveEnd,
           SaveCheckpoint
  <2>2. Truthful(rs[w])
    BY <2>1, TruthFacts DEF TruthAt
  <2> QED BY <2>1, <2>2, TruthFacts DEF RunInv, WorkInv, RunTypeOK, RuntimeState
<1>1. ASSUME NEW l \in {"tool", "complete", "finalize", "top"},
             SaveCheckpoint(w, rs[w]), Goto(w, l), UNCHANGED rs, ShapeAt(l, rs[w]),
             l = "finalize" => rs[w].term # "COMPLETED"
      PROVE  TruthInv'
  <2>1. Move(w, l, rs[w])
    BY <1>0, <1>1 DEF Goto, Move
  <2> QED BY <1>0, <1>1, <2>1, SaveTruth
<1>2. CASE SaveTool(w)
  <2>1. ShapeAt("tool", rs[w])
    BY <1>0 DEF ShapeAt
  <2> QED BY <1>1, <1>2, <2>1 DEF SaveTool
<1>3. CASE SaveFinal(w)
  <2>1. ShapeAt("complete", rs[w])
    BY <1>0, <1>3 DEF ShapeAt, SaveFinal
  <2> QED BY <1>1, <1>3, <2>1 DEF SaveFinal
<1>4. CASE SaveEnd(w)
  <2>1. ShapeAt("finalize", rs[w]) /\ rs[w].term # "COMPLETED"
    BY <1>0, <1>4 DEF ShapeAt, SaveEnd
  <2> QED BY <1>1, <1>4, <2>1 DEF SaveEnd
<1>5. CASE SaveStall(w) \/ AfterStall(w)
  <2> DEFINE s == Ended(rs[w], "LOOP_STALLED", rs[w].err)
  <2>1. SaveCheckpoint(w, rs[w]) /\ Move(w, "saveEnd", s)
    BY <1>0, <1>5 DEF SaveStall, AfterStall, Terminating, Goto, Become, Move
  <2>2. s.loop = rs[w].loop /\ ShapeAt("saveEnd", s) /\ Truthful(s)
    BY <1>0, EndedShape DEF Ended, RuntimeState, Reasons, TruthAt
  <2> HIDE DEF s
  <2> QED BY <1>0, <2>1, <2>2, SaveTruth DEF CallLabels, LedgerLabels
<1>6. CASE AfterTool(w)
  <2>1. rs[w].final => ShapeAt("complete", rs[w])
    BY <1>0, <1>6 DEF ShapeAt, Shape, AfterTool
  <2>2. ~rs[w].final => ShapeAt("top", rs[w])
    BY <1>0 DEF ShapeAt
  <2> QED BY <1>1, <1>6, <2>1, <2>2 DEF AfterTool
<1>7. CASE Complete(w)
  <2> DEFINE s == Ended(rs[w], "COMPLETED", "NONE")
  <2>1. SaveCheckpoint(w, s) /\ Move(w, "apply", s)
    BY <1>7 DEF Complete, Goto, Become, Move
  <2>2. rs[w].phase = "FINAL_PENDING" /\ rs[w].pending = NoCall
    BY <1>0, <1>7 DEF Complete, ShapeAt, Shape
  <2>3. /\ s \in RuntimeState /\ s.loop = rs[w].loop /\ s.pending = NoCall
        /\ s.phase = "TERMINATED" /\ s.term = "COMPLETED"
    <3>1. s \in RuntimeState
      BY <1>0, EndedFacts DEF Reasons, Errors
    <3> QED BY <1>0, <2>2, <3>1 DEF Ended, RuntimeState
  <2> HIDE DEF s
  <2>4. ShapeAt("apply", s) /\ Shape(s) /\ Truthful(s)
    BY <1>0, <2>2, <2>3 DEF ShapeAt, Shape, Truthful, Concluding
  <2> QED BY <1>0, <2>1, <2>3, <2>4, SaveTruth DEF CallLabels, LedgerLabels
<1> QED BY <1>2, <1>3, <1>4, <1>5, <1>6, <1>7

-----------------------------------------------------------------------------
\* apply_minor_proposals leaves no adjustment behind.
LEMMA ApplyTruth ==
    ASSUME RunInv, TruthInv, NEW w \in Workers, Apply(w)
    PROVE  TruthInv'
<1>1. /\ Newest(w) /\ pc[w] = "apply" /\ Move(w, "finalize", rs[w])
      /\ UNCHANGED <<leaseVars, rs, ckpts, ledger, steps>>
      /\ rs[w] \in RuntimeState /\ ShapeAt("apply", rs[w]) /\ TruthAt("apply", rs[w])
      /\ proposals \in [Keys -> Proposal \cup {NoRow}]
  BY TruthFacts DEF Apply, Goto, Move, RunInv, WorkInv, RunTypeOK
<1>2. PICK S \in SUBSET {k \in Keys : AutoApplicable(k)} :
         proposals' = [k \in Keys |->
           CASE k \in S -> Adjust(proposals[k], "AUTO_COMMITTED")
             [] AutoApplicable(k) /\ k \notin S -> Defer(proposals[k])
             [] OTHER -> proposals[k]]
  BY DEF Apply
<1>3. \A k \in Keys :
         /\ k \in S => proposals'[k] = Adjust(proposals[k], "AUTO_COMMITTED")
         /\ k \notin S /\ AutoApplicable(k) => proposals'[k] = Defer(proposals[k])
         /\ k \notin S /\ ~AutoApplicable(k) => proposals'[k] = proposals[k]
  BY <1>2
<1>4. ASSUME NEW p \in Proposal
      PROVE  /\ Adjust(p, "AUTO_COMMITTED") \in Proposal /\ Defer(p) \in Proposal
             /\ Adjust(p, "AUTO_COMMITTED").arg = p.arg /\ Defer(p).arg = p.arg
             /\ Adjust(p, "AUTO_COMMITTED").status = "AUTO_COMMITTED"
             /\ Defer(p).status = "AWAITING_CONFIRMATION"
  <2>1. p.adjusted + 1 \in Nat
    BY DEF Proposal
  <2> QED BY <2>1 DEF Adjust, Defer, Proposal
<1>5. ASSUME NEW k \in Keys
      PROVE  /\ proposals'[k] # NoRow <=> proposals[k] # NoRow
             /\ proposals[k] # NoRow => proposals'[k].arg = proposals[k].arg
             /\ ~AutoApplicable(k)'
  <2>1. CASE AutoApplicable(k)
    <3>1. proposals[k] \in Proposal
      BY <1>1, <2>1 DEF AutoApplicable
    <3>2. \/ proposals'[k] = Adjust(proposals[k], "AUTO_COMMITTED")
          \/ proposals'[k] = Defer(proposals[k])
      BY <1>3, <2>1
    <3>3. /\ proposals'[k] \in Proposal /\ proposals'[k].arg = proposals[k].arg
          /\ proposals'[k].status \in {"AUTO_COMMITTED", "AWAITING_CONFIRMATION"}
      BY <1>4, <3>1, <3>2
    <3> QED BY <3>1, <3>3, ToolAssumption DEF AutoApplicable
  <2>2. CASE ~AutoApplicable(k)
    <3>1. proposals'[k] = proposals[k]
      BY <1>2, <1>3, <2>2
    <3> QED BY <3>1, <2>2 DEF AutoApplicable
  <2> QED BY <2>1, <2>2
<1>6. ShapeAt("finalize", rs[w])'
  BY <1>1 DEF ShapeAt
<1>7. TruthAt("finalize", rs[w])'
  BY <1>1, <1>5 DEF TruthAt, Truthful, Concluding, SavedAt, CallLabels, LedgerLabels
<1>8. \A n \in Steps : ckpts'[n] # NoRow =>
         Shape(ckpts'[n].state) /\ (NoneAbove(n)' => Truthful(ckpts[n].state)')
  BY <1>1 DEF TruthInv, ShapeOK, NewestOK, NoneAbove, Truthful, Concluding
<1>9. EffectsOK' /\ TraceExplainsLedger'
  BY <1>1, <1>5 DEF EffectsOK, TraceExplainsLedger, TruthInv
<1>10. pc[w] # "release"
  BY <1>1
<1> QED BY <1>1, <1>5, <1>6, <1>7, <1>8, <1>9, <1>10, FencedTruth

\* The student decides: the proposal keeps its arguments and is no longer to be
\* applied by the run.
LEMMA StudentTruth ==
    ASSUME RunInv, TruthInv, NEW k0 \in Keys, Decide(k0)
    PROVE  TruthInv'
<1>1. /\ proposals[k0] \in Proposal /\ proposals \in [Keys -> Proposal \cup {NoRow}]
      /\ UNCHANGED <<leaseVars, pc, rs, ckpts, ledger, steps>>
  BY DEF Decide, Decidable, RunInv, WorkInv, RunTypeOK
<1>2. PICK q \in Proposal : /\ proposals' = [proposals EXCEPT ![k0] = q]
                            /\ q.arg = proposals[k0].arg /\ q.status # "PENDING"
  <2>1. CASE proposals' = [proposals EXCEPT ![k0].status = "CLOSED"]
    <3> DEFINE q == [proposals[k0] EXCEPT !.status = "CLOSED"]
    <3>1. q \in Proposal /\ q.arg = proposals[k0].arg /\ q.status = "CLOSED"
      BY <1>1 DEF Proposal
    <3>2. proposals' = [proposals EXCEPT ![k0] = q]
      BY <2>1
    <3> HIDE DEF q
    <3> QED BY <3>1, <3>2
  <2>2. CASE proposals' = [proposals EXCEPT ![k0] = Adjust(@, "APPLIED")]
    <3> DEFINE q == Adjust(proposals[k0], "APPLIED")
    <3>1. proposals[k0].adjusted + 1 \in Nat
      BY <1>1 DEF Proposal
    <3>2. q \in Proposal /\ q.arg = proposals[k0].arg /\ q.status = "APPLIED"
      BY <1>1, <3>1 DEF Proposal, Adjust
    <3>3. proposals' = [proposals EXCEPT ![k0] = q]
      BY <2>2
    <3> HIDE DEF q
    <3> QED BY <3>2, <3>3
  <2> QED BY <2>1, <2>2 DEF Decide
<1>3. \A k \in Keys : /\ proposals'[k] # NoRow <=> proposals[k] # NoRow
                      /\ proposals[k] # NoRow => proposals'[k].arg = proposals[k].arg
                      /\ AutoApplicable(k)' => AutoApplicable(k)
  BY <1>1, <1>2, ToolAssumption DEF AutoApplicable
<1>4. ShapeOK'
  <2>1. \A w \in Workers : pc[w] \in {"succeed", "succeedReplay"} => KeyOf(rs[w]) \in Keys
    BY AttemptFacts DEF RunInv, LedgerLabels
  <2> QED BY <1>1, <1>3, <2>1 DEF TruthInv, ShapeOK, ShapeAt, KeyOf
<1>5. NewestOK'
  BY <1>1, <1>3 DEF TruthInv, NewestOK, Newest, NoneAbove, TruthAt, Truthful, Concluding,
     SavedAt, leaseVars
<1>6. EffectsOK' /\ TraceExplainsLedger'
  BY <1>1, <1>3 DEF TruthInv, EffectsOK, TraceExplainsLedger
<1>7. FinalOK' /\ FinalStatusBacked'
  BY <1>1, <1>3 DEF TruthInv, FinalOK, FinalStatusBacked, Newest, Saved, Latest, leaseVars
<1> QED BY <1>4, <1>5, <1>6, <1>7 DEF TruthInv

-----------------------------------------------------------------------------
\* _finalize_run publishes the end the newest checkpoint has.
LEMMA FinalizeTruth ==
    ASSUME RunInv, TruthInv, NEW w \in Workers, FinalizeRun(w)
    PROVE  TruthInv'
<1> USE DEF rows
<1>1. /\ Newest(w) /\ pc[w] = "finalize" /\ runStatus' = StatusOf(rs[w].term)
      /\ UNCHANGED <<token, fencingToken, rs, ckpts, ledger, proposals, steps>>
      /\ pc' = [pc EXCEPT ![w] = "release"] /\ pc \in [Workers -> Labels]
      /\ rs[w] \in RuntimeState /\ ShapeAt("finalize", rs[w]) /\ Shape(rs[w])
      /\ RunAt("finalize", rs[w]) /\ TruthAt("finalize", rs[w])
  BY TruthFacts DEF FinalizeRun, Finalize, Goto, RunInv, WorkInv, RunTypeOK
<1>2. /\ pc'[w] = "release"
      /\ \A v \in Workers \ {w} : pc'[v] = pc[v]
  BY <1>1
<1>3. \A v \in Workers : Newest(v)' => v = w
  BY <1>1 DEF Newest, RunInv, LeaseInv, TokensDistinct
<1>4. ShapeOK'
  <2>1. ASSUME NEW v \in Workers PROVE ShapeAt(pc[v], rs[v])'
    <3>1. ShapeAt(pc[v], rs[v])
      BY TruthFacts
    <3> QED BY <3>1, <1>1, <1>2 DEF ShapeAt, KeyOf
  <2> QED BY <1>1, <2>1 DEF ShapeOK, TruthInv
<1>5. NewestOK'
  BY <1>1, <1>2, <1>3 DEF TruthInv, NewestOK, TruthAt, NoneAbove, Truthful, Concluding
<1>6. EffectsOK' /\ TraceExplainsLedger' /\ FinalOK'
  BY <1>1, <1>2, <1>3 DEF TruthInv, EffectsOK, TraceExplainsLedger, FinalOK
<1>7. FinalStatusBacked'
  <2> DEFINE n == rs[w].loop
  <2>1. /\ n \in Saved /\ NoneAbove(n) /\ ckpts[n].state = rs[w]
        /\ rs[w].phase = "TERMINATED" /\ Truthful(rs[w])
        /\ rs[w].term = "COMPLETED" => \A k \in Keys : ~AutoApplicable(k)
    BY <1>1 DEF RunAt, TruthAt, SavedAt, ShapeAt, Saved, RuntimeState
  <2>2. Latest = n
    <3>1. Saved # {} /\ LatestOK
      BY <2>1 DEF RunInv, WorkInv
    <3>2. Latest \in Saved /\ n <= Latest
      BY <3>1, <2>1, LatestFacts
    <3> HIDE DEF n
    <3> QED BY <3>2, <2>1, BudgetAssumption DEF NoneAbove, Saved, Steps
  <2>3. Saved' = Saved /\ Latest' = Latest /\ \A k \in Keys : AutoApplicable(k)' = AutoApplicable(k)
    BY <1>1 DEF Saved, Latest, AutoApplicable
  <2>4. runStatus' = "COMPLETED" => rs[w].term = "COMPLETED"
    BY <1>1 DEF StatusOf, RuntimeState, Reasons
  <2>5. runStatus' = "COMPLETED" =>
           \A k \in Keys : ~AutoApplicable(k) /\ (ledger[k] # NoRow => ledger[k].status = "SUCCEEDED")
    BY <2>1, <2>4 DEF Truthful, Concluding
  <2>6. ckpts'[Latest'].state = rs[w]
    BY <1>1, <2>1, <2>2, <2>3
  <2> HIDE DEF n
  <2> QED BY <1>1, <2>1, <2>3, <2>5, <2>6 DEF FinalStatusBacked
<1> QED BY <1>4, <1>5, <1>6, <1>7 DEF TruthInv

\* The steps into and out of hold(), and those of the lease alone.
LEMMA LeaseStepsTruth ==
    ASSUME RunInv, TruthInv,
           \/ \E w \in Workers :
                 \/ Start(w) \/ LeaveHold(w) \/ Die(w)
                 \/ StartCancelled(w) \/ CancelJob(w) \/ Heartbeat(w)
           \/ (Expire \/ RequestCancel) /\ UNCHANGED <<pc, rs, tries, rows>>
    PROVE  TruthInv'
<1>0. /\ token \in [Workers -> 0..MaxAttempts] /\ fencingToken \in 0..MaxAttempts
      /\ \A v \in Workers : token[v] <= fencingToken
      /\ rs \in [Workers -> RuntimeState]
  BY DEF RunInv, LeaseInv, LeaseTypeOK, TokensDistinct, WorkInv, RunTypeOK
<1>1. ASSUME NEW w \in Workers, Start(w) PROVE TruthInv'
  <2>1. /\ token[w] = 0 /\ rs[w] = Fresh /\ runStatus' = "RUNNING"
    BY <1>1 DEF Start, Acquire, TakeOver, Idle, RunInv, WorkInv, IdleOK
  <2>2. Move(w, "load", Fresh) /\ UNCHANGED rows
    <3>1. rs' = [rs EXCEPT ![w] = Fresh]
      BY <1>0, <1>1, <2>1 DEF Start
    <3> QED BY <1>1, <3>1 DEF Start, Goto, Move, rows
  <2>3. \A v \in Workers \ {w} : ~Newest(v)'
    <3>1. /\ fencingToken' = fencingToken + 1
          /\ \A v \in Workers \ {w} : token'[v] = token[v]
      BY <1>0, <1>1 DEF Start, Acquire, TakeOver, NextToken
    <3> QED BY <1>0, <3>1, AttemptsAssumption DEF Newest
  <2> QED BY <2>1, <2>2, <2>3, HoldTruth DEF FinalStatus
<1>2. ASSUME NEW w \in Workers, LeaveHold(w) \/ Die(w) PROVE TruthInv'
  <2>1. /\ Move(w, "idle", Fresh) /\ UNCHANGED rows
        /\ fencingToken' = fencingToken /\ runStatus' = runStatus
        /\ \A v \in Workers \ {w} : token'[v] = token[v]
        /\ token'[w] = 0
    BY <1>0, <1>2 DEF LeaveHold, Die, Release, Crash, Goto, Become, Move, rows
  <2> QED BY <2>1, HoldTruth DEF Newest
<1>3. ASSUME NEW w \in Workers, StartCancelled(w) \/ CancelJob(w) \/ Heartbeat(w) PROVE TruthInv'
  BY <1>3, LeaseTruth
     DEF StartCancelled, CancelJob, Heartbeat, AcquireCancelled, MarkCancelled, Renew, FinalStatus
<1>4. CASE (Expire \/ RequestCancel) /\ UNCHANGED <<pc, rs, tries, rows>>
  BY <1>4, LeaseTruth DEF Expire, RequestCancel, FinalStatus
<1> QED BY <1>1, <1>2, <1>3, <1>4

\* Every step of every attempt and of its environment.
LEMMA NextTruth ==
    ASSUME RunInv, TruthInv, [Next]_vars
    PROVE  TruthInv'
<1>1. ASSUME NEW w \in Workers, AttemptStep(w) PROVE TruthInv'
  <2>1. CASE LoadFresh(w) \/ LoadResume(w)
    BY <2>1, LoadTruth
  <2>2. CASE \/ CheckActive(w) \/ BudgetTrips(w) \/ CallModel(w) \/ EnterTool(w)
             \/ InternalError(w) \/ Abort(w) \/ Fenced(w)
    BY <2>2, LoopTruth
  <2>3. CASE DecideFinish(w) \/ DecideCall(w) \/ DecideFails(w) \/ DecideOverBudget(w)
    BY <2>3, DecideTruth
  <2>4. CASE \/ SaveTool(w) \/ SaveFinal(w) \/ SaveStall(w) \/ AfterTool(w)
             \/ AfterStall(w) \/ Complete(w) \/ SaveEnd(w)
    BY <2>4, CheckpointTruth
  <2>5. CASE ToolStep(w)
    BY <2>5, ToolStepTruth
  <2>6. CASE Apply(w)
    BY <2>6, ApplyTruth
  <2>7. CASE FinalizeRun(w)
    BY <2>7, FinalizeTruth
  <2>8. CASE LeaveHold(w) \/ CancelJob(w)
    BY <2>8, LeaseStepsTruth
  <2> QED BY <1>1, <2>1, <2>2, <2>3, <2>4, <2>5, <2>6, <2>7, <2>8 DEF AttemptStep
<1>2. CASE Environment
  <2>1. CASE \E k \in Keys : Decide(k)
    BY <2>1, StudentTruth
  <2>2. CASE \/ \E w \in Workers : Start(w) \/ StartCancelled(w) \/ Heartbeat(w) \/ Die(w)
             \/ (Expire \/ RequestCancel) /\ UNCHANGED <<pc, rs, tries, rows>>
    BY <2>2, LeaseStepsTruth
  <2> QED BY <1>2, <2>1, <2>2 DEF Environment
<1>3. CASE UNCHANGED vars
  BY <1>3, LeaseTruth DEF vars, leaseVars
<1> QED BY <1>1, <1>2, <1>3 DEF Next

\* The strengthening holds in every state of a run.
THEOREM LedgerInvariant == Spec => []TruthInv
<1>1. RunInv /\ TruthInv /\ [Next]_vars => TruthInv'
  BY NextTruth
<1> QED BY <1>1, InitTruth, RunnerInvariant, PTL DEF Spec

\* begin() never meets its key with other arguments, and what the ledger calls
\* SUCCEEDED was done with just those arguments, whichever attempt did it.
THEOREM LedgerIsTruthful == Spec => []LedgerTruthful
<1>1. ASSUME RunInv, TruthInv PROVE LedgerTruthful
  <2>1. ASSUME NEW w \in Workers, pc[w] = "begin", Fence(w), ledger[Key(w)] # NoRow
        PROVE  ledger[Key(w)].arg = rs[w].pending.arg
    <3>1. Newest(w)
      BY <1>1, <2>1, TruthFacts
    <3> QED BY <1>1, <2>1, <3>1, CallFacts DEF Truthful, Concluding
  <2>2. \A k \in Keys : ledger[k] # NoRow /\ ledger[k].status = "SUCCEEDED"
          => proposals[k] # NoRow /\ proposals[k].arg = ledger[k].arg
    BY <1>1 DEF TruthInv, EffectsOK
  <2> QED BY <2>1, <2>2 DEF LedgerTruthful
<1>2. RunInv /\ TruthInv => LedgerTruthful
  BY <1>1
<1> QED BY <1>2, RunnerInvariant, LedgerInvariant, PTL

\* The status _finalize_run publishes is that of the newest checkpoint, and a
\* COMPLETED run has left neither its ledger entry nor an adjustment undone.
THEOREM FinalStatusIsBacked == Spec => []FinalStatusBacked
<1>1. TruthInv => FinalStatusBacked
  BY DEF TruthInv
<1> QED BY <1>1, LedgerInvariant, PTL

\* The step of a ledger entry stays recorded as the call of that tool.
THEOREM TraceExplains == Spec => []TraceExplainsLedger
<1>1. TruthInv => TraceExplainsLedger
  BY DEF TruthInv
<1> QED BY <1>1, LedgerInvariant, PTL
=============================================================================
