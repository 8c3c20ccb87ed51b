---------------------------- MODULE AgentRunner -----------------------------
(***************************************************************************)
(* One AgentRun executed by any number of attempts: the runner loop        *)
(* (app/harness/runner.py) inside AgentDiagnosisService.execute_job        *)
(* (app/application/agent_runs.py), with crashes, expiring leases,         *)
(* duplicate deliveries and cancellation requests.                         *)
(*                                                                         *)
(* The job queue is left open: any worker may start an attempt at any time *)
(* (up to MaxAttempts), which covers every schedule the queue can produce. *)
(* assert_active only reads, so where it is followed by a fenced write of  *)
(* the same attempt the two are one step.                                  *)
(***************************************************************************)
EXTENDS ToolExecutor

Labels == {"idle", "load", "top", "model", "saveTool", "saveFinal", "saveStall",
           "tool", "read", "begin", "reconcile", "markStarted", "handler",
           "succeed", "succeedReplay", "unknown", "reconcileRetry", "fail",
           "afterTool", "afterStall", "complete", "saveEnd", "apply",
           "finalize", "release"}

\* The labels inside the try block of AgentRunner._run, but for those where
\* ToolExecutor.execute maps every error to a ToolError.
RunnerLabels == Labels \ {"idle", "load", "handler", "succeed",
                          "saveEnd", "apply", "finalize", "release"}

Init ==
    /\ LeaseInit
    /\ pc = [w \in Workers |-> "idle"]
    /\ rs = [w \in Workers |-> Fresh]
    /\ tries = [w \in Workers |-> 0]
    /\ ckpts = [n \in Steps |-> NoRow]
    /\ ledger = [k \in Keys |-> NoRow]
    /\ proposals = [k \in Keys |-> NoRow]
    /\ steps = [n \in Steps |-> NoRow]

-----------------------------------------------------------------------------
\* RunLeaseManager.hold() around the attempt

Start(w) ==
    /\ Acquire(w)
    /\ Goto(w, "load")
    /\ UNCHANGED <<rs, tries, rows>>

StartCancelled(w) == AcquireCancelled(w) /\ UNCHANGED <<pc, rs, tries, rows>>

CancelJob(w) == MarkCancelled(w) /\ UNCHANGED <<pc, rs, tries, rows>>

Heartbeat(w) ==
    /\ pc[w] # "release"
    /\ Renew(w)
    /\ UNCHANGED <<pc, rs, tries, rows>>

LeaveHold(w) ==
    /\ pc[w] = "release"
    /\ Release(w)
    /\ Goto(w, "idle")
    /\ Become(w, Fresh)
    /\ tries' = [tries EXCEPT ![w] = 0]
    /\ UNCHANGED rows

Die(w) ==
    /\ Crash(w)
    /\ Goto(w, "idle")
    /\ Become(w, Fresh)
    /\ tries' = [tries EXCEPT ![w] = 0]
    /\ UNCHANGED rows

-----------------------------------------------------------------------------
\* _prepare_retryable_state
Prepare(s) ==
    IF s.phase = "TERMINATED" /\ s.err = "RETRYABLE"
    THEN [s EXCEPT !.phase = IF s.pending # NoCall THEN "TOOL_PENDING" ELSE "READY",
                   !.term = "NONE", !.err = "NONE", !.final = FALSE]
    ELSE s

\* A resumed run that is not given back the adjustments it has to apply.
EntryPointSkipsApply(s) ==
    CASE s.phase = "TERMINATED" -> "finalize"
      [] s.phase = "FINAL_PENDING" -> "complete"
      [] s.phase = "TOOL_PENDING" -> "tool"
      [] s.phase = "READY" -> "top"

\* A resumed run that asks the model again although a tool call is pending.
EntryPointForgetsTool(s) ==
    CASE s.phase = "TERMINATED" /\ s.term = "COMPLETED" -> "apply"
      [] s.phase = "TERMINATED" /\ s.term # "COMPLETED" -> "finalize"
      [] s.phase = "FINAL_PENDING" -> "complete"
      [] s.phase \in {"READY", "TOOL_PENDING"} -> "top"

\* AgentRunner._run, the branches before the loop.
EntryPoint(s) ==
    CASE s.phase = "TERMINATED" /\ s.term = "COMPLETED" -> "apply"
      [] s.phase = "TERMINATED" /\ s.term # "COMPLETED" -> "finalize"
      [] s.phase = "FINAL_PENDING" -> "complete"
      [] s.phase = "TOOL_PENDING" -> "tool"
      [] s.phase = "READY" -> "top"

\* load_latest, then a new RuntimeState or the resumed one.  (The fenced
\* increment of resumed_count in between changes nothing that is read.)
LoadFresh(w) ==
    /\ pc[w] = "load" /\ Fence(w)
    /\ Saved = {}
    /\ Goto(w, "top")
    /\ UNCHANGED <<leaseVars, rs, tries, rows>>

LoadResume(w) ==
    /\ pc[w] = "load" /\ Fence(w)
    /\ Saved # {}
    /\ LET s == Prepare(ckpts[Latest].state)
       IN  Become(w, s) /\ Goto(w, EntryPoint(s))
    /\ UNCHANGED <<leaseVars, tries, rows>>

-----------------------------------------------------------------------------
\* The loop of AgentRunner._run

CheckActive(w) ==
    /\ pc[w] \in {"top", "tool", "afterTool", "afterStall", "complete"}
    /\ Cancelled(w) \/ LostLease(w)
    /\ UNCHANGED leaseVars

\* check_before_model and check_before_tool: the counted budgets must trip at
\* their limit, the others may trip at any time.
BudgetTrips(w) ==
    /\ pc[w] \in {"top", "tool"} /\ Active(w)
    /\ Terminating(w, "FAILED", "OTHER")
    /\ UNCHANGED <<leaseVars, tries, rows>>

StepAllowed(s) == s.loop < MaxSteps

CallModel(w) ==
    /\ pc[w] = "top" /\ Active(w)
    /\ StepAllowed(rs[w])
    /\ Goto(w, "model")
    /\ UNCHANGED <<leaseVars, rs, tries, rows>>

\* loop_count += 1
NextStep(s) == [s EXCEPT !.loop = @ + 1]

\* model.decide returned a final decision.
DecideFinish(w) ==
    /\ pc[w] = "model"
    /\ RecordStep(w, NextStep(rs[w]).loop, NoCall)
    /\ Become(w, [NextStep(rs[w]) EXCEPT !.final = TRUE, !.phase = "FINAL_PENDING"])
    /\ Goto(w, "saveFinal")
    /\ UNCHANGED <<leaseVars, tries, ckpts, ledger, proposals>>

\* model.decide returned a tool call; the stall detector needs two actions.
DecideCall(w) ==
    /\ pc[w] = "model"
    /\ \E c \in Call :
          /\ RecordStep(w, NextStep(rs[w]).loop, c.tool)
          /\ \/ /\ rs[w].loop >= 1
                /\ Become(w, NextStep(rs[w])) /\ Goto(w, "saveStall")
             \/ /\ Become(w, Ended(NextStep(rs[w]), "FAILED", "OTHER"))
                /\ Goto(w, "saveEnd")
             \/ /\ rs[w].calls < MaxToolCalls
                /\ Become(w, [NextStep(rs[w]) EXCEPT !.pending = c, !.phase = "TOOL_PENDING"])
                /\ Goto(w, "saveTool")
    /\ UNCHANGED <<leaseVars, tries, ckpts, ledger, proposals>>

\* An unavailable model, a malformed output, an action that is neither a call
\* nor a decision: recorded, then terminated.
DecideFails(w) ==
    /\ pc[w] = "model"
    /\ RecordStep(w, NextStep(rs[w]).loop, NoCall)
    /\ \E e \in {"RETRYABLE", "OTHER", "NONE"} :
          Become(w, Ended(NextStep(rs[w]), "FAILED", e))
    /\ Goto(w, "saveEnd")
    /\ UNCHANGED <<leaseVars, tries, ckpts, ledger, proposals>>

\* check_after_model trips before the step is recorded.
DecideOverBudget(w) ==
    /\ pc[w] = "model"
    /\ Become(w, Ended(NextStep(rs[w]), "FAILED", "OTHER"))
    /\ Goto(w, "saveEnd")
    /\ UNCHANGED <<leaseVars, tries, rows>>

\* The tool is executed before the decision is saved.
SaveToolSkipped(w) ==
    /\ pc[w] = "saveTool"
    /\ Goto(w, "tool")
    /\ UNCHANGED <<leaseVars, rs, tries, rows>>

\* checkpoints.save of the three decisions, each with what follows it.
SaveTool(w) ==
    /\ pc[w] = "saveTool"
    /\ SaveCheckpoint(w, rs[w])
    /\ Goto(w, "tool")
    /\ UNCHANGED <<leaseVars, rs, tries, ledger, proposals, steps>>

SaveFinal(w) ==
    /\ pc[w] = "saveFinal"
    /\ SaveCheckpoint(w, rs[w])
    /\ Goto(w, "complete")
    /\ UNCHANGED <<leaseVars, rs, tries, ledger, proposals, steps>>

SaveStall(w) ==
    /\ pc[w] = "saveStall"
    /\ SaveCheckpoint(w, rs[w])
    /\ Terminating(w, "LOOP_STALLED", rs[w].err)
    /\ UNCHANGED <<leaseVars, tries, ledger, proposals, steps>>

\* BudgetManager.check_before_tool
ToolAllowed(s) == s.calls < MaxToolCalls

\* _execute_pending_tool up to the executor: policy and registry may refuse.
EnterTool(w) ==
    /\ pc[w] = "tool" /\ Active(w)
    /\ \/ /\ ToolAllowed(rs[w])
          /\ Goto(w, IF rs[w].pending.tool \in ProposalTools THEN "begin" ELSE "read")
          /\ UNCHANGED rs
       \/ Terminating(w, "FAILED", "OTHER")
    /\ UNCHANGED <<leaseVars, tries, rows>>

\* The end of _execute_pending_tool: assert_active and the checkpoint.
AfterTool(w) ==
    /\ pc[w] = "afterTool" /\ Active(w)
    /\ SaveCheckpoint(w, rs[w])
    /\ Goto(w, IF rs[w].final THEN "complete" ELSE "top")
    /\ UNCHANGED <<leaseVars, rs, tries, ledger, proposals, steps>>

AfterStall(w) ==
    /\ pc[w] = "afterStall" /\ Active(w)
    /\ SaveCheckpoint(w, rs[w])
    /\ Terminating(w, "LOOP_STALLED", rs[w].err)
    /\ UNCHANGED <<leaseVars, tries, ledger, proposals, steps>>

\* AgentRunner._complete
Complete(w) ==
    /\ pc[w] = "complete" /\ Active(w)
    /\ LET s == Ended(rs[w], "COMPLETED", "NONE")
       IN  SaveCheckpoint(w, s) /\ Become(w, s)
    /\ Goto(w, "apply")
    /\ UNCHANGED <<leaseVars, tries, ledger, proposals, steps>>

\* AgentRunner._terminate: the checkpoint of the termination.
SaveEnd(w) ==
    /\ pc[w] = "saveEnd"
    /\ SaveCheckpoint(w, rs[w])
    /\ Goto(w, "finalize")
    /\ UNCHANGED <<leaseVars, rs, tries, ledger, proposals, steps>>

\* "except Exception" of _run.
InternalError(w) ==
    /\ pc[w] \in RunnerLabels
    /\ Terminating(w, "FAILED", "OTHER")
    /\ UNCHANGED <<leaseVars, tries, rows>>

\* asyncio.CancelledError (job_timeout, shutdown) at any await, or an error
\* outside the try block: hold() still releases the lease.
Abort(w) ==
    /\ pc[w] \notin {"idle", "release"}
    /\ Goto(w, "release")
    /\ UNCHANGED <<leaseVars, rs, tries, rows>>

-----------------------------------------------------------------------------
\* The end of execute_job

AutoApplicable(k) ==
    /\ proposals[k] # NoRow
    /\ k[2] \in MinorTools
    /\ proposals[k].status = "PENDING"

\* _apply_minor_proposal: the plan task is changed, or the proposal is handed
\* to the student (confidence, stale evidence, no eligible task, no capacity).
Adjust(p, status) == [p EXCEPT !.status = status, !.adjusted = @ + 1]
Defer(p) == [p EXCEPT !.status = "AWAITING_CONFIRMATION"]

Apply(w) ==
    /\ pc[w] = "apply" /\ Fence(w)
    /\ \E S \in SUBSET {k \in Keys : AutoApplicable(k)} :
          proposals' = [k \in Keys |->
             CASE k \in S -> Adjust(proposals[k], "AUTO_COMMITTED")
               [] AutoApplicable(k) /\ k \notin S -> Defer(proposals[k])
               [] OTHER -> proposals[k]]
    /\ Goto(w, "finalize")
    /\ UNCHANGED <<leaseVars, rs, tries, ckpts, ledger, steps>>

\* _finalize_run
StatusOf(reason) ==
    CASE reason = "COMPLETED" -> "COMPLETED"
      [] reason = "LOOP_STALLED" -> "STALLED"
      [] reason = "CANCELLED" -> "CANCELLED"
      [] OTHER -> "FAILED"

FinalizeRun(w) ==
    /\ pc[w] = "finalize"
    /\ Finalize(w)
    /\ runStatus' = StatusOf(rs[w].term)
    /\ Goto(w, "release")
    /\ UNCHANGED <<rs, tries, rows>>

\* Every fenced transaction of a superseded or expired attempt (at "afterTool"
\* and "afterStall": record_tool, whose rows are not modelled).
Fenced(w) ==
    /\ pc[w] \in {"load", "model", "saveTool", "saveFinal", "saveStall",
                  "afterTool", "afterStall", "saveEnd", "apply", "finalize"}
    /\ Stale(w)
    /\ UNCHANGED leaseVars

-----------------------------------------------------------------------------
\* ProposalService.decide, which may come while the run is still going: it
\* locks the proposal and the run row, hence is one step.  A minor adjustment
\* that the student approves is applied at once (or fails to apply).
Decidable(k) ==
    /\ proposals[k] # NoRow
    /\ proposals[k].status \in {"PENDING", "AWAITING_CONFIRMATION"}

Decide(k) ==
    /\ Decidable(k)
    /\ \/ proposals' = [proposals EXCEPT ![k].status = "CLOSED"]
       \/ /\ k[2] \in MinorTools
          /\ proposals' = [proposals EXCEPT ![k] = Adjust(@, "APPLIED")]
    /\ UNCHANGED <<leaseVars, pc, rs, tries, ckpts, ledger, steps>>

-----------------------------------------------------------------------------
\* What an attempt does by itself.
AttemptStep(w) ==
    \/ LoadFresh(w) \/ LoadResume(w)
    \/ CheckActive(w) \/ BudgetTrips(w) \/ CallModel(w)
    \/ DecideFinish(w) \/ DecideCall(w) \/ DecideFails(w) \/ DecideOverBudget(w)
    \/ SaveTool(w) \/ SaveFinal(w) \/ SaveStall(w)
    \/ EnterTool(w) \/ ToolStep(w) \/ AfterTool(w) \/ AfterStall(w)
    \/ Complete(w) \/ SaveEnd(w) \/ InternalError(w) \/ Abort(w)
    \/ Apply(w) \/ FinalizeRun(w) \/ Fenced(w) \/ LeaveHold(w)
    \/ CancelJob(w)

\* What the queue, the clock, the student and failures do.
Environment ==
    \/ \E w \in Workers :
          Start(w) \/ StartCancelled(w) \/ Heartbeat(w) \/ Die(w)
    \/ Expire /\ UNCHANGED <<pc, rs, tries, rows>>
    \/ RequestCancel /\ UNCHANGED <<pc, rs, tries, rows>>
    \/ \E k \in Keys : Decide(k)

Next == Environment \/ \E w \in Workers : AttemptStep(w)

Spec == Init /\ [][Next]_vars

\* A worker process keeps running its coroutine.
FairSpec == Spec /\ \A w \in Workers : WF_vars(AttemptStep(w))

-----------------------------------------------------------------------------
\* The shape of the state; loop_count and tool_call_count of every attempt and
\* of every checkpoint stay within RunBudget.
TypeOK ==
    /\ LeaseTypeOK
    /\ pc \in [Workers -> Labels]
    /\ rs \in [Workers -> RuntimeState]
    /\ tries \in [Workers -> 0..MaxToolAttempts]
    /\ ckpts \in [Steps -> Checkpoint \cup {NoRow}]
    /\ ledger \in [Keys -> LedgerRow \cup {NoRow}]
    /\ proposals \in [Keys -> Proposal \cup {NoRow}]
    /\ steps \in [Steps -> Tools \cup {NoCall, NoRow}]

\* A run makes at most one proposal, however often it is retried, taken over or
\* resumed: a retry of execute() finds the row of its key, and a resumed run
\* comes back to the same step and tool instead of asking the model again.
AtMostOneProposal ==
    \A j, k \in Keys : proposals[j] # NoRow /\ proposals[k] # NoRow => j = k

\* begin() never finds its idempotency key used with other arguments, and what
\* the ledger calls SUCCEEDED was done with just those arguments.
LedgerTruthful ==
    /\ \A w \in Workers : pc[w] = "begin" /\ Fence(w) /\ ledger[Key(w)] # NoRow
          => ledger[Key(w)].arg = rs[w].pending.arg
    /\ \A k \in Keys : ledger[k] # NoRow /\ ledger[k].status = "SUCCEEDED"
          => proposals[k] # NoRow /\ proposals[k].arg = ledger[k].arg

\* The status _finalize_run publishes is that of the newest checkpoint, and a
\* COMPLETED run has left nothing undone: its ledger entry succeeded and no
\* minor adjustment is still PENDING.
FinalStatusBacked ==
    /\ runStatus \in {"COMPLETED", "STALLED", "FAILED"} =>
          /\ Saved # {}
          /\ ckpts[Latest].state.phase = "TERMINATED"
          /\ runStatus = StatusOf(ckpts[Latest].state.term)
    /\ runStatus = "COMPLETED" => \A k \in Keys :
          /\ ~AutoApplicable(k)
          /\ ledger[k] # NoRow => ledger[k].status = "SUCCEEDED"

\* Replay shows where a proposal came from: the step of a ledger entry stays
\* recorded as the call of that very tool.
TraceExplainsLedger ==
    \A k \in Keys : ledger[k] # NoRow => steps[k[1]] = k[2]

\* A superseded attempt never overwrites what a newer one saved: the fencing
\* token of a checkpoint row never goes down, nor does a newer token ever sit
\* below an older one.
CheckpointsFenced ==
    [][\A n \in Steps : ckpts'[n] # ckpts[n] =>
          /\ ckpts'[n] # NoRow
          /\ \A m \in Saved : ckpts[m].tok <= ckpts'[n].tok]_vars

\* Every attempt comes to its end: the budgets and the retry limits bound the
\* loop of _run and the retries of execute().
AttemptEnds == \A w \in Workers : pc[w] # "idle" ~> pc[w] = "idle"
=============================================================================
