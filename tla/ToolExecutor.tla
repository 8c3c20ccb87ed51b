---------------------------- MODULE ToolExecutor ----------------------------
(***************************************************************************)
(* ToolExecutor.execute (app/harness/tools.py) with the execution ledger   *)
(* (tool_ledger.py) and the proposal handler and reconciler                *)
(* (learning_tools.py): how the pending tool call of a run is carried out, *)
(* retried, replayed and reconciled.                                       *)
(***************************************************************************)
EXTENDS RunState

Key(w) == <<rs[w].loop, rs[w].pending.tool>>

\* _execute_pending_tool after the executor returned: a proposal tool carries a
\* terminal_decision; after a read the stall detector may speak up, which
\* takes two observations.
ToolDone(w) ==
    LET s == [rs[w] EXCEPT !.calls = @ + 1, !.pending = NoCall] IN
    IF rs[w].pending.tool \in ProposalTools
    THEN /\ Goto(w, "afterTool")
         /\ Become(w, [s EXCEPT !.final = TRUE, !.phase = "FINAL_PENDING"])
    ELSE /\ \/ Goto(w, "afterTool")
            \/ s.calls >= 2 /\ Goto(w, "afterStall")
         /\ Become(w, [s EXCEPT !.phase = "READY"])

\* A read tool: no ledger, its retries leave no trace in the state.
ReadSucceeds(w) ==
    /\ pc[w] = "read"
    /\ ToolDone(w)
    /\ UNCHANGED <<leaseVars, tries, rows>>

ReadFails(w) ==
    /\ pc[w] = "read"
    /\ \E e \in {"RETRYABLE", "OTHER"} : Terminating(w, "FAILED", e)
    /\ UNCHANGED <<leaseVars, tries, rows>>

SetLedger(w, status) ==
    /\ Fence(w)
    /\ ledger' = [ledger EXCEPT ![Key(w)].status = status]

\* DatabaseToolExecutionLedger.begin and the branches on its entry.
BeginNew(w) ==
    /\ pc[w] = "begin" /\ Fence(w)
    /\ ledger[Key(w)] = NoRow
    /\ ledger' = [ledger EXCEPT ![Key(w)] =
                     [arg |-> rs[w].pending.arg, status |-> "STARTED"]]
    /\ tries' = [tries EXCEPT ![w] = 1]
    /\ Goto(w, "handler")
    /\ UNCHANGED <<leaseVars, rs, ckpts, proposals, steps>>

\* The key was used with other arguments, the call is done already (replayed),
\* or its outcome has to be found out.
BeginExisting(w) ==
    /\ pc[w] = "begin" /\ Fence(w)
    /\ ledger[Key(w)] # NoRow
    /\ IF ledger[Key(w)].arg # rs[w].pending.arg
       THEN Terminating(w, "FAILED", "OTHER")
       ELSE IF ledger[Key(w)].status = "SUCCEEDED"
            THEN ToolDone(w)
            ELSE Goto(w, "reconcile") /\ UNCHANGED rs
    /\ UNCHANGED <<leaseVars, tries, rows>>

\* An existing entry is taken for a success without looking for its effect.
ReconcileTrusting(w) ==
    /\ pc[w] = "reconcile"
    /\ tries' = [tries EXCEPT ![w] = 1]
    /\ Goto(w, "succeedReplay")
    /\ UNCHANGED <<leaseVars, rs, rows>>

\* execute(): an existing entry is settled by looking for the proposal.  The
\* proposal tools are idempotent writes with a reconcile handler, so "not
\* found" leads to another execution.
Reconcile(w) ==
    /\ pc[w] = "reconcile"
    /\ tries' = [tries EXCEPT ![w] = 1]
    /\ Goto(w, IF proposals[Key(w)] # NoRow THEN "succeedReplay" ELSE "markStarted")
    /\ UNCHANGED <<leaseVars, rs, rows>>

MarkStarted(w) ==
    /\ pc[w] = "markStarted"
    /\ SetLedger(w, "STARTED")
    /\ Goto(w, "handler")
    /\ UNCHANGED <<leaseVars, rs, tries, ckpts, proposals, steps>>

\* The row propose() inserts: a minor adjustment is applied by the run itself,
\* any other proposal waits for the student.
CreateProposal(w) ==
    proposals' = [proposals EXCEPT ![Key(w)] =
       [arg |-> rs[w].pending.arg, adjusted |-> 0,
        status |-> IF rs[w].pending.tool \in MinorTools
                   THEN "PENDING" ELSE "AWAITING_CONFIRMATION"]]

\* propose(): an existing proposal of the key is returned as it is.
InsertProposal(w) ==
    IF proposals[Key(w)] # NoRow THEN UNCHANGED proposals
    ELSE CreateProposal(w)

\* The handler's transaction commits; its answer arrives or is lost (a timeout,
\* an operational or another error after the commit).
HandlerCommits(w) ==
    /\ pc[w] = "handler" /\ Fence(w)
    /\ InsertProposal(w)
    /\ \E label \in {"succeed", "unknown", "fail"} : Goto(w, label)
    /\ UNCHANGED <<leaseVars, rs, tries, ckpts, ledger, steps>>

\* A transient error before the commit.
HandlerTransient(w) ==
    /\ pc[w] = "handler"
    /\ Goto(w, "unknown")
    /\ UNCHANGED <<leaseVars, rs, tries, rows>>

\* The evidence is refused, the handler finds itself fenced, or any other
\* error: _map_error turns all of them into a ToolBusinessError.
HandlerRefuses(w) ==
    /\ pc[w] = "handler"
    /\ Goto(w, "fail")
    /\ UNCHANGED <<leaseVars, rs, tries, rows>>

\* _ledger_succeed inside the try: what it raises is mapped like an error of
\* the handler.
Succeed(w) ==
    /\ pc[w] = "succeed"
    /\ SetLedger(w, "SUCCEEDED")
    /\ ToolDone(w)
    /\ UNCHANGED <<leaseVars, tries, ckpts, proposals, steps>>

SucceedLost(w) ==
    /\ pc[w] = "succeed"
    /\ \E label \in {"unknown", "fail"} : Goto(w, label)
    /\ UNCHANGED <<leaseVars, rs, tries, rows>>

SucceedReplay(w) ==
    /\ pc[w] = "succeedReplay"
    /\ SetLedger(w, "SUCCEEDED")
    /\ ToolDone(w)
    /\ UNCHANGED <<leaseVars, tries, ckpts, proposals, steps>>

\* ledger.unknown after a transient error
Unknown(w) ==
    /\ pc[w] = "unknown"
    /\ SetLedger(w, "UNKNOWN")
    /\ Goto(w, "reconcileRetry")
    /\ UNCHANGED <<leaseVars, rs, tries, ckpts, proposals, steps>>

\* The reconcile after a transient error; without a proposal the attempt is
\* retried, unless attempts or the retry budget (seconds) are used up.
ReconcileFound(w) ==
    /\ pc[w] = "reconcileRetry"
    /\ proposals[Key(w)] # NoRow
    /\ Goto(w, "succeedReplay")
    /\ UNCHANGED <<leaseVars, rs, tries, rows>>

\* A retry that does not count the attempt.
RetryToolUncounted(w) ==
    /\ pc[w] = "reconcileRetry"
    /\ proposals[Key(w)] = NoRow
    /\ tries[w] < MaxToolAttempts
    /\ Goto(w, "markStarted")
    /\ UNCHANGED <<leaseVars, rs, tries, rows>>

RetryTool(w) ==
    /\ pc[w] = "reconcileRetry"
    /\ proposals[Key(w)] = NoRow
    /\ tries[w] < MaxToolAttempts
    /\ tries' = [tries EXCEPT ![w] = @ + 1]
    /\ Goto(w, "markStarted")
    /\ UNCHANGED <<leaseVars, rs, rows>>

GiveUpTool(w) ==
    /\ pc[w] = "reconcileRetry"
    /\ proposals[Key(w)] = NoRow
    /\ Terminating(w, "FAILED", "RETRYABLE")
    /\ UNCHANGED <<leaseVars, tries, rows>>

\* ledger.fail after an error that is not transient
Fail(w) ==
    /\ pc[w] = "fail"
    /\ SetLedger(w, "FAILED")
    /\ Terminating(w, "FAILED", "OTHER")
    /\ UNCHANGED <<leaseVars, tries, ckpts, proposals, steps>>

\* A ledger call of a superseded or expired attempt raises StaleWorkerError.
LedgerStale(w) ==
    /\ pc[w] \in {"begin", "markStarted", "succeedReplay", "unknown", "fail"}
    /\ Stale(w)
    /\ UNCHANGED leaseVars

ToolStep(w) ==
    \/ ReadSucceeds(w) \/ ReadFails(w)
    \/ BeginNew(w) \/ BeginExisting(w)
    \/ Reconcile(w) \/ MarkStarted(w)
    \/ HandlerCommits(w) \/ HandlerTransient(w) \/ HandlerRefuses(w)
    \/ Succeed(w) \/ SucceedLost(w) \/ SucceedReplay(w)
    \/ Unknown(w) \/ ReconcileFound(w) \/ RetryTool(w) \/ GiveUpTool(w)
    \/ Fail(w) \/ LedgerStale(w)
=============================================================================
