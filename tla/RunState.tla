------------------------------ MODULE RunState ------------------------------
(***************************************************************************)
(* What one agent run keeps: the RuntimeState in a worker's memory         *)
(* (app/harness/contracts.py) and the rows its adapters write              *)
(* (harness_store.py, tool_ledger.py, learning_tools.py).  Each adapter    *)
(* call is one transaction that starts with assert_fence, so each is one   *)
(* step guarded by Fence.                                                  *)
(*                                                                         *)
(* Abstractions of data: a ToolCall is a tool and an argument value (the   *)
(* args_digest); termination reasons and error codes are kept only as far  *)
(* as _finalize_run and _prepare_retryable_state tell them apart; token,   *)
(* model-call and time budgets may trip at every check, the step and the   *)
(* tool-call budgets are counted.                                          *)
(***************************************************************************)
EXTENDS RunLease

CONSTANTS ReadTools,        \* tools without side effect
          MinorTools,       \* proposal tools of type MINOR_ADJUST
          MajorTools,       \* proposal tools that await the student
          Args,             \* argument digests
          MaxSteps,         \* RunBudget.max_steps
          MaxToolCalls,     \* RunBudget.max_tool_calls
          MaxToolAttempts,  \* retry_policy.max_attempts of a proposal tool
          NoCall, NoRow     \* Python None, and a row that does not exist

ProposalTools == MinorTools \cup MajorTools
Tools == ReadTools \cup ProposalTools
Call == [tool : Tools, arg : Args]

ASSUME BudgetAssumption ==
    /\ MaxSteps \in Nat
    /\ MaxToolCalls \in Nat
    /\ MaxToolAttempts \in Nat \ {0}

VARIABLES pc,         \* pc[w]: the await at which attempt w stands
          rs,         \* rs[w]: the RuntimeState in w's memory
          tries,      \* tries[w]: "attempt" of ToolExecutor.execute
          ckpts,      \* checkpoints by step_number
          ledger,     \* tool_execution_records by (step, tool)
          proposals,  \* proposals by idempotency key, i.e. by (step, tool)
          steps       \* agent_steps by step_number: the tool_name, or NoCall

rows == <<ckpts, ledger, proposals, steps>>
vars == <<leaseVars, pc, rs, tries, rows>>

Steps == 0..MaxSteps
\* AgentStep rows and idempotency keys: _bind_idempotency derives the key from
\* the run, the step and the tool name.
Keys == Steps \X ProposalTools

Phases == {"READY", "TOOL_PENDING", "FINAL_PENDING", "TERMINATED"}
\* "FAILED" stands for every TerminationReason that _finalize_run maps to it.
Reasons == {"NONE", "COMPLETED", "LOOP_STALLED", "CANCELLED", "FAILED"}
\* "RETRYABLE" stands for the codes listed in _prepare_retryable_state.
Errors == {"NONE", "RETRYABLE", "OTHER"}

RuntimeState ==
    [loop : Steps, calls : 0..MaxToolCalls, phase : Phases,
     pending : Call \cup {NoCall}, final : BOOLEAN, term : Reasons, err : Errors]

Checkpoint == [state : RuntimeState, tok : 0..MaxAttempts]
LedgerRow == [arg : Args, status : {"STARTED", "SUCCEEDED", "FAILED", "UNKNOWN"}]
\* adjusted counts how often the plan was changed on behalf of the proposal.
\* "CLOSED" stands for REJECTED, EXPIRED, APPROVED (a replan job takes over)
\* and APPLY_FAILED: no code path leaves them in this run.
Proposal == [arg : Args, adjusted : Nat,
             status : {"PENDING", "AWAITING_CONFIRMATION", "AUTO_COMMITTED",
                       "APPLIED", "CLOSED"}]

ASSUME ToolAssumption ==
    /\ ReadTools \cap ProposalTools = {}
    /\ MinorTools \cap MajorTools = {}
    /\ NoCall \notin Call \cup Tools
    /\ NoRow \notin Checkpoint \cup LedgerRow \cup Proposal \cup Tools \cup {NoCall}

\* RuntimeState() as execute_job builds it.
Fresh == [loop |-> 0, calls |-> 0, phase |-> "READY", pending |-> NoCall,
          final |-> FALSE, term |-> "NONE", err |-> "NONE"]

-----------------------------------------------------------------------------
Goto(w, label) == pc' = [pc EXCEPT ![w] = label]
Become(w, s) == rs' = [rs EXCEPT ![w] = s]

\* AgentRunner._terminate up to its checkpoint: the label "saveEnd" saves it.
Ended(s, reason, error) ==
    [s EXCEPT !.phase = "TERMINATED", !.term = reason, !.err = error]

Terminating(w, reason, error) ==
    Goto(w, "saveEnd") /\ Become(w, Ended(rs[w], reason, error))

\* StaleWorkerError: nothing is written, the attempt leaves through hold().
Stale(w) ==
    /\ ~Fence(w)
    /\ Goto(w, "release")
    /\ UNCHANGED <<rs, tries, rows>>

\* RunLeaseManager.assert_active: cancellation is looked at before the fence.
Cancelled(w) ==
    /\ runStatus = "CANCEL_REQUESTED"
    /\ Terminating(w, "CANCELLED", "OTHER")
    /\ UNCHANGED <<tries, rows>>

LostLease(w) == runStatus # "CANCEL_REQUESTED" /\ Stale(w)

Active(w) == runStatus # "CANCEL_REQUESTED" /\ Fence(w)

\* A save that does not assert the fence.
SaveCheckpointUnfenced(w, s) ==
    ckpts' = [ckpts EXCEPT ![s.loop] = [state |-> s, tok |-> token[w]]]

\* DatabaseCheckpointStore.save: insert or overwrite the row of the step.
SaveCheckpoint(w, s) ==
    /\ Fence(w)
    /\ ckpts' = [ckpts EXCEPT ![s.loop] = [state |-> s, tok |-> token[w]]]

\* DatabaseTraceRecorder.record_step: insert or overwrite the row of the step.
RecordStep(w, n, t) ==
    /\ Fence(w)
    /\ steps' = [steps EXCEPT ![n] = t]

\* DatabaseCheckpointStore.load_latest: the row with the highest step number.
Saved == {n \in Steps : ckpts[n] # NoRow}
Latest == CHOOSE n \in Saved : \A m \in Saved : m <= n
=============================================================================
