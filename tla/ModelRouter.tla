---------------------------- MODULE ModelRouter ----------------------------
(***************************************************************************)
(* One model router and the runs that use it:                              *)
(* app/infrastructure/adapters/model_gateway.py (ModelRouter,              *)
(* QwenModelGateway, CircuitBreaker), app/harness/budget.py and the        *)
(* accounting of app/harness/runner.py.  A decision is a chain of HTTP     *)
(* requests: a repair after an unusable answer, a second try after a       *)
(* failure, the larger model after a failure or a doubtful answer of the   *)
(* smaller one.  A step goes from one await to the next: it takes what a   *)
(* request brought, any outcome, and sends the next one if there is one.   *)
(* The module is about how many requests are made, how many are charged    *)
(* to the run, and how many pass an open breaker.                          *)
(*                                                                         *)
(* A worker makes a router for every attempt of a job.  The offline        *)
(* evaluation (app/evaluation/runner.py) shares one among the cases that   *)
(* it runs at the same time; then the decisions of several runs are in     *)
(* progress and any of them may open or close a breaker.                   *)
(***************************************************************************)
EXTENDS Naturals, FiniteSetsExt

CONSTANTS Runs,        \* the cases that the evaluation runs at a time
          MaxCalls,    \* RunBudget.max_model_calls
          MaxRepairs,  \* RunBudget.max_repair_calls
          MaxSteps,    \* RunBudget.max_steps
          Threshold    \* CircuitBreaker threshold

ASSUME RouterAssumption ==
    /\ MaxCalls \in Nat \ {0} /\ MaxSteps \in Nat \ {0}
    /\ MaxRepairs \in Nat /\ Threshold \in Nat \ {0}

VARIABLES users,     \* who uses the router: all Runs in the evaluation, one in a worker
          run,       \* run[r]: the counters of RuntimeState that are checkpointed
          breaker,   \* breaker[m]: the CircuitBreaker of model m
          call,      \* call[r]: the decision of r in progress, Idle if there is none
          sent,      \* history: requests made so far for the decision of r
          openSends, \* history: r's requests to m since its breaker opened
          last       \* history: what a decision has just reported

vars == <<users, run, breaker, call, sent, openSends, last>>

Models == {"flash", "plus"}
Closed == [state |-> "closed", failures |-> 0]
NewRun == [calls |-> 0, repairs |-> 0, steps |-> 0, state |-> "ready"]
\* at: the request that is under way, "primary" or "repair", or "backoff" when
\* _call sleeps before its second try.
Idle == [at |-> "idle"]
Nothing == [kind |-> "none", reported |-> 0, sent |-> 0, left |-> 0]

Init ==
    /\ users \in {Runs} \cup {{r} : r \in Runs}
    /\ run = [r \in Runs |-> NewRun]
    /\ breaker = [m \in Models |-> Closed]
    /\ call = [r \in Runs |-> Idle]
    /\ sent = [r \in Runs |-> 0]
    /\ openSends = [r \in Runs |-> [m \in Models |-> 0]]
    /\ last = Nothing

-----------------------------------------------------------------------------
\* RuntimeState.remaining_model_calls and remaining_repair_calls
Remaining(limit, used) == IF used >= limit THEN 0 ELSE limit - used

\* BudgetManager.check_before_model and check_after_model
MayDecide(r) == run[r].steps < MaxSteps /\ run[r].calls < MaxCalls
WithinBudget(row) == row.calls <= MaxCalls /\ row.repairs <= MaxRepairs

\* _record_model_failure, and the counting of a result in _run.
Charge(r, reported, repairs) ==
    [run[r] EXCEPT !.calls = @ + reported, !.repairs = @ + repairs, !.steps = @ + 1]

\* History: a request counts when it is sent while the breaker of its model is
\* open; the breaker that is not open has let nothing through.
Counted(requests) ==
    openSends' = [r \in Runs |-> [m \in Models |->
                     IF breaker'[m].state # "open" THEN 0
                     ELSE openSends[r][m] + IF <<r, m>> \in requests THEN 1 ELSE 0]]

\* A request of r to m goes out.
Send(r, m) ==
    /\ sent' = [sent EXCEPT ![r] = @ + 1]
    /\ Counted({<<r, m>>})
    /\ last' = Nothing
    /\ UNCHANGED <<users, run>>

\* The decision of r is over: row is what the runner makes of it.
Report(r, row, kind, reported) ==
    /\ run' = [run EXCEPT ![r] = row]
    /\ call' = [call EXCEPT ![r] = Idle]
    /\ sent' = [sent EXCEPT ![r] = 0]
    /\ Counted({})
    /\ last' = [kind |-> kind, reported |-> reported, sent |-> sent[r],
                left |-> Remaining(MaxCalls, run[r].calls)]
    /\ UNCHANGED users

\* The exception reaches the runner, which ends the run.
Raise(r, reported, repairs) ==
    Report(r, [Charge(r, reported, repairs) EXCEPT !.state = "failed"], "failure", reported)

\* The runner counts the result; it ends the run over budget or on a final
\* decision, or goes on with a tool.
Finish(r, reported, repairs) ==
    LET row == Charge(r, reported, repairs) IN
    \E s \in IF WithinBudget(row) THEN {"ready", "done"} ELSE {"done"} :
        Report(r, [row EXCEPT !.state = s], "result", reported)

-----------------------------------------------------------------------------
\* Variant: the breaker is never asked.
AvailableAlways(m, b) == TRUE

\* CircuitBreaker.assert_available: closed, or open for longer than the cooldown.
Available(m, b) == b[m].state # "open"
Reset(m, b) == IF b[m].state = "cooled" THEN [b EXCEPT ![m] = Closed] ELSE b

\* CircuitBreaker.success and failure; kept counts the failures that are still
\* in the window.
Succeeded(m) == [breaker EXCEPT ![m] = Closed]
FailedOnce(m, kept) ==
    [breaker EXCEPT ![m] = [failures |-> Min({kept, Threshold}),
                            state |-> IF kept >= Threshold THEN "open" ELSE @.state]]

\* The number of tries of ModelRouter._call.
Tries(m, budget) == Min({IF m = "flash" THEN 1 ELSE 2, budget})

\* The beginning of ModelRouter._call up to its first request: in mode "first"
\* for decide itself, in mode "fallback" for the failed flash model, in mode
\* "second" for its doubtful answer.  carry and carryRepairs are what was spent
\* before.
Enter(r, m, budget, mode, carry, carryRepairs, start, b) ==
    IF Available(m, b)
    THEN /\ call' = [call EXCEPT ![r] =
                       [at |-> "primary", model |-> m, budget |-> budget, try |-> 1,
                        failed |-> 0, mode |-> mode, carry |-> carry,
                        carryRepairs |-> carryRepairs, start |-> start]]
         /\ breaker' = Reset(m, b)
         /\ Send(r, m)
    ELSE /\ breaker' = b
         /\ Raise(r, IF mode = "fallback" THEN carry ELSE 0, 0)

\* ModelRouter.decide
Decide(r) ==
    /\ r \in users /\ call[r] = Idle /\ run[r].state = "ready" /\ MayDecide(r)
    /\ \E m \in Models :
         LET budget == Remaining(MaxCalls, run[r].calls)
         IN  Enter(r, m, budget, "first", 0, 0, [left |-> budget, flash |-> m = "flash"], breaker)

\* check_before_model refuses.
OverBudget(r) ==
    /\ r \in users /\ call[r] = Idle /\ run[r].state = "ready" /\ ~MayDecide(r)
    /\ run' = [run EXCEPT ![r].state = "done"]
    /\ last' = Nothing
    /\ UNCHANGED <<users, breaker, call, sent, openSends>>

-----------------------------------------------------------------------------
\* Variant: the result of the smaller model is not counted.
SpentSecondOnly(r, n) ==
    (IF call[r].mode = "fallback" THEN call[r].carry ELSE 0) + call[r].failed + n

\* The attempts of a result: _call adds its failed ones, the fallback those of
\* the flash model, _combine_results those of the doubtful answer.
Spent(r, n) == call[r].carry + call[r].failed + n

\* The gateway returns an action after n requests, fixes of them repairs; low:
\* its confidence is below 0.75.
Return(r, n, fixes, low) ==
    LET c == call[r]
        total == Spent(r, n)
        repairs == (IF c.mode = "second" THEN c.carryRepairs ELSE 0) + fixes
    IN  IF c.mode # "second" /\ c.start.flash /\ low /\ total < c.start.left
        THEN Enter(r, "plus", c.start.left - total, "second", total, repairs,
                   c.start, Succeeded(c.model))
        ELSE /\ breaker' = Succeeded(c.model)
             /\ Finish(r, total, repairs)

\* _call sleeps before its second try.
BackOff(r, failed) ==
    /\ call' = [call EXCEPT ![r].at = "backoff", ![r].try = @ + 1, ![r].failed = failed]
    /\ Counted({})
    /\ last' = Nothing
    /\ UNCHANGED <<users, run, sent>>

\* The gateway raises ModelUnavailableError after n requests.
Fail(r, n, retryable) ==
    LET c == call[r]
        failed == c.failed + n
    IN  \E kept \in 1 .. breaker[c.model].failures + 1 :
          LET b == FailedOnce(c.model, kept) IN
          IF c.model = "flash" /\ failed < c.budget
          THEN Enter(r, "plus", c.budget - failed, "fallback", failed, 0, c.start, b)
          ELSE /\ breaker' = b
               /\ IF c.model = "plus" /\ retryable /\ c.try < Tries(c.model, c.budget)
                  THEN BackOff(r, failed)
                  ELSE Raise(r, failed + (IF c.mode = "fallback" THEN c.carry ELSE 0), 0)

\* The gateway raises StructuredOutputError with its own n requests.
Unusable(r, n) ==
    /\ UNCHANGED breaker
    /\ Raise(r, n, n - 1)

\* Variant: the requests that failed are not taken off the gateway's budget.
GatewayBudgetUnreduced(r) == call[r].budget

\* gateway_state.remaining_model_calls
GatewayBudget(r) == Remaining(call[r].budget, call[r].failed)

MayRepair(r) == GatewayBudget(r) > 1 /\ Remaining(MaxRepairs, run[r].repairs) > 0

\* QwenModelGateway.decide: its first request is answered, or fails ...
Primary(r) ==
    /\ call[r].at = "primary"
    /\ \/ \E low \in BOOLEAN : Return(r, 1, 0, low)
       \/ \E retryable \in BOOLEAN : Fail(r, 1, retryable)
       \/ /\ MayRepair(r)
          /\ call' = [call EXCEPT ![r].at = "repair"]
          /\ UNCHANGED breaker
          /\ Send(r, call[r].model)
       \/ ~MayRepair(r) /\ Unusable(r, 1)

\* ... and so is the repair of an answer that did not parse.
Repair(r) ==
    /\ call[r].at = "repair"
    /\ \/ \E low \in BOOLEAN : Return(r, 2, 1, low)
       \/ \E retryable \in BOOLEAN : Fail(r, 2, retryable)
       \/ Unusable(r, 2)

\* The second try of _call does not ask the breaker again.
SecondTry(r) ==
    /\ call[r].at = "backoff"
    /\ call' = [call EXCEPT ![r].at = "primary"]
    /\ UNCHANGED breaker
    /\ Send(r, call[r].model)

-----------------------------------------------------------------------------
\* The cooldown of an open breaker is over.
Cool(m) ==
    /\ breaker[m].state = "open"
    /\ breaker' = [breaker EXCEPT ![m].state = "cooled"]
    /\ Counted({})
    /\ last' = Nothing
    /\ UNCHANGED <<users, run, call, sent>>

\* The job is retried after a failed run: the counters come from the
\* checkpoint, the router is new.
Revive(r) ==
    /\ users = {r} /\ call[r] = Idle /\ run[r].state = "failed"
    /\ run' = [run EXCEPT ![r].state = "ready"]
    /\ breaker' = [m \in Models |-> Closed]
    /\ Counted({})
    /\ last' = Nothing
    /\ UNCHANGED <<users, call, sent>>

\* EvaluationRunner.evaluate: a case is over, and the next one takes its place
\* beside those that are still running.
StartRun(r) ==
    /\ users = Runs /\ call[r] = Idle /\ run[r].state \in {"failed", "done"}
    /\ run' = [run EXCEPT ![r] = NewRun]
    /\ last' = Nothing
    /\ UNCHANGED <<users, breaker, call, sent, openSends>>

Next ==
    \/ \E r \in Runs : \/ Decide(r) \/ OverBudget(r) \/ Primary(r) \/ Repair(r)
                       \/ SecondTry(r) \/ Revive(r) \/ StartRun(r)
    \/ \E m \in Models : Cool(m)

Spec == Init /\ [][Next]_vars

-----------------------------------------------------------------------------

\* One decision makes at most one request more than the run had left.  It does
\* make that one: when the repair of an unusable answer fails with the last
\* request, _call still tries a second time.
OvershootAtMostOne == last.sent <= last.left + 1

\* A decision that returns a result has charged every request it made, the
\* failed and the discarded ones too; one that fails never charges more than it
\* made.
ResultCountsRequests ==
    /\ last.kind = "result" => last.reported = last.sent
    /\ last.reported <= last.sent

\* An open breaker stops every call that begins, whichever run opened it and
\* whatever the others have under way: of each run it lets through only the rest
\* of the one call that had passed the check before, which is a repair, the
\* second try and its repair, until it has cooled or a late answer closes it.
OpenBreakerHolds == \A r \in Runs, m \in Models : openSends[r][m] <= 3
=============================================================================
