------------------------- MODULE ModelRouterProofs --------------------------
(***************************************************************************)
(* Proofs about ModelRouter, for any number of runs, any limits and any    *)
(* threshold: a decision makes at most one request more than the run had   *)
(* left, a result is charged with all of its requests, and an open breaker *)
(* lets through at most three requests of each run.                        *)
(***************************************************************************)
EXTENDS ModelRouter, TLAPS

RunStates == {"ready", "failed", "done"}
RunRows == [calls : Nat, repairs : Nat, steps : Nat, state : RunStates]
BreakerRows == [state : {"closed", "open", "cooled"}, failures : Nat]
Starts == [left : Nat, flash : BOOLEAN]
Modes == {"first", "fallback", "second"}
Calls == [at : {"primary", "repair", "backoff"}, model : Models, budget : Nat, try : {1, 2},
          failed : Nat, mode : Modes, carry : Nat, carryRepairs : Nat, start : Starts]

TypeOK ==
    /\ users \in SUBSET Runs
    /\ run \in [Runs -> RunRows]
    /\ breaker \in [Models -> BreakerRows]
    /\ call \in [Runs -> {Idle} \cup Calls]
    /\ sent \in [Runs -> Nat]
    /\ openSends \in [Runs -> [Models -> Nat]]

\* The budget of a decision: what was spent before and what _call may spend
\* make what the run had left; failed is what _call has spent.  A repair leaves
\* room for itself.
Budgeted(c, left) ==
    /\ c.start.left = left /\ c.carry + c.budget = left /\ c.budget >= 1
    /\ c.failed <= c.budget
    /\ c.try = 1 => c.failed = 0
    /\ c.model = "flash" => c.try = 1 /\ c.mode = "first"
    /\ c.mode = "first" => c.carry = 0
    /\ c.at = "repair" => c.failed + 2 <= c.budget
    /\ c.at = "backoff" => c.try = 2

\* The requests of a decision up to now.
Requests(c) ==
    c.carry + c.failed + (IF c.at = "primary" THEN 1 ELSE IF c.at = "repair" THEN 2 ELSE 0)

\* What a call can have sent through an open breaker: its first request found
\* the breaker not open, none of the later ones asks.
Allowance(c) ==
    IF c.try = 1 THEN (IF c.at = "primary" THEN 0 ELSE 1)
    ELSE IF c.at = "backoff" THEN 1 ELSE IF c.at = "primary" THEN 2 ELSE 3

CallOK(r) ==
    IF call[r] = Idle THEN sent[r] = 0
    ELSE /\ Budgeted(call[r], Remaining(MaxCalls, run[r].calls))
         /\ sent[r] = Requests(call[r])
         /\ openSends[r][call[r].model] <= Allowance(call[r])

ReportOK ==
    /\ last.left \in Nat /\ last.reported \in Nat /\ last.sent \in Nat
    /\ OvershootAtMostOne /\ ResultCountsRequests

RouterInv ==
    /\ TypeOK
    /\ \A r \in Runs : CallOK(r)
    /\ OpenBreakerHolds
    /\ ReportOK

-----------------------------------------------------------------------------
\* Min of the community modules, on two numbers.
LEMMA MinPair ==
    ASSUME NEW a \in Nat, NEW b \in Nat
    PROVE  Min({a, b}) = IF a <= b THEN a ELSE b
<1> DEFINE least == IF a <= b THEN a ELSE b
<1>1. least \in {a, b} /\ \A y \in {a, b} : least <= y
  OBVIOUS
<1>2. \A x \in {a, b} : (\A y \in {a, b} : x <= y) => x = least
  OBVIOUS
<1> QED BY <1>1, <1>2 DEF Min

\* What a run has left is a number.
LEMMA LeftNat ==
    ASSUME RouterInv, NEW r \in Runs
    PROVE  /\ run[r] \in RunRows /\ run[r].calls \in Nat /\ run[r].repairs \in Nat
           /\ Remaining(MaxCalls, run[r].calls) \in Nat
BY RouterAssumption DEF RouterInv, TypeOK, RunRows, Remaining

\* The fields of a call.
LEMMA CallFields ==
    ASSUME NEW c \in Calls
    PROVE  /\ c.at \in {"primary", "repair", "backoff"} /\ c.model \in Models
           /\ c.budget \in Nat /\ c.try \in {1, 2} /\ c.failed \in Nat /\ c.mode \in Modes
           /\ c.carry \in Nat /\ c.carryRepairs \in Nat
           /\ c.start \in Starts /\ c.start.left \in Nat
           /\ Requests(c) \in Nat /\ c # Idle
<1>1. /\ c.at \in {"primary", "repair", "backoff"} /\ c.model \in Models
      /\ c.budget \in Nat /\ c.try \in {1, 2} /\ c.failed \in Nat /\ c.mode \in Modes
      /\ c.carry \in Nat /\ c.carryRepairs \in Nat
      /\ c.start \in Starts /\ c.start.left \in Nat
  BY DEF Calls, Starts
<1>2. Requests(c) \in Nat
  BY <1>1 DEF Requests
<1>3. c # Idle
  BY <1>1 DEF Idle
<1> QED BY <1>1, <1>2, <1>3

\* What is known of a decision in progress.
LEMMA CallFacts ==
    ASSUME RouterInv, NEW r \in Runs, call[r] # Idle
    PROVE  /\ call[r] \in Calls /\ Budgeted(call[r], Remaining(MaxCalls, run[r].calls))
           /\ sent[r] = Requests(call[r])
           /\ openSends[r][call[r].model] <= Allowance(call[r])
BY DEF RouterInv, TypeOK, CallOK

\* A request that is not among the counted ones adds nothing, and a breaker
\* that is not open has let nothing through.
LEMMA CountedFacts ==
    ASSUME RouterInv, NEW requests, Counted(requests)
    PROVE  /\ openSends' \in [Runs -> [Models -> Nat]]
           /\ \A q \in Runs, n \in Models :
                /\ openSends[q][n] \in Nat /\ openSends'[q][n] \in Nat
                /\ openSends'[q][n] <= openSends[q][n] + 1
                /\ <<q, n>> \notin requests => openSends'[q][n] <= openSends[q][n]
                /\ breaker'[n].state # "open" => openSends'[q][n] = 0
<1>1. \A q \in Runs, n \in Models : openSends[q][n] \in Nat
  BY DEF RouterInv, TypeOK
<1> DEFINE count(q, n) == IF breaker'[n].state # "open" THEN 0
                          ELSE openSends[q][n] + IF <<q, n>> \in requests THEN 1 ELSE 0
<1>2. \A q \in Runs, n \in Models :
        /\ count(q, n) \in Nat /\ count(q, n) <= openSends[q][n] + 1
        /\ <<q, n>> \notin requests => count(q, n) <= openSends[q][n]
        /\ breaker'[n].state # "open" => count(q, n) = 0
  BY <1>1
<1>3. openSends' = [q \in Runs |-> [n \in Models |-> count(q, n)]]
  BY DEF Counted
<1> HIDE DEF count
<1> QED BY <1>1, <1>2, <1>3

\* A step without a request lets nothing more through.
LEMMA CountedNone ==
    ASSUME RouterInv, Counted({})
    PROVE  /\ openSends' \in [Runs -> [Models -> Nat]]
           /\ \A q \in Runs, n \in Models :
                /\ openSends[q][n] \in Nat /\ openSends'[q][n] \in Nat
                /\ openSends'[q][n] <= openSends[q][n]
<1> DEFINE none == {}
<1>1. Counted(none) /\ \A q \in Runs, n \in Models : <<q, n>> \notin none
  OBVIOUS
<1> HIDE DEF none
<1> QED BY <1>1, CountedFacts

\* A step of r says nothing new of the decision of another run.
LEMMA OthersOK ==
    ASSUME RouterInv, NEW r \in Runs, NEW q \in Runs, q # r,
           run'[q] = run[q], call'[q] = call[q], sent'[q] = sent[q],
           \A n \in Models : openSends'[q][n] \in Nat /\ openSends'[q][n] <= openSends[q][n]
    PROVE  CallOK(q)'
<1>1. CallOK(q)
  BY DEF RouterInv
<1>2. CASE call[q] = Idle
  BY <1>1, <1>2 DEF CallOK
<1>3. CASE call[q] # Idle
  <2>1. /\ call[q] \in Calls /\ call[q].model \in Models
        /\ openSends[q][call[q].model] \in Nat /\ Allowance(call[q]) \in Nat
    <3>1. call[q] \in Calls
      BY <1>3, CallFacts
    <3>2. call[q].model \in Models
      BY <3>1, CallFields
    <3> QED BY <3>1, <3>2 DEF RouterInv, TypeOK, Allowance
  <2>2. openSends'[q][call[q].model] <= Allowance(call[q])
    BY <1>1, <1>3, <2>1 DEF CallOK
  <2> QED BY <1>1, <1>3, <2>2 DEF CallOK
<1> QED BY <1>2, <1>3

\* No run has more through an open breaker than its calls allow.
LEMMA HoldsAfter ==
    ASSUME RouterInv, NEW r \in Runs, NEW m \in Models,
           \A q \in Runs, n \in Models : openSends'[q][n] \in Nat,
           \A q \in Runs, n \in Models : <<q, n>> # <<r, m>> => openSends'[q][n] <= openSends[q][n],
           openSends'[r][m] <= 3
    PROVE  OpenBreakerHolds'
BY DEF RouterInv, TypeOK, OpenBreakerHolds

-----------------------------------------------------------------------------
\* The decision of r goes on as c, with the request it may have sent.
LEMMA ProceedInv ==
    ASSUME RouterInv, NEW r \in Runs, NEW c \in Calls, call' = [call EXCEPT ![r] = c],
           UNCHANGED <<users, run>>, last' = Nothing,
           sent' = [sent EXCEPT ![r] = Requests(c)],
           Budgeted(c, Remaining(MaxCalls, run[r].calls)),
           NEW requests \in SUBSET {<<r, c.model>>}, Counted(requests),
           breaker' \in [Models -> BreakerRows],
           openSends'[r][c.model] <= Allowance(c)
    PROVE  RouterInv'
<1>1. /\ call \in [Runs -> {Idle} \cup Calls] /\ sent \in [Runs -> Nat]
      /\ run \in [Runs -> RunRows] /\ users \in SUBSET Runs
  BY DEF RouterInv, TypeOK
<1>2. c.model \in Models /\ c # Idle /\ Requests(c) \in Nat
  BY CallFields
<1>3. /\ openSends' \in [Runs -> [Models -> Nat]]
      /\ \A q \in Runs, n \in Models :
           /\ openSends'[q][n] \in Nat
           /\ <<q, n>> # <<r, c.model>> => openSends'[q][n] <= openSends[q][n]
  BY CountedFacts
<1>4. /\ call'[r] = c /\ sent'[r] = Requests(c)
      /\ \A q \in Runs \ {r} : call'[q] = call[q] /\ sent'[q] = sent[q]
  BY <1>1
<1>5. TypeOK'
  BY <1>1, <1>2, <1>3 DEF TypeOK
<1>6. CallOK(r)'
  BY <1>2, <1>4 DEF CallOK
<1>7. \A q \in Runs : CallOK(q)'
  <2> SUFFICES ASSUME NEW q \in Runs, q # r PROVE CallOK(q)'
    BY <1>6
  <2>1. \A n \in Models : openSends'[q][n] \in Nat /\ openSends'[q][n] <= openSends[q][n]
    BY <1>3
  <2> QED BY <1>4, <2>1, OthersOK
<1>8. OpenBreakerHolds'
  <2>1. c.try \in {1, 2} /\ Allowance(c) \in Nat /\ Allowance(c) <= 3
    BY CallFields DEF Allowance
  <2>2. openSends'[r][c.model] <= 3
    BY <1>2, <1>3, <2>1
  <2> QED BY <1>2, <1>3, <2>2, HoldsAfter
<1>9. ReportOK'
  BY DEF ReportOK, Nothing, OvershootAtMostOne, ResultCountsRequests
<1> QED BY <1>5, <1>7, <1>8, <1>9 DEF RouterInv

\* The decision of r is over and reported.
LEMMA ReportInv ==
    ASSUME RouterInv, NEW r \in Runs, NEW row \in RunRows, NEW kind \in {"result", "failure"},
           NEW reported \in Nat, reported <= sent[r], kind = "result" => reported = sent[r],
           sent[r] <= Remaining(MaxCalls, run[r].calls) + 1,
           Report(r, row, kind, reported), breaker' \in [Models -> BreakerRows]
    PROVE  RouterInv'
<1>1. /\ call \in [Runs -> {Idle} \cup Calls] /\ sent \in [Runs -> Nat] /\ sent[r] \in Nat
      /\ run \in [Runs -> RunRows] /\ users \in SUBSET Runs
  BY DEF RouterInv, TypeOK
<1>2. /\ run' = [run EXCEPT ![r] = row] /\ call' = [call EXCEPT ![r] = Idle]
      /\ sent' = [sent EXCEPT ![r] = 0] /\ users' = users
  BY DEF Report
<1>3. /\ openSends' \in [Runs -> [Models -> Nat]]
      /\ \A q \in Runs, n \in Models :
           openSends'[q][n] \in Nat /\ openSends'[q][n] <= openSends[q][n]
  BY CountedNone DEF Report
<1>4. /\ call'[r] = Idle /\ sent'[r] = 0
      /\ \A q \in Runs \ {r} : call'[q] = call[q] /\ sent'[q] = sent[q] /\ run'[q] = run[q]
  BY <1>1, <1>2
<1>5. TypeOK'
  BY <1>1, <1>2, <1>3 DEF TypeOK
<1>6. \A q \in Runs : CallOK(q)'
  <2> SUFFICES ASSUME NEW q \in Runs PROVE CallOK(q)'
    OBVIOUS
  <2>1. CASE q = r
    BY <1>4, <2>1 DEF CallOK
  <2>2. CASE q # r
    BY <1>3, <1>4, <2>2, OthersOK
  <2> QED BY <2>1, <2>2
<1>7. OpenBreakerHolds'
  BY <1>3 DEF RouterInv, TypeOK, OpenBreakerHolds
<1>8. ReportOK'
  <2>1. /\ last'.left = Remaining(MaxCalls, run[r].calls) /\ last'.sent = sent[r]
        /\ last'.reported = reported /\ last'.kind = kind
    BY DEF Report
  <2> QED BY <1>1, <2>1, LeftNat DEF ReportOK, OvershootAtMostOne, ResultCountsRequests
<1> QED BY <1>5, <1>6, <1>7, <1>8 DEF RouterInv

\* The counters after a decision.
LEMMA ChargeTyped ==
    ASSUME RouterInv, NEW r \in Runs, NEW reported \in Nat, NEW repairs \in Nat,
           NEW s \in RunStates
    PROVE  [Charge(r, reported, repairs) EXCEPT !.state = s] \in RunRows
<1>1. /\ run[r] \in RunRows /\ run[r].calls + reported \in Nat
      /\ run[r].repairs + repairs \in Nat /\ run[r].steps + 1 \in Nat
  BY DEF RouterInv, TypeOK, RunRows
<1>2. Charge(r, reported, repairs) \in RunRows
  <2> DEFINE a == run[r].calls + reported
             b == run[r].repairs + repairs
             d == run[r].steps + 1
  <2>1. Charge(r, reported, repairs) = [run[r] EXCEPT !.calls = a, !.repairs = b, !.steps = d]
    BY DEF Charge
  <2> HIDE DEF a, b, d
  <2>2. \A x, y, z \in Nat : [run[r] EXCEPT !.calls = x, !.repairs = y, !.steps = z] \in RunRows
    BY <1>1 DEF RunRows
  <2>3. a \in Nat /\ b \in Nat /\ d \in Nat
    BY <1>1 DEF a, b, d
  <2>4. [run[r] EXCEPT !.calls = a, !.repairs = b, !.steps = d] \in RunRows
    BY <2>2, <2>3
  <2> QED BY <2>1, <2>4
<1>3. \A row \in RunRows : [row EXCEPT !.state = s] \in RunRows
  BY DEF RunRows
<1> QED BY <1>2, <1>3

\* A decision that fails is reported with no more than it sent.
LEMMA RaiseInv ==
    ASSUME RouterInv, NEW r \in Runs, NEW reported \in Nat, NEW repairs \in Nat,
           Raise(r, reported, repairs), reported <= sent[r],
           sent[r] <= Remaining(MaxCalls, run[r].calls) + 1,
           breaker' \in [Models -> BreakerRows]
    PROVE  RouterInv'
<1>1. [Charge(r, reported, repairs) EXCEPT !.state = "failed"] \in RunRows
  BY ChargeTyped DEF RunStates
<1> QED BY <1>1, ReportInv DEF Raise

\* A decision that returns a result is reported with what it sent.
LEMMA FinishInv ==
    ASSUME RouterInv, NEW r \in Runs, NEW repairs \in Nat, Finish(r, sent[r], repairs),
           sent[r] <= Remaining(MaxCalls, run[r].calls) + 1,
           breaker' \in [Models -> BreakerRows]
    PROVE  RouterInv'
<1>1. sent[r] \in Nat
  BY DEF RouterInv, TypeOK
<1>2. PICK s \in RunStates :
        Report(r, [Charge(r, sent[r], repairs) EXCEPT !.state = s], "result", sent[r])
  BY DEF Finish, RunStates
<1>3. [Charge(r, sent[r], repairs) EXCEPT !.state = s] \in RunRows
  BY <1>1, ChargeTyped
<1> QED BY <1>1, <1>2, <1>3, ReportInv

\* The breaker of the model that is asked lets the call through.
LEMMA EnterInv ==
    ASSUME RouterInv, NEW r \in Runs, NEW m \in Models, NEW budget \in Nat, budget >= 1,
           NEW mode \in Modes, NEW carry \in Nat, NEW carryRepairs \in Nat, NEW start \in Starts,
           start.left = Remaining(MaxCalls, run[r].calls), carry + budget = start.left,
           m = "flash" => mode = "first", mode = "first" => carry = 0,
           NEW b \in [Models -> BreakerRows], sent[r] = carry,
           Enter(r, m, budget, mode, carry, carryRepairs, start, b)
    PROVE  RouterInv'
<1> DEFINE c == [at |-> "primary", model |-> m, budget |-> budget, try |-> 1, failed |-> 0,
                 mode |-> mode, carry |-> carry, carryRepairs |-> carryRepairs,
                 start |-> start]
<1>1. CASE Available(m, b)
  <2>1. call' = [call EXCEPT ![r] = c] /\ breaker' = Reset(m, b) /\ Send(r, m)
    BY <1>1 DEF Enter
  <2>2. c \in Calls /\ c.model = m /\ c.at = "primary" /\ c.try = 1
    BY DEF Calls
  <2>3. Budgeted(c, Remaining(MaxCalls, run[r].calls))
    BY DEF Budgeted
  <2>4. Requests(c) = carry + 1
    BY DEF Requests
  <2>5. sent' = [sent EXCEPT ![r] = Requests(c)]
    BY <2>1, <2>4 DEF Send
  <2>6. breaker' \in [Models -> BreakerRows] /\ breaker'[m].state # "open"
    BY <1>1, <2>1 DEF Reset, Available, BreakerRows, Closed
  <2>7. Counted({<<r, m>>}) /\ last' = Nothing /\ UNCHANGED <<users, run>>
    BY <2>1 DEF Send
  <2>8. openSends'[r][m] <= Allowance(c)
    <3>1. openSends'[r][m] = 0
      BY <2>6, <2>7, CountedFacts
    <3> QED BY <2>2, <3>1 DEF Allowance
  <2>9. {<<r, m>>} \in SUBSET {<<r, c.model>>}
    BY <2>2
  <2> HIDE DEF c
  <2> QED BY <2>1, <2>2, <2>3, <2>5, <2>6, <2>7, <2>8, <2>9, ProceedInv
<1>2. CASE ~Available(m, b)
  <2>1. \E reported \in {carry, 0} : Raise(r, reported, 0)
    BY <1>2 DEF Enter
  <2>2. PICK reported \in Nat : Raise(r, reported, 0) /\ reported <= sent[r]
    BY <2>1
  <2>3. sent[r] <= Remaining(MaxCalls, run[r].calls) + 1 /\ breaker' \in [Models -> BreakerRows]
    BY <1>2 DEF Enter
  <2> QED BY <2>2, <2>3, RaiseInv
<1> QED BY <1>1, <1>2

-----------------------------------------------------------------------------
\* The breaker after a failure.
LEMMA FailedOnceTyped ==
    ASSUME RouterInv, NEW m \in Models, NEW kept \in 1 .. breaker[m].failures + 1
    PROVE  FailedOnce(m, kept) \in [Models -> BreakerRows]
<1>1. breaker \in [Models -> BreakerRows] /\ breaker[m] \in BreakerRows
  BY DEF RouterInv, TypeOK
<1>2. kept \in Nat /\ Min({kept, Threshold}) \in Nat
  BY <1>1, MinPair, RouterAssumption DEF BreakerRows
<1>3. [failures |-> Min({kept, Threshold}),
       state |-> IF kept >= Threshold THEN "open" ELSE breaker[m].state] \in BreakerRows
  BY <1>1, <1>2 DEF BreakerRows
<1> QED BY <1>1, <1>3 DEF FailedOnce

\* The breaker after a success.
LEMMA SucceededTyped ==
    ASSUME RouterInv, NEW m \in Models
    PROVE  Succeeded(m) \in [Models -> BreakerRows]
BY DEF RouterInv, TypeOK, Succeeded, Closed, BreakerRows

\* The gateway has made n requests for this try of r when it answers.
Answered(r, n) ==
    /\ call[r] # Idle /\ n \in {1, 2}
    /\ sent[r] = call[r].carry + call[r].failed + n
    /\ n = 2 => call[r].failed + 2 <= call[r].budget

\* What is known when the gateway answers.
LEMMA AnsweredFacts ==
    ASSUME RouterInv, NEW r \in Runs, NEW n, Answered(r, n)
    PROVE  /\ n \in {1, 2} /\ sent[r] \in Nat
           /\ call[r].start.left = Remaining(MaxCalls, run[r].calls)
           /\ sent[r] = call[r].carry + (call[r].failed + n) /\ call[r].failed + n \in Nat
           /\ sent[r] <= call[r].start.left + 1
<1>1. call[r] \in Calls /\ Budgeted(call[r], Remaining(MaxCalls, run[r].calls))
  BY CallFacts DEF Answered
<1>2. /\ call[r].carry \in Nat /\ call[r].failed \in Nat /\ call[r].budget \in Nat
      /\ call[r].start.left \in Nat
  BY <1>1, CallFields
<1>3. n \in {1, 2} /\ sent[r] = call[r].carry + call[r].failed + n
  BY DEF Answered
<1>4. /\ call[r].carry + call[r].budget = call[r].start.left
      /\ call[r].failed <= call[r].budget
      /\ call[r].start.left = Remaining(MaxCalls, run[r].calls)
      /\ n = 2 => call[r].failed + 2 <= call[r].budget
  BY <1>1 DEF Answered, Budgeted
<1> QED BY <1>2, <1>3, <1>4

\* An answer ends the decision or asks the larger model with what is left.
LEMMA ReturnInv ==
    ASSUME RouterInv, NEW r \in Runs, NEW n, Answered(r, n), NEW fixes \in {0, 1},
           NEW low \in BOOLEAN, Return(r, n, fixes, low)
    PROVE  RouterInv'
<1>1. call[r] \in Calls
  BY CallFacts DEF Answered
<1>2. /\ call[r].carry \in Nat /\ call[r].failed \in Nat /\ call[r].carryRepairs \in Nat
      /\ call[r].start \in Starts /\ call[r].start.left \in Nat /\ call[r].model \in Models
  BY <1>1, CallFields
<1>3. /\ call[r].start.left = Remaining(MaxCalls, run[r].calls)
      /\ sent[r] \in Nat /\ sent[r] <= call[r].start.left + 1
  BY AnsweredFacts
<1>4. Spent(r, n) = sent[r]
  BY <1>2 DEF Spent, Answered
<1> DEFINE repairs == (IF call[r].mode = "second" THEN call[r].carryRepairs ELSE 0) + fixes
<1>5. repairs \in Nat
  BY <1>2
<1> HIDE DEF repairs
<1>6. CASE Finish(r, sent[r], repairs) /\ breaker' = Succeeded(call[r].model)
  BY <1>2, <1>3, <1>5, <1>6, SucceededTyped, FinishInv
<1>7. CASE /\ sent[r] < call[r].start.left
           /\ Enter(r, "plus", call[r].start.left - sent[r], "second", sent[r], repairs,
                    call[r].start, Succeeded(call[r].model))
  <2>1. /\ call[r].start.left - sent[r] \in Nat /\ call[r].start.left - sent[r] >= 1
        /\ sent[r] + (call[r].start.left - sent[r]) = call[r].start.left
    BY <1>2, <1>3, <1>7
  <2>2. /\ "plus" \in Models /\ "second" \in Modes
        /\ Succeeded(call[r].model) \in [Models -> BreakerRows]
    BY <1>2, SucceededTyped DEF Models, Modes
  <2> QED BY <1>2, <1>3, <1>5, <1>7, <2>1, <2>2, EnterInv
<1> QED BY <1>4, <1>6, <1>7 DEF Return, repairs

\* A second try comes after a sleep; what got through the open breaker was a
\* repair at most.
LEMMA BackOffInv ==
    ASSUME RouterInv, NEW r \in Runs, NEW n, Answered(r, n), call[r].model = "plus",
           call[r].try < Tries("plus", call[r].budget), call[r].at # "backoff",
           BackOff(r, call[r].failed + n), breaker' \in [Models -> BreakerRows]
    PROVE  RouterInv'
<1>1. call[r] \in Calls /\ Budgeted(call[r], Remaining(MaxCalls, run[r].calls))
  BY CallFacts DEF Answered
<1>2. /\ call[r].carry \in Nat /\ call[r].failed \in Nat /\ call[r].budget \in Nat
      /\ call[r].try \in {1, 2} /\ call[r].at \in {"primary", "repair", "backoff"}
  BY <1>1, CallFields
<1>3. call[r].try = 1 /\ call[r].budget >= 2 /\ call[r].failed = 0
  BY <1>1, <1>2, MinPair DEF Tries, Budgeted
<1>4. n \in {1, 2} /\ sent[r] = call[r].carry + call[r].failed + n
  BY DEF Answered
<1> DEFINE f == call[r].failed + n
           t == call[r].try + 1
           c == [call[r] EXCEPT !.at = "backoff", !.try = t, !.failed = f]
<1>5. f \in Nat /\ f <= call[r].budget /\ f >= 1 /\ t = 2 /\ sent[r] = call[r].carry + f
  BY <1>2, <1>3, <1>4
<1>6. call' = [call EXCEPT ![r] = c]
  <2>1. call \in [Runs -> {Idle} \cup Calls]
    BY DEF RouterInv, TypeOK
  <2> QED BY <2>1 DEF BackOff
<1> HIDE DEF f, t
<1>7. /\ c.at = "backoff" /\ c.try = 2 /\ c.failed = f /\ c.model = call[r].model
      /\ c.budget = call[r].budget /\ c.carry = call[r].carry /\ c.mode = call[r].mode
      /\ c.start = call[r].start /\ c \in Calls
  BY <1>1, <1>5 DEF Calls
<1>8. Budgeted(c, Remaining(MaxCalls, run[r].calls))
  BY <1>1, <1>5, <1>7 DEF Budgeted
<1>9. /\ Requests(c) = sent[r]
      /\ sent' = [sent EXCEPT ![r] = Requests(c)]
  <2>1. Requests(c) = sent[r]
    BY <1>2, <1>5, <1>7 DEF Requests
  <2>2. sent \in [Runs -> Nat] /\ sent' = sent
    BY DEF RouterInv, TypeOK, BackOff
  <2> QED BY <2>1, <2>2
<1>10. openSends'[r][c.model] <= Allowance(c)
  <2>1. /\ openSends[r][call[r].model] <= Allowance(call[r])
        /\ openSends'[r][c.model] <= openSends[r][c.model]
        /\ openSends'[r][c.model] \in Nat /\ openSends[r][c.model] \in Nat
    <3>1. call[r].model \in Models /\ Counted({})
      BY <1>1, CallFields DEF BackOff
    <3>2. openSends[r][call[r].model] <= Allowance(call[r])
      BY CallFacts DEF Answered
    <3> QED BY <1>7, <3>1, <3>2, CountedNone
  <2>2. Allowance(call[r]) \in {0, 1} /\ Allowance(c) = 1
    BY <1>2, <1>3, <1>7 DEF Allowance
  <2> QED BY <1>7, <2>1, <2>2
<1>11. Counted({}) /\ last' = Nothing /\ UNCHANGED <<users, run>>
  BY DEF BackOff
<1> HIDE DEF c
<1> QED BY <1>6, <1>7, <1>8, <1>9, <1>10, <1>11, ProceedInv

\* A failed try ends the decision, is repeated once, or falls back to the
\* larger model; the repeated one may be the request too many.
LEMMA FailInv ==
    ASSUME RouterInv, NEW r \in Runs, NEW n, Answered(r, n), call[r].at # "backoff",
           NEW retryable \in BOOLEAN, Fail(r, n, retryable)
    PROVE  RouterInv'
<1>1. call[r] \in Calls /\ Budgeted(call[r], Remaining(MaxCalls, run[r].calls))
  BY CallFacts DEF Answered
<1>2. /\ call[r].carry \in Nat /\ call[r].failed \in Nat /\ call[r].budget \in Nat
      /\ call[r].model \in Models /\ call[r].start \in Starts /\ call[r].start.left \in Nat
  BY <1>1, CallFields
<1>3. /\ call[r].start.left = Remaining(MaxCalls, run[r].calls)
      /\ sent[r] = call[r].carry + (call[r].failed + n) /\ call[r].failed + n \in Nat
      /\ sent[r] \in Nat /\ sent[r] <= call[r].start.left + 1
  BY AnsweredFacts
<1> DEFINE f == call[r].failed + n
<1>4. PICK b \in [Models -> BreakerRows] :
        IF call[r].model = "flash" /\ f < call[r].budget
        THEN Enter(r, "plus", call[r].budget - f, "fallback", f, 0, call[r].start, b)
        ELSE /\ breaker' = b
             /\ IF call[r].model = "plus" /\ retryable
                     /\ call[r].try < Tries(call[r].model, call[r].budget)
                THEN BackOff(r, f)
                ELSE Raise(r, f + (IF call[r].mode = "fallback" THEN call[r].carry ELSE 0), 0)
  BY <1>2, FailedOnceTyped DEF Fail
<1>5. CASE \E reported \in {f + call[r].carry, f + 0} : Raise(r, reported, 0) /\ breaker' = b
  <2>1. PICK reported \in Nat : Raise(r, reported, 0) /\ breaker' = b /\ reported <= sent[r]
    BY <1>2, <1>3, <1>5
  <2> QED BY <1>3, <2>1, RaiseInv
<1>6. CASE /\ call[r].model = "flash" /\ f < call[r].budget
           /\ Enter(r, "plus", call[r].budget - f, "fallback", f, 0, call[r].start, b)
  <2>1. /\ call[r].carry = 0 /\ call[r].budget = call[r].start.left
    BY <1>1, <1>2, <1>6 DEF Budgeted
  <2>2. /\ call[r].budget - f \in Nat /\ call[r].budget - f >= 1
        /\ f + (call[r].budget - f) = call[r].start.left /\ sent[r] = f
    BY <1>2, <1>3, <1>6, <2>1
  <2>3. "plus" \in Models /\ "fallback" \in Modes /\ f \in Nat
    BY <1>3 DEF Models, Modes
  <2> QED BY <1>2, <1>3, <1>6, <2>2, <2>3, EnterInv
<1>7. CASE /\ call[r].model = "plus" /\ breaker' = b
           /\ call[r].try < Tries(call[r].model, call[r].budget) /\ BackOff(r, f)
  BY <1>7, BackOffInv
<1> QED BY <1>4, <1>5, <1>6, <1>7

\* An answer that cannot be repaired ends the decision.
LEMMA UnusableInv ==
    ASSUME RouterInv, NEW r \in Runs, NEW n, Answered(r, n), Unusable(r, n)
    PROVE  RouterInv'
<1>1. call[r].carry \in Nat /\ call[r].failed \in Nat
  BY CallFacts, CallFields DEF Answered
<1>2. /\ n \in {1, 2} /\ sent[r] = call[r].carry + (call[r].failed + n)
      /\ sent[r] <= Remaining(MaxCalls, run[r].calls) + 1
  BY AnsweredFacts
<1>3. n \in Nat /\ n - 1 \in Nat /\ n <= sent[r]
  BY <1>1, <1>2
<1>4. Raise(r, n, n - 1) /\ breaker' \in [Models -> BreakerRows]
  BY DEF Unusable, RouterInv, TypeOK
<1> QED BY <1>2, <1>3, <1>4, RaiseInv

\* A repair, or the first request of the second try, goes out unasked.
LEMMA UnaskedInv ==
    ASSUME RouterInv, NEW r \in Runs, call[r] # Idle, NEW at \in {"primary", "repair"},
           call' = [call EXCEPT ![r].at = at], UNCHANGED breaker, Send(r, call[r].model),
           \/ call[r].at = "primary" /\ at = "repair" /\ call[r].failed + 2 <= call[r].budget
           \/ call[r].at = "backoff" /\ at = "primary"
    PROVE  RouterInv'
<1>1. call[r] \in Calls /\ Budgeted(call[r], Remaining(MaxCalls, run[r].calls))
  BY CallFacts
<1>2. /\ call[r].carry \in Nat /\ call[r].failed \in Nat /\ call[r].try \in {1, 2}
      /\ call[r].model \in Models
  BY <1>1, CallFields
<1> DEFINE c == [call[r] EXCEPT !.at = at]
<1>3. call' = [call EXCEPT ![r] = c]
  <2>1. call \in [Runs -> {Idle} \cup Calls]
    BY DEF RouterInv, TypeOK
  <2> QED BY <2>1
<1>4. /\ c \in Calls /\ c.at = at /\ c.try = call[r].try /\ c.failed = call[r].failed
      /\ c.model = call[r].model /\ c.budget = call[r].budget /\ c.carry = call[r].carry
      /\ c.mode = call[r].mode /\ c.start = call[r].start
  BY <1>1 DEF Calls
<1>5. Budgeted(c, Remaining(MaxCalls, run[r].calls))
  BY <1>1, <1>4 DEF Budgeted
<1>6. sent' = [sent EXCEPT ![r] = Requests(c)]
  <2>1. sent[r] = Requests(call[r])
    BY CallFacts
  <2>2. Requests(c) = Requests(call[r]) + 1
    BY <1>2, <1>4 DEF Requests
  <2> QED BY <2>1, <2>2 DEF Send
<1>7. openSends'[r][c.model] <= Allowance(c)
  <2>1. /\ openSends[r][call[r].model] <= Allowance(call[r])
        /\ openSends'[r][c.model] <= openSends[r][c.model] + 1
        /\ openSends'[r][c.model] \in Nat /\ openSends[r][c.model] \in Nat
    BY <1>2, <1>4, CallFacts, CountedFacts DEF Send
  <2>2. /\ Allowance(call[r]) \in Nat /\ Allowance(c) = Allowance(call[r]) + 1
    BY <1>1, <1>2, <1>4 DEF Allowance, Budgeted
  <2> QED BY <1>4, <2>1, <2>2
<1>8. /\ Counted({<<r, c.model>>}) /\ last' = Nothing /\ UNCHANGED <<users, run>>
      /\ breaker' \in [Models -> BreakerRows]
  BY <1>4 DEF Send, RouterInv, TypeOK
<1> HIDE DEF c
<1> QED BY <1>3, <1>4, <1>5, <1>6, <1>7, <1>8, ProceedInv

-----------------------------------------------------------------------------
\* The first request of a try.
LEMMA PrimaryInv ==
    ASSUME RouterInv, NEW r \in Runs, Primary(r)
    PROVE  RouterInv'
<1>1. call[r] # Idle /\ call[r].at = "primary"
  BY DEF Primary, Idle
<1>2. /\ call[r] \in Calls /\ sent[r] = Requests(call[r])
  BY <1>1, CallFacts
<1>3. Answered(r, 1)
  BY <1>1, <1>2 DEF Answered, Requests
<1>4. CASE /\ MayRepair(r) /\ call' = [call EXCEPT ![r].at = "repair"]
           /\ UNCHANGED breaker /\ Send(r, call[r].model)
  <2>1. call[r].failed + 2 <= call[r].budget
    BY <1>2, <1>4, CallFields DEF MayRepair, GatewayBudget, Remaining
  <2> QED BY <1>1, <1>4, <2>1, UnaskedInv
<1> QED BY <1>1, <1>3, <1>4, ReturnInv, FailInv, UnusableInv DEF Primary

\* The repair, for which the budget had room.
LEMMA RepairInv ==
    ASSUME RouterInv, NEW r \in Runs, Repair(r)
    PROVE  RouterInv'
<1>1. call[r] # Idle /\ call[r].at = "repair"
  BY DEF Repair, Idle
<1>2. /\ call[r] \in Calls /\ sent[r] = Requests(call[r])
      /\ Budgeted(call[r], Remaining(MaxCalls, run[r].calls))
  BY <1>1, CallFacts
<1>3. Answered(r, 2)
  BY <1>1, <1>2 DEF Answered, Requests, Budgeted
<1> QED BY <1>1, <1>3, ReturnInv, FailInv, UnusableInv DEF Repair

\* The second try.
LEMMA SecondTryInv ==
    ASSUME RouterInv, NEW r \in Runs, SecondTry(r)
    PROVE  RouterInv'
<1>1. call[r] # Idle
  BY DEF SecondTry, Idle
<1> QED BY <1>1, UnaskedInv DEF SecondTry

\* A decision starts with what the run has left.
LEMMA DecideInv ==
    ASSUME RouterInv, NEW r \in Runs, Decide(r)
    PROVE  RouterInv'
<1> DEFINE budget == Remaining(MaxCalls, run[r].calls)
<1>1. PICK m \in Models :
        Enter(r, m, budget, "first", 0, 0, [left |-> budget, flash |-> m = "flash"], breaker)
  BY DEF Decide
<1>2. budget \in Nat /\ budget >= 1
  BY RouterAssumption, LeftNat DEF Decide, MayDecide, Remaining
<1> HIDE DEF budget
<1>3. /\ [left |-> budget, flash |-> m = "flash"] \in Starts
      /\ [left |-> budget, flash |-> m = "flash"].left = budget /\ 0 + budget = budget
  BY <1>2 DEF Starts
<1>4. /\ sent[r] = 0 /\ breaker \in [Models -> BreakerRows] /\ "first" \in Modes
  BY DEF Decide, RouterInv, TypeOK, CallOK, Modes
<1> QED BY <1>1, <1>2, <1>3, <1>4, EnterInv DEF budget

\* Between requests only breakers, and runs that are not deciding, are touched.
LEMMA BetweenInv ==
    ASSUME RouterInv, UNCHANGED <<users, call, sent>>, last' = Nothing,
           run' \in [Runs -> RunRows], breaker' \in [Models -> BreakerRows],
           \A q \in Runs : call[q] # Idle => run'[q] = run[q],
           Counted({}) \/ UNCHANGED openSends
    PROVE  RouterInv'
<1>1. /\ openSends' \in [Runs -> [Models -> Nat]]
      /\ \A q \in Runs, n \in Models :
           /\ openSends[q][n] \in Nat /\ openSends'[q][n] \in Nat
           /\ openSends'[q][n] <= openSends[q][n]
  <2>1. CASE Counted({})
    BY <2>1, CountedNone
  <2>2. CASE UNCHANGED openSends
    BY <2>2 DEF RouterInv, TypeOK
  <2> QED BY <2>1, <2>2
<1>2. TypeOK'
  BY <1>1 DEF RouterInv, TypeOK
<1>3. \A q \in Runs : CallOK(q)'
  <2> SUFFICES ASSUME NEW q \in Runs PROVE CallOK(q)'
    OBVIOUS
  <2>1. CASE call[q] = Idle
    BY <2>1 DEF RouterInv, CallOK
  <2>2. CASE call[q] # Idle
    <3>1. /\ call[q] \in Calls /\ openSends[q][call[q].model] <= Allowance(call[q])
          /\ call[q].model \in Models /\ Allowance(call[q]) \in Nat
      BY <2>2, CallFacts, CallFields DEF Allowance
    <3>2. openSends'[q][call[q].model] <= Allowance(call[q])
      BY <1>1, <3>1
    <3> QED BY <2>2, <3>2 DEF RouterInv, CallOK
  <2> QED BY <2>1, <2>2
<1>4. OpenBreakerHolds'
  BY <1>1 DEF RouterInv, OpenBreakerHolds
<1>5. ReportOK'
  BY DEF ReportOK, Nothing, OvershootAtMostOne, ResultCountsRequests
<1> QED BY <1>2, <1>3, <1>4, <1>5 DEF RouterInv

\* A run ends, is retried or makes room for the next case.
LEMMA RunMovesInv ==
    ASSUME RouterInv, NEW r \in Runs, OverBudget(r) \/ Revive(r) \/ StartRun(r)
    PROVE  RouterInv'
<1>1. run \in [Runs -> RunRows] /\ breaker \in [Models -> BreakerRows]
  BY DEF RouterInv, TypeOK
<1>2. \A s \in RunStates : [run[r] EXCEPT !.state = s] \in RunRows
  BY <1>1 DEF RunRows
<1>3. PICK row \in RunRows : run' = [run EXCEPT ![r] = row]
  BY <1>1, <1>2 DEF OverBudget, Revive, StartRun, RunStates, NewRun, RunRows
<1>4. run' \in [Runs -> RunRows] /\ \A q \in Runs : q # r => run'[q] = run[q]
  BY <1>1, <1>3
<1>5. call[r] = Idle /\ UNCHANGED <<users, call, sent>> /\ last' = Nothing
  BY DEF OverBudget, Revive, StartRun
<1>6. breaker' \in [Models -> BreakerRows]
  BY <1>1 DEF OverBudget, Revive, StartRun, Closed, BreakerRows
<1>7. Counted({}) \/ UNCHANGED openSends
  BY DEF OverBudget, Revive, StartRun
<1>8. \A q \in Runs : call[q] # Idle => run'[q] = run[q]
  BY <1>4, <1>5
<1> QED BY <1>4, <1>5, <1>6, <1>7, <1>8, BetweenInv

\* A breaker that has cooled starts over.
LEMMA CoolInv ==
    ASSUME RouterInv, NEW m \in Models, Cool(m)
    PROVE  RouterInv'
<1>1. breaker \in [Models -> BreakerRows] /\ run \in [Runs -> RunRows]
  BY DEF RouterInv, TypeOK
<1>2. [breaker[m] EXCEPT !.state = "cooled"] \in BreakerRows
  BY <1>1 DEF BreakerRows
<1>3. breaker' \in [Models -> BreakerRows]
  BY <1>1, <1>2 DEF Cool
<1> QED BY <1>1, <1>3, BetweenInv DEF Cool

\* Nothing was requested at first.
LEMMA InitInv == Init => RouterInv
<1> SUFFICES ASSUME Init PROVE RouterInv
  OBVIOUS
<1> USE DEF Init, NewRun, Closed, Nothing
<1>1. TypeOK
  BY DEF TypeOK, RunRows, RunStates, BreakerRows
<1>2. (\A r \in Runs : CallOK(r)) /\ OpenBreakerHolds
  BY DEF CallOK, OpenBreakerHolds
<1>3. ReportOK
  BY DEF ReportOK, OvershootAtMostOne, ResultCountsRequests
<1> QED BY <1>1, <1>2, <1>3 DEF RouterInv

\* The invariant is inductive.
LEMMA NextInv == RouterInv /\ [Next]_vars => RouterInv'
<1> SUFFICES ASSUME RouterInv, [Next]_vars PROVE RouterInv'
  OBVIOUS
<1>1. CASE UNCHANGED vars
  BY <1>1 DEF vars, RouterInv, TypeOK, CallOK, OpenBreakerHolds, ReportOK,
              OvershootAtMostOne, ResultCountsRequests
<1>2. ASSUME NEW r \in Runs,
             \/ Decide(r) \/ OverBudget(r) \/ Primary(r) \/ Repair(r)
             \/ SecondTry(r) \/ Revive(r) \/ StartRun(r)
      PROVE  RouterInv'
  BY <1>2, DecideInv, PrimaryInv, RepairInv, SecondTryInv, RunMovesInv
<1> QED BY <1>1, <1>2, CoolInv DEF Next

\* The budgets of the decisions in progress, their requests and the breakers
\* fit together in every reachable state.
THEOREM RouterInvariant == Spec => []RouterInv
BY InitInv, NextInv, PTL DEF Spec

\* A decision makes at most one request more than the run had left.
THEOREM OvershootIsAtMostOne == Spec => []OvershootAtMostOne
<1>1. RouterInv => OvershootAtMostOne
  BY DEF RouterInv, ReportOK
<1> QED BY <1>1, RouterInvariant, PTL

\* A result is charged with every request of its decision, a failure with no
\* more than were made.
THEOREM ResultsCountRequests == Spec => []ResultCountsRequests
<1>1. RouterInv => ResultCountsRequests
  BY DEF RouterInv, ReportOK
<1> QED BY <1>1, RouterInvariant, PTL

\* Of each of the runs that share a router, however many are in progress, an
\* open breaker lets through at most the rest of one call: three requests.
THEOREM OpenBreakersHold == Spec => []OpenBreakerHolds
<1>1. RouterInv => OpenBreakerHolds
  BY DEF RouterInv
<1> QED BY <1>1, RouterInvariant, PTL
=============================================================================
