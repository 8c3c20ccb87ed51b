------------------------------ MODULE RunLease ------------------------------
(***************************************************************************)
(* The lease and fencing protocol of one AgentRun row                      *)
(* (app/harness/lease.py): which worker may write on behalf of the run.    *)
(*                                                                         *)
(* Every attempt builds a RunLeaseManager with a fresh owner uuid and      *)
(* acquires at most once, so the owner column and the fencing token change *)
(* together: an attempt is identified by the token it was granted, and     *)
(* lease = "none" stands for lease_owner = lease_expires_at = NULL.        *)
(* Every operation runs under the FOR UPDATE lock of the run row, hence is *)
(* one atomic step.                                                        *)
(***************************************************************************)
EXTENDS Naturals

CONSTANTS Workers,      \* attempts that may execute the run
          MaxAttempts   \* job.max_attempts: acquisitions are bounded by it

ASSUME AttemptsAssumption == MaxAttempts \in Nat \ {0}

VARIABLES runStatus,     \* AgentRun.status
          fencingToken,  \* AgentRun.fencing_token
          lease,         \* "none", "live" (expires_at > now) or "expired"
          token,         \* token[w]: RunLease.fencing_token in w's memory, 0 = no lease
          cancelling     \* workers that caught RunCancelledError from acquire()

leaseVars == <<runStatus, fencingToken, lease, token, cancelling>>

RunStatus == {"RUNNING", "COMPLETED", "FAILED", "STALLED",
              "CANCEL_REQUESTED", "CANCELLED"}
Cancelling == {"CANCEL_REQUESTED", "CANCELLED"}

LeaseTypeOK ==
    /\ runStatus \in RunStatus
    /\ fencingToken \in 0..MaxAttempts
    /\ lease \in {"none", "live", "expired"}
    /\ token \in [Workers -> 0..MaxAttempts]
    /\ cancelling \subseteq Workers

\* AgentDiagnosisService.execute_job commits the row as RUNNING, token 0.
LeaseInit ==
    /\ runStatus = "RUNNING"
    /\ fencingToken = 0
    /\ lease = "none"
    /\ token = [w \in Workers |-> 0]
    /\ cancelling = {}

-----------------------------------------------------------------------------
\* A fence that forgets to compare the tokens.
FenceWithoutToken(w) == token[w] # 0 /\ lease = "live"

\* _assert_run_fence: the token is the newest one and the lease has not expired.
Fence(w) ==
    /\ token[w] # 0
    /\ token[w] = fencingToken
    /\ lease = "live"

Idle(w) == token[w] = 0 /\ w \notin cancelling

\* The token handed out is the old one: two attempts share it.
NextTokenReused == IF fencingToken = 0 THEN 1 ELSE fencingToken

\* run.fencing_token += 1
NextToken == fencingToken + 1

\* acquire(): the two refusals (RunCancelledError, LeaseUnavailableError) do
\* not apply.
Acquirable == runStatus \notin Cancelling /\ lease # "live"

\* acquire(): take the lease over; any status but a cancelled one becomes
\* RUNNING again.
TakeOver(w) ==
    /\ Idle(w)
    /\ Acquirable
    /\ fencingToken' = NextToken
    /\ token' = [token EXCEPT ![w] = NextToken]
    /\ lease' = "live"
    /\ runStatus' = "RUNNING"
    /\ UNCHANGED cancelling

\* Each attempt of the job acquires at most once, and the job is retried only
\* while attempt_count < max_attempts (module JobQueue shows that it is).
AttemptsLeft == fencingToken < MaxAttempts

Acquire(w) == AttemptsLeft /\ TakeOver(w)

\* acquire() raises RunCancelledError before it looks at the lease.
AcquireCancelled(w) ==
    /\ Idle(w)
    /\ runStatus \in Cancelling
    /\ cancelling' = cancelling \cup {w}
    /\ UNCHANGED <<runStatus, fencingToken, lease, token>>

\* tasks._mark_cancelled: written without a fence.
MarkCancelled(w) ==
    /\ w \in cancelling
    /\ runStatus' = "CANCELLED"
    /\ cancelling' = cancelling \ {w}
    /\ UNCHANGED <<fencingToken, lease, token>>

\* renew(): "now" is read before the row lock is awaited, so a lease that
\* expired during the wait is extended all the same.
Renew(w) ==
    /\ token[w] # 0
    /\ token[w] = fencingToken
    /\ lease # "none"
    /\ runStatus # "CANCEL_REQUESTED"
    /\ lease' = "live"
    /\ UNCHANGED <<runStatus, fencingToken, token, cancelling>>

\* The heartbeat came too late (45 s without a renewal).
Expire ==
    /\ lease = "live"
    /\ lease' = "expired"
    /\ UNCHANGED <<runStatus, fencingToken, token, cancelling>>

\* release(): the row is cleared only by the attempt that owns it.
Release(w) ==
    /\ token[w] # 0
    /\ lease' = IF token[w] = fencingToken THEN "none" ELSE lease
    /\ token' = [token EXCEPT ![w] = 0]
    /\ UNCHANGED <<runStatus, fencingToken, cancelling>>

\* The process dies: its memory is lost, the row stays as it is.
Crash(w) ==
    /\ ~Idle(w)
    /\ token' = [token EXCEPT ![w] = 0]
    /\ cancelling' = cancelling \ {w}
    /\ UNCHANGED <<runStatus, fencingToken, lease>>

\* AgentDiagnosisService._finalize_run
Finalize(w) ==
    /\ Fence(w)
    /\ runStatus' \in {"COMPLETED", "FAILED", "STALLED", "CANCELLED"}
    /\ UNCHANGED <<fencingToken, lease, token, cancelling>>

\* AgentQueryService.request_cancel: finished runs are left alone.
RequestCancel ==
    /\ runStatus = "RUNNING"
    /\ runStatus' = "CANCEL_REQUESTED"
    /\ UNCHANGED <<fencingToken, lease, token, cancelling>>

LeaseNext ==
    \/ \E w \in Workers :
          Acquire(w) \/ AcquireCancelled(w) \/ MarkCancelled(w) \/ Renew(w)
            \/ Release(w) \/ Crash(w) \/ Finalize(w)
    \/ Expire
    \/ RequestCancel

LeaseSpec == LeaseInit /\ [][LeaseNext]_leaseVars

-----------------------------------------------------------------------------
\* At any time at most one attempt passes the fence, however many duplicate
\* deliveries, takeovers, late renewals and crashes there were: _assert_run_fence
\* decides alone, without any other coordination, who may write.
FenceExclusive == \A v, w \in Workers : Fence(v) /\ Fence(w) => v = w

\* An attempt that was superseded stays superseded: once another attempt has
\* acquired the run, no renewal, release, expiry or crash makes the old
\* attempt's token pass the fence again.
SupersededForGood ==
    [][\A w \in Workers :
          token[w] # 0 /\ token[w] # fencingToken /\ token'[w] = token[w]
             => ~Fence(w)']_leaseVars

\* A requested cancellation is never undone by an attempt that takes the run
\* over: acquire() overwrites every other status with RUNNING.
CancelNotForgotten ==
    [][(runStatus \in Cancelling) => (runStatus' # "RUNNING")]_leaseVars

=============================================================================
