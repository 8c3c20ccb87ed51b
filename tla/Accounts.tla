------------------------------ MODULE Accounts ------------------------------
(***************************************************************************)
(* Accounts, sessions and one-time codes: app/application/auth.py,         *)
(* app/infrastructure/adapters/otp.py, app/application/account_purge.py    *)
(* and the user checks of app/api/dependencies.py.  Clients send requests  *)
(* that run at the same time; every wait of a request (a Redis call, a row *)
(* lock) separates two steps.                                              *)
(*                                                                         *)
(* Row locks are not variables: they follow from where a request stands.   *)
(* A transaction that gets its last lock writes and commits in one step.   *)
(* Inserting a session locks the user's row against FOR UPDATE (foreign    *)
(* key), so it waits for a deletion or a cancellation in progress.  When   *)
(* two transactions wait for each other PostgreSQL aborts one of them;     *)
(* a request may also just die: both are Abort.                            *)
(***************************************************************************)
EXTENDS Integers, FiniteSets

CONSTANTS Users,       \* phone numbers; the account of each, if it has one
          Holders,     \* users who uploaded or published a learning resource
          Clients,     \* requests that can be in flight together
          MaxTokens,   \* bound: refresh tokens ever issued
          OtpAttempts  \* wrong answers a one-time code allows (5)

ASSUME AccountsAssumption ==
    /\ IsFiniteSet(Users) /\ IsFiniteSet(Clients)
    /\ Holders \subseteq Users
    /\ MaxTokens \in Nat /\ OtpAttempts \in Nat \ {0}

VARIABLES user,      \* user[u]: the status in the User row
          deletion,  \* deletion[u]: the AccountDeletion row
          session,   \* session[t]: the RefreshSession of token t
          issued,    \* tokens issued so far
          access,    \* users with an unexpired access token
          otp,       \* otp[u]: the code in Redis
          request,   \* request[c]: the request of client c
          purging,   \* accounts whose AccountDeletion purge_due has locked
          exchanged, \* history: how often token t was exchanged
          guesses,   \* history: wrong answers to the code of u
          overlap    \* history: two answers to the code of u were under way

authVars == <<session, issued, access, exchanged>>
otpVars == <<otp, guesses, overlap>>
accountVars == <<user, deletion>>
vars == <<accountVars, authVars, otpVars, request, purging>>

Tokens == 1 .. MaxTokens
NoDeletion == [state |-> "none", due |-> FALSE]
NoCode == [live |-> FALSE, attempts |-> 0]

\* A request that is not idle also has a user or a token, and what it saw: the
\* attempts or the sessions it has read.
Idle == [at |-> "idle"]

Init ==
    /\ user = [u \in Users |-> "absent"]
    /\ deletion = [u \in Users |-> NoDeletion]
    /\ session = [t \in {} |-> {}]
    /\ issued = 0
    /\ access = {}
    /\ otp = [u \in Users |-> NoCode]
    /\ request = [c \in Clients |-> Idle]
    /\ purging = {}
    /\ exchanged = [t \in Tokens |-> 0]
    /\ guesses = [u \in Users |-> 0]
    /\ overlap = [u \in Users |-> FALSE]

-----------------------------------------------------------------------------
SessionsOf(u) == {t \in DOMAIN session : session[t].user = u}
At(c, stages) == request[c].at \in stages
GoTo(c, r) == request' = [request EXCEPT ![c] = r]
Done(c) == GoTo(c, Idle)

\* Another request holds the user's row FOR UPDATE.
UserLocked(u) ==
    \E c \in Clients : At(c, {"deleting", "cancelling"}) /\ request[c].user = u
\* Another request holds the session's row.
SessionLocked(c, t) ==
    \E d \in Clients \ {c} : At(d, {"rotate", "reuse"}) /\ request[d].token = t
\* A refresh holds a session of the user.
Refreshing(u) ==
    \E c \in Clients : At(c, {"rotate", "reuse"}) /\ request[c].token \in SessionsOf(u)
\* Variant: purge_due reads without FOR UPDATE.
DeletionUnlocked(u) == FALSE

\* purge_due holds the AccountDeletion row.
DeletionLocked(u) == u \in purging
\* Another request is between reading the code of u and writing it back.
Answering(c, u) ==
    \E d \in Clients \ {c} : At(d, {"verify"}) /\ request[d].user = u

\* _build_tokens, and the insert that follows it; s is what the table holds
\* otherwise.
NewSession(s, u) ==
    /\ issued < MaxTokens
    /\ issued' = issued + 1
    /\ session' = [t \in DOMAIN s \cup {issued + 1} |->
                     IF t = issued + 1 THEN [state |-> "live", user |-> u] ELSE s[t]]
    /\ access' = access \cup {u}
\* _revoke_all_sessions
Without(tokens) == [t \in DOMAIN session \ tokens |-> session[t]]

-----------------------------------------------------------------------------
\* RedisOtpStore.issue; the rate limits refuse a request and change no code.
RequestCode(u) ==
    /\ otp' = [otp EXCEPT ![u] = [live |-> TRUE, attempts |-> 0]]
    /\ guesses' = [guesses EXCEPT ![u] = 0]
    /\ overlap' = [overlap EXCEPT ![u] = \E c \in Clients : At(c, {"verify"}) /\ request[c].user = u]
    /\ UNCHANGED <<accountVars, authVars, request, purging>>

CodeExpires(u) ==
    /\ otp[u].live
    /\ otp' = [otp EXCEPT ![u] = NoCode]
    /\ UNCHANGED <<accountVars, authVars, guesses, overlap, request, purging>>

\* Variant: one answer more.
ExhaustedOffByOne(n) == n > OtpAttempts

\* The check of the attempts in verify.
Exhausted(n) == n >= OtpAttempts

\* verify, up to the answer of redis.get; a code without attempts left is
\* deleted.
ReadCode(c, u) ==
    /\ At(c, {"idle"}) /\ otp[u].live
    /\ IF Exhausted(otp[u].attempts)
       THEN /\ otp' = [otp EXCEPT ![u] = NoCode]
            /\ UNCHANGED <<request, overlap>>
       ELSE /\ GoTo(c, [at |-> "verify", user |-> u, saw |-> otp[u].attempts])
            /\ overlap' = [overlap EXCEPT ![u] = @ \/ Answering(c, u)]
            /\ UNCHANGED otp
    /\ UNCHANGED <<accountVars, authVars, guesses, purging>>

\* The rest of verify, the digest being wrong or right.
WrongCode(c) ==
    /\ At(c, {"verify"})
    /\ LET u == request[c].user IN
         /\ otp' = [otp EXCEPT ![u] = [live |-> TRUE, attempts |-> request[c].saw + 1]]
         /\ guesses' = [guesses EXCEPT ![u] = IF @ > OtpAttempts THEN @ ELSE @ + 1]
    /\ Done(c)
    /\ UNCHANGED <<accountVars, authVars, overlap, purging>>

RightCode(c) ==
    /\ At(c, {"verify"})
    /\ otp' = [otp EXCEPT ![request[c].user] = NoCode]
    /\ GoTo(c, [at |-> "find", user |-> request[c].user])
    /\ UNCHANGED <<accountVars, authVars, guesses, overlap, purging>>

\* _find_or_create_user, and the check of the status in login_with_sms.
FindUser(c) ==
    /\ At(c, {"find"})
    /\ LET u == request[c].user IN
         CASE user[u] = "absent" -> GoTo(c, [at |-> "create", user |-> u])
           [] user[u] = "ACTIVE" -> GoTo(c, [at |-> "issue", user |-> u])
           [] OTHER -> Done(c)
    /\ UNCHANGED <<accountVars, authVars, otpVars, purging>>

\* The phone's lookup hash is unique: the later of two first logins fails.
CreateUser(c) ==
    /\ At(c, {"create"})
    /\ LET u == request[c].user IN
         IF user[u] = "absent"
         THEN /\ user' = [user EXCEPT ![u] = "ACTIVE"]
              /\ GoTo(c, [at |-> "issue", user |-> u])
         ELSE /\ Done(c)
              /\ UNCHANGED user
    /\ UNCHANGED <<deletion, authVars, otpVars, purging>>

\* _issue_tokens; the insert fails if the user is gone.
IssueTokens(c) ==
    /\ At(c, {"issue"})
    /\ LET u == request[c].user IN
         /\ ~UserLocked(u)
         /\ IF user[u] = "absent" THEN UNCHANGED <<session, issued, access>>
            ELSE NewSession(session, u)
    /\ Done(c)
    /\ UNCHANGED <<accountVars, exchanged, otpVars, purging>>

-----------------------------------------------------------------------------
\* Variant: refresh reads the session without FOR UPDATE.
ReadTokenUnlocked(c, t) ==
    /\ At(c, {"idle"}) /\ t \in DOMAIN session
    /\ GoTo(c, [at |-> IF session[t].state = "live" THEN "rotate" ELSE "reuse",
                token |-> t, user |-> session[t].user, saw |-> SessionsOf(session[t].user)])
    /\ UNCHANGED <<accountVars, authVars, otpVars, purging>>

\* refresh, up to the row lock.  A token that was exchanged before revokes
\* every session of the user that the DELETE sees.
ReadToken(c, t) ==
    /\ At(c, {"idle"}) /\ t \in DOMAIN session
    /\ ~SessionLocked(c, t)
    /\ GoTo(c, [at |-> IF session[t].state = "live" THEN "rotate" ELSE "reuse",
                token |-> t, user |-> session[t].user, saw |-> SessionsOf(session[t].user)])
    /\ UNCHANGED <<accountVars, authVars, otpVars, purging>>

Rotate(c) ==
    /\ At(c, {"rotate"})
    /\ LET t == request[c].token
           u == request[c].user
       IN  /\ ~UserLocked(u)
           /\ NewSession([session EXCEPT ![t].state = "revoked"], u)
           /\ exchanged' = [exchanged EXCEPT ![t] = @ + 1]
    /\ Done(c)
    /\ UNCHANGED <<accountVars, otpVars, purging>>

RevokeReused(c) ==
    /\ At(c, {"reuse"})
    /\ \A t \in request[c].saw : ~SessionLocked(c, t)
    /\ session' = Without(request[c].saw)
    /\ Done(c)
    /\ UNCHANGED <<accountVars, issued, access, exchanged, otpVars, purging>>

\* logout reads without a lock and writes later.
ReadLogout(c, t) ==
    /\ At(c, {"idle"}) /\ t \in DOMAIN session
    /\ session[t].state = "live"
    /\ GoTo(c, [at |-> "logout", token |-> t])
    /\ UNCHANGED <<accountVars, authVars, otpVars, purging>>

Logout(c) ==
    /\ At(c, {"logout"})
    /\ LET t == request[c].token IN
         /\ ~SessionLocked(c, t)
         /\ session' = IF t \in DOMAIN session
                       THEN [session EXCEPT ![t].state = "revoked"] ELSE session
    /\ Done(c)
    /\ UNCHANGED <<accountVars, issued, access, exchanged, otpVars, purging>>

AccessExpires(u) ==
    /\ u \in access
    /\ access' = access \ {u}
    /\ UNCHANGED <<accountVars, session, issued, exchanged, otpVars, request, purging>>

-----------------------------------------------------------------------------
\* get_current_user: deletion needs an ACTIVE account.
AuthDelete(c, u) ==
    /\ At(c, {"idle"}) /\ u \in access /\ user[u] = "ACTIVE"
    /\ GoTo(c, [at |-> "delete", user |-> u])
    /\ UNCHANGED <<accountVars, authVars, otpVars, purging>>

\* get_authenticated_user: cancelling does not.
AuthCancel(c, u) ==
    /\ At(c, {"idle"}) /\ u \in access /\ user[u] # "absent"
    /\ GoTo(c, [at |-> "cancel", user |-> u])
    /\ UNCHANGED <<accountVars, authVars, otpVars, purging>>

\* session.get(User, with_for_update=True)
LockUser(c) ==
    /\ At(c, {"delete", "cancel"})
    /\ LET u == request[c].user IN
         /\ ~UserLocked(u)
         /\ IF user[u] = "absent" THEN Done(c)
            ELSE GoTo(c, [request[c] EXCEPT
                            !.at = IF @ = "delete" THEN "deleting" ELSE "cancelling"])
    /\ UNCHANGED <<accountVars, authVars, otpVars, purging>>

\* Variant: a second request does not clear cancelled_at.
RequestedAgainUncleared(u) ==
    [state |-> IF deletion[u].state = "none" THEN "requested" ELSE deletion[u].state,
     due |-> FALSE]

\* The AccountDeletion row request_account_deletion inserts or renews.
Requested(u) == [state |-> "requested", due |-> FALSE]

\* request_account_deletion
RequestDeletion(c) ==
    /\ At(c, {"deleting"})
    /\ LET u == request[c].user IN
         /\ ~DeletionLocked(u)
         /\ \A t \in SessionsOf(u) : ~SessionLocked(c, t)
         /\ deletion' = [deletion EXCEPT ![u] = Requested(u)]
         /\ user' = [user EXCEPT ![u] = "DELETION_PENDING"]
         /\ session' = Without(SessionsOf(u))
    /\ Done(c)
    /\ UNCHANGED <<issued, access, exchanged, otpVars, purging>>

\* cancel_account_deletion
CancelDeletion(c) ==
    /\ At(c, {"cancelling"})
    /\ LET u == request[c].user IN
         /\ ~DeletionLocked(u)
         /\ IF deletion[u].state = "none" THEN UNCHANGED <<deletion, user>>
            ELSE /\ deletion' = [deletion EXCEPT ![u].state = "cancelled"]
                 /\ user' = [user EXCEPT ![u] = "ACTIVE"]
    /\ Done(c)
    /\ UNCHANGED <<authVars, otpVars, purging>>

\* Thirty days have passed.
DeletionDue(u) ==
    /\ deletion[u].state # "none" /\ ~deletion[u].due
    /\ deletion' = [deletion EXCEPT ![u].due = TRUE]
    /\ UNCHANGED <<user, authVars, otpVars, request, purging>>

Abort(c) ==
    /\ ~At(c, {"idle"})
    /\ Done(c)
    /\ UNCHANGED <<accountVars, authVars, otpVars, purging>>

-----------------------------------------------------------------------------
Due(u) == deletion[u].state = "requested" /\ deletion[u].due

\* purge_due, the SELECT ... FOR UPDATE
SelectDue ==
    /\ purging = {}
    /\ \E u \in Users : Due(u)
    /\ purging' = {u \in Users : Due(u)}
    /\ UNCHANGED <<accountVars, authVars, otpVars, request>>

\* Deleting the user cascades to sessions and deletion request, waits for the
\* sessions that a refresh has locked, and fails for the whole batch if one of
\* the users is still referred to by an import or a review of a learning
\* resource.
DeleteUsers ==
    /\ purging # {}
    /\ \A u \in purging : ~UserLocked(u) /\ ~Refreshing(u)
    /\ IF purging \cap Holders # {} THEN UNCHANGED <<accountVars, session, access>>
       ELSE /\ user' = [u \in Users |-> IF u \in purging THEN "absent" ELSE user[u]]
            /\ deletion' = [u \in Users |-> IF u \in purging THEN NoDeletion ELSE deletion[u]]
            /\ session' = Without(UNION {SessionsOf(u) : u \in purging})
            /\ access' = access \ purging
    /\ purging' = {}
    /\ UNCHANGED <<issued, exchanged, otpVars, request>>

\* purge_due is the victim of a deadlock with a cancellation, a deletion or a
\* refresh, whose new session has to wait for the user.
AbortPurge ==
    /\ \E u \in purging : UserLocked(u) \/ Refreshing(u)
    /\ purging' = {}
    /\ UNCHANGED <<accountVars, authVars, otpVars, request>>

Proceed(c) ==
    \/ WrongCode(c) \/ RightCode(c) \/ FindUser(c) \/ CreateUser(c) \/ IssueTokens(c)
    \/ Rotate(c) \/ RevokeReused(c) \/ Logout(c)
    \/ LockUser(c) \/ RequestDeletion(c) \/ CancelDeletion(c) \/ Abort(c)

Next ==
    \/ \E u \in Users : \/ RequestCode(u) \/ CodeExpires(u) \/ AccessExpires(u)
                        \/ DeletionDue(u)
    \/ \E c \in Clients : \/ \E u \in Users : ReadCode(c, u) \/ AuthDelete(c, u)
                                                \/ AuthCancel(c, u)
                          \/ \E t \in Tokens : ReadToken(c, t) \/ ReadLogout(c, t)
                          \/ Proceed(c)
    \/ SelectDue \/ DeleteUsers \/ AbortPurge

Spec == Init /\ [][Next]_vars

Quiet == \A u \in Users : ~UserLocked(u) /\ ~Refreshing(u)

\* A request ends, and now and then no request holds a lock; the nightly purge
\* runs, and not only at other times.
FairSpec ==
    /\ Spec
    /\ \A c \in Clients : WF_vars(Proceed(c))
    /\ []<>Quiet
    /\ SF_vars(SelectDue /\ Quiet)
    /\ SF_vars(DeleteUsers)
    /\ \A u \in Users : WF_vars(DeletionDue(u))

-----------------------------------------------------------------------------
\* A refresh token is exchanged for a new one at most once, however many
\* requests present it at the same time: the row lock of refresh is held from
\* the check of revoked_at to the commit.
ExchangedOnce == \A t \in Tokens : exchanged[t] <= 1

\* An account is removed only while its deletion is requested and due: a
\* cancellation that was answered with success is never followed by the purge
\* that had already selected the account.
CancelHolds ==
    [][\A u \in Users : (user[u] # "absent" /\ user'[u] = "absent") => Due(u)]_vars

\* One code takes at most OtpAttempts wrong answers, unless two answers to it
\* were under way at the same time (verify reads and writes the counter in two
\* Redis calls).
GuessesLimited ==
    \A u \in Users : guesses[u] > OtpAttempts => overlap[u]

\* An account that was asked to be deleted, for the first time or again after a
\* cancellation, does not stay frozen: it is purged or given back, unless an
\* account that owns learning resources is due and makes every purge fail.
FrozenPurged ==
    \A u \in Users :
        user[u] = "DELETION_PENDING" ~>
            (user[u] # "DELETION_PENDING" \/ \E h \in Holders : Due(h))

\* What README.md:66 says of the purge: an account that is due is removed.
\* Stated only for the accounts that own no learning resource themselves.
DuePurged == \A u \in Users \ Holders : Due(u) ~> ~Due(u)
=============================================================================
