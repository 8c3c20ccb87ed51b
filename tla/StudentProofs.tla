--------------------------- MODULE StudentProofs ----------------------------
(***************************************************************************)
(* Proofs about the state of a student's account and progress.             *)
(*                                                                         *)
(* The first part is about Accounts, for any users, requests in flight and *)
(* limits: a refresh token is exchanged once, a one-time code takes no     *)
(* more wrong answers than it allows unless two overlap, and only an       *)
(* account whose deletion is still due is removed.                         *)
(*                                                                         *)
(* The second part is about StageUnlock, for any syllabus, bank and        *)
(* schools: the profile counts every answer once, the two ways in which    *)
(* the code grants a specialized mock agree, and none is granted before it *)
(* was earned, under the premise of SpecializedEarned.                     *)
(***************************************************************************)
EXTENDS Accounts, StageUnlock, FiniteSetTheorems, TLAPS

(* Accounts *)

UserStages == {"find", "create", "issue", "delete", "cancel", "deleting", "cancelling"}
Verifying == [at : {"verify"}, user : Users, saw : Nat]
Refreshes == [at : {"rotate", "reuse"}, token : Tokens, user : Users, saw : SUBSET Tokens]
Requests == {Idle} \cup Verifying \cup Refreshes
            \cup [at : UserStages, user : Users] \cup [at : {"logout"}, token : Tokens]
Sessions == [state : {"live", "revoked"}, user : Users]
Deletions == [state : {"none", "requested", "cancelled"}, due : BOOLEAN]
Codes == [live : BOOLEAN, attempts : Nat]

TypeOK ==
    /\ user \in [Users -> {"absent", "ACTIVE", "DELETION_PENDING"}]
    /\ deletion \in [Users -> Deletions]
    /\ issued \in 0 .. MaxTokens
    /\ DOMAIN session \subseteq 1 .. issued /\ session \in [DOMAIN session -> Sessions]
    /\ access \subseteq Users /\ purging \subseteq Users
    /\ otp \in [Users -> Codes]
    /\ request \in [Clients -> Requests]
    /\ exchanged \in [Tokens -> Nat]
    /\ guesses \in [Users -> Nat] /\ overlap \in [Users -> BOOLEAN]

\* A live token was not exchanged, nor one that was not issued.
Unspent ==
    /\ \A t \in Tokens : t > issued => exchanged[t] = 0
    /\ \A t \in DOMAIN session : session[t].state = "live" => exchanged[t] = 0
    /\ ExchangedOnce

\* The row lock: refreshes in progress are about different sessions, and the
\* session that is about to be exchanged is there and live.
RowLocks ==
    /\ \A c \in Clients : At(c, {"rotate"}) =>
         /\ request[c].token \in DOMAIN session
         /\ session[request[c].token] = [state |-> "live", user |-> request[c].user]
    /\ \A c, d \in Clients :
         (At(c, {"rotate", "reuse"}) /\ At(d, {"rotate", "reuse"})
            /\ request[c].token = request[d].token) => c = d

\* Sessions belong to accounts that exist (foreign key).
SessionsHaveUsers == \A t \in DOMAIN session : user[session[t].user] # "absent"

\* The wrong answers to the code of u, and what an answer under way will write.
CodeOK(u) ==
    ~overlap[u] =>
        /\ guesses[u] <= OtpAttempts
        /\ otp[u].live => guesses[u] <= otp[u].attempts
        /\ \A c \in Clients : (At(c, {"verify"}) /\ request[c].user = u) =>
             guesses[u] <= request[c].saw
        /\ \A c, d \in Clients :
             (At(c, {"verify"}) /\ At(d, {"verify"})
                /\ request[c].user = u /\ request[d].user = u) => c = d

AnswersAllowed == \A c \in Clients : At(c, {"verify"}) => request[c].saw < OtpAttempts

TokensInv == TypeOK /\ Unspent /\ RowLocks /\ SessionsHaveUsers
CodesInv == TypeOK /\ AnswersAllowed /\ \A u \in Users : CodeOK(u)
PurgeInv == TypeOK /\ \A u \in purging : Due(u)

-----------------------------------------------------------------------------
\* What a request carries at each stage.
LEMMA RequestOf ==
    ASSUME TypeOK, NEW c \in Clients
    PROVE  /\ request[c] \in Requests
           /\ At(c, {"verify"}) => request[c] \in Verifying
           /\ At(c, {"rotate", "reuse"}) => request[c] \in Refreshes
           /\ At(c, UserStages) => request[c] \in [at : UserStages, user : Users]
           /\ At(c, {"logout"}) => request[c] \in [at : {"logout"}, token : Tokens]
<1>1. request[c] \in Requests
  BY DEF TypeOK
<1> QED BY <1>1 DEF Requests, At, Idle, Verifying, Refreshes, UserStages

\* A request moves on and the others stay where they are.
LEMMA RequestMoves ==
    ASSUME TypeOK, NEW c \in Clients, NEW r \in Requests, GoTo(c, r)
    PROVE  /\ request' \in [Clients -> Requests] /\ request'[c] = r
           /\ \A d \in Clients \ {c} : request'[d] = request[d]
BY DEF TypeOK, GoTo

\* A request ends and the others stay where they are.
LEMMA RequestDone ==
    ASSUME TypeOK, NEW c \in Clients, Done(c)
    PROVE  /\ request' \in [Clients -> Requests] /\ request'[c] = Idle
           /\ \A d \in Clients \ {c} : request'[d] = request[d]
BY RequestMoves DEF Done, Requests

\* The session that is added has a token of its own.
LEMMA SessionAdded ==
    ASSUME TypeOK, NEW s, DOMAIN s \subseteq 1 .. issued, s \in [DOMAIN s -> Sessions],
           NEW u \in Users, NewSession(s, u)
    PROVE  /\ issued' = issued + 1 /\ issued' \in 0 .. MaxTokens /\ access' \subseteq Users
           /\ DOMAIN session' = DOMAIN s \cup {issued + 1} /\ issued + 1 \notin DOMAIN s
           /\ session'[issued + 1] = [state |-> "live", user |-> u]
           /\ \A t \in DOMAIN s : session'[t] = s[t]
           /\ DOMAIN session' \subseteq 1 .. issued' /\ session' \in [DOMAIN session' -> Sessions]
<1>1. issued \in Nat /\ MaxTokens \in Nat /\ issued < MaxTokens /\ issued' = issued + 1
  BY AccountsAssumption DEF TypeOK, NewSession
<1>2. issued' \in 0 .. MaxTokens /\ issued + 1 \notin DOMAIN s
      /\ DOMAIN s \cup {issued + 1} \subseteq 1 .. issued'
  BY <1>1
<1>3. session' = [t \in DOMAIN s \cup {issued + 1} |->
                     IF t = issued + 1 THEN [state |-> "live", user |-> u] ELSE s[t]]
  BY DEF NewSession
<1>4. /\ DOMAIN session' = DOMAIN s \cup {issued + 1}
      /\ session'[issued + 1] = [state |-> "live", user |-> u]
      /\ \A t \in DOMAIN s : session'[t] = s[t]
  BY <1>2, <1>3
<1>5. [state |-> "live", user |-> u] \in Sessions /\ \A t \in DOMAIN s : s[t] \in Sessions
  BY DEF Sessions
<1>6. session' \in [DOMAIN session' -> Sessions]
  BY <1>3, <1>5
<1>7. access' \subseteq Users
  BY DEF NewSession, TypeOK
<1> QED BY <1>1, <1>2, <1>4, <1>6, <1>7

\* The sessions that are left.
LEMMA SessionsRemoved ==
    ASSUME TypeOK, NEW T, session' = Without(T)
    PROVE  /\ DOMAIN session' = DOMAIN session \ T
           /\ \A t \in DOMAIN session' : session'[t] = session[t]
           /\ session' \in [DOMAIN session' -> Sessions]
<1>1. /\ DOMAIN session' = DOMAIN session \ T
      /\ \A t \in DOMAIN session' : session'[t] = session[t]
  BY DEF Without
<1>2. \A t \in DOMAIN session' : session'[t] \in Sessions
  BY <1>1 DEF TypeOK
<1>3. session' = [t \in DOMAIN session' |-> session'[t]]
  BY DEF Without
<1> QED BY <1>1, <1>2, <1>3

\* A session is revoked in place.
LEMMA SessionRevoked ==
    ASSUME TypeOK, NEW t \in DOMAIN session, NEW s, s = [session EXCEPT ![t].state = "revoked"]
    PROVE  /\ DOMAIN s = DOMAIN session /\ s \in [DOMAIN s -> Sessions]
           /\ s[t].state = "revoked" /\ s[t].user = session[t].user
           /\ \A r \in DOMAIN session \ {t} : s[r] = session[r]
<1>1. session[t] \in Sessions /\ session \in [DOMAIN session -> Sessions]
  BY DEF TypeOK
<1>2. [session[t] EXCEPT !.state = "revoked"] \in Sessions
      /\ [session[t] EXCEPT !.state = "revoked"].state = "revoked"
      /\ [session[t] EXCEPT !.state = "revoked"].user = session[t].user
  BY <1>1 DEF Sessions
<1>3. s = [session EXCEPT ![t] = [session[t] EXCEPT !.state = "revoked"]]
  OBVIOUS
<1> QED BY <1>1, <1>2, <1>3

\* The value that an action leaves in a variable of one account.
LEMMA CodeUpdates ==
    ASSUME TypeOK, NEW u \in Users, NEW a \in Nat, NEW g \in Nat, NEW o \in BOOLEAN,
           NEW l \in BOOLEAN
    PROVE  /\ [otp EXCEPT ![u] = [live |-> l, attempts |-> a]] \in [Users -> Codes]
           /\ [otp EXCEPT ![u] = NoCode] \in [Users -> Codes]
           /\ [guesses EXCEPT ![u] = g] \in [Users -> Nat]
           /\ [overlap EXCEPT ![u] = o] \in [Users -> BOOLEAN]
<1>1. [live |-> l, attempts |-> a] \in Codes /\ NoCode \in Codes
  BY DEF Codes, NoCode
<1> QED BY <1>1 DEF TypeOK

-----------------------------------------------------------------------------
\* Types: the operations on a code.
LEMMA CodeTypes ==
    ASSUME TypeOK, NEW u \in Users, NEW c,
           RequestCode(u) \/ CodeExpires(u) \/ (c \in Clients /\ ReadCode(c, u))
    PROVE  TypeOK'
<1>1. CASE RequestCode(u)
  <2>1. (\E d \in Clients : At(d, {"verify"}) /\ request[d].user = u) \in BOOLEAN
    OBVIOUS
  <2>2. otp' \in [Users -> Codes] /\ guesses' \in [Users -> Nat]
        /\ overlap' \in [Users -> BOOLEAN]
    BY <1>1, <2>1, CodeUpdates DEF RequestCode
  <2> QED BY <1>1, <2>2 DEF RequestCode, TypeOK, accountVars, authVars
<1>2. CASE CodeExpires(u)
  <2>1. otp' \in [Users -> Codes]
    BY <1>2, CodeUpdates DEF CodeExpires
  <2> QED BY <1>2, <2>1 DEF CodeExpires, TypeOK, accountVars, authVars
<1>3. CASE c \in Clients /\ ReadCode(c, u)
  <2>1. CASE Exhausted(otp[u].attempts)
    <3>1. otp' \in [Users -> Codes] /\ UNCHANGED <<request, overlap>>
      BY <1>3, <2>1, CodeUpdates DEF ReadCode
    <3> QED BY <1>3, <3>1 DEF ReadCode, TypeOK, accountVars, authVars
  <2>2. CASE ~Exhausted(otp[u].attempts)
    <3>1. [at |-> "verify", user |-> u, saw |-> otp[u].attempts] \in Requests
      BY DEF Requests, Verifying, TypeOK, Codes
    <3>2. request' \in [Clients -> Requests]
      BY <1>3, <2>2, <3>1, RequestMoves DEF ReadCode
    <3>3. overlap' \in [Users -> BOOLEAN] /\ UNCHANGED otp
      BY <1>3, <2>2 DEF ReadCode, TypeOK
    <3> QED BY <1>3, <3>2, <3>3 DEF ReadCode, TypeOK, accountVars, authVars
  <2> QED BY <2>1, <2>2
<1> QED BY <1>1, <1>2, <1>3

\* Types: the answer to a code.
LEMMA AnswerTypes ==
    ASSUME TypeOK, NEW c \in Clients, WrongCode(c) \/ RightCode(c)
    PROVE  TypeOK'
<1>1. CASE WrongCode(c)
  <2>1. request[c].user \in Users /\ request[c].saw \in Nat
    BY <1>1, RequestOf DEF WrongCode, Verifying
  <2>2. request[c].saw + 1 \in Nat /\ guesses[request[c].user] \in Nat
    BY <2>1 DEF TypeOK
  <2>3. otp' \in [Users -> Codes]
    BY <1>1, <2>1, <2>2, CodeUpdates DEF WrongCode
  <2>4. guesses' \in [Users -> Nat]
    BY <1>1, <2>1, <2>2 DEF WrongCode, TypeOK
  <2>5. request' \in [Clients -> Requests]
    BY <1>1, RequestDone DEF WrongCode
  <2> QED BY <1>1, <2>3, <2>4, <2>5 DEF WrongCode, TypeOK, accountVars, authVars
<1>2. CASE RightCode(c)
  <2>1. request[c].user \in Users
    BY <1>2, RequestOf DEF RightCode, Verifying
  <2>2. [at |-> "find", user |-> request[c].user] \in Requests
    BY <2>1 DEF Requests, UserStages
  <2>3. otp' \in [Users -> Codes] /\ request' \in [Clients -> Requests]
    BY <1>2, <2>1, <2>2, CodeUpdates, RequestMoves DEF RightCode
  <2> QED BY <1>2, <2>3 DEF RightCode, TypeOK, accountVars, authVars
<1> QED BY <1>1, <1>2

\* Types: the rest of a login.
LEMMA LoginTypes ==
    ASSUME TypeOK, NEW c \in Clients, FindUser(c) \/ CreateUser(c) \/ IssueTokens(c)
    PROVE  TypeOK'
<1> DEFINE u == request[c].user
<1>1. u \in Users
  BY RequestOf DEF FindUser, CreateUser, IssueTokens, At, UserStages
<1>2. ASSUME NEW st \in {"create", "issue"} PROVE [at |-> st, user |-> u] \in Requests
  BY <1>1 DEF Requests, UserStages
<1> HIDE DEF u
<1>3. CASE FindUser(c)
  <2>1. GoTo(c, [at |-> "create", user |-> u]) \/ GoTo(c, [at |-> "issue", user |-> u]) \/ Done(c)
    BY <1>3 DEF FindUser, u
  <2>2. request' \in [Clients -> Requests]
    BY <1>2, <2>1, RequestMoves, RequestDone
  <2> QED BY <1>3, <2>2 DEF FindUser, TypeOK, accountVars, authVars, otpVars
<1>4. CASE CreateUser(c)
  <2>1. GoTo(c, [at |-> "issue", user |-> u]) \/ Done(c)
    BY <1>4 DEF CreateUser, u
  <2>2. request' \in [Clients -> Requests]
    BY <1>2, <2>1, RequestMoves, RequestDone
  <2>3. user' \in [Users -> {"absent", "ACTIVE", "DELETION_PENDING"}]
    BY <1>1, <1>4 DEF CreateUser, TypeOK, u
  <2> QED BY <1>4, <2>2, <2>3 DEF CreateUser, TypeOK, authVars, otpVars
<1>5. CASE IssueTokens(c)
  <2>1. request' \in [Clients -> Requests]
    BY <1>5, RequestDone DEF IssueTokens
  <2>2. CASE UNCHANGED <<session, issued, access>>
    BY <1>5, <2>1, <2>2 DEF IssueTokens, TypeOK, accountVars, otpVars
  <2>3. CASE NewSession(session, u)
    <3>1. /\ issued' \in 0 .. MaxTokens /\ access' \subseteq Users
          /\ DOMAIN session' \subseteq 1 .. issued' /\ session' \in [DOMAIN session' -> Sessions]
      BY <1>1, <2>3, SessionAdded DEF TypeOK
    <3> QED BY <1>5, <2>1, <3>1 DEF IssueTokens, TypeOK, accountVars, otpVars
  <2> QED BY <1>5, <2>2, <2>3 DEF IssueTokens, u
<1> QED BY <1>3, <1>4, <1>5

\* Types: reading a session.
LEMMA TokenTypes ==
    ASSUME TypeOK, NEW c \in Clients, NEW t \in Tokens,
           ReadToken(c, t) \/ ReadLogout(c, t)
    PROVE  TypeOK'
<1>1. CASE ReadToken(c, t)
  <2>1. session[t].user \in Users
    BY <1>1 DEF ReadToken, TypeOK, Sessions
  <2>2. SessionsOf(session[t].user) \in SUBSET Tokens
    BY AccountsAssumption DEF SessionsOf, TypeOK, Tokens
  <2>3. [at |-> IF session[t].state = "live" THEN "rotate" ELSE "reuse",
         token |-> t, user |-> session[t].user, saw |-> SessionsOf(session[t].user)] \in Requests
    BY <2>1, <2>2 DEF Requests, Refreshes
  <2>4. request' \in [Clients -> Requests]
    BY <1>1, <2>3, RequestMoves DEF ReadToken
  <2> QED BY <1>1, <2>4 DEF ReadToken, TypeOK, accountVars, authVars, otpVars
<1>2. CASE ReadLogout(c, t)
  <2>1. [at |-> "logout", token |-> t] \in Requests
    BY DEF Requests
  <2>2. request' \in [Clients -> Requests]
    BY <1>2, <2>1, RequestMoves DEF ReadLogout
  <2> QED BY <1>2, <2>2 DEF ReadLogout, TypeOK, accountVars, authVars, otpVars
<1> QED BY <1>1, <1>2

\* Types: revoking sessions, one or all of a user.
LEMMA RevokeTypes ==
    ASSUME TypeOK, NEW c \in Clients, RevokeReused(c) \/ Logout(c)
    PROVE  TypeOK'
<1>1. CASE RevokeReused(c)
  <2>1. request' \in [Clients -> Requests]
    BY <1>1, RequestDone DEF RevokeReused
  <2>2. DOMAIN session' \subseteq DOMAIN session /\ session' \in [DOMAIN session' -> Sessions]
    BY <1>1, SessionsRemoved DEF RevokeReused
  <2> QED BY <1>1, <2>1, <2>2 DEF RevokeReused, TypeOK, accountVars, otpVars
<1>2. CASE Logout(c)
  <2>1. request' \in [Clients -> Requests]
    BY <1>2, RequestDone DEF Logout
  <2>2. DOMAIN session' \subseteq DOMAIN session /\ session' \in [DOMAIN session' -> Sessions]
    <3>1. CASE request[c].token \in DOMAIN session
      BY <1>2, <3>1, SessionRevoked DEF Logout
    <3>2. CASE request[c].token \notin DOMAIN session
      BY <1>2, <3>2 DEF Logout, TypeOK
    <3> QED BY <3>1, <3>2
  <2> QED BY <1>2, <2>1, <2>2 DEF Logout, TypeOK, accountVars, otpVars
<1> QED BY <1>1, <1>2

\* The exchange: the token's session is revoked and a new one inserted.
LEMMA Exchange ==
    ASSUME TypeOK, RowLocks, NEW c \in Clients, Rotate(c),
           NEW t, t = request[c].token, NEW u, u = request[c].user
    PROVE  /\ t \in DOMAIN session /\ t \in Tokens /\ u \in Users
           /\ session[t] = [state |-> "live", user |-> u]
           /\ issued' = issued + 1 /\ issued + 1 \notin DOMAIN session
           /\ DOMAIN session' = DOMAIN session \cup {issued + 1}
           /\ session'[issued + 1] = [state |-> "live", user |-> u]
           /\ session'[t].state = "revoked" /\ session'[t].user = u
           /\ \A r \in DOMAIN session \ {t} : session'[r] = session[r]
           /\ exchanged' = [exchanged EXCEPT ![t] = @ + 1]
           /\ TypeOK'
<1>1. At(c, {"rotate"}) /\ t \in Tokens /\ u \in Users
  BY RequestOf DEF Rotate, At, Refreshes
<1>2. t \in DOMAIN session /\ session[t] = [state |-> "live", user |-> u]
  BY <1>1 DEF RowLocks
<1> DEFINE s == [session EXCEPT ![t].state = "revoked"]
<1>3. /\ DOMAIN s = DOMAIN session /\ s \in [DOMAIN s -> Sessions]
      /\ s[t].state = "revoked" /\ s[t].user = session[t].user
      /\ \A r \in DOMAIN session \ {t} : s[r] = session[r]
  BY <1>2, SessionRevoked
<1>4. /\ NewSession(s, u) /\ exchanged' = [exchanged EXCEPT ![t] = @ + 1] /\ Done(c)
      /\ UNCHANGED <<accountVars, otpVars, purging>>
  BY DEF Rotate
<1> HIDE DEF s
<1>5. DOMAIN s \subseteq 1 .. issued
  BY <1>3 DEF TypeOK
<1>6. /\ issued' = issued + 1 /\ issued' \in 0 .. MaxTokens /\ access' \subseteq Users
      /\ DOMAIN session' = DOMAIN s \cup {issued + 1} /\ issued + 1 \notin DOMAIN s
      /\ session'[issued + 1] = [state |-> "live", user |-> u]
      /\ \A r \in DOMAIN s : session'[r] = s[r]
      /\ DOMAIN session' \subseteq 1 .. issued' /\ session' \in [DOMAIN session' -> Sessions]
  BY <1>1, <1>3, <1>4, <1>5, SessionAdded
<1>7. session'[t].state = "revoked" /\ session'[t].user = u
      /\ \A r \in DOMAIN session \ {t} : session'[r] = session[r]
  BY <1>2, <1>3, <1>6
<1>8. exchanged' \in [Tokens -> Nat]
  BY <1>1, <1>4 DEF TypeOK
<1>9. request' \in [Clients -> Requests]
  BY <1>4, RequestDone
<1>10. TypeOK'
  BY <1>4, <1>6, <1>8, <1>9 DEF TypeOK, accountVars, otpVars
<1> QED BY <1>1, <1>2, <1>3, <1>4, <1>6, <1>7, <1>10

\* Types: what happens to an account from outside its row lock.
LEMMA UserTypes ==
    ASSUME TypeOK, NEW v \in Users, NEW c,
           \/ c \in Clients /\ (AuthDelete(c, v) \/ AuthCancel(c, v))
           \/ DeletionDue(v) \/ AccessExpires(v)
    PROVE  TypeOK'
<1>1. CASE c \in Clients /\ (AuthDelete(c, v) \/ AuthCancel(c, v))
  <2>1. \A st \in {"delete", "cancel"} : [at |-> st, user |-> v] \in Requests
    BY DEF Requests, UserStages
  <2>2. request' \in [Clients -> Requests]
    BY <1>1, <2>1, RequestMoves DEF AuthDelete, AuthCancel
  <2> QED BY <1>1, <2>2 DEF AuthDelete, AuthCancel, TypeOK, accountVars, authVars, otpVars
<1>2. CASE DeletionDue(v)
  <2>1. deletion' \in [Users -> Deletions]
    BY <1>2 DEF DeletionDue, TypeOK, Deletions
  <2> QED BY <1>2, <2>1 DEF DeletionDue, TypeOK, authVars, otpVars
<1>3. CASE AccessExpires(v)
  BY <1>3 DEF AccessExpires, TypeOK, accountVars, otpVars
<1> QED BY <1>1, <1>2, <1>3

\* Types: requests that lock the user's row.
LEMMA AccountTypes ==
    ASSUME TypeOK, NEW c \in Clients,
           LockUser(c) \/ Abort(c) \/ RequestDeletion(c) \/ CancelDeletion(c)
    PROVE  TypeOK'
<1>1. CASE LockUser(c)
  <2>1. request[c] \in [at : UserStages, user : Users]
    BY <1>1, RequestOf DEF LockUser, At, UserStages
  <2>2. [request[c] EXCEPT !.at = IF @ = "delete" THEN "deleting" ELSE "cancelling"]
          \in [at : UserStages, user : Users]
    BY <2>1 DEF UserStages
  <2>3. request' \in [Clients -> Requests]
    BY <1>1, <2>2, RequestMoves, RequestDone DEF LockUser, Requests
  <2> QED BY <1>1, <2>3 DEF LockUser, TypeOK, accountVars, authVars, otpVars
<1>2. CASE Abort(c)
  <2>1. request' \in [Clients -> Requests]
    BY <1>2, RequestDone DEF Abort
  <2> QED BY <1>2, <2>1 DEF Abort, TypeOK, accountVars, authVars, otpVars
<1> DEFINE u == request[c].user
<1>u. At(c, {"deleting", "cancelling"}) => u \in Users
  BY RequestOf DEF At, UserStages
<1> HIDE DEF u
<1>3. CASE RequestDeletion(c)
  <2>1. u \in Users
    BY <1>u, <1>3 DEF RequestDeletion, At
  <2>2. Requested(u) \in Deletions
    BY DEF Requested, Deletions
  <2>3. deletion' = [deletion EXCEPT ![u] = Requested(u)]
        /\ user' = [user EXCEPT ![u] = "DELETION_PENDING"]
        /\ session' = Without(SessionsOf(u)) /\ Done(c)
    BY <1>3 DEF RequestDeletion, u
  <2>4. deletion' \in [Users -> Deletions]
        /\ user' \in [Users -> {"absent", "ACTIVE", "DELETION_PENDING"}]
    BY <2>1, <2>2, <2>3 DEF TypeOK
  <2>5. request' \in [Clients -> Requests]
    BY <2>3, RequestDone
  <2>6. DOMAIN session' \subseteq DOMAIN session /\ session' \in [DOMAIN session' -> Sessions]
    BY <2>3, SessionsRemoved
  <2> QED BY <1>3, <2>4, <2>5, <2>6 DEF RequestDeletion, TypeOK, otpVars
<1>4. CASE CancelDeletion(c)
  <2>1. u \in Users
    BY <1>u, <1>4 DEF CancelDeletion, At
  <2>2. request' \in [Clients -> Requests]
    BY <1>4, RequestDone DEF CancelDeletion
  <2>3. CASE deletion[u].state = "none"
    BY <1>4, <2>2, <2>3 DEF CancelDeletion, TypeOK, authVars, otpVars, u
  <2>4. CASE deletion[u].state # "none"
    <3>1. deletion' = [deletion EXCEPT ![u].state = "cancelled"]
          /\ user' = [user EXCEPT ![u] = "ACTIVE"]
      BY <1>4, <2>4 DEF CancelDeletion, u
    <3>2. deletion' \in [Users -> Deletions]
          /\ user' \in [Users -> {"absent", "ACTIVE", "DELETION_PENDING"}]
      BY <2>1, <3>1 DEF TypeOK, Deletions
    <3> QED BY <1>4, <2>2, <3>2 DEF CancelDeletion, TypeOK, authVars, otpVars
  <2> QED BY <2>3, <2>4
<1> QED BY <1>1, <1>2, <1>3, <1>4

\* What the deletion of the users that are due changes.
LEMMA UsersDeleted ==
    ASSUME TypeOK, DeleteUsers, ~UNCHANGED <<accountVars, session, access>>
    PROVE  /\ user' = [u \in Users |-> IF u \in purging THEN "absent" ELSE user[u]]
           /\ DOMAIN session' = {t \in DOMAIN session : session[t].user \notin purging}
           /\ \A t \in DOMAIN session' : session'[t] = session[t]
           /\ session' \in [DOMAIN session' -> Sessions]
           /\ TypeOK'
<1>1. /\ user' = [u \in Users |-> IF u \in purging THEN "absent" ELSE user[u]]
      /\ deletion' = [u \in Users |-> IF u \in purging THEN NoDeletion ELSE deletion[u]]
      /\ session' = Without(UNION {SessionsOf(u) : u \in purging})
      /\ access' = access \ purging /\ purging' = {}
      /\ UNCHANGED <<issued, exchanged, otpVars, request>>
  BY DEF DeleteUsers
<1>2. /\ DOMAIN session' = DOMAIN session \ UNION {SessionsOf(u) : u \in purging}
      /\ \A t \in DOMAIN session' : session'[t] = session[t]
      /\ session' \in [DOMAIN session' -> Sessions]
  BY <1>1, SessionsRemoved
<1>3. DOMAIN session' = {t \in DOMAIN session : session[t].user \notin purging}
  BY <1>2 DEF SessionsOf
<1>4. NoDeletion \in Deletions
  BY DEF NoDeletion, Deletions
<1>5. /\ user' \in [Users -> {"absent", "ACTIVE", "DELETION_PENDING"}]
      /\ deletion' \in [Users -> Deletions] /\ access' \subseteq Users
  BY <1>1, <1>4 DEF TypeOK
<1>6. TypeOK'
  BY <1>1, <1>2, <1>5 DEF TypeOK, otpVars
<1> QED BY <1>1, <1>2, <1>3, <1>6

\* Types: the nightly purge.
LEMMA PurgeTypes ==
    ASSUME TypeOK, SelectDue \/ DeleteUsers \/ AbortPurge
    PROVE  TypeOK'
<1>1. CASE SelectDue \/ AbortPurge
  BY <1>1 DEF SelectDue, AbortPurge, TypeOK, accountVars, authVars, otpVars
<1>2. CASE DeleteUsers
  <2>1. CASE UNCHANGED <<accountVars, session, access>>
    BY <1>2, <2>1 DEF DeleteUsers, TypeOK, accountVars, otpVars
  <2> QED BY <1>2, <2>1, UsersDeleted
<1> QED BY <1>1, <1>2

\* Every step keeps the types; the exchange needs the row locks for it.
LEMMA TypesKept ==
    ASSUME TypeOK, RowLocks, [Next]_vars
    PROVE  TypeOK'
<1>1. ASSUME NEW u \in Users,
             RequestCode(u) \/ CodeExpires(u) \/ AccessExpires(u) \/ DeletionDue(u)
      PROVE  TypeOK'
  BY <1>1, CodeTypes, UserTypes
<1>2. ASSUME NEW c \in Clients, NEW u \in Users,
             ReadCode(c, u) \/ AuthDelete(c, u) \/ AuthCancel(c, u)
      PROVE  TypeOK'
  BY <1>2, CodeTypes, UserTypes
<1>3. ASSUME NEW c \in Clients, NEW t \in Tokens, ReadToken(c, t) \/ ReadLogout(c, t)
      PROVE  TypeOK'
  BY <1>3, TokenTypes
<1>4. ASSUME NEW c \in Clients, Proceed(c)
      PROVE  TypeOK'
  BY <1>4, AnswerTypes, LoginTypes, Exchange, RevokeTypes, AccountTypes DEF Proceed
<1>5. CASE SelectDue \/ DeleteUsers \/ AbortPurge
  BY <1>5, PurgeTypes
<1>6. CASE UNCHANGED vars
  BY <1>6 DEF vars, accountVars, authVars, otpVars, TypeOK
<1> QED BY <1>1, <1>2, <1>3, <1>4, <1>5, <1>6 DEF Next

-----------------------------------------------------------------------------
\* A request that does not go to refresh leaves the refreshes where they are.
LEMMA RefreshesStay ==
    ASSUME TypeOK, NEW c \in Clients,
           \/ Done(c)
           \/ \E r \in Requests : r.at \notin {"rotate", "reuse"} /\ GoTo(c, r)
    PROVE  \A d \in Clients : At(d, {"rotate", "reuse"})' => request'[d] = request[d]
<1>1. PICK r \in Requests : r.at \notin {"rotate", "reuse"} /\ GoTo(c, r)
  BY DEF Done, Idle, Requests
<1> QED BY <1>1, RequestMoves DEF At

\* Sessions go or are revoked, and no refresh starts.
LEMMA SessionsShrink ==
    ASSUME TokensInv, TypeOK', UNCHANGED <<issued, exchanged>>,
           DOMAIN session' \subseteq DOMAIN session,
           \A t \in DOMAIN session' :
              /\ session'[t].user = session[t].user
              /\ session'[t].state = "live" => session[t].state = "live"
              /\ user'[session[t].user] # "absent",
           \A c \in Clients : At(c, {"rotate", "reuse"})' => request'[c] = request[c],
           \A c \in Clients : At(c, {"rotate"}) =>
              /\ request[c].token \in DOMAIN session'
              /\ session'[request[c].token] = session[request[c].token]
    PROVE  TokensInv'
<1>1. Unspent'
  BY DEF TokensInv, Unspent, ExchangedOnce
<1>2. SessionsHaveUsers'
  BY DEF TokensInv, SessionsHaveUsers
<1>3. ASSUME NEW c \in Clients, At(c, {"rotate", "reuse"})'
      PROVE  /\ request'[c] = request[c] /\ At(c, {"rotate", "reuse"})
             /\ At(c, {"rotate"})' <=> At(c, {"rotate"})
  BY <1>3 DEF At
<1>4. ASSUME NEW c \in Clients, At(c, {"rotate"})'
      PROVE  At(c, {"rotate"}) /\ request'[c] = request[c]
  BY <1>3, <1>4 DEF At
<1>5. ASSUME NEW c \in Clients, At(c, {"rotate"})'
      PROVE  /\ request'[c].token \in DOMAIN session'
             /\ session'[request'[c].token] = [state |-> "live", user |-> request'[c].user]
  BY <1>4, <1>5 DEF TokensInv, RowLocks
<1>6. ASSUME NEW c \in Clients, NEW d \in Clients, At(c, {"rotate", "reuse"})',
             At(d, {"rotate", "reuse"})', request'[c].token = request'[d].token
      PROVE  c = d
  BY <1>3, <1>6 DEF TokensInv, RowLocks
<1>7. RowLocks'
  BY <1>5, <1>6 DEF RowLocks
<1> QED BY <1>1, <1>2, <1>7 DEF TokensInv

\* Steps that leave the sessions alone and remove no account.
LEMMA SessionsKept ==
    ASSUME TokensInv, TypeOK', UNCHANGED <<session, issued, exchanged>>,
           \A u \in Users : user[u] # "absent" => user'[u] # "absent",
           \A c \in Clients : At(c, {"rotate", "reuse"})' => request'[c] = request[c]
    PROVE  TokensInv'
<1>1. \A t \in DOMAIN session : session[t].user \in Users /\ user[session[t].user] # "absent"
  BY DEF TokensInv, TypeOK, Sessions, SessionsHaveUsers
<1>2. \A c \in Clients : At(c, {"rotate"}) => request[c].token \in DOMAIN session
  BY DEF TokensInv, RowLocks
<1> QED BY <1>1, <1>2, SessionsShrink

\* The sessions of one account, or those that a reuse has seen, are deleted:
\* the DELETE has waited for every one that a refresh has locked.
LEMMA SessionsDeleted ==
    ASSUME TokensInv, TypeOK', UNCHANGED <<issued, exchanged>>,
           NEW c \in Clients, ~At(c, {"rotate"}), Done(c), NEW T,
           session' = Without(T), \A t \in T : ~SessionLocked(c, t),
           \A u \in Users : user[u] # "absent" => user'[u] # "absent"
    PROVE  TokensInv'
<1>1. /\ DOMAIN session' = DOMAIN session \ T
      /\ \A t \in DOMAIN session' : session'[t] = session[t]
  BY SessionsRemoved DEF TokensInv
<1>2. \A t \in DOMAIN session' : user'[session[t].user] # "absent"
  BY <1>1 DEF TokensInv, TypeOK, Sessions, SessionsHaveUsers
<1>3. ASSUME NEW d \in Clients, At(d, {"rotate"})
      PROVE  request[d].token \in DOMAIN session' /\ d # c
  <2>1. d \in Clients \ {c} /\ At(d, {"rotate", "reuse"})
    BY <1>3 DEF At
  <2>2. request[d].token \notin T
    BY <2>1 DEF SessionLocked
  <2> QED BY <1>1, <1>3, <2>1, <2>2 DEF TokensInv, RowLocks
<1>4. \A d \in Clients : At(d, {"rotate", "reuse"})' => request'[d] = request[d]
  BY RefreshesStay DEF TokensInv
<1> QED BY <1>1, <1>2, <1>3, <1>4, SessionsShrink

\* Steps of codes, time and purge that leave sessions and requests alone.
LEMMA TokensQuiet ==
    ASSUME TokensInv, TypeOK', NEW u,
           \/ RequestCode(u) \/ CodeExpires(u) \/ AccessExpires(u) \/ DeletionDue(u)
           \/ SelectDue \/ AbortPurge \/ UNCHANGED vars
    PROVE  TokensInv'
<1>1. UNCHANGED <<session, issued, exchanged, user, request>>
  BY DEF RequestCode, CodeExpires, AccessExpires, DeletionDue, SelectDue, AbortPurge, vars,
         accountVars, authVars
<1> QED BY <1>1, SessionsKept

\* Steps of a request that touch no session.
LEMMA TokensElsewhere ==
    ASSUME TokensInv, TypeOK', NEW c \in Clients, NEW v, NEW t,
           \/ v \in Users /\ (ReadCode(c, v) \/ AuthDelete(c, v) \/ AuthCancel(c, v))
           \/ t \in Tokens /\ ReadLogout(c, t)
           \/ WrongCode(c) \/ RightCode(c) \/ FindUser(c) \/ CreateUser(c)
           \/ LockUser(c) \/ CancelDeletion(c) \/ Abort(c)
    PROVE  TokensInv'
<1>1. TypeOK
  BY DEF TokensInv
<1>2. UNCHANGED <<session, issued, exchanged>>
  BY DEF ReadCode, AuthDelete, AuthCancel, ReadLogout, WrongCode, RightCode, FindUser,
         CreateUser, LockUser, CancelDeletion, Abort, authVars
<1>3. \A u \in Users : user[u] # "absent" => user'[u] # "absent"
  BY <1>1 DEF ReadCode, AuthDelete, AuthCancel, ReadLogout, WrongCode, RightCode, FindUser,
         CreateUser, LockUser, CancelDeletion, Abort, accountVars, TypeOK
<1>4. \A d \in Clients : At(d, {"rotate", "reuse"})' => request'[d] = request[d]
  <2>1. CASE ReadCode(c, v) \/ AuthDelete(c, v) \/ AuthCancel(c, v) \/ ReadLogout(c, t)
    BY <1>1, <2>1, RequestMoves DEF ReadCode, AuthDelete, AuthCancel, ReadLogout, At,
                                    TypeOK, GoTo
  <2>2. CASE WrongCode(c) \/ CancelDeletion(c) \/ Abort(c)
    BY <1>1, <2>2, RefreshesStay DEF WrongCode, CancelDeletion, Abort
  <2>3. CASE RightCode(c) \/ FindUser(c) \/ CreateUser(c)
    BY <1>1, <2>3 DEF RightCode, FindUser, CreateUser, At, TypeOK, GoTo, Done, Idle
  <2>4. CASE LockUser(c)
    <3>1. request[c] \in [at : UserStages, user : Users]
      BY <1>1, <2>4, RequestOf DEF LockUser, At, UserStages
    <3>2. CASE Done(c)
      BY <1>1, <3>2, RefreshesStay
    <3>3. CASE GoTo(c, [request[c] EXCEPT
                            !.at = IF @ = "delete" THEN "deleting" ELSE "cancelling"])
      BY <1>1, <3>1, <3>3 DEF At, TypeOK, GoTo
    <3> QED BY <2>4, <3>2, <3>3 DEF LockUser
  <2> QED BY <2>1, <2>2, <2>3, <2>4
<1> QED BY <1>2, <1>3, <1>4, SessionsKept

\* A new session takes a token that nothing has seen.
LEMMA TokensIssue ==
    ASSUME TokensInv, TypeOK', NEW c \in Clients, IssueTokens(c)
    PROVE  TokensInv'
<1> DEFINE u == request[c].user
<1>1. TypeOK /\ u \in Users
  BY RequestOf DEF TokensInv, IssueTokens, At, UserStages
<1>2. Done(c) /\ UNCHANGED <<user, exchanged>>
  BY DEF IssueTokens, accountVars
<1>3. \A d \in Clients : At(d, {"rotate", "reuse"})' => request'[d] = request[d]
  BY <1>1, <1>2, RefreshesStay
<1>4. CASE UNCHANGED <<session, issued, access>>
  BY <1>2, <1>3, <1>4, SessionsKept
<1>5. CASE NewSession(session, u) /\ user[u] # "absent"
  <2> HIDE DEF u
  <2>1. DOMAIN session \subseteq 1 .. issued /\ session \in [DOMAIN session -> Sessions]
    BY <1>1 DEF TypeOK
  <2>2. /\ issued' = issued + 1 /\ DOMAIN session' = DOMAIN session \cup {issued + 1}
        /\ session'[issued + 1] = [state |-> "live", user |-> u]
        /\ \A t \in DOMAIN session : session'[t] = session[t]
    BY <1>1, <1>5, <2>1, SessionAdded
  <2>3. issued \in Nat /\ issued + 1 \in Tokens /\ issued + 1 > issued
    BY <1>1, <2>2, AccountsAssumption DEF TypeOK, Tokens
  <2>4. Unspent'
    <3>1. \A t \in Tokens : t > issued' => exchanged'[t] = 0
      BY <1>2, <2>2, <2>3 DEF TokensInv, Unspent, Tokens
    <3>2. \A t \in DOMAIN session' : session'[t].state = "live" => exchanged'[t] = 0
      BY <1>2, <2>2, <2>3 DEF TokensInv, Unspent
    <3> QED BY <1>2, <3>1, <3>2 DEF TokensInv, Unspent, ExchangedOnce
  <2>5. RowLocks'
    <3>1. \A d \in Clients : At(d, {"rotate"})' =>
             At(d, {"rotate"}) /\ At(d, {"rotate", "reuse"})' /\ request'[d] = request[d]
      BY <1>3 DEF At
    <3>2. \A d \in Clients : At(d, {"rotate", "reuse"})' => At(d, {"rotate", "reuse"})
      BY <1>3 DEF At
    <3> QED BY <1>3, <2>2, <3>1, <3>2 DEF TokensInv, RowLocks
  <2>6. SessionsHaveUsers'
    BY <1>2, <1>5, <2>2 DEF TokensInv, SessionsHaveUsers
  <2> QED BY <2>4, <2>5, <2>6 DEF TokensInv
<1> QED BY <1>4, <1>5 DEF IssueTokens

\* The exchange: only this request holds the session.
LEMMA TokensRotate ==
    ASSUME TokensInv, NEW c \in Clients, Rotate(c)
    PROVE  TokensInv'
<1> DEFINE t == request[c].token
           u == request[c].user
<1>1. /\ t \in DOMAIN session /\ t \in Tokens /\ u \in Users
      /\ session[t] = [state |-> "live", user |-> u]
      /\ issued' = issued + 1 /\ issued + 1 \notin DOMAIN session
      /\ DOMAIN session' = DOMAIN session \cup {issued + 1}
      /\ session'[issued + 1] = [state |-> "live", user |-> u]
      /\ session'[t].state = "revoked" /\ session'[t].user = u
      /\ \A r \in DOMAIN session \ {t} : session'[r] = session[r]
      /\ exchanged' = [exchanged EXCEPT ![t] = @ + 1]
      /\ TypeOK'
  BY Exchange DEF TokensInv
<1>2. At(c, {"rotate", "reuse"}) /\ Done(c) /\ UNCHANGED user
  BY DEF Rotate, At, accountVars
<1>3. \A d \in Clients : At(d, {"rotate", "reuse"})' => request'[d] = request[d]
  BY <1>2, RefreshesStay DEF TokensInv
<1>4. ~At(c, {"rotate", "reuse"})'
  BY <1>2, RequestDone DEF TokensInv, At, Idle
<1>5. \A d \in Clients : At(d, {"rotate", "reuse"})' => request[d].token # t
  BY <1>2, <1>3, <1>4 DEF TokensInv, RowLocks, At
<1> HIDE DEF t, u
<1>6. /\ issued \in Nat /\ issued + 1 \in Tokens /\ issued + 1 > issued
      /\ exchanged[t] = 0 /\ exchanged'[t] = 1 /\ t <= issued
      /\ \A r \in Tokens \ {t} : exchanged'[r] = exchanged[r]
  BY <1>1 DEF TokensInv, TypeOK, Tokens, Unspent
<1>7. Unspent'
  <2>1. \A r \in Tokens : r > issued' => exchanged'[r] = 0
    BY <1>1, <1>6 DEF TokensInv, Unspent, Tokens
  <2>2. \A r \in DOMAIN session' : session'[r].state = "live" => exchanged'[r] = 0
    <3>1. ASSUME NEW r \in DOMAIN session', session'[r].state = "live" PROVE exchanged'[r] = 0
      <4>1. r # t
        BY <1>1, <3>1
      <4>2. CASE r = issued + 1
        BY <1>6, <4>1, <4>2 DEF TokensInv, Unspent
      <4>3. CASE r \in DOMAIN session
        BY <1>1, <1>6, <3>1, <4>1, <4>3 DEF TokensInv, Unspent, TypeOK, Tokens
      <4> QED BY <1>1, <4>2, <4>3
    <3> QED BY <3>1
  <2>3. ExchangedOnce'
    BY <1>6 DEF TokensInv, Unspent, ExchangedOnce
  <2> QED BY <2>1, <2>2, <2>3 DEF Unspent
<1>8. RowLocks'
  <2>1. ASSUME NEW d \in Clients, At(d, {"rotate"})'
        PROVE  /\ request'[d].token \in DOMAIN session'
               /\ session'[request'[d].token] = [state |-> "live", user |-> request'[d].user]
    <3>1. At(d, {"rotate"}) /\ request'[d] = request[d] /\ request[d].token # t
      BY <1>3, <1>5, <2>1 DEF At
    <3> QED BY <1>1, <3>1 DEF TokensInv, RowLocks
  <2>2. ASSUME NEW d \in Clients, NEW e \in Clients, At(d, {"rotate", "reuse"})',
               At(e, {"rotate", "reuse"})', request'[d].token = request'[e].token
        PROVE  d = e
    BY <1>3, <2>2 DEF TokensInv, RowLocks, At
  <2> QED BY <2>1, <2>2 DEF RowLocks
<1>9. SessionsHaveUsers'
  <2>1. user[u] # "absent"
    BY <1>1 DEF TokensInv, SessionsHaveUsers
  <2>2. ASSUME NEW r \in DOMAIN session' PROVE user[session'[r].user] # "absent"
    BY <1>1, <2>1 DEF TokensInv, SessionsHaveUsers
  <2> QED BY <1>2, <2>2 DEF SessionsHaveUsers
<1> QED BY <1>1, <1>7, <1>8, <1>9 DEF TokensInv

\* The row lock is taken: no other refresh is about the same session.
LEMMA TokensRead ==
    ASSUME TokensInv, TypeOK', NEW c \in Clients, NEW t \in Tokens, ReadToken(c, t)
    PROVE  TokensInv'
<1> DEFINE r == [at |-> IF session[t].state = "live" THEN "rotate" ELSE "reuse",
                 token |-> t, user |-> session[t].user, saw |-> SessionsOf(session[t].user)]
<1>1. /\ t \in DOMAIN session /\ session[t] \in Sessions
      /\ \A d \in Clients \ {c} : ~(At(d, {"rotate", "reuse"}) /\ request[d].token = t)
      /\ UNCHANGED <<user, session, issued, exchanged>>
  BY DEF ReadToken, SessionLocked, accountVars, authVars, TokensInv, TypeOK
<1>2. request'[c] = r /\ \A d \in Clients \ {c} : request'[d] = request[d]
  BY DEF ReadToken, GoTo, TokensInv, TypeOK
<1>3. r.token = t /\ r.user = session[t].user /\ (r.at = "rotate" => session[t].state = "live")
  OBVIOUS
<1> HIDE DEF r
<1>4. Unspent' /\ SessionsHaveUsers'
  BY <1>1 DEF TokensInv, Unspent, ExchangedOnce, SessionsHaveUsers
<1>5. ASSUME NEW d \in Clients, At(d, {"rotate"})'
      PROVE  /\ request'[d].token \in DOMAIN session'
             /\ session'[request'[d].token] = [state |-> "live", user |-> request'[d].user]
  <2>1. CASE d = c
    <3>1. session[t].state = "live"
      BY <1>2, <1>3, <1>5, <2>1 DEF At
    <3>2. session[t] = [state |-> "live", user |-> session[t].user]
      BY <1>1, <3>1 DEF Sessions
    <3> QED BY <1>1, <1>2, <1>3, <2>1, <3>2
  <2>2. CASE d # c
    BY <1>1, <1>2, <1>5, <2>2 DEF TokensInv, RowLocks, At
  <2> QED BY <2>1, <2>2
<1>6. ASSUME NEW d \in Clients, NEW e \in Clients, At(d, {"rotate", "reuse"})',
             At(e, {"rotate", "reuse"})', request'[d].token = request'[e].token
      PROVE  d = e
  BY <1>1, <1>2, <1>3, <1>6 DEF TokensInv, RowLocks, At
<1> QED BY <1>4, <1>5, <1>6 DEF TokensInv, RowLocks

\* The two steps that delete many sessions.
LEMMA TokensRevoke ==
    ASSUME TokensInv, TypeOK', NEW c \in Clients, RevokeReused(c) \/ RequestDeletion(c)
    PROVE  TokensInv'
<1>1. CASE RevokeReused(c)
  BY <1>1, SessionsDeleted DEF RevokeReused, At, accountVars
<1>2. CASE RequestDeletion(c)
  <2>1. \A u \in Users : user[u] # "absent" => user'[u] # "absent"
    BY <1>2 DEF RequestDeletion, TokensInv, TypeOK
  <2> QED BY <1>2, <2>1, SessionsDeleted DEF RequestDeletion, At
<1> QED BY <1>1, <1>2

\* logout revokes a session that no refresh holds.
LEMMA TokensLogout ==
    ASSUME TokensInv, TypeOK', NEW c \in Clients, Logout(c)
    PROVE  TokensInv'
<1> DEFINE t == request[c].token
<1>1. /\ ~SessionLocked(c, t) /\ Done(c) /\ At(c, {"logout"})
      /\ UNCHANGED <<user, issued, exchanged>>
  BY DEF Logout, accountVars
<1>2. \A d \in Clients : At(d, {"rotate", "reuse"})' => request'[d] = request[d]
  BY <1>1, RefreshesStay DEF TokensInv
<1>3. CASE t \notin DOMAIN session
  <2>1. UNCHANGED session
    BY <1>3 DEF Logout
  <2> QED BY <1>1, <1>2, <2>1, SessionsKept
<1>4. CASE t \in DOMAIN session
  <2>1. session' = [session EXCEPT ![t].state = "revoked"]
    BY <1>4 DEF Logout
  <2>2. /\ DOMAIN session' = DOMAIN session
        /\ session'[t].state = "revoked" /\ session'[t].user = session[t].user
        /\ \A r \in DOMAIN session \ {t} : session'[r] = session[r]
    BY <1>4, <2>1, SessionRevoked DEF TokensInv
  <2>3. \A d \in Clients : At(d, {"rotate"}) => request[d].token # t
    BY <1>1 DEF SessionLocked, At
  <2>4. \A d \in Clients : At(d, {"rotate"}) =>
          /\ request[d].token \in DOMAIN session'
          /\ session'[request[d].token] = session[request[d].token]
    BY <2>2, <2>3 DEF TokensInv, RowLocks
  <2>5. \A r \in DOMAIN session' :
          /\ session'[r].user = session[r].user
          /\ session'[r].state = "live" => session[r].state = "live"
          /\ user'[session[r].user] # "absent"
    BY <1>1, <2>2 DEF TokensInv, SessionsHaveUsers
  <2> QED BY <1>1, <1>2, <2>2, <2>4, <2>5, SessionsShrink
<1> QED BY <1>3, <1>4

\* The cascade waits for the sessions that a refresh has locked.
LEMMA TokensDelete ==
    ASSUME TokensInv, TypeOK', DeleteUsers
    PROVE  TokensInv'
<1>1. UNCHANGED <<issued, exchanged, request>>
  BY DEF DeleteUsers
<1>2. CASE UNCHANGED <<accountVars, session, access>>
  BY <1>1, <1>2, SessionsKept DEF accountVars
<1>3. CASE ~UNCHANGED <<accountVars, session, access>>
  <2>1. /\ user' = [u \in Users |-> IF u \in purging THEN "absent" ELSE user[u]]
        /\ DOMAIN session' = {t \in DOMAIN session : session[t].user \notin purging}
        /\ \A t \in DOMAIN session' : session'[t] = session[t]
    BY <1>3, UsersDeleted DEF TokensInv
  <2>2. \A t \in DOMAIN session : session[t].user \in Users /\ user[session[t].user] # "absent"
    BY DEF TokensInv, TypeOK, Sessions, SessionsHaveUsers
  <2>3. \A t \in DOMAIN session' : user'[session[t].user] # "absent"
    BY <2>1, <2>2
  <2>4. ASSUME NEW d \in Clients, At(d, {"rotate"}) PROVE request[d].token \in DOMAIN session'
    <3>1. /\ request[d].token \in DOMAIN session
          /\ session[request[d].token] = [state |-> "live", user |-> request[d].user]
      BY <2>4 DEF TokensInv, RowLocks
    <3>2. session[request[d].token].user = request[d].user
      BY <3>1
    <3>3. Refreshing(request[d].user)
      BY <2>4, <3>1, <3>2 DEF Refreshing, SessionsOf, At
    <3>4. request[d].user \notin purging
      BY <3>3 DEF DeleteUsers
    <3> QED BY <2>1, <3>1, <3>2, <3>4
  <2> QED BY <1>1, <2>1, <2>3, <2>4, SessionsShrink
<1> QED BY <1>2, <1>3

\* Every step keeps the sessions and refreshes consistent.
LEMMA TokensKept ==
    ASSUME TokensInv, [Next]_vars
    PROVE  TokensInv'
<1>t. TypeOK'
  BY TypesKept DEF TokensInv
<1>1. ASSUME NEW u \in Users,
             RequestCode(u) \/ CodeExpires(u) \/ AccessExpires(u) \/ DeletionDue(u)
      PROVE  TokensInv'
  BY <1>t, <1>1, TokensQuiet
<1>2. ASSUME NEW c \in Clients, NEW u \in Users,
             ReadCode(c, u) \/ AuthDelete(c, u) \/ AuthCancel(c, u)
      PROVE  TokensInv'
  BY <1>t, <1>2, TokensElsewhere
<1>3. ASSUME NEW c \in Clients, NEW t \in Tokens, ReadToken(c, t) \/ ReadLogout(c, t)
      PROVE  TokensInv'
  BY <1>t, <1>3, TokensRead, TokensElsewhere
<1>4. ASSUME NEW c \in Clients, Proceed(c)
      PROVE  TokensInv'
  BY <1>t, <1>4, TokensElsewhere, TokensIssue, TokensRotate, TokensRevoke, TokensLogout
     DEF Proceed
<1>5. CASE SelectDue \/ DeleteUsers \/ AbortPurge
  BY <1>t, <1>5, TokensQuiet, TokensDelete
<1>6. CASE UNCHANGED vars
  BY <1>t, <1>6, TokensQuiet
<1> QED BY <1>1, <1>2, <1>3, <1>4, <1>5, <1>6 DEF Next

\* No session and no request at the start.
LEMMA TokensStart == Init => TokensInv
<1> SUFFICES ASSUME Init PROVE TokensInv
  OBVIOUS
<1>1. DOMAIN session = {} /\ session \in [DOMAIN session -> Sessions]
  BY DEF Init
<1>2. NoDeletion \in Deletions /\ NoCode \in Codes /\ Idle \in Requests
  BY DEF NoDeletion, Deletions, NoCode, Codes, Requests
<1>3. TypeOK
  BY <1>1, <1>2, AccountsAssumption DEF Init, TypeOK
<1>4. \A c \in Clients : ~At(c, {"rotate"}) /\ ~At(c, {"rotate", "reuse"})
  BY DEF Init, At, Idle
<1> QED BY <1>1, <1>3, <1>4
        DEF Init, TokensInv, Unspent, ExchangedOnce, RowLocks, SessionsHaveUsers

-----------------------------------------------------------------------------
\* The code of an account that a step does not touch, the answers to it at
\* most being given up.
LEMMA CodeElsewhere ==
    ASSUME NEW v \in Users, CodeOK(v),
           otp'[v] = otp[v], guesses'[v] = guesses[v], overlap'[v] = overlap[v],
           \A c \in Clients : (At(c, {"verify"})' /\ request'[c].user = v) =>
                                 request'[c] = request[c]
    PROVE  CodeOK(v)'
<1>1. \A c \in Clients : (At(c, {"verify"})' /\ request'[c].user = v) =>
        /\ At(c, {"verify"}) /\ request[c].user = v /\ request'[c].saw = request[c].saw
  BY DEF At
<1> QED BY <1>1 DEF CodeOK

\* A request that does not go to verify leaves the answers where they are.
LEMMA AnswersStay ==
    ASSUME TypeOK, NEW c \in Clients,
           \/ Done(c)
           \/ \E r \in Requests : r.at # "verify" /\ GoTo(c, r)
    PROVE  \A d \in Clients : At(d, {"verify"})' => request'[d] = request[d]
<1>1. PICK r \in Requests : r.at # "verify" /\ GoTo(c, r)
  BY DEF Done, Idle, Requests
<1> QED BY <1>1, RequestMoves DEF At

\* Steps that touch no code and start no answer.
LEMMA CodesElsewhere ==
    ASSUME CodesInv, TypeOK', UNCHANGED otpVars,
           \A c \in Clients : At(c, {"verify"})' => request'[c] = request[c]
    PROVE  CodesInv'
<1>1. \A v \in Users : CodeOK(v)'
  BY CodeElsewhere DEF CodesInv, otpVars
<1>2. AnswersAllowed'
  BY DEF CodesInv, AnswersAllowed, At
<1> QED BY <1>1, <1>2 DEF CodesInv

\* A new code starts without wrong answers; an expired one takes no more.
LEMMA CodesRequested ==
    ASSUME CodesInv, TypeOK', NEW u \in Users, RequestCode(u) \/ CodeExpires(u)
    PROVE  CodesInv'
<1>1. UNCHANGED request /\ TypeOK
  BY DEF RequestCode, CodeExpires, CodesInv
<1>2. AnswersAllowed'
  BY <1>1 DEF CodesInv, AnswersAllowed, At
<1>3. ASSUME NEW v \in Users, v # u PROVE CodeOK(v)'
  <2>1. otp'[v] = otp[v] /\ guesses'[v] = guesses[v] /\ overlap'[v] = overlap[v]
    BY <1>1, <1>3 DEF RequestCode, CodeExpires, TypeOK
  <2> QED BY <1>1, <2>1, CodeElsewhere DEF CodesInv
<1>4. CASE RequestCode(u)
  <2>1. /\ otp'[u].live /\ otp'[u].attempts = 0 /\ guesses'[u] = 0
        /\ overlap'[u] = \E c \in Clients : At(c, {"verify"}) /\ request[c].user = u
    BY <1>1, <1>4 DEF RequestCode, TypeOK
  <2>2. ~overlap'[u] => \A c \in Clients : ~(At(c, {"verify"})' /\ request'[c].user = u)
    BY <1>1, <2>1 DEF At
  <2>3. CodeOK(u)'
    BY <2>1, <2>2, AccountsAssumption DEF CodeOK
  <2> QED BY <1>2, <1>3, <2>3 DEF CodesInv
<1>5. CASE CodeExpires(u)
  <2>1. ~otp'[u].live /\ guesses'[u] = guesses[u] /\ overlap'[u] = overlap[u]
    BY <1>1, <1>5 DEF CodeExpires, TypeOK, NoCode
  <2>2. CodeOK(u)'
    BY <1>1, <2>1 DEF CodesInv, CodeOK, At
  <2> QED BY <1>2, <1>3, <2>2 DEF CodesInv
<1> QED BY <1>4, <1>5

\* verify reads the attempts: below the limit, and of no other answer.
LEMMA CodesRead ==
    ASSUME CodesInv, TypeOK', NEW c \in Clients, NEW u \in Users, ReadCode(c, u)
    PROVE  CodesInv'
<1>1. TypeOK /\ UNCHANGED guesses /\ At(c, {"idle"}) /\ otp[u].live
  BY DEF ReadCode, CodesInv
<1>2. CASE Exhausted(otp[u].attempts)
  <2>1. UNCHANGED <<request, overlap, guesses>> /\ otp' = [otp EXCEPT ![u] = NoCode]
    BY <1>2 DEF ReadCode
  <2>2. ~otp'[u].live /\ \A v \in Users \ {u} : otp'[v] = otp[v]
    BY <1>1, <2>1 DEF TypeOK, NoCode
  <2>3. CodeOK(u)'
    BY <2>1, <2>2 DEF CodesInv, CodeOK, At
  <2>4. \A v \in Users \ {u} : CodeOK(v)'
    BY <2>1, <2>2, CodeElsewhere DEF CodesInv
  <2>5. AnswersAllowed'
    BY <2>1 DEF CodesInv, AnswersAllowed, At
  <2> QED BY <2>3, <2>4, <2>5 DEF CodesInv
<1>3. CASE ~Exhausted(otp[u].attempts)
  <2> DEFINE r == [at |-> "verify", user |-> u, saw |-> otp[u].attempts]
  <2>1. /\ UNCHANGED <<otp, guesses>> /\ GoTo(c, r)
        /\ overlap' = [overlap EXCEPT ![u] = @ \/ Answering(c, u)]
    BY <1>3 DEF ReadCode
  <2>2. request'[c] = r /\ \A d \in Clients \ {c} : request'[d] = request[d]
    BY <1>1, <2>1 DEF GoTo, TypeOK
  <2>3. r.user = u /\ r.saw = otp[u].attempts /\ r.at = "verify"
    OBVIOUS
  <2> HIDE DEF r
  <2>4. /\ overlap'[u] = (overlap[u] \/ Answering(c, u))
        /\ \A v \in Users \ {u} : overlap'[v] = overlap[v]
    BY <1>1, <2>1 DEF TypeOK
  <2>5. CodeOK(u)'
    <3>1. ASSUME ~overlap'[u] PROVE ~overlap[u] /\ ~Answering(c, u)
      BY <2>4, <3>1
    <3>2. ASSUME ~overlap'[u], NEW d \in Clients, At(d, {"verify"})', request'[d].user = u
          PROVE  d = c
      BY <2>2, <3>1, <3>2 DEF Answering, At
    <3>3. ASSUME ~overlap'[u] PROVE guesses[u] <= OtpAttempts /\ guesses[u] <= otp[u].attempts
      BY <1>1, <3>1, <3>3 DEF CodesInv, CodeOK
    <3> QED BY <2>1, <2>2, <2>3, <3>2, <3>3 DEF CodeOK
  <2>6. ASSUME NEW v \in Users \ {u} PROVE CodeOK(v)'
    <3>1. \A d \in Clients : (At(d, {"verify"})' /\ request'[d].user = v) =>
                                request'[d] = request[d]
      BY <2>2, <2>3
    <3> QED BY <2>1, <2>4, <3>1, CodeElsewhere DEF CodesInv
  <2>7. otp[u].attempts \in Nat /\ otp[u].attempts < OtpAttempts
    BY <1>1, <1>3, AccountsAssumption DEF Exhausted, TypeOK, Codes
  <2>8. AnswersAllowed'
    BY <2>2, <2>3, <2>7 DEF CodesInv, AnswersAllowed, At
  <2> QED BY <2>5, <2>6, <2>8 DEF CodesInv
<1> QED BY <1>2, <1>3

\* The counter that is written back counts this answer.
LEMMA CodesAnswered ==
    ASSUME CodesInv, TypeOK', NEW c \in Clients, WrongCode(c) \/ RightCode(c)
    PROVE  CodesInv'
<1>1. /\ TypeOK /\ At(c, {"verify"}) /\ UNCHANGED overlap
      /\ request[c].user \in Users /\ request[c].saw \in Nat /\ request[c].saw < OtpAttempts
  BY RequestOf DEF WrongCode, RightCode, CodesInv, AnswersAllowed, Verifying
<1>u. PICK u \in Users : u = request[c].user
  BY <1>1
<1>2. ~At(c, {"verify"})' /\ \A d \in Clients \ {c} : request'[d] = request[d]
  BY <1>1 DEF WrongCode, RightCode, GoTo, Done, Idle, TypeOK, At
<1>3. \A d \in Clients : At(d, {"verify"})' => request'[d] = request[d] /\ d # c
  BY <1>2
<1>4. \A v \in Users \ {u} : otp'[v] = otp[v] /\ guesses'[v] = guesses[v]
  BY <1>1, <1>u DEF WrongCode, RightCode, TypeOK
<1>5. ASSUME WrongCode(c) PROVE CodeOK(u)'
  <2>1. /\ otp'[u].attempts = request[c].saw + 1
        /\ guesses'[u] = IF guesses[u] > OtpAttempts THEN guesses[u] ELSE guesses[u] + 1
    BY <1>1, <1>u, <1>5 DEF WrongCode, TypeOK
  <2>2. guesses[u] \in Nat /\ OtpAttempts \in Nat
    BY <1>1, AccountsAssumption DEF TypeOK
  <2>3. ASSUME ~overlap'[u]
        PROVE  guesses[u] <= request[c].saw
    BY <1>1, <1>u, <2>3 DEF CodesInv, CodeOK
  <2>4. ASSUME ~overlap'[u]
        PROVE  guesses'[u] <= OtpAttempts /\ guesses'[u] <= otp'[u].attempts
    BY <1>1, <2>1, <2>2, <2>3, <2>4
  <2>5. ASSUME ~overlap'[u], NEW d \in Clients
        PROVE  ~(At(d, {"verify"})' /\ request'[d].user = u)
    <3>1. SUFFICES ASSUME At(d, {"verify"})', request'[d].user = u PROVE FALSE
      OBVIOUS
    <3>2. d # c /\ At(d, {"verify"}) /\ request[d].user = u
      BY <1>3, <3>1 DEF At
    <3> QED BY <1>1, <1>u, <2>5, <3>2 DEF CodesInv, CodeOK
  <2> QED BY <2>4, <2>5 DEF CodeOK
<1>6. ASSUME RightCode(c) PROVE CodeOK(u)'
  <2>1. ~otp'[u].live /\ guesses'[u] = guesses[u]
    BY <1>1, <1>u, <1>6 DEF RightCode, TypeOK, NoCode
  <2>2. \A d \in Clients : At(d, {"verify"})' => At(d, {"verify"}) /\ request'[d] = request[d]
    BY <1>3 DEF At
  <2> QED BY <1>1, <2>1, <2>2 DEF CodesInv, CodeOK
<1>7. \A v \in Users \ {u} : CodeOK(v)'
  BY <1>1, <1>3, <1>4, CodeElsewhere DEF CodesInv
<1>8. AnswersAllowed'
  BY <1>3 DEF CodesInv, AnswersAllowed, At
<1>9. CodeOK(u)'
  BY <1>5, <1>6
<1> QED BY <1>7, <1>8, <1>9 DEF CodesInv

\* Steps of time and purge leave codes and requests alone.
LEMMA CodesQuiet ==
    ASSUME CodesInv, TypeOK', NEW u,
           \/ AccessExpires(u) \/ DeletionDue(u) \/ SelectDue \/ DeleteUsers \/ AbortPurge
           \/ UNCHANGED vars
    PROVE  CodesInv'
<1>1. UNCHANGED <<otpVars, request>>
  BY DEF AccessExpires, DeletionDue, SelectDue, DeleteUsers, AbortPurge, vars
<1> QED BY <1>1, CodesElsewhere

\* Steps of a request that touch no code.
LEMMA CodesApart ==
    ASSUME CodesInv, TypeOK', NEW c \in Clients, NEW v, NEW t,
           \/ v \in Users /\ (AuthDelete(c, v) \/ AuthCancel(c, v))
           \/ t \in Tokens /\ (ReadToken(c, t) \/ ReadLogout(c, t))
           \/ FindUser(c) \/ CreateUser(c) \/ IssueTokens(c) \/ Rotate(c) \/ RevokeReused(c)
           \/ Logout(c) \/ LockUser(c) \/ RequestDeletion(c) \/ CancelDeletion(c) \/ Abort(c)
    PROVE  CodesInv'
<1>1. TypeOK
  BY DEF CodesInv
<1>2. UNCHANGED otpVars
  BY DEF AuthDelete, AuthCancel, ReadToken, ReadLogout, FindUser, CreateUser, IssueTokens,
         Rotate, RevokeReused, Logout, LockUser, RequestDeletion, CancelDeletion, Abort
<1>3. \A d \in Clients : At(d, {"verify"})' => request'[d] = request[d]
  <2>1. CASE AuthDelete(c, v) \/ AuthCancel(c, v) \/ ReadToken(c, t) \/ ReadLogout(c, t)
    BY <1>1, <2>1 DEF AuthDelete, AuthCancel, ReadToken, ReadLogout, At, TypeOK, GoTo
  <2>2. CASE FindUser(c) \/ CreateUser(c)
    BY <1>1, <2>2 DEF FindUser, CreateUser, At, TypeOK, GoTo, Done, Idle
  <2>3. CASE \/ IssueTokens(c) \/ Rotate(c) \/ RevokeReused(c) \/ Logout(c)
             \/ RequestDeletion(c) \/ CancelDeletion(c) \/ Abort(c)
    <3>1. Done(c)
      BY <2>3 DEF IssueTokens, Rotate, RevokeReused, Logout, RequestDeletion, CancelDeletion,
                  Abort
    <3> QED BY <1>1, <3>1, AnswersStay
  <2>4. CASE LockUser(c)
    <3>1. request[c] \in [at : UserStages, user : Users]
      BY <1>1, <2>4, RequestOf DEF LockUser, At, UserStages
    <3>2. CASE Done(c)
      BY <1>1, <3>2, AnswersStay
    <3>3. CASE GoTo(c, [request[c] EXCEPT
                            !.at = IF @ = "delete" THEN "deleting" ELSE "cancelling"])
      BY <1>1, <3>1, <3>3 DEF At, TypeOK, GoTo
    <3> QED BY <2>4, <3>2, <3>3 DEF LockUser
  <2> QED BY <2>1, <2>2, <2>3, <2>4
<1> QED BY <1>2, <1>3, CodesElsewhere

\* Every step keeps the codes and the answers to them consistent.
LEMMA CodesKept ==
    ASSUME CodesInv, TypeOK', [Next]_vars
    PROVE  CodesInv'
<1>1. ASSUME NEW u \in Users,
             RequestCode(u) \/ CodeExpires(u) \/ AccessExpires(u) \/ DeletionDue(u)
      PROVE  CodesInv'
  BY <1>1, CodesRequested, CodesQuiet
<1>2. ASSUME NEW c \in Clients, NEW u \in Users,
             ReadCode(c, u) \/ AuthDelete(c, u) \/ AuthCancel(c, u)
      PROVE  CodesInv'
  BY <1>2, CodesRead, CodesApart
<1>3. ASSUME NEW c \in Clients, NEW t \in Tokens, ReadToken(c, t) \/ ReadLogout(c, t)
      PROVE  CodesInv'
  BY <1>3, CodesApart
<1>4. ASSUME NEW c \in Clients, Proceed(c)
      PROVE  CodesInv'
  BY <1>4, CodesAnswered, CodesApart DEF Proceed
<1>5. CASE SelectDue \/ DeleteUsers \/ AbortPurge
  BY <1>5, CodesQuiet
<1>6. CASE UNCHANGED vars
  BY <1>6, CodesQuiet
<1> QED BY <1>1, <1>2, <1>3, <1>4, <1>5, <1>6 DEF Next

\* No code and no answer at the start.
LEMMA CodesStart == Init => CodesInv
<1> SUFFICES ASSUME Init PROVE CodesInv
  OBVIOUS
<1>1. TypeOK
  BY TokensStart DEF TokensInv
<1>2. \A c \in Clients : ~At(c, {"verify"})
  BY DEF Init, At, Idle
<1>3. \A u \in Users : guesses[u] = 0 /\ ~otp[u].live
  BY DEF Init, NoCode
<1> QED BY <1>1, <1>2, <1>3, AccountsAssumption DEF CodesInv, AnswersAllowed, CodeOK

-----------------------------------------------------------------------------
\* An account that is locked for the purge stays due until the purge ends.
LEMMA PurgeKept ==
    ASSUME PurgeInv, TypeOK', [Next]_vars
    PROVE  PurgeInv'
<1>1. ASSUME UNCHANGED deletion, purging' \subseteq purging
      PROVE  PurgeInv'
  BY <1>1 DEF PurgeInv, Due
<1>2. ASSUME NEW u \in Users,
             RequestCode(u) \/ CodeExpires(u) \/ AccessExpires(u)
      PROVE  PurgeInv'
  BY <1>1, <1>2 DEF RequestCode, CodeExpires, AccessExpires, accountVars
<1>3. ASSUME NEW u \in Users, DeletionDue(u)
      PROVE  PurgeInv'
  BY <1>3 DEF DeletionDue, PurgeInv, TypeOK, Deletions, Due
<1>4. ASSUME NEW c \in Clients, NEW u \in Users,
             ReadCode(c, u) \/ AuthDelete(c, u) \/ AuthCancel(c, u)
      PROVE  PurgeInv'
  BY <1>1, <1>4 DEF ReadCode, AuthDelete, AuthCancel, accountVars
<1>5. ASSUME NEW c \in Clients, NEW t \in Tokens, ReadToken(c, t) \/ ReadLogout(c, t)
      PROVE  PurgeInv'
  BY <1>1, <1>5 DEF ReadToken, ReadLogout, accountVars
<1>6. ASSUME NEW c \in Clients, Proceed(c), ~RequestDeletion(c), ~CancelDeletion(c)
      PROVE  PurgeInv'
  BY <1>1, <1>6 DEF Proceed, WrongCode, RightCode, FindUser, CreateUser, IssueTokens, Rotate,
                    RevokeReused, Logout, LockUser, Abort, accountVars
<1>7. ASSUME NEW c \in Clients, RequestDeletion(c) \/ CancelDeletion(c)
      PROVE  PurgeInv'
  <2>1. \A v \in purging : deletion'[v] = deletion[v]
    BY <1>7 DEF RequestDeletion, CancelDeletion, DeletionLocked, PurgeInv, TypeOK
  <2>2. UNCHANGED purging
    BY <1>7 DEF RequestDeletion, CancelDeletion
  <2> QED BY <2>1, <2>2 DEF PurgeInv, Due
<1>8. CASE SelectDue \/ DeleteUsers \/ AbortPurge
  BY <1>1, <1>8 DEF SelectDue, DeleteUsers, AbortPurge, accountVars, PurgeInv, Due
<1>9. CASE UNCHANGED vars
  BY <1>1, <1>9 DEF vars, accountVars
<1> QED BY <1>2, <1>3, <1>4, <1>5, <1>6, <1>7, <1>8, <1>9 DEF Next

\* Only the purge removes an account, and only one that it has locked.
LEMMA RemovedWhenDue ==
    ASSUME PurgeInv, [Next]_vars, NEW u \in Users, user[u] # "absent", user'[u] = "absent"
    PROVE  Due(u)
<1>1. ASSUME NEW c, CreateUser(c) \/ RequestDeletion(c) \/ CancelDeletion(c)
      PROVE  FALSE
  BY <1>1 DEF CreateUser, RequestDeletion, CancelDeletion, PurgeInv, TypeOK
<1>2. ~UNCHANGED user
  OBVIOUS
<1>3. DeleteUsers
  BY <1>1, <1>2 DEF Next, Proceed, RequestCode, CodeExpires, AccessExpires, DeletionDue,
                    ReadCode,
     AuthDelete, AuthCancel, ReadToken, ReadLogout, WrongCode, RightCode, FindUser, IssueTokens,
     Rotate, RevokeReused, Logout, LockUser, Abort, SelectDue, AbortPurge, vars, accountVars
<1>4. u \in purging
  BY <1>3 DEF DeleteUsers, PurgeInv, TypeOK, accountVars
<1> QED BY <1>4 DEF PurgeInv

-----------------------------------------------------------------------------
\* Sessions and refreshes, codes and answers, and the accounts under purge are
\* consistent in every reachable state.
THEOREM AccountsInvariant == Spec => [](TokensInv /\ CodesInv /\ PurgeInv)
<1>1. Init => TokensInv /\ CodesInv /\ PurgeInv
  BY TokensStart, CodesStart DEF Init, TokensInv, PurgeInv
<1>2. TokensInv /\ CodesInv /\ PurgeInv /\ [Next]_vars => (TokensInv /\ CodesInv /\ PurgeInv)'
  <2> SUFFICES ASSUME TokensInv, CodesInv, PurgeInv, [Next]_vars
               PROVE  (TokensInv /\ CodesInv /\ PurgeInv)'
    OBVIOUS
  <2>1. TokensInv'
    BY TokensKept
  <2>2. TypeOK'
    BY <2>1 DEF TokensInv
  <2> QED BY <2>1, <2>2, CodesKept, PurgeKept
<1> QED BY <1>1, <1>2, PTL DEF Spec

\* ExchangedOnce: however many requests present a refresh token at the same
\* time, AuthService.refresh exchanges it at most once.
THEOREM ExchangedOnceHolds == Spec => []ExchangedOnce
<1>1. TokensInv => ExchangedOnce
  BY DEF TokensInv, Unspent
<1> QED BY <1>1, AccountsInvariant, PTL

\* GuessesLimited: a one-time code takes more wrong answers than its limit only
\* if two answers to it were between the read and the write of RedisOtpStore.verify.
THEOREM GuessesLimitedHolds == Spec => []GuessesLimited
<1>1. CodesInv => GuessesLimited
  <2> SUFFICES ASSUME CodesInv, NEW u \in Users, guesses[u] > OtpAttempts PROVE overlap[u]
    BY DEF GuessesLimited
  <2>1. guesses[u] \in Nat /\ OtpAttempts \in Nat /\ overlap[u] \in BOOLEAN
    BY AccountsAssumption DEF CodesInv, TypeOK
  <2>2. ~(guesses[u] <= OtpAttempts)
    BY <2>1
  <2>3. ~overlap[u] => guesses[u] <= OtpAttempts
    BY DEF CodesInv, CodeOK
  <2> QED BY <2>2, <2>3
<1> QED BY <1>1, AccountsInvariant, PTL

\* CancelHolds: purge_due removes an account only while its deletion is requested
\* and due, so a cancellation that was answered with success holds.
THEOREM CancelHoldsAlways == Spec => CancelHolds
<1>1. PurgeInv /\ [Next]_vars
        => [\A u \in Users : (user[u] # "absent" /\ user'[u] = "absent") => Due(u)]_vars
  BY RemovedWhenDue
<1> QED BY <1>1, AccountsInvariant, PTL DEF Spec, CancelHolds

\* The foreign key: no session outlives the account it belongs to, whatever
\* refreshes, logins and purges run at the same time.
THEOREM SessionsHaveUsersHolds == Spec => []SessionsHaveUsers
<1>1. TokensInv => SessionsHaveUsers
  BY DEF TokensInv
<1> QED BY <1>1, AccountsInvariant, PTL

-----------------------------------------------------------------------------
(* StageUnlock *)

Stages == EarlyStages \cup {"TRUE_EXAM"} \cup MockStages
Attempts == [by : {"chapter", "exam"}, key : Keys, question : Questions]
OpenExams == [open : {TRUE}, questions : SUBSET Questions, school : Schools, stage : Stages]

UnlockTypeOK ==
    /\ school \in Schools /\ stage \in Stages
    /\ bank \subseteq Questions
    /\ sessions \subseteq [node : Nodes, school : Schools, questions : SUBSET Questions]
    /\ attempts \subseteq Attempts
    /\ profile \in [Schools -> [Nodes -> Nat]]
    /\ exam \in [Keys -> OpenExams \cup {NoExam}]

\* What is answered is a question of the bank, and a set that is submitted
\* belongs to one school.
FromBank ==
    /\ \A a \in attempts : a.question \in bank
    /\ \A ss \in sessions : \A q \in ss.questions : q \in bank /\ SchoolOf[q] = ss.school
    /\ \A k \in Keys : exam[k] # NoExam =>
         \A q \in exam[k].questions : q \in bank /\ SchoolOf[q] = exam[k].school

\* The key of an open exam has not been used.
KeyFresh ==
    \A k \in Keys : exam[k] # NoExam => \A a \in attempts : a.by = "exam" => a.key # k

UnlockInv == UnlockTypeOK /\ FromBank /\ KeyFresh /\ ProfileCountsAttempts

-----------------------------------------------------------------------------
\* There are finitely many answers to record: keys and questions are finite.
LEMMA AttemptsFinite ==
    ASSUME NEW A \in SUBSET Attempts
    PROVE  IsFiniteSet(A) /\ Cardinality(A) \in Nat
<1> DEFINE Keyed == ({"chapter", "exam"} \X Keys) \X Questions
           f == [a \in A |-> <<<<a.by, a.key>>, a.question>>]
<1>1. IsFiniteSet({"chapter"}) /\ IsFiniteSet({"chapter"} \cup {"exam"})
  BY FS_Singleton, FS_AddElement
<1>2. {"chapter"} \cup {"exam"} = {"chapter", "exam"}
  OBVIOUS
<1>3. IsFiniteSet({"chapter", "exam"})
  BY <1>1, <1>2
<1>4. IsFiniteSet({"chapter", "exam"} \X Keys)
  BY <1>3, FS_Product, UnlockAssumption
<1>5. IsFiniteSet(Keyed)
  BY <1>4, FS_Product, UnlockAssumption
<1>6. f \in [A -> Keyed]
  BY DEF Attempts
<1>7. \A a, b \in A : f[a] = f[b] => a = b
  BY DEF Attempts
<1>8. f \in Injection(A, Keyed)
  BY <1>6, <1>7 DEF Injection, IsInjective
<1>9. IsFiniteSet(A)
  BY <1>5, <1>8, FS_Injection
<1> QED BY <1>9, FS_CardinalityType

\* What unlocks.py counts for a node is a number, and no count of questions
\* passes the size of the bank.
LEMMA CountsFinite ==
    ASSUME UnlockTypeOK, NEW n \in Nodes
    PROVE  /\ TrueDone(n) \in Nat
           /\ TrueTotal(n) \in Nat /\ TrueTotal(n) <= Cardinality(Questions)
           /\ Cardinality(Questions) \in Nat
           /\ IsFiniteSet(AttemptsAt(n))
           /\ \A s \in Schools : IsFiniteSet(Snapshot(s, n))
<1>1. AttemptsAt(n) \in SUBSET Attempts
  BY DEF UnlockTypeOK, AttemptsAt
<1>2. IsFiniteSet(AttemptsAt(n)) /\ TrueDone(n) \in Nat
  BY <1>1, AttemptsFinite DEF TrueDone
<1>3. IsFiniteSet(Questions) /\ \A s \in Schools : Snapshot(s, n) \in SUBSET Questions
  BY UnlockAssumption DEF UnlockTypeOK, Snapshot
<1>4. \A s \in Schools : IsFiniteSet(Snapshot(s, n))
                         /\ Cardinality(Snapshot(s, n)) <= Cardinality(Questions)
  BY <1>3, FS_Subset
<1>5. /\ Cardinality(Questions) \in Nat
      /\ \A s \in Schools : Cardinality(Snapshot(s, n)) \in Nat
  BY <1>3, <1>4, FS_CardinalityType
<1>6. school \in Schools
  BY DEF UnlockTypeOK
<1> QED BY <1>2, <1>4, <1>5, <1>6 DEF TrueTotal

\* The nodes that a chapter examines are nodes, finitely many, and lie in the
\* syllabus of the school or are the chapter itself.
LEMMA NodesBelow ==
    ASSUME UnlockTypeOK, NEW c \in Nodes
    PROVE  /\ Examined(c) \subseteq Nodes /\ IsFiniteSet(Examined(c))
           /\ ChapterNodes(c) \subseteq Syllabus[school] \cup {c}
<1>1. Examined(c) \in SUBSET Nodes /\ IsFiniteSet(Nodes)
  BY UnlockAssumption DEF Examined, ChapterNodes
<1>2. Syllabus[school] \cup {c} \in SUBSET Nodes
  BY UnlockAssumption DEF UnlockTypeOK
<1> QED BY <1>1, <1>2, FS_Subset DEF ChapterNodes

\* The minimum of two numbers, as specialized_scopes takes it to cap what was
\* done by what there is.
LEMMA MinOfTwo ==
    ASSUME NEW i \in Nat, NEW j \in Nat
    PROVE  /\ Min({i, j}) = IF i <= j THEN i ELSE j
<1> DEFINE m == IF i <= j THEN i ELSE j
<1>1. m \in {i, j} /\ \A y \in {i, j} : m =< y
  OBVIOUS
<1>2. \A x \in {i, j} : (\A y \in {i, j} : x =< y) => x = m
  OBVIOUS
<1>3. Min({i, j}) = m
  BY <1>1, <1>2 DEF Min
<1> QED BY <1>3

\* Two totals agree only where every part does, when no part of one passes its
\* part of the other: why capping each node lets a total decide for all nodes.
LEMMA TotalsAgree ==
    ASSUME NEW N, IsFiniteSet(N), NEW most \in Nat,
           NEW f \in [N -> 0 .. most], NEW g \in [N -> 0 .. most],
           \A n \in N : f[n] <= g[n],
           Total(f) >= Total(g)
    PROVE  f = g
<1>1. Below(g) \in SUBSET (N \X (1 .. most))
  BY DEF Below
<1>2. Below(f) \in SUBSET Below(g)
  <2> SUFFICES ASSUME NEW n \in N, NEW i \in 1 .. f[n]
               PROVE  <<n, i>> \in Below(g)
    BY DEF Below
  <2>1. i \in 1 .. g[n]
    OBVIOUS
  <2>2. <<n, i>> \in {n} \X (1 .. g[n])
    BY <2>1
  <2> QED BY <2>2 DEF Below
<1>3. IsFiniteSet(1 .. most)
  BY FS_Interval
<1>4. IsFiniteSet(N \X (1 .. most))
  BY <1>3, FS_Product
<1>5. IsFiniteSet(Below(g))
  BY <1>1, <1>4, FS_Subset
<1>6. IsFiniteSet(Below(f)) /\ Cardinality(Below(f)) <= Cardinality(Below(g))
  BY <1>2, <1>5, FS_Subset
<1>7. Cardinality(Below(f)) \in Nat /\ Cardinality(Below(g)) \in Nat
  BY <1>5, <1>6, FS_CardinalityType
<1>8. Below(f) = Below(g)
  BY <1>2, <1>5, <1>6, <1>7, FS_Subset DEF Total
<1>9. ASSUME NEW n \in N, f[n] # g[n] PROVE FALSE
  <2>1. f[n] \in Nat /\ g[n] \in Nat /\ f[n] < g[n] /\ g[n] \in 1 .. g[n]
    BY <1>9
  <2>2. <<n, g[n]>> \in Below(g)
    BY <2>1 DEF Below
  <2>3. g[n] \in 1 .. f[n]
    BY <2>2, <1>8 DEF Below
  <2> QED BY <2>1, <2>3
<1> QED BY <1>9

\* Whatever was answered, the scope unlocked by the totals is the scope whose
\* every node is done.
LEMMA ScopesAgreeInv ==
    ASSUME UnlockTypeOK
    PROVE  ScopesAgree
<1> SUFFICES ASSUME NEW c \in Chapters(school)
             PROVE  ScopeUnlocked(c) <=> SpecializedAccess(c)
  BY DEF ScopesAgree
<1>1. c \in Nodes
  BY UnlockAssumption DEF UnlockTypeOK, Chapters
<1> DEFINE N == Examined(c)
           most == Cardinality(Questions)
           f == [n \in N |-> Capped(n)]
           g == [n \in N |-> TrueTotal(n)]
<1>2. N \subseteq Nodes /\ IsFiniteSet(N)
  BY <1>1, NodesBelow
<1>3. \A n \in N : /\ TrueDone(n) \in Nat /\ TrueTotal(n) \in Nat
                   /\ TrueTotal(n) <= most /\ most \in Nat
  BY <1>2, CountsFinite
<1>4. \A n \in N : Capped(n) = IF TrueDone(n) <= TrueTotal(n) THEN TrueDone(n) ELSE TrueTotal(n)
  BY <1>3, MinOfTwo DEF Capped
<1>5. ASSUME ScopeUnlocked(c) PROVE SpecializedAccess(c)
  <2>1. N # {} /\ N \subseteq strengthened /\ Total(f) >= Total(g)
    BY <1>5 DEF ScopeUnlocked
  <2>2. most \in Nat
    BY <2>1, <1>3
  <2>3. f \in [N -> 0 .. most] /\ g \in [N -> 0 .. most] /\ \A n \in N : f[n] <= g[n]
    BY <1>3, <1>4, <2>2
  <2> HIDE DEF f, g, N, most
  <2>4. f = g
    BY <2>1, <2>2, <2>3, <1>2, TotalsAgree
  <2>5. \A n \in N : TrueDone(n) >= TrueTotal(n)
    BY <2>4, <1>3, <1>4 DEF f, g
  <2> QED BY <2>1, <2>5 DEF SpecializedAccess, N
<1>6. ASSUME SpecializedAccess(c) PROVE ScopeUnlocked(c)
  <2>1. N # {} /\ \A n \in N : n \in strengthened /\ TrueDone(n) >= TrueTotal(n)
    BY <1>6 DEF SpecializedAccess
  <2>2. \A n \in N : Capped(n) = TrueTotal(n)
    BY <2>1, <1>3, <1>4
  <2>3. f = g
    BY <2>2
  <2>4. Total(g) \in Nat
    <3>1. Below(g) \in SUBSET (N \X (1 .. most))
      BY <1>3 DEF Below
    <3>2. IsFiniteSet(1 .. most)
      BY <2>1, <1>3, FS_Interval
    <3>3. IsFiniteSet(N \X (1 .. most))
      BY <3>2, <1>2, FS_Product
    <3>4. IsFiniteSet(Below(g))
      BY <3>1, <3>3, FS_Subset
    <3> QED BY <3>4, FS_CardinalityType DEF Total
  <2>5. Total(f) >= Total(g)
    BY <2>3, <2>4
  <2> QED BY <2>1, <2>5 DEF ScopeUnlocked
<1> QED BY <1>5, <1>6

\* Where every question was answered once, and by attempts of the school, the
\* scopes that are open have all their questions answered: what is answered is
\* of the bank, so that as many answers as questions are all of them.
LEMMA SpecializedEarnedInv ==
    ASSUME UnlockTypeOK, FromBank
    PROVE  SpecializedEarned
<1> SUFFICES ASSUME \A a, b \in attempts : a.question = b.question => a = b,
                    \A a \in attempts : SchoolOf[a.question] = school,
                    NEW c \in Chapters(school), SpecializedAccess(c),
                    NEW n \in Examined(c)
             PROVE  Snapshot(school, n) \subseteq {a.question : a \in attempts}
  BY DEF SpecializedEarned
<1>1. c \in Nodes /\ school \in Schools
  BY UnlockAssumption DEF UnlockTypeOK, Chapters
<1>2. n \in Nodes
  BY <1>1, NodesBelow
<1> DEFINE f == [a \in AttemptsAt(n) |-> a.question]
           S == Snapshot(school, n)
<1>3. IsFiniteSet(AttemptsAt(n)) /\ IsFiniteSet(S)
      /\ Cardinality(AttemptsAt(n)) \in Nat /\ Cardinality(S) \in Nat
  BY <1>1, <1>2, CountsFinite, FS_CardinalityType
<1>4. Cardinality(AttemptsAt(n)) >= Cardinality(S)
  BY DEF SpecializedAccess, TrueDone, TrueTotal
<1>5. f \in [AttemptsAt(n) -> S]
  BY DEF AttemptsAt, Snapshot, FromBank
<1>6. f \in Injection(AttemptsAt(n), S)
  BY <1>5 DEF Injection, IsInjective, AttemptsAt
<1>7. f \in Surjection(AttemptsAt(n), S)
  <2> HIDE DEF f, S
  <2> QED BY <1>3, <1>4, <1>6, FS_Injection
<1> QED BY <1>7 DEF Surjection, AttemptsAt

-----------------------------------------------------------------------------
\* A new student satisfies the invariant.
LEMMA UnlockInitInv == UnlockInit => UnlockInv
<1> SUFFICES ASSUME UnlockInit PROVE UnlockInv
  OBVIOUS
<1> USE UnlockAssumption DEF UnlockInit
<1>1. UnlockTypeOK
  BY DEF UnlockTypeOK, Stages, EarlyStages
<1>2. FromBank /\ KeyFresh
  BY DEF FromBank, KeyFresh
<1>3. ProfileCountsAttempts
  <2> SUFFICES ASSUME NEW s \in Schools, NEW n \in Nodes
               PROVE  profile[s][n] = Cardinality({a \in AttemptsAt(n) : SchoolOf[a.question] = s})
    BY DEF ProfileCountsAttempts
  <2>1. {a \in AttemptsAt(n) : SchoolOf[a.question] = s} = {}
    BY DEF AttemptsAt
  <2> QED BY <2>1, FS_EmptySet
<1> QED BY <1>1, <1>2, <1>3 DEF UnlockInv

\* A change of school or of stage alone disturbs no part of the invariant.
LEMMA QuietInv ==
    ASSUME UnlockInv, school' \in Schools, stage' \in Stages,
           UNCHANGED <<bank, sessions, attempts, profile, exam>>
    PROVE  UnlockInv'
BY DEF UnlockInv, UnlockTypeOK, FromBank, KeyFresh, ProfileCountsAttempts, AttemptsAt

\* Seeding a question only lets more of them be answered.
LEMMA SeedQuestionInv ==
    ASSUME UnlockInv, NEW q \in Questions, SeedQuestion(q)
    PROVE  UnlockInv'
BY DEF UnlockInv, UnlockTypeOK, FromBank, KeyFresh, ProfileCountsAttempts, AttemptsAt,
       SeedQuestion

\* A chapter session is drawn from the bank of one school.
LEMMA CreateChapterSessionInv ==
    ASSUME UnlockInv, NEW n \in Nodes, CreateChapterSession(n)
    PROVE  UnlockInv'
<1> DEFINE new == [node |-> n, school |-> school, questions |-> Snapshot(school, n)]
<1>1. /\ new \in [node : Nodes, school : Schools, questions : SUBSET Questions]
      /\ \A q \in new.questions : q \in bank /\ SchoolOf[q] = new.school
  BY DEF Snapshot, UnlockInv, UnlockTypeOK
<1>2. sessions' = sessions \cup {new}
  BY DEF CreateChapterSession
<1> HIDE DEF new
<1>3. UNCHANGED <<school, stage, bank, attempts, profile, exam>>
  BY DEF CreateChapterSession
<1>4. UnlockTypeOK'
  BY <1>1, <1>2, <1>3 DEF UnlockInv, UnlockTypeOK
<1>5. FromBank'
  BY <1>1, <1>2, <1>3 DEF UnlockInv, FromBank
<1>6. KeyFresh' /\ ProfileCountsAttempts'
  BY <1>3 DEF UnlockInv, KeyFresh, ProfileCountsAttempts, AttemptsAt
<1> QED BY <1>4, <1>5, <1>6 DEF UnlockInv

Answer(by, k, q) == [by |-> by, key |-> k, question |-> q]
AnswersOf(A, n, s) == {a \in A : n \in KnowledgeOf[a.question] /\ SchoolOf[a.question] = s}
Asking(Q, n) == {q \in Q : n \in KnowledgeOf[q]}

\* Recording a set of questions not answered before under that key adds one
\* attempt for each of them that asks about the node: no attempt is lost in
\* the union of the sets.
LEMMA AnswersCounted ==
    ASSUME NEW A \in SUBSET Attempts, NEW Q \in SUBSET Questions,
           NEW by \in {"chapter", "exam"}, NEW k \in Keys, NEW n, NEW s,
           \A q \in Q : SchoolOf[q] = s /\ Answer(by, k, q) \notin A
    PROVE  Cardinality(AnswersOf(A \cup {Answer(by, k, q) : q \in Q}, n, s)) =
             Cardinality(AnswersOf(A, n, s)) + Cardinality(Asking(Q, n))
<1> DEFINE more == AnswersOf(A \cup {Answer(by, k, q) : q \in Q}, n, s)
           old == AnswersOf(A, n, s)
           asked == Asking(Q, n)
           new == {Answer(by, k, q) : q \in asked}
           f == [q \in asked |-> Answer(by, k, q)]
<1>1. more = old \cup new /\ old \cap new = {}
  BY DEF Answer, AnswersOf, Asking
<1>2. f \in Bijection(asked, new)
  BY DEF Bijection, Injection, Surjection, IsInjective, Answer
<1>3. asked \in SUBSET Questions /\ IsFiniteSet(Questions)
  BY UnlockAssumption DEF Asking
<1>4. IsFiniteSet(asked)
  BY <1>3, FS_Subset
<1>5. ExistsBijection(asked, new)
  BY <1>2 DEF ExistsBijection
<1>6. old \in SUBSET Attempts
  BY DEF AnswersOf
<1>7. IsFiniteSet(old) /\ Cardinality(old) \in Nat
  BY <1>6, AttemptsFinite
<1> HIDE DEF old, more, asked, new, f
<1>8. IsFiniteSet(new) /\ Cardinality(new) = Cardinality(asked)
  BY <1>4, <1>5, FS_Bijection
<1>9. Cardinality(asked) \in Nat
  BY <1>4, FS_CardinalityType
<1>10. Cardinality(old \cup new) = Cardinality(old) + Cardinality(new) - Cardinality({})
  BY <1>1, <1>7, <1>8, FS_Union
<1>11. Cardinality({}) = 0
  BY FS_EmptySet
<1>12. Cardinality(more) = Cardinality(old) + Cardinality(asked)
  BY <1>1, <1>7, <1>8, <1>9, <1>10, <1>11
<1> QED BY <1>12 DEF old, more, asked

\* The profile is raised by what is recorded in the same step, so that it
\* still counts the attempts.
LEMMA RecordingInv ==
    ASSUME UnlockInv, NEW by \in {"chapter", "exam"}, NEW k \in Keys, NEW s \in Schools,
           NEW Q \in SUBSET Questions,
           \A q \in Q : SchoolOf[q] = s /\ q \in bank /\ Answer(by, k, q) \notin attempts,
           attempts' = attempts \cup {Answer(by, k, q) : q \in Q},
           profile' = Observed(s, Q)
    PROVE  /\ attempts' \subseteq Attempts /\ \A a \in attempts' : a.question \in bank
           /\ profile' \in [Schools -> [Nodes -> Nat]]
           /\ ProfileCountsAttempts'
<1>1. attempts' \subseteq Attempts /\ \A a \in attempts' : a.question \in bank
  BY DEF UnlockInv, UnlockTypeOK, FromBank, Attempts, Answer
<1>2. \A n \in Nodes : Cardinality(Asking(Q, n)) \in Nat
  <2> SUFFICES ASSUME NEW n \in Nodes PROVE Cardinality(Asking(Q, n)) \in Nat
    OBVIOUS
  <2>1. Asking(Q, n) \in SUBSET Questions /\ IsFiniteSet(Questions)
    BY UnlockAssumption DEF Asking
  <2> QED BY <2>1, FS_Subset, FS_CardinalityType
<1>3. \A s1 \in Schools, n \in Nodes :
        profile'[s1][n] =
          IF s1 = s THEN profile[s1][n] + Cardinality(Asking(Q, n)) ELSE profile[s1][n]
  BY DEF UnlockInv, UnlockTypeOK, Observed, Asking
<1>4. profile' \in [Schools -> [Nodes -> Nat]]
  <2>1. profile \in [Schools -> [Nodes -> Nat]]
    BY DEF UnlockInv, UnlockTypeOK
  <2> DEFINE row == [n \in Nodes |-> profile[s][n] + Cardinality(Asking(Q, n))]
  <2>2. row \in [Nodes -> Nat]
    BY <1>2, <2>1
  <2>3. profile' = [profile EXCEPT ![s] = row]
    BY DEF Observed, Asking
  <2> HIDE DEF row
  <2> QED BY <2>1, <2>2, <2>3
<1>5. ProfileCountsAttempts'
  <2> SUFFICES ASSUME NEW s1 \in Schools, NEW n \in Nodes
               PROVE  profile'[s1][n] =
                        Cardinality({a \in AttemptsAt(n)' : SchoolOf[a.question] = s1})
    BY DEF ProfileCountsAttempts
  <2>1. /\ {a \in AttemptsAt(n) : SchoolOf[a.question] = s1} = AnswersOf(attempts, n, s1)
        /\ {a \in AttemptsAt(n)' : SchoolOf[a.question] = s1} = AnswersOf(attempts', n, s1)
    BY DEF AttemptsAt, AnswersOf
  <2>2. profile[s1][n] = Cardinality(AnswersOf(attempts, n, s1))
    BY <2>1 DEF UnlockInv, ProfileCountsAttempts
  <2>3. CASE s1 # s
    <3>1. AnswersOf(attempts', n, s1) = AnswersOf(attempts, n, s1)
      BY <2>3 DEF Answer, AnswersOf
    <3> QED BY <1>3, <2>1, <2>2, <2>3, <3>1
  <2>4. CASE s1 = s
    <3>1. attempts \in SUBSET Attempts
      BY DEF UnlockInv, UnlockTypeOK
    <3>2. Cardinality(AnswersOf(attempts', n, s1)) =
            Cardinality(AnswersOf(attempts, n, s1)) + Cardinality(Asking(Q, n))
      BY <2>4, <3>1, AnswersCounted
    <3> QED BY <1>3, <2>1, <2>2, <2>4, <3>2
  <2> QED BY <2>3, <2>4
<1> QED BY <1>1, <1>4, <1>5

\* Submitting a chapter session records it once for its key.
LEMMA SubmitChapterSessionInv ==
    ASSUME UnlockInv, NEW ss \in sessions, NEW k \in Keys, SubmitChapterSession(ss, k)
    PROVE  UnlockInv'
<1> DEFINE new == {q \in ss.questions : Answer("chapter", k, q) \notin attempts}
<1>1. /\ attempts' = attempts \cup {Answer("chapter", k, q) : q \in new}
      /\ profile' = Observed(ss.school, new)
      /\ UNCHANGED <<school, stage, bank, sessions, exam>>
  BY DEF SubmitChapterSession, Answer
<1>2. /\ ss.school \in Schools /\ new \in SUBSET Questions
      /\ \A q \in new : /\ SchoolOf[q] = ss.school /\ q \in bank
                        /\ Answer("chapter", k, q) \notin attempts
  BY DEF UnlockInv, UnlockTypeOK, FromBank
<1> HIDE DEF new
<1>3. /\ attempts' \subseteq Attempts /\ \A a \in attempts' : a.question \in bank
      /\ profile' \in [Schools -> [Nodes -> Nat]]
      /\ ProfileCountsAttempts'
  BY <1>1, <1>2, RecordingInv
<1>4. UnlockTypeOK' /\ FromBank'
  BY <1>1, <1>3 DEF UnlockInv, UnlockTypeOK, FromBank
<1>5. KeyFresh'
  BY <1>1 DEF UnlockInv, KeyFresh, Answer
<1> QED BY <1>3, <1>4, <1>5 DEF UnlockInv

\* An exam that opens takes a key that was not used.
LEMMA BeginExamInv ==
    ASSUME UnlockInv, NEW k \in Keys, NEW e \in Exams, BeginExam(k, e)
    PROVE  UnlockInv'
<1> DEFINE new == [open |-> TRUE, questions |-> e, school |-> school, stage |-> stage]
<1>1. new \in OpenExams /\ new # NoExam
  BY UnlockAssumption DEF UnlockInv, UnlockTypeOK, OpenExams, NoExam
<1>2. /\ \A q \in new.questions : q \in bank /\ SchoolOf[q] = new.school
      /\ \A a \in attempts : a.by = "exam" => a.key # k
      /\ exam' = [exam EXCEPT ![k] = new]
      /\ UNCHANGED <<school, stage, bank, sessions, attempts, profile>>
  BY DEF BeginExam
<1> HIDE DEF new
<1>3. UnlockTypeOK'
  BY <1>1, <1>2 DEF UnlockInv, UnlockTypeOK
<1>4. \A j \in Keys : exam'[j] = IF j = k THEN new ELSE exam[j]
  BY <1>2 DEF UnlockInv, UnlockTypeOK
<1>5. FromBank'
  BY <1>2, <1>4 DEF UnlockInv, FromBank
<1>6. KeyFresh' /\ ProfileCountsAttempts'
  BY <1>2, <1>4 DEF UnlockInv, KeyFresh, ProfileCountsAttempts, AttemptsAt
<1> QED BY <1>3, <1>5, <1>6 DEF UnlockInv

\* Committing an exam records its answers under its key and closes it.
LEMMA CommitExamInv ==
    ASSUME UnlockInv, NEW k \in Keys, CommitExam(k)
    PROVE  UnlockInv'
<1> DEFINE Q == exam[k].questions
<1>1. exam[k] \in OpenExams /\ exam[k] # NoExam
  <2>1. exam[k].open /\ ~NoExam.open
    BY DEF CommitExam, NoExam
  <2> QED BY <2>1 DEF UnlockInv, UnlockTypeOK
<1>2. /\ attempts' = attempts \cup {Answer("exam", k, q) : q \in Q}
      /\ profile' = Observed(exam[k].school, Q)
      /\ exam' = [exam EXCEPT ![k] = NoExam]
      /\ stage' \in {stage, "TRUE_EXAM"}
      /\ UNCHANGED <<school, bank, sessions>>
  BY DEF CommitExam, Answer
<1>3. /\ exam[k].school \in Schools /\ Q \in SUBSET Questions
      /\ \A q \in Q : /\ SchoolOf[q] = exam[k].school /\ q \in bank
                      /\ Answer("exam", k, q) \notin attempts
  BY <1>1 DEF UnlockInv, FromBank, KeyFresh, OpenExams, Answer
<1> HIDE DEF Q
<1>4. /\ attempts' \subseteq Attempts /\ \A a \in attempts' : a.question \in bank
      /\ profile' \in [Schools -> [Nodes -> Nat]]
      /\ ProfileCountsAttempts'
  BY <1>2, <1>3, RecordingInv
<1>5. \A j \in Keys : exam'[j] = IF j = k THEN NoExam ELSE exam[j]
  BY <1>2 DEF UnlockInv, UnlockTypeOK
<1>6. UnlockTypeOK'
  BY <1>2, <1>4 DEF UnlockInv, UnlockTypeOK, Stages
<1>7. FromBank'
  BY <1>2, <1>4, <1>5 DEF UnlockInv, FromBank
<1>8. KeyFresh'
  BY <1>2, <1>5 DEF UnlockInv, KeyFresh, Answer
<1> QED BY <1>4, <1>6, <1>7, <1>8 DEF UnlockInv

\* Every step of the stage and chapter code keeps the invariant.
LEMMA UnlockNextInv ==
    ASSUME UnlockInv, [UnlockNext]_unlockVars
    PROVE  UnlockInv'
<1>1. school \in Schools /\ stage \in Stages /\ "MOCK_EXAM" \in Stages
  BY DEF UnlockInv, UnlockTypeOK, Stages, MockStages
<1>2. CASE Learn
  <2>1. school' \in Schools /\ stage' \in Stages
    BY <1>1, <1>2 DEF Learn, PlanTask, LearningFeedback, RemoveTask, ConfirmStrengthened,
                      ChangeSchool
  <2>2. UNCHANGED <<bank, sessions, attempts, profile, exam>>
    BY <1>2 DEF Learn, PlanTask, LearningFeedback, RemoveTask, ConfirmStrengthened,
                ChangeSchool
  <2> QED BY <2>1, <2>2, QuietInv
<1>3. CASE TakeMocks
  <2>1. school' \in Schools /\ stage' \in Stages
    BY <1>1, <1>3 DEF TakeMocks, ConfirmFullMock, RequestFull, RequestSpecialized, RequestMock,
                      GenerateMock, SubmitMock
  <2>2. UNCHANGED <<bank, sessions, attempts, profile, exam>>
    BY <1>3 DEF TakeMocks, ConfirmFullMock, RequestFull, RequestSpecialized, RequestMock,
                GenerateMock, SubmitMock
  <2> QED BY <2>1, <2>2, QuietInv
<1>4. CASE TakeTrueExams
  BY <1>4, SeedQuestionInv, CreateChapterSessionInv, SubmitChapterSessionInv, BeginExamInv,
     CommitExamInv DEF TakeTrueExams
<1>5. CASE UNCHANGED unlockVars
  BY <1>1, <1>5, QuietInv DEF unlockVars
<1> QED BY <1>2, <1>3, <1>4, <1>5 DEF UnlockNext

\* The answers recorded come from the bank, under keys used once, and the
\* profile counts every one of them, in every reachable state of the stage and
\* unlock code.
THEOREM UnlockInvariant == UnlockSpec => []UnlockInv
BY UnlockInitInv, UnlockNextInv, PTL DEF UnlockSpec

\* The specialized scopes that the unlock code opens by comparing totals are
\* the ones whose nodes are all done (unlocks.py specialized_scopes), for any
\* syllabus, bank and numbers of questions.
THEOREM ScopesAgreeAlways == UnlockSpec => []ScopesAgree
<1>1. UnlockInv => ScopesAgree
  BY ScopesAgreeInv DEF UnlockInv
<1> QED BY <1>1, UnlockInvariant, PTL

\* The counters of the profile that the stage code reads are the attempts that
\* were recorded, each counted once, for any keys, questions and schools.
THEOREM AttemptsCountedOnce == UnlockSpec => []ProfileCountsAttempts
<1>1. UnlockInv => ProfileCountsAttempts
  BY DEF UnlockInv
<1> QED BY <1>1, UnlockInvariant, PTL

\* A specialized mock is not granted for a knowledge point with a question of
\* the school left unanswered, as long as no question was answered twice or
\* under another school.
THEOREM SpecializedIsEarned == UnlockSpec => []SpecializedEarned
<1>1. UnlockInv => SpecializedEarned
  BY SpecializedEarnedInv DEF UnlockInv
<1> QED BY <1>1, UnlockInvariant, PTL
=============================================================================
