------------------------------- MODULE AdminAuth -------------------------------
(***************************************************************************)
(* One administrator's account: log-in with lock-out, sessions, password,  *)
(* MFA, and what a super administrator does to it.  None of the handlers   *)
(* uses a transaction: each statement is a step, and a log-in creates its  *)
(* session for the credentials of the row it read at the start.            *)
(*                                                                         *)
(* epoch counts what ends sessions: a new password, MFA switched on or     *)
(* off, the account disabled.  Secrets of MFA are numbered as MFASetup     *)
(* hands them out.  Left out: must_change_password (it gates other         *)
(* handlers), roles, CSRF tokens, and which password or code is right: a   *)
(* request has the credentials of the row it read, or not.                 *)
(***************************************************************************)
EXTENDS Integers, FiniteSets

CONSTANTS
    AuthRequests,
    Sessions, NoSession,
    Threshold,     \* failed log-ins that lock, 5
    LockFor,       \* 15 minutes
    SessionTTL,
    AuthStall,     \* longest time a request spends in its handler
    MaxEpoch,      \* bound on the changes of the account
    MaxSetups,     \* bound on the secrets MFASetup hands out
    MaxFailed,     \* bound on failed_attempts
    AuthMaxTime    \* bound on the clock

ASSUME AuthAssumption ==
    /\ NoSession \notin Sessions
    /\ IsFiniteSet(AuthRequests)
    /\ {SessionTTL, AuthStall, MaxEpoch, MaxSetups, MaxFailed, AuthMaxTime} \subseteq Nat
    /\ Threshold \in Nat \ {0} /\ LockFor \in Nat \ {0}

VARIABLES
    admin,       \* the row of admins, with epoch
    sess,        \* admin_sessions
    pendingTOTP, \* mfa:pending in Redis, 0 without; secrets are numbered
    setups,      \* the secrets MFASetup has handed out
    tries,       \* history: how often MFAEnable took each of them
    areq,        \* the request in each slot
    authNow,
    endedAt,     \* history: when each epoch ended
    unswept,     \* history: an epoch ended and no RevokeAllSessions came since
    misses       \* history: counted failed log-ins since the last success, new password or end
                 \* of a lock

mfaVars == <<pendingTOTP, setups, tries>>
authVars == <<admin, sess, mfaVars, areq, authNow, endedAt, unswept, misses>>

Secrets == 0 .. MaxSetups
Admin == [status : {"active", "disabled"}, failed : Nat, lockedUntil : Nat,
          secret : Secrets,   \* totp_secret: 0 without MFA, or with one not of a setup
          epoch : 0 .. MaxEpoch]
Session == [live : BOOLEAN, epoch : 0 .. MaxEpoch, at : Nat,
            late : BOOLEAN]   \* history: created after its epoch had ended
Ops == {"password", "mfaSetup", "mfaEnable", "mfaDisable", "logout"}
AuthRequest == [pc : {"idle", "failed", "success", "session", "admin", "set", "pending",
                      "step", "sweep", "logout"},
                op : Ops \cup {"none", "login", "reset", "disable"},
                session : Sessions \cup {NoSession},   \* that the request came with
                epoch : 0 .. MaxEpoch,   \* of the row a log-in read, or that it began
                secret : Secrets,        \* that it took from Redis and has not stored
                at : Nat]
NoRow == [live |-> FALSE, epoch |-> 0, at |-> 0, late |-> FALSE]
NoAuthRequest == [pc |-> "idle", op |-> "none", session |-> NoSession, epoch |-> 0,
                  secret |-> 0, at |-> 0]

AuthInit ==
    /\ admin = [status |-> "active", failed |-> 0, lockedUntil |-> 0, secret |-> 0,
                epoch |-> 0]
    /\ sess = [s \in Sessions |-> NoRow]
    /\ pendingTOTP = 0 /\ setups = 0 /\ tries = [n \in 1 .. MaxSetups |-> 0]
    /\ areq = [r \in AuthRequests |-> NoAuthRequest]
    /\ authNow = 0
    /\ endedAt = [e \in 0 .. MaxEpoch |-> 0]
    /\ unswept = FALSE
    /\ misses = 0

-----------------------------------------------------------------------------
EndAuth(r) == areq' = [areq EXCEPT ![r] = NoAuthRequest]
GoTo(r, pc) == areq' = [areq EXCEPT ![r].pc = pc]
BeginAuth(r, pc, op, s, e) ==
    /\ areq[r].pc = "idle"
    /\ areq' = [areq EXCEPT ![r] = [pc |-> pc, op |-> op, session |-> s, epoch |-> e,
                                    secret |-> 0, at |-> authNow]]
OnlyRequests == UNCHANGED <<admin, sess, mfaVars, authNow, endedAt, unswept, misses>>

\* A statement that changes what sessions rest on.
NewEpoch(row) ==
    /\ admin.epoch < MaxEpoch
    /\ admin' = [row EXCEPT !.epoch = @ + 1]
    /\ endedAt' = [endedAt EXCEPT ![admin.epoch] = authNow]
    /\ unswept' = TRUE

Usable(s) == sess[s].live /\ authNow < sess[s].at + SessionTTL

\* AdminLogin has read the row and verified password and code against it.
BeginAdminLogin(r, right) ==
    /\ admin.status = "active"
    /\ ~(admin.lockedUntil > authNow)
    /\ BeginAuth(r, IF right THEN "success" ELSE "failed", "login", NoSession, admin.epoch)
    /\ OnlyRequests

LocksAbove(n) == n > Threshold
LocksAt(n) == n >= Threshold
\* OnLoginFailed: the count goes on after a lock has ended.
OnLoginFailed(r) ==
    LET n == admin.failed + 1
    IN  /\ areq[r].pc = "failed"
        /\ admin.failed < MaxFailed
        /\ admin' = [admin EXCEPT !.failed = n,
                                  !.lockedUntil = IF LocksAt(n) THEN authNow + LockFor ELSE 0]
        /\ misses' = misses + 1
        /\ EndAuth(r)
        /\ UNCHANGED <<sess, mfaVars, authNow, endedAt, unswept>>

OnLoginSuccess(r) ==
    /\ areq[r].pc = "success"
    /\ admin' = [admin EXCEPT !.failed = 0, !.lockedUntil = 0]
    /\ misses' = 0
    /\ GoTo(r, "session")
    /\ UNCHANGED <<sess, mfaVars, authNow, endedAt, unswept>>

\* CreateSession, of AdminLogin and of AdminChangePassword.
CreateSession(r, s) ==
    /\ areq[r].pc = "session"
    /\ sess[s] = NoRow
    /\ sess' = [sess EXCEPT ![s] = [live |-> TRUE, epoch |-> areq[r].epoch, at |-> authNow,
                                    late |-> areq[r].epoch # admin.epoch]]
    /\ EndAuth(r)
    /\ UNCHANGED <<admin, mfaVars, authNow, endedAt, unswept, misses>>

\* ResolveSession finds the session, then the administrator.
BeginOperation(r, s, op) ==
    /\ Usable(s)
    /\ BeginAuth(r, "admin", op, s, 0)
    /\ OnlyRequests
ResolveAdmin(r) ==
    /\ areq[r].pc = "admin"
    /\ IF admin.status = "active" /\ areq[r].op # "mfaSetup"
       THEN GoTo(r, CASE areq[r].op = "logout" -> "logout"
                      [] areq[r].op = "mfaEnable" -> "pending"
                      [] OTHER -> "set")
       ELSE EndAuth(r)
    /\ IF admin.status = "active" /\ areq[r].op = "mfaSetup"
       THEN /\ setups < MaxSetups
            /\ setups' = setups + 1 /\ pendingTOTP' = setups'
            /\ UNCHANGED tries
       ELSE UNCHANGED mfaVars
    /\ UNCHANGED <<admin, sess, authNow, endedAt, unswept, misses>>

\* AdminChangePassword and MFADisable, whose password was right for the row that
\* was read: SetAdminPassword, SetAdminMFA.
SetCredentials(r) ==
    /\ areq[r].pc = "set"
    /\ areq' = [areq EXCEPT ![r].pc = "sweep", ![r].epoch = admin.epoch + 1,
                            ![r].secret = 0]
    /\ IF areq[r].op = "password"
       THEN NewEpoch([admin EXCEPT !.failed = 0, !.lockedUntil = 0]) /\ misses' = 0
       ELSE NewEpoch([admin EXCEPT !.secret = areq[r].secret]) /\ UNCHANGED misses
    /\ UNCHANGED <<sess, mfaVars, authNow>>

GetOnly(pending) == pending
GetDel(pending) == 0   \* what the command leaves in Redis
\* MFAEnable takes the pending secret before it verifies the code with it ...
ConsumePendingTOTP(r) ==
    /\ areq[r].pc = "pending"
    /\ pendingTOTP' = GetDel(pendingTOTP)
    /\ IF pendingTOTP # 0
       THEN /\ areq' = [areq EXCEPT ![r].pc = "step", ![r].secret = pendingTOTP]
            /\ tries' = [tries EXCEPT ![pendingTOTP] = @ + 1]
       ELSE EndAuth(r) /\ UNCHANGED tries
    /\ UNCHANGED <<admin, sess, setups, authNow, endedAt, unswept, misses>>
\* ... and ends if the code is wrong or ConsumeTOTPWindow finds its step used.
ConsumeTOTPWindow(r) ==
    /\ areq[r].pc = "step"
    /\ GoTo(r, "set") \/ EndAuth(r)
    /\ UNCHANGED <<admin, sess, mfaVars, authNow, endedAt, unswept, misses>>

\* UpdateAgentAccount by a super administrator: ResetAdminPassword.
ResetAdminPassword(r) ==
    /\ BeginAuth(r, "sweep", "reset", NoSession, admin.epoch)
    /\ NewEpoch([admin EXCEPT !.failed = 0, !.lockedUntil = 0])
    /\ misses' = 0
    /\ UNCHANGED <<sess, mfaVars, authNow>>
\* SetAdminStatus
DisableAdmin(r) ==
    /\ BeginAuth(r, "sweep", "disable", NoSession, admin.epoch)
    /\ NewEpoch([admin EXCEPT !.status = "disabled"])
    /\ UNCHANGED <<sess, mfaVars, authNow, misses>>
EnableAdmin ==
    /\ admin' = [admin EXCEPT !.status = "active"]
    /\ UNCHANGED <<sess, mfaVars, areq, authNow, endedAt, unswept, misses>>

SweptOthers(r, s) == [sess[s] EXCEPT !.live = @ /\ s = areq[r].session]   \* but one's own
Swept(r, s) == [sess[s] EXCEPT !.live = FALSE]
\* RevokeAllSessions; AdminChangePassword goes on to a session for the browser.
RevokeAllSessions(r) ==
    /\ areq[r].pc = "sweep"
    /\ sess' = [s \in Sessions |-> Swept(r, s)]
    /\ unswept' = FALSE
    /\ IF areq[r].op = "password" THEN GoTo(r, "session") ELSE EndAuth(r)
    /\ UNCHANGED <<admin, mfaVars, authNow, endedAt, misses>>

RevokeSession(r) ==
    /\ areq[r].pc = "logout"
    /\ sess' = [sess EXCEPT ![areq[r].session].live = FALSE]
    /\ EndAuth(r)
    /\ UNCHANGED <<admin, mfaVars, authNow, endedAt, unswept, misses>>

\* A crash, a cancelled context, an error that is returned or ignored.
AbandonAuth(r) ==
    /\ areq[r].pc # "idle"
    /\ EndAuth(r)
    /\ OnlyRequests

\* The worker deletes sessions that have expired.
ReapSessions ==
    /\ sess' = [s \in Sessions |-> IF authNow > sess[s].at + SessionTTL THEN NoRow ELSE sess[s]]
    /\ UNCHANGED <<admin, mfaVars, areq, authNow, endedAt, unswept, misses>>

\* The pending secret expires in Redis, or Redis loses it.
ForgetTOTP ==
    /\ pendingTOTP' = 0
    /\ UNCHANGED <<admin, sess, setups, tries, areq, authNow, endedAt, unswept, misses>>

AuthTick ==
    /\ authNow < AuthMaxTime
    /\ \A r \in AuthRequests : areq[r].pc # "idle" => authNow < areq[r].at + AuthStall
    /\ authNow' = authNow + 1
    /\ misses' = IF admin.lockedUntil = authNow' THEN 0 ELSE misses
    /\ UNCHANGED <<admin, sess, mfaVars, areq, endedAt, unswept>>

AuthNext ==
    \/ \E r \in AuthRequests :
          \/ \E right \in BOOLEAN : BeginAdminLogin(r, right)
          \/ OnLoginFailed(r) \/ OnLoginSuccess(r)
          \/ \E s \in Sessions : CreateSession(r, s) \/ \E op \in Ops : BeginOperation(r, s, op)
          \/ ResolveAdmin(r) \/ SetCredentials(r)
          \/ ConsumePendingTOTP(r) \/ ConsumeTOTPWindow(r)
          \/ ResetAdminPassword(r) \/ DisableAdmin(r)
          \/ RevokeAllSessions(r) \/ RevokeSession(r) \/ AbandonAuth(r)
    \/ EnableAdmin
    \/ ReapSessions
    \/ ForgetTOTP
    \/ AuthTick

AuthSpec == AuthInit /\ [][AuthNext]_authVars

-----------------------------------------------------------------------------
AuthTypeOK ==
    /\ admin \in Admin
    /\ sess \in [Sessions -> Session]
    /\ pendingTOTP \in 0 .. setups /\ setups \in Secrets
    /\ tries \in [1 .. MaxSetups -> Nat]
    /\ areq \in [AuthRequests -> AuthRequest]
    /\ authNow \in Nat
    /\ endedAt \in [0 .. MaxEpoch -> Nat]
    /\ unswept \in BOOLEAN
    /\ misses \in Nat

\* Sessions follow the account: once RevokeAllSessions has run after a new password,
\* a change of MFA or a disabling (also one that is undone), a session from before
\* lives only if a log-in that was in flight created it late, and then not later
\* than a handler may take.
SessionsFollowAccount == \A s \in Sessions :
    Usable(s) /\ sess[s].epoch < admin.epoch /\ ~unswept =>
        sess[s].late /\ sess[s].at <= endedAt[sess[s].epoch] + AuthStall

\* Guessing is slow: until a lock ends no more log-ins fail than the threshold and
\* what was in flight when it was reached (adminstore.go:53), although the lock is
\* tested on a row that is read before the count is raised, and others succeed.
GuessesBounded == misses <= Threshold - 1 + Cardinality(AuthRequests)

\* A secret of MFASetup has one way: a confirmation takes it from Redis and tries
\* one code with it, and when the code is wrong or the process dies it is gone.  No
\* two confirmations hold the same secret, and the row never has one that is still
\* pending or held.
SecretTriedOnce ==
    /\ \A n \in 1 .. MaxSetups : tries[n] <= 1
    /\ \A r \in AuthRequests : areq[r].secret # 0 =>
          /\ areq[r].secret \notin {pendingTOTP, admin.secret}
          /\ \A q \in AuthRequests : areq[q].secret = areq[r].secret => q = r
    /\ admin.secret # 0 => tries[admin.secret] = 1 /\ pendingTOTP # admin.secret
=============================================================================
