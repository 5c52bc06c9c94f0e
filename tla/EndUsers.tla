------------------------------- MODULE EndUsers --------------------------------
(***************************************************************************)
(* One user account of one product: registration, login with the binding  *)
(* of the machine, binding a card, changing and recovering the password,   *)
(* and what an administrator does to it.  A login decides by the row it    *)
(* read, and only the binding of a machine is guarded again.               *)
(*                                                                         *)
(* Left out: who holds which password (a request has the password of the   *)
(* row it read or is refused without a trace) and all other uses of cards  *)
(* (Licensing).                                                            *)
(***************************************************************************)
EXTENDS Integers, FiniteSets

CONSTANTS
    Machines, NoMachine,
    UserCards,      \* cards with days for accounts
    CardDays,       \* plans.duration_days of each card
    UserRequests,
    UserTokenTTL,   \* endUserTokenTTL
    UserStall,      \* longest time a request spends in its handler
    Extensions,     \* days an administrator adds
    MaxPassword,    \* bound on the changes of the password
    MaxResets,      \* bound on the machine resets
    MaxGranted,     \* bound on the days an administrator adds
    UserMaxTime     \* bound on the clock

ASSUME UsersAssumption ==
    /\ NoMachine \notin Machines
    /\ CardDays \in [UserCards -> Nat \ {0}]   \* UserBindCard refuses others
    /\ Extensions \subseteq Nat \ {0}
    /\ {UserTokenTTL, UserStall, MaxPassword, MaxResets, MaxGranted, UserMaxTime} \subseteq Nat

VARIABLES
    account,     \* the row of end_users: exists, status, pw, machine, and resets,
                 \* history: how often the machine was reset
    expiresAt,   \* end_users.expires_at
    cardOpen,    \* the card is unused
    userTokens,  \* tokens handed out
    ureq,        \* the request in each slot
    userNow,
    changedAt,   \* history: when each password was replaced
    granted,     \* history: days the account was given
    enjoyed      \* history: days during which it was valid

userVars == <<account, expiresAt, cardOpen, userTokens, ureq, userNow,
              changedAt, granted, enjoyed>>

Account == [exists : BOOLEAN, status : {"active", "disabled"}, pw : 0 .. MaxPassword,
            machine : Machines \cup {NoMachine}, resets : 0 .. MaxResets]
UserRequest == [pc : {"idle", "create", "machine", "mint", "password", "card"},
                machine : Machines \cup {NoMachine},   \* the one that asks
                pw : 0 .. MaxPassword, era : 0 .. MaxResets,  \* of the row a login read
                at : Nat]
UserToken == [pw : 0 .. MaxPassword,           \* history: the password it was given for
              machine : Machines, era : 0 .. MaxResets,  \* history: binding it was given under
              exp : Nat]

NoAccount == [exists |-> FALSE, status |-> "active", pw |-> 0, machine |-> NoMachine,
              resets |-> 0]
NoUserRequest == [pc |-> "idle", machine |-> NoMachine, pw |-> 0, era |-> 0, at |-> 0]

UsersInit ==
    /\ account = NoAccount
    /\ expiresAt = 0
    /\ cardOpen = [c \in UserCards |-> TRUE]
    /\ userTokens = {}
    /\ ureq = [r \in UserRequests |-> NoUserRequest]
    /\ userNow = 0
    /\ changedAt = [p \in 0 .. MaxPassword |-> 0]
    /\ granted = 0
    /\ enjoyed = 0

-----------------------------------------------------------------------------
EndUserRequest(r) == ureq' = [ureq EXCEPT ![r] = NoUserRequest]
BeginUser(r, pc) ==
    /\ ureq[r].pc = "idle"
    /\ ureq' = [ureq EXCEPT ![r] = [pc |-> pc, machine |-> NoMachine, pw |-> 0, era |-> 0,
                                    at |-> userNow]]
NothingElse == UNCHANGED <<expiresAt, cardOpen, userTokens, userNow, changedAt, granted, enjoyed>>

\* UserRegister: the name is free when it is read.
BeginRegister(r) ==
    /\ ~account.exists
    /\ BeginUser(r, "create")
    /\ UNCHANGED account /\ NothingElse

\* CreateEndUser; UNIQUE (product_id, username) refuses the second.
CreateEndUser(r) ==
    /\ ureq[r].pc = "create"
    /\ account' = IF account.exists THEN account ELSE [NoAccount EXCEPT !.exists = TRUE]
    /\ EndUserRequest(r)
    /\ NothingElse

\* UserLogin with the right password; a row with another machine is refused.
BeginLogin(r, m) ==
    /\ account.exists /\ account.status = "active"
    /\ account.machine \in {m, NoMachine}
    /\ ureq[r].pc = "idle"
    /\ ureq' = [ureq EXCEPT ![r] =
                   [pc |-> IF account.machine = NoMachine THEN "machine" ELSE "mint",
                    machine |-> m, pw |-> account.pw, era |-> account.resets,
                    at |-> userNow]]
    /\ UNCHANGED account /\ NothingElse

MayBindAlways == TRUE   \* the row was read with machine_hash NULL
MayBind == account.machine = NoMachine
\* BindEndUserMachine: without a row the login fails.
BindEndUserMachine(r) ==
    /\ ureq[r].pc = "machine"
    /\ IF MayBind
       THEN /\ account' = [account EXCEPT !.machine = ureq[r].machine]
            /\ ureq' = [ureq EXCEPT ![r].pc = "mint", ![r].era = account.resets]
       ELSE EndUserRequest(r) /\ UNCHANGED account
    /\ NothingElse

\* The token, made of the row that was read.
MintUserToken(r) ==
    /\ ureq[r].pc = "mint"
    /\ userTokens' = userTokens \cup
          {[pw |-> ureq[r].pw, machine |-> ureq[r].machine, era |-> ureq[r].era,
            exp |-> userNow + UserTokenTTL]}
    /\ EndUserRequest(r)
    /\ UNCHANGED <<account, expiresAt, cardOpen, userNow, changedAt, granted, enjoyed>>

AcceptsExpired(t) == account.exists /\ account.status = "active"
\* parseUserToken
Accepts(t) == t.exp > userNow /\ account.exists /\ account.status = "active"

\* UserChangePassword has verified the old password of the row it read, UserRecover
\* the security code; UserRecover does not look at the status.
BeginChangePassword(r) ==
    /\ \E t \in userTokens : Accepts(t)
    /\ BeginUser(r, "password")
    /\ UNCHANGED account /\ NothingElse
BeginRecover(r) ==
    /\ account.exists
    /\ BeginUser(r, "password")
    /\ UNCHANGED account /\ NothingElse
SetEndUserPassword(r) ==
    /\ ureq[r].pc = "password"
    /\ account.pw < MaxPassword
    /\ account' = [account EXCEPT !.pw = @ + 1]
    /\ changedAt' = [changedAt EXCEPT ![account.pw] = userNow]
    /\ EndUserRequest(r)
    /\ UNCHANGED <<expiresAt, cardOpen, userTokens, userNow, granted, enjoyed>>

ExtendedFromOld(days) == expiresAt + days   \* days that went by before are paid with
Extended(days) == (IF expiresAt < userNow THEN userNow ELSE expiresAt) + days

\* UserBindCard: the token, then a transaction that locks the card.
BeginBindCard(r) ==
    /\ \E t \in userTokens : Accepts(t)
    /\ BeginUser(r, "card")
    /\ UNCHANGED account /\ NothingElse
UserBindCardTx(r, c) ==
    /\ ureq[r].pc = "card"
    /\ IF cardOpen[c]
       THEN /\ cardOpen' = [cardOpen EXCEPT ![c] = FALSE]
            /\ expiresAt' = Extended(CardDays[c])
            /\ granted' = granted + CardDays[c]
       ELSE UNCHANGED <<cardOpen, expiresAt, granted>>
    /\ EndUserRequest(r)
    /\ UNCHANGED <<account, userTokens, userNow, changedAt, enjoyed>>

\* handleUserAction: one statement each.
SetEndUserStatus(status) ==
    /\ account.exists
    /\ account' = [account EXCEPT !.status = status]
    /\ UNCHANGED ureq /\ NothingElse
ResetEndUserMachine ==
    /\ account.exists /\ account.resets < MaxResets
    /\ account' = [account EXCEPT !.machine = NoMachine, !.resets = @ + 1]
    /\ UNCHANGED ureq /\ NothingElse
ExtendEndUser(days) ==
    /\ account.exists /\ granted + days <= MaxGranted
    /\ expiresAt' = Extended(days)
    /\ granted' = granted + days
    /\ UNCHANGED <<account, cardOpen, userTokens, ureq, userNow, changedAt, enjoyed>>

AbandonUser(r) ==
    /\ ureq[r].pc # "idle"
    /\ EndUserRequest(r)
    /\ UNCHANGED account /\ NothingElse

UserTick ==
    /\ userNow < UserMaxTime
    /\ \A r \in UserRequests : ureq[r].pc # "idle" => userNow < ureq[r].at + UserStall
    /\ userNow' = userNow + 1
    /\ enjoyed' = IF expiresAt > userNow THEN enjoyed + 1 ELSE enjoyed
    /\ UNCHANGED <<account, expiresAt, cardOpen, userTokens, ureq, changedAt, granted>>

UsersNext ==
    \/ \E r \in UserRequests :
          \/ BeginRegister(r) \/ CreateEndUser(r)
          \/ (\E m \in Machines : BeginLogin(r, m)) \/ BindEndUserMachine(r) \/ MintUserToken(r)
          \/ BeginChangePassword(r) \/ BeginRecover(r) \/ SetEndUserPassword(r)
          \/ BeginBindCard(r) \/ (\E c \in UserCards : UserBindCardTx(r, c))
          \/ AbandonUser(r)
    \/ \E status \in {"active", "disabled"} : SetEndUserStatus(status)
    \/ ResetEndUserMachine
    \/ \E days \in Extensions : ExtendEndUser(days)
    \/ UserTick

UsersSpec == UsersInit /\ [][UsersNext]_userVars

-----------------------------------------------------------------------------
UsersTypeOK ==
    /\ account \in Account
    /\ expiresAt \in Nat
    /\ cardOpen \in [UserCards -> BOOLEAN]
    /\ userTokens \subseteq UserToken
    /\ ureq \in [UserRequests -> UserRequest]
    /\ userNow \in Nat
    /\ changedAt \in [0 .. MaxPassword -> Nat]
    /\ granted \in Nat
    /\ enjoyed \in Nat

\* Between two resets an account is used on one machine: two first logins from two
\* machines that both read an unbound row do not both get a token (usersvc.go:142).
OneMachine ==
    /\ \A t, u \in userTokens : t.era = u.era => t.machine = u.machine
    /\ \A t \in userTokens : t.era = account.resets => t.machine = account.machine

\* Days are neither lost nor given twice: what cards and administrators gave is what
\* was used plus what is left (users.go:63-76), however they interleave with expiry.
DaysAccounted ==
    granted = enjoyed + (IF expiresAt > userNow THEN expiresAt - userNow ELSE 0)

\* A replaced password is worth nothing after the longest login and the life of
\* one token: no accepted token was given for it.
OldPasswordEnds == \A t \in userTokens :
    t.pw < account.pw /\ Accepts(t) => userNow < changedAt[t.pw] + UserStall + UserTokenTTL
=============================================================================
