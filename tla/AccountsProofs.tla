----------------------------- MODULE AccountsProofs -----------------------------
EXTENDS EndUsers, AdminAuth, FiniteSetTheorems, TLAPS

-----------------------------------------------------------------------------
(***************************************************************************)
(* End users: one machine for an account, days that add up and the end of  *)
(* an old password, for any number of machines, cards and requests.  What  *)
(* the invariant adds: a request that is about to mint a token has the     *)
(* same claim to a machine as a token (Claims), and a login in flight with *)
(* a replaced password read it before the change (LoginsYoung).            *)
(***************************************************************************)
LEMMA UserBounds ==
    /\ UserTokenTTL \in Nat /\ UserStall \in Nat /\ UserMaxTime \in Nat
    /\ MaxPassword \in Nat /\ MaxResets \in Nat /\ MaxGranted \in Nat
    /\ NoMachine \notin Machines
    /\ \A c \in UserCards : CardDays[c] \in Nat
    /\ \A d \in Extensions : d \in Nat
BY UsersAssumption

\* Before the registration there is no row to bind, reset or change.
Unregistered == ~account.exists =>
    account.pw = 0 /\ account.machine = NoMachine /\ account.resets = 0

\* A login that waits to be bound or to mint is of one of the machines, and like a
\* request with a new password it found the account, which is never deleted.
LoginsTyped == \A r \in UserRequests :
    /\ ureq[r].pc \in {"machine", "mint"} => ureq[r].machine \in Machines
    /\ ureq[r].pc \in {"machine", "mint", "password"} => account.exists

UsersType == UsersTypeOK /\ Unregistered /\ LoginsTyped

\* Who may use the account on a machine under a binding: tokens and logins that
\* will mint one.
MintClaims == {ureq[r] : r \in {u \in UserRequests : ureq[u].pc = "mint"}}
Claims == userTokens \cup MintClaims
OneClaim ==
    /\ \A c \in Claims : c.era <= account.resets /\ c.machine \in Machines
    /\ \A c \in Claims : c.era = account.resets => c.machine = account.machine
    /\ \A c, d \in Claims : c.era = d.era => c.machine = d.machine

LoginsYoung == \A r \in UserRequests : ureq[r].pc # "idle" =>
    /\ ureq[r].at <= userNow /\ userNow <= ureq[r].at + UserStall
    /\ ureq[r].pc \in {"machine", "mint"} =>
          /\ ureq[r].pw <= account.pw
          /\ ureq[r].pw < account.pw => ureq[r].at <= changedAt[ureq[r].pw]
TokensEnd == \A t \in userTokens :
    /\ t.pw <= account.pw /\ t.exp <= userNow + UserTokenTTL
    /\ t.pw < account.pw => t.exp <= changedAt[t.pw] + UserStall + UserTokenTTL

UsersInv == UsersType /\ OneClaim /\ LoginsYoung /\ TokensEnd /\ DaysAccounted

-----------------------------------------------------------------------------
LEMMA RequestsReplaced ==
    ASSUME UsersTypeOK, NEW r \in UserRequests, NEW q \in UserRequest,
           ureq' = [ureq EXCEPT ![r] = q]
    PROVE  /\ ureq' \in [UserRequests -> UserRequest] /\ ureq'[r] = q
           /\ \A u \in UserRequests \ {r} : ureq'[u] = ureq[u]
BY DEF UsersTypeOK

LEMMA NoUserRequestTyped == NoUserRequest \in UserRequest /\ NoUserRequest.pc = "idle"
BY UserBounds DEF NoUserRequest, UserRequest

\* A request that goes away or begins something else than a login takes nothing.
LEMMA RequestTakesNothing ==
    ASSUME UsersInv, NEW r \in UserRequests, NEW q \in UserRequest,
           q.pc \notin {"machine", "mint"}, q.pc = "password" => account.exists,
           q.pc # "idle" => q.at <= userNow /\ userNow <= q.at + UserStall,
           ureq' = [ureq EXCEPT ![r] = q],
           UNCHANGED <<account, userNow, changedAt>>
    PROVE  /\ ureq' \in [UserRequests -> UserRequest]
           /\ LoginsTyped' /\ LoginsYoung'
           /\ MintClaims' \subseteq MintClaims
<1>1. /\ ureq' \in [UserRequests -> UserRequest] /\ ureq'[r] = q
      /\ \A u \in UserRequests \ {r} : ureq'[u] = ureq[u]
      BY RequestsReplaced DEF UsersInv, UsersType
<1> QED
    BY <1>1 DEF UsersInv, UsersType, LoginsTyped, LoginsYoung, MintClaims

LEMMA FewerClaims ==
    ASSUME OneClaim, Claims' \subseteq Claims, UNCHANGED <<account>>
    PROVE  OneClaim'
BY DEF OneClaim

LEMMA EndsQuietly ==
    ASSUME UsersInv, NEW r \in UserRequests, EndUserRequest(r),
           UNCHANGED <<account, userNow, changedAt>>
    PROVE  /\ ureq' \in [UserRequests -> UserRequest]
           /\ LoginsTyped' /\ LoginsYoung' /\ MintClaims' \subseteq MintClaims
BY RequestTakesNothing, NoUserRequestTyped DEF EndUserRequest

LEMMA BeginsQuietly ==
    ASSUME UsersInv, NEW r \in UserRequests, NEW pc \in {"create", "password", "card"},
           BeginUser(r, pc), pc = "password" => account.exists,
           UNCHANGED <<account, userNow, changedAt>>
    PROVE  /\ ureq' \in [UserRequests -> UserRequest]
           /\ LoginsTyped' /\ LoginsYoung' /\ MintClaims' \subseteq MintClaims
<1> DEFINE q == [pc |-> pc, machine |-> NoMachine, pw |-> 0, era |-> 0, at |-> userNow]
<1>1. userNow \in Nat
      BY DEF UsersInv, UsersType, UsersTypeOK
<1>3. q \in UserRequest /\ q.pc = pc /\ q.at = userNow
      BY <1>1, UserBounds DEF UserRequest
<1>4. userNow <= userNow /\ userNow <= userNow + UserStall
      BY <1>1, UserBounds
<1>5. ureq' = [ureq EXCEPT ![r] = q]
      BY DEF BeginUser
<1>6. pc \notin {"machine", "mint"}
      OBVIOUS
<1> HIDE DEF q
<1>7. /\ q.pc \notin {"machine", "mint"} /\ (q.pc = "password" => account.exists)
      /\ q.at <= userNow /\ userNow <= q.at + UserStall
      BY <1>3, <1>4, <1>6, Zenon
<1> QED
    BY <1>3, <1>5, <1>7, RequestTakesNothing, Zenon

\* Steps that leave the row, the tokens, the days and the clock alone.
LEMMA QuietKeeps ==
    ASSUME UsersInv, UNCHANGED account, NothingElse,
           ureq' \in [UserRequests -> UserRequest], LoginsTyped', LoginsYoung',
           MintClaims' \subseteq MintClaims
    PROVE  UsersInv'
<1>1. UsersType'
      BY DEF UsersInv, UsersType, UsersTypeOK, NothingElse, Unregistered
<1>2. OneClaim'
      BY FewerClaims DEF UsersInv, Claims, NothingElse
<1>3. TokensEnd' /\ DaysAccounted'
      BY DEF UsersInv, TokensEnd, DaysAccounted, NothingElse
<1> QED
    BY <1>1, <1>2, <1>3 DEF UsersInv

LEMMA BeginKeeps ==
    ASSUME UsersInv, NEW r \in UserRequests,
           \/ BeginRegister(r) \/ BeginChangePassword(r) \/ BeginRecover(r)
           \/ BeginBindCard(r) \/ AbandonUser(r)
    PROVE  UsersInv'
<1>1. UNCHANGED account /\ NothingElse
      BY DEF BeginRegister, BeginChangePassword, BeginRecover, BeginBindCard, AbandonUser
<1>2. UNCHANGED <<account, userNow, changedAt>>
      BY <1>1 DEF NothingElse
<1>3. \/ \E pc \in {"create", "password", "card"} :
             BeginUser(r, pc) /\ (pc = "password" => account.exists)
      \/ EndUserRequest(r)
      BY DEF BeginRegister, BeginChangePassword, BeginRecover, BeginBindCard, AbandonUser, Accepts
<1> QED
    BY <1>1, <1>2, <1>3, BeginsQuietly, EndsQuietly, QuietKeeps

LEMMA CreateKeeps ==
    ASSUME UsersInv, NEW r \in UserRequests, CreateEndUser(r)
    PROVE  UsersInv'
<1>1. account.exists => UNCHANGED account
      BY DEF CreateEndUser
<1>2. CASE account.exists
      BY <1>1, <1>2, EndsQuietly, QuietKeeps DEF CreateEndUser, NothingElse
<1>3. CASE ~account.exists
      <2>1. /\ account.pw = 0 /\ account.machine = NoMachine /\ account.resets = 0
            /\ account \in Account
            BY <1>3 DEF UsersInv, UsersType, Unregistered, UsersTypeOK
      <2>2. /\ account' \in Account /\ account'.exists /\ account'.pw = account.pw
            /\ account'.machine = account.machine /\ account'.resets = account.resets
            BY <1>3, <2>1, UserBounds DEF CreateEndUser, NoAccount, Account
      <2>3. /\ ureq' = [ureq EXCEPT ![r] = NoUserRequest]
            /\ UNCHANGED <<expiresAt, cardOpen, userTokens, userNow, changedAt, granted, enjoyed>>
            BY DEF CreateEndUser, EndUserRequest, NothingElse
      <2>4. /\ ureq' \in [UserRequests -> UserRequest] /\ ureq'[r] = NoUserRequest
            /\ \A u \in UserRequests \ {r} : ureq'[u] = ureq[u]
            BY <2>3, RequestsReplaced, NoUserRequestTyped DEF UsersInv, UsersType
      <2>5. UsersType'
            BY <2>2, <2>3, <2>4, NoUserRequestTyped
            DEF UsersInv, UsersType, UsersTypeOK, Unregistered, LoginsTyped
      <2>6. Claims' \subseteq Claims
            BY <2>3, <2>4, NoUserRequestTyped DEF Claims, MintClaims
      <2>7. OneClaim'
            BY <2>2, <2>6 DEF UsersInv, OneClaim
      <2>8. LoginsYoung'
            BY <2>2, <2>3, <2>4, NoUserRequestTyped DEF UsersInv, LoginsYoung
      <2>9. TokensEnd' /\ DaysAccounted'
            BY <2>2, <2>3 DEF UsersInv, TokensEnd, DaysAccounted
      <2> QED
          BY <2>5, <2>7, <2>8, <2>9 DEF UsersInv
<1> QED
    BY <1>2, <1>3

\* A login keeps what OneClaim says of the binding that it read.
LEMMA LoginKeeps ==
    ASSUME UsersInv, NEW r \in UserRequests, NEW m \in Machines, BeginLogin(r, m)
    PROVE  UsersInv'
<1> DEFINE pc == IF account.machine = NoMachine THEN "machine" ELSE "mint"
           q == [pc |-> pc, machine |-> m, pw |-> account.pw, era |-> account.resets,
                 at |-> userNow]
<1>a. account \in Account /\ userNow \in Nat
      BY DEF UsersInv, UsersType, UsersTypeOK
<1>b. /\ q \in UserRequest /\ q.machine = m /\ q.pw = account.pw
      /\ q.era = account.resets /\ q.at = userNow /\ q.pc \in {"machine", "mint"}
      /\ q.pc = "mint" => account.machine = m
      BY <1>a DEF UserRequest, Account, BeginLogin
<1>c. UNCHANGED <<account, expiresAt, cardOpen, userTokens, userNow, changedAt, granted, enjoyed>>
      BY DEF BeginLogin, NothingElse
<1>d. ureq' = [ureq EXCEPT ![r] = q]
      BY DEF BeginLogin
<1> HIDE DEF q
<1>e. /\ ureq' \in [UserRequests -> UserRequest] /\ ureq'[r] = q
      /\ \A u \in UserRequests \ {r} : ureq'[u] = ureq[u]
      BY <1>b, <1>d, RequestsReplaced DEF UsersInv, UsersType
<1>f. account.exists
      BY DEF BeginLogin
<1>1. UsersType'
      BY <1>b, <1>c, <1>e, <1>f DEF UsersInv, UsersType, UsersTypeOK, Unregistered, LoginsTyped
<1>2. OneClaim'
      <2>1. \A c \in Claims' : c \in Claims \/ (c = q /\ q.pc = "mint")
            BY <1>c, <1>e DEF Claims, MintClaims
      <2>2. account.resets \in Nat
            BY <1>a, UserBounds DEF Account
      <2> QED
          BY <1>b, <1>c, <2>1, <2>2 DEF UsersInv, OneClaim
<1>3. LoginsYoung'
      <2>1. /\ q.at <= userNow /\ userNow <= q.at + UserStall
            /\ q.pw <= account.pw /\ ~(q.pw < account.pw)
            BY <1>a, <1>b, UserBounds DEF Account
      <2> QED
          BY <1>c, <1>e, <2>1 DEF UsersInv, LoginsYoung
<1>4. TokensEnd' /\ DaysAccounted'
      BY <1>c DEF UsersInv, TokensEnd, DaysAccounted
<1> QED
    BY <1>1, <1>2, <1>3, <1>4 DEF UsersInv

\* The first login binds; nobody has a claim under an open binding.
LEMMA BindKeeps ==
    ASSUME UsersInv, NEW r \in UserRequests, BindEndUserMachine(r)
    PROVE  UsersInv'
<1>1. CASE ~MayBind
      <2>1. EndUserRequest(r) /\ UNCHANGED account /\ NothingElse
            BY <1>1 DEF BindEndUserMachine
      <2> QED
          BY <2>1, EndsQuietly, QuietKeeps DEF NothingElse
<1>2. CASE MayBind
      <2> DEFINE q == [[ureq[r] EXCEPT !.pc = "mint"] EXCEPT !.era = account.resets]
                 row == [account EXCEPT !.machine = ureq[r].machine]
      <2>a. /\ account \in Account /\ ureq[r] \in UserRequest /\ ureq[r].pc = "machine"
            /\ account.machine = NoMachine /\ ureq[r].machine \in Machines
            BY <1>2 DEF UsersInv, UsersType, UsersTypeOK, LoginsTyped, BindEndUserMachine, MayBind
      <2>b. /\ row \in Account /\ row.machine = ureq[r].machine /\ row.pw = account.pw
            /\ row.resets = account.resets /\ row.exists = account.exists
            BY <2>a DEF Account
      <2>c. /\ q \in UserRequest /\ q.pc = "mint" /\ q.machine = ureq[r].machine
            /\ q.pw = ureq[r].pw /\ q.at = ureq[r].at /\ q.era = account.resets
            BY <2>a DEF UserRequest, Account
      <2>d. /\ account' = row /\ ureq' = [ureq EXCEPT ![r] = q]
            /\ UNCHANGED <<expiresAt, cardOpen, userTokens, userNow, changedAt, granted, enjoyed>>
            BY <1>2 DEF BindEndUserMachine, NothingElse, UsersInv, UsersType, UsersTypeOK
      <2>e. account.exists
            BY <2>a DEF UsersInv, UsersType, LoginsTyped
      <2> HIDE DEF q, row
      <2>f. /\ ureq' \in [UserRequests -> UserRequest] /\ ureq'[r] = q
            /\ \A u \in UserRequests \ {r} : ureq'[u] = ureq[u]
            BY <2>c, <2>d, RequestsReplaced DEF UsersInv, UsersType
      <2>1. UsersType'
            BY <2>a, <2>b, <2>c, <2>d, <2>e, <2>f
            DEF UsersInv, UsersType, UsersTypeOK, Unregistered, LoginsTyped
      <2>2. OneClaim'
            <3>1. \A c \in Claims' : c \in Claims \/ c = q
                  BY <2>d, <2>f DEF Claims, MintClaims
            <3>2. \A c \in Claims : c.era # account.resets
                  BY <2>a, UserBounds DEF UsersInv, OneClaim
            <3>3. account.resets \in Nat
                  BY <2>a, UserBounds DEF Account
            <3> QED
                BY <2>a, <2>b, <2>c, <2>d, <3>1, <3>2, <3>3 DEF UsersInv, OneClaim
      <2>3. LoginsYoung'
            BY <2>a, <2>b, <2>c, <2>d, <2>f DEF UsersInv, LoginsYoung
      <2>4. TokensEnd' /\ DaysAccounted'
            BY <2>b, <2>d DEF UsersInv, TokensEnd, DaysAccounted
      <2> QED
          BY <2>1, <2>2, <2>3, <2>4 DEF UsersInv
<1> QED
    BY <1>1, <1>2

\* A token claims what the login claimed, and was read before a later change.
LEMMA MintKeeps ==
    ASSUME UsersInv, NEW r \in UserRequests, MintUserToken(r)
    PROVE  UsersInv'
<1> DEFINE q == ureq[r]
           t == [pw |-> q.pw, machine |-> q.machine, era |-> q.era, exp |-> userNow + UserTokenTTL]
<1>a. /\ q \in UserRequest /\ q.pc = "mint" /\ q.machine \in Machines /\ q \in MintClaims
      /\ userNow \in Nat
      BY DEF UsersInv, UsersType, UsersTypeOK, LoginsTyped, MintUserToken, MintClaims
<1>b. /\ t \in UserToken /\ t.pw = q.pw /\ t.machine = q.machine /\ t.era = q.era
      /\ t.exp = userNow + UserTokenTTL
      BY <1>a, UserBounds DEF UserToken, UserRequest
<1>c. /\ userTokens' = userTokens \cup {t} /\ EndUserRequest(r)
      /\ UNCHANGED <<account, expiresAt, cardOpen, userNow, changedAt, granted, enjoyed>>
      BY DEF MintUserToken
<1>d. /\ ureq' \in [UserRequests -> UserRequest]
      /\ LoginsTyped' /\ LoginsYoung' /\ MintClaims' \subseteq MintClaims
      BY <1>c, EndsQuietly
<1> HIDE DEF t
<1>1. UsersType'
      BY <1>b, <1>c, <1>d DEF UsersInv, UsersType, UsersTypeOK, Unregistered
<1>2. OneClaim'
      <2>1. \A c \in Claims' : \E d \in Claims : c.era = d.era /\ c.machine = d.machine
            BY <1>a, <1>b, <1>c, <1>d DEF Claims
      <2> QED
          BY <1>c, <2>1 DEF UsersInv, OneClaim
<1>3. TokensEnd'
      <2>1. /\ q.pw <= account.pw
            /\ q.pw < account.pw =>
                  userNow + UserTokenTTL <= changedAt[q.pw] + UserStall + UserTokenTTL
            <3>1. /\ userNow <= q.at + UserStall /\ q.pw <= account.pw
                  /\ q.pw < account.pw => q.at <= changedAt[q.pw]
                  BY <1>a DEF UsersInv, LoginsYoung
            <3>2. q.at \in Nat /\ changedAt[q.pw] \in Nat
                  BY <1>a DEF UsersInv, UsersType, UsersTypeOK, UserRequest
            <3> QED
                BY <1>a, <3>1, <3>2, UserBounds
      <2>2. userNow + UserTokenTTL <= userNow + UserTokenTTL
            BY <1>a, UserBounds
      <2> QED
          BY <1>b, <1>c, <2>1, <2>2 DEF UsersInv, TokensEnd
<1>4. DaysAccounted'
      BY <1>c DEF UsersInv, DaysAccounted
<1> QED
    BY <1>1, <1>2, <1>3, <1>4, <1>d DEF UsersInv

\* What was given for the old password was given before now.
LEMMA NewPasswordKeeps ==
    ASSUME UsersInv, NEW r \in UserRequests, SetEndUserPassword(r)
    PROVE  UsersInv'
<1> DEFINE row == [account EXCEPT !.pw = account.pw + 1]
           old == account.pw
<1>a. /\ account \in Account /\ old \in 0 .. MaxPassword /\ old < MaxPassword /\ userNow \in Nat
      /\ changedAt \in [0 .. MaxPassword -> Nat]
      BY DEF UsersInv, UsersType, UsersTypeOK, SetEndUserPassword, Account
<1>f. account.exists
      BY DEF UsersInv, UsersType, LoginsTyped, SetEndUserPassword
<1>g. old + 1 \in 0 .. MaxPassword
      BY <1>a, UserBounds
<1>b. /\ row \in Account /\ row.pw = old + 1 /\ row.machine = account.machine
      /\ row.resets = account.resets /\ row.exists = account.exists
      BY <1>a, <1>g DEF Account
<1>c. /\ account' = row /\ changedAt' = [changedAt EXCEPT ![old] = userNow]
      /\ ureq' = [ureq EXCEPT ![r] = NoUserRequest]
      /\ UNCHANGED <<expiresAt, cardOpen, userTokens, userNow, granted, enjoyed>>
      BY DEF SetEndUserPassword, EndUserRequest
<1>d. /\ ureq' \in [UserRequests -> UserRequest] /\ ureq'[r] = NoUserRequest
      /\ \A u \in UserRequests \ {r} : ureq'[u] = ureq[u]
      BY <1>c, RequestsReplaced, NoUserRequestTyped DEF UsersInv, UsersType
<1>e. /\ changedAt' \in [0 .. MaxPassword -> Nat] /\ changedAt'[old] = userNow
      /\ \A p \in 0 .. MaxPassword : p # old => changedAt'[p] = changedAt[p]
      BY <1>a, <1>c
<1> HIDE DEF row, old
<1>1. UsersType'
      BY <1>b, <1>c, <1>d, <1>e, <1>f, NoUserRequestTyped
      DEF UsersInv, UsersType, UsersTypeOK, Unregistered, LoginsTyped
<1>2. OneClaim'
      <2>1. Claims' \subseteq Claims
            BY <1>c, <1>d, NoUserRequestTyped DEF Claims, MintClaims
      <2> QED
          BY <1>b, <1>c, <2>1 DEF UsersInv, OneClaim
<1>3. LoginsYoung'
      <2> SUFFICES ASSUME NEW u \in UserRequests, ureq'[u].pc # "idle"
                   PROVE  /\ ureq'[u].at <= userNow' /\ userNow' <= ureq'[u].at + UserStall
                          /\ ureq'[u].pc \in {"machine", "mint"} =>
                                /\ ureq'[u].pw <= account'.pw
                                /\ ureq'[u].pw < account'.pw =>
                                      ureq'[u].at <= changedAt'[ureq'[u].pw]
          BY DEF LoginsYoung
      <2>1. ureq'[u] = ureq[u] /\ ureq[u].pw \in 0 .. MaxPassword
            BY <1>d, NoUserRequestTyped DEF UsersInv, UsersType, UsersTypeOK, UserRequest
      <2>2. /\ ureq[u].at <= userNow /\ userNow <= ureq[u].at + UserStall
            /\ ureq[u].pc \in {"machine", "mint"} =>
                  /\ ureq[u].pw <= old
                  /\ ureq[u].pw < old => ureq[u].at <= changedAt[ureq[u].pw]
            BY <2>1 DEF UsersInv, LoginsYoung, old
      <2> QED
          BY <1>a, <1>b, <1>c, <1>e, <2>1, <2>2
<1>4. TokensEnd'
      <2> SUFFICES ASSUME NEW t \in userTokens
                   PROVE  /\ t.pw <= old + 1 /\ t.exp <= userNow + UserTokenTTL
                          /\ t.pw < old + 1 =>
                                t.exp <= changedAt'[t.pw] + UserStall + UserTokenTTL
          BY <1>b, <1>c DEF TokensEnd
      <2>1. t.pw \in 0 .. MaxPassword /\ t.exp \in Nat
            BY DEF UsersInv, UsersType, UsersTypeOK, UserToken
      <2>2. /\ t.pw <= old /\ t.exp <= userNow + UserTokenTTL
            /\ t.pw < old => t.exp <= changedAt[t.pw] + UserStall + UserTokenTTL
            BY DEF UsersInv, TokensEnd, old
      <2>3. t.pw = old => t.exp <= changedAt'[t.pw] + UserStall + UserTokenTTL
            BY <1>a, <1>e, <2>1, <2>2, UserBounds
      <2> QED
          BY <1>a, <1>e, <2>1, <2>2, <2>3
<1>5. DaysAccounted'
      BY <1>c DEF UsersInv, DaysAccounted
<1> QED
    BY <1>1, <1>2, <1>3, <1>4, <1>5 DEF UsersInv

LEMMA ExtensionAccounted ==
    ASSUME UsersTypeOK, DaysAccounted, NEW days \in Nat, expiresAt' = Extended(days),
           granted' = granted + days, UNCHANGED <<enjoyed, userNow>>
    PROVE  expiresAt' \in Nat /\ granted' \in Nat /\ DaysAccounted'
<1>1. expiresAt \in Nat /\ granted \in Nat /\ enjoyed \in Nat /\ userNow \in Nat
      BY DEF UsersTypeOK
<1> QED
    BY <1>1 DEF DaysAccounted, Extended

LEMMA BindCardKeeps ==
    ASSUME UsersInv, NEW r \in UserRequests, NEW c \in UserCards, UserBindCardTx(r, c)
    PROVE  UsersInv'
<1>a. /\ EndUserRequest(r)
      /\ UNCHANGED <<account, userTokens, userNow, changedAt, enjoyed>>
      BY DEF UserBindCardTx
<1>b. /\ ureq' \in [UserRequests -> UserRequest]
      /\ LoginsTyped' /\ LoginsYoung' /\ MintClaims' \subseteq MintClaims
      BY <1>a, EndsQuietly
<1>c. /\ cardOpen' \in [UserCards -> BOOLEAN]
      /\ expiresAt' \in Nat /\ granted' \in Nat /\ DaysAccounted'
      <2>1. CASE cardOpen[c]
            <3>1. expiresAt' \in Nat /\ granted' \in Nat /\ DaysAccounted'
                  BY <1>a, <2>1, UserBounds, ExtensionAccounted
                  DEF UserBindCardTx, UsersInv, UsersType
            <3>2. cardOpen' \in [UserCards -> BOOLEAN]
                  BY <2>1 DEF UserBindCardTx, UsersInv, UsersType, UsersTypeOK
            <3> QED
                BY <3>1, <3>2
      <2>2. CASE ~cardOpen[c]
            BY <1>a, <2>2 DEF UserBindCardTx, UsersInv, UsersType, UsersTypeOK, DaysAccounted
      <2> QED
          BY <2>1, <2>2
<1>1. UsersType'
      BY <1>a, <1>b, <1>c DEF UsersInv, UsersType, UsersTypeOK, Unregistered
<1>2. OneClaim'
      BY <1>a, <1>b, FewerClaims DEF UsersInv, Claims
<1>3. TokensEnd'
      BY <1>a DEF UsersInv, TokensEnd
<1> QED
    BY <1>1, <1>2, <1>3, <1>b, <1>c DEF UsersInv

LEMMA StatusKeeps ==
    ASSUME UsersInv, NEW status \in {"active", "disabled"}, SetEndUserStatus(status)
    PROVE  UsersInv'
<1> DEFINE row == [account EXCEPT !.status = status]
<1>1. /\ row \in Account /\ row.pw = account.pw /\ row.machine = account.machine
      /\ row.resets = account.resets /\ row.exists = account.exists
      BY DEF UsersInv, UsersType, UsersTypeOK, Account
<1>2. /\ account' = row /\ UNCHANGED ureq
      /\ UNCHANGED <<expiresAt, cardOpen, userTokens, userNow, changedAt, granted, enjoyed>>
      BY DEF SetEndUserStatus, NothingElse
<1> HIDE DEF row
<1>3. UsersType'
      BY <1>1, <1>2 DEF UsersInv, UsersType, UsersTypeOK, Unregistered, LoginsTyped
<1>4. OneClaim'
      BY <1>1, <1>2 DEF UsersInv, OneClaim, Claims, MintClaims
<1>5. LoginsYoung' /\ TokensEnd' /\ DaysAccounted'
      BY <1>1, <1>2 DEF UsersInv, LoginsYoung, TokensEnd, DaysAccounted
<1> QED
    BY <1>3, <1>4, <1>5 DEF UsersInv

\* Nobody has a claim yet under the binding that begins with a reset.
LEMMA ResetKeeps ==
    ASSUME UsersInv, ResetEndUserMachine
    PROVE  UsersInv'
<1> DEFINE row == [[account EXCEPT !.machine = NoMachine] EXCEPT !.resets = account.resets + 1]
<1>a. /\ account \in Account /\ account.resets \in 0 .. MaxResets
      /\ account.resets + 1 \in 0 .. MaxResets /\ account.exists
      BY UserBounds DEF UsersInv, UsersType, UsersTypeOK, Account, ResetEndUserMachine
<1>1. /\ row \in Account /\ row.pw = account.pw /\ row.machine = NoMachine
      /\ row.resets = account.resets + 1 /\ row.exists = account.exists
      BY <1>a DEF Account
<1>2. /\ account' = row /\ UNCHANGED ureq
      /\ UNCHANGED <<expiresAt, cardOpen, userTokens, userNow, changedAt, granted, enjoyed>>
      BY DEF ResetEndUserMachine, NothingElse, UsersInv, UsersType, UsersTypeOK
<1> HIDE DEF row
<1>3. UsersType'
      BY <1>a, <1>1, <1>2 DEF UsersInv, UsersType, UsersTypeOK, Unregistered, LoginsTyped
<1>4. OneClaim'
      <2>1. Claims' = Claims
            BY <1>2 DEF Claims, MintClaims
      <2>2. \A c \in Claims : c.era \in Nat
            BY DEF Claims, MintClaims, UsersInv, UsersType, UsersTypeOK, UserToken, UserRequest
      <2>3. \A c \in Claims : c.era <= account.resets + 1 /\ c.era # account.resets + 1
            BY <1>a, <2>2 DEF UsersInv, OneClaim
      <2> QED
          BY <1>1, <1>2, <2>1, <2>3 DEF UsersInv, OneClaim
<1>5. LoginsYoung' /\ TokensEnd' /\ DaysAccounted'
      BY <1>1, <1>2 DEF UsersInv, LoginsYoung, TokensEnd, DaysAccounted
<1> QED
    BY <1>3, <1>4, <1>5 DEF UsersInv

LEMMA ExtendKeeps ==
    ASSUME UsersInv, NEW days \in Extensions, ExtendEndUser(days)
    PROVE  UsersInv'
<1>1. expiresAt' \in Nat /\ granted' \in Nat /\ DaysAccounted'
      BY UserBounds, ExtensionAccounted DEF ExtendEndUser, UsersInv, UsersType
<1>2. UsersType' /\ OneClaim' /\ LoginsYoung' /\ TokensEnd'
      BY <1>1 DEF ExtendEndUser, UsersInv, UsersType, UsersTypeOK, Unregistered, LoginsTyped,
                  OneClaim, Claims, MintClaims, LoginsYoung, TokensEnd
<1> QED
    BY <1>1, <1>2 DEF UsersInv

LEMMA TickKeeps ==
    ASSUME UsersInv, UserTick
    PROVE  UsersInv'
<1>a. /\ userNow \in Nat /\ expiresAt \in Nat /\ granted \in Nat /\ enjoyed \in Nat
      /\ userNow' = userNow + 1 /\ enjoyed' = IF expiresAt > userNow THEN enjoyed + 1 ELSE enjoyed
      /\ UNCHANGED <<account, expiresAt, cardOpen, userTokens, ureq, changedAt, granted>>
      BY DEF UsersInv, UsersType, UsersTypeOK, UserTick
<1>1. DaysAccounted' /\ enjoyed' \in Nat
      BY <1>a DEF UsersInv, DaysAccounted
<1>2. UsersType' /\ OneClaim'
      BY <1>a, <1>1 DEF UsersInv, UsersType, UsersTypeOK, Unregistered, LoginsTyped,
                        OneClaim, Claims, MintClaims
<1>3. LoginsYoung'
      <2> SUFFICES ASSUME NEW r \in UserRequests, ureq[r].pc # "idle"
                   PROVE  ureq[r].at <= userNow + 1 /\ userNow + 1 <= ureq[r].at + UserStall
          BY <1>a DEF UsersInv, LoginsYoung
      <2>1. ureq[r].at \in Nat /\ ureq[r].at <= userNow /\ userNow < ureq[r].at + UserStall
            BY DEF UsersInv, UsersType, UsersTypeOK, UserRequest, LoginsYoung, UserTick
      <2> QED
          BY <1>a, <2>1, UserBounds
<1>4. TokensEnd'
      <2> SUFFICES ASSUME NEW t \in userTokens
                   PROVE  t.exp <= userNow + 1 + UserTokenTTL
          BY <1>a DEF UsersInv, TokensEnd
      <2>1. t.exp \in Nat /\ t.exp <= userNow + UserTokenTTL
            BY DEF UsersInv, UsersType, UsersTypeOK, UserToken, TokensEnd
      <2> QED
          BY <1>a, <2>1, UserBounds
<1> QED
    BY <1>1, <1>2, <1>3, <1>4 DEF UsersInv

-----------------------------------------------------------------------------
LEMMA UsersInitially == UsersInit => UsersInv
<1> SUFFICES ASSUME UsersInit PROVE UsersInv
    OBVIOUS
<1>1. /\ \A r \in UserRequests : ureq[r].pc = "idle"
      /\ userTokens = {} /\ granted = 0 /\ enjoyed = 0 /\ expiresAt = 0 /\ userNow = 0
      BY DEF UsersInit, NoUserRequest
<1>2. NoAccount \in Account
      BY UserBounds DEF NoAccount, Account
<1>3. UsersTypeOK
      BY <1>2, NoUserRequestTyped DEF UsersInit, UsersTypeOK
<1>4. Unregistered
      BY DEF UsersInit, NoAccount, Unregistered
<1>5. Claims = {}
      BY <1>1 DEF Claims, MintClaims
<1> QED
    BY <1>1, <1>3, <1>4, <1>5
    DEF UsersInv, UsersType, LoginsTyped, OneClaim, LoginsYoung, TokensEnd, DaysAccounted

LEMMA UsersInvStep == UsersInv /\ [UsersNext]_userVars => UsersInv'
<1> SUFFICES ASSUME UsersInv, [UsersNext]_userVars PROVE UsersInv'
    OBVIOUS
<1>1. CASE UNCHANGED userVars
      BY <1>1 DEF userVars, UsersInv, UsersType, UsersTypeOK, Unregistered, LoginsTyped,
                  OneClaim, Claims, MintClaims, LoginsYoung, TokensEnd, DaysAccounted
<1> QED
    BY <1>1, BeginKeeps, CreateKeeps, LoginKeeps, BindKeeps, MintKeeps, NewPasswordKeeps,
       BindCardKeeps, StatusKeeps, ResetKeeps, ExtendKeeps, TickKeeps DEF UsersNext

\* Type correctness of the user account.
THEOREM UsersTypeCorrect == UsersSpec => []UsersTypeOK
<1>1. UsersInv => UsersTypeOK
      BY DEF UsersInv, UsersType
<1> QED
    BY <1>1, UsersInitially, UsersInvStep, PTL DEF UsersSpec

\* Between two resets an account is used on one machine.
THEOREM AccountOnOneMachine == UsersSpec => []OneMachine
<1>1. UsersInv => OneMachine
      BY DEF UsersInv, OneClaim, Claims, OneMachine
<1> QED
    BY <1>1, UsersInitially, UsersInvStep, PTL DEF UsersSpec

\* What cards and administrators gave is what was used and what is left.
THEOREM DaysAddUp == UsersSpec => []DaysAccounted
<1>1. UsersInv => DaysAccounted
      BY DEF UsersInv
<1> QED
    BY <1>1, UsersInitially, UsersInvStep, PTL DEF UsersSpec

\* After UserStall + UserTokenTTL nothing given for a replaced password is accepted.
THEOREM ReplacedPasswordEnds == UsersSpec => []OldPasswordEnds
<1>1. ASSUME UsersInv PROVE OldPasswordEnds
      <2> SUFFICES ASSUME NEW t \in userTokens, t.pw < account.pw, Accepts(t)
                   PROVE  userNow < changedAt[t.pw] + UserStall + UserTokenTTL
          BY DEF OldPasswordEnds
      <2>1. /\ userNow < t.exp
            /\ t.exp <= changedAt[t.pw] + UserStall + UserTokenTTL
            BY <1>1 DEF UsersInv, TokensEnd, Accepts
      <2>2. t.exp \in Nat /\ changedAt[t.pw] \in Nat /\ userNow \in Nat
            BY <1>1 DEF UsersInv, UsersType, UsersTypeOK, UserToken
      <2> QED
          BY <2>1, <2>2, UserBounds
<1> QED
    BY <1>1, UsersInitially, UsersInvStep, PTL DEF UsersSpec

-----------------------------------------------------------------------------
(***************************************************************************)
(* Administrators: sessions follow the account and guessing is slow.  What *)
(* the invariant adds: a request in flight knows no later credentials than *)
(* the row's and read them before they were replaced (Reads); a live       *)
(* session of an ended epoch waits for a sweep or was created late         *)
(* (Outlives); and outside of a lock the failures are below the threshold, *)
(* so those in flight when it is reached are all that is left (Counted).   *)
(***************************************************************************)
Locked == admin.lockedUntil > authNow
Failing == {r \in AuthRequests : areq[r].pc = "failed"}

Reads(r) ==
    areq[r].pc # "idle" =>
        /\ areq[r].at <= authNow /\ authNow <= areq[r].at + AuthStall
        /\ areq[r].pc \in {"failed", "success", "session", "sweep"} =>
              /\ areq[r].epoch <= admin.epoch
              /\ areq[r].epoch < admin.epoch => areq[r].at <= endedAt[areq[r].epoch]

MFATyped ==
    /\ pendingTOTP \in 0 .. setups /\ setups \in Secrets
    /\ tries \in [1 .. MaxSetups -> Nat]

Outlives(s) ==
    /\ sess[s].live /\ sess[s].epoch < admin.epoch => sess[s].late \/ unswept
    /\ sess[s].late => /\ sess[s].epoch < admin.epoch
                       /\ sess[s].at <= endedAt[sess[s].epoch] + AuthStall

Counted ==
    /\ misses <= admin.failed
    /\ ~Locked /\ admin.failed >= Threshold => misses = 0
    /\ misses + Cardinality(Failing) <= Threshold - 1 + Cardinality(AuthRequests)

AuthInv ==
    /\ AuthTypeOK
    /\ \A r \in AuthRequests : Reads(r)
    /\ \A s \in Sessions : Outlives(s)
    /\ Counted

-----------------------------------------------------------------------------
LEMMA AuthBounds ==
    /\ LockFor \in Nat /\ LockFor > 0 /\ SessionTTL \in Nat /\ AuthStall \in Nat
    /\ MaxEpoch \in Nat /\ MaxFailed \in Nat /\ Threshold \in Nat /\ Threshold > 0
    /\ MaxSetups \in Nat /\ IsFiniteSet(AuthRequests) /\ NoSession \notin Sessions
BY AuthAssumption

LEMMA AuthRows ==
    /\ NoAuthRequest \in AuthRequest
    /\ NoAuthRequest.pc = "idle" /\ NoAuthRequest.secret = 0
    /\ NoRow \in Session
BY AuthBounds DEF NoAuthRequest, AuthRequest, Secrets, NoRow, Session

\* A step changes the request of one slot; of the others nothing.
Alone(r) == \A u \in AuthRequests \ {r} : areq'[u] = areq[u]

LEMMA AuthStepOf ==
    ASSUME AuthTypeOK, NEW r \in AuthRequests
    PROVE  /\ EndAuth(r) => /\ areq' \in [AuthRequests -> AuthRequest]
                            /\ areq'[r] = NoAuthRequest /\ Alone(r)
           /\ \A pc \in {"session", "pending", "step", "set", "logout"} :
                GoTo(r, pc) => /\ areq' \in [AuthRequests -> AuthRequest]
                               /\ areq'[r].pc = pc /\ areq'[r].epoch = areq[r].epoch
                               /\ areq'[r].at = areq[r].at
                               /\ areq'[r].secret = areq[r].secret /\ Alone(r)
           /\ \A pc \in {"failed", "success", "admin", "sweep"},
                 op \in Ops \cup {"login", "reset", "disable"},
                 s \in Sessions \cup {NoSession}, e \in 0 .. MaxEpoch :
                BeginAuth(r, pc, op, s, e) =>
                    /\ areq' \in [AuthRequests -> AuthRequest]
                    /\ areq[r].pc = "idle" /\ areq'[r].pc = pc
                    /\ areq'[r].epoch = e /\ areq'[r].at = authNow
                    /\ areq'[r].secret = 0 /\ Alone(r)
<1>1. areq \in [AuthRequests -> AuthRequest] /\ areq[r] \in AuthRequest /\ authNow \in Nat
      BY DEF AuthTypeOK
<1>2. ASSUME EndAuth(r)
      PROVE  areq' \in [AuthRequests -> AuthRequest] /\ areq'[r] = NoAuthRequest /\ Alone(r)
      BY <1>1, <1>2, AuthRows DEF EndAuth, Alone
<1>3. ASSUME NEW pc \in {"session", "pending", "step", "set", "logout"}, GoTo(r, pc)
      PROVE  /\ areq' \in [AuthRequests -> AuthRequest]
             /\ areq'[r].pc = pc /\ areq'[r].epoch = areq[r].epoch
             /\ areq'[r].at = areq[r].at
             /\ areq'[r].secret = areq[r].secret /\ Alone(r)
  <2>1. areq' = [areq EXCEPT ![r] = [areq[r] EXCEPT !.pc = pc]]
        BY <1>3 DEF GoTo
  <2>2. ASSUME NEW q \in AuthRequest
        PROVE  /\ [q EXCEPT !.pc = pc] \in AuthRequest
               /\ [q EXCEPT !.pc = pc].pc = pc /\ [q EXCEPT !.pc = pc].epoch = q.epoch
               /\ [q EXCEPT !.pc = pc].at = q.at /\ [q EXCEPT !.pc = pc].secret = q.secret
        BY DEF AuthRequest
  <2> QED
      BY <1>1, <2>1, <2>2 DEF Alone
<1>4. ASSUME NEW pc \in {"failed", "success", "admin", "sweep"},
             NEW op \in Ops \cup {"login", "reset", "disable"},
             NEW s \in Sessions \cup {NoSession}, NEW e \in 0 .. MaxEpoch,
             BeginAuth(r, pc, op, s, e)
      PROVE  /\ areq' \in [AuthRequests -> AuthRequest]
             /\ areq[r].pc = "idle" /\ areq'[r].pc = pc
             /\ areq'[r].epoch = e /\ areq'[r].at = authNow
             /\ areq'[r].secret = 0 /\ Alone(r)
  <2>1. [pc |-> pc, op |-> op, session |-> s, epoch |-> e, secret |-> 0, at |-> authNow]
            \in AuthRequest
        BY <1>1, AuthBounds DEF AuthRequest, Secrets
  <2> QED
      BY <1>1, <1>4, <2>1 DEF BeginAuth, Alone
<1> QED
    BY <1>2, <1>3, <1>4

\* What ends an epoch.
LEMMA EpochEnds ==
    ASSUME AuthTypeOK, NEW row \in Admin, row.epoch = admin.epoch, NewEpoch(row)
    PROVE  /\ admin' \in Admin /\ admin'.epoch = admin.epoch + 1
           /\ admin'.failed = row.failed /\ admin'.lockedUntil = row.lockedUntil
           /\ endedAt' \in [0 .. MaxEpoch -> Nat] /\ endedAt'[admin.epoch] = authNow
           /\ \A e \in 0 .. MaxEpoch : e # admin.epoch => endedAt'[e] = endedAt[e]
           /\ unswept'
<1>1. admin.epoch \in 0 .. MaxEpoch /\ admin.epoch < MaxEpoch /\ MaxEpoch \in Nat
      BY AuthBounds DEF NewEpoch, AuthTypeOK, Admin
<1>2. admin' = [row EXCEPT !.epoch = row.epoch + 1] /\ admin.epoch + 1 \in 0 .. MaxEpoch
      BY <1>1 DEF NewEpoch
<1>3. /\ admin' \in Admin /\ admin'.epoch = admin.epoch + 1
      /\ admin'.failed = row.failed /\ admin'.lockedUntil = row.lockedUntil
      BY <1>1, <1>2 DEF Admin
<1> QED
    BY <1>1, <1>3 DEF NewEpoch, AuthTypeOK

\* The requests that are about to count a failure.
LEMMA FailingFewer ==
    ASSUME NEW r \in AuthRequests, Alone(r)
    PROVE  /\ IsFiniteSet(Failing) /\ IsFiniteSet(Failing')
           /\ Cardinality(Failing) \in Nat /\ Cardinality(Failing') \in Nat
           /\ Cardinality(AuthRequests) \in Nat
           /\ Cardinality(Failing') <= Cardinality(AuthRequests)
           /\ areq'[r].pc # "failed" => Cardinality(Failing') <= Cardinality(Failing)
           /\ areq'[r].pc # "failed" /\ areq[r].pc = "failed" =>
                  Cardinality(Failing') = Cardinality(Failing) - 1
<1>1. Failing \subseteq AuthRequests /\ Failing' \subseteq AuthRequests
      BY DEF Failing
<1>2. IsFiniteSet(Failing) /\ IsFiniteSet(Failing') /\ IsFiniteSet(AuthRequests)
      BY <1>1, AuthBounds, FS_Subset
<1>3. /\ Cardinality(Failing) \in Nat /\ Cardinality(Failing') \in Nat
      /\ Cardinality(AuthRequests) \in Nat
      BY <1>2, FS_CardinalityType
<1>4. Cardinality(Failing') <= Cardinality(AuthRequests)
      BY <1>1, <1>2, FS_Subset
<1>5. ASSUME areq'[r].pc # "failed" PROVE Cardinality(Failing') <= Cardinality(Failing)
  <2>1. Failing' \subseteq Failing
        BY <1>5 DEF Failing, Alone
  <2> QED
      BY <1>2, <2>1, FS_Subset
<1>6. ASSUME areq'[r].pc # "failed", areq[r].pc = "failed"
      PROVE  Cardinality(Failing') = Cardinality(Failing) - 1
  <2>1. r \in Failing /\ Failing' = Failing \ {r}
        BY <1>6 DEF Failing, Alone
  <2> QED
      BY <1>2, <2>1, FS_RemoveElement
<1> QED
    BY <1>2, <1>3, <1>4, <1>5, <1>6

\* The others' requests after a step that leaves the row, or replaces its credentials.
LEMMA OthersRead ==
    ASSUME AuthInv, NEW r \in AuthRequests, Alone(r), authNow' = authNow,
           \/ UNCHANGED <<admin, endedAt>>
           \/ /\ admin'.epoch = admin.epoch /\ UNCHANGED endedAt
           \/ /\ admin'.epoch = admin.epoch + 1
              /\ endedAt'[admin.epoch] = authNow
              /\ \A e \in 0 .. MaxEpoch : e # admin.epoch => endedAt'[e] = endedAt[e]
    PROVE  \A u \in AuthRequests \ {r} : Reads(u)'
<1> SUFFICES ASSUME NEW u \in AuthRequests \ {r} PROVE Reads(u)'
    OBVIOUS
<1>1. Reads(u) /\ areq'[u] = areq[u] /\ areq[u] \in AuthRequest /\ MaxEpoch \in Nat
      BY AuthBounds DEF AuthInv, AuthTypeOK, Alone
<1>2. areq[u].epoch \in 0 .. MaxEpoch /\ admin.epoch \in 0 .. MaxEpoch /\ areq[u].at \in Nat
      /\ authNow \in Nat
      BY <1>1 DEF AuthRequest, AuthInv, AuthTypeOK, Admin
<1> QED
    BY <1>1, <1>2 DEF Reads

\* The sessions after a step that leaves them.
LEMMA SessionsStay ==
    ASSUME AuthInv, sess' = sess,
           \/ admin'.epoch = admin.epoch /\ endedAt' = endedAt /\ unswept' = unswept
           \/ /\ admin'.epoch = admin.epoch + 1 /\ unswept'
              /\ \A e \in 0 .. MaxEpoch : e # admin.epoch => endedAt'[e] = endedAt[e]
    PROVE  \A s \in Sessions : Outlives(s)'
<1> SUFFICES ASSUME NEW s \in Sessions PROVE Outlives(s)'
    OBVIOUS
<1>1. Outlives(s) /\ sess[s] \in Session /\ MaxEpoch \in Nat
      BY AuthBounds DEF AuthInv, AuthTypeOK
<1>2. sess[s].epoch \in 0 .. MaxEpoch /\ admin.epoch \in 0 .. MaxEpoch
      BY <1>1 DEF Session, AuthInv, AuthTypeOK, Admin
<1> QED
    BY <1>1, <1>2 DEF Outlives

\* The count after a step without another failure.
LEMMA StillCounted ==
    ASSUME AuthInv, NEW r \in AuthRequests, Alone(r), areq'[r].pc # "failed",
           authNow' = authNow,
           \/ /\ admin'.failed = admin.failed /\ admin'.lockedUntil = admin.lockedUntil
              /\ misses' = misses
           \/ admin'.failed = 0 /\ misses' = 0
    PROVE  Counted'
<1>1. /\ misses \in Nat /\ admin.failed \in Nat /\ Threshold \in Nat /\ Threshold > 0
      BY AuthBounds DEF AuthInv, AuthTypeOK, Admin
<1>2. /\ Cardinality(Failing') <= Cardinality(Failing)
      /\ Cardinality(Failing') <= Cardinality(AuthRequests)
      /\ Cardinality(Failing) \in Nat /\ Cardinality(Failing') \in Nat
      /\ Cardinality(AuthRequests) \in Nat
      BY FailingFewer
<1>3. misses' + Cardinality(Failing') <= Threshold - 1 + Cardinality(AuthRequests)
      BY <1>1, <1>2 DEF AuthInv, Counted
<1> QED
    BY <1>1, <1>3 DEF AuthInv, Counted, Locked

-----------------------------------------------------------------------------
\* A step that moves one request and leaves the row, the sessions and the clock.
LEMMA MoveOnly ==
    ASSUME AuthInv, NEW r \in AuthRequests, Alone(r),
           areq' \in [AuthRequests -> AuthRequest], MFATyped',
           UNCHANGED <<admin, sess, authNow, endedAt, unswept, misses>>,
           areq'[r].pc # "failed", Reads(r)'
    PROVE  AuthInv'
<1>1. AuthTypeOK'
      BY DEF AuthInv, AuthTypeOK, MFATyped
<1>2. \A u \in AuthRequests : Reads(u)'
      BY OthersRead
<1>3. \A s \in Sessions : Outlives(s)'
      BY SessionsStay
<1>4. Counted'
      BY StillCounted
<1> QED
    BY <1>1, <1>2, <1>3, <1>4 DEF AuthInv

LEMMA BeginLoginStep ==
    ASSUME AuthInv, NEW r \in AuthRequests, NEW right \in BOOLEAN, BeginAdminLogin(r, right)
    PROVE  AuthInv'
<1>1. /\ AuthTypeOK /\ admin.epoch \in 0 .. MaxEpoch /\ authNow \in Nat
      /\ UNCHANGED <<admin, sess, mfaVars, authNow, endedAt, unswept, misses>>
      /\ ~Locked
      BY DEF AuthInv, AuthTypeOK, Admin, BeginAdminLogin, OnlyRequests, Locked
<1>2. PICK pc \in {"failed", "success"}, e \in 0 .. MaxEpoch :
          BeginAuth(r, pc, "login", NoSession, e) /\ e = admin.epoch
      BY <1>1 DEF BeginAdminLogin
<1>3. /\ areq' \in [AuthRequests -> AuthRequest] /\ areq'[r].pc = pc
      /\ areq'[r].epoch = e /\ areq'[r].at = authNow /\ Alone(r)
      BY <1>1, <1>2, AuthStepOf
<1>4. Reads(r)'
      BY <1>1, <1>2, <1>3, AuthBounds DEF Reads
<1>5. AuthTypeOK'
      BY <1>1, <1>3 DEF AuthTypeOK, mfaVars
<1>6. \A u \in AuthRequests : Reads(u)'
      BY <1>1, <1>3, <1>4, OthersRead
<1>7. \A s \in Sessions : Outlives(s)'
      BY <1>1, SessionsStay
<1>8. Counted'
  <2>1. /\ misses \in Nat /\ admin.failed \in Nat /\ Threshold \in Nat /\ Threshold > 0
        BY AuthBounds DEF AuthInv, AuthTypeOK, Admin
  <2>2. /\ Cardinality(Failing') <= Cardinality(AuthRequests)
        /\ Cardinality(Failing') \in Nat /\ Cardinality(AuthRequests) \in Nat
        BY <1>3, FailingFewer
  <2>3. misses <= Threshold - 1
        BY <1>1, <2>1 DEF AuthInv, Counted
  <2> QED
      BY <1>1, <2>1, <2>2, <2>3 DEF AuthInv, Counted, Locked
<1> QED
    BY <1>5, <1>6, <1>7, <1>8 DEF AuthInv

LEMMA LoginFailedStep ==
    ASSUME AuthInv, NEW r \in AuthRequests, OnLoginFailed(r)
    PROVE  AuthInv'
<1>1. /\ AuthTypeOK /\ admin \in Admin /\ admin.failed \in Nat /\ authNow \in Nat
      /\ misses \in Nat
      /\ UNCHANGED <<sess, mfaVars, authNow, endedAt, unswept>>
      /\ areq[r].pc = "failed" /\ misses' = misses + 1
      BY DEF AuthInv, AuthTypeOK, Admin, OnLoginFailed
<1>2. /\ areq' \in [AuthRequests -> AuthRequest] /\ areq'[r].pc = "idle" /\ Alone(r)
      BY <1>1, AuthStepOf, AuthRows DEF OnLoginFailed
<1>3. /\ admin' \in Admin /\ admin'.epoch = admin.epoch
      /\ admin'.failed = admin.failed + 1
      /\ admin'.lockedUntil =
            IF admin.failed + 1 >= Threshold THEN authNow + LockFor ELSE 0
  <2>1. PICK n \in Nat, lock \in Nat :
            /\ n = admin.failed + 1
            /\ lock = IF admin.failed + 1 >= Threshold THEN authNow + LockFor ELSE 0
        BY <1>1, AuthBounds
  <2>2. admin' = [admin EXCEPT !.failed = n, !.lockedUntil = lock]
        BY <2>1 DEF OnLoginFailed, LocksAt
  <2>3. /\ admin' \in Admin /\ admin'.epoch = admin.epoch
        /\ admin'.failed = n /\ admin'.lockedUntil = lock
        BY <1>1, <2>2 DEF Admin
  <2> QED
      BY <2>1, <2>3
<1>4. AuthTypeOK'
      BY <1>1, <1>2, <1>3 DEF AuthTypeOK, mfaVars
<1>5. \A u \in AuthRequests : Reads(u)'
  <2>1. Reads(r)'
        BY <1>2 DEF Reads
  <2> QED
      BY <1>1, <1>2, <1>3, <2>1, OthersRead
<1>6. \A s \in Sessions : Outlives(s)'
      BY <1>1, <1>3, SessionsStay
<1>7. Counted'
  <2>1. /\ Cardinality(Failing') = Cardinality(Failing) - 1
        /\ Cardinality(Failing) \in Nat /\ Cardinality(AuthRequests) \in Nat
        /\ Cardinality(Failing') \in Nat
        BY <1>1, <1>2, FailingFewer
  <2>2. misses' + Cardinality(Failing') <= Threshold - 1 + Cardinality(AuthRequests)
        BY <1>1, <2>1, AuthBounds DEF AuthInv, Counted
  <2>3. admin'.failed >= Threshold => Locked'
        BY <1>1, <1>3, AuthBounds DEF Locked
  <2>4. misses' <= admin'.failed
        BY <1>1, <1>3 DEF AuthInv, Counted
  <2> QED
      BY <2>2, <2>3, <2>4 DEF Counted
<1> QED
    BY <1>4, <1>5, <1>6, <1>7 DEF AuthInv

LEMMA LoginSuccessStep ==
    ASSUME AuthInv, NEW r \in AuthRequests, OnLoginSuccess(r)
    PROVE  AuthInv'
<1>1. /\ AuthTypeOK /\ admin \in Admin /\ areq[r].pc = "success" /\ misses' = 0
      /\ UNCHANGED <<sess, mfaVars, authNow, endedAt, unswept>>
      BY DEF AuthInv, AuthTypeOK, OnLoginSuccess
<1>2. /\ areq' \in [AuthRequests -> AuthRequest] /\ areq'[r].pc = "session" /\ Alone(r)
      /\ areq'[r].epoch = areq[r].epoch /\ areq'[r].at = areq[r].at
      BY <1>1, AuthStepOf DEF OnLoginSuccess
<1>3. /\ admin' \in Admin /\ admin'.epoch = admin.epoch
      /\ admin'.failed = 0 /\ admin'.lockedUntil = 0
      BY <1>1 DEF OnLoginSuccess, Admin
<1>4. AuthTypeOK'
      BY <1>1, <1>2, <1>3 DEF AuthTypeOK, mfaVars
<1>5. \A u \in AuthRequests : Reads(u)'
  <2>1. Reads(r)'
        BY <1>1, <1>2, <1>3 DEF Reads, AuthInv
  <2> QED
      BY <1>1, <1>2, <1>3, <2>1, OthersRead
<1>6. \A s \in Sessions : Outlives(s)'
      BY <1>1, <1>3, SessionsStay
<1>7. Counted'
      BY <1>1, <1>2, <1>3, StillCounted
<1> QED
    BY <1>4, <1>5, <1>6, <1>7 DEF AuthInv

LEMMA CreateSessionStep ==
    ASSUME AuthInv, NEW r \in AuthRequests, NEW s \in Sessions, CreateSession(r, s)
    PROVE  AuthInv'
<1>1. /\ AuthTypeOK /\ areq[r].pc = "session" /\ areq[r] \in AuthRequest
      /\ UNCHANGED <<admin, mfaVars, authNow, endedAt, unswept, misses>>
      /\ admin.epoch \in 0 .. MaxEpoch /\ authNow \in Nat
      BY DEF AuthInv, AuthTypeOK, CreateSession, Admin
<1>2. /\ areq' \in [AuthRequests -> AuthRequest] /\ areq'[r].pc = "idle" /\ Alone(r)
      BY <1>1, AuthStepOf, AuthRows DEF CreateSession
<1>3. areq[r].epoch \in 0 .. MaxEpoch /\ areq[r].at \in Nat
      BY <1>1 DEF AuthRequest
<1> DEFINE late == areq[r].epoch # admin.epoch
           row == [live |-> TRUE, epoch |-> areq[r].epoch, at |-> authNow, late |-> late]
<1>4. /\ row \in Session /\ row.live /\ row.epoch = areq[r].epoch /\ row.at = authNow
      /\ row.late <=> areq[r].epoch # admin.epoch
  <2>1. late \in BOOLEAN
        OBVIOUS
  <2>2. late <=> areq[r].epoch # admin.epoch
        OBVIOUS
  <2> HIDE DEF late
  <2>3. row \in Session
        BY <1>1, <1>3, <2>1 DEF Session
  <2> QED
      BY <2>2, <2>3
<1>5. sess' = [sess EXCEPT ![s] = row] /\ sess \in [Sessions -> Session]
      BY <1>1 DEF CreateSession, AuthTypeOK
<1> HIDE DEF row
<1>6. AuthTypeOK'
      BY <1>1, <1>2, <1>4, <1>5 DEF AuthTypeOK, mfaVars
<1>7. \A u \in AuthRequests : Reads(u)'
  <2>1. Reads(r)'
        BY <1>2 DEF Reads
  <2> QED
      BY <1>1, <1>2, <2>1, OthersRead
<1>8. ASSUME NEW x \in Sessions PROVE Outlives(x)'
  <2>1. CASE x # s
        BY <1>1, <1>5, <2>1 DEF AuthInv, Outlives
  <2>2. CASE x = s
    <3>1. /\ sess'[s].epoch = areq[r].epoch /\ sess'[s].at = authNow
          /\ sess'[s].late <=> areq[r].epoch # admin.epoch
          BY <1>4, <1>5
    <3>2. /\ areq[r].epoch <= admin.epoch /\ authNow <= areq[r].at + AuthStall
          /\ areq[r].epoch < admin.epoch => areq[r].at <= endedAt[areq[r].epoch]
          BY <1>1 DEF AuthInv, Reads
    <3>3. endedAt[areq[r].epoch] \in Nat /\ AuthStall \in Nat /\ MaxEpoch \in Nat
          BY <1>1, <1>3, AuthBounds DEF AuthTypeOK
    <3> QED
        BY <1>1, <1>3, <2>2, <3>1, <3>2, <3>3 DEF Outlives
  <2> QED
      BY <2>1, <2>2
<1>9. Counted'
      BY <1>1, <1>2, StillCounted
<1> QED
    BY <1>6, <1>7, <1>8, <1>9 DEF AuthInv

LEMMA OperationStep ==
    ASSUME AuthInv, NEW r \in AuthRequests,
           \/ \E s \in Sessions, op \in Ops : BeginOperation(r, s, op)
           \/ ResolveAdmin(r) \/ ConsumePendingTOTP(r) \/ ConsumeTOTPWindow(r) \/ AbandonAuth(r)
    PROVE  AuthInv'
<1> USE DEF OnlyRequests
<1>1. /\ AuthTypeOK /\ areq[r] \in AuthRequest /\ Reads(r) /\ MFATyped
      /\ admin.epoch \in 0 .. MaxEpoch /\ authNow \in Nat /\ AuthStall \in Nat
      /\ areq \in [AuthRequests -> AuthRequest] /\ MaxSetups \in Nat
      BY AuthBounds DEF AuthInv, AuthTypeOK, MFATyped, Admin
<1>2. ASSUME NEW s \in Sessions, NEW op \in Ops, BeginOperation(r, s, op) PROVE AuthInv'
  <2>1. PICK e \in 0 .. MaxEpoch : BeginAuth(r, "admin", op, s, e)
        BY <1>2, AuthBounds DEF BeginOperation
  <2>2. /\ areq' \in [AuthRequests -> AuthRequest] /\ areq'[r].pc = "admin"
        /\ areq'[r].at = authNow /\ Alone(r)
        BY <1>1, <2>1, AuthStepOf
  <2>3. UNCHANGED <<admin, sess, mfaVars, authNow, endedAt, unswept, misses>>
        BY <1>2 DEF BeginOperation
  <2>4. MFATyped'
        BY <1>1, <2>3 DEF MFATyped, mfaVars
  <2>5. Reads(r)'
        BY <1>1, <2>2, <2>3 DEF Reads
  <2> QED
      BY <1>1, <2>2, <2>3, <2>4, <2>5, MoveOnly
<1>3. ASSUME EndAuth(r), MFATyped',
             UNCHANGED <<admin, sess, authNow, endedAt, unswept, misses>>
      PROVE  AuthInv'
  <2>1. /\ areq' \in [AuthRequests -> AuthRequest] /\ areq'[r].pc = "idle" /\ Alone(r)
        BY <1>1, <1>3, AuthStepOf, AuthRows
  <2> QED
      BY <1>3, <2>1, MoveOnly DEF Reads
<1>4. ASSUME NEW pc \in {"pending", "step", "set", "logout"}, MFATyped',
             areq' \in [AuthRequests -> AuthRequest], Alone(r),
             areq'[r].pc = pc, areq'[r].at = areq[r].at,
             areq[r].pc \in {"admin", "pending", "step"},
             UNCHANGED <<admin, sess, authNow, endedAt, unswept, misses>>
      PROVE  AuthInv'
      BY <1>1, <1>4, MoveOnly DEF Reads
<1>5. ASSUME NEW pc \in {"pending", "step", "set", "logout"}, GoTo(r, pc), MFATyped',
             areq[r].pc \in {"admin", "step"},
             UNCHANGED <<admin, sess, authNow, endedAt, unswept, misses>>
      PROVE  AuthInv'
  <2>1. /\ areq' \in [AuthRequests -> AuthRequest] /\ areq'[r].pc = pc /\ Alone(r)
        /\ areq'[r].at = areq[r].at
        BY <1>1, <1>5, AuthStepOf
  <2> QED
      BY <1>4, <1>5, <2>1
<1>6. ASSUME ResolveAdmin(r) PROVE AuthInv'
  <2>1. MFATyped'
    <3>1. CASE UNCHANGED mfaVars
          BY <1>1, <3>1 DEF MFATyped, mfaVars
    <3>2. CASE ~UNCHANGED mfaVars
      <4>1. setups < MaxSetups /\ setups' = setups + 1 /\ pendingTOTP' = setups'
            /\ UNCHANGED tries
            BY <1>6, <3>2 DEF ResolveAdmin
      <4>2. setups \in 0 .. MaxSetups /\ tries \in [1 .. MaxSetups -> Nat]
            BY <1>1 DEF MFATyped, Secrets
      <4> QED
          BY <1>1, <4>1, <4>2 DEF MFATyped, Secrets
    <3> QED
        BY <3>1, <3>2
  <2>2. /\ areq[r].pc = "admin"
        /\ UNCHANGED <<admin, sess, authNow, endedAt, unswept, misses>>
        BY <1>6 DEF ResolveAdmin
  <2>3. EndAuth(r) \/ \E pc \in {"pending", "set", "logout"} : GoTo(r, pc)
        BY <1>6 DEF ResolveAdmin
  <2> QED
      BY <1>3, <1>5, <2>1, <2>2, <2>3
<1>7. ASSUME ConsumePendingTOTP(r) PROVE AuthInv'
  <2>1. /\ areq[r].pc = "pending" /\ pendingTOTP' = 0
        /\ UNCHANGED <<admin, sess, setups, authNow, endedAt, unswept, misses>>
        BY <1>7 DEF ConsumePendingTOTP, GetDel
  <2>2. /\ setups \in 0 .. MaxSetups /\ pendingTOTP \in 0 .. setups
        /\ tries \in [1 .. MaxSetups -> Nat]
        BY <1>1 DEF MFATyped, Secrets
  <2>3. CASE EndAuth(r) /\ UNCHANGED tries
    <3>1. MFATyped'
          BY <2>1, <2>2, <2>3 DEF MFATyped, Secrets
    <3> QED
        BY <1>3, <2>1, <2>3, <3>1
  <2>4. CASE /\ pendingTOTP # 0
             /\ areq' = [areq EXCEPT ![r].pc = "step", ![r].secret = pendingTOTP]
             /\ tries' = [tries EXCEPT ![pendingTOTP] = @ + 1]
    <3>1. MFATyped'
          BY <2>1, <2>2, <2>4, <1>1 DEF MFATyped, Secrets
    <3>2. PICK n \in Secrets : n = pendingTOTP
          BY <1>1, <2>2 DEF Secrets
    <3>3. areq' = [areq EXCEPT ![r] = [areq[r] EXCEPT !.pc = "step", !.secret = n]]
          BY <2>4, <3>2
    <3>4. ASSUME NEW q \in AuthRequest
          PROVE  /\ [q EXCEPT !.pc = "step", !.secret = n] \in AuthRequest
                 /\ [q EXCEPT !.pc = "step", !.secret = n].pc = "step"
                 /\ [q EXCEPT !.pc = "step", !.secret = n].at = q.at
          BY DEF AuthRequest
    <3>5. /\ areq' \in [AuthRequests -> AuthRequest] /\ areq'[r].pc = "step" /\ Alone(r)
          /\ areq'[r].at = areq[r].at
          BY <1>1, <3>3, <3>4 DEF Alone
    <3> QED
        BY <1>4, <2>1, <3>1, <3>5
  <2> QED
      BY <1>7, <2>3, <2>4 DEF ConsumePendingTOTP
<1>8. ASSUME ConsumeTOTPWindow(r) \/ AbandonAuth(r) PROVE AuthInv'
  <2>1. /\ UNCHANGED <<admin, sess, mfaVars, authNow, endedAt, unswept, misses>>
        /\ EndAuth(r) \/ (areq[r].pc = "step" /\ GoTo(r, "set"))
        BY <1>8 DEF ConsumeTOTPWindow, AbandonAuth
  <2>2. MFATyped'
        BY <1>1, <2>1 DEF MFATyped, mfaVars
  <2> QED
      BY <1>3, <1>5, <2>1, <2>2
<1> QED
    BY <1>2, <1>6, <1>7, <1>8

\* The end of an epoch, by the request of slot r.
LEMMA EpochStep ==
    ASSUME AuthInv, NEW r \in AuthRequests, Alone(r),
           areq' \in [AuthRequests -> AuthRequest], areq'[r].pc = "sweep",
           NEW row \in Admin, row.epoch = admin.epoch, NewEpoch(row),
           UNCHANGED <<sess, mfaVars, authNow>>,
           \/ row.failed = 0 /\ misses' = 0
           \/ row.failed = admin.failed /\ row.lockedUntil = admin.lockedUntil /\ misses' = misses,
           areq'[r].at <= authNow /\ authNow <= areq'[r].at + AuthStall,
           areq'[r].epoch \in {admin.epoch, admin.epoch + 1}
    PROVE  AuthInv'
<1>1. /\ AuthTypeOK /\ admin.epoch \in 0 .. MaxEpoch /\ MaxEpoch \in Nat /\ misses' \in Nat
      BY AuthBounds DEF AuthInv, AuthTypeOK, Admin
<1>2. /\ admin' \in Admin /\ admin'.epoch = admin.epoch + 1
      /\ admin'.failed = row.failed /\ admin'.lockedUntil = row.lockedUntil
      /\ endedAt' \in [0 .. MaxEpoch -> Nat] /\ endedAt'[admin.epoch] = authNow
      /\ \A e \in 0 .. MaxEpoch : e # admin.epoch => endedAt'[e] = endedAt[e]
      /\ unswept'
      BY <1>1, EpochEnds
<1>3. AuthTypeOK'
  <2>1. unswept' \in BOOLEAN
        BY DEF NewEpoch
  <2> QED
      BY <1>1, <1>2, <2>1 DEF AuthTypeOK, mfaVars
<1>4. \A u \in AuthRequests : Reads(u)'
  <2>1. Reads(r)'
        BY <1>1, <1>2 DEF Reads
  <2>2. \A u \in AuthRequests \ {r} : Reads(u)'
        BY <1>2, OthersRead
  <2> QED
      BY <2>1, <2>2
<1>5. \A s \in Sessions : Outlives(s)'
      BY <1>2, SessionsStay
<1>6. Counted'
      BY <1>2, StillCounted
<1> QED
    BY <1>3, <1>4, <1>5, <1>6 DEF AuthInv

LEMMA CredentialsStep ==
    ASSUME AuthInv, NEW r \in AuthRequests,
           SetCredentials(r) \/ ResetAdminPassword(r) \/ DisableAdmin(r)
    PROVE  AuthInv'
<1>1. /\ AuthTypeOK /\ admin \in Admin /\ areq[r] \in AuthRequest /\ Reads(r)
      /\ admin.epoch \in 0 .. MaxEpoch /\ MaxEpoch \in Nat /\ authNow \in Nat
      /\ AuthStall \in Nat /\ areq \in [AuthRequests -> AuthRequest]
      BY AuthBounds DEF AuthInv, AuthTypeOK, Admin
<1> DEFINE cleared == [admin EXCEPT !.failed = 0, !.lockedUntil = 0]
           disabled == [admin EXCEPT !.status = "disabled"]
<1>2. /\ cleared \in Admin /\ cleared.epoch = admin.epoch /\ cleared.failed = 0
      /\ disabled \in Admin /\ disabled.epoch = admin.epoch
      /\ disabled.failed = admin.failed /\ disabled.lockedUntil = admin.lockedUntil
      BY <1>1 DEF Admin
<1>3. CASE SetCredentials(r)
  <2>1. areq[r].pc = "set" /\ admin.epoch < MaxEpoch
        /\ UNCHANGED <<sess, mfaVars, authNow>>
        BY <1>3 DEF SetCredentials, NewEpoch
  <2>2. PICK e \in 0 .. MaxEpoch : e = admin.epoch + 1
        BY <1>1, <2>1
  <2>3. areq' = [areq EXCEPT ![r] = [areq[r] EXCEPT !.pc = "sweep", !.epoch = e,
                                                    !.secret = 0]]
        BY <1>3, <2>2 DEF SetCredentials
  <2>4. ASSUME NEW q \in AuthRequest
        PROVE  /\ [q EXCEPT !.pc = "sweep", !.epoch = e, !.secret = 0] \in AuthRequest
               /\ [q EXCEPT !.pc = "sweep", !.epoch = e, !.secret = 0].pc = "sweep"
               /\ [q EXCEPT !.pc = "sweep", !.epoch = e, !.secret = 0].epoch = e
               /\ [q EXCEPT !.pc = "sweep", !.epoch = e, !.secret = 0].at = q.at
    <3>1. 0 \in Secrets
          BY AuthBounds DEF Secrets
    <3> QED
        BY <3>1 DEF AuthRequest
  <2>5. /\ areq' \in [AuthRequests -> AuthRequest] /\ areq'[r].pc = "sweep" /\ Alone(r)
        /\ areq'[r].epoch = admin.epoch + 1 /\ areq'[r].at = areq[r].at
        BY <1>1, <2>2, <2>3, <2>4 DEF Alone
  <2>6. areq'[r].at <= authNow /\ authNow <= areq'[r].at + AuthStall
        BY <1>1, <2>1, <2>5 DEF Reads
  <2>7. PICK row \in Admin :
            /\ row.epoch = admin.epoch /\ NewEpoch(row)
            /\ \/ row.failed = 0 /\ misses' = 0
               \/ /\ row.failed = admin.failed /\ row.lockedUntil = admin.lockedUntil
                  /\ misses' = misses
    <3>1. CASE areq[r].op = "password"
      <4>1. PICK row \in Admin : row = cleared
            BY <1>2
      <4>2. NewEpoch(row) /\ misses' = 0
            BY <1>3, <3>1, <4>1 DEF SetCredentials, NewEpoch
      <4> QED
          BY <1>2, <4>1, <4>2
    <3>2. CASE areq[r].op # "password"
      <4>1. PICK n \in Secrets : n = areq[r].secret
            BY <1>1 DEF AuthRequest
      <4>2. PICK row \in Admin : /\ row = [admin EXCEPT !.secret = n]
                                /\ row.epoch = admin.epoch /\ row.failed = admin.failed
                                /\ row.lockedUntil = admin.lockedUntil
        <5>1. /\ [admin EXCEPT !.secret = n] \in Admin
              /\ [admin EXCEPT !.secret = n].epoch = admin.epoch
              /\ [admin EXCEPT !.secret = n].failed = admin.failed
              /\ [admin EXCEPT !.secret = n].lockedUntil = admin.lockedUntil
              BY <1>1, <4>1 DEF Admin
        <5> QED
            BY <5>1
      <4>3. NewEpoch(row) /\ misses' = misses
            BY <1>3, <3>2, <4>1, <4>2 DEF SetCredentials, NewEpoch
      <4> QED
          BY <4>2, <4>3
    <3> QED
        BY <3>1, <3>2
  <2> QED
      BY <2>1, <2>5, <2>6, <2>7, EpochStep
<1>4. ASSUME NEW op \in {"reset", "disable"}, BeginAuth(r, "sweep", op, NoSession, admin.epoch),
             UNCHANGED <<sess, mfaVars, authNow>>
      PROVE  /\ areq' \in [AuthRequests -> AuthRequest] /\ areq'[r].pc = "sweep" /\ Alone(r)
             /\ areq'[r].epoch = admin.epoch
             /\ areq'[r].at <= authNow /\ authNow <= areq'[r].at + AuthStall
  <2>1. PICK e \in 0 .. MaxEpoch : e = admin.epoch
        BY <1>1
  <2>2. BeginAuth(r, "sweep", op, NoSession, e)
        BY <1>4, <2>1 DEF BeginAuth
  <2> QED
      BY <1>1, <1>4, <2>1, <2>2, AuthStepOf
<1>5. CASE ResetAdminPassword(r)
  <2>1. PICK row \in Admin : row = cleared
        BY <1>2
  <2>2. /\ NewEpoch(row) /\ misses' = 0 /\ BeginAuth(r, "sweep", "reset", NoSession, admin.epoch)
        /\ UNCHANGED <<sess, mfaVars, authNow>>
        BY <1>5, <2>1 DEF ResetAdminPassword, NewEpoch
  <2>3. row.epoch = admin.epoch /\ row.failed = 0
        BY <1>2, <2>1
  <2> QED
      BY <1>4, <2>2, <2>3, EpochStep
<1>6. CASE DisableAdmin(r)
  <2>1. PICK row \in Admin : row = disabled
        BY <1>2
  <2>2. /\ NewEpoch(row) /\ misses' = misses
        /\ BeginAuth(r, "sweep", "disable", NoSession, admin.epoch)
        /\ UNCHANGED <<sess, mfaVars, authNow>>
        BY <1>6, <2>1 DEF DisableAdmin, NewEpoch
  <2>3. /\ row.epoch = admin.epoch /\ row.failed = admin.failed
        /\ row.lockedUntil = admin.lockedUntil
        BY <1>2, <2>1
  <2> QED
      BY <1>4, <2>2, <2>3, EpochStep
<1> QED
    BY <1>3, <1>5, <1>6

LEMMA SweepStep ==
    ASSUME AuthInv, NEW r \in AuthRequests, RevokeAllSessions(r) \/ RevokeSession(r)
    PROVE  AuthInv'
<1>1. /\ AuthTypeOK /\ sess \in [Sessions -> Session] /\ Reads(r)
      /\ UNCHANGED <<admin, mfaVars, authNow, endedAt, misses>>
      BY DEF AuthInv, AuthTypeOK, RevokeAllSessions, RevokeSession
<1>2. ASSUME NEW row \in Session
      PROVE  /\ [row EXCEPT !.live = FALSE] \in Session
             /\ ~[row EXCEPT !.live = FALSE].live
             /\ [row EXCEPT !.live = FALSE].epoch = row.epoch
             /\ [row EXCEPT !.live = FALSE].at = row.at
             /\ [row EXCEPT !.live = FALSE].late = row.late
      BY DEF Session
<1>3. /\ areq' \in [AuthRequests -> AuthRequest] /\ Alone(r)
      /\ areq'[r].pc # "failed" /\ Reads(r)'
  <2>1. CASE EndAuth(r)
        BY <1>1, <2>1, AuthStepOf, AuthRows DEF Reads
  <2>2. CASE GoTo(r, "session") /\ areq[r].pc = "sweep"
    <3>1. /\ areq' \in [AuthRequests -> AuthRequest] /\ Alone(r)
          /\ areq'[r].pc = "session" /\ areq'[r].epoch = areq[r].epoch
          /\ areq'[r].at = areq[r].at
          BY <1>1, <2>2, AuthStepOf
    <3> QED
        BY <1>1, <2>2, <3>1 DEF Reads
  <2> QED
      BY <2>1, <2>2 DEF RevokeAllSessions, RevokeSession
<1>4. /\ sess' \in [Sessions -> Session] /\ unswept' \in BOOLEAN
      /\ \A s \in Sessions : /\ sess'[s].epoch = sess[s].epoch
                            /\ sess'[s].at = sess[s].at /\ sess'[s].late = sess[s].late
      /\ unswept' = unswept \/ \A s \in Sessions : ~sess'[s].live
      /\ \A s \in Sessions : sess'[s].live => sess[s].live
  <2>1. CASE RevokeAllSessions(r)
    <3>1. sess' = [s \in Sessions |-> [sess[s] EXCEPT !.live = FALSE]] /\ ~unswept'
          /\ unswept' \in BOOLEAN
          BY <2>1 DEF RevokeAllSessions, Swept
    <3>2. ASSUME NEW s \in Sessions
          PROVE  /\ sess'[s] \in Session
                 /\ sess'[s].epoch = sess[s].epoch /\ sess'[s].at = sess[s].at
                 /\ sess'[s].late = sess[s].late /\ ~sess'[s].live
          BY <1>1, <1>2, <3>1
    <3> QED
        BY <3>1, <3>2
  <2>2. CASE RevokeSession(r)
    <3>1. PICK z : sess' = [sess EXCEPT ![z] = [sess[z] EXCEPT !.live = FALSE]]
          BY <2>2 DEF RevokeSession
    <3>2. ASSUME NEW s \in Sessions
          PROVE  /\ sess'[s] \in Session
                 /\ sess'[s].epoch = sess[s].epoch /\ sess'[s].at = sess[s].at
                 /\ sess'[s].late = sess[s].late /\ (sess'[s].live => sess[s].live)
          BY <1>1, <1>2, <3>1
    <3>3. sess' \in [Sessions -> Session]
          BY <1>1, <3>1, <3>2
    <3> QED
        BY <1>1, <2>2, <3>2, <3>3 DEF RevokeSession, AuthTypeOK
  <2> QED
      BY <2>1, <2>2
<1>5. AuthTypeOK'
      BY <1>1, <1>3, <1>4 DEF AuthTypeOK, mfaVars
<1>6. \A u \in AuthRequests : Reads(u)'
      BY <1>1, <1>3, OthersRead
<1>7. ASSUME NEW s \in Sessions PROVE Outlives(s)'
  <2>1. /\ sess'[s].epoch = sess[s].epoch
        /\ sess'[s].at = sess[s].at /\ sess'[s].late = sess[s].late
        BY <1>4
  <2>2. sess'[s].live => sess[s].live
        BY <1>4
  <2>3. unswept' = unswept \/ ~sess'[s].live
        BY <1>4
  <2>4. admin' = admin /\ endedAt' = endedAt /\ Outlives(s)
        BY <1>1 DEF AuthInv
  <2> QED
      BY <2>1, <2>2, <2>3, <2>4 DEF Outlives
<1>8. Counted'
      BY <1>1, <1>3, StillCounted
<1> QED
    BY <1>5, <1>6, <1>7, <1>8 DEF AuthInv

\* Steps of no request: an account enabled again, the worker, Redis.
LEMMA OutsideStep ==
    ASSUME AuthInv, EnableAdmin \/ ReapSessions \/ ForgetTOTP
    PROVE  AuthInv'
<1>1. /\ AuthTypeOK /\ admin \in Admin /\ sess \in [Sessions -> Session]
      /\ UNCHANGED <<areq, authNow, endedAt, unswept, misses>>
      /\ setups \in 0 .. MaxSetups /\ MaxSetups \in Nat
      BY AuthBounds DEF AuthInv, AuthTypeOK, Secrets, EnableAdmin, ReapSessions, ForgetTOTP
<1>2. /\ admin' \in Admin /\ admin'.epoch = admin.epoch
      /\ admin'.failed = admin.failed /\ admin'.lockedUntil = admin.lockedUntil
      BY <1>1 DEF EnableAdmin, ReapSessions, ForgetTOTP, Admin
<1>3. /\ sess' \in [Sessions -> Session]
      /\ \A s \in Sessions : sess'[s] \in {sess[s], NoRow}
      BY <1>1, AuthRows DEF EnableAdmin, ReapSessions, ForgetTOTP
<1>4. AuthTypeOK'
  <2>1. MFATyped'
    <3>1. setups' = setups /\ tries' = tries /\ pendingTOTP' \in {0, pendingTOTP}
          BY DEF EnableAdmin, ReapSessions, ForgetTOTP, mfaVars
    <3> QED
        BY <1>1, <3>1 DEF AuthTypeOK, MFATyped
  <2> QED
      BY <1>1, <1>2, <1>3, <2>1 DEF AuthTypeOK, MFATyped
<1>5. \A u \in AuthRequests : Reads(u)'
      BY <1>1, <1>2 DEF AuthInv, Reads
<1>6. \A s \in Sessions : Outlives(s)'
      BY <1>1, <1>2, <1>3 DEF AuthInv, Outlives, NoRow
<1>7. Counted'
      BY <1>1, <1>2 DEF AuthInv, Counted, Locked, Failing
<1> QED
    BY <1>4, <1>5, <1>6, <1>7 DEF AuthInv

LEMMA AuthTickStep ==
    ASSUME AuthInv, AuthTick
    PROVE  AuthInv'
<1>1. /\ AuthTypeOK /\ admin \in Admin /\ authNow \in Nat /\ misses \in Nat
      /\ authNow' = authNow + 1 /\ misses' \in {0, misses}
      /\ UNCHANGED <<admin, sess, mfaVars, areq, endedAt, unswept>>
      BY DEF AuthInv, AuthTypeOK, AuthTick
<1>2. AuthTypeOK'
      BY <1>1 DEF AuthTypeOK, mfaVars
<1>3. ASSUME NEW u \in AuthRequests PROVE Reads(u)'
  <2>1. areq[u].at \in Nat /\ AuthStall \in Nat
        BY <1>1, AuthBounds DEF AuthTypeOK, AuthRequest
  <2>2. areq[u].pc # "idle" => authNow < areq[u].at + AuthStall
        BY DEF AuthTick
  <2> QED
      BY <1>1, <2>1, <2>2 DEF AuthInv, Reads
<1>4. \A s \in Sessions : Outlives(s)'
      BY <1>1 DEF AuthInv, Outlives
<1>5. Counted'
  <2>1. Cardinality(Failing) \in Nat /\ Failing' = Failing
    <3>1. IsFiniteSet(Failing)
          BY AuthBounds, FS_Subset DEF Failing
    <3> QED
        BY <1>1, <3>1, FS_CardinalityType DEF Failing
  <2>2. /\ misses' <= misses /\ admin.failed \in Nat /\ admin.lockedUntil \in Nat
        /\ Threshold \in Nat
        BY <1>1, AuthBounds DEF Admin
  <2>3. Locked /\ ~Locked' => misses' = 0
        BY <1>1, <2>2 DEF AuthTick, Locked
  <2>4. Cardinality(AuthRequests) \in Nat
        BY AuthBounds, FS_CardinalityType
  <2>5. misses' + Cardinality(Failing') <= Threshold - 1 + Cardinality(AuthRequests)
        BY <1>1, <2>1, <2>2, <2>4 DEF AuthInv, Counted
  <2>6. ~Locked' /\ admin'.failed >= Threshold => misses' = 0
        BY <1>1, <2>2, <2>3 DEF AuthInv, Counted
  <2> QED
      BY <1>1, <2>2, <2>5, <2>6 DEF AuthInv, Counted
<1> QED
    BY <1>2, <1>3, <1>4, <1>5 DEF AuthInv

LEMMA AuthFirst == AuthInit => AuthInv
<1> SUFFICES ASSUME AuthInit PROVE AuthInv
    OBVIOUS
<1>1. /\ admin.epoch = 0 /\ admin.failed = 0 /\ admin.lockedUntil = 0 /\ misses = 0
      /\ authNow = 0 /\ areq = [r \in AuthRequests |-> NoAuthRequest]
      /\ sess = [s \in Sessions |-> NoRow]
      BY DEF AuthInit
<1>2. AuthTypeOK
  <2>1. admin \in Admin /\ MFATyped
        BY AuthBounds DEF AuthInit, Admin, Secrets, MFATyped
  <2>2. sess \in [Sessions -> Session] /\ areq \in [AuthRequests -> AuthRequest]
        BY <1>1, AuthRows
  <2> QED
      BY <2>1, <2>2 DEF AuthInit, AuthTypeOK, MFATyped
<1>3. \A r \in AuthRequests : Reads(r)
      BY <1>1, AuthRows DEF Reads
<1>4. \A s \in Sessions : Outlives(s)
      BY <1>1 DEF Outlives, NoRow
<1>5. Counted
  <2>1. Failing = {}
        BY <1>1, AuthRows DEF Failing
  <2>2. Cardinality(Failing) = 0 /\ Cardinality(AuthRequests) \in Nat
        BY <2>1, AuthBounds, FS_EmptySet, FS_CardinalityType
  <2> QED
      BY <1>1, <2>2, AuthBounds DEF Counted, Locked
<1> QED
    BY <1>2, <1>3, <1>4, <1>5 DEF AuthInv

LEMMA AuthSteps == AuthInv /\ [AuthNext]_authVars => AuthInv'
<1> SUFFICES ASSUME AuthInv, [AuthNext]_authVars PROVE AuthInv'
    OBVIOUS
<1>1. ASSUME NEW r \in AuthRequests,
             \/ \E right \in BOOLEAN : BeginAdminLogin(r, right)
             \/ OnLoginFailed(r) \/ OnLoginSuccess(r)
             \/ \E s \in Sessions : CreateSession(r, s)
      PROVE  AuthInv'
      BY <1>1, BeginLoginStep, LoginFailedStep, LoginSuccessStep, CreateSessionStep
<1>2. ASSUME NEW r \in AuthRequests,
             \/ \E s \in Sessions, op \in Ops : BeginOperation(r, s, op)
             \/ ResolveAdmin(r) \/ ConsumePendingTOTP(r) \/ ConsumeTOTPWindow(r)
             \/ AbandonAuth(r)
      PROVE  AuthInv'
      BY <1>2, OperationStep
<1>3. ASSUME NEW r \in AuthRequests,
             \/ SetCredentials(r) \/ ResetAdminPassword(r) \/ DisableAdmin(r)
             \/ RevokeAllSessions(r) \/ RevokeSession(r)
      PROVE  AuthInv'
      BY <1>3, CredentialsStep, SweepStep
<1>4. ASSUME EnableAdmin \/ ReapSessions \/ ForgetTOTP \/ AuthTick
      PROVE  AuthInv'
      BY <1>4, OutsideStep, AuthTickStep
<1>5. ASSUME UNCHANGED authVars
      PROVE  AuthInv'
  <2>1. UNCHANGED <<admin, sess, mfaVars, areq, authNow, endedAt, unswept, misses>>
        BY <1>5 DEF authVars
  <2>2. Failing' = Failing
        BY <2>1 DEF Failing
  <2> QED
      BY <2>1, <2>2 DEF AuthInv, AuthTypeOK, mfaVars, Reads, Outlives, Counted, Locked
<1> QED
    BY <1>1, <1>2, <1>3, <1>4, <1>5 DEF AuthNext

\* Everything below is read off this invariant.
THEOREM AuthInvariant == AuthSpec => []AuthInv
    BY AuthFirst, AuthSteps, PTL DEF AuthSpec

\* The rows, the sessions and the requests of the administrator's account have
\* their types at any time (adminstore.go, adminauth.go).
THEOREM AuthTypes == AuthSpec => []AuthTypeOK
<1>1. AuthInv => AuthTypeOK
      BY DEF AuthInv
<1> QED
    BY <1>1, AuthInvariant, PTL

\* Sessions follow the account: after the sweep that a new password, a change of MFA
\* or a disabling makes (RevokeAllSessions), a session from before lives only if a
\* log-in in flight created it late, and then not later than a handler may take.
THEOREM SessionsFollow == AuthSpec => []SessionsFollowAccount
<1>1. AuthInv => SessionsFollowAccount
      BY DEF AuthInv, Outlives, SessionsFollowAccount, Usable
<1> QED
    BY <1>1, AuthInvariant, PTL

\* Guessing is slow: until a lock ends (OnLoginFailed, 15 minutes) no more log-ins
\* fail than the threshold and those in flight when it was reached.
THEOREM GuessesAreBounded == AuthSpec => []GuessesBounded
<1>1. ASSUME AuthInv PROVE GuessesBounded
  <2>1. IsFiniteSet(Failing)
        BY AuthBounds, FS_Subset DEF Failing
  <2>2. Cardinality(Failing) \in Nat /\ Cardinality(AuthRequests) \in Nat
        BY <2>1, AuthBounds, FS_CardinalityType
  <2>3. misses \in Nat /\ Threshold \in Nat
        BY <1>1, AuthBounds DEF AuthInv, AuthTypeOK
  <2> QED
      BY <1>1, <2>2, <2>3 DEF AuthInv, Counted, GuessesBounded
<1> QED
    BY <1>1, AuthInvariant, PTL

-----------------------------------------------------------------------------
(***************************************************************************)
(* Secrets of MFA.  One that is pending was never tried, one that a        *)
(* confirmation holds or the row has was tried once, and what is not yet   *)
(* handed out is nowhere (Handed); so a secret is in one place at a time.  *)
(***************************************************************************)
Handed(n, tried) == n \in 1 .. setups /\ tries[n] = tried

MFAInv ==
    /\ \A n \in 1 .. MaxSetups : tries[n] <= 1 /\ (n > setups => tries[n] = 0)
    /\ pendingTOTP # 0 => Handed(pendingTOTP, 0)
    /\ admin.secret # 0 => Handed(admin.secret, 1)
    /\ \A r \in AuthRequests : areq[r].secret # 0 =>
          /\ Handed(areq[r].secret, 1) /\ areq[r].secret # admin.secret
          /\ \A q \in AuthRequests : areq[q].secret = areq[r].secret => q = r

\* A step of a request that takes no secret, and stores none.
LEMMA SecretKept ==
    ASSUME MFAInv, NEW r \in AuthRequests, Alone(r), areq'[r].secret \in {0, areq[r].secret},
           admin'.secret = admin.secret, UNCHANGED mfaVars
    PROVE  MFAInv'
<1>1. \A q \in AuthRequests : areq'[q].secret \in {0, areq[q].secret}
      BY DEF Alone
<1> QED
    BY <1>1 DEF MFAInv, Handed, mfaVars

\* SetAdminMFA stores the secret of a confirmation, or none.
LEMMA SecretStored ==
    ASSUME MFAInv, NEW r \in AuthRequests, Alone(r), areq'[r].secret = 0,
           admin'.secret \in {admin.secret, areq[r].secret}, UNCHANGED mfaVars
    PROVE  MFAInv'
<1>1. \A q \in AuthRequests : areq'[q].secret = (IF q = r THEN 0 ELSE areq[q].secret)
      BY DEF Alone
<1>2. admin'.secret # 0 => Handed(admin'.secret, 1)
      BY DEF MFAInv
<1>3. ASSUME NEW q \in AuthRequests, areq'[q].secret # 0
      PROVE  areq'[q].secret # admin'.secret
      BY <1>1, <1>3 DEF MFAInv
<1> QED
    BY <1>1, <1>2, <1>3 DEF MFAInv, Handed, mfaVars

\* GETDEL: the secret was untried, so no request holds it and no row has it.
LEMMA SecretTaken ==
    ASSUME AuthTypeOK, MFAInv, NEW r \in AuthRequests, ConsumePendingTOTP(r)
    PROVE  MFAInv'
<1>1. /\ areq \in [AuthRequests -> AuthRequest] /\ setups \in 0 .. MaxSetups
      /\ tries \in [1 .. MaxSetups -> Nat] /\ MaxSetups \in Nat
      BY AuthBounds DEF AuthTypeOK, Secrets
<1>2. pendingTOTP' = 0 /\ admin' = admin /\ setups' = setups
      BY DEF ConsumePendingTOTP, GetDel
<1>3. CASE pendingTOTP = 0
  <2>1. tries' = tries /\ Alone(r) /\ areq'[r].secret = 0
        BY <1>3, AuthStepOf, AuthRows DEF ConsumePendingTOTP
  <2>2. UNCHANGED mfaVars
        BY <1>2, <1>3, <2>1 DEF mfaVars
  <2> QED
      BY <1>2, <2>1, <2>2, SecretKept
<1>4. CASE pendingTOTP # 0
  <2>1. PICK p \in 1 .. setups : p = pendingTOTP /\ tries[p] = 0
        BY <1>4 DEF MFAInv, Handed
  <2>2. /\ areq' = [areq EXCEPT ![r].pc = "step", ![r].secret = p]
        /\ tries' = [tries EXCEPT ![p] = @ + 1]
        BY <1>4, <2>1 DEF ConsumePendingTOTP
  <2>3. \A q \in AuthRequests : areq'[q].secret = (IF q = r THEN p ELSE areq[q].secret)
    <3>1. areq[r] \in AuthRequest
          BY <1>1
    <3> QED
        BY <1>1, <2>2, <3>1 DEF AuthRequest
  <2>4. \A n \in 1 .. MaxSetups : tries'[n] = (IF n = p THEN 1 ELSE tries[n])
        BY <1>1, <2>1, <2>2
  <2>5. /\ \A q \in AuthRequests : areq[q].secret # p
        /\ admin.secret # p
        BY <2>1 DEF MFAInv, Handed
  <2>6. \A n \in 1 .. setups : n \in 1 .. MaxSetups
        BY <1>1
  <2>7. ASSUME NEW n, Handed(n, 1) \/ n = p PROVE n \in 1 .. setups' /\ tries'[n] = 1
        BY <1>2, <2>1, <2>4, <2>6, <2>7 DEF Handed
  <2>8. admin'.secret # 0 => Handed(admin.secret, 1)
        BY <1>2 DEF MFAInv
  <2>9. ASSUME NEW q \in AuthRequests, areq'[q].secret # 0
        PROVE  /\ Handed(areq'[q].secret, 1) \/ areq'[q].secret = p
               /\ areq'[q].secret # admin'.secret
               /\ \A u \in AuthRequests : areq'[u].secret = areq'[q].secret => u = q
    <3>1. CASE q = r
          BY <1>2, <2>3, <2>5, <3>1
    <3>2. CASE q # r
          BY <1>2, <2>3, <2>5, <2>9, <3>2 DEF MFAInv
    <3> QED
        BY <3>1, <3>2
  <2>10. \A n \in 1 .. MaxSetups : tries'[n] <= 1 /\ (n > setups' => tries'[n] = 0)
         BY <1>1, <1>2, <2>1, <2>4 DEF MFAInv
  <2>11. admin'.secret # 0 => admin'.secret \in 1 .. setups' /\ tries'[admin'.secret] = 1
         BY <1>2, <2>7, <2>8
  <2> QED
      BY <1>2, <2>7, <2>9, <2>10, <2>11 DEF MFAInv, Handed
<1> QED
    BY <1>3, <1>4

\* MFASetup: the secret is new, nobody has it.
LEMMA SecretHandedOut ==
    ASSUME AuthTypeOK, MFAInv, NEW r \in AuthRequests, ResolveAdmin(r)
    PROVE  MFAInv'
<1>1. admin' = admin
      BY DEF ResolveAdmin
<1>2. Alone(r) /\ areq'[r].secret \in {0, areq[r].secret}
  <2>1. EndAuth(r) \/ \E pc \in {"pending", "set", "logout"} : GoTo(r, pc)
        BY DEF ResolveAdmin
  <2> QED
      BY <2>1, AuthStepOf, AuthRows
<1>3. CASE UNCHANGED mfaVars
      BY <1>1, <1>2, <1>3, SecretKept
<1>4. CASE ~UNCHANGED mfaVars
  <2>1. /\ setups < MaxSetups /\ setups' = setups + 1 /\ pendingTOTP' = setups'
        /\ tries' = tries
        BY <1>4 DEF ResolveAdmin
  <2>2. setups \in 0 .. MaxSetups /\ MaxSetups \in Nat
        BY AuthBounds DEF AuthTypeOK, Secrets
  <2>3. \A q \in AuthRequests : areq'[q].secret \in {0, areq[q].secret}
        BY <1>2 DEF Alone
  <2>4. ASSUME NEW n, Handed(n, 1) PROVE n \in 1 .. setups' /\ tries'[n] = 1
        BY <2>1, <2>2, <2>4 DEF Handed
  <2>5. setups' \in 1 .. MaxSetups /\ tries'[setups'] = 0
        BY <2>1, <2>2 DEF MFAInv
  <2>6. \A n \in 1 .. MaxSetups : tries'[n] <= 1 /\ (n > setups' => tries'[n] = 0)
        BY <2>1, <2>2 DEF MFAInv
  <2>7. /\ \A q \in AuthRequests : areq'[q].secret # 0 =>
              /\ Handed(areq'[q].secret, 1) /\ areq'[q].secret # admin'.secret
              /\ \A u \in AuthRequests : areq'[u].secret = areq'[q].secret => u = q
        /\ admin'.secret # 0 => Handed(admin'.secret, 1)
        BY <1>1, <2>3 DEF MFAInv
  <2>8. pendingTOTP' \in 1 .. setups' /\ tries'[pendingTOTP'] = 0
        BY <2>1, <2>2, <2>5
  <2> QED
      BY <2>4, <2>6, <2>7, <2>8 DEF MFAInv, Handed
<1> QED
    BY <1>3, <1>4

LEMMA MFAStep == AuthTypeOK /\ MFAInv /\ [AuthNext]_authVars => MFAInv'
<1> SUFFICES ASSUME AuthTypeOK, MFAInv, [AuthNext]_authVars PROVE MFAInv'
    OBVIOUS
<1>1. /\ areq \in [AuthRequests -> AuthRequest] /\ admin \in Admin
      /\ admin.epoch \in 0 .. MaxEpoch /\ 0 \in 0 .. MaxEpoch
      BY AuthBounds DEF AuthTypeOK, Admin
\* A log-in, an operation that begins, a request that ends.
<1>2. ASSUME NEW r \in AuthRequests, UNCHANGED mfaVars, admin'.secret = admin.secret,
             \/ EndAuth(r)
             \/ \E pc \in {"session", "set"} : GoTo(r, pc)
             \/ \E pc \in {"failed", "success", "admin", "sweep"},
                   op \in Ops \cup {"login", "reset", "disable"},
                   s \in Sessions \cup {NoSession}, e \in 0 .. MaxEpoch :
                       BeginAuth(r, pc, op, s, e)
      PROVE  MFAInv'
  <2>1. Alone(r) /\ areq'[r].secret \in {0, areq[r].secret}
    <3>1. CASE EndAuth(r) \/ \E pc \in {"session", "set"} : GoTo(r, pc)
          BY <1>1, <3>1, AuthStepOf, AuthRows
    <3>2. CASE \E pc \in {"failed", "success", "admin", "sweep"},
                  op \in Ops \cup {"login", "reset", "disable"},
                  s \in Sessions \cup {NoSession}, e \in 0 .. MaxEpoch :
                      BeginAuth(r, pc, op, s, e)
          BY <1>1, <3>2, AuthStepOf
    <3> QED
        BY <1>2, <3>1, <3>2
  <2> QED
      BY <1>2, <2>1, SecretKept
<1>3. ASSUME NEW r \in AuthRequests, NEW right \in BOOLEAN, BeginAdminLogin(r, right)
      PROVE  MFAInv'
  <2>1. UNCHANGED mfaVars /\ admin' = admin
        BY <1>3 DEF BeginAdminLogin, OnlyRequests
  <2>2. PICK pc \in {"failed", "success"}, e \in 0 .. MaxEpoch :
            BeginAuth(r, pc, "login", NoSession, e)
        BY <1>1, <1>3 DEF BeginAdminLogin
  <2> QED
      BY <1>2, <2>1, <2>2
<1>4. ASSUME NEW r \in AuthRequests,
             \/ OnLoginFailed(r) \/ OnLoginSuccess(r)
             \/ \E s \in Sessions : CreateSession(r, s)
             \/ ConsumeTOTPWindow(r) \/ AbandonAuth(r)
             \/ RevokeAllSessions(r) \/ RevokeSession(r)
      PROVE  MFAInv'
  <2>1. UNCHANGED mfaVars
        BY <1>4 DEF OnLoginFailed, OnLoginSuccess, CreateSession, ConsumeTOTPWindow,
                    AbandonAuth, OnlyRequests, RevokeAllSessions, RevokeSession
  <2>2. admin'.secret = admin.secret
        BY <1>1, <1>4 DEF Admin, OnLoginFailed, OnLoginSuccess, CreateSession,
                    ConsumeTOTPWindow, AbandonAuth, OnlyRequests, RevokeAllSessions,
                    RevokeSession
  <2>3. EndAuth(r) \/ \E pc \in {"session", "set"} : GoTo(r, pc)
        BY <1>4 DEF OnLoginFailed, OnLoginSuccess, CreateSession, ConsumeTOTPWindow,
                    AbandonAuth, RevokeAllSessions, RevokeSession
  <2> QED
      BY <1>2, <2>1, <2>2, <2>3
<1>5. ASSUME NEW r \in AuthRequests, NEW s \in Sessions, NEW op \in Ops,
             BeginOperation(r, s, op)
      PROVE  MFAInv'
  <2>1. UNCHANGED mfaVars /\ admin' = admin /\ BeginAuth(r, "admin", op, s, 0)
        BY <1>5 DEF BeginOperation, OnlyRequests
  <2> QED
      BY <1>1, <1>2, <2>1
<1>6. ASSUME NEW r \in AuthRequests, ResetAdminPassword(r) \/ DisableAdmin(r)
      PROVE  MFAInv'
  <2>1. UNCHANGED mfaVars /\ admin'.secret = admin.secret
        BY <1>1, <1>6 DEF ResetAdminPassword, DisableAdmin, NewEpoch, Admin
  <2>2. PICK op \in {"reset", "disable"}, e \in 0 .. MaxEpoch :
            BeginAuth(r, "sweep", op, NoSession, e)
        BY <1>1, <1>6 DEF ResetAdminPassword, DisableAdmin
  <2> QED
      BY <1>2, <2>1, <2>2
<1>7. ASSUME NEW r \in AuthRequests, SetCredentials(r) PROVE MFAInv'
  <2>1. UNCHANGED mfaVars
        BY <1>7 DEF SetCredentials
  <2>2. Alone(r) /\ areq'[r].secret = 0
    <3>1. areq[r] \in AuthRequest
          BY <1>1
    <3> QED
        BY <1>1, <1>7, <3>1 DEF SetCredentials, AuthRequest, Alone
  <2>3. admin'.secret \in {admin.secret, areq[r].secret}
        BY <1>1, <1>7 DEF SetCredentials, NewEpoch, Admin
  <2> QED
      BY <2>1, <2>2, <2>3, SecretStored
\* Steps of no request.
<1>8. ASSUME EnableAdmin \/ ReapSessions \/ AuthTick \/ UNCHANGED authVars
      PROVE  MFAInv'
  <2>1. UNCHANGED mfaVars /\ areq' = areq
        BY <1>8 DEF EnableAdmin, ReapSessions, AuthTick, authVars
  <2>2. admin'.secret = admin.secret
        BY <1>1, <1>8 DEF EnableAdmin, ReapSessions, AuthTick, authVars, Admin
  <2> QED
      BY <2>1, <2>2 DEF MFAInv, Handed, mfaVars
<1>9. ASSUME ForgetTOTP PROVE MFAInv'
      BY <1>9 DEF ForgetTOTP, MFAInv, Handed
<1> QED
    BY <1>3, <1>4, <1>5, <1>6, <1>7, <1>8, <1>9, SecretHandedOut, SecretTaken DEF AuthNext

\* MFAEnable takes a secret from Redis before it verifies the code: at most one code
\* is tried with a secret, by one confirmation, whoever else confirms, sets up again
\* or dies, and the row never has a secret that is still pending or held.
THEOREM SecretsTriedOnce == AuthSpec => []SecretTriedOnce
<1>1. AuthInit => MFAInv
  <2> SUFFICES ASSUME AuthInit PROVE MFAInv
      OBVIOUS
  <2>1. \A r \in AuthRequests : areq[r].secret = 0
        BY AuthRows DEF AuthInit
  <2> QED
      BY <2>1 DEF AuthInit, MFAInv
<1>2. MFAInv => SecretTriedOnce
      BY DEF MFAInv, Handed, SecretTriedOnce
<1> QED
    BY <1>1, <1>2, MFAStep, AuthTypes, PTL DEF AuthSpec

===============================================================================
