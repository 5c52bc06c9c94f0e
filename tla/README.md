# Verification of the Vertify / Lumistar licence platform

TLA+ models of the licence server (`src/apps/license-api`) and of its Windows
client, the TLC runs that check them on small instances, and TLAPS proofs of
their main properties. Paths below are relative to
`src/apps/license-api/internal` unless they start with `src/`.

1. [Inventory](#1-inventory) · 2. [Modules](#2-modules) · 3. [Runs](#3-runs) ·
4. [Proofs](#4-proofs) · 5. [Findings](#5-findings) ·
6. [Not modelled](#6-not-modelled) · 7. [Plan](#7-plan)

## 1. Inventory

Stateless API replicas serve devices and end users (`/v1`) and administrators
(`/admin/v1`). All durable state is in PostgreSQL. Redis holds nonces, sequence
numbers, rate windows and the set of online devices, and may be lost at any
time. A handler usually reads a few rows, decides, runs one transaction and
then talks to Redis: what it read first may be stale by the time it writes.
A device holds a key, a counter, a cached lease and the pinned public keys of
the server, in a file.

| Component | Where | State | Operations | What makes it correct |
|---|---|---|---|---|
| Card, licence and device lifecycle | `service/service.go`, `heartbeat.go`, `adminsvc.go`, `usersvc.go`, `store/licenses.go`, `store/users.go` | tables `cards`, `licenses`, `devices`, `renewals` | Activate, Heartbeat, Redeem, Deactivate, CardAction, LicenseAction, UnbindDevice, AdminExtendLicense, UserBindCard, plan and product status | terminal states are final; a card is consumed once, by one party; pointers between rows agree; uses are paid once a machine; revocation reaches devices within a lease |
| Replay gate | `service/heartbeat.go:172-235`, `cache/cache.go:39-70`, `store/licenses.go:385-413` | Redis keys `nonce:`, `seq:`; `devices.last_seq` | checkActivationReplay, checkReplay, ConsumeNonce, CheckSeq, AcceptDeviceSeq, BumpDeviceHeartbeat | a signed message takes effect at most once; numbers rise; `last_seq` never falls |
| Windows SDK | `src/sdk/windows-cpp/src/sdk.cpp`, `store.cpp`, `http.cpp` | `SdkState`, `state.bin`, pinned keys, heartbeat thread | init, activate, redeem, deactivate, start and stop heartbeat, get_state, has_feature | the cached lease verifies after a restart; numbers are not used twice; a deactivated device stays so; stop returns; revocation is felt in time |
| Concurrent seats | `cache/cache.go:106-159` | ZSET `online:lic:<id>` | RenewOnline, DropOnline, OnlineDevices | never more than the limit; a seat of a device that is gone ends |
| End-user accounts | `service/usersvc.go`, `store/users.go`, `httpapi/adminops.go:54-97` | `end_users`, user tokens | UserRegister, UserLogin, UserBindCard, UserChangePassword, UserRecover, disable, enable, reset-machine, extend | one machine for an account; days are neither lost nor given twice; an old password ends |
| Cards, batches, agents' balances | `service/adminsvc.go:39-289`, `store/catalog.go:325-380` | `card_batches`, `agents.balance_cents`, `agent_transactions` | ImportCards, CreateCardBatch, AgentAdjustBalance | a batch is paid for when it exists; the balance is the sum of its transactions and not negative |
| Catalogue | `service/adminsvc.go:482-770`, `store/catalog.go` | `products`, `plans`, `agent_product_grants` | create, status and delete of plans, status of products, grants | a batch is there with all of its cards or not at all; nothing outlives its plan; a used card is not deleted with it |
| Administrators | `service/adminauth.go`, `store/adminstore.go`, `crypto/totp.go` | `admins`, `admin_sessions`, pending TOTP, used TOTP windows | AdminLogin, ResolveSession, MFASetup/Enable/Disable, AdminChangePassword, SetAdminStatus | no session outlives a password change; a pending secret is tried once; a lock-out ends |
| Row locks | `store/catalog.go:16-34`, the transactions of the handlers | locks of rows, uncommitted versions | WithTx, FOR UPDATE, the guarded UPDATEs of Activate, Redeem, CardAction, LicenseAction | a transaction is one step of the lifecycle whatever order the statements come in; it ends; a deadlock is broken |
| Renewal, expiry, worker | `store/licenses.go:240-271`, `service/heartbeat.go:251-363`, `service/adminsvc.go:997-1027`, `src/apps/license-api/cmd/worker/main.go` | `licenses.expires_at`, `license_events`, the date in the lease | ExtendLicense, Redeem, AdminExtendLicense, MarkExpiredLicenseEvents, ReapSessions | no granted day is lost or counted twice; an expired licence gets its event; a device learns a new date |
| Migrations and start-up | `store/store.go:50-125`, `src/apps/license-api/cmd/server`, `cmd/migrate` | `schema_migrations`, an advisory lock, `admins` | Migrate, ensureSchemaMigrations, BootstrapAdmin | each file is applied once and in order; every replica serves in the end |
| Rate limit | `cache/cache.go:72-104`, `httpapi/middleware.go:300-361` | sorted sets in Redis, `api_rate_limits`, thresholds in the memory of every replica | RateLimit, ScopeRateLimiter, handleSetRateLimit | at most the limit in a window, and nobody refused below it; a new threshold is believed in time |
| Bans, notices, versions, risk counters | `service/risk.go`, `cache/cache.go:161-172`, `httpapi/adminops.go` | rows and counters that one statement writes and one reads | Record, Incr | - |
| Cryptography | `crypto/`, `argon2id/` | - | envelope, tokens, card codes, TOTP, hashes | - |
| HTTP layer, configuration, server, key tools, Python SDK, admin web, deployment, vendored Ed25519 | `httpapi/`, `config/`, `src/apps/license-api/cmd/`, `src/sdk/python`, `src/apps/admin-web`, `src/deploy` | - | - | - |

How they interact. Device requests pass the replay gate, then the lifecycle
handlers, then the seats; their leases go to the SDK, which trusts the pinned
keys alone. Administrators act on the same rows through transactions that take
the same row locks, but decide on rows they read before. User accounts consume
the same cards as devices. The catalogue decides what a card gives.

What is hard here: two requests on one card or licence between a read and a
transaction, and two transactions that lock the same rows in different orders; a
Redis effect after the commit; messages that come twice or late while Redis keys
expire, fail or vanish; replicas whose clocks differ, whose memory of a threshold
is old, and which start at once on an empty database; a plan that is deleted while
its cards are made or used; the two threads of the SDK and its file over crashes;
key rotation while a device is off. `PROJECT.json` lists
each of these at its line ("hazards") with the properties that watch it.

## 2. Modules

| Module | Models | State |
|---|---|---|
| `Licensing` | every handler that changes a card, licence or device row | one function for each column, one record for each request in flight |
| `CardLedger` | what the lifecycle promises: the state machine of `domain/domain.go` with one atomic step for each business operation | the columns it is about |
| `Replay` | the replay gate, one device key, several replicas | signed messages, Redis keys with their expiry, `last_seq`, a clock |
| `Client` | the Windows SDK with its two threads, `state.bin`, key rotation, and a summary of the server | SdkState, the two files, a program counter for each thread |
| `Seats` | the concurrent seats of one licence: heartbeats, activations, unbinding and the licence page on the sorted set, through replicas whose clocks differ | the scores, the device rows, the limit, one record for each request in flight, true time |
| `AgentLedger` | the money of agents: batches, adjustments, prices | committed balances, logs and batches, the row lock of each agent, one record for each request in flight |
| `EndUsers` | one user account: registration, login, machine, cards, passwords, an administrator | the row, its expiry, cards, tokens handed out, requests, a clock |
| `AdminAuth` | one administrator: log-in, lock-out, sessions, passwords, MFA, disabling | the row, its sessions, the secrets of MFA, requests, a clock |
| `Catalog` | a product, a plan, and the batches of cards made for it until the plan is deleted | the statuses, the tables, the statement each handler is at |
| `RateLimit` | the sliding window of one address and the threshold replicas believe | the sorted set, the requests let through, the table, what each replica has in memory, true time |
| `RowLocks` | the transactions on cards and licences, statement by statement | committed rows, who holds each row, each transaction with its own versions |
| `Startup` | migrations and the first administrator, by replicas that crash | the journal, the advisory lock, where each replica is |
| `Expiry` | the date of one licence under extensions, time and the worker | the row, the extensions and sweeps in flight, the date the device was told |
| `MCLicensing`, `MCPlans`, `MCReplay`, `MCClient`, `MCSeats` | instances for TLC; MCPlans adds two scenarios of Licensing on cards of their own | - |
| `MCServices`, `MCOperations` | the modules from `AgentLedger` to `RateLimit`, and the last three above, in one run each: they share no state, and a behaviour follows one of them (`focus`) | - |
| `LicensingProofs`, `GateProofs`, `ClientProofs`, `SeatsProofs`, `RowLocksProofs` | theorems about Licensing, Replay, Client, Seats, RowLocks | - |
| `AccountsProofs`, `ServicesProofs` | theorems about EndUsers and AdminAuth; about AgentLedger, Catalog and RateLimit, and the composition MCServices | - |
| `OperationsProofs` | theorems about Startup and Expiry, and the composition MCOperations | - |

**Licensing.** An action is what a handler does between two points at which it
lets go of the database. Activate is BeginActivate (signature, product, card
read), one of FreshActivation, Reactivation and NewBinding (its transaction,
service.go:271-441) and Admission (RenewOnline and the lease). Heartbeat is
BeginHeartbeat (device row), HeartbeatCheck (licence row, which it reads without a
lock) and HeartbeatRenew. Redeem, Deactivate, CardAction, LicenseAction,
UnbindDevice and AdminExtendLicense are a Begin step that remembers the row it
read in the request record (`req[r].status`, `.activated`, `.lic`, `.card`) and a
transaction that uses it. A transaction is one step: it locks the card or the
licence FOR UPDATE and rolls back when a guarded update matches no row. EndRequest
lets any request stop between its steps: a crash, a cancelled context, an
unreachable database or Redis. RowLocks shows that a transaction may be one step. `leaseUntil` and `inactiveSince` are history
variables for the properties.

**Replay.** Deliver, ConsumeNonce, CheckSeq, AcceptDeviceSeq and
BumpDeviceHeartbeat are the statements of checkReplay and the handlers, each a
step of its request; NonceCallFails, SeqCallFails and Flush are the failures of
Redis. The network is the set of signed messages: any of them may be delivered at
any time, again, or never. A request may stay in the gate for at most `Stall`.

**Client.** Each thread runs post_signed, adopt_lease and save_state statement by
statement (ReadSeq, WriteSeq, Serve or Lose, Return, Adopt, Install, Serialize,
Replace). SdkState has no lock, so the steps of the threads interleave; Serialize
and Replace are the write of `state.bin.tmp` and MoveFileEx, and two threads that
save at once may leave a file that does not decrypt. Crash drops everything but
`state.bin`; Start is lumistar_init. A *careful* host stops the heartbeat before
its own signed calls, which `src/docs/sdk-integration.md:71` asks for before a
deactivation; a *careless* one does not. Serve is the server: the device row,
the sequence number, the licence, in the order of heartbeat.go.

**Seats.** A heartbeat is BeginBeat (device row), ReadPlan (its clock and the plan,
heartbeat.go:69-102), RenewOnline (the Lua script, one step, or RenewFails) and
MintLease; an activation is BeginSeatActivate (its transaction), RenewOnline and
MintLease; Deactivate and UnbindDevice are BeginUnbind (the row) and DropOnline (the
set). `online[d]` is the score of a device, 0 for none. The script runs at the clock
of the replica, `seatNow + skew`. A request spends at most MaxStall in its handler.
Licensing keeps the same set as members without scores, for what a seat means to a
licence; Seats has what decides how long one lasts. They share no action: Seats knows
of a licence only that it is good. `seatBy`, `unboundAt`, `ceiling` and `degraded`
are history variables.

**AgentLedger.** A transaction is its statements: InsertBatch (CreateBatch and the
check of the price), UpdateBalance (DeductAgentBalance, TopUpAgentBalance),
InsertAgentTransaction and CommitLedger; RollbackLedger may come at any point. At READ
COMMITTED an UPDATE waits for whoever updated the row before (`rowLock`) and then sees
what that one committed, and nothing of a transaction is seen before its commit, which
is why the committed tables change in CommitLedger alone. BeginBatch remembers the
price as it read it before the transaction.

**EndUsers.** A login is BeginLogin (row, status, password), BindEndUserMachine (its
guarded UPDATE) and MintUserToken, made of the row that was read; changing and
recovering a password are a Begin and SetEndUserPassword; UserBindCard is the token
check and a transaction. `changedAt`, `granted`, `enjoyed` and the password and
binding a token was given for are history. Whose password is right is not modelled: a
request has the password of the row it read.

**AdminAuth.** No handler uses a transaction, so each statement is a step: a log-in is
BeginAdminLogin, OnLoginFailed or OnLoginSuccess, CreateSession; what ends sessions
(AdminChangePassword, MFAEnable, MFADisable, UpdateAgentAccount, SetAdminStatus) is a
change of the row, which begins a new `epoch`, and RevokeAllSessions. A session belongs
to the epoch of the row that its log-in read. ResolveAdmin of a MFASetup hands out the
next secret and leaves it in Redis; MFAEnable is ConsumePendingTOTP (GETDEL),
ConsumeTOTPWindow, which stands for both refusals of a code, SetCredentials and
RevokeAllSessions. `tries`, `endedAt`, `unswept` and `misses` are history.

**Catalog.** Making or importing a batch is BeginBatchTx (plan, product, grant),
InsertBatchRow, one InsertCard after the other and CommitBatch; deleting a plan is
BeginDelete, its two counts, which are outside the transaction, the three DELETEs and
CommitDelete; an activation is LockCard, InsertLicence and CommitActivation. `rows`,
`shares` and `gone` are what a transaction has locked and not committed: a row of the
unique index on `cards.lookup`, the shared lock a foreign key takes on the plan, the
batches it deleted. RollbackCatalog may come at any point.

**RateLimit.** Ask reads the clock of its replica, Admit and TurnAway are the Lua script
at that clock, PassUncounted is a Redis that does not answer. SetRateLimit writes the
table and tells nobody; LoadThreshold reads it when the memory of the replica is older
than ConfigTTL. A request may come with any threshold, so that the window and the
threshold can be followed apart.

**RowLocks.** `tx[t].next` is the table of the next statement; WaitForRow, the Take
actions and Rollback are what becomes of it: it waits, it finds the committed version
and takes the row, or it matches nothing. CommitTx makes the versions of the
transaction the committed ones. AbortDeadlock is PostgreSQL's deadlock detector,
GiveUpTx a cancelled request or a lost connection; a deadlock is a set of transactions of which each waits
for one and is waited for by one (`Cyclic`). Dates, plans and devices are left
out: no two handlers lock them in different orders.

**Startup.** A replica has two connections in Migrate, one for the advisory lock and one
for the transactions: LockConnectionLost takes the first away alone. ApplyFile is the
statements of a file, InsertFile the row of the journal, CommitFile the commit.
CrashReplica loses the machine; its sessions stay until SessionsEnd, and a COMMIT that
was on its way may still happen. ExitReplica is os.Exit: Start comes again.

**Expiry.** BeginCoupon and BeginExtension begin a transaction, whose now() is
`extend[x].began`; CommitCoupon and CommitExtension are ExtendLicense under the lock of
the row. FindExpired and InsertExpired are the two ends of the worker's INSERT ...
SELECT, CutSweep its failure. BeatDated gives the device the date it has by then.
`given`, `used` and `waited` are history.

## 3. Runs

`tlc -config X.cfg M` in this directory. No run stops before its state space is
exhausted. Deadlock is checked except in Replay, Seats, the services and the operations,
which come to rest when their clocks and counters are at the bounds.

| Run | Module, config | Shows |
|---|---|---|
| lifecycle | MCLicensing, Licensing_lifecycle.cfg | types, PointersAgree, LeaseEndsAfterRevocation and the refinement of CardLedger (ImplementsLedger, from which DeadLicenseDeadCard, ExclusiveConsumption and TerminalIsFinal follow), with two administrators that hold stale rows of one card, two device requests, a user account and a clock |
| plans | MCPlans, Licensing_plans.cfg | RenewalCardSpentOnce and OneLicensePerCard with a licence card with a fixed date, a renewal card and plans that are retired; UsesAccounted with three machines on a plan of two uses, unbinding, coming back, extension and product status |
| gate | MCReplay, Replay_gate.cfg | AcceptedOnce while nonces are kept; AcceptedInOrder and NewToDatabase while nothing failed |
| client | MCClient, Client_host.cfg | SavedLeaseVerifies, NumbersStayAhead, StateBinKeepsUp, DeactivatedForGood, RevocationReachesClient and the liveness StopReturns |
| seats | MCSeats, Seats_online.cfg | SeatsWithinLimit and FreshLeaseKeepsSeat while Redis answers; GhostSeatEnds always (the types, SeatTypeOK, are proved) |
| services | MCServices, Services.cfg | ServicesTypeOK; of an administrator SessionsFollowAccount, GuessesBounded and SecretTriedOnce, of agents LedgerChain and BatchesPaid, of a user account OneMachine, DaysAccounted and OldPasswordEnds, of the rate limit LimitApplied, of the catalogue BatchesWhole |
| operations | MCOperations, Operations.cfg | OperationsTypeOK; of the transactions RowsImplementLedger, DeadlocksNeedBothOrders and the liveness TransactionsEnd; of the start SchemaInOrder and the liveness ReplicasServe; of dates DaysAddUp and the liveness ExpirySettles |
| cascade, revocable, rebind, gate_retry, client_rotation | see section 5 | one statement of the documents each, which the code does not keep |

**Bounds.** Two requests of each kind are enough for every race of two stale
reads; the symmetric third adds no new pair. Two licence identifiers let one card
become two licences if the code allowed it. One card and one renewal card
suffice because no operation relates two cards of a kind. OneScenario keeps a
behaviour of MCPlans to the cards, machines and phases of one of its two scenarios,
with one plan retired at a time, and the product retired only while no administrator's
request is in flight: what is retired then is met at every point of the devices'
requests. The clock runs to one
step beyond LeaseTTL after the latest revocation that matters (MaxTime 2 with
LeaseTTL 1). `MaxExpiry` caps the dates an administrator can extend a licence to.
In Replay the clock runs to 6 with a nonce lifetime of 4, so keys expire while a
message is still in its window and after; ShortWithFaults keeps the clock at 2
once Redis failed otherwise than in a sequence call, which is enough because the
only property that is unconditional there does not depend on time. In Client a
careful host has two numbers and two signing keys, a careless one a single number
and key; MaxTime 2 is one more than LeaseTTL. In Seats two devices compete for one
seat through a replica that is slow and one that is fast, both by MaxSkew 1; with
SeatTTL 4 and the clock to 3 a seat given by the slow replica is removed by the fast
one. The 3 * MaxSkew of FreshlyLeased is what the code gives: with 2 * MaxSkew the run
fails. UntilDegraded follows nothing beyond a failure of Redis, after which only
GhostSeatEnds says anything; its proof has no such bound. The services share neither
a row nor a key, so `focus` picks the one that a behaviour of that run follows; each
has two requests in flight, which is where its races are. The lock-out threshold is 2
instead of 5 and locks for one unit; MaxEpoch 1 allows one change of the account per
behaviour, MaxFailed 4 is one more than GuessesBounded admits. MaxSetups 1 lets two
confirmations race for one secret; a setup that replaces a pending secret is covered by
the theorem only. The ledger has one agent
and no agent, up to four requests, prices from 0 to 2 and 5 as the largest balance, so
that charges fail for lack of money and for overflow. A user account has two machines,
one card of one day, one extension, one new password and one machine reset; its clock
runs to 2, when a token of a login before the new password has expired. The
window of the rate limit is 4, one more than makes its properties say something with a
skew and a stall of 1; three requests are let through before the clock reaches 7, when
the first is out of every window; the threshold is 1 or the fallback 2, and a replica
believes it for 2. The catalogue has two batches that share a card code, one of them an
agent's, and two handlers at a time, which is what its races need: a batch, an
activation or a second deletion against a deletion.

In the operations two transactions meet on a licence card, a renewal card and one
licence; a longer cycle of waits is made of the same two orders of locks.
Three replicas, one of which skips the migration, apply three files, the second of
which can be applied twice; the first has the table of the administrators; two faults
let the lock connection break and a replica die while it applies the same file as
another. Two extensions, a renewal card of one day and a worker act on a licence with or
without a date; at most two days are given and two pass, so that a licence expires
before, between and after extensions; the sweep fails at most once.

**Fairness.** In Client the two threads are scheduled (WF of each thread's steps), a
network call returns because WinHTTP times out (Lose is one of the steps of Post), and
hbCv.wait_for comes back after its interval (WF of Wake): sdk.cpp:473 waits without a
predicate, so a notification may be missed and only the interval ends the wait. Nothing
is assumed of the host, the network or the administrator. In RowLocks a handler that
runs goes on, and the database looks for deadlocks after deadlock_timeout (WF); it
serves the waiters of a row in turn, so that a row that is free again and again is taken
(SF of taking it). A transaction is not promised to commit, only to end. In Startup a
process that runs goes on, the Deployment of the Helm chart starts one that ended
again, and the database ends the sessions of a lost machine (WF of Boots); the compose
file has one server and restarts nothing. In Expiry the worker's ticker comes every 30
seconds and a device that runs beats (WF). The other models are safety only: an HTTP
request that is cancelled promises nothing.

**Mutants.** For every property there is a mutated operator beside the real one
(`TakeNonceBriefly`, `CardStillUnchecked`, `BeatNotJoined`, ...) that changes the code
the way a plausible mistake would, and breaks the property in that run.

## 4. Proofs

Checked by TLAPS for every value of the constants that the modules' ASSUMEs
allow: any number of cards, licences, machines, requests and messages, any
bounds. The assumptions that are more than types: the windows of Replay, Seats and
RateLimit exceed the skew and the time a call takes; `LockFor` is positive and an
administrator has finitely many requests in flight; a batch has at least one card; and
values that stand for "none" or "does not decrypt" are not among the others.

| Theorem | Says | Rests on |
|---|---|---|
| `TypeCorrect` | Licensing is type correct | TypeInv: TypeOK and the fields each phase of a request has filled |
| `PointersCorrect`, `DeadStaysDead`, `SpentOnce`, `ConsumedOnce`, `TerminalForGood` | the row properties | RowInv |
| `LedgerImplemented` | Licensing implements CardLedger | RowInv |
| `LeasesEnd` | no lease outlives a revocation by more than LeaseTTL | LeaseInv |
| `GateTypeCorrect`, `LastSeqIsMonotone` | types of the gate, `last_seq` | TypeInv |
| `SeatsTypeCorrect` | types of the seats | SeatType: SeatTypeOK and Requested |
| `SeatLimitHolds`, `FreshSeatKept`, `GhostsEnd` | the concurrent limit holds for fresh leases, a fresh lease keeps its seat, the seat of an unbound device ends | SeatInv |
| `LedgerTypeCorrect`, `LogIsAChain` | types of the agents' money; every log is a chain up to the balance | LedgerInv |
| `BatchesArePaid` | a batch exists exactly if it was paid | PaidInv |
| `StartTypes`, `SchemaStaysInOrder` | types of the start; every file once and in order, no replica that migrates goes on with a part of the schema | StartInv |
| `ExpiryTypes`, `GrantedDaysAddUp` | types of a licence's date; no granted day is lost or counted twice, but for the time an extension waited | ExpiryInv |
| `UsersTypeCorrect`, `AccountOnOneMachine`, `DaysAddUp`, `ReplacedPasswordEnds` | types and the three properties of a user account | UsersInv |
| `MessagesAdmittedOnce` | a message is admitted at most once while Redis answers nonce calls and loses nothing | OnceInv |
| `AdmissionsInOrder`, `DatabaseAgrees` | messages of a device are admitted in order and are new to `last_seq` while Redis has not failed | OrderInv |
| `RateTypes`, `RateLimitHolds` | types of the rate limit; the window is exact up to skew and stall, the threshold up to a replica's memory | RateInv |
| `UsesAreAccounted` | every device row of a uses plan cost one use | UsesInv |
| `OneLicense` | a card makes one licence, if one administrator works at a time | OneInv |
| `ClientTypes`, `SavedLeases`, `RevocationsReach` | types of the client; a cached lease verifies; a revocation arrives a lease later at most | LeaseInv of ClientProofs |
| `StateIsKept`, `NumbersAreNew`, `NoLeaseComesBack` | what a careful host saves is not taken back, its numbers are new, a deactivation holds | CarefulInv |
| `AuthTypes`, `SessionsFollow`, `GuessesAreBounded` | types of an administrator; sessions end with the credentials they rest on; guessing is slow | AuthInv |
| `SecretsTriedOnce` | a secret of MFA is tried once and is in one place at a time | MFAInv |
| `CatalogTypes`, `BatchesAreWhole` | types of the catalogue; batches are whole, a deleted plan leaves nothing | CatalogInv |
| `RowTypes`, `RowsAreLedgerSteps` | types of the rows; the transactions, statement by statement, implement CardLedger | RowsInv |
| `DeadlockOrders` | every deadlock has both orders of locks in it | RowsInv |
| `ServicesAreParts`, `ServicesTyped`, `ServicesSafe` | the specification of the run services implements its five parts; its types and every safety invariant of the run | the parts |
| `OperationsAreParts`, `OperationsTyped`, `OperationsSafe` | the same of the run operations, with the refinement of CardLedger | the parts |

*RowInv.* The row properties are not inductive alone: an administrator's request
acts on what it read. RowInv adds ReadByAdmin, which says what stays true of a
remembered row whatever others do (a licence_id that was read is still there; the
licence of a licence action exists and has its origin), and UserCards (a card
spent by an account is depleted and has no licence). Each step is first shown to be a
step of CardLedger or to leave its columns alone (StepIsLedgerStep); the properties
are then preserved by the six ledger steps instead of thirty handlers.

*LeaseInv.* A lease that will be issued by a request in flight is already
bounded: Pending ties the `until` a request carries to the moment its licence was
last seen active. Without it nothing would bound a lease minted after the
revocation.

*OnceInv.* Young: every request in the gate is at most `Stall` old and came with a
timestamp in the window. Taken: a message behind the nonce check has its nonce
stored for longer than its timestamp can be accepted. Alone: no two requests are
behind the nonce check with one message. The arithmetic that makes it work is the
assumption `ReplayWindow > MaxClockSkew + Stall`, which config.go never checks (its
defaults, 300 s and 120 s, satisfy it with three minutes to spare).

*SeatInv.* The limit counts members of the set, the property counts leases. Covered
ties them: a lease, granted or on its way, ends at most twice the skew after the score
of its device, or is within three skews of its end. It needs Ahead (no score and no
lease lies more than SeatTTL beyond the fastest clock, so a renewal through the
slowest replica covers every older lease) and says nothing of unbound devices, whose
seats are dropped under their leases. Counted is the script's own argument
(AdmissionCounts: the set grows only below the limit that was read). Ghosts
remembers that a heartbeat in flight for an unbound device arrived before the unbinding.

*LedgerInv, PaidInv.* A balance is computed in one step and committed in a later one.
Held says that in between the row is locked by whoever computed it, so the new balance
is still one entry away from the committed one; ChainAppend is the argument for the
log. Ready ties the amount of a request to what its batch costs, Unique says that an
identifier in flight is in no table yet, and Owned that what costs something has an
agent. Without Unique a commit could pay for an old batch a second time.

*UsersInv.* OneClaim speaks of tokens and of the logins that are about to mint one: all
of one binding are of one machine, and of the present binding are of the bound one, so
an open binding has none and may be bound by anybody. LoginsYoung says that a login in
flight with a replaced password read it before the change and is at most UserStall old;
TokensEnd turns that into the last moment of its token.

*StartInv.* The advisory lock is not what it rests on, since it may be lost. Ordered
says that the journal is the files 1 to n; Placed, that a replica is at most at file
n + 1, and exactly there when it is about to commit; Alone, that only one is: the
primary key of `schema_migrations` makes the second wait, and refuses it then.

*ExpiryInv.* DaysAddUp with two facts it does not say: a licence has no date only as
long as it never had one, so that nothing was given or used before (DatedOnce), and no
transaction in flight began after today (BegunBefore). LaterDateAdds is the arithmetic
of ExtendLicense: an extension of a date that has passed begins with the transaction,
and what lies between that and the commit is what `waited` counts.

*UsesInv, OneInv.* Uses are counted against the device rows of a licence (Seen), whose
number changes by one where a row is inserted; the first activation creates the licence
and its first row together, which is why NoRowsYet is needed. OneLicensePerCard is true
because a card with a licence is activated and not unused (InUse). The one step back
to unused is UnfreezeCard, which decides by activated_at as it was read before the
transaction. Thawing says that of an unfreeze in flight the card is still frozen and was
not activated since: nobody but an administrator moves a frozen card. A second
administrator would (section 5), so the theorem has the hypothesis that there is one.

*OrderInv.* No message is dated later than ClockError after its signature (Signed), so
when a number is stored, all older messages expire before it does (Ordered): this is
`SeqTTL > 2 * MaxClockSkew + Stall`, and a message that is still in its window meets
the number. The numbers of heartbeats that will still be written to the database were
admitted (Bumping), so devices.last_seq lags behind Redis and never leads.

*RateInv.* A clock that was read is at most RateSkew ahead of true time and at most
RateStall old (Asked), and so is a score (Scored). Forgotten: whatever has left the set
is out of the window of every clock; a hit that lies in the window keeps the key alive
because hits are in the order of their times. KeptRecent and KeptPossible then bound the
set from both sides, and cardinalities follow. Remembered is the threshold: what differs
from the one in force was replaced after it was read.

*LeaseInv, CarefulInv.* For every host a lease, wherever it is (memory, either file, the
hand of a thread), is under a key pinned beside it and ends LeaseTTL after the revocation
at most (LeasesSound); Shapes says which steps each thread may be at. For a careful host
only one thread works at a time (OneAtWork), which is what lets Careful say that the file
lags behind the memory and the server behind both, unless a number was lost in a crash.

*AuthInv.* A log-in in flight read its row before the change that ended that epoch
(Reads), so a session of an ended epoch either awaits a sweep or was created late by such
a log-in, no later than AuthStall after the change (Outlives). Counted is the argument
for guesses: outside of a lock the failures are below the threshold, and the failed
log-ins not yet counted are among the requests in flight.

*MFAInv.* A pending secret has not been tried; one that a confirmation holds or the row
has was tried once (Handed). So what GETDEL returns is nobody's, and two confirmations
cannot hold one secret; that is why taking it before verifying the code is enough.

*CatalogInv.* What a handler has inserted or deleted without committing is as it found it
and apart from everybody else's (Found, Apart), by the unique index and the row locks. Who
is about to commit DeletePlan has the plan to itself: no batch, no licence and no shared
lock of a foreign key is left (Exclusive), and none can come back once it is gone (Ended).

*RowsInv.* For each transaction: what it set out to do (Intended), what it knows of its
rows whoever else commits (Knows), which rows it holds, read off its next statement
(Holds), and what its own versions of them are (CardVersion, LicenseVersion). Committed
rows are linked (RowsLinked). Every statement before COMMIT is a stutter of the ledger,
and CommitTx is one of its six steps, because a row that is held is as it was found.
DeadlockOrders needs only Holds: who waits holds a row of the other table.

*The compositions.* MCServices and MCOperations follow one part at a time, so each of
their steps is a step of one part and a stutter of the others (ServicesStep,
OperationsStep): the composition implements every part, and what is proved of the parts
holds of what TLC runs. Of Startup only the safety part is claimed, since the fairness of
the run is that of a start that is followed.

Only model-checked is the liveness (StopReturns, TransactionsEnd, ReplicasServe,
ExpirySettles). Out of the prover's reach: liveness under fairness, ENABLED, and induction
over data.

## 5. Findings

Each is a run that TLC ends with a counterexample.

- **cascade**: revoking a card while it is being activated leaves the new licence
  active (adminsvc.go:302 reads the card before its transaction).
- **revocable**: the licence of a one-use card can never be revoked
  (adminsvc.go:417: its origin card is depleted, the transaction rolls back).
- **rebind**: a machine that was unbound activates again with success and stays
  unbound (service.go:379 finds the unbound row).
- **gate_retry**: a second activation of a device within ten replay windows is
  refused, since the SDK signs every activation with 0 (sdk.cpp:330).
- **client_rotation**: a device whose lease lapsed during a key rotation never
  trusts an answer again (sdk.cpp:367).

Seen while modelling, without a run: any refusal of a heartbeat, also RATE_LIMITED, is
reported to the host as REVOKED (sdk.cpp:457; `src/docs/sdk-integration.md:50` keeps
it for licences the server froze or revoked); two administrators can bring a used card back
to `unused` (adminsvc.go:325 decides by a stale activated_at; comment of
OneLicensePerCard); a message admitted by the database fallback is unknown to
Redis and admitted again when Redis is back (heartbeat.go:220);
`src/docs/operations.md:70` says activations skip the nonce check without Redis,
heartbeat.go:183 refuses them; Redeem answers with a lease that has the old
expiry (heartbeat.go:355); keys pinned by the host are stored under a name derived
from the key, and verify_lease looks for the server's name (sdk.cpp:299, 76); the
heartbeat thread reports ACTIVE also when the lease it got did not verify
(sdk.cpp:429); a number that was used and not answered is not saved, so it is used
again after a restart, although sdk.cpp:343 counts on the next one being larger;
after Redis lost its keys sequence numbers are not compared with `last_seq`, since
CheckSeq always answers "known" (cache.go:69; its comment at cache.go:62 says the
caller consults the database then); a log-in in flight across a reset by a super
administrator creates its session after RevokeAllSessions, and a password change in
flight overwrites the reset (adminsvc.go:715 says that all sessions end at once), which
SessionsFollowAccount therefore excepts; failed_attempts is not reset when a lock ends,
so the next failure locks again (adminstore.go:56); agent_transactions are listed by
the start of their transactions, in which order balance_after need not be a chain
(catalog.go:366).

Of the catalogue: a plan that is reactivated between DeletePlan's check and its
transaction is deleted while active (adminsvc.go:606 says it must be retired);
DeletePlan deletes unused cards an agent paid for and refunds nothing; ImportCards
charges nobody; UpdatePlan fills the fields a request leaves out from a row it read
before, and overwrites what was changed meanwhile; TouchLicensesPolicy misses licences
whose activation commits later.

Of locks and dates: a deadlock is answered with an internal error, also to a device,
for instance one that redeems its own licence card while another activates with it;
licenses.go:255 says that ExtendLicense's callers have read the row FOR UPDATE, and
AdminExtendLicense has not; AdminExtendLicense gives a permanent licence a date; two
workers may each insert the event of one expiry, as no index forbids it, although
`src/apps/license-api/cmd/worker/main.go:2` counts on that not happening; a licence
that expires, is renewed and expires again gets no second event.

Of the start and the limits: the CREATE TABLE of ensureSchemaMigrations runs before the
advisory lock, so that of two replicas on an empty database one may exit and start
again; a replica with VFT_SKIP_MIGRATE serves as soon as the administrators' table is
there, possibly with a part of the schema; `/v1/redeem` is counted under the scope
"activate", so the limit an administrator sets for "redeem" has no effect, and
Invalidate, which would tell a replica of a new limit, is called nowhere.

Of administration: a code of MFA is marked as used by MFAEnable (ConsumeTOTPWindow) and
not by AdminLogin (adminauth.go:70); a confirmation with a wrong code needs a new setup;
the status `suspended` of an agent is checked nowhere;
UpdateAgentAccount may rename an account and then refuse the new password; amounts of
money pass through `int64(float*100)` in handleAgentBalance.

## 6. Not modelled

- Cryptography (`crypto/`, `argon2id/`): a signature that verifies was made by the key,
  a hash identifies, a sealed message is read by the server alone.
- Bans, notices, client versions, risk counters, the audit log and agents' data scope:
  one statement writes a row and one reads it; what they refuse is a refusal the
  models allow for anyway (a request may end between any two of its steps).
- Creating products and agents, and the fields of a plan that decide nothing here;
  policy versions, which only tell a client to fetch its features again.
- In Client: expiry by date, pinned keys from the host, the STALE callback and the
  back-off, torn reads of SdkState, requests that reach the server after the client
  gave up on them (their number is lower than the next one's and they are refused).
- The Python SDK: it sends neither a device key nor a signature with its activation,
  which the server refuses (service.go:228, httpapi/client.go:120), so that it never has a lease;
  `src/docs/使用指南.md:419` says not to use it.
- HTTP routing and decoding, configuration, the key tools, the admin web, deployment
  and vendored code: they keep no state of the system. What config.go lets an
  operator set is the constants of the modules.

## 7. Plan

Order: what decides about licences first, then what protects it, then accounts, then
what runs the server.

1. Done: Licensing with CardLedger; Replay; Client; the theorems of section 4.
2. Done: `Seats` with its proofs.
3. Done: `AgentLedger` and `EndUsers` with their proofs, `AdminAuth`.
4. Done: `RowLocks`, shown to implement CardLedger as Licensing does; `Startup` and
   `Expiry` with their proofs; `Catalog`; `RateLimit`.
5. Done: a theorem for every safety and action property of the passing runs, and for the
   specifications the runs services and operations compose.
6. Left: the parts of section 6 that later get a module.
