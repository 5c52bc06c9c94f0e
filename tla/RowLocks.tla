------------------------------- MODULE RowLocks -------------------------------
(***************************************************************************)
(* The transactions of Licensing statement by statement: what PostgreSQL   *)
(* does with the row locks of cards and licenses at READ COMMITTED when    *)
(* handlers lock them in different orders.                                 *)
(*                                                                         *)
(*   Activate, CardAction            the card, then its licence            *)
(*   LicenseAction (revoke, void)    the licence, then its card            *)
(*   Redeem                          the licence, then the card that the   *)
(*                                   device sent, of whatever kind it is   *)
(*                                                                         *)
(* A statement waits for whoever holds its row and then evaluates its      *)
(* WHERE again on the version that was committed meanwhile.  Nothing of a  *)
(* transaction is seen before its commit: card and lic change there alone. *)
(* Plans, products, devices and seats, which no two transactions lock in   *)
(* different orders, are in Licensing; dates and the plain extension of a  *)
(* licence, which locks one row, are in Expiry.                            *)
(***************************************************************************)
EXTENDS Naturals

CONSTANTS
    Cards, Licenses,
    RowTx,            \* slots for transactions in flight at once
    NULL,
    RenewalCards      \* the cards of kind renewal

ASSUME RowAssumption ==
    /\ NULL \notin Cards \cup Licenses \cup RowTx
    /\ Cards \cap Licenses = {}
    /\ RenewalCards \subseteq Cards

VARIABLES
    card,     \* committed rows of table cards
    lic,      \* committed rows of table licenses
    holder,   \* the transaction that holds each row, NULL if none does
    tx        \* the transaction in each slot

rowVars == <<card, lic, holder, tx>>

CardTerminal == {"revoked", "voided", "depleted"}
LicTerminal == {"revoked", "voided"}

CardRow ==
    [status : {"unused", "active", "frozen", "revoked", "voided", "depleted"},
     license : Licenses \cup {NULL}, activated : BOOLEAN, renewed : Nat]
LicRow ==
    [status : {"none", "active", "frozen", "revoked", "voided"},
     origin : Cards \cup {NULL}]

NewCard == [status |-> "unused", license |-> NULL, activated |-> FALSE, renewed |-> 0]
NoLicence == [status |-> "none", origin |-> NULL]

\* op: the handler; next: the statement it is at; from and to: the statuses a
\* guarded UPDATE was built with, "any" when it only excludes terminal ones;
\* waits: the row it waits for; crow, lrow: its own versions of the rows.
NoTx == [op |-> "none", next |-> "begin", card |-> NULL, lic |-> NULL,
         from |-> "any", to |-> "any", waits |-> NULL,
         crow |-> NewCard, lrow |-> NoLicence]

RowOps == {"activate", "redeem", "card action", "license action"}

TxRecord ==
    [op : RowOps \cup {"none"}, next : {"begin", "card", "license", "commit"},
     card : Cards \cup {NULL}, lic : Licenses \cup {NULL},
     from : {"any", "unused", "active", "frozen"},
     to : {"any", "unused", "active", "frozen", "revoked", "voided"},
     waits : Cards \cup Licenses \cup {NULL}, crow : CardRow, lrow : LicRow]

RowInit ==
    /\ card = [c \in Cards |-> NewCard]
    /\ lic = [l \in Licenses |-> NoLicence]
    /\ holder = [x \in Cards \cup Licenses |-> NULL]
    /\ tx = [t \in RowTx |-> NoTx]

-----------------------------------------------------------------------------
\* The table of the first row a handler locks or updates.
FirstRowByLicense(op, l) ==
    IF op \in {"redeem", "license action", "card action"} /\ l # NULL THEN "license" ELSE "card"
FirstRow(op, l) == IF op \in {"redeem", "license action"} THEN "license" ELSE "card"

\* What a handler reads before its transaction, and the transaction begins.
Begin(t, rec) ==
    /\ tx[t].op = "none"
    /\ tx' = [tx EXCEPT ![t] = [rec EXCEPT !.next = FirstRow(rec.op, rec.lic)]]
    /\ UNCHANGED <<card, lic, holder>>

BeginActivateTx(t) ==
    \E c \in Cards : Begin(t, [NoTx EXCEPT !.op = "activate", !.card = c])

\* Redeem has the licence from the device that signed.
BeginRedeemTx(t) ==
    \E l \in Licenses, c \in Cards :
        /\ lic[l].status # "none"
        /\ Begin(t, [NoTx EXCEPT !.op = "redeem", !.lic = l, !.card = c])

\* CardAction: from, to and the licence come from the card as it was read.
BeginCardActionTx(t) ==
    \E c \in Cards :
        LET read == card[c]
            Act(from, to) ==
                Begin(t, [NoTx EXCEPT !.op = "card action", !.card = c, !.lic = read.license,
                                      !.from = from, !.to = to])
        IN  \/ read.status \in {"active", "unused"} /\ Act(read.status, "frozen")
            \/ /\ read.status = "frozen"
               /\ Act("frozen", IF read.activated THEN "active" ELSE "unused")
            \/ /\ read.status \notin {"revoked", "voided"}
               /\ \E to \in LicTerminal : Act("any", to)

BeginLicenseActionTx(t) ==
    \E l \in Licenses :
        LET read == lic[l]
            Act(from, to) ==
                Begin(t, [NoTx EXCEPT !.op = "license action", !.lic = l, !.card = read.origin,
                                      !.from = from, !.to = to])
        IN  \/ read.status = "active" /\ Act("active", "frozen")
            \/ read.status = "frozen" /\ Act("frozen", "active")
            \/ /\ read.status \in {"active", "frozen"}
               /\ \E to \in LicTerminal : Act("any", to)

-----------------------------------------------------------------------------
\* The row of the statement a transaction is at.
RowWanted(t) == IF tx[t].next = "card" THEN tx[t].card ELSE tx[t].lic
AtStatement(t) == tx[t].next \in {"card", "license"}

\* The WHERE of that statement on the committed version: FOR UPDATE finds the
\* row whatever its status, a guarded UPDATE only in the statuses it names.
Finds(t) ==
    LET q == tx[t]
        status == IF q.next = "card" THEN card[q.card].status ELSE lic[q.lic].status
        terminal == IF q.next = "card" THEN CardTerminal ELSE LicTerminal
        \* CardAction takes the licence along from the status that fits the card's.
        wanted == IF q.op = "card action" /\ q.next = "license"
                  THEN IF q.to = "frozen" THEN "active" ELSE "frozen"
                  ELSE q.from
    IN  \/ q.op \in {"activate", "redeem"}
        \/ q.op \in {"card action", "license action"}
           /\ IF q.from = "any" THEN status \notin terminal ELSE status = wanted

\* What the handler demands of a row it has locked with FOR UPDATE.
Accepts(t) ==
    LET q == tx[t]
    IN  /\ q.op = "activate" /\ q.next = "card" =>
              \/ card[q.card].status = "unused" /\ q.card \notin RenewalCards
              \/ card[q.card].status = "active"
        /\ q.op = "redeem" /\ q.next = "card" =>
              card[q.card].status = "unused" /\ q.card \in RenewalCards
        /\ q.op \in {"activate", "redeem"} /\ q.next = "license" =>
              lic[q.lic].status = "active"

\* The row is somebody else's: the statement waits, if it finds the row at all.
WaitForRow(t) ==
    /\ AtStatement(t)
    /\ tx[t].waits = NULL
    /\ holder[RowWanted(t)] \notin {NULL, t}
    /\ Finds(t)
    /\ tx' = [tx EXCEPT ![t].waits = RowWanted(t)]
    /\ UNCHANGED <<card, lic, holder>>

\* The row is free: the transaction takes it, with the version it finds.
FreeIgnored(t) == AtStatement(t) /\ holder[RowWanted(t)] # t
Free(t) == AtStatement(t) /\ holder[RowWanted(t)] = NULL

\* SELECT ... FOR UPDATE of an unused card, CreateLicense, SetCardActivated; a
\* plan of one use depletes the card at once.
TakeUnusedCard(t) ==
    LET c == tx[t].card
    IN  /\ tx[t].op = "activate" /\ tx[t].next = "card"
        /\ Free(t)
        /\ card[c].status = "unused" /\ c \notin RenewalCards
        /\ \E l \in Licenses, s \in {"active", "depleted"} :
            /\ lic[l].status = "none" /\ holder[l] = NULL
            /\ holder' = [holder EXCEPT ![c] = t, ![l] = t]
            /\ tx' = [tx EXCEPT ![t].next = "commit", ![t].lic = l, ![t].waits = NULL,
                          ![t].crow = [card[c] EXCEPT !.status = s, !.license = l,
                                                      !.activated = TRUE],
                          ![t].lrow = [NoLicence EXCEPT !.status = "active", !.origin = c]]
        /\ UNCHANGED <<card, lic>>

\* An active card leads to its licence.
TakeActiveCard(t) ==
    LET c == tx[t].card
    IN  /\ tx[t].op = "activate" /\ tx[t].next = "card"
        /\ Free(t)
        /\ card[c].status = "active"
        /\ holder' = [holder EXCEPT ![c] = t]
        /\ tx' = [tx EXCEPT ![t].next = "license", ![t].lic = card[c].license,
                            ![t].waits = NULL, ![t].crow = card[c]]
        /\ UNCHANGED <<card, lic>>

\* Redeem's card, a card of CardAction, the origin card of LicenseAction.
TakeCard(t) ==
    LET c == tx[t].card
    IN  /\ tx[t].op # "activate" /\ tx[t].next = "card"
        /\ Free(t) /\ Finds(t) /\ Accepts(t)
        /\ holder' = [holder EXCEPT ![c] = t]
        /\ tx' = [tx EXCEPT
                    ![t].waits = NULL,
                    ![t].next = IF tx[t].op = "card action" /\ tx[t].lic # NULL
                                   /\ holder[tx[t].lic] # t THEN "license" ELSE "commit",
                    ![t].crow = IF tx[t].op = "redeem"
                                THEN [card[c] EXCEPT !.status = "depleted", !.renewed = @ + 1]
                                ELSE [card[c] EXCEPT !.status = tx[t].to]]
        /\ UNCHANGED <<card, lic>>

\* The licence.
TakeLicense(t) ==
    LET l == tx[t].lic
        op == tx[t].op
    IN  /\ tx[t].next = "license"
        /\ Free(t) /\ Finds(t) /\ Accepts(t)
        /\ holder' = [holder EXCEPT ![l] = t]
        /\ tx' = [tx EXCEPT
                    ![t].waits = NULL,
                    ![t].next = IF \/ op = "redeem"
                                   \/ op = "license action" /\ tx[t].from = "any"
                                   \/ op = "card action" /\ holder[tx[t].card] # t
                                THEN "card" ELSE "commit",
                    ![t].lrow = IF op \in {"activate", "redeem"} THEN lic[l] ELSE [lic[l] EXCEPT
                                        !.status = IF op = "card action" /\ tx[t].to = "unused"
                                                   THEN "active" ELSE tx[t].to]]
        /\ UNCHANGED <<card, lic>>

\* Bound: Licenses are the identifiers an instance has.
OutOfLicenses(t) ==
    /\ tx[t].op = "activate" /\ tx[t].next = "card" /\ card[tx[t].card].status = "unused"
    /\ \A l \in Licenses : lic[l].status # "none" \/ holder[l] # NULL

EndTx(t) == /\ holder' = [x \in Cards \cup Licenses |-> IF holder[x] = t THEN NULL ELSE holder[x]]
            /\ tx' = [tx EXCEPT ![t] = NoTx]

\* No row matches, or the handler refuses the one it locked: WithTx rolls back.
\* A statement that starts where nothing matches does not wait for the row.
RollbackForgotten(t) ==
    /\ AtStatement(t)
    /\ ~(Finds(t) /\ Accepts(t))
    /\ tx' = [tx EXCEPT ![t] = NoTx]
    /\ UNCHANGED <<card, lic, holder>>
Rollback(t) ==
    /\ AtStatement(t)
    /\ \/ ~Finds(t) /\ tx[t].waits = NULL
       \/ ~(Finds(t) /\ Accepts(t)) /\ Free(t)
       \/ Free(t) /\ OutOfLicenses(t)
    /\ EndTx(t)
    /\ UNCHANGED <<card, lic>>

CommitTx(t) ==
    /\ tx[t].next = "commit"
    /\ card' = [c \in Cards |-> IF holder[c] = t THEN tx[t].crow ELSE card[c]]
    /\ lic' = [l \in Licenses |-> IF holder[l] = t THEN tx[t].lrow ELSE lic[l]]
    /\ EndTx(t)

WaitsFor(t, u) == tx[t].waits # NULL /\ holder[tx[t].waits] = u

\* A transaction waits for one other at most, so that a set in which each waits for
\* one and is waited for is made of cycles.
Cyclic(ring) ==
    \A t \in ring : (\E u \in ring : WaitsFor(t, u)) /\ (\E u \in ring : WaitsFor(u, t))
InCycle(t) == \E ring \in SUBSET RowTx : t \in ring /\ Cyclic(ring)

\* After deadlock_timeout PostgreSQL aborts one transaction of a cycle.
AbortDeadlock(t) ==
    /\ tx[t].op # "none" /\ InCycle(t)
    /\ EndTx(t)
    /\ UNCHANGED <<card, lic>>

\* The request is cancelled, the replica dies, the connection breaks.
GiveUpTx(t) ==
    /\ tx[t].op # "none"
    /\ EndTx(t)
    /\ UNCHANGED <<card, lic>>

TakeRow(t) ==
    TakeUnusedCard(t) \/ TakeActiveCard(t) \/ TakeCard(t) \/ TakeLicense(t)
BeginTx(t) ==
    \/ BeginActivateTx(t) \/ BeginRedeemTx(t)
    \/ BeginCardActionTx(t) \/ BeginLicenseActionTx(t)

RowNext ==
    \E t \in RowTx :
        \/ BeginTx(t)
        \/ WaitForRow(t) \/ TakeRow(t) \/ Rollback(t)
        \/ CommitTx(t) \/ AbortDeadlock(t) \/ GiveUpTx(t)

\* A handler goes on, and the database looks for deadlocks.  Waiters of one
\* row are served in turn, so that a row that is free again and again is
\* taken: strong fairness.
RowFairness ==
    \A t \in RowTx :
        /\ WF_rowVars(WaitForRow(t)) /\ WF_rowVars(CommitTx(t))
        /\ WF_rowVars(AbortDeadlock(t))
        /\ SF_rowVars(TakeRow(t) \/ Rollback(t))

RowSpec == RowInit /\ [][RowNext]_rowVars /\ RowFairness

-----------------------------------------------------------------------------
RowTypeOK ==
    /\ card \in [Cards -> CardRow]
    /\ lic \in [Licenses -> LicRow]
    /\ holder \in [Cards \cup Licenses -> RowTx \cup {NULL}]
    /\ tx \in [RowTx -> TxRecord]

\* Whatever order the statements of several transactions come in, the rows
\* move as if each transaction were one step of the state machine of domain.go
\* (WithTx, FOR UPDATE, the guarded UPDATEs): what Licensing assumes of them.
RowLedger == INSTANCE CardLedger WITH
    cardStatus <- [c \in Cards |-> card[c].status],
    cardLicense <- [c \in Cards |-> card[c].license],
    cardUser <- [c \in Cards |-> FALSE],
    licStatus <- [l \in Licenses |-> lic[l].status],
    licOrigin <- [l \in Licenses |-> lic[l].origin],
    renewals <- [c \in Cards |-> card[c].renewed]
RowsImplementLedger == RowLedger!Spec

\* A deadlock needs one handler of each order: LicenseAction (adminsvc.go:414) or a
\* Redeem that is given a licence card, against Activate or CardAction.  Two of
\* one order, and two that redeem renewal cards, never deadlock one another.
LicenseFirst(t) ==
    \/ tx[t].op = "license action"
    \/ tx[t].op = "redeem" /\ tx[t].card \notin RenewalCards
CardFirst(t) == tx[t].op \in {"activate", "card action"}
DeadlocksNeedBothOrders ==
    \A ring \in SUBSET RowTx :
        ring # {} /\ Cyclic(ring) => (\E t \in ring : LicenseFirst(t)) /\ (\E t \in ring : CardFirst(t))

\* Every transaction ends, whoever holds what it needs: a deadlock is broken, a
\* lock is released by commit and rollback alike (WithTx).
TransactionsEnd == \A t \in RowTx : tx[t].op # "none" ~> tx[t].op = "none"
=============================================================================
