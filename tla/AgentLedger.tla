------------------------------ MODULE AgentLedger ------------------------------
(***************************************************************************)
(* The money of agents: agents.balance_cents, the log agent_transactions   *)
(* and the card batches an agent pays for.  A transaction is modelled      *)
(* statement by statement: the UPDATE of the agent's row waits for whoever *)
(* updated it before and sees the balance that one committed, and nothing  *)
(* of a transaction is seen before it commits.  A batch is priced by the   *)
(* plan as it was read before the transaction.                             *)
(***************************************************************************)
EXTENDS Integers, Sequences

CONSTANTS
    Agents,
    NoAgent,     \* a batch that belongs to no agent
    LedgerTx,    \* slots for requests in flight
    NoTx,
    Prices,      \* the values an administrator gives price_cents
    Quantities,  \* cards in a batch
    Amounts,     \* adjustments, positive and negative
    MaxCents,    \* 2^63 - 1
    MaxBatches   \* bound on the batches and adjustments that are begun

\* The columns' CHECKs, validatePlan and the limits of CreateCardBatch.
ASSUME LedgerAssumption ==
    /\ NoAgent \notin Agents /\ NoTx \notin LedgerTx
    /\ Prices \subseteq Nat /\ 0 \in Prices
    /\ Quantities \subseteq Nat \ {0} /\ Amounts \subseteq Int \ {0}
    /\ MaxCents \in Nat /\ MaxBatches \in Nat

VARIABLES
    balance,     \* agents.balance_cents
    rowLock,     \* the transaction that holds the row of an agent
    entries,     \* agent_transactions of an agent in the order of their ids
    batches,     \* card_batches
    price,       \* plans.price_cents
    ltx,         \* the request in each slot
    begun        \* how many were begun; also the source of identifiers

ledgerVars == <<balance, rowLock, entries, batches, price, ltx, begun>>

Entry == [amount : Int, after : 0 .. MaxCents, batch : Nat]   \* batch 0: NULL
Batch == [id : Nat \ {0}, agent : Agents \cup {NoAgent}, cost : Nat]
LedgerRequest == [pc : {"idle", "insert", "update", "log", "commit"},
                  agent : Agents \cup {NoAgent},
                  id : Nat,                   \* of the batch, 0 for an adjustment
                  quantity : Nat, unit : Nat, \* unit is the price that was read
                  amount : Int, after : 0 .. MaxCents]
NoLedgerRequest == [pc |-> "idle", agent |-> NoAgent, id |-> 0, quantity |-> 0,
                    unit |-> 0, amount |-> 0, after |-> 0]

LedgerInit ==
    /\ balance = [a \in Agents |-> 0]
    /\ rowLock = [a \in Agents |-> NoTx]
    /\ entries = [a \in Agents |-> <<>>]
    /\ batches = {}
    /\ price = 0   \* the column's default
    /\ ltx = [t \in LedgerTx |-> NoLedgerRequest]
    /\ begun = 0

-----------------------------------------------------------------------------
\* The end of a transaction, either way, lets go of its row.
Release(t) ==
    /\ rowLock' = [a \in Agents |-> IF rowLock[a] = t THEN NoTx ELSE rowLock[a]]
    /\ ltx' = [ltx EXCEPT ![t] = NoLedgerRequest]

RowFreeAlways(a) == TRUE   \* the balance is read and written back
RowFree(a) == rowLock[a] = NoTx

FitsUnchecked(after) == after <= MaxCents   \* without balance_cents >= $1
Fits(after) == after \in 0 .. MaxCents

\* CreateCardBatch has read the plan and made the cards.
BeginBatch(t, a, quantity) ==
    /\ ltx[t].pc = "idle"
    /\ begun < MaxBatches
    /\ begun' = begun + 1
    /\ ltx' = [ltx EXCEPT ![t] =
                  [pc |-> "insert", agent |-> a, id |-> begun + 1, quantity |-> quantity,
                   unit |-> price, amount |-> 0, after |-> 0]]
    /\ UNCHANGED <<balance, rowLock, entries, batches, price>>

\* AgentAdjustBalance has found the agent.
BeginAdjust(t, a, amount) ==
    /\ ltx[t].pc = "idle"
    /\ begun < MaxBatches
    /\ begun' = begun + 1
    /\ ltx' = [ltx EXCEPT ![t] =
                  [pc |-> "update", agent |-> a, id |-> 0, quantity |-> 0,
                   unit |-> 0, amount |-> amount, after |-> 0]]
    /\ UNCHANGED <<balance, rowLock, entries, batches, price>>

\* What a batch costs its agent.
Charge(req) == IF req.agent = NoAgent THEN 0 ELSE req.quantity * req.unit
BatchRow(req) == [id |-> req.id, agent |-> req.agent, cost |-> Charge(req)]

SeenAtOnce(t) == batches \cup {BatchRow(ltx[t])}   \* CreateBatch outside the transaction
SeenAtCommit(t) == batches

\* CreateBatch, and the check that quantity * price fits into 64 bits.
InsertBatch(t) ==
    /\ ltx[t].pc = "insert"
    /\ IF Charge(ltx[t]) = 0
       THEN ltx' = [ltx EXCEPT ![t].pc = "commit"] /\ UNCHANGED rowLock
       ELSE IF ltx[t].quantity > MaxCents \div ltx[t].unit
            THEN Release(t)
            ELSE /\ ltx' = [ltx EXCEPT ![t].pc = "update", ![t].amount = -Charge(ltx[t])]
                 /\ UNCHANGED rowLock
    /\ batches' = SeenAtCommit(t)
    /\ UNCHANGED <<balance, entries, price, begun>>

\* DeductAgentBalance and TopUpAgentBalance: the UPDATE and its WHERE.
UpdateBalance(t) ==
    LET a == ltx[t].agent
        after == balance[a] + ltx[t].amount
    IN  /\ ltx[t].pc = "update"
        /\ RowFree(a)
        /\ IF Fits(after)
           THEN /\ rowLock' = [rowLock EXCEPT ![a] = t]
                /\ ltx' = [ltx EXCEPT ![t].pc = "log", ![t].after = after]
           ELSE Release(t)
        /\ UNCHANGED <<balance, entries, batches, price, begun>>

InsertAgentTransaction(t) ==
    /\ ltx[t].pc = "log"
    /\ ltx' = [ltx EXCEPT ![t].pc = "commit"]
    /\ UNCHANGED <<balance, rowLock, entries, batches, price, begun>>

\* The commit of a transaction: with an amount it updated a balance and logged it.
CommitLedger(t) ==
    LET req == ltx[t]
    IN  /\ req.pc = "commit"
        /\ IF req.amount # 0
           THEN /\ balance' = [balance EXCEPT ![req.agent] = req.after]
                /\ entries' = [entries EXCEPT ![req.agent] =
                      Append(@, [amount |-> req.amount, after |-> req.after,
                                 batch |-> req.id])]
           ELSE UNCHANGED <<balance, entries>>
        /\ batches' = IF req.id # 0 THEN batches \cup {BatchRow(req)} ELSE batches
        /\ Release(t)
        /\ UNCHANGED <<price, begun>>

\* An error, a cancelled context, a crash.
RollbackLedger(t) ==
    /\ ltx[t].pc # "idle"
    /\ Release(t)
    /\ UNCHANGED <<balance, entries, batches, price, begun>>

\* UpdatePlan
SetPrice(p) ==
    /\ price' = p
    /\ UNCHANGED <<balance, rowLock, entries, batches, ltx, begun>>

LedgerNext ==
    \/ \E t \in LedgerTx :
          \/ \E a \in Agents \cup {NoAgent}, q \in Quantities : BeginBatch(t, a, q)
          \/ \E a \in Agents, amount \in Amounts : BeginAdjust(t, a, amount)
          \/ InsertBatch(t)
          \/ UpdateBalance(t)
          \/ InsertAgentTransaction(t)
          \/ CommitLedger(t)
          \/ RollbackLedger(t)
    \/ \E p \in Prices : SetPrice(p)

LedgerSpec == LedgerInit /\ [][LedgerNext]_ledgerVars

-----------------------------------------------------------------------------
LedgerTypeOK ==
    /\ balance \in [Agents -> 0 .. MaxCents]
    /\ rowLock \in [Agents -> LedgerTx \cup {NoTx}]
    /\ entries \in [Agents -> Seq(Entry)]
    /\ batches \subseteq Batch
    /\ price \in Prices
    /\ ltx \in [LedgerTx -> LedgerRequest]
    /\ begun \in Nat

\* The log of an agent is a chain from zero to the balance, whoever tops up,
\* buys and fails at once: balance_after is "交易后余额（对账用）", the balance
\* for reconciliation (0003_agent_balance.sql).  So the balance is the sum of the
\* amounts and was never negative nor beyond 64 bits.
Before(log, i) == IF i = 1 THEN 0 ELSE log[i - 1].after
LedgerChain == \A a \in Agents :
    /\ \A i \in 1 .. Len(entries[a]) :
          entries[a][i].after = Before(entries[a], i) + entries[a][i].amount
    /\ balance[a] = Before(entries[a], Len(entries[a]) + 1)

\* A batch exists exactly if its agent paid for it, once and what it cost; one
\* that costs nothing or has no agent is charged to nobody (adminsvc.go:226).
Paid(b, a, i) == entries[a][i].batch = b.id
BatchesPaid ==
    /\ \A b \in batches :
          /\ b.cost # 0 => \E i \in 1 .. Len(entries[b.agent]) :
                              Paid(b, b.agent, i) /\ entries[b.agent][i].amount = -b.cost
          /\ \A a \in Agents : \A i, j \in 1 .. Len(entries[a]) :
                Paid(b, a, i) => /\ a = b.agent /\ b.cost # 0
                                 /\ Paid(b, a, j) => i = j
    /\ \A a \in Agents : \A i \in 1 .. Len(entries[a]) :
          entries[a][i].batch # 0 => \E b \in batches : Paid(b, a, i)
=============================================================================
