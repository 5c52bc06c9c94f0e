----------------------------- MODULE ServicesProofs -----------------------------
(***************************************************************************)
(* The agents' balances, the catalogue and the rate limit; and the         *)
(* composition MCServices, which follows one service at a time: it         *)
(* implements each of them, with the accounts of AccountsProofs, so what   *)
(* is proved of a part is true of what TLC runs.                           *)
(***************************************************************************)
EXTENDS MCServices, AccountsProofs, SequenceTheorems

-----------------------------------------------------------------------------
(***************************************************************************)
(* The log of every agent is a chain up to the balance, and a batch exists *)
(* exactly if it was paid, for any number of agents and transactions.      *)
(* What the invariant adds: who has updated a balance and not ended holds  *)
(* the row, so the balance it has computed is still one step from the      *)
(* committed one (Held); a request charges what its batch costs (Ready);   *)
(* and identifiers of batches are used once (Unique).                      *)
(***************************************************************************)
LEMMA LedgerBounds ==
    /\ MaxCents \in Nat /\ MaxBatches \in Nat
    /\ 0 \in Prices
    /\ \A p \in Prices : p \in Nat
    /\ \A q \in Quantities : q \in Nat
    /\ \A x \in Amounts : x \in Int /\ x # 0
    /\ NoAgent \notin Agents /\ NoTx \notin LedgerTx
BY LedgerAssumption

\* What a request in a phase carries.
ReadyRequest(q) ==
    /\ q.pc = "idle" => q.id = 0
    /\ q.pc = "insert" => q.id # 0 /\ q.amount = 0
    /\ q.pc \in {"update", "log"} => q.amount # 0
    /\ q.pc = "commit" /\ q.id = 0 => q.amount # 0
    /\ q.pc \in {"update", "log", "commit"} /\ q.id # 0 => q.amount = -Charge(q)
    /\ q.amount # 0 => q.agent \in Agents
Ready == \A t \in LedgerTx : ReadyRequest(ltx[t])

Held == \A t \in LedgerTx :
    ltx[t].pc \in {"log", "commit"} /\ ltx[t].amount # 0 =>
        /\ rowLock[ltx[t].agent] = t
        /\ ltx[t].after = balance[ltx[t].agent] + ltx[t].amount

LedgerInv == LedgerTypeOK /\ Ready /\ Held /\ LedgerChain

-----------------------------------------------------------------------------
LEMMA ChargeTyped ==
    ASSUME NEW q \in LedgerRequest
    PROVE  Charge(q) \in Nat /\ (Charge(q) # 0 => q.agent \in Agents)
<1>1. q.quantity \in Nat /\ q.unit \in Nat /\ q.agent \in Agents \cup {NoAgent}
      BY DEF LedgerRequest
<1>2. q.quantity * q.unit \in Nat
      BY <1>1
<1> QED
    BY <1>1, <1>2 DEF Charge

\* One more entry that starts from the last one prolongs the chain.
LEMMA ChainAppend ==
    ASSUME NEW log \in Seq(Entry), NEW e \in Entry,
           \A i \in 1 .. Len(log) : log[i].after = Before(log, i) + log[i].amount,
           e.after = Before(log, Len(log) + 1) + e.amount
    PROVE  LET new == Append(log, e)
           IN  /\ \A i \in 1 .. Len(new) : new[i].after = Before(new, i) + new[i].amount
               /\ Before(new, Len(new) + 1) = e.after
<1> DEFINE new == Append(log, e)
<1>1. /\ Len(log) \in Nat /\ Len(new) = Len(log) + 1 /\ new[Len(log) + 1] = e
      /\ \A i \in 1 .. Len(log) : new[i] = log[i]
      OBVIOUS
<1>2. \A i \in 1 .. Len(log) + 1 : Before(new, i) = Before(log, i)
      BY <1>1 DEF Before
<1>3. Before(new, Len(new) + 1) = e.after
      BY <1>1 DEF Before
<1>4. ASSUME NEW i \in 1 .. Len(new)
      PROVE  new[i].after = Before(new, i) + new[i].amount
      <2>1. CASE i = Len(log) + 1
            BY <1>1, <1>2, <2>1
      <2>2. CASE i \in 1 .. Len(log)
            BY <1>1, <1>2, <2>2
      <2> QED
          BY <1>1, <2>1, <2>2
<1> QED
    BY <1>3, <1>4

\* A request may be replaced by any other of the type.
LEMMA RequestReplaced ==
    ASSUME LedgerTypeOK, NEW t \in LedgerTx, NEW q \in LedgerRequest,
           ltx' = [ltx EXCEPT ![t] = q]
    PROVE  /\ ltx' \in [LedgerTx -> LedgerRequest]
           /\ ltx'[t] = q
           /\ \A u \in LedgerTx \ {t} : ltx'[u] = ltx[u]
BY DEF LedgerTypeOK

LEMMA ReadyKept ==
    ASSUME LedgerTypeOK, Ready, NEW t \in LedgerTx, NEW q \in LedgerRequest,
           ReadyRequest(q), ltx' = [ltx EXCEPT ![t] = q]
    PROVE  Ready'
<1>1. ltx'[t] = q /\ \A u \in LedgerTx \ {t} : ltx'[u] = ltx[u]
      BY RequestReplaced
<1> QED
    BY <1>1 DEF Ready, ReadyRequest, Charge

LEMMA NoRequestTyped == NoLedgerRequest \in LedgerRequest /\ ReadyRequest(NoLedgerRequest)
BY LedgerBounds DEF NoLedgerRequest, LedgerRequest, ReadyRequest

\* A row that others hold is still held after a transaction lets go of its own.
LEMMA Released ==
    ASSUME LedgerInv, NEW t \in LedgerTx, Release(t), UNCHANGED balance
    PROVE  /\ ltx' \in [LedgerTx -> LedgerRequest]
           /\ rowLock' \in [Agents -> LedgerTx \cup {NoTx}]
           /\ Ready' /\ Held'
<1>1. /\ ltx' \in [LedgerTx -> LedgerRequest] /\ ltx'[t] = NoLedgerRequest
      /\ \A u \in LedgerTx \ {t} : ltx'[u] = ltx[u]
      BY NoRequestTyped, RequestReplaced DEF Release, LedgerInv
<1>2. rowLock' \in [Agents -> LedgerTx \cup {NoTx}]
      BY DEF Release, LedgerInv, LedgerTypeOK
<1>3. Ready'
      BY NoRequestTyped, ReadyKept DEF Release, LedgerInv
<1>4. Held'
      <2> SUFFICES ASSUME NEW u \in LedgerTx,
                          ltx'[u].pc \in {"log", "commit"}, ltx'[u].amount # 0
                   PROVE  /\ rowLock'[ltx'[u].agent] = u
                          /\ ltx'[u].after = balance'[ltx'[u].agent] + ltx'[u].amount
          BY DEF Held
      <2>1. u # t
            BY <1>1 DEF NoLedgerRequest
      <2>2. ltx'[u] = ltx[u] /\ ltx[u].agent \in Agents
            BY <1>1, <2>1 DEF LedgerInv, Ready, ReadyRequest
      <2>3. /\ rowLock[ltx[u].agent] = u
            /\ ltx[u].after = balance[ltx[u].agent] + ltx[u].amount
            BY <2>2 DEF LedgerInv, Held
      <2> QED
          BY <2>1, <2>2, <2>3 DEF Release
<1> QED
    BY <1>1, <1>2, <1>3, <1>4

\* A request may move on while it holds what its new phase asks for.
LEMMA Moved ==
    ASSUME LedgerInv, NEW t \in LedgerTx, NEW q \in LedgerRequest, ReadyRequest(q),
           ltx' = [ltx EXCEPT ![t] = q], UNCHANGED <<balance, rowLock>>,
           q.pc \in {"log", "commit"} /\ q.amount # 0 =>
               /\ rowLock[q.agent] = t
               /\ q.after = balance[q.agent] + q.amount
    PROVE  ltx' \in [LedgerTx -> LedgerRequest] /\ Ready' /\ Held'
<1>1. /\ ltx' \in [LedgerTx -> LedgerRequest] /\ ltx'[t] = q
      /\ \A u \in LedgerTx \ {t} : ltx'[u] = ltx[u]
      BY RequestReplaced DEF LedgerInv
<1>2. Ready'
      BY ReadyKept DEF LedgerInv
<1>3. Held'
      BY <1>1 DEF Held, LedgerInv
<1> QED
    BY <1>1, <1>2, <1>3

LEMMA BeginBatchKeeps ==
    ASSUME LedgerInv, NEW t \in LedgerTx, NEW a \in Agents \cup {NoAgent},
           NEW n \in Quantities, BeginBatch(t, a, n)
    PROVE  LedgerInv'
<1> DEFINE q == [pc |-> "insert", agent |-> a, id |-> begun + 1, quantity |-> n,
                 unit |-> price, amount |-> 0, after |-> 0]
<1>1. begun \in Nat /\ price \in Nat /\ n \in Nat
      BY LedgerBounds DEF LedgerInv, LedgerTypeOK
<1>2. q \in LedgerRequest /\ ReadyRequest(q)
      BY <1>1, LedgerBounds DEF LedgerRequest, ReadyRequest
<1>3. ltx' \in [LedgerTx -> LedgerRequest] /\ Ready' /\ Held'
      BY <1>2, Moved DEF BeginBatch
<1>4. LedgerTypeOK' /\ LedgerChain'
      BY <1>1, <1>3 DEF BeginBatch, LedgerInv, LedgerTypeOK, LedgerChain
<1> QED
    BY <1>3, <1>4 DEF LedgerInv

LEMMA BeginAdjustKeeps ==
    ASSUME LedgerInv, NEW t \in LedgerTx, NEW a \in Agents, NEW amount \in Amounts,
           BeginAdjust(t, a, amount)
    PROVE  LedgerInv'
<1> DEFINE q == [pc |-> "update", agent |-> a, id |-> 0, quantity |-> 0,
                 unit |-> 0, amount |-> amount, after |-> 0]
<1>1. begun \in Nat /\ amount \in Int /\ amount # 0
      BY LedgerBounds DEF LedgerInv, LedgerTypeOK
<1>2. q \in LedgerRequest /\ ReadyRequest(q)
      BY <1>1, LedgerBounds DEF LedgerRequest, ReadyRequest
<1>3. ltx' \in [LedgerTx -> LedgerRequest] /\ Ready' /\ Held'
      BY <1>2, Moved DEF BeginAdjust
<1>4. LedgerTypeOK' /\ LedgerChain'
      BY <1>1, <1>3 DEF BeginAdjust, LedgerInv, LedgerTypeOK, LedgerChain
<1> QED
    BY <1>3, <1>4 DEF LedgerInv

LEMMA InsertBatchKeeps ==
    ASSUME LedgerInv, NEW t \in LedgerTx, InsertBatch(t)
    PROVE  LedgerInv'
<1>a. /\ ltx[t] \in LedgerRequest /\ ltx[t].pc = "insert"
      /\ ltx[t].id # 0 /\ ltx[t].amount = 0
      BY DEF LedgerInv, LedgerTypeOK, InsertBatch, Ready, ReadyRequest
<1>b. Charge(ltx[t]) \in Nat /\ (Charge(ltx[t]) # 0 => ltx[t].agent \in Agents)
      BY <1>a, ChargeTyped
<1>1. /\ ltx' \in [LedgerTx -> LedgerRequest]
      /\ rowLock' \in [Agents -> LedgerTx \cup {NoTx}]
      /\ Ready' /\ Held'
      <2>1. CASE Charge(ltx[t]) = 0
            <3> DEFINE q == [ltx[t] EXCEPT !.pc = "commit"]
            <3>1. q \in LedgerRequest /\ ReadyRequest(q)
                  BY <1>a, <2>1 DEF LedgerRequest, ReadyRequest, Charge
            <3>2. ltx' = [ltx EXCEPT ![t] = q] /\ UNCHANGED <<balance, rowLock>>
                  BY <2>1 DEF InsertBatch
            <3>3. q.amount = 0
                  BY <1>a
            <3> QED
                BY <3>1, <3>2, <3>3, Moved DEF LedgerInv, LedgerTypeOK
      <2>2. CASE Charge(ltx[t]) # 0 /\ ltx[t].quantity > MaxCents \div ltx[t].unit
            BY <2>2, Released DEF InsertBatch
      <2>3. CASE Charge(ltx[t]) # 0 /\ ~(ltx[t].quantity > MaxCents \div ltx[t].unit)
            <3> DEFINE q == [[ltx[t] EXCEPT !.pc = "update"] EXCEPT !.amount = -Charge(ltx[t])]
            <3>a. -Charge(ltx[t]) \in Int /\ -Charge(ltx[t]) # 0
                  BY <1>b, <2>3
            <3>b. /\ q \in LedgerRequest
                  /\ q.pc = "update" /\ q.amount = -Charge(ltx[t])
                  /\ q.id = ltx[t].id /\ q.agent = ltx[t].agent
                  /\ q.quantity = ltx[t].quantity /\ q.unit = ltx[t].unit
                  BY <1>a, <3>a DEF LedgerRequest
            <3>c. Charge(q) = Charge(ltx[t])
                  BY <3>b DEF Charge
            <3>1. q \in LedgerRequest /\ ReadyRequest(q)
                  BY <1>b, <2>3, <3>a, <3>b, <3>c DEF ReadyRequest
            <3>2. ltx' = [ltx EXCEPT ![t] = q] /\ UNCHANGED <<balance, rowLock>>
                  BY <2>3 DEF InsertBatch, LedgerInv, LedgerTypeOK
            <3>3. q.pc = "update"
                  BY <1>a DEF LedgerRequest
            <3> QED
                BY <3>1, <3>2, <3>3, Moved DEF LedgerInv, LedgerTypeOK
      <2> QED
          BY <2>1, <2>2, <2>3
<1>2. LedgerTypeOK' /\ LedgerChain'
      BY <1>1 DEF InsertBatch, SeenAtCommit, LedgerInv, LedgerTypeOK, LedgerChain
<1> QED
    BY <1>1, <1>2 DEF LedgerInv

\* The balance is computed by whoever holds the row.
LEMMA UpdateBalanceKeeps ==
    ASSUME LedgerInv, NEW t \in LedgerTx, UpdateBalance(t)
    PROVE  LedgerInv'
<1> DEFINE a == ltx[t].agent
           after == balance[a] + ltx[t].amount
<1>a. /\ ltx[t] \in LedgerRequest /\ ltx[t].pc = "update" /\ ltx[t].amount # 0
      /\ a \in Agents /\ balance[a] \in Nat /\ ltx[t].amount \in Int
      /\ rowLock[a] = NoTx /\ ReadyRequest(ltx[t])
      BY LedgerBounds DEF LedgerInv, LedgerTypeOK, UpdateBalance, RowFree, Ready,
                          ReadyRequest, LedgerRequest
<1>1. /\ ltx' \in [LedgerTx -> LedgerRequest]
      /\ rowLock' \in [Agents -> LedgerTx \cup {NoTx}]
      /\ Ready' /\ Held'
      <2>1. CASE Fits(after)
            <3> DEFINE q == [[ltx[t] EXCEPT !.pc = "log"] EXCEPT !.after = after]
            <3>a. after \in 0 .. MaxCents
                  BY <2>1 DEF Fits
            <3>1. /\ q \in LedgerRequest
                  /\ q.pc = "log" /\ q.after = after /\ q.amount = ltx[t].amount
                  /\ q.id = ltx[t].id /\ q.agent = a
                  /\ q.quantity = ltx[t].quantity /\ q.unit = ltx[t].unit
                  BY <1>a, <3>a DEF LedgerRequest
            <3>2. ltx' = [ltx EXCEPT ![t] = q] /\ rowLock' = [rowLock EXCEPT ![a] = t]
                     /\ UNCHANGED balance
                  BY <2>1 DEF UpdateBalance, LedgerInv, LedgerTypeOK
            <3>3. ReadyRequest(q)
                  BY <1>a, <3>1 DEF ReadyRequest, Charge
            <3>4. /\ ltx' \in [LedgerTx -> LedgerRequest] /\ ltx'[t] = q
                  /\ \A u \in LedgerTx \ {t} : ltx'[u] = ltx[u]
                  BY <3>1, <3>2, RequestReplaced DEF LedgerInv
            <3>5. Ready'
                  BY <3>1, <3>2, <3>3, ReadyKept DEF LedgerInv
            <3>6. /\ rowLock' \in [Agents -> LedgerTx \cup {NoTx}]
                  /\ rowLock'[a] = t
                  /\ \A b \in Agents \ {a} : rowLock'[b] = rowLock[b]
                  BY <1>a, <3>2 DEF LedgerInv, LedgerTypeOK
            <3>7. ASSUME NEW u \in LedgerTx \ {t},
                         ltx'[u].pc \in {"log", "commit"}, ltx'[u].amount # 0
                  PROVE  /\ rowLock'[ltx'[u].agent] = u
                         /\ ltx'[u].after = balance'[ltx'[u].agent] + ltx'[u].amount
                  <4>1. /\ ltx'[u] = ltx[u] /\ ltx[u].agent \in Agents
                        /\ rowLock[ltx[u].agent] = u
                        /\ ltx[u].after = balance[ltx[u].agent] + ltx[u].amount
                        BY <3>4, <3>7 DEF LedgerInv, Ready, ReadyRequest, Held
                  <4>2. ltx[u].agent # a
                        BY <1>a, <4>1, LedgerBounds
                  <4> QED
                      BY <3>2, <3>6, <4>1, <4>2
            <3>8. Held'
                  BY <3>1, <3>2, <3>4, <3>6, <3>7 DEF Held
            <3> QED
                BY <3>4, <3>5, <3>6, <3>8
      <2>2. CASE ~Fits(after)
            BY <2>2, Released DEF UpdateBalance
      <2> QED
          BY <2>1, <2>2
<1>2. LedgerTypeOK' /\ LedgerChain'
      BY <1>1 DEF UpdateBalance, LedgerInv, LedgerTypeOK, LedgerChain
<1> QED
    BY <1>1, <1>2 DEF LedgerInv

LEMMA InsertAgentTransactionKeeps ==
    ASSUME LedgerInv, NEW t \in LedgerTx, InsertAgentTransaction(t)
    PROVE  LedgerInv'
<1> DEFINE q == [ltx[t] EXCEPT !.pc = "commit"]
<1>a. /\ ltx[t] \in LedgerRequest /\ ltx[t].pc = "log" /\ ReadyRequest(ltx[t])
      BY DEF LedgerInv, LedgerTypeOK, InsertAgentTransaction, Ready
<1>1. /\ q \in LedgerRequest
      /\ q.pc = "commit" /\ q.after = ltx[t].after /\ q.amount = ltx[t].amount
      /\ q.id = ltx[t].id /\ q.agent = ltx[t].agent
      /\ q.quantity = ltx[t].quantity /\ q.unit = ltx[t].unit
      BY <1>a DEF LedgerRequest
<1>2. ReadyRequest(q)
      BY <1>a, <1>1 DEF ReadyRequest, Charge
<1>3. ltx' = [ltx EXCEPT ![t] = q] /\ UNCHANGED <<balance, rowLock>>
      BY DEF InsertAgentTransaction
<1>4. q.amount # 0 => /\ rowLock[q.agent] = t
                      /\ q.after = balance[q.agent] + q.amount
      BY <1>a, <1>1 DEF LedgerInv, Held
<1>5. ltx' \in [LedgerTx -> LedgerRequest] /\ Ready' /\ Held'
      BY <1>1, <1>2, <1>3, <1>4, Moved
<1>6. LedgerTypeOK' /\ LedgerChain'
      BY <1>5 DEF InsertAgentTransaction, LedgerInv, LedgerTypeOK, LedgerChain
<1> QED
    BY <1>5, <1>6 DEF LedgerInv

\* A commit makes the computed balance the balance and the entry the last one.
LEMMA CommitKeeps ==
    ASSUME LedgerInv, NEW t \in LedgerTx, CommitLedger(t)
    PROVE  LedgerInv'
<1> DEFINE q == ltx[t]
           a == q.agent
           e == [amount |-> q.amount, after |-> q.after, batch |-> q.id]
<1>a. /\ q \in LedgerRequest /\ q.pc = "commit" /\ ReadyRequest(q)
      /\ q.amount \in Int /\ q.after \in 0 .. MaxCents /\ q.id \in Nat
      BY DEF LedgerInv, LedgerTypeOK, CommitLedger, Ready, LedgerRequest
<1>b. e \in Entry
      BY <1>a DEF Entry
<1>1. /\ ltx' \in [LedgerTx -> LedgerRequest] /\ ltx'[t] = NoLedgerRequest
      /\ \A u \in LedgerTx \ {t} : ltx'[u] = ltx[u]
      BY NoRequestTyped, RequestReplaced DEF CommitLedger, Release, LedgerInv
<1>2. rowLock' \in [Agents -> LedgerTx \cup {NoTx}]
      BY DEF CommitLedger, Release, LedgerInv, LedgerTypeOK
<1>3. Ready'
      BY NoRequestTyped, ReadyKept DEF CommitLedger, Release, LedgerInv
<1>4. batches' \subseteq Batch
      <2>1. q.id # 0 => BatchRow(q) \in Batch
            BY <1>a, ChargeTyped DEF BatchRow, Batch, LedgerRequest
      <2> QED
          BY <2>1 DEF CommitLedger, LedgerInv, LedgerTypeOK
<1>5. CASE q.amount # 0
      <2>1. /\ a \in Agents /\ rowLock[a] = t /\ q.after = balance[a] + q.amount
            BY <1>a, <1>5 DEF ReadyRequest, LedgerInv, Held
      <2>2. /\ balance' \in [Agents -> 0 .. MaxCents]
            /\ balance'[a] = q.after
            /\ \A b \in Agents \ {a} : balance'[b] = balance[b]
            BY <1>a, <1>5, <2>1 DEF CommitLedger, LedgerInv, LedgerTypeOK
      <2>3. /\ entries' \in [Agents -> Seq(Entry)]
            /\ entries'[a] = Append(entries[a], e)
            /\ \A b \in Agents \ {a} : entries'[b] = entries[b]
            <3>1. entries' = [entries EXCEPT ![a] = Append(entries[a], e)]
                  BY <1>5 DEF CommitLedger
            <3>2. entries \in [Agents -> Seq(Entry)]
                  BY DEF LedgerInv, LedgerTypeOK
            <3>3. Append(entries[a], e) \in Seq(Entry)
                  BY <1>b, <2>1, <3>2
            <3> QED
                BY <2>1, <3>1, <3>2, <3>3
      <2>4. LedgerChain'
            <3>1. /\ entries[a] \in Seq(Entry)
                  /\ \A i \in 1 .. Len(entries[a]) :
                        entries[a][i].after = Before(entries[a], i) + entries[a][i].amount
                  /\ balance[a] = Before(entries[a], Len(entries[a]) + 1)
                  BY <2>1 DEF LedgerInv, LedgerChain, LedgerTypeOK
            <3>2. e.after = Before(entries[a], Len(entries[a]) + 1) + e.amount
                  BY <2>1, <3>1
            <3>3. /\ \A i \in 1 .. Len(entries'[a]) :
                        entries'[a][i].after = Before(entries'[a], i) + entries'[a][i].amount
                  /\ balance'[a] = Before(entries'[a], Len(entries'[a]) + 1)
                  <4>1. LET new == Append(entries[a], e)
                        IN  /\ \A i \in 1 .. Len(new) :
                                  new[i].after = Before(new, i) + new[i].amount
                            /\ Before(new, Len(new) + 1) = e.after
                        BY <1>b, <3>1, <3>2, ChainAppend, Zenon
                  <4> QED
                      BY <2>2, <2>3, <4>1, Zenon
            <3>4. \A b \in Agents \ {a} :
                     /\ \A i \in 1 .. Len(entries'[b]) :
                           entries'[b][i].after = Before(entries'[b], i) + entries'[b][i].amount
                     /\ balance'[b] = Before(entries'[b], Len(entries'[b]) + 1)
                  <4> SUFFICES ASSUME NEW b \in Agents, b # a
                               PROVE  /\ \A i \in 1 .. Len(entries'[b]) :
                                            entries'[b][i].after
                                                = Before(entries'[b], i) + entries'[b][i].amount
                                      /\ balance'[b] = Before(entries'[b], Len(entries'[b]) + 1)
                      BY Zenon
                  <4>1. entries'[b] = entries[b] /\ balance'[b] = balance[b]
                        BY <2>2, <2>3
                  <4>2. /\ \A i \in 1 .. Len(entries[b]) :
                              entries[b][i].after = Before(entries[b], i) + entries[b][i].amount
                        /\ balance[b] = Before(entries[b], Len(entries[b]) + 1)
                        BY Zenon DEF LedgerInv, LedgerChain
                  <4> QED
                      BY <4>1, <4>2, Zenon
            <3> QED
                BY <3>3, <3>4 DEF LedgerChain, Before
      <2>5. Held'
            <3> SUFFICES ASSUME NEW u \in LedgerTx,
                                ltx'[u].pc \in {"log", "commit"}, ltx'[u].amount # 0
                         PROVE  /\ rowLock'[ltx'[u].agent] = u
                                /\ ltx'[u].after = balance'[ltx'[u].agent] + ltx'[u].amount
                BY DEF Held
            <3>1. u # t
                  BY <1>1 DEF NoLedgerRequest
            <3>2. /\ ltx'[u] = ltx[u] /\ ltx[u].agent \in Agents
                  /\ rowLock[ltx[u].agent] = u
                  /\ ltx[u].after = balance[ltx[u].agent] + ltx[u].amount
                  BY <1>1, <3>1 DEF LedgerInv, Ready, ReadyRequest, Held
            <3>3. ltx[u].agent # a
                  BY <2>1, <3>1, <3>2
            <3> QED
                BY <2>2, <3>1, <3>2, <3>3 DEF CommitLedger, Release
      <2>6. LedgerTypeOK'
            BY <1>1, <1>2, <1>4, <2>2, <2>3 DEF CommitLedger, LedgerInv, LedgerTypeOK
      <2> QED
          BY <1>3, <2>4, <2>5, <2>6 DEF LedgerInv
<1>6. CASE q.amount = 0
      <2>1. UNCHANGED <<balance, entries, price, begun>> /\ Release(t)
            BY <1>6 DEF CommitLedger
      <2>2. Held'
            BY <2>1, Released
      <2>3. LedgerTypeOK' /\ LedgerChain'
            BY <1>1, <1>2, <1>4, <2>1 DEF LedgerInv, LedgerTypeOK, LedgerChain
      <2> QED
          BY <1>3, <2>2, <2>3 DEF LedgerInv
<1> QED
    BY <1>5, <1>6

LEMMA RollbackKeeps ==
    ASSUME LedgerInv, NEW t \in LedgerTx, RollbackLedger(t)
    PROVE  LedgerInv'
<1>1. /\ ltx' \in [LedgerTx -> LedgerRequest]
      /\ rowLock' \in [Agents -> LedgerTx \cup {NoTx}]
      /\ Ready' /\ Held'
      BY Released DEF RollbackLedger
<1>2. LedgerTypeOK' /\ LedgerChain'
      BY <1>1 DEF RollbackLedger, LedgerInv, LedgerTypeOK, LedgerChain
<1> QED
    BY <1>1, <1>2 DEF LedgerInv

-----------------------------------------------------------------------------
LEMMA LedgerInitially == LedgerInit => LedgerInv
<1> SUFFICES ASSUME LedgerInit PROVE LedgerInv
    OBVIOUS
<1>1. LedgerTypeOK
      BY LedgerBounds, NoRequestTyped DEF LedgerInit, LedgerTypeOK
<1>2. Ready /\ Held
      BY NoRequestTyped DEF LedgerInit, Ready, Held, NoLedgerRequest
<1>3. LedgerChain
      <2> SUFFICES ASSUME NEW a \in Agents
                   PROVE  /\ \A i \in 1 .. Len(entries[a]) :
                                entries[a][i].after = Before(entries[a], i) + entries[a][i].amount
                          /\ balance[a] = Before(entries[a], Len(entries[a]) + 1)
          BY DEF LedgerChain
      <2>1. balance[a] = 0 /\ entries[a] = << >>
            BY DEF LedgerInit
      <2>2. Len(entries[a]) = 0
            BY <2>1
      <2> QED
          BY <2>1, <2>2 DEF Before
<1> QED
    BY <1>1, <1>2, <1>3 DEF LedgerInv

LEMMA LedgerInvStep == LedgerInv /\ [LedgerNext]_ledgerVars => LedgerInv'
<1> SUFFICES ASSUME LedgerInv, [LedgerNext]_ledgerVars PROVE LedgerInv'
    OBVIOUS
<1>1. ASSUME NEW p \in Prices, SetPrice(p) PROVE LedgerInv'
      BY <1>1 DEF SetPrice, LedgerInv, LedgerTypeOK, Ready, ReadyRequest, Charge, Held,
                  LedgerChain
<1>2. CASE UNCHANGED ledgerVars
      BY <1>2 DEF ledgerVars, LedgerInv, LedgerTypeOK, Ready, ReadyRequest, Charge, Held,
                  LedgerChain
<1> QED
    BY <1>1, <1>2, BeginBatchKeeps, BeginAdjustKeeps, InsertBatchKeeps, UpdateBalanceKeeps,
       InsertAgentTransactionKeeps, CommitKeeps, RollbackKeeps DEF LedgerNext

\* Type correctness: no balance is ever negative or beyond 64 bits, whoever tops up
\* and buys at once (0003_agent_balance.sql, CHECK of balance_cents).
THEOREM LedgerTypeCorrect == LedgerSpec => []LedgerTypeOK
<1>1. LedgerInv => LedgerTypeOK
      BY DEF LedgerInv
<1> QED
    BY <1>1, LedgerInitially, LedgerInvStep, PTL DEF LedgerSpec

\* The log of every agent is a chain from zero to the balance.
THEOREM LogIsAChain == LedgerSpec => []LedgerChain
<1>1. LedgerInv => LedgerChain
      BY DEF LedgerInv
<1> QED
    BY <1>1, LedgerInitially, LedgerInvStep, PTL DEF LedgerSpec

-----------------------------------------------------------------------------
\* No identifier of a batch is used twice, in flight or committed.
Unique ==
    /\ \A t \in LedgerTx : ltx[t].id <= begun
    /\ \A t, u \in LedgerTx : t # u /\ ltx[t].id # 0 => ltx[t].id # ltx[u].id
    /\ \A b \in batches : b.id <= begun
    /\ \A a \in Agents : \A i \in 1 .. Len(entries[a]) : entries[a][i].batch <= begun
    /\ \A t \in LedgerTx : ltx[t].id # 0 =>
          /\ \A b \in batches : b.id # ltx[t].id
          /\ \A a \in Agents : \A i \in 1 .. Len(entries[a]) :
                entries[a][i].batch # ltx[t].id

\* What costs something was charged to somebody.
Owned == \A b \in batches : b.cost # 0 => b.agent \in Agents

PaidInv == LedgerInv /\ Unique /\ Owned /\ BatchesPaid

LEMMA EntriesTyped ==
    ASSUME LedgerTypeOK, NEW a \in Agents, NEW i \in 1 .. Len(entries[a])
    PROVE  entries[a][i].batch \in Nat
<1>1. entries[a] \in Seq(Entry)
      BY DEF LedgerTypeOK
<1>2. entries[a][i] \in Entry
      BY <1>1
<1> QED
    BY <1>2 DEF Entry

\* Between its begin and its end a request changes no committed row.
NothingCommitted ==
    /\ UNCHANGED <<batches, entries, begun>>
    /\ \A u \in LedgerTx : ltx'[u].id \in {0, ltx[u].id}

LEMMA NothingCommittedKeeps ==
    ASSUME PaidInv, NothingCommitted
    PROVE  Unique' /\ Owned' /\ BatchesPaid'
<1>1. \A u \in LedgerTx : ltx[u].id \in Nat
      BY DEF PaidInv, LedgerInv, LedgerTypeOK, LedgerRequest
<1>2. begun \in Nat
      BY DEF PaidInv, LedgerInv, LedgerTypeOK
<1>3. Unique'
      BY <1>1, <1>2 DEF PaidInv, Unique, NothingCommitted
<1>4. BatchesPaid'
      BY DEF PaidInv, BatchesPaid, Paid, NothingCommitted
<1>5. Owned'
      BY DEF PaidInv, Owned, NothingCommitted
<1> QED
    BY <1>3, <1>4, <1>5

LEMMA InnerStepCommitsNothing ==
    ASSUME PaidInv, NEW t \in LedgerTx,
           \/ InsertBatch(t)
           \/ UpdateBalance(t)
           \/ InsertAgentTransaction(t)
           \/ RollbackLedger(t)
    PROVE  NothingCommitted
<1>a. ltx \in [LedgerTx -> LedgerRequest]
      BY DEF PaidInv, LedgerInv, LedgerTypeOK
<1>b. Release(t) => \A u \in LedgerTx : ltx'[u].id \in {0, ltx[u].id}
      BY <1>a DEF Release, NoLedgerRequest
<1>1. CASE InsertBatch(t)
      BY <1>a, <1>b, <1>1 DEF InsertBatch, SeenAtCommit, NothingCommitted, LedgerRequest
<1>2. CASE UpdateBalance(t)
      BY <1>a, <1>b, <1>2 DEF UpdateBalance, NothingCommitted, LedgerRequest
<1>3. CASE InsertAgentTransaction(t)
      BY <1>a, <1>3 DEF InsertAgentTransaction, NothingCommitted, LedgerRequest
<1>4. CASE RollbackLedger(t)
      BY <1>b, <1>4 DEF RollbackLedger, NothingCommitted
<1> QED
    BY <1>1, <1>2, <1>3, <1>4

LEMMA BeginCommitsNothing ==
    ASSUME PaidInv, NEW t \in LedgerTx, NEW q \in LedgerRequest, q.id \in {0, begun + 1},
           ltx' = [ltx EXCEPT ![t] = q], begun' = begun + 1, UNCHANGED <<batches, entries>>
    PROVE  Unique' /\ Owned' /\ BatchesPaid'
<1>1. /\ ltx'[t] = q
      /\ \A u \in LedgerTx \ {t} : ltx'[u] = ltx[u]
      BY RequestReplaced DEF PaidInv, LedgerInv
<1>2. begun \in Nat /\ \A u \in LedgerTx : ltx[u].id \in Nat /\ ltx[u].id <= begun
      BY DEF PaidInv, LedgerInv, LedgerTypeOK, LedgerRequest, Unique
<1>3. \A b \in batches : b.id \in Nat /\ b.id <= begun
      BY DEF PaidInv, LedgerInv, LedgerTypeOK, Batch, Unique
<1>4. \A a \in Agents : \A i \in 1 .. Len(entries[a]) :
         entries[a][i].batch \in Nat /\ entries[a][i].batch <= begun
      BY EntriesTyped DEF PaidInv, LedgerInv, Unique
<1>5. Unique'
      BY <1>1, <1>2, <1>3, <1>4 DEF PaidInv, Unique
<1>6. BatchesPaid' /\ Owned'
      BY DEF PaidInv, BatchesPaid, Paid, Owned
<1> QED
    BY <1>5, <1>6

\* A commit adds its batch and the entry that pays for it, or neither.
LEMMA CommitPays ==
    ASSUME PaidInv, NEW t \in LedgerTx, CommitLedger(t)
    PROVE  Unique' /\ Owned' /\ BatchesPaid'
<1> DEFINE q == ltx[t]
           a == q.agent
           e == [amount |-> q.amount, after |-> q.after, batch |-> q.id]
           n == Len(entries[a]) + 1
<1>a. /\ q \in LedgerRequest /\ q.pc = "commit" /\ ReadyRequest(q)
      /\ q.amount \in Int /\ q.id \in Nat /\ q.id <= begun /\ begun \in Nat
      BY DEF PaidInv, LedgerInv, LedgerTypeOK, CommitLedger, Ready, LedgerRequest, Unique
<1>b. Charge(q) \in Nat /\ (q.amount # 0 => a \in Agents)
      BY <1>a, ChargeTyped DEF ReadyRequest
<1>c. /\ BatchRow(q).id = q.id /\ BatchRow(q).agent = a /\ BatchRow(q).cost = Charge(q)
      /\ q.id # 0 => Charge(q) = -q.amount
      BY <1>a, <1>b DEF BatchRow, ReadyRequest
<1>d. /\ \A u \in LedgerTx : ltx'[u].id \in {0, ltx[u].id}
      /\ ltx'[t].id = 0
      BY DEF CommitLedger, Release, NoLedgerRequest, PaidInv, LedgerInv, LedgerTypeOK
<1>e. /\ begun' = begun
      /\ \A b \in batches' : b \in batches \/ (q.id # 0 /\ b = BatchRow(q))
      /\ batches \subseteq batches'
      /\ q.id # 0 => BatchRow(q) \in batches'
      BY DEF CommitLedger
\* What becomes of the logs.
<1>f. /\ \A c \in Agents : \A i \in 1 .. Len(entries[c]) :
            i \in 1 .. Len(entries'[c]) /\ entries'[c][i] = entries[c][i]
      /\ \A c \in Agents : \A i \in 1 .. Len(entries'[c]) :
            i \in 1 .. Len(entries[c])
               \/ (q.amount # 0 /\ c = a /\ i = n /\ entries'[c][i] = e)
      /\ q.amount # 0 => n \in 1 .. Len(entries'[a]) /\ entries'[a][n] = e
      <2>1. CASE q.amount = 0
            BY <2>1 DEF CommitLedger
      <2>2. CASE q.amount # 0
            <3>1. entries' = [entries EXCEPT ![a] = Append(entries[a], e)]
                  BY <2>2 DEF CommitLedger
            <3>2. entries \in [Agents -> Seq(Entry)] /\ a \in Agents
                  BY <1>b, <2>2 DEF PaidInv, LedgerInv, LedgerTypeOK
            <3>3. /\ entries'[a] = Append(entries[a], e)
                  /\ \A c \in Agents \ {a} : entries'[c] = entries[c]
                  BY <3>1, <3>2
            <3>4. /\ entries[a] \in Seq(Entry) /\ Len(entries[a]) \in Nat
                  /\ Len(entries'[a]) = n /\ entries'[a][n] = e
                  /\ \A i \in 1 .. Len(entries[a]) : entries'[a][i] = entries[a][i]
                  BY <3>2, <3>3
            <3>5. \A c \in Agents : Len(entries[c]) \in Nat
                  BY <3>2
            <3>6. n = Len(entries[a]) + 1 /\ n \in 1 .. Len(entries'[a])
                  BY <3>4
            <3> HIDE DEF n, e, a, q
            <3>7. \A c \in Agents : \A i \in 1 .. Len(entries[c]) :
                     i \in 1 .. Len(entries'[c]) /\ entries'[c][i] = entries[c][i]
                  <4>1. \A i \in 1 .. Len(entries[a]) :
                           i \in 1 .. Len(entries'[a]) /\ entries'[a][i] = entries[a][i]
                        BY <3>4, <3>6
                  <4> QED
                      BY <3>3, <4>1
            <3>8. \A c \in Agents : \A i \in 1 .. Len(entries'[c]) :
                     i \in 1 .. Len(entries[c]) \/ (c = a /\ i = n)
                  <4>1. \A i \in 1 .. Len(entries'[a]) : i \in 1 .. Len(entries[a]) \/ i = n
                        BY <3>4, <3>6
                  <4> QED
                      BY <3>3, <4>1
            <3> QED
                BY <2>2, <3>4, <3>6, <3>7, <3>8
      <2> QED
          BY <2>1, <2>2
<1>g. e.batch = q.id /\ e.amount = q.amount
      OBVIOUS
<1>h. /\ \A u \in LedgerTx \ {t} : ltx[u].id # 0 => ltx[u].id # q.id
      /\ q.id # 0 =>
            /\ \A b \in batches : b.id # q.id
            /\ \A c \in Agents : \A i \in 1 .. Len(entries[c]) : entries[c][i].batch # q.id
      BY DEF PaidInv, Unique
<1>i. /\ \A b \in batches : b.id # 0
      /\ q.id # 0 /\ Charge(q) # 0 => a \in Agents /\ q.amount # 0
      BY <1>a, <1>b, <1>c, ChargeTyped DEF PaidInv, LedgerInv, LedgerTypeOK, Batch
<1> DEFINE new == BatchRow(q)
           cost == Charge(q)
<1>j. new.id = q.id /\ new.agent = a /\ new.cost = cost /\ (q.id # 0 => cost = -q.amount)
      BY <1>c
<1>k. /\ \A b \in batches' : b \in batches \/ (q.id # 0 /\ b = new)
      /\ q.id # 0 => new \in batches'
      BY <1>e
<1>l. q.id # 0 /\ cost # 0 => a \in Agents /\ q.amount # 0
      BY <1>i
<1> HIDE DEF q, e, n, a, new, cost
<1>1. Unique'
      <2>1. \A u \in LedgerTx : ltx'[u].id <= begun'
            BY <1>a, <1>d, <1>e DEF PaidInv, Unique
      <2>2. \A u, v \in LedgerTx : u # v /\ ltx'[u].id # 0 => ltx'[u].id # ltx'[v].id
            BY <1>d DEF PaidInv, Unique
      <2>3. \A b \in batches' : b.id <= begun'
            BY <1>a, <1>e, <1>j, <1>k DEF PaidInv, Unique
      <2>4. \A c \in Agents : \A i \in 1 .. Len(entries'[c]) : entries'[c][i].batch <= begun'
            BY <1>a, <1>e, <1>f, <1>g DEF PaidInv, Unique
      <2>5. ASSUME NEW u \in LedgerTx, ltx'[u].id # 0
            PROVE  /\ \A b \in batches' : b.id # ltx'[u].id
                   /\ \A c \in Agents : \A i \in 1 .. Len(entries'[c]) :
                         entries'[c][i].batch # ltx'[u].id
            <3>1. u # t /\ ltx'[u].id = ltx[u].id /\ ltx[u].id # q.id
                  BY <1>d, <1>h, <2>5
            <3>2. \A b \in batches' : b.id # ltx'[u].id
                  BY <1>j, <1>k, <2>5, <3>1 DEF PaidInv, Unique
            <3>3. ASSUME NEW c \in Agents, NEW i \in 1 .. Len(entries'[c])
                  PROVE  entries'[c][i].batch # ltx'[u].id
                  BY <1>f, <1>g, <2>5, <3>1, <3>3 DEF PaidInv, Unique
            <3> QED
                BY <3>2, <3>3
      <2> QED
          BY <2>1, <2>2, <2>3, <2>4, <2>5 DEF Unique
<1>2. Owned'
      BY <1>j, <1>k, <1>l DEF Owned, PaidInv
<1>3. ASSUME NEW b \in batches', b.cost # 0
      PROVE  \E i \in 1 .. Len(entries'[b.agent]) :
                 entries'[b.agent][i].batch = b.id /\ entries'[b.agent][i].amount = -b.cost
      <2>1. CASE b \in batches
            <3>1. PICK i \in 1 .. Len(entries[b.agent]) :
                      entries[b.agent][i].batch = b.id /\ entries[b.agent][i].amount = -b.cost
                  BY <1>3, <2>1 DEF PaidInv, BatchesPaid, Paid
            <3>2. b.agent \in Agents
                  BY <1>3, <2>1 DEF PaidInv, Owned
            <3> QED
                BY <1>f, <3>1, <3>2
      <2>2. CASE q.id # 0 /\ b = new
            <3>1. -b.cost = q.amount
                  BY <1>a, <1>b, <1>j, <2>2
            <3> QED
                BY <1>3, <1>f, <1>g, <1>j, <1>l, <2>2, <3>1
      <2> QED
          BY <1>k, <2>1, <2>2
<1>4. ASSUME NEW b \in batches', NEW c \in Agents,
             NEW i \in 1 .. Len(entries'[c]), entries'[c][i].batch = b.id
      PROVE  /\ c = b.agent /\ b.cost # 0
             /\ \A j \in 1 .. Len(entries'[c]) : entries'[c][j].batch = b.id => i = j
      <2>1. CASE b \in batches
            <3>1. ASSUME NEW j \in 1 .. Len(entries'[c]), entries'[c][j].batch = b.id
                  PROVE  j \in 1 .. Len(entries[c]) /\ entries[c][j].batch = b.id
                  BY <1>f, <1>g, <1>h, <1>i, <2>1, <3>1
            <3>2. i \in 1 .. Len(entries[c]) /\ entries[c][i].batch = b.id
                  BY <1>4, <3>1
            <3>3. /\ c = b.agent /\ b.cost # 0
                  /\ \A j \in 1 .. Len(entries[c]) : entries[c][j].batch = b.id => i = j
                  BY <2>1, <3>2 DEF PaidInv, BatchesPaid, Paid
            <3> QED
                BY <3>1, <3>3
      <2>2. CASE q.id # 0 /\ b = new
            <3>1. ASSUME NEW j \in 1 .. Len(entries'[c]), entries'[c][j].batch = b.id
                  PROVE  q.amount # 0 /\ c = a /\ j = n
                  BY <1>f, <1>h, <1>j, <2>2, <3>1
            <3>2. q.amount # 0 /\ c = a /\ i = n
                  BY <1>4, <3>1
            <3>3. b.cost # 0
                  BY <1>a, <1>j, <2>2, <3>2
            <3> QED
                BY <1>j, <2>2, <3>1, <3>2, <3>3
      <2> QED
          BY <1>k, <2>1, <2>2
<1>5. ASSUME NEW c \in Agents, NEW i \in 1 .. Len(entries'[c]), entries'[c][i].batch # 0
      PROVE  \E b \in batches' : entries'[c][i].batch = b.id
      <2>1. CASE i \in 1 .. Len(entries[c])
            BY <1>5, <1>e, <1>f, <2>1 DEF PaidInv, BatchesPaid, Paid
      <2>2. CASE entries'[c][i] = e
            BY <1>5, <1>g, <1>j, <1>k, <2>2
      <2> QED
          BY <1>f, <2>1, <2>2
<1>6. BatchesPaid'
      BY <1>3, <1>4, <1>5 DEF BatchesPaid, Paid
<1> QED
    BY <1>1, <1>2, <1>6

LEMMA PaidInitially == LedgerInit => PaidInv
<1> SUFFICES ASSUME LedgerInit PROVE PaidInv
    OBVIOUS
<1>1. /\ \A a \in Agents : entries[a] = << >>
      /\ batches = {} /\ begun = 0
      /\ \A t \in LedgerTx : ltx[t].id = 0
      BY DEF LedgerInit, NoLedgerRequest
<1>2. ASSUME NEW a \in Agents PROVE Len(entries[a]) = 0
      <2>1. entries[a] = << >>
            BY <1>1
      <2> QED
          BY <2>1
<1> QED
    BY <1>1, <1>2, LedgerInitially DEF PaidInv, Unique, Owned, BatchesPaid

LEMMA PaidStep == PaidInv /\ [LedgerNext]_ledgerVars => PaidInv'
<1> SUFFICES ASSUME PaidInv, [LedgerNext]_ledgerVars PROVE PaidInv'
    OBVIOUS
<1>1. LedgerInv'
      BY LedgerInvStep DEF PaidInv
<1>2. Unique' /\ Owned' /\ BatchesPaid'
      <2>1. ASSUME NEW t \in LedgerTx, NEW a \in Agents \cup {NoAgent},
                   NEW k \in Quantities, BeginBatch(t, a, k)
            PROVE  Unique' /\ Owned' /\ BatchesPaid'
            <3> DEFINE q == [pc |-> "insert", agent |-> a, id |-> begun + 1, quantity |-> k,
                             unit |-> price, amount |-> 0, after |-> 0]
            <3>1. begun \in Nat /\ price \in Nat /\ k \in Nat
                  BY LedgerBounds DEF PaidInv, LedgerInv, LedgerTypeOK
            <3>2. q \in LedgerRequest /\ q.id = begun + 1
                  BY <3>1, LedgerBounds DEF LedgerRequest
            <3> QED
                BY <2>1, <3>2, BeginCommitsNothing DEF BeginBatch
      <2>2. ASSUME NEW t \in LedgerTx, NEW a \in Agents, NEW amount \in Amounts,
                   BeginAdjust(t, a, amount)
            PROVE  Unique' /\ Owned' /\ BatchesPaid'
            <3> DEFINE q == [pc |-> "update", agent |-> a, id |-> 0, quantity |-> 0,
                             unit |-> 0, amount |-> amount, after |-> 0]
            <3>1. q \in LedgerRequest /\ q.id = 0
                  BY LedgerBounds DEF LedgerRequest
            <3> QED
                BY <2>2, <3>1, BeginCommitsNothing DEF BeginAdjust
      <2>3. ASSUME \/ \E p \in Prices : SetPrice(p)
                   \/ UNCHANGED ledgerVars
            PROVE  NothingCommitted
            BY <2>3 DEF SetPrice, ledgerVars, NothingCommitted
      <2> QED
          BY <2>1, <2>2, <2>3, CommitPays, InnerStepCommitsNothing, NothingCommittedKeeps
          DEF LedgerNext
<1> QED
    BY <1>1, <1>2 DEF PaidInv

\* A batch exists exactly if its agent was charged for it, once and what it cost.
THEOREM BatchesArePaid == LedgerSpec => []BatchesPaid
<1>1. PaidInv => BatchesPaid
      BY DEF PaidInv
<1> QED
    BY <1>1, PaidInitially, PaidStep, PTL DEF LedgerSpec

-----------------------------------------------------------------------------
(***************************************************************************)
(* Batches and plans: a batch is whole and a deleted plan leaves nothing.  *)
(* What the invariant adds: what a handler has inserted, deleted or locked *)
(* is as it found it and apart from the rows of every other (Found,        *)
(* Apart); who is about to commit the deletion of the plan has it to       *)
(* itself and leaves no row behind (Exclusive); and nobody refers to a     *)
(* plan that is gone (Ended).                                              *)
(***************************************************************************)
\* The handler in slot t at its commit of a deletion.
Deleting(t) == work[t].op = "delete" /\ work[t].next = "commit"

\* What a handler carries.
Carries(w) ==
    /\ w.op = "none" => w = Idle
    /\ w.op = "batch" => /\ w.batch \in Batches /\ w.rows \subseteq Contents[w.batch]
                         /\ w.next \in {"batch row", "card rows", "commit"}
                         /\ w.next # "batch row" => w.shares
                         /\ w.next = "commit" => w.rows = Contents[w.batch]
    /\ w.op = "activate" => /\ w.batch = NoBatch /\ w.next \in {"licence row", "commit"}
                            /\ w.next = "commit" => w.shares
    /\ w.op = "delete" => w.batch = NoBatch /\ ~w.shares

\* What it has seen of its rows is still so.
Found(t) ==
    /\ work[t].op = "batch" => /\ cardBatches[work[t].batch] = "none"
                               /\ \A k \in work[t].rows : cards[k] = NoCard
    /\ work[t].op \in {"activate", "delete"} =>
          \A k \in work[t].rows : cards[k].status = "unused"
    /\ \A b \in work[t].gone : cardBatches[b] # "none"

Apart(t, u) ==
    /\ work[t].rows \cap work[u].rows = {}
    /\ work[t].batch = work[u].batch => work[t].batch = NoBatch

\* Who is about to commit a deletion has the plan to itself and leaves nothing.
Exclusive(t) == Deleting(t) =>
    /\ PlanThere /\ licensed = {} /\ Remaining(t) = {}
    /\ \A b \in Batches : cardBatches[b] = "made" => b \in work[t].gone
    /\ \A u \in Others(t) : ~work[u].shares /\ ~Deleting(u)

Stocked == \A b \in Batches :
    {k \in Stock : cards[k].batch = b} = IF cardBatches[b] = "made" THEN Contents[b] ELSE {}
Ended == plan = "deleted" =>
    /\ licensed = {}
    /\ \A b \in Batches : cardBatches[b] # "made"
    /\ \A t \in CatalogTx : ~work[t].shares

CatalogInv ==
    /\ CatalogTypeOK /\ Stocked /\ Ended
    /\ \A t \in CatalogTx : Carries(work[t]) /\ Found(t) /\ Exclusive(t)
    /\ \A t, u \in CatalogTx : t # u => Apart(t, u)

-----------------------------------------------------------------------------
LEMMA CatalogBounds ==
    /\ NoBatch \notin Batches /\ NoBatch \notin Stock /\ NoBatch \notin CatalogTx
    /\ \A b \in Batches : Contents[b] \subseteq Stock /\ Contents[b] # {}
<1>1. \A b \in Batches : Contents[b] \in (SUBSET Stock) \ {{}}
      BY CatalogAssumption
<1> QED
    BY <1>1, CatalogAssumption

LEMMA IdleWorks ==
    /\ Idle \in Work /\ Carries(Idle) /\ Idle.op = "none" /\ Idle.next = "begin"
    /\ Idle.batch = NoBatch /\ Idle.rows = {} /\ Idle.gone = {} /\ ~Idle.shares
<1>1. Idle \in Work
      BY DEF Idle, Work
<1>2. /\ Idle.op = "none" /\ Idle.next = "begin"
      /\ Idle.batch = NoBatch /\ Idle.rows = {} /\ Idle.gone = {} /\ ~Idle.shares
      BY DEF Idle
<1>3. Carries(Idle)
      BY <1>2 DEF Carries
<1> QED
    BY <1>1, <1>2, <1>3

\* A step gives one slot other work.
LEMMA WorkReplaced ==
    ASSUME CatalogTypeOK, NEW t \in CatalogTx, NEW w \in Work, work' = [work EXCEPT ![t] = w]
    PROVE  /\ work' \in [CatalogTx -> Work] /\ work'[t] = w
           /\ \A u \in CatalogTx : u # t => work'[u] = work[u]
BY DEF CatalogTypeOK

\* A card's status tells whether its row is there.
LEMMA CardRows ==
    ASSUME CatalogTypeOK, NEW k \in Stock
    PROVE  /\ cards[k].status = "none" <=> cards[k] = NoCard
           /\ cards[k] # NoCard => cards[k] \in [status : CardStates, batch : Batches]
           /\ NoCard.status = "none" /\ NoCard.batch = NoBatch
BY DEF CatalogTypeOK, NoCard, CardStates

\* A step that gives the handler of slot t other work and changes no row: if it
\* refers to the plan, the plan is there and nobody is about to delete it.
LEMMA WorkOnly ==
    ASSUME CatalogInv, NEW t \in CatalogTx, NEW w \in Work, work' = [work EXCEPT ![t] = w],
           OnlyWork, Carries(w), Found(t)', Exclusive(t)',
           \A u \in Others(t) : w.rows \cap work[u].rows = {},
           \A u \in Others(t) : w.batch = work[u].batch => w.batch = NoBatch,
           \/ ~w.shares \/ work[t].shares
           \/ PlanThere /\ ~PlanHeld(t),
           w.op = "delete" /\ w.next = "commit" => ~PlanHeld(t)
    PROVE  CatalogInv'
<1> USE DEF OnlyWork
<1>1. /\ CatalogTypeOK /\ work' \in [CatalogTx -> Work] /\ work'[t] = w
      /\ \A u \in CatalogTx : u # t => work'[u] = work[u]
      BY WorkReplaced DEF CatalogInv
<1>2. CatalogTypeOK'
      BY <1>1 DEF CatalogTypeOK
<1>3. Stocked'
      BY DEF CatalogInv, Stocked
<1>4. Ended'
  <2>1. ASSUME plan = "deleted", NEW u \in CatalogTx PROVE ~work'[u].shares
    <3>1. ~work[u].shares /\ ~work[t].shares /\ ~PlanThere
          BY <2>1 DEF CatalogInv, Ended, PlanThere
    <3> QED
        BY <1>1, <3>1
  <2> QED
      BY <2>1 DEF CatalogInv, Ended
<1>5. ASSUME NEW u \in CatalogTx PROVE Carries(work'[u]) /\ Found(u)' /\ Exclusive(u)'
  <2>1. CASE u = t
        BY <1>1, <2>1
  <2>2. CASE u # t
    <3>1. work'[u] = work[u] /\ Carries(work[u]) /\ Found(u) /\ Exclusive(u)
          BY <1>1, <2>2 DEF CatalogInv
    <3>2. Carries(work'[u]) /\ Found(u)'
          BY <3>1 DEF Found
    <3>3. Exclusive(u)'
      <4>1. SUFFICES ASSUME Deleting(u)' PROVE Exclusive(u)'
            BY DEF Exclusive
      <4>2. Deleting(u) /\ PlanHeld(t) /\ t \in Others(u)
            BY <2>2, <3>1, <4>1 DEF Deleting, PlanHeld, Others
      <4>3. ~work[t].shares /\ ~w.shares
            BY <3>1, <4>2 DEF Exclusive
      <4>4. ~Deleting(t)'
            BY <1>1, <4>2 DEF Deleting
      <4>5. ASSUME NEW v \in Others(u) PROVE ~work'[v].shares /\ ~Deleting(v)'
        <5>1. CASE v = t
              BY <1>1, <4>3, <4>4, <5>1
        <5>2. CASE v # t
          <6>1. work'[v] = work[v] /\ ~work[v].shares /\ ~Deleting(v)
                BY <1>1, <3>1, <4>2, <5>2 DEF Exclusive, Others
          <6> QED
              BY <6>1 DEF Deleting
        <5> QED
            BY <5>1, <5>2
      <4>6. PlanThere' /\ licensed' = {} /\ Remaining(u)' = {}
            /\ \A b \in Batches : cardBatches'[b] = "made" => b \in work'[u].gone
            BY <3>1, <4>2 DEF Exclusive, PlanThere, Remaining
      <4> QED
          BY <4>5, <4>6 DEF Exclusive, Others
    <3> QED
        BY <3>2, <3>3
  <2> QED
      BY <2>1, <2>2
<1>6. ASSUME NEW u \in CatalogTx, NEW v \in CatalogTx, u # v PROVE Apart(u, v)'
  <2>1. Apart(u, v)
        BY <1>6 DEF CatalogInv
  <2>2. CASE u # t /\ v # t
        BY <1>1, <2>1, <2>2 DEF Apart
  <2>3. CASE u = t
    <3>1. v \in Others(t)
          BY <1>6, <2>3 DEF Others
    <3> QED
        BY <1>1, <2>3, <1>6, <3>1 DEF Apart
  <2>4. CASE v = t
    <3>1. u \in Others(t) /\ work'[u] = work[u]
          BY <1>1, <1>6, <2>4 DEF Others
    <3>2. w.rows \cap work[u].rows = {} /\ (w.batch = work[u].batch => w.batch = NoBatch)
          BY <3>1
    <3> QED
        BY <1>1, <2>4, <3>1, <3>2 DEF Apart
  <2> QED
      BY <2>2, <2>3, <2>4
<1> QED
    BY <1>2, <1>3, <1>4, <1>5, <1>6 DEF CatalogInv

-----------------------------------------------------------------------------
\* Steps of a handler before its commit: what it reads, inserts, locks and deletes is
\* seen by no other, but its rows keep the others waiting.

\* A handler that begins, with rows nobody holds.
LEMMA BeginsWork ==
    ASSUME CatalogInv, NEW t \in CatalogTx, NEW w \in Work, work' = [work EXCEPT ![t] = w],
           work[t] = Idle, OnlyWork, Carries(w), ~w.shares, w.gone = {}, w.next # "commit",
           \A u \in Others(t) : w.rows \cap work[u].rows = {},
           \A u \in Others(t) : w.batch = work[u].batch => w.batch = NoBatch,
           w.op = "batch" => cardBatches[w.batch] = "none" /\ w.rows = {},
           w.op # "batch" => \A k \in w.rows : cards[k].status = "unused"
    PROVE  CatalogInv'
<1>1. work'[t] = w
      BY WorkReplaced DEF CatalogInv
<1>2. Found(t)'
      BY <1>1 DEF Found, OnlyWork
<1>3. Exclusive(t)'
      BY <1>1 DEF Exclusive, Deleting
<1> QED
    BY <1>2, <1>3, WorkOnly

LEMMA BeginBatchStep ==
    ASSUME CatalogInv, NEW t \in CatalogTx, BeginBatchTx(t)
    PROVE  CatalogInv'
<1>1. PICK b \in Batches :
          /\ work[t] = Idle /\ cardBatches[b] = "none"
          /\ \A u \in CatalogTx : work[u].batch # b
          /\ work' = [work EXCEPT ![t] = [Idle EXCEPT !.op = "batch", !.next = "batch row",
                                                     !.batch = b]]
          /\ OnlyWork
      BY DEF BeginBatchTx
<1> DEFINE w == [Idle EXCEPT !.op = "batch", !.next = "batch row", !.batch = b]
<1>2. /\ w \in Work /\ w.op = "batch" /\ w.next = "batch row" /\ w.batch = b
      /\ w.rows = {} /\ w.gone = {} /\ ~w.shares
      BY DEF Idle, Work
<1>3. work' = [work EXCEPT ![t] = w]
      BY <1>1
<1> HIDE DEF w
<1>4. Carries(w)
      BY <1>2 DEF Carries
<1>5. \A u \in Others(t) :
          /\ w.rows \cap work[u].rows = {}
          /\ w.batch = work[u].batch => w.batch = NoBatch
      BY <1>1, <1>2 DEF Others
<1> QED
    BY <1>1, <1>2, <1>3, <1>4, <1>5, BeginsWork

LEMMA LockCardStep ==
    ASSUME CatalogInv, NEW t \in CatalogTx, LockCard(t)
    PROVE  CatalogInv'
<1>1. PICK k \in Stock :
          /\ work[t] = Idle /\ cards[k].status = "unused" /\ ~RowHeld(k, t)
          /\ work' = [work EXCEPT ![t] = [Idle EXCEPT !.op = "activate", !.rows = {k},
                                                     !.next = "licence row"]]
          /\ OnlyWork
      BY DEF LockCard
<1> DEFINE w == [Idle EXCEPT !.op = "activate", !.rows = {k}, !.next = "licence row"]
<1>2. /\ w \in Work /\ w.op = "activate" /\ w.next = "licence row" /\ w.batch = NoBatch
      /\ w.rows = {k} /\ w.gone = {} /\ ~w.shares
      BY DEF Idle, Work
<1>3. work' = [work EXCEPT ![t] = w]
      BY <1>1
<1> HIDE DEF w
<1>4. Carries(w)
      BY <1>2 DEF Carries
<1>5. \A u \in Others(t) : w.rows \cap work[u].rows = {}
      BY <1>1, <1>2 DEF RowHeld
<1> QED
    BY <1>1, <1>2, <1>3, <1>4, <1>5, BeginsWork

LEMMA BeginDeleteStep ==
    ASSUME CatalogInv, NEW t \in CatalogTx, BeginDelete(t)
    PROVE  CatalogInv'
<1>1. /\ work[t] = Idle /\ OnlyWork
      /\ work' = [work EXCEPT ![t] = [Idle EXCEPT !.op = "delete", !.next = "count licences"]]
      BY DEF BeginDelete
<1> DEFINE w == [Idle EXCEPT !.op = "delete", !.next = "count licences"]
<1>2. /\ w \in Work /\ w.op = "delete" /\ w.next = "count licences" /\ w.batch = NoBatch
      /\ w.rows = {} /\ w.gone = {} /\ ~w.shares
      BY DEF Idle, Work
<1>3. work' = [work EXCEPT ![t] = w]
      BY <1>1
<1> HIDE DEF w
<1>4. Carries(w)
      BY <1>2 DEF Carries
<1> QED
    BY <1>1, <1>2, <1>3, <1>4, BeginsWork

LEMMA RollbackCatalogStep ==
    ASSUME CatalogInv, NEW t \in CatalogTx, RollbackCatalog(t)
    PROVE  CatalogInv'
<1>1. work' = [work EXCEPT ![t] = Idle] /\ OnlyWork
      BY DEF RollbackCatalog
<1>2. work'[t] = Idle
      BY <1>1, IdleWorks, WorkReplaced DEF CatalogInv
<1>3. Found(t)' /\ Exclusive(t)'
      BY <1>2, IdleWorks DEF Found, Exclusive, Deleting
<1> QED
    BY <1>1, <1>3, IdleWorks, WorkOnly

\* A handler goes on with its rows and batch.
LEMMA GoesOn ==
    ASSUME CatalogInv, NEW t \in CatalogTx, NEW w \in Work, work' = [work EXCEPT ![t] = w],
           OnlyWork, w.op = work[t].op, w.batch = work[t].batch, Carries(w), Exclusive(t)',
           w.rows \subseteq work[t].rows \/ \A k \in w.rows \ work[t].rows : ~RowHeld(k, t),
           w.op = "batch" => \A k \in w.rows \ work[t].rows : cards[k] = NoCard,
           w.op # "batch" => \A k \in w.rows \ work[t].rows : cards[k].status = "unused",
           w.op # "none",
           \A b \in w.gone : cardBatches[b] # "none",
           \/ ~w.shares \/ work[t].shares
           \/ PlanThere /\ ~PlanHeld(t),
           w.op = "delete" /\ w.next = "commit" => ~PlanHeld(t)
    PROVE  CatalogInv'
<1>1. work'[t] = w /\ Found(t)
      BY WorkReplaced DEF CatalogInv
<1>2. Found(t)'
  <2>1. UNCHANGED <<cards, cardBatches>>
        BY DEF OnlyWork
  <2>2. ASSUME w.op = "batch"
        PROVE  cardBatches[w.batch] = "none" /\ \A k \in w.rows : cards[k] = NoCard
        BY <1>1, <2>2 DEF Found
  <2>3. ASSUME w.op \in {"activate", "delete"}
        PROVE  \A k \in w.rows : cards[k].status = "unused"
        BY <1>1, <2>3 DEF Found
  <2> QED
      BY <1>1, <2>1, <2>2, <2>3 DEF Found
<1>3. ASSUME NEW u \in Others(t)
      PROVE  /\ w.rows \cap work[u].rows = {}
             /\ w.batch = work[u].batch => w.batch = NoBatch
  <2>1. Apart(t, u)
        BY DEF CatalogInv, Others
  <2>2. ASSUME NEW k \in w.rows PROVE k \notin work[u].rows
        BY <2>1, <2>2 DEF Apart, RowHeld
  <2> QED
      BY <2>1, <2>2 DEF Apart
<1>4. \A u \in Others(t) : w.rows \cap work[u].rows = {}
      BY <1>3
<1>5. \A u \in Others(t) : w.batch = work[u].batch => w.batch = NoBatch
      BY <1>3
<1> QED
    BY <1>2, <1>4, <1>5, WorkOnly

LEMMA InsertsStep ==
    ASSUME CatalogInv, NEW t \in CatalogTx,
           InsertBatchRow(t) \/ InsertLicence(t) \/ InsertCard(t)
    PROVE  CatalogInv'
<1>1. /\ work[t] \in Work /\ Carries(work[t])
      BY DEF CatalogInv, CatalogTypeOK
<1>2. ASSUME NEW op \in {"batch", "activate"}, NEW next \in {"card rows", "commit"},
             Is(t, op, IF op = "batch" THEN "batch row" ELSE "licence row"),
             next = IF op = "batch" THEN "card rows" ELSE "commit",
             PlanThere, ~PlanHeld(t), OnlyWork,
             work' = [work EXCEPT ![t].next = next, ![t].shares = TRUE]
      PROVE  CatalogInv'
  <2> DEFINE w == [work[t] EXCEPT !.next = next, !.shares = TRUE]
  <2>1. /\ w \in Work /\ w.op = op /\ w.next = next /\ w.batch = work[t].batch
        /\ w.rows = work[t].rows /\ w.gone = work[t].gone /\ w.shares
        BY <1>1, <1>2 DEF Work, Is
  <2>2. work' = [work EXCEPT ![t] = w]
        BY <1>2
  <2> HIDE DEF w
  <2>3. Carries(w)
        BY <1>1, <1>2, <2>1 DEF Carries, Is
  <2>4. work'[t] = w
        BY <2>1, <2>2, WorkReplaced DEF CatalogInv
  <2>5. Exclusive(t)'
        BY <1>2, <2>1, <2>4 DEF Exclusive, Deleting
  <2>6. \A b \in w.gone : cardBatches[b] # "none"
        BY <2>1 DEF CatalogInv, Found
  <2> QED
      BY <1>2, <2>1, <2>2, <2>3, <2>5, <2>6, GoesOn DEF Is
<1>3. CASE InsertBatchRow(t)
      BY <1>2, <1>3 DEF InsertBatchRow
<1>4. CASE InsertLicence(t)
      BY <1>2, <1>4 DEF InsertLicence
<1>5. CASE InsertCard(t)
  <2>1. PICK k \in Contents[work[t].batch] \ work[t].rows :
            /\ cards[k] = NoCard /\ ~RowHeld(k, t)
            /\ work' = [work EXCEPT
                          ![t].rows = @ \cup {k},
                          ![t].next = IF work[t].rows \cup {k} = Contents[work[t].batch]
                                      THEN "commit" ELSE "card rows"]
        BY <1>5 DEF InsertCard
  <2>2. /\ Is(t, "batch", "card rows") /\ OnlyWork
        /\ work[t].batch \in Batches /\ work[t].rows \subseteq Contents[work[t].batch]
        /\ work[t].shares
        BY <1>1, <1>5 DEF InsertCard, Carries, Is
  <2>3. PICK next \in {"commit", "card rows"}, rows \in SUBSET Stock :
            /\ rows = work[t].rows \cup {k}
            /\ next = IF rows = Contents[work[t].batch] THEN "commit" ELSE "card rows"
        BY <2>1, <2>2, CatalogBounds
  <2> DEFINE w == [work[t] EXCEPT !.rows = rows, !.next = next]
  <2>4. /\ w \in Work /\ w.op = work[t].op /\ w.next = next /\ w.batch = work[t].batch
        /\ w.rows = rows /\ w.gone = work[t].gone /\ w.shares = work[t].shares
        BY <1>1 DEF Work
  <2>5. work' = [work EXCEPT ![t] = w]
        BY <2>1, <2>3
  <2> HIDE DEF w
  <2>6. Carries(w)
        BY <2>1, <2>2, <2>3, <2>4 DEF Carries, Is
  <2>7. work'[t] = w
        BY <2>4, <2>5, WorkReplaced DEF CatalogInv
  <2>8. Exclusive(t)'
        BY <2>2, <2>4, <2>7 DEF Exclusive, Deleting, Is
  <2>9. \A b \in w.gone : cardBatches[b] # "none"
        BY <2>4 DEF CatalogInv, Found
  <2>10. w.rows \ work[t].rows = {k} /\ w.op = "batch"
        BY <2>1, <2>2, <2>3, <2>4 DEF Is
  <2> QED
      BY <2>1, <2>2, <2>4, <2>5, <2>6, <2>8, <2>9, <2>10, GoesOn DEF Is
<1> QED
    BY <1>3, <1>4, <1>5

LEMMA CountsStep ==
    ASSUME CatalogInv, NEW t \in CatalogTx,
           CountPlanLicenses(t) \/ CountPlanLiveCards(t)
    PROVE  CatalogInv'
<1>1. /\ work[t] \in Work /\ Carries(work[t]) /\ work[t].op = "delete" /\ OnlyWork
      BY DEF CatalogInv, CatalogTypeOK, CountPlanLicenses, CountPlanLiveCards, Is
<1>2. PICK next \in {"count cards", "delete cards"} : work' = [work EXCEPT ![t].next = next]
      BY DEF CountPlanLicenses, CountPlanLiveCards, Go
<1> DEFINE w == [work[t] EXCEPT !.next = next]
<1>3. /\ w \in Work /\ w.op = "delete" /\ w.next = next /\ w.batch = work[t].batch
      /\ w.rows = work[t].rows /\ w.gone = work[t].gone /\ w.shares = work[t].shares
      BY <1>1 DEF Work
<1>4. work' = [work EXCEPT ![t] = w]
      BY <1>2
<1> HIDE DEF w
<1>5. Carries(w)
      BY <1>1, <1>3 DEF Carries
<1>6. Exclusive(t)'
      BY <1>3, <1>4, WorkReplaced DEF CatalogInv, Exclusive, Deleting
<1>7. \A b \in w.gone : cardBatches[b] # "none"
      BY <1>3 DEF CatalogInv, Found
<1> QED
    BY <1>1, <1>3, <1>4, <1>5, <1>6, <1>7, GoesOn

LEMMA DeleteCardsStep ==
    ASSUME CatalogInv, NEW t \in CatalogTx, VoidAndDeleteUnusedCards(t)
    PROVE  CatalogInv'
<1>1. /\ work[t] \in Work /\ Carries(work[t]) /\ work[t].op = "delete" /\ OnlyWork
      /\ \A k \in Doomed : ~RowHeld(k, t)
      BY DEF CatalogInv, CatalogTypeOK, VoidAndDeleteUnusedCards, Is
<1>2. PICK rows \in SUBSET Stock :
          /\ rows = Doomed
          /\ work' = [work EXCEPT ![t].rows = rows, ![t].next = "delete batches"]
      BY DEF VoidAndDeleteUnusedCards, Doomed
<1> DEFINE w == [work[t] EXCEPT !.rows = rows, !.next = "delete batches"]
<1>3. /\ w \in Work /\ w.op = "delete" /\ w.next = "delete batches"
      /\ w.batch = work[t].batch
      /\ w.rows = rows /\ w.gone = work[t].gone /\ w.shares = work[t].shares
      BY <1>1 DEF Work
<1>4. work' = [work EXCEPT ![t] = w]
      BY <1>2
<1> HIDE DEF w
<1>5. Carries(w)
      BY <1>1, <1>3 DEF Carries
<1>6. Exclusive(t)'
      BY <1>3, <1>4, WorkReplaced DEF CatalogInv, Exclusive, Deleting
<1>7. \A b \in w.gone : cardBatches[b] # "none"
      BY <1>3 DEF CatalogInv, Found
<1>8. \A k \in w.rows : cards[k].status = "unused" /\ ~RowHeld(k, t)
      BY <1>1, <1>2, <1>3 DEF Doomed
<1> QED
    BY <1>1, <1>3, <1>4, <1>5, <1>6, <1>7, <1>8, GoesOn

LEMMA DeleteBatchesStep ==
    ASSUME CatalogInv, NEW t \in CatalogTx, DeleteBatchesByPlan(t)
    PROVE  CatalogInv'
<1>1. /\ work[t] \in Work /\ Carries(work[t]) /\ work[t].op = "delete" /\ OnlyWork
      BY DEF CatalogInv, CatalogTypeOK, DeleteBatchesByPlan, Is
<1>2. PICK gone \in SUBSET Batches :
          /\ gone = {b \in Batches : cardBatches[b] = "made"}
          /\ work' = [work EXCEPT ![t].gone = gone, ![t].next = "delete plan"]
      BY DEF DeleteBatchesByPlan
<1> DEFINE w == [work[t] EXCEPT !.gone = gone, !.next = "delete plan"]
<1>3. /\ w \in Work /\ w.op = "delete" /\ w.next = "delete plan"
      /\ w.batch = work[t].batch
      /\ w.rows = work[t].rows /\ w.gone = gone /\ w.shares = work[t].shares
      BY <1>1 DEF Work
<1>4. work' = [work EXCEPT ![t] = w]
      BY <1>2
<1> HIDE DEF w
<1>5. Carries(w)
      BY <1>1, <1>3 DEF Carries
<1>6. Exclusive(t)'
      BY <1>3, <1>4, WorkReplaced DEF CatalogInv, Exclusive, Deleting
<1>7. \A b \in w.gone : cardBatches[b] # "none"
      BY <1>2, <1>3
<1> QED
    BY <1>1, <1>3, <1>4, <1>5, <1>6, <1>7, GoesOn

\* The foreign keys: the plan's row goes only if nothing refers to it.
LEMMA DeletePlanRowStep ==
    ASSUME CatalogInv, NEW t \in CatalogTx, DeletePlanRow(t)
    PROVE  CatalogInv'
<1>1. /\ work[t] \in Work /\ Carries(work[t]) /\ work[t].op = "delete" /\ OnlyWork
      /\ PlanThere /\ ~PlanHeld(t) /\ ~PlanShared(t) /\ Remaining(t) = {} /\ licensed = {}
      /\ \A b \in Batches \ work[t].gone : cardBatches[b] # "made"
      /\ work' = [work EXCEPT ![t].next = "commit"]
      BY DEF CatalogInv, CatalogTypeOK, DeletePlanRow, Is, Go
<1> DEFINE w == [work[t] EXCEPT !.next = "commit"]
<1>2. /\ w \in Work /\ w.op = "delete" /\ w.next = "commit"
      /\ w.batch = work[t].batch
      /\ w.rows = work[t].rows /\ w.gone = work[t].gone /\ w.shares = work[t].shares
      BY <1>1 DEF Work
<1>3. work' = [work EXCEPT ![t] = w]
      BY <1>1
<1> HIDE DEF w
<1>4. Carries(w)
      BY <1>1, <1>2 DEF Carries
<1>5. Exclusive(t)'
  <2>1. /\ work'[t] = w /\ \A u \in CatalogTx : u # t => work'[u] = work[u]
        BY <1>2, <1>3, WorkReplaced DEF CatalogInv
  <2>2. \A u \in Others(t) : ~work'[u].shares /\ ~Deleting(u)'
        BY <1>1, <2>1 DEF PlanShared, PlanHeld, Deleting, Others
  <2>3. PlanThere' /\ licensed' = {} /\ Remaining(t)' = {}
        BY <1>1, <1>2, <2>1 DEF OnlyWork, PlanThere, Remaining
  <2>4. \A b \in Batches : cardBatches'[b] = "made" => b \in work'[t].gone
        BY <1>1, <1>2, <2>1 DEF OnlyWork
  <2> QED
      BY <2>2, <2>3, <2>4 DEF Exclusive, Others
<1>6. \A b \in w.gone : cardBatches[b] # "none"
      BY <1>2 DEF CatalogInv, Found
<1> QED
    BY <1>1, <1>2, <1>3, <1>4, <1>5, <1>6, GoesOn

-----------------------------------------------------------------------------
\* Commits, and the steps of others.

LEMMA BatchesStay ==
    ASSUME Stocked, cardBatches' = cardBatches, \A k \in Stock : cards'[k].batch = cards[k].batch
    PROVE  Stocked'
BY DEF Stocked

\* The slots after a commit of slot t: the others' rows and batches are apart from
\* what it has committed.
LEMMA OthersKeep ==
    ASSUME CatalogInv, NEW t \in CatalogTx, work' = [work EXCEPT ![t] = Idle],
           \A u \in Others(t) : Found(u)', \A u \in Others(t) : ~Deleting(u)
    PROVE  /\ work' \in [CatalogTx -> Work]
           /\ \A u \in CatalogTx : Carries(work'[u]) /\ Found(u)' /\ Exclusive(u)'
           /\ \A u, v \in CatalogTx : u # v => Apart(u, v)'
<1>1. /\ work' \in [CatalogTx -> Work] /\ work'[t] = Idle
      /\ \A u \in CatalogTx : u # t => work'[u] = work[u]
      BY IdleWorks, WorkReplaced DEF CatalogInv
<1>2. ASSUME NEW u \in CatalogTx PROVE Carries(work'[u]) /\ Found(u)' /\ Exclusive(u)'
  <2>1. CASE u = t
        BY <1>1, <2>1, IdleWorks DEF Found, Exclusive, Deleting
  <2>2. CASE u # t
        BY <1>1, <2>2 DEF CatalogInv, Others, Exclusive, Deleting
  <2> QED
      BY <2>1, <2>2
<1>3. ASSUME NEW u \in CatalogTx, NEW v \in CatalogTx, u # v PROVE Apart(u, v)'
  <2>1. CASE u = t
        BY <1>1, <2>1, IdleWorks DEF Apart
  <2>2. CASE v = t
    <3>1. work'[v].rows = {} /\ work'[v].batch = NoBatch
          BY <1>1, <2>2, IdleWorks
    <3> QED
        BY <3>1 DEF Apart
  <2>3. CASE u # t /\ v # t
        BY <1>1, <1>3, <2>3 DEF CatalogInv, Apart
  <2> QED
      BY <2>1, <2>2, <2>3
<1> QED
    BY <1>1, <1>2, <1>3

LEMMA CommitBatchStep ==
    ASSUME CatalogInv, NEW t \in CatalogTx, CommitBatch(t)
    PROVE  CatalogInv'
<1> DEFINE b == work[t].batch
           row == [status |-> "unused", batch |-> b]
<1>1. /\ CatalogTypeOK /\ Carries(work[t]) /\ Found(t) /\ Is(t, "batch", "commit")
      /\ work' = [work EXCEPT ![t] = Idle]
      /\ UNCHANGED <<product, plan, grant, licensed>>
      BY DEF CatalogInv, CommitBatch
<1>2. /\ b \in Batches /\ work[t].rows = Contents[b] /\ work[t].shares
      /\ cardBatches[b] = "none" /\ \A k \in Contents[b] : cards[k] = NoCard
      BY <1>1 DEF Carries, Found, Is
<1>3. /\ cards' = [k \in Stock |-> IF k \in Contents[b] THEN row ELSE cards[k]]
      /\ cardBatches' = [cardBatches EXCEPT ![b] = "made"]
      BY <1>2 DEF CommitBatch
<1>4. row \in [status : CardStates, batch : Batches] /\ row.batch = b
      BY <1>2 DEF CardStates
<1>5. b \notin {NoBatch} /\ NoCard.batch = NoBatch /\ Contents[b] \subseteq Stock
      BY <1>2, CatalogBounds DEF NoCard
<1> HIDE DEF row, b
<1>6. \A u \in Others(t) : ~Deleting(u)
  <2> SUFFICES ASSUME NEW u \in Others(t), Deleting(u) PROVE FALSE
      OBVIOUS
  <2>1. Exclusive(u) /\ t \in Others(u)
        BY DEF CatalogInv, Others
  <2> QED
      BY <1>2, <2>1 DEF Exclusive
<1>7. ASSUME NEW u \in Others(t) PROVE Found(u)'
  <2>1. /\ work'[u] = work[u] /\ Found(u) /\ Apart(t, u) /\ Carries(work[u]) /\ work[u] \in Work
        BY <1>1, IdleWorks, WorkReplaced DEF CatalogInv, Others, CatalogTypeOK
  <2>2. \A k \in work[u].rows : k \in Stock /\ cards'[k] = cards[k]
        BY <1>2, <1>3, <2>1 DEF Apart, Work
  <2>3. \A c \in Batches : cardBatches[c] # "none" => cardBatches'[c] # "none"
        BY <1>1, <1>2, <1>3 DEF CatalogTypeOK
  <2>4. work[u].op = "batch" => work[u].batch \in Batches /\ work[u].batch # b
        BY <1>2, <1>5, <2>1 DEF Apart, Carries, b
  <2>5. work[u].op = "batch" => cardBatches'[work[u].batch] = cardBatches[work[u].batch]
        BY <1>1, <1>3, <2>4 DEF CatalogTypeOK
  <2>6. work[u].gone \subseteq Batches
        BY <2>1 DEF Work
  <2> QED
      BY <2>1, <2>2, <2>3, <2>5, <2>6 DEF Found
<1>8. CatalogTypeOK'
  <2>1. work' \in [CatalogTx -> Work]
        BY <1>1, IdleWorks, WorkReplaced
  <2>2. cards' \in [Stock -> [status : CardStates, batch : Batches] \cup {NoCard}]
        BY <1>1, <1>3, <1>4 DEF CatalogTypeOK
  <2>3. cardBatches' \in [Batches -> {"none", "made", "deleted"}]
        BY <1>1, <1>3 DEF CatalogTypeOK
  <2> QED
      BY <1>1, <2>1, <2>2, <2>3 DEF CatalogTypeOK
<1>9. Stocked'
  <2> SUFFICES ASSUME NEW c \in Batches
               PROVE  {k \in Stock : cards'[k].batch = c}
                        = IF cardBatches'[c] = "made" THEN Contents[c] ELSE {}
      BY DEF Stocked
  <2>1. {k \in Stock : cards[k].batch = c}
          = IF cardBatches[c] = "made" THEN Contents[c] ELSE {}
        BY DEF CatalogInv, Stocked
  <2>2. \A k \in Stock : cards'[k].batch = IF k \in Contents[b] THEN b ELSE cards[k].batch
        BY <1>3, <1>4
  <2>3. CASE c = b
    <3>1. cardBatches'[c] = "made" /\ {k \in Stock : cards[k].batch = c} = {}
          BY <1>1, <1>2, <1>3, <2>1, <2>3 DEF CatalogTypeOK
    <3>2. {k \in Stock : cards'[k].batch = c} = Contents[b]
          BY <1>5, <2>2, <2>3, <3>1
    <3> QED
        BY <2>3, <3>1, <3>2
  <2>4. CASE c # b
    <3>1. cardBatches'[c] = cardBatches[c]
          BY <1>1, <1>3, <2>4 DEF CatalogTypeOK
    <3>2. \A k \in Contents[b] : cards[k].batch # c
          BY <1>2, <1>5, CatalogBounds
    <3>3. {k \in Stock : cards'[k].batch = c} = {k \in Stock : cards[k].batch = c}
          BY <2>2, <2>4, <3>2
    <3> QED
        BY <2>1, <3>1, <3>3
  <2> QED
      BY <2>3, <2>4
<1>10. Ended'
  <2>1. plan # "deleted"
        BY <1>2 DEF CatalogInv, Ended
  <2> QED
      BY <1>1, <2>1 DEF Ended
<1> QED
    BY <1>1, <1>6, <1>7, <1>8, <1>9, <1>10, OthersKeep DEF CatalogInv

LEMMA CommitActivationStep ==
    ASSUME CatalogInv, NEW t \in CatalogTx, CommitActivation(t)
    PROVE  CatalogInv'
<1>1. /\ CatalogTypeOK /\ Carries(work[t]) /\ Found(t) /\ Is(t, "activate", "commit")
      /\ work' = [work EXCEPT ![t] = Idle] /\ work[t].rows \subseteq Stock
      /\ cards' = [k \in Stock |-> IF k \in work[t].rows
                                   THEN [cards[k] EXCEPT !.status = "active"] ELSE cards[k]]
      /\ licensed' = licensed \cup work[t].rows
      /\ UNCHANGED <<product, plan, grant, cardBatches>>
      BY DEF CatalogInv, CommitActivation, CatalogTypeOK, Work
<1>2. /\ work[t].shares
      /\ \A k \in work[t].rows : cards[k].status = "unused"
      BY <1>1 DEF Carries, Found, Is
<1>3. ASSUME NEW card \in [status : CardStates, batch : Batches]
      PROVE  /\ [card EXCEPT !.status = "active"] \in [status : CardStates, batch : Batches]
             /\ [card EXCEPT !.status = "active"].batch = card.batch
      BY DEF CardStates
<1>4. ASSUME NEW k \in Stock
      PROVE  /\ cards'[k] \in [status : CardStates, batch : Batches] \cup {NoCard}
             /\ cards'[k].batch = cards[k].batch
  <2>1. CASE k \in work[t].rows
        BY <1>1, <1>2, <1>3, <2>1, CardRows
  <2>2. CASE k \notin work[t].rows
        BY <1>1, <2>2 DEF CatalogTypeOK
  <2> QED
      BY <2>1, <2>2
<1>5. \A u \in Others(t) : ~Deleting(u)
  <2> SUFFICES ASSUME NEW u \in Others(t), Deleting(u) PROVE FALSE
      OBVIOUS
  <2>1. Exclusive(u) /\ t \in Others(u)
        BY DEF CatalogInv, Others
  <2> QED
      BY <1>2, <2>1 DEF Exclusive
<1>6. ASSUME NEW u \in Others(t) PROVE Found(u)'
  <2>1. /\ work'[u] = work[u] /\ Found(u) /\ Apart(t, u) /\ work[u] \in Work
        BY <1>1, IdleWorks, WorkReplaced DEF CatalogInv, Others, CatalogTypeOK
  <2>2. \A k \in work[u].rows : cards'[k] = cards[k]
        BY <1>1, <2>1 DEF Apart, Work
  <2> QED
      BY <1>1, <2>1, <2>2 DEF Found
<1>7. CatalogTypeOK'
  <2>1. work' \in [CatalogTx -> Work] /\ licensed' \subseteq Stock
        BY <1>1, IdleWorks, WorkReplaced DEF CatalogTypeOK
  <2>2. cards' \in [Stock -> [status : CardStates, batch : Batches] \cup {NoCard}]
        BY <1>1, <1>4
  <2> QED
      BY <1>1, <2>1, <2>2 DEF CatalogTypeOK
<1>8. Stocked'
      BY <1>1, <1>4, BatchesStay DEF CatalogInv
<1>9. Ended'
  <2>1. plan # "deleted"
        BY <1>2 DEF CatalogInv, Ended
  <2> QED
      BY <1>1, <2>1 DEF Ended
<1> QED
    BY <1>1, <1>5, <1>6, <1>7, <1>8, <1>9, OthersKeep DEF CatalogInv

LEMMA CommitDeleteStep ==
    ASSUME CatalogInv, NEW t \in CatalogTx, CommitDelete(t)
    PROVE  CatalogInv'
<1>1. /\ CatalogTypeOK /\ Found(t) /\ Exclusive(t) /\ Deleting(t)
      /\ work' = [work EXCEPT ![t] = Idle] /\ plan' = "deleted"
      /\ cards' = [k \in Stock |-> IF k \in work[t].rows THEN NoCard ELSE cards[k]]
      /\ cardBatches' = [b \in Batches |-> IF b \in work[t].gone THEN "deleted"
                                           ELSE cardBatches[b]]
      /\ UNCHANGED <<product, grant, licensed>>
      BY DEF CatalogInv, CommitDelete, Deleting, Is
<1>2. /\ licensed = {} /\ Remaining(t) = {}
      /\ \A b \in Batches : cardBatches[b] = "made" => b \in work[t].gone
      /\ \A u \in Others(t) : ~work[u].shares /\ ~Deleting(u)
      BY <1>1 DEF Exclusive
<1>3. ASSUME NEW k \in Stock
      PROVE  cards'[k] = NoCard /\ (cards[k] # NoCard => k \in work[t].rows)
      BY <1>1, <1>2, CardRows DEF Remaining
<1>4. \A b \in Batches : /\ cardBatches'[b] \in {"none", "deleted"}
                         /\ cardBatches'[b] = "none" <=> cardBatches[b] = "none"
      BY <1>1, <1>2 DEF CatalogTypeOK, Found
<1>5. ASSUME NEW u \in Others(t) PROVE Found(u)'
  <2>1. /\ work'[u] = work[u] /\ Found(u) /\ Apart(t, u) /\ Carries(work[u]) /\ work[u] \in Work
        BY <1>1, IdleWorks, WorkReplaced DEF CatalogInv, Others, CatalogTypeOK
  <2>2. work[u].rows \subseteq Stock /\ work[u].gone \subseteq Batches
        BY <2>1 DEF Work
  <2>3. ASSUME work[u].op \in {"activate", "delete"} PROVE work[u].rows = {}
    <3> SUFFICES ASSUME NEW k \in work[u].rows PROVE FALSE
        OBVIOUS
    <3>1. cards[k].status = "unused" /\ k \in Stock
          BY <2>1, <2>2, <2>3 DEF Found
    <3>2. k \in work[t].rows
          BY <1>1, <1>3, <3>1, CardRows
    <3> QED
        BY <2>1, <3>2 DEF Apart
  <2>4. work[u].op = "batch" => cardBatches'[work[u].batch] = "none"
        BY <1>4, <2>1 DEF Found, Carries
  <2>5. \A k \in work[u].rows : cards'[k] = NoCard
        BY <1>3, <2>2
  <2>6. \A b \in work[u].gone : cardBatches'[b] # "none"
        BY <1>4, <2>1, <2>2 DEF Found
  <2> QED
      BY <2>1, <2>3, <2>4, <2>5, <2>6 DEF Found
<1>6. CatalogTypeOK'
  <2>1. work' \in [CatalogTx -> Work]
        BY <1>1, IdleWorks, WorkReplaced
  <2>2. cards' \in [Stock -> [status : CardStates, batch : Batches] \cup {NoCard}]
        BY <1>1, <1>3
  <2>3. cardBatches' \in [Batches -> {"none", "made", "deleted"}]
        BY <1>1, <1>4
  <2> QED
      BY <1>1, <2>1, <2>2, <2>3 DEF CatalogTypeOK
<1>7. Stocked'
  <2>1. \A k \in Stock : cards'[k].batch = NoBatch
        BY <1>3 DEF NoCard
  <2> QED
      BY <1>4, <2>1, CatalogBounds DEF Stocked
<1>8. Ended'
  <2>1. ASSUME NEW u \in CatalogTx PROVE ~work'[u].shares
        BY <1>1, <1>2, IdleWorks, WorkReplaced DEF Others
  <2> QED
      BY <1>1, <1>2, <1>4, <2>1 DEF Ended
<1> QED
    BY <1>1, <1>2, <1>5, <1>6, <1>7, <1>8, OthersKeep DEF CatalogInv

LEMMA UseCardStep ==
    ASSUME CatalogInv, NEW k \in Stock, NEW s \in CardStates, UseCard(k, s)
    PROVE  CatalogInv'
<1>1. /\ CatalogTypeOK /\ cards \in [Stock -> [status : CardStates, batch : Batches] \cup {NoCard}]
      /\ cards' = [cards EXCEPT ![k] = [cards[k] EXCEPT !.status = s]]
      /\ cards[k].status # "none"
      /\ UNCHANGED <<product, plan, grant, cardBatches, licensed, work>>
      BY DEF CatalogInv, CatalogTypeOK, UseCard
<1>2. \A u \in CatalogTx : k \notin work[u].rows
      BY CatalogBounds DEF UseCard, RowHeld, Others
<1>3. ASSUME NEW card \in [status : CardStates, batch : Batches]
      PROVE  /\ [card EXCEPT !.status = s] \in [status : CardStates, batch : Batches]
             /\ [card EXCEPT !.status = s].batch = card.batch
      OBVIOUS
<1>4. /\ cards' \in [Stock -> [status : CardStates, batch : Batches] \cup {NoCard}]
      /\ cards'[k].batch = cards[k].batch
      /\ \A l \in Stock : l # k => cards'[l] = cards[l]
      BY <1>1, <1>3, CardRows
<1>5. CatalogTypeOK'
      BY <1>1, <1>4 DEF CatalogTypeOK
<1>6. Stocked'
      BY <1>1, <1>4, BatchesStay DEF CatalogInv
<1>7. Ended'
      BY <1>1 DEF CatalogInv, Ended
<1>8. ASSUME NEW u \in CatalogTx PROVE Carries(work[u])' /\ Found(u)' /\ Exclusive(u)'
  <2>1. /\ Carries(work[u]) /\ Found(u) /\ Exclusive(u) /\ work[u].rows \subseteq Stock
        BY <1>1 DEF CatalogInv, CatalogTypeOK, Work
  <2>2. \A l \in work[u].rows : cards'[l] = cards[l]
        BY <1>2, <1>4, <2>1
  <2>3. Found(u)'
        BY <1>1, <2>1, <2>2 DEF Found
  <2>4. ~Deleting(u)
        BY <1>1, <1>2, <2>1 DEF Exclusive, Remaining
  <2> QED
      BY <1>1, <2>1, <2>3, <2>4 DEF Exclusive, Deleting
<1>9. \A u, v \in CatalogTx : u # v => Apart(u, v)'
      BY <1>1 DEF CatalogInv, Apart
<1> QED
    BY <1>1, <1>5, <1>6, <1>7, <1>8, <1>9 DEF CatalogInv

\* What administrators do to the product, the plan and the grant.
LEMMA CatalogChangeStep ==
    ASSUME CatalogInv,
           \/ CreatePlan
           \/ \E s \in {"active", "retired"} : SetPlanStatus(s) \/ SetProductStatus(s)
           \/ \E allowed \in BOOLEAN : SetAgentProductGrant(allowed)
    PROVE  CatalogInv'
<1>1. /\ CatalogTypeOK
      /\ product' \in {"active", "retired"} /\ grant' \in BOOLEAN
      /\ UNCHANGED <<cardBatches, cards, licensed, work>>
      BY DEF CatalogInv, CatalogTypeOK, CreatePlan, SetPlanStatus, SetProductStatus,
             SetAgentProductGrant
<1>2. \/ plan' = plan
      \/ /\ plan' \in {"active", "retired"}
         /\ plan = "none" \/ \A u \in CatalogTx : ~Deleting(u)
  <2>1. CASE CreatePlan
        BY <2>1 DEF CreatePlan
  <2>2. ASSUME NEW s \in {"active", "retired"}, SetPlanStatus(s)
        PROVE  plan' \in {"active", "retired"} /\ \A u \in CatalogTx : ~Deleting(u)
        BY <2>2, CatalogBounds DEF SetPlanStatus, PlanHeld, Others, Deleting
  <2>3. ASSUME NEW s \in {"active", "retired"}, SetProductStatus(s) PROVE plan' = plan
        BY <2>3 DEF SetProductStatus
  <2>4. ASSUME NEW allowed \in BOOLEAN, SetAgentProductGrant(allowed) PROVE plan' = plan
        BY <2>4 DEF SetAgentProductGrant
  <2> QED
      BY <2>1, <2>2, <2>3, <2>4
<1>3. CatalogTypeOK'
      BY <1>1, <1>2 DEF CatalogTypeOK
<1>4. Stocked' /\ Ended'
  <2>1. Stocked'
        BY <1>1 DEF CatalogInv, Stocked
  <2>2. Ended'
        BY <1>1, <1>2 DEF CatalogInv, Ended
  <2> QED
      BY <2>1, <2>2
<1>5. ASSUME NEW u \in CatalogTx PROVE Carries(work[u])' /\ Found(u)' /\ Exclusive(u)'
  <2>1. Carries(work[u]) /\ Found(u) /\ Exclusive(u)
        BY DEF CatalogInv
  <2>2. Deleting(u)' => Deleting(u) /\ plan' = plan
        BY <1>1, <1>2, <2>1 DEF Exclusive, Deleting, PlanThere
  <2>3. Exclusive(u)'
        BY <1>1, <2>1, <2>2 DEF Exclusive, Deleting, PlanThere, Remaining
  <2> QED
      BY <1>1, <2>1, <2>3 DEF Found
<1>6. \A u, v \in CatalogTx : u # v => Apart(u, v)'
      BY <1>1 DEF CatalogInv, Apart
<1> QED
    BY <1>3, <1>4, <1>5, <1>6 DEF CatalogInv

LEMMA CatalogFirst == CatalogInit => CatalogInv
<1> SUFFICES ASSUME CatalogInit PROVE CatalogInv
    OBVIOUS
<1>1. /\ plan = "none" /\ cardBatches = [b \in Batches |-> "none"]
      /\ cards = [k \in Stock |-> NoCard] /\ work = [t \in CatalogTx |-> Idle]
      BY DEF CatalogInit
<1>2. CatalogTypeOK
      BY IdleWorks DEF CatalogInit, CatalogTypeOK
<1>3. Stocked
  <2>1. \A k \in Stock : cards[k].batch = NoBatch
        BY <1>1 DEF NoCard
  <2> QED
      BY <1>1, <2>1, CatalogBounds DEF Stocked
<1>4. Ended
      BY <1>1 DEF Ended
<1>5. \A t \in CatalogTx : Carries(work[t]) /\ Found(t) /\ Exclusive(t)
      BY <1>1, IdleWorks DEF Found, Exclusive, Deleting
<1>6. \A t, u \in CatalogTx : t # u => Apart(t, u)
      BY <1>1, IdleWorks DEF Apart
<1> QED
    BY <1>2, <1>3, <1>4, <1>5, <1>6 DEF CatalogInv

LEMMA CatalogSteps == CatalogInv /\ [CatalogNext]_catalogVars => CatalogInv'
<1> SUFFICES ASSUME CatalogInv, [CatalogNext]_catalogVars PROVE CatalogInv'
    OBVIOUS
<1>1. ASSUME \/ CreatePlan
             \/ \E s \in {"active", "retired"} : SetPlanStatus(s) \/ SetProductStatus(s)
             \/ \E allowed \in BOOLEAN : SetAgentProductGrant(allowed)
      PROVE  CatalogInv'
      BY <1>1, CatalogChangeStep
<1>2. ASSUME NEW k \in Stock, NEW s \in CardStates, UseCard(k, s)
      PROVE  CatalogInv'
      BY <1>2, UseCardStep
<1>3. ASSUME NEW t \in CatalogTx,
             \/ BeginBatchTx(t) \/ InsertBatchRow(t) \/ InsertCard(t) \/ CommitBatch(t)
             \/ LockCard(t) \/ InsertLicence(t) \/ CommitActivation(t)
      PROVE  CatalogInv'
      BY <1>3, BeginBatchStep, InsertsStep, CommitBatchStep, LockCardStep, CommitActivationStep
<1>4. ASSUME NEW t \in CatalogTx,
             \/ BeginDelete(t) \/ CountPlanLicenses(t) \/ CountPlanLiveCards(t)
             \/ VoidAndDeleteUnusedCards(t) \/ DeleteBatchesByPlan(t)
             \/ DeletePlanRow(t) \/ CommitDelete(t)
             \/ RollbackCatalog(t)
      PROVE  CatalogInv'
      BY <1>4, BeginDeleteStep, CountsStep, DeleteCardsStep, DeleteBatchesStep,
         DeletePlanRowStep, CommitDeleteStep, RollbackCatalogStep
<1>5. ASSUME UNCHANGED catalogVars
      PROVE  CatalogInv'
  <2>1. UNCHANGED <<product, plan, grant, cardBatches, cards, licensed, work>>
        BY <1>5 DEF catalogVars
  <2>2. CatalogTypeOK' /\ Stocked' /\ Ended'
        BY <2>1 DEF CatalogInv, CatalogTypeOK, Stocked, Ended
  <2>3. ASSUME NEW u \in CatalogTx PROVE Carries(work[u])' /\ Found(u)' /\ Exclusive(u)'
    <3>1. Carries(work[u]) /\ Found(u) /\ Exclusive(u)
          BY DEF CatalogInv
    <3>2. Exclusive(u)'
          BY <2>1, <3>1 DEF Exclusive, Deleting, PlanThere, Remaining
    <3> QED
        BY <2>1, <3>1, <3>2 DEF Found
  <2>4. \A u, v \in CatalogTx : u # v => Apart(u, v)'
        BY <2>1 DEF CatalogInv, Apart
  <2> QED
      BY <2>2, <2>3, <2>4 DEF CatalogInv
<1> QED
    BY <1>1, <1>2, <1>3, <1>4, <1>5 DEF CatalogNext

THEOREM CatalogInvariant == CatalogSpec => []CatalogInv
    BY CatalogFirst, CatalogSteps, PTL DEF CatalogSpec

\* The rows of the catalogue and what its handlers hold have their types at any time
\* (catalog.go, adminsvc.go).
THEOREM CatalogTypes == CatalogSpec => []CatalogTypeOK
<1>1. CatalogInv => CatalogTypeOK
      BY DEF CatalogInv
<1> QED
    BY <1>1, CatalogInvariant, PTL

\* A batch is there with all of its cards or not at all, DeletePlan deletes no card
\* that is in use, and a deleted plan leaves no batch or licence behind, for any
\* number of batches, card codes and handlers in flight.
THEOREM BatchesAreWhole == CatalogSpec => []BatchesWhole
<1>1. CatalogInv => BatchesWhole
  <2> SUFFICES ASSUME CatalogInv PROVE BatchesWhole
      OBVIOUS
  <2>1. ASSUME NEW t \in CatalogTx, NEW k \in Stock, work[t].op = "delete", k \in work[t].rows
        PROVE  cards[k].status = "unused"
        BY <2>1 DEF CatalogInv, Found
  <2> QED
      BY <2>1 DEF CatalogInv, Stocked, Ended, BatchesWhole
<1> QED
    BY <1>1, CatalogInvariant, PTL

-----------------------------------------------------------------------------
(***************************************************************************)
(* The rate limit holds for any window and any skew of the clocks: a hit   *)
(* was scored by a clock near its time (Scored), and whatever is no longer *)
(* in the set is outside of every clock's window (Forgotten).              *)
(***************************************************************************)
LEMMA RateBounds ==
    /\ RateSkew \in Nat /\ RateStall \in Nat /\ Window \in Nat /\ ConfigTTL \in Nat
    /\ RateMaxTime \in Nat /\ Window > RateSkew + RateStall
    /\ Limits \subseteq Nat \ {0} /\ Fallback \in Nat \ {0}
    /\ \A s \in Servers : ServerSkew[s] \in Nat /\ ServerSkew[s] <= RateSkew
BY RateAssumption

\* The clock a request read was at most RateSkew ahead, at most RateStall ago.
Asked == \A a \in Asks : asks[a].pc = "script" =>
    /\ asks[a].began <= rateNow /\ rateNow <= asks[a].began + RateStall
    /\ asks[a].began <= asks[a].clock /\ asks[a].clock <= asks[a].began + RateSkew

\* So was the score of a hit, and hits are numbered in the order of their times.
Scored == \A h \in 1..Len(hits) :
    /\ hits[h].at <= rateNow
    /\ hits[h].score <= hits[h].at + RateSkew
    /\ hits[h].at <= hits[h].score + RateStall
    /\ \A g \in 1..Len(hits) : h <= g => hits[h].at <= hits[g].at

\* While Redis keeps its keys, what is not in the set is too old for every clock.
Forgotten == ~outage => Recent(rateNow, Certain) \subseteq zset

\* A replica has read what was in force at known.at: if another threshold is now,
\* it was replaced since.
Remembered == \A s \in Servers :
    /\ known[s].at <= rateNow
    /\ ~TooOld(s) /\ Given(s) # InForce => known[s].at <= replaced[Given(s)]

WindowInv == RateTypeOK /\ Asked /\ Scored /\ Forgotten
RateInv == WindowInv /\ Remembered

LEMMA RateInvInit == RateInit => RateInv
  <1> SUFFICES ASSUME RateInit PROVE RateInv
    OBVIOUS
  <1> USE RateBounds DEF RateInit
  <1>1. RateTypeOK
    <2>1. NoAsk \in [pc : {"idle", "script"}, began : Nat, limit : Thresholds, clock : Nat]
      BY DEF NoAsk, Thresholds
    <2>2. zset \subseteq 1..Len(hits) /\ hits \in Seq([at : Nat, score : Nat])
      OBVIOUS
    <2>3. asks \in [Asks -> [pc : {"idle", "script"}, began : Nat, limit : Thresholds, clock : Nat]]
      BY <2>1
    <2>4. replaced \in [Thresholds -> Nat]
      OBVIOUS
    <2>5. known \in [Servers -> [value : Limits \cup {0}, at : Int]]
      OBVIOUS
    <2> QED
      BY <2>2, <2>3, <2>4, <2>5 DEF RateTypeOK
  <1>2. Asked
    BY DEF Asked, NoAsk
  <1>3. Scored /\ Forgotten
    BY DEF Scored, Forgotten, Recent
  <1>4. Remembered
    BY DEF Remembered, TooOld
  <1> QED
    BY <1>1, <1>2, <1>3, <1>4 DEF RateInv, WindowInv

\* The arithmetic: t is the time, began and clock are the request's, at and score
\* are the hit's.
LEMMA HitCounted ==
  ASSUME NEW t \in Nat, NEW began \in Nat, NEW clock \in Nat, NEW at \in Nat, NEW score \in Nat,
         began <= t, clock <= began + RateSkew, at <= score + RateStall,
         t - at < Window - RateSkew - RateStall
  PROVE  score > clock - Window
BY RateBounds

LEMMA CountedStill ==
  ASSUME NEW t \in Nat, NEW began \in Nat, NEW clock \in Nat, NEW at \in Nat, NEW score \in Nat,
         t <= began + RateStall, began <= clock, score <= at + RateSkew, score > clock - Window
  PROVE  t - at < Window + RateSkew + RateStall
BY RateBounds

LEMMA LaterIsYounger ==
  ASSUME NEW t \in Nat, NEW at \in Nat, NEW later \in Nat, at <= later,
         t - at < Window - RateSkew - RateStall
  PROVE  t < later + Window
BY RateBounds

LEMMA ClockNear ==
  ASSUME NEW t \in Nat, NEW began \in Nat, NEW clock \in Nat, began <= t,
         t <= began + RateStall, began <= clock, clock <= began + RateSkew
  PROVE  t <= clock + RateStall /\ clock <= t + RateSkew
BY RateBounds

LEMMA HitTyped ==
  ASSUME RateTypeOK, NEW h \in 1..Len(hits)
  PROVE  hits[h].at \in Nat /\ hits[h].score \in Nat
  <1>1. hits \in Seq([at : Nat, score : Nat])
    BY DEF RateTypeOK
  <1>2. hits[h] \in [at : Nat, score : Nat]
    BY <1>1, ElementOfSeq
  <1> QED
    BY <1>2

\* The set that the script leaves has what every clock still counts.
LEMMA KeptRecent ==
  ASSUME WindowInv, NEW a \in Asks, asks[a].pc = "script", ~outage
  PROVE  Recent(rateNow, Certain) \subseteq Kept(a)
  <1> SUFFICES ASSUME NEW h \in Recent(rateNow, Certain) PROVE h \in Kept(a)
    OBVIOUS
  <1>1. /\ rateNow \in Nat /\ Len(hits) \in Nat /\ hits \in Seq([at : Nat, score : Nat])
        /\ asks[a].began \in Nat /\ asks[a].clock \in Nat
    BY DEF WindowInv, RateTypeOK
  <1>2. h \in 1..Len(hits) /\ h \in zset /\ rateNow - hits[h].at < Window - RateSkew - RateStall
    BY DEF WindowInv, Forgotten, Recent, Certain
  <1>3. Len(hits) \in 1..Len(hits) /\ h <= Len(hits)
    BY <1>1, <1>2
  <1>4. /\ hits[h].at \in Nat /\ hits[h].score \in Nat
        /\ hits[Len(hits)].at \in Nat
    BY <1>2, <1>3, HitTyped DEF WindowInv
  <1>5. hits[h].at <= hits[Len(hits)].at /\ hits[h].at <= hits[h].score + RateStall
    BY <1>2, <1>3 DEF WindowInv, Scored
  <1>6. Alive
    <2>1. rateNow < hits[Len(hits)].at + Window
      BY <1>1, <1>2, <1>4, <1>5, LaterIsYounger
    <2> QED
      BY <1>2, <2>1 DEF Alive
  <1>7. asks[a].began <= rateNow /\ asks[a].clock <= asks[a].began + RateSkew
    BY DEF WindowInv, Asked
  <1>8. hits[h].score > asks[a].clock - Window
    BY <1>1, <1>2, <1>4, <1>5, <1>7, HitCounted
  <1> QED
    BY <1>2, <1>6, <1>8 DEF Kept

\* And nothing that no clock can count any more.
LEMMA KeptPossible ==
  ASSUME WindowInv, NEW a \in Asks, asks[a].pc = "script"
  PROVE  Kept(a) \subseteq Recent(rateNow, Possible)
  <1> SUFFICES ASSUME NEW h \in Kept(a) PROVE h \in Recent(rateNow, Possible)
    OBVIOUS
  <1>1. h \in 1..Len(hits) /\ hits[h].score > asks[a].clock - Window
    BY DEF Kept, WindowInv, RateTypeOK
  <1>2. /\ rateNow \in Nat /\ hits[h].at \in Nat /\ hits[h].score \in Nat
        /\ asks[a].began \in Nat /\ asks[a].clock \in Nat
    <2>1. hits[h].at \in Nat /\ hits[h].score \in Nat
      BY <1>1, HitTyped DEF WindowInv
    <2> QED
      BY <2>1 DEF WindowInv, RateTypeOK
  <1>3. /\ hits[h].score <= hits[h].at + RateSkew
        /\ rateNow <= asks[a].began + RateStall /\ asks[a].began <= asks[a].clock
    BY <1>1 DEF WindowInv, Asked, Scored
  <1>4. rateNow - hits[h].at < Window + RateSkew + RateStall
    BY <1>1, <1>2, <1>3, CountedStill
  <1> QED
    BY <1>1, <1>4 DEF Recent, Possible

LEMMA HitsFinite ==
  ASSUME RateTypeOK, NEW S \in SUBSET (1..Len(hits))
  PROVE  IsFiniteSet(S) /\ Cardinality(S) \in Nat
  <1>1. Len(hits) \in Nat
    BY DEF RateTypeOK
  <1>2. IsFiniteSet(1..Len(hits))
    BY <1>1, FS_Interval
  <1> QED
    BY <1>2, FS_Subset, FS_CardinalityType

\* The window is exact, but for the skew and the time a call takes.
LEMMA WindowFollows == WindowInv => WindowExact
  <1> SUFFICES ASSUME WindowInv, NEW a \in Asks, asks[a].pc = "script"
               PROVE  IF Crowded(a) THEN Cardinality(Recent(rateNow, Possible)) >= asks[a].limit
                      ELSE outage \/ Cardinality(Recent(rateNow, Certain)) < asks[a].limit
    BY DEF WindowExact
  <1>1. RateTypeOK /\ asks[a].limit \in Nat
    BY RateBounds DEF WindowInv, RateTypeOK, Thresholds
  <1>2. /\ Kept(a) \in SUBSET (1..Len(hits))
        /\ Recent(rateNow, Possible) \in SUBSET (1..Len(hits))
        /\ Recent(rateNow, Certain) \in SUBSET (1..Len(hits))
    BY <1>1 DEF Kept, Recent, RateTypeOK
  <1>3. CASE Crowded(a)
    <2>1. Cardinality(Kept(a)) <= Cardinality(Recent(rateNow, Possible))
      BY <1>1, <1>2, KeptPossible, HitsFinite, FS_Subset
    <2> QED
      BY <1>1, <1>2, <1>3, <2>1, HitsFinite DEF Crowded
  <1>4. CASE ~Crowded(a) /\ ~outage
    <2>1. Cardinality(Recent(rateNow, Certain)) <= Cardinality(Kept(a))
      BY <1>1, <1>2, <1>4, KeptRecent, HitsFinite, FS_Subset
    <2> QED
      BY <1>1, <1>2, <1>4, <2>1, HitsFinite DEF Crowded
  <1> QED
    BY <1>3, <1>4

\* Replicas give no threshold that was replaced longer ago than they remember.
LEMMA ThresholdFollows == RateInv => ThresholdFresh
  <1> SUFFICES ASSUME RateInv, NEW s \in Servers, ~TooOld(s), Given(s) # InForce
               PROVE  rateNow - replaced[Given(s)] <= ConfigTTL
    BY DEF ThresholdFresh
  <1>1. /\ rateNow \in Nat /\ known[s].at \in Int /\ known[s].value \in Limits \cup {0}
        /\ replaced \in [Thresholds -> Nat]
    BY DEF RateInv, WindowInv, RateTypeOK
  <1>2. Given(s) \in Thresholds
    BY <1>1, RateBounds DEF Given, Thresholds
  <1>3. known[s].at <= replaced[Given(s)] /\ rateNow - known[s].at <= ConfigTTL
    BY <1>1, RateBounds DEF RateInv, Remembered, TooOld
  <1> QED
    BY <1>1, <1>2, <1>3, RateBounds

AskRecord == [pc : {"idle", "script"}, began : Nat, limit : Thresholds, clock : Nat]

\* A slot that is emptied.
LEMMA SlotEmptied ==
  ASSUME asks \in [Asks -> AskRecord], NEW a \in Asks, asks' = [asks EXCEPT ![a] = NoAsk]
  PROVE  /\ asks' \in [Asks -> AskRecord]
         /\ \A b \in Asks : asks'[b].pc = "script" => asks'[b] = asks[b]
  <1>1. NoAsk \in AskRecord /\ NoAsk.pc = "idle"
    BY RateBounds DEF NoAsk, AskRecord, Thresholds
  <1> QED
    BY <1>1

\* A hit is the last of the list and has the time and the clock it was made at.
LEMMA HitAppended ==
  ASSUME RateTypeOK, NEW a \in Asks, hits' = Append(hits, Hit(a))
  PROVE  /\ hits' \in Seq([at : Nat, score : Nat])
         /\ Len(hits') = Len(hits) + 1
         /\ hits'[Len(hits) + 1] = Hit(a)
         /\ \A h \in 1..Len(hits) : hits'[h] = hits[h]
         /\ Hit(a).at = rateNow /\ Hit(a).score = asks[a].clock
  <1>1. hits \in Seq([at : Nat, score : Nat]) /\ Hit(a) \in [at : Nat, score : Nat]
    BY DEF RateTypeOK, Hit
  <1>2. Hit(a).at = rateNow /\ Hit(a).score = asks[a].clock
    BY DEF Hit
  <1> QED
    BY <1>1, <1>2, AppendProperties

RateStep == [RateNext]_<<rateVars, thresholdVars>>

LEMMA RateTypeStep ==
  ASSUME RateTypeOK, RateStep
  PROVE  RateTypeOK'
  <1> USE RateBounds DEF RateTypeOK, rateVars, thresholdVars
  <1>1. asks \in [Asks -> AskRecord] /\ Len(hits) \in Nat
    BY DEF AskRecord
  <1>2. ASSUME NEW a \in Asks, NEW s \in Servers, Ask(a, s) PROVE RateTypeOK'
    <2>1. PICK v \in Thresholds :
            asks' = [asks EXCEPT ![a] = [pc |-> "script", began |-> rateNow, limit |-> v,
                                         clock |-> rateNow + ServerSkew[s]]]
      BY <1>2 DEF Ask
    <2>2. rateNow + ServerSkew[s] \in Nat
      OBVIOUS
    <2>3. asks' \in [Asks -> AskRecord]
      BY <1>1, <2>1, <2>2 DEF AskRecord
    <2> QED
      BY <1>2, <2>3 DEF Ask, AskRecord
  <1>3. ASSUME NEW a \in Asks, Admit(a) PROVE RateTypeOK'
    <2>1. asks' \in [Asks -> AskRecord]
      BY <1>1, <1>3, SlotEmptied DEF Admit
    <2>2. hits' \in Seq([at : Nat, score : Nat]) /\ Len(hits') = Len(hits) + 1
      BY <1>3, HitAppended DEF Admit
    <2>3. zset' \subseteq 1..Len(hits')
      <3>1. Kept(a) \subseteq 1..Len(hits)
        BY DEF Kept
      <3> QED
        BY <1>1, <1>3, <2>2, <3>1 DEF Admit
    <2> QED
      BY <1>3, <2>1, <2>2, <2>3 DEF Admit, AskRecord
  <1>4. ASSUME NEW a \in Asks, TurnAway(a) PROVE RateTypeOK'
    <2>1. asks' \in [Asks -> AskRecord]
      BY <1>1, <1>4, SlotEmptied DEF TurnAway
    <2> QED
      BY <1>4, <2>1 DEF TurnAway, AskRecord, Kept
  <1>5. ASSUME NEW a \in Asks, PassUncounted(a) PROVE RateTypeOK'
    <2>1. asks' \in [Asks -> AskRecord]
      BY <1>1, <1>5, SlotEmptied DEF PassUncounted
    <2> QED
      BY <1>5, <2>1 DEF PassUncounted, AskRecord
  <1>6. CASE LoseKeys
    BY <1>6 DEF LoseKeys
  <1>7. CASE RateTick
    BY <1>7 DEF RateTick
  <1>8. ASSUME NEW v \in Limits, SetRateLimit(v) PROVE RateTypeOK'
    <2>1. InForce \in Thresholds
      BY DEF InForce, Thresholds
    <2> QED
      BY <1>8, <2>1 DEF SetRateLimit
  <1>9. ASSUME NEW s \in Servers, LoadThreshold(s) PROVE RateTypeOK'
    <2>1. CASE known' = [known EXCEPT ![s] = [value |-> configured, at |-> rateNow]]
      <3>1. [value |-> configured, at |-> rateNow] \in [value : Limits \cup {0}, at : Int]
        OBVIOUS
      <3>2. known' \in [Servers -> [value : Limits \cup {0}, at : Int]]
        BY <2>1, <3>1
      <3> QED
        BY <1>9, <2>1, <3>2 DEF LoadThreshold
    <2>2. CASE known' = known
      BY <1>9, <2>2 DEF LoadThreshold
    <2> QED
      BY <1>9, <2>1, <2>2 DEF LoadThreshold
  <1>10. CASE UNCHANGED <<rateVars, thresholdVars>>
    BY <1>10
  <1> QED
    BY ONLY RateStep, <1>2, <1>3, <1>4, <1>5, <1>6, <1>7, <1>8, <1>9, <1>10
       DEF RateStep, RateNext, WindowNext, ThresholdNext

LEMMA AskedStep ==
  ASSUME WindowInv, RateStep
  PROVE  Asked'
  <1> USE RateBounds
  <1>1. RateTypeOK /\ Asked /\ rateNow \in Nat /\ asks \in [Asks -> AskRecord]
    BY DEF WindowInv, RateTypeOK, AskRecord
  <1>2. ASSUME rateNow' = rateNow, \A b \in Asks : asks'[b].pc = "script" => asks'[b] = asks[b]
        PROVE  Asked'
    BY <1>1, <1>2 DEF Asked
  <1>3. ASSUME NEW a \in Asks, NEW s \in Servers, Ask(a, s) PROVE Asked'
    <2>1. PICK v \in Thresholds :
            asks' = [asks EXCEPT ![a] = [pc |-> "script", began |-> rateNow, limit |-> v,
                                         clock |-> rateNow + ServerSkew[s]]]
      BY <1>3 DEF Ask
    <2>2. rateNow' = rateNow /\ \A b \in Asks : b # a => asks'[b] = asks[b]
      BY <1>1, <1>3, <2>1 DEF Ask
    <2>3. asks'[a].began = rateNow /\ asks'[a].clock = rateNow + ServerSkew[s]
      BY <1>1, <2>1
    <2> QED
      BY <1>1, <2>2, <2>3 DEF Asked
  <1>4. ASSUME NEW a \in Asks, Admit(a) \/ TurnAway(a) \/ PassUncounted(a) PROVE Asked'
    <2>1. rateNow' = rateNow /\ asks' = [asks EXCEPT ![a] = NoAsk]
      BY <1>4 DEF Admit, TurnAway, PassUncounted
    <2> QED
      BY <1>1, <1>2, <2>1, SlotEmptied
  <1>5. CASE RateTick
    <2>1. asks' = asks /\ rateNow' = rateNow + 1
      BY <1>5 DEF RateTick
    <2> SUFFICES ASSUME NEW a \in Asks, asks[a].pc = "script"
                 PROVE  /\ asks[a].began <= rateNow' /\ rateNow' <= asks[a].began + RateStall
                        /\ asks[a].began <= asks[a].clock /\ asks[a].clock <= asks[a].began + RateSkew
      BY <2>1 DEF Asked
    <2>2. rateNow - asks[a].began < RateStall
      BY <1>5 DEF RateTick
    <2>3. asks[a].began \in Nat /\ asks[a].clock \in Nat
      BY <1>1 DEF AskRecord
    <2> QED
      BY <1>1, <2>1, <2>2, <2>3 DEF Asked
  <1>6. CASE LoseKeys \/ UNCHANGED <<rateVars, thresholdVars>>
    BY <1>2, <1>6 DEF LoseKeys, rateVars
  <1>7. ASSUME \/ \E v \in Limits : SetRateLimit(v)
               \/ \E s \in Servers : LoadThreshold(s)
        PROVE  Asked'
    BY <1>2, <1>7 DEF SetRateLimit, LoadThreshold, rateVars
  <1> QED
    BY ONLY RateStep, <1>3, <1>4, <1>5, <1>6, <1>7 DEF RateStep, RateNext, WindowNext, ThresholdNext

LEMMA ScoredStep ==
  ASSUME WindowInv, RateStep
  PROVE  Scored'
  <1> USE RateBounds
  <1>1. RateTypeOK /\ Scored /\ Asked /\ rateNow \in Nat /\ Len(hits) \in Nat
    BY DEF WindowInv, RateTypeOK
  <1>2. ASSUME hits' = hits, rateNow' = rateNow PROVE Scored'
    BY <1>1, <1>2 DEF Scored
  <1>3. ASSUME NEW a \in Asks, Admit(a) PROVE Scored'
    <2>1. /\ Len(hits') = Len(hits) + 1 /\ hits'[Len(hits) + 1] = Hit(a)
          /\ \A h \in 1..Len(hits) : hits'[h] = hits[h]
          /\ Hit(a).at = rateNow /\ Hit(a).score = asks[a].clock /\ rateNow' = rateNow
      BY <1>1, <1>3, HitAppended DEF Admit
    <2>2. rateNow <= asks[a].clock + RateStall /\ asks[a].clock <= rateNow + RateSkew
      <3>1. asks[a].began \in Nat /\ asks[a].clock \in Nat
        BY <1>1 DEF RateTypeOK
      <3>2. /\ asks[a].began <= rateNow /\ rateNow <= asks[a].began + RateStall
            /\ asks[a].began <= asks[a].clock /\ asks[a].clock <= asks[a].began + RateSkew
        BY <1>1, <1>3 DEF Admit, Asked
      <3> QED
        BY <1>1, <3>1, <3>2, ClockNear
    <2>3. ASSUME NEW h \in 1..Len(hits')
          PROVE  /\ hits'[h].at <= rateNow /\ hits'[h].score <= hits'[h].at + RateSkew
                 /\ hits'[h].at <= hits'[h].score + RateStall
      <3>1. CASE h = Len(hits) + 1
        BY <1>1, <2>1, <2>2, <3>1
      <3>2. CASE h \in 1..Len(hits)
        BY <1>1, <2>1, <3>2 DEF Scored
      <3> QED
        BY <1>1, <2>1, <3>1, <3>2
    <2>4. ASSUME NEW h \in 1..Len(hits'), NEW g \in 1..Len(hits'), h <= g
          PROVE  hits'[h].at <= hits'[g].at
      <3>1. CASE g = Len(hits) + 1
        BY <2>1, <2>3, <3>1
      <3>2. CASE g \in 1..Len(hits)
        <4>1. h \in 1..Len(hits)
          BY <1>1, <2>1, <2>4, <3>2
        <4> QED
          BY <1>1, <2>1, <2>4, <3>2, <4>1 DEF Scored
      <3> QED
        BY <1>1, <2>1, <3>1, <3>2
    <2> QED
      BY <2>1, <2>3, <2>4 DEF Scored
  <1>4. CASE RateTick
    <2>1. hits' = hits /\ rateNow' = rateNow + 1
      BY <1>4 DEF RateTick
    <2>2. \A h \in 1..Len(hits) : hits[h].at <= rateNow + 1
      <3> SUFFICES ASSUME NEW h \in 1..Len(hits) PROVE hits[h].at <= rateNow + 1
        OBVIOUS
      <3> QED
        BY <1>1, HitTyped DEF Scored
    <2> QED
      BY <1>1, <2>1, <2>2 DEF Scored
  <1>5. CASE UNCHANGED <<rateVars, thresholdVars>> \/ LoseKeys
    BY <1>2, <1>5 DEF rateVars, LoseKeys
  <1>6. ASSUME NEW a \in Asks,
               (\E s \in Servers : Ask(a, s)) \/ TurnAway(a) \/ PassUncounted(a)
        PROVE  Scored'
    BY <1>2, <1>6 DEF Ask, TurnAway, PassUncounted
  <1>7. ASSUME \/ \E v \in Limits : SetRateLimit(v)
               \/ \E s \in Servers : LoadThreshold(s)
        PROVE  Scored'
    BY <1>2, <1>7 DEF SetRateLimit, LoadThreshold, rateVars
  <1> QED
    BY ONLY RateStep, <1>3, <1>4, <1>5, <1>6, <1>7 DEF RateStep, RateNext, WindowNext, ThresholdNext

LEMMA ForgottenStep ==
  ASSUME WindowInv, RateStep
  PROVE  Forgotten'
  <1> USE RateBounds
  <1>1. RateTypeOK /\ Forgotten /\ rateNow \in Nat /\ Len(hits) \in Nat
    BY DEF WindowInv, RateTypeOK
  <1>2. ASSUME UNCHANGED <<rateNow, hits, zset, outage>> PROVE Forgotten'
    BY <1>1, <1>2 DEF Forgotten, Recent
  <1>3. ASSUME NEW a \in Asks, Admit(a) PROVE Forgotten'
    <2> SUFFICES ASSUME ~outage, NEW h \in Recent(rateNow, Certain)' PROVE h \in zset'
      BY <1>3 DEF Admit, Forgotten
    <2>1. /\ Len(hits') = Len(hits) + 1 /\ rateNow' = rateNow
          /\ \A g \in 1..Len(hits) : hits'[g] = hits[g]
      BY <1>1, <1>3, HitAppended DEF Admit
    <2>2. h \in 1..Len(hits') /\ rateNow - hits'[h].at < Certain
      BY <2>1 DEF Recent, Certain
    <2>3. CASE h = Len(hits) + 1
      BY <1>3, <2>3 DEF Admit
    <2>4. CASE h \in 1..Len(hits)
      <3>1. h \in Recent(rateNow, Certain)
        BY <2>1, <2>2, <2>4 DEF Recent
      <3> QED
        BY <1>3, <3>1, KeptRecent DEF Admit
    <2> QED
      BY <1>1, <2>1, <2>2, <2>3, <2>4
  <1>4. ASSUME NEW a \in Asks, TurnAway(a) PROVE Forgotten'
    <2>1. Recent(rateNow, Certain)' = Recent(rateNow, Certain)
      BY <1>4 DEF TurnAway, Recent, Certain
    <2> QED
      BY <1>4, <2>1, KeptRecent DEF TurnAway, Forgotten
  <1>5. CASE RateTick
    <2> SUFFICES ASSUME ~outage, NEW h \in Recent(rateNow, Certain)' PROVE h \in zset
      BY <1>5 DEF RateTick, Forgotten
    <2>1. h \in 1..Len(hits) /\ rateNow + 1 - hits[h].at < Certain
      <3>1. hits' = hits /\ rateNow' = rateNow + 1
        BY <1>5 DEF RateTick
      <3>2. h \in 1..Len(hits') /\ rateNow' - hits'[h].at < Certain
        BY DEF Recent, Certain
      <3>3. h \in 1..Len(hits)
        BY <3>1, <3>2
      <3>4. hits'[h].at = hits[h].at /\ Certain \in Int
        BY <3>1 DEF Certain
      <3>5. hits[h].at \in Nat
        BY <1>1, <3>3, HitTyped
      <3>6. rateNow' - hits[h].at < Certain
        BY <3>2, <3>4
      <3> QED
        BY <1>1, <3>1, <3>3, <3>4, <3>5, <3>6
    <2>2. rateNow - hits[h].at < Certain
      BY <1>1, <2>1, HitTyped DEF Certain
    <2> QED
      BY <1>1, <2>1, <2>2 DEF Forgotten, Recent
  <1>6. ASSUME LoseKeys \/ \E a \in Asks : PassUncounted(a) PROVE Forgotten'
    BY <1>6 DEF LoseKeys, PassUncounted, Forgotten
  <1>7. CASE UNCHANGED <<rateVars, thresholdVars>>
    BY <1>2, <1>7 DEF rateVars
  <1>8. ASSUME NEW a \in Asks, NEW s \in Servers, Ask(a, s) PROVE Forgotten'
    BY <1>2, <1>8 DEF Ask
  <1>9. ASSUME \/ \E v \in Limits : SetRateLimit(v)
               \/ \E s \in Servers : LoadThreshold(s)
        PROVE  Forgotten'
    BY <1>2, <1>9 DEF SetRateLimit, LoadThreshold, rateVars
  <1> QED
    BY ONLY RateStep, <1>3, <1>4, <1>5, <1>6, <1>7, <1>8, <1>9
       DEF RateStep, RateNext, WindowNext, ThresholdNext

LEMMA RememberedStep ==
  ASSUME RateInv, RateStep
  PROVE  Remembered'
  <1> USE RateBounds
  <1>1. /\ RateTypeOK /\ Remembered /\ rateNow \in Nat /\ replaced \in [Thresholds -> Nat]
        /\ known \in [Servers -> [value : Limits \cup {0}, at : Int]]
        /\ configured \in Limits \cup {0}
    BY DEF RateInv, WindowInv, RateTypeOK
  <1>2. ASSUME UNCHANGED <<rateNow, known, configured, replaced>> PROVE Remembered'
    BY <1>1, <1>2 DEF Remembered, TooOld, Given, InForce
  <1>3. ASSUME NEW v \in Limits, SetRateLimit(v) PROVE Remembered'
    <2> SUFFICES ASSUME NEW s \in Servers
                 PROVE  /\ known'[s].at <= rateNow'
                        /\ TooOld(s)' \/ Given(s)' = InForce' \/ known'[s].at <= replaced'[Given(s)']
      BY DEF Remembered
    <2>1. /\ known' = known /\ rateNow' = rateNow
          /\ replaced' = [replaced EXCEPT ![InForce] = rateNow]
      BY <1>3 DEF SetRateLimit, rateVars
    <2>2. Given(s)' = Given(s) /\ TooOld(s)' = TooOld(s) /\ Given(s) \in Thresholds
      BY <1>1, <2>1 DEF Given, TooOld, Thresholds
    <2>3. known[s].at <= rateNow
      BY <1>1 DEF Remembered
    <2>4. CASE Given(s) = InForce
      <3>1. replaced'[Given(s)] = rateNow
        BY <1>1, <2>1, <2>2, <2>4
      <3> QED
        BY <2>1, <2>2, <2>3, <3>1
    <2>5. CASE Given(s) # InForce
      <3>1. replaced'[Given(s)] = replaced[Given(s)]
        BY <1>1, <2>1, <2>2, <2>5
      <3> QED
        BY <1>1, <2>1, <2>2, <2>3, <2>5, <3>1 DEF Remembered
    <2> QED
      BY <2>4, <2>5
  <1>4. ASSUME NEW s \in Servers, LoadThreshold(s) PROVE Remembered'
    <2>1. CASE known' = known
      BY <1>2, <1>4, <2>1 DEF LoadThreshold, rateVars
    <2>2. CASE known' = [known EXCEPT ![s] = [value |-> configured, at |-> rateNow]]
      <3>1. UNCHANGED <<rateNow, configured, replaced>>
        BY <1>4 DEF LoadThreshold, rateVars
      <3>2. known'[s].at = rateNow /\ Given(s)' = InForce'
        BY <1>1, <2>2, <3>1 DEF Given, InForce
      <3>3. \A x \in Servers : x # s => known'[x] = known[x]
        BY <1>1, <2>2
      <3> QED
        BY <1>1, <3>1, <3>2, <3>3 DEF Remembered, TooOld, Given, InForce
    <2> QED
      BY <1>4, <2>1, <2>2 DEF LoadThreshold
  <1>5. CASE RateTick
    <2>1. rateNow' = rateNow + 1 /\ UNCHANGED <<known, configured, replaced>>
      BY <1>5 DEF RateTick, thresholdVars
    <2> SUFFICES ASSUME NEW s \in Servers
                 PROVE  /\ known[s].at <= rateNow + 1
                        /\ TooOld(s)' \/ Given(s) = InForce \/ known[s].at <= replaced[Given(s)]
      BY <2>1 DEF Remembered, Given, InForce
    <2>2. known[s].at \in Int /\ known[s].at <= rateNow
      BY <1>1 DEF Remembered
    <2>3. TooOld(s) => TooOld(s)'
      BY <1>1, <2>1, <2>2 DEF TooOld
    <2> QED
      BY <1>1, <2>2, <2>3 DEF Remembered
  <1>6. CASE LoseKeys \/ UNCHANGED <<rateVars, thresholdVars>>
    BY <1>2, <1>6 DEF LoseKeys, rateVars, thresholdVars
  <1>7. ASSUME NEW a \in Asks,
               (\E s \in Servers : Ask(a, s)) \/ Admit(a) \/ TurnAway(a) \/ PassUncounted(a)
        PROVE  Remembered'
    BY <1>2, <1>7 DEF Ask, Admit, TurnAway, PassUncounted, thresholdVars
  <1> QED
    BY ONLY RateStep, <1>3, <1>4, <1>5, <1>6, <1>7 DEF RateStep, RateNext, WindowNext, ThresholdNext

LEMMA RateInvAlways == RateSpec => []RateInv
  <1>1. RateInv /\ [RateNext]_<<rateVars, thresholdVars>> => RateInv'
    BY RateTypeStep, AskedStep, ScoredStep, ForgottenStep, RememberedStep
       DEF RateInv, WindowInv, RateStep
  <1> QED
    BY RateInvInit, <1>1, PTL DEF RateSpec

\* Type correctness of the rate limit (rlScript, ScopeRateLimiter).
THEOREM RateTypes == RateSpec => []RateTypeOK
  <1>1. RateInv => RateTypeOK
    BY DEF RateInv, WindowInv
  <1> QED
    BY RateInvAlways, <1>1, PTL

\* By the clocks and memories of any number of replicas, whatever their skew, no
\* address gets more than the threshold in force allows, and none is refused that
\* has been quiet for a window (Cache.RateLimit, rlScript, ScopeRateLimiter.limit).
THEOREM RateLimitHolds == RateSpec => []LimitApplied
  <1>1. RateInv => LimitApplied
    BY WindowFollows, ThresholdFollows DEF LimitApplied, RateInv
  <1> QED
    BY RateInvAlways, <1>1, PTL

-----------------------------------------------------------------------------
(***************************************************************************)
(* The composition.                                                        *)
(***************************************************************************)

\* A step of the composition is a step of one service, and the others stutter.
LEMMA ServicesStep ==
    [ServicesNext]_servicesVars =>
        /\ [AuthNext]_authVars /\ [LedgerNext]_ledgerVars /\ [UsersNext]_userVars
        /\ [RateNext]_<<rateVars, thresholdVars>> /\ [CatalogNext]_catalogVars
        /\ focus' = focus
<1> SUFFICES ASSUME [ServicesNext]_servicesVars
             PROVE  /\ [AuthNext]_authVars /\ [LedgerNext]_ledgerVars
                    /\ [UsersNext]_userVars /\ [RateNext]_<<rateVars, thresholdVars>>
                    /\ [CatalogNext]_catalogVars /\ focus' = focus
    OBVIOUS
<1>1. CASE AuthStep
      BY <1>1 DEF AuthStep, limitVars
<1>2. CASE LedgerStep
      BY <1>2 DEF LedgerStep, limitVars
<1>3. CASE UsersStep
      BY <1>3 DEF UsersStep, limitVars
<1>4. CASE WindowStep
  <2>1. focus' = focus
        BY <1>4 DEF WindowStep
  <2> QED
      BY <1>4, <2>1 DEF WindowStep, RateNext
<1>5. CASE ThresholdStep
      BY <1>5 DEF ThresholdStep, RateNext
<1>6. CASE CatalogStep
      BY <1>6 DEF CatalogStep, limitVars
<1>7. CASE UNCHANGED servicesVars
      BY <1>7 DEF servicesVars, limitVars
<1> QED
    BY <1>1, <1>2, <1>3, <1>4, <1>5, <1>6, <1>7 DEF ServicesNext

\* Administrators, balances, accounts, the rate limit and the catalogue, followed
\* one at a time, are the five of them: their handlers neither wait for one another
\* nor write what another reads.
THEOREM ServicesAreParts ==
    ServicesSpec => AuthSpec /\ LedgerSpec /\ UsersSpec /\ RateSpec /\ CatalogSpec
<1>1. ServicesInit => AuthInit /\ LedgerInit /\ UsersInit /\ RateInit /\ CatalogInit
      BY DEF ServicesInit
<1> QED
    BY <1>1, ServicesStep, PTL
       DEF ServicesSpec, AuthSpec, LedgerSpec, UsersSpec, RateSpec, CatalogSpec

\* Whatever the services do, every row, request and counter has the values its
\* columns and fields can hold (ServicesTypeOK).
THEOREM ServicesTyped == ServicesSpec => []ServicesTypeOK
<1> DEFINE Followed ==
        focus \in {"auth", "ledger", "users", "window", "threshold", "catalog"}
<1>1. ServicesInit => Followed
      BY DEF ServicesInit
<1>2. Followed /\ [ServicesNext]_servicesVars => Followed'
      BY ServicesStep
<1>3. AuthTypeOK /\ LedgerTypeOK /\ UsersTypeOK /\ RateTypeOK /\ CatalogTypeOK /\ Followed
      => ServicesTypeOK
      BY DEF ServicesTypeOK
<1> QED
    BY <1>1, <1>2, <1>3, ServicesAreParts, AuthTypes, LedgerTypeCorrect, UsersTypeCorrect,
       RateTypes, CatalogTypes, PTL DEF ServicesSpec

\* What is proved of the services is so of the composition: sessions follow the
\* account, guesses are bounded, a secret of MFA is tried once, the log of an agent is
\* a chain and its batches are paid, an account is on one machine, its days add up,
\* a replaced password ends, the limit is applied and batches are whole.
THEOREM ServicesSafe ==
    ServicesSpec => [](/\ SessionsFollowAccount /\ GuessesBounded /\ SecretTriedOnce
                       /\ LedgerChain /\ BatchesPaid
                       /\ OneMachine /\ DaysAccounted /\ OldPasswordEnds
                       /\ LimitApplied /\ BatchesWhole)
BY ServicesAreParts, SessionsFollow, GuessesAreBounded, SecretsTriedOnce, LogIsAChain,
   BatchesArePaid, AccountOnOneMachine, DaysAddUp, ReplacedPasswordEnds, RateLimitHolds,
   BatchesAreWhole, PTL

===============================================================================
