-------------------------------- MODULE Catalog --------------------------------
(***************************************************************************)
(* A product, one plan of it, and the batches of cards made or imported    *)
(* for the plan, until the plan is deleted.  Making a batch and deleting a *)
(* plan decide on what they read before their transactions; what keeps the *)
(* tables whole after that are the transactions, the row locks, the WHERE  *)
(* of the DELETE, the foreign keys and the unique index on cards.lookup.   *)
(*                                                                         *)
(* Nothing of a transaction is seen before its commit.  A row it inserted, *)
(* deleted or locked makes the others wait; an INSERT that refers to the   *)
(* plan shares its row until the commit, so that a DELETE of it waits.     *)
(***************************************************************************)
EXTENDS FiniteSets

CONSTANTS
    Batches,          \* requests for a batch
    Stock,            \* card codes
    Contents,         \* [Batches -> SUBSET Stock]: an import may repeat a code
    AgentBatches,     \* the batches an agent makes; staff makes the others
    CatalogTx,        \* slots for handlers in flight at once
    NoBatch

ASSUME CatalogAssumption ==
    /\ Contents \in [Batches -> (SUBSET Stock) \ {{}}]
    /\ AgentBatches \subseteq Batches
    /\ NoBatch \notin Batches \cup Stock \cup CatalogTx

VARIABLES
    product, plan,    \* statuses; the plan is at first not there, and may be deleted
    grant,            \* the agent has a row for the product in agent_product_grants
    cardBatches,      \* rows of card_batches: "none", "made", "deleted"
    cards,            \* rows of cards
    licensed,         \* the cards licences were made from
    work              \* the handler in each slot

catalogVars == <<product, plan, grant, cardBatches, cards, licensed, work>>

CardStates == {"unused", "active", "frozen", "finished"}
NoCard == [status |-> "none", batch |-> NoBatch]

\* rows: the rows of cards it inserted, deleted or locked; shares: it refers to
\* the plan; gone: the rows of card_batches it deleted.
Idle == [op |-> "none", next |-> "begin", batch |-> NoBatch, rows |-> {}, gone |-> {},
         shares |-> FALSE]
Work ==
    [op : {"none", "batch", "activate", "delete"},
     next : {"begin", "batch row", "card rows", "licence row", "count licences",
             "count cards", "delete cards", "delete batches", "delete plan", "commit"},
     batch : Batches \cup {NoBatch}, rows : SUBSET Stock, gone : SUBSET Batches,
     shares : BOOLEAN]

CatalogInit ==
    /\ product = "active" /\ plan = "none"
    /\ grant = FALSE
    /\ cardBatches = [b \in Batches |-> "none"]
    /\ cards = [k \in Stock |-> NoCard]
    /\ licensed = {}
    /\ work = [t \in CatalogTx |-> Idle]

Others(t) == CatalogTx \ {t}
RowHeld(k, t) == \E u \in Others(t) : k \in work[u].rows
PlanHeld(t) == \E u \in Others(t) : work[u].op = "delete" /\ work[u].next = "commit"
PlanShared(t) == \E u \in Others(t) : work[u].shares
PlanThere == plan \in {"active", "retired"}

Is(t, op, next) == work[t].op = op /\ work[t].next = next
Go(t, next) == work' = [work EXCEPT ![t].next = next]
OnlyWork == UNCHANGED <<product, plan, grant, cardBatches, cards, licensed>>

-----------------------------------------------------------------------------
CreatePlan ==
    /\ plan = "none" /\ plan' = "active"
    /\ UNCHANGED <<product, grant, cardBatches, cards, licensed, work>>

SetPlanStatus(s) ==
    /\ PlanThere /\ ~PlanHeld(NoBatch)
    /\ plan' = s
    /\ UNCHANGED <<product, grant, cardBatches, cards, licensed, work>>

SetProductStatus(s) ==
    /\ product' = s
    /\ UNCHANGED <<plan, grant, cardBatches, cards, licensed, work>>

SetAgentProductGrant(granted) ==
    /\ grant' = granted
    /\ UNCHANGED <<product, plan, cardBatches, cards, licensed, work>>

-----------------------------------------------------------------------------
\* CreateCardBatch and ImportCards: plan, product and grant are read first.
BeginBatchTx(t) ==
    \E b \in Batches :
        /\ work[t] = Idle
        /\ cardBatches[b] = "none" /\ \A u \in CatalogTx : work[u].batch # b
        /\ product = "active" /\ plan = "active"
        /\ b \in AgentBatches => grant
        /\ work' = [work EXCEPT ![t] = [Idle EXCEPT !.op = "batch", !.next = "batch row",
                                                   !.batch = b]]
        /\ OnlyWork

\* CreateBatch: INSERT INTO card_batches, whatever the status of the plan is now.
InsertBatchRow(t) ==
    /\ Is(t, "batch", "batch row")
    /\ PlanThere /\ ~PlanHeld(t)
    /\ work' = [work EXCEPT ![t].next = "card rows", ![t].shares = TRUE]
    /\ OnlyWork

\* One INSERT INTO cards after the other; the index on lookup waits for a code
\* in flight and refuses one that is there.
InsertCard(t) ==
    /\ Is(t, "batch", "card rows")
    /\ \E k \in Contents[work[t].batch] \ work[t].rows :
        /\ cards[k] = NoCard /\ ~RowHeld(k, t)
        /\ work' = [work EXCEPT
                      ![t].rows = @ \cup {k},
                      ![t].next = IF work[t].rows \cup {k} = Contents[work[t].batch]
                                  THEN "commit" ELSE "card rows"]
    /\ OnlyWork

CommitBatch(t) ==
    /\ Is(t, "batch", "commit")
    /\ cardBatches' = [cardBatches EXCEPT ![work[t].batch] = "made"]
    /\ cards' = [k \in Stock |-> IF k \in work[t].rows
                                 THEN [status |-> "unused", batch |-> work[t].batch]
                                 ELSE cards[k]]
    /\ work' = [work EXCEPT ![t] = Idle]
    /\ UNCHANGED <<product, plan, grant, licensed>>

-----------------------------------------------------------------------------
\* Activate: the card FOR UPDATE, then product and plan without a lock.
LockCard(t) ==
    \E k \in Stock :
        /\ work[t] = Idle
        /\ cards[k].status = "unused" /\ ~RowHeld(k, t)
        /\ product = "active" /\ plan = "active"
        /\ work' = [work EXCEPT ![t] = [Idle EXCEPT !.op = "activate", !.rows = {k},
                                                   !.next = "licence row"]]
        /\ OnlyWork

InsertLicence(t) ==
    /\ Is(t, "activate", "licence row")
    /\ PlanThere /\ ~PlanHeld(t)
    /\ work' = [work EXCEPT ![t].next = "commit", ![t].shares = TRUE]
    /\ OnlyWork

CommitActivation(t) ==
    /\ Is(t, "activate", "commit")
    /\ cards' = [k \in Stock |-> IF k \in work[t].rows
                                 THEN [cards[k] EXCEPT !.status = "active"] ELSE cards[k]]
    /\ licensed' = licensed \cup work[t].rows
    /\ work' = [work EXCEPT ![t] = Idle]
    /\ UNCHANGED <<product, plan, grant, cardBatches>>

\* CardAction, Redeem and UserBindCard, as one step each: their order among
\* themselves is in RowLocks.
UseCard(k, s) ==
    /\ ~RowHeld(k, NoBatch)
    /\ \/ cards[k].status = "unused" /\ s \in {"frozen", "finished"}
       \/ cards[k].status = "active" /\ s \in {"frozen", "finished"}
       \/ cards[k].status = "frozen"
          /\ s \in {IF k \in licensed THEN "active" ELSE "unused", "finished"}
    /\ cards' = [cards EXCEPT ![k].status = s]
    /\ UNCHANGED <<product, plan, grant, cardBatches, licensed, work>>

-----------------------------------------------------------------------------
\* DeletePlan: three reads, and then a transaction.
BeginDelete(t) ==
    /\ work[t] = Idle
    /\ plan = "retired"
    /\ work' = [work EXCEPT ![t] = [Idle EXCEPT !.op = "delete", !.next = "count licences"]]
    /\ OnlyWork

CountPlanLicenses(t) ==
    /\ Is(t, "delete", "count licences")
    /\ licensed = {}
    /\ Go(t, "count cards")
    /\ OnlyWork

CountPlanLiveCards(t) ==
    /\ Is(t, "delete", "count cards")
    /\ \A k \in Stock : cards[k].status \in {"none", "unused"}
    /\ Go(t, "delete cards")
    /\ OnlyWork

\* DELETE FROM cards WHERE status = 'unused': it waits for rows others hold, and
\* looks at their status again.
Doomed == {k \in Stock : cards[k].status = "unused"}

\* (DeleteCardsAtOnce: the statement outside a transaction.)
DeleteCardsAtOnce(t) ==
    /\ Is(t, "delete", "delete cards")
    /\ \A k \in Doomed : ~RowHeld(k, t)
    /\ cards' = [k \in Stock |-> IF k \in Doomed THEN NoCard ELSE cards[k]]
    /\ Go(t, "delete batches")
    /\ UNCHANGED <<product, plan, grant, cardBatches, licensed>>

VoidAndDeleteUnusedCards(t) ==
    /\ Is(t, "delete", "delete cards")
    /\ \A k \in Doomed : ~RowHeld(k, t)
    /\ work' = [work EXCEPT ![t].rows = Doomed, ![t].next = "delete batches"]
    /\ OnlyWork

\* What is left for a foreign key to find.
Remaining(t) == {k \in Stock : cards[k].status # "none"} \ work[t].rows

\* DELETE FROM card_batches: no card may refer to one any more.
DeleteBatchesByPlan(t) ==
    LET made == {b \in Batches : cardBatches[b] = "made"}
    IN  /\ Is(t, "delete", "delete batches")
        /\ \A k \in Remaining(t) : cards[k].batch \notin made
        /\ work' = [work EXCEPT ![t].gone = made, ![t].next = "delete plan"]
        /\ OnlyWork

\* DELETE FROM plans: no row refers to it, nor one that is about to be committed.
DeletePlanRow(t) ==
    /\ Is(t, "delete", "delete plan")
    /\ PlanThere /\ ~PlanHeld(t) /\ ~PlanShared(t)
    /\ Remaining(t) = {} /\ licensed = {}
    /\ \A b \in Batches \ work[t].gone : cardBatches[b] # "made"
    /\ Go(t, "commit")
    /\ OnlyWork

CommitDelete(t) ==
    /\ Is(t, "delete", "commit")
    /\ plan' = "deleted"
    /\ cards' = [k \in Stock |-> IF k \in work[t].rows THEN NoCard ELSE cards[k]]
    /\ cardBatches' = [b \in Batches |-> IF b \in work[t].gone THEN "deleted" ELSE cardBatches[b]]
    /\ work' = [work EXCEPT ![t] = Idle]
    /\ UNCHANGED <<product, grant, licensed>>

\* A statement fails or finds nothing, the handler refuses, the client or the
\* replica goes away: WithTx rolls back.
RollbackCatalog(t) ==
    /\ work[t] # Idle
    /\ work' = [work EXCEPT ![t] = Idle]
    /\ OnlyWork

CatalogNext ==
    \/ CreatePlan
    \/ \E s \in {"active", "retired"} : SetPlanStatus(s) \/ SetProductStatus(s)
    \/ \E granted \in BOOLEAN : SetAgentProductGrant(granted)
    \/ \E k \in Stock, s \in CardStates : UseCard(k, s)
    \/ \E t \in CatalogTx :
        \/ BeginBatchTx(t) \/ InsertBatchRow(t) \/ InsertCard(t) \/ CommitBatch(t)
        \/ LockCard(t) \/ InsertLicence(t) \/ CommitActivation(t)
        \/ BeginDelete(t) \/ CountPlanLicenses(t) \/ CountPlanLiveCards(t)
        \/ VoidAndDeleteUnusedCards(t) \/ DeleteBatchesByPlan(t)
        \/ DeletePlanRow(t) \/ CommitDelete(t)
        \/ RollbackCatalog(t)

CatalogSpec == CatalogInit /\ [][CatalogNext]_catalogVars

-----------------------------------------------------------------------------
CatalogTypeOK ==
    /\ product \in {"active", "retired"}
    /\ plan \in {"none", "active", "retired", "deleted"}
    /\ grant \in BOOLEAN
    /\ cardBatches \in [Batches -> {"none", "made", "deleted"}]
    /\ cards \in [Stock -> [status : CardStates, batch : Batches] \cup {NoCard}]
    /\ licensed \subseteq Stock
    /\ work \in [CatalogTx -> Work]

\* A batch is there with all of its cards or not at all ("杜绝残缺批次",
\* adminsvc.go:208), whether a repeated code, a failing charge or a crash ends
\* the import, and whether cards are used while their plan is deleted; a card that
\* was activated, frozen or consumed after DeletePlan counted the cards is never
\* among those it deletes; and a deleted plan leaves no batch or licence behind.
BatchesWhole ==
    /\ \A b \in Batches :
        {k \in Stock : cards[k].batch = b} = IF cardBatches[b] = "made" THEN Contents[b] ELSE {}
    /\ \A t \in CatalogTx, k \in Stock :
        work[t].op = "delete" /\ k \in work[t].rows => cards[k].status = "unused"
    /\ plan = "deleted" => licensed = {} /\ \A b \in Batches : cardBatches[b] # "made"
=============================================================================
