----------------------------- MODULE MCOperations ------------------------------
(***************************************************************************)
(* RowLocks, Startup and Expiry in one run.  They share no state, so a     *)
(* behaviour follows one of them and the others stay in their initial      *)
(* states: what is checked is each of them alone.                          *)
(***************************************************************************)
EXTENDS RowLocks, Startup, Expiry

VARIABLE focus   \* the one that is followed

operationsVars == <<rowVars, startVars, expiryVars, focus>>

\* A cfg has no sets of numbers and model values.
Dates == {0, Forever}

OperationsInit ==
    /\ RowInit /\ StartInit /\ ExpiryInit
    /\ \/ focus \in {"rows", "startup"} /\ date = 0
       \/ focus = "expiry"

RowStep == focus = "rows" /\ RowNext /\ UNCHANGED <<startVars, expiryVars, focus>>
StartStep == focus = "startup" /\ StartNext /\ UNCHANGED <<rowVars, expiryVars, focus>>
ExpiryStep == focus = "expiry" /\ ExpiryNext /\ UNCHANGED <<rowVars, startVars, focus>>

OperationsNext == RowStep \/ StartStep \/ ExpiryStep

\* The fairness of each module.  In their initial states no transaction is open, no
\* licence is late and no lease is old, so that it asks nothing of those that are
\* not followed; a replica, which is down, is to be started only when it is.
OperationsSpec ==
    /\ OperationsInit /\ [][OperationsNext]_operationsVars
    /\ RowFairness /\ ExpiryFairness
    /\ \A r \in Replicas : WF_startVars(focus = "startup" /\ Boots(r))

\* Rows, locks, transactions, replicas and dates have the values their columns and
\* variables can hold.
OperationsTypeOK == RowTypeOK /\ StartTypeOK /\ ExpiryTypeOK
=============================================================================
