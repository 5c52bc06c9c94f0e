------------------------------ MODULE MCServices -------------------------------
(***************************************************************************)
(* AdminAuth, AgentLedger, EndUsers, RateLimit and Catalog in one run.     *)
(* They share neither a row nor a key, so a behaviour follows one of them  *)
(* and the others stay in their initial states: what is checked is each of *)
(* them alone.  The two halves of RateLimit, which share only its clock,   *)
(* are followed apart.                                                     *)
(***************************************************************************)
EXTENDS AdminAuth, AgentLedger, EndUsers, RateLimit, Catalog, TLC

CONSTANTS slow, fast, b1, b2, k1, k2, k3

VARIABLE focus   \* the one that is followed

limitVars == <<rateVars, thresholdVars>>
servicesVars == <<authVars, ledgerVars, userVars, limitVars, catalogVars, focus>>

\* A cfg has no negative numbers and no functions.
BalanceChanges == {2, -1, 5}
OneDay == [c \in UserCards |-> 1]
Skew == (slow :> 0) @@ (fast :> 1)
Overlapping == (b1 :> {k1, k2}) @@ (b2 :> {k2, k3})

\* The cfg uses one set of slots for the requests of all, and one for sessions and
\* machines: the fewer permutations, the cheaper the symmetry.
Alike == Permutations(AuthRequests) \cup Permutations(Sessions)

ServicesInit ==
    /\ AuthInit /\ LedgerInit /\ UsersInit /\ RateInit /\ CatalogInit
    /\ focus \in {"auth", "ledger", "users", "window", "threshold", "catalog"}

AuthStep == focus = "auth" /\ AuthNext
            /\ UNCHANGED <<ledgerVars, userVars, limitVars, catalogVars, focus>>
LedgerStep == focus = "ledger" /\ LedgerNext
              /\ UNCHANGED <<authVars, userVars, limitVars, catalogVars, focus>>
UsersStep == focus = "users" /\ UsersNext
             /\ UNCHANGED <<authVars, ledgerVars, limitVars, catalogVars, focus>>
\* Nothing is claimed of the window once Redis failed: the behaviour ends there.
WindowStep == focus = "window" /\ ~outage /\ WindowNext
              /\ UNCHANGED <<authVars, ledgerVars, userVars, catalogVars, focus>>
ThresholdStep == focus = "threshold" /\ ThresholdNext
                 /\ UNCHANGED <<authVars, ledgerVars, userVars, catalogVars, focus>>
CatalogStep == focus = "catalog" /\ CatalogNext
               /\ UNCHANGED <<authVars, ledgerVars, userVars, limitVars, focus>>

ServicesNext ==
    AuthStep \/ LedgerStep \/ UsersStep \/ WindowStep \/ ThresholdStep \/ CatalogStep

ServicesSpec == ServicesInit /\ [][ServicesNext]_servicesVars

\* Every row, request and counter of the one that is followed has the values its
\* columns and fields can hold; a balance is what its CHECK allows
\* (0003_agent_balance.sql).
ServicesTypeOK ==
    CASE focus = "auth" -> AuthTypeOK
      [] focus = "ledger" -> LedgerTypeOK
      [] focus = "users" -> UsersTypeOK
      [] focus \in {"window", "threshold"} -> RateTypeOK
      [] focus = "catalog" -> CatalogTypeOK
=============================================================================
