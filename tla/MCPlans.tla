-------------------------------- MODULE MCPlans --------------------------------
(***************************************************************************)
(* Two scenarios of Licensing in one run, each on cards of its own:        *)
(*                                                                         *)
(*   RenewalScenario  one machine, a licence card c1 with a fixed date and *)
(*                    a renewal card c2; one plan at a time is retired,    *)
(*                    cards are frozen and thawed                          *)
(*   UsesScenario     three machines, a card c3 of a uses plan; they       *)
(*                    unbind and come back; the licence is extended and    *)
(*                    revoked, the product retired while no administrator  *)
(*                    is at work; no time passes                           *)
(***************************************************************************)
EXTENDS MCLicensing

CONSTANTS c3, metered, f1

PlansCardKind == (c1 :> "license") @@ (c2 :> "renewal") @@ (c3 :> "license")
PlansPlanOf == (c1 :> basic) @@ (c2 :> topup) @@ (c3 :> metered)
PlansKind == (basic :> "fixed") @@ (topup :> "duration") @@ (metered :> "uses")
PlansUses == [p \in Plans |-> IF p = metered THEN 2 ELSE 0]
PlansDays == [p \in Plans |-> IF p = metered THEN 0 ELSE 1]
PlansDevices == [p \in Plans |-> IF p = metered THEN 2 ELSE 1]

PlansSymmetry ==
    Permutations(Licenses) \cup Permutations(Keys) \cup Permutations(ClientRequests)

\* The other cards are new, and a request is at one of these points, on one of
\* these cards and machines.
Within(cards, machines, phases) ==
    /\ \A c \in Cards \ cards : cardStatus[c] = "unused"
    /\ \A r \in Requests : /\ req[r].card \in cards \cup {NULL}
                           /\ req[r].fp \in machines \cup {NULL}
                           /\ req[r].pc \in phases

RenewalScenario ==
    /\ Within({c1, c2}, {f1}, {"idle", "activate", "admit", "redeem", "card action"})
    /\ \A p \in Products : productActive[p]
    /\ planActive[metered] /\ (planActive[basic] \/ planActive[topup])

UsesScenario ==
    /\ Within({c3}, Fingerprints,
              {"idle", "activate", "admit", "unbind", "drop", "license action", "extend"})
    /\ \A p \in Plans : planActive[p]
    /\ \A p \in Products : productActive[p] \/ \A r \in AdminRequests : req[r].pc = "idle"
    /\ now = 0
    /\ \A l \in Licenses : expiresAt[l] <= 1

OneScenario == RenewalScenario \/ UsesScenario
=============================================================================
