----------------------------- MODULE MCLicensing -----------------------------
(***************************************************************************)
(* Instances of Licensing for TLC: the catalogues the runs choose from.    *)
(***************************************************************************)
EXTENDS Licensing, TLC

CONSTANTS c1, c2, basic, topup, prod

\* One licence card of one plan.
OneCardKind == [c \in Cards |-> "license"]
OnePlanOf == [c \in Cards |-> basic]
OneProductOf == [c \in Cards |-> prod]

DurationPlans == [p \in Plans |-> "duration"]
UsesPlans == [p \in Plans |-> "uses"]

Zero == [p \in Plans |-> 0]
One == [p \in Plans |-> 1]

Symmetry == Permutations(Licenses) \cup Permutations(Fingerprints)
            \cup Permutations(Keys) \cup Permutations(ClientRequests)
            \cup Permutations(AdminRequests)
=============================================================================
