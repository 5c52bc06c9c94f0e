------------------------------ MODULE CardLedger ------------------------------
(***************************************************************************)
(* What the platform promises of card keys and the licences made from      *)
(* them, whatever devices, requests and administrators do: the state       *)
(* machine of domain.go, with one atomic step for each business operation. *)
(* Licensing implements it, with handlers that read, wait and then write.  *)
(*                                                                         *)
(* Suspend, Resume and Retire act on a card and at most one licence of it: *)
(* with l = NULL they act on the card alone, also when a licence exists.   *)
(***************************************************************************)
EXTENDS Naturals

CONSTANTS Cards, Licenses, NULL

VARIABLES cardStatus, cardLicense, cardUser, licStatus, licOrigin, renewals

ledgerVars == <<cardStatus, cardLicense, cardUser, licStatus, licOrigin, renewals>>

Terminal == {"revoked", "voided"}

Init ==
    /\ cardStatus = [c \in Cards |-> "unused"]
    /\ cardLicense = [c \in Cards |-> NULL]
    /\ cardUser = [c \in Cards |-> FALSE]
    /\ licStatus = [l \in Licenses |-> "none"]
    /\ licOrigin = [l \in Licenses |-> NULL]
    /\ renewals = [c \in Cards |-> 0]

SetCard(c, s) == cardStatus' = [cardStatus EXCEPT ![c] = s]

\* The licence l, if there is one, is a licence of card c and goes from one of
\* the statuses in from to s.
SetLicenseOf(c, l, from, s) ==
    \/ l = NULL /\ UNCHANGED licStatus
    \/ /\ l \in Licenses
       /\ licOrigin[l] = c
       /\ licStatus[l] \in from
       /\ licStatus' = [licStatus EXCEPT ![l] = s]

\* An unused card becomes a licence; a one-use card is used up at once.
Issue(c, l) ==
    /\ cardStatus[c] = "unused"
    /\ licStatus[l] = "none"
    /\ \E s \in {"active", "depleted"} : SetCard(c, s)
    /\ cardLicense' = [cardLicense EXCEPT ![c] = l]
    /\ licStatus' = [licStatus EXCEPT ![l] = "active"]
    /\ licOrigin' = [licOrigin EXCEPT ![l] = c]
    /\ UNCHANGED <<cardUser, renewals>>

Redeem(c) ==
    /\ cardStatus[c] = "unused"
    /\ SetCard(c, "depleted")
    /\ renewals' = [renewals EXCEPT ![c] = @ + 1]
    /\ UNCHANGED <<cardLicense, cardUser, licStatus, licOrigin>>

Consume(c) ==
    /\ cardStatus[c] = "unused"
    /\ cardLicense[c] = NULL
    /\ SetCard(c, "depleted")
    /\ cardUser' = [cardUser EXCEPT ![c] = TRUE]
    /\ UNCHANGED <<cardLicense, licStatus, licOrigin, renewals>>

Suspend(c, l) ==
    /\ cardStatus[c] \in {"unused", "active"}
    /\ SetCard(c, "frozen")
    /\ SetLicenseOf(c, l, {"active"}, "frozen")
    /\ UNCHANGED <<cardLicense, cardUser, licOrigin, renewals>>

Resume(c, l) ==
    /\ cardStatus[c] = "frozen"
    /\ \E s \in {"unused", "active"} : SetCard(c, s)
    /\ SetLicenseOf(c, l, {"frozen"}, "active")
    /\ UNCHANGED <<cardLicense, cardUser, licOrigin, renewals>>

Retire(c, l) ==
    /\ cardStatus[c] \in {"unused", "active", "frozen"}
    /\ \E s \in Terminal : /\ SetCard(c, s)
                           /\ SetLicenseOf(c, l, {"active", "frozen"}, s)
    /\ UNCHANGED <<cardLicense, cardUser, licOrigin, renewals>>

\* A licence alone is suspended and resumed, but never retired.
SwitchLicense(l) ==
    /\ \E s \in {"active", "frozen"} :
        /\ licStatus[l] \in {"active", "frozen"} \ {s}
        /\ licStatus' = [licStatus EXCEPT ![l] = s]
    /\ UNCHANGED <<cardStatus, cardLicense, cardUser, licOrigin, renewals>>

Next ==
    \/ \E c \in Cards, l \in Licenses : Issue(c, l)
    \/ \E c \in Cards : Redeem(c) \/ Consume(c)
    \/ \E c \in Cards, l \in Licenses \cup {NULL} :
          Suspend(c, l) \/ Resume(c, l) \/ Retire(c, l)
    \/ \E l \in Licenses : SwitchLicense(l)

Spec == Init /\ [][Next]_ledgerVars
=============================================================================
