--------------------------- MODULE LicensingProofs ---------------------------
(***************************************************************************)
(* Proofs about Licensing, for every catalogue, every set of requests and  *)
(* every bound.                                                            *)
(***************************************************************************)
EXTENDS Licensing, FiniteSetTheorems, TLAPS

\* A request that has started names the rows its phase works on.
Shaped(rec) ==
    /\ rec.pc \in {"activate", "redeem", "card action"} => rec.card \in Cards
    /\ rec.pc = "activate" => rec.fp \in Fingerprints /\ rec.key \in Keys
    /\ rec.pc \in {"admit", "check", "renew", "redeem", "unbind", "drop",
                   "license action", "extend"} => rec.lic \in Licenses
    /\ rec.pc \in {"admit", "check", "renew", "unbind", "drop"}
         => rec.fp \in Fingerprints

TypeInv == TypeOK /\ \A r \in Requests : Shaped(req[r])

LEMMA NoRequestType == NoRequest \in RequestRecord /\ Shaped(NoRequest)
  BY DEF NoRequest, RequestRecord, Phases, CardStatuses, LicStatuses, AdminActions, Shaped

LEMMA TypeInit == Init => TypeInv
  <1> SUFFICES ASSUME Init PROVE TypeInv
    OBVIOUS
  <1>1. TypeOK
    BY NoRequestType DEF Init, TypeOK, CardStatuses, LicStatuses, NoExpiry
  <1>2. \A r \in Requests : Shaped(req[r])
    BY NoRequestType DEF Init
  <1>3. QED
    BY <1>1, <1>2 DEF TypeInv

\* The first record of an activation.
LEMMA ActivateRecord ==
  ASSUME NEW c \in Cards, NEW f \in Fingerprints, NEW k \in Keys, NEW at \in Nat
  PROVE  LET rec == [NoRequest EXCEPT !.pc = "activate", !.card = c, !.fp = f,
                                      !.key = k, !.at = at]
         IN  rec \in RequestRecord /\ Shaped(rec)
  <1> DEFINE rec == [NoRequest EXCEPT !.pc = "activate", !.card = c, !.fp = f,
                                      !.key = k, !.at = at]
  <1>1. rec.pc = "activate" /\ rec.card = c /\ rec.fp = f /\ rec.key = k
    BY DEF NoRequest
  <1>2. "activate" \in Phases
    BY DEF Phases
  <1>3. rec \in RequestRecord
    BY <1>2, NoRequestType DEF RequestRecord
  <1>4. Shaped(rec)
    BY <1>1 DEF Shaped
  <1> QED
    BY <1>3, <1>4

\* A request that goes on to another phase keeps the rest of its record.
LEMMA PhaseRecord ==
  ASSUME NEW q \in RequestRecord, NEW pc \in Phases
  PROVE  [q EXCEPT !.pc = pc] \in RequestRecord
  BY DEF RequestRecord

LEMMA PhaseUntilRecord ==
  ASSUME NEW q \in RequestRecord, NEW pc \in Phases, NEW until \in Nat
  PROVE  [q EXCEPT !.pc = pc, !.until = until] \in RequestRecord
  BY DEF RequestRecord

\* A step that replaces one request by a well-formed one keeps them well formed.
LEMMA RequestStep ==
  ASSUME TypeInv, NEW r \in Requests, NEW rec \in RequestRecord, Shaped(rec),
         req' = [req EXCEPT ![r] = rec]
  PROVE  req' \in [Requests -> RequestRecord] /\ \A s \in Requests : Shaped(req'[s])
  BY DEF TypeInv, TypeOK

LEMMA EndsType ==
  ASSUME TypeInv, NEW r \in Requests, Ends(r)
  PROVE  req' \in [Requests -> RequestRecord] /\ \A s \in Requests : Shaped(req'[s])
  BY NoRequestType, RequestStep DEF Ends

\* The record an activation leaves for its admission step.
LEMMA ToAdmissionType ==
  ASSUME TypeInv, NEW r \in Requests, NEW l \in Licenses,
         req[r].fp \in Fingerprints, ToAdmission(r, l)
  PROVE  req' \in [Requests -> RequestRecord] /\ \A s \in Requests : Shaped(req'[s])
  <1> DEFINE rec == [NoRequest EXCEPT !.pc = "admit", !.lic = l,
                                  !.fp = req[r].fp, !.until = now + LeaseTTL]
  <1>1. now + LeaseTTL \in Nat
    BY ConstantsAssumption DEF TypeInv, TypeOK
  <1>2. rec \in RequestRecord
    BY <1>1, NoRequestType DEF NoRequest, RequestRecord, Phases
  <1>3. Shaped(rec)
    BY DEF Shaped, NoRequest
  <1>4. req' = [req EXCEPT ![r] = rec]
    BY DEF ToAdmission
  <1> HIDE DEF rec
  <1> QED
    BY <1>2, <1>3, <1>4, RequestStep

LEMMA LicStatusType ==
  ASSUME TypeInv, NEW l, NEW s \in LicStatuses,
         SetLicStatus(l, s) \/ UNCHANGED <<licStatus, inactiveSince>>
  PROVE  licStatus' \in [Licenses -> LicStatuses] /\ inactiveSince' \in [Licenses -> Nat]
  <1>1. licStatus \in [Licenses -> LicStatuses] /\ inactiveSince \in [Licenses -> Nat] /\ now \in Nat
    BY DEF TypeInv, TypeOK
  <1>2. licStatus' \in [Licenses -> LicStatuses]
    BY <1>1 DEF SetLicStatus
  <1>3. inactiveSince' \in [Licenses -> Nat]
    BY <1>1 DEF SetLicStatus
  <1> QED
    BY <1>2, <1>3

LEMMA TypeNext ==
  ASSUME TypeInv, [Next]_vars
  PROVE  TypeInv'
  <1> USE ConstantsAssumption, NoRequestType
  <1> USE DEF TypeInv, TypeOK, Requests
  <1>1. ASSUME NEW r \in ClientRequests, BeginActivate(r) PROVE TypeInv'
    <2>1. PICK c \in Cards, f \in Fingerprints, k \in Keys :
            Starts(r, [NoRequest EXCEPT !.pc = "activate", !.card = c, !.fp = f,
                                    !.key = k, !.at = now])
      BY <1>1 DEF BeginActivate
    <2> DEFINE rec == [NoRequest EXCEPT !.pc = "activate", !.card = c, !.fp = f,
                                    !.key = k, !.at = now]
    <2>2. rec \in RequestRecord /\ Shaped(rec)
      BY ActivateRecord
    <2>3. req' \in [Requests -> RequestRecord] /\ \A s \in Requests : Shaped(req'[s])
      BY <2>1, <2>2, RequestStep DEF Starts
    <2> QED
      BY <1>1, <2>3 DEF BeginActivate, cardVars, licVars, devVars, planVars
  <1>2. ASSUME NEW r \in ClientRequests, FreshActivation(r) PROVE TypeInv'
    <2> DEFINE c == req[r].card
               f == req[r].fp
               p == PlanOf[c]
    <2>1. c \in Cards /\ f \in Fingerprints /\ req[r].key \in Keys /\ p \in Plans
          /\ req[r].at \in Nat
      BY <1>2 DEF FreshActivation, Shaped, RequestRecord
    <2>2. PICK l \in Licenses :
            /\ SetLicStatus(l, "active")
            /\ licOrigin' = [licOrigin EXCEPT ![l] = c]
            /\ usesLeft' = [usesLeft EXCEPT ![l] =
                               IF PlanKind[p] = "uses" THEN UsesTotal[p] - 1 ELSE 0]
            /\ expiresAt' = [expiresAt EXCEPT ![l] = InitialExpiry(p, req[r].at)]
            /\ devStatus' = [devStatus EXCEPT ![<<l, f>>] = "active"]
            /\ devKey' = [devKey EXCEPT ![<<l, f>>] = req[r].key]
            /\ LinkCard(c, l)
            /\ req' = [req EXCEPT ![r] =
                          [NoRequest EXCEPT !.pc = "admit", !.lic = l, !.fp = f,
                                            !.until = now + LeaseTTL]]
      BY <1>2 DEF FreshActivation
    <2>3. req' \in [Requests -> RequestRecord] /\ \A s \in Requests : Shaped(req'[s])
      <3> DEFINE rec == [NoRequest EXCEPT !.pc = "admit", !.lic = l, !.fp = f,
                                          !.until = now + LeaseTTL]
      <3>0. f \in Fingerprints /\ now + LeaseTTL \in Nat
        BY <2>1
      <3>1. rec \in RequestRecord /\ Shaped(rec)
        <4> HIDE DEF f
        <4>1. rec \in RequestRecord
          BY <3>0 DEF NoRequest, RequestRecord, Phases
        <4>2. Shaped(rec)
          BY <3>0 DEF Shaped, NoRequest
        <4> QED BY <4>1, <4>2
      <3>2. req' = [req EXCEPT ![r] = rec]
        BY <2>2
      <3> HIDE DEF rec
      <3> QED
        BY <3>1, <3>2, RequestStep
    <2>4. /\ licStatus' \in [Licenses -> LicStatuses]
          /\ inactiveSince' \in [Licenses -> Nat]
      BY <2>2 DEF SetLicStatus, LicStatuses
    <2>5. /\ licOrigin' \in [Licenses -> Cards \cup {NULL}]
          /\ cardLicense' \in [Cards -> Licenses \cup {NULL}]
          /\ devStatus' \in [Licenses \X Fingerprints -> {"none", "active", "unbound"}]
          /\ devKey' \in [Licenses \X Fingerprints -> Keys \cup {NULL}]
      BY <2>1, <2>2 DEF LinkCard
    <2>6. usesLeft' \in [Licenses -> Nat]
      BY <2>1, <2>2
    <2>7. expiresAt' \in [Licenses -> Nat \cup {NoExpiry}]
      BY <2>1, <2>2 DEF InitialExpiry
    <2>8. /\ cardStatus' \in [Cards -> CardStatuses]
          /\ cardActivated' \in [Cards -> BOOLEAN]
      BY <1>2, <2>1, <2>2 DEF FreshActivation, CardStatuses, LinkCard
    <2> QED
      BY <1>2, <2>3, <2>4, <2>5, <2>6, <2>7, <2>8 DEF FreshActivation, planVars
  <1>3. ASSUME NEW r \in ClientRequests, Reactivation(r) PROVE TypeInv'
    <2>1. /\ cardLicense[req[r].card] \in Licenses
          /\ req[r].fp \in Fingerprints /\ req[r].key \in Keys
      BY <1>3 DEF Reactivation, ActiveCardAccepted, Shaped
    <2>2. req' \in [Requests -> RequestRecord] /\ \A s \in Requests : Shaped(req'[s])
      BY <1>3, <2>1, ToAdmissionType DEF Reactivation
    <2>3. devKey' \in [Licenses \X Fingerprints -> Keys \cup {NULL}]
      BY <1>3, <2>1 DEF Reactivation
    <2> QED
      BY <1>3, <2>2, <2>3 DEF Reactivation, cardVars, licVars, planVars
  <1>4. ASSUME NEW r \in ClientRequests, NewBinding(r) PROVE TypeInv'
    <2> DEFINE l == cardLicense[req[r].card]
    <2>1. /\ l \in Licenses
          /\ req[r].fp \in Fingerprints /\ req[r].key \in Keys
      BY <1>4 DEF NewBinding, ActiveCardAccepted, Shaped
    <2>2. req' \in [Requests -> RequestRecord] /\ \A s \in Requests : Shaped(req'[s])
      BY <1>4, <2>1, ToAdmissionType DEF NewBinding
    <2>3. /\ devStatus' \in [Licenses \X Fingerprints -> {"none", "active", "unbound"}]
          /\ devKey' \in [Licenses \X Fingerprints -> Keys \cup {NULL}]
      BY <1>4, <2>1 DEF NewBinding
    <2>4. usesLeft' \in [Licenses -> Nat]
      <3>1. usesLeft' = [usesLeft EXCEPT ![l] =
                           IF PlanKind[PlanOf[req[r].card]] = "uses" THEN @ - 1 ELSE @]
            /\ (PlanKind[PlanOf[req[r].card]] = "uses" => usesLeft[l] > 0)
        BY <1>4 DEF NewBinding, ConsumeUse
      <3> HIDE DEF l
      <3> QED
        BY <3>1, <2>1
    <2> QED
      BY <1>4, <2>2, <2>3, <2>4 DEF NewBinding, cardVars, planVars
  <1>5. ASSUME NEW r \in ClientRequests, Admission(r) PROVE TypeInv'
    <2>1. req[r].lic \in Licenses /\ req[r].fp \in Fingerprints /\ req[r].until \in Nat
      BY <1>5 DEF Admission, Shaped, RequestRecord
    <2>2. req' \in [Requests -> RequestRecord] /\ \A s \in Requests : Shaped(req'[s])
      BY <1>5, EndsType DEF Admission
    <2>3. online' \in [Licenses -> SUBSET Fingerprints]
      BY <1>5, <2>1 DEF Admission
    <2>4. leaseUntil' \in [Licenses -> Nat]
      BY <1>5, <2>1 DEF Admission, IssueLease
    <2> QED
      BY <1>5, <2>2, <2>3, <2>4 DEF Admission, cardVars, licVars, devVars, planVars
  <1>6. ASSUME NEW r \in ClientRequests, BeginHeartbeat(r) PROVE TypeInv'
    <2>1. PICK l \in Licenses, f \in Fingerprints :
            Starts(r, [NoRequest EXCEPT !.pc = "check", !.lic = l, !.fp = f])
      BY <1>6 DEF BeginHeartbeat
    <2> DEFINE rec == [NoRequest EXCEPT !.pc = "check", !.lic = l, !.fp = f]
    <2>2. rec \in RequestRecord /\ Shaped(rec)
      BY DEF NoRequest, RequestRecord, Phases, Shaped
    <2>3. req' \in [Requests -> RequestRecord] /\ \A s \in Requests : Shaped(req'[s])
      BY <2>1, <2>2, RequestStep DEF Starts
    <2> QED
      BY <1>6, <2>3 DEF BeginHeartbeat, cardVars, licVars, devVars, planVars
  <1>7. ASSUME NEW r \in ClientRequests, HeartbeatCheck(r) PROVE TypeInv'
    <2> DEFINE rec == [req[r] EXCEPT !.pc = "renew", !.until = now + LeaseTTL]
    <2>a. now + LeaseTTL \in Nat
      OBVIOUS
    <2>b. r \in Requests /\ req[r] \in RequestRecord
      OBVIOUS
    <2>c. req[r].lic \in Licenses /\ req[r].fp \in Fingerprints
      BY <1>7, <2>b DEF HeartbeatCheck, Shaped
    <2>0. req[r] \in RequestRecord /\ req[r].lic \in Licenses /\ req[r].fp \in Fingerprints
          /\ now + LeaseTTL \in Nat
      BY <2>a, <2>b, <2>c
    <2>1. rec \in RequestRecord
      <3>1. "renew" \in Phases
        BY DEF Phases
      <3> QED
        BY <2>0, <3>1, PhaseUntilRecord
    <2>2. Shaped(rec)
      BY <2>0 DEF Shaped, RequestRecord
    <2>3. req' = [req EXCEPT ![r] = rec]
      BY <1>7 DEF HeartbeatCheck
    <2>4. req' \in [Requests -> RequestRecord] /\ \A s \in Requests : Shaped(req'[s])
      BY <2>1, <2>2, <2>3, RequestStep
    <2> QED
      BY <1>7, <2>4 DEF HeartbeatCheck, cardVars, licVars, devVars, planVars
  <1>8. ASSUME NEW r \in ClientRequests, HeartbeatRenew(r) PROVE TypeInv'
    <2>1. req[r].lic \in Licenses /\ req[r].fp \in Fingerprints /\ req[r].until \in Nat
      BY <1>8 DEF HeartbeatRenew, Shaped, RequestRecord
    <2>2. req' \in [Requests -> RequestRecord] /\ \A s \in Requests : Shaped(req'[s])
      BY <1>8, EndsType DEF HeartbeatRenew
    <2>3. online' \in [Licenses -> SUBSET Fingerprints]
      BY <1>8, <2>1 DEF HeartbeatRenew
    <2>4. leaseUntil' \in [Licenses -> Nat]
      BY <1>8, <2>1 DEF HeartbeatRenew, IssueLease
    <2> QED
      BY <1>8, <2>2, <2>3, <2>4 DEF HeartbeatRenew, cardVars, licVars, devVars, planVars
  <1>9. ASSUME NEW r \in ClientRequests, BeginRedeem(r) PROVE TypeInv'
    <2>1. PICK l \in Licenses, f \in Fingerprints, c \in Cards :
            Starts(r, [NoRequest EXCEPT !.pc = "redeem", !.lic = l, !.fp = f,
                                       !.card = c, !.at = now])
      BY <1>9 DEF BeginRedeem
    <2> DEFINE rec == [NoRequest EXCEPT !.pc = "redeem", !.lic = l, !.fp = f,
                                       !.card = c, !.at = now]
    <2>2. rec \in RequestRecord
      BY DEF NoRequest, RequestRecord, Phases
    <2>3. Shaped(rec)
      BY DEF NoRequest, Shaped
    <2>4. req' \in [Requests -> RequestRecord] /\ \A s \in Requests : Shaped(req'[s])
      BY <2>1, <2>2, <2>3, RequestStep DEF Starts
    <2> QED
      BY <1>9, <2>4 DEF BeginRedeem, cardVars, licVars, devVars, planVars
  <1>10. ASSUME NEW r \in ClientRequests, RedeemCard(r) PROVE TypeInv'
    <2>1. /\ req[r].card \in Cards /\ req[r].lic \in Licenses /\ req[r].at \in Nat
          /\ DurationDays[PlanOf[req[r].card]] \in Nat
      BY <1>10 DEF RedeemCard, Shaped, RequestRecord
    <2>2. req' \in [Requests -> RequestRecord] /\ \A s \in Requests : Shaped(req'[s])
      BY <1>10, EndsType DEF RedeemCard
    <2>3. Extended(req[r].lic, DurationDays[PlanOf[req[r].card]]) \in Nat
      BY <2>1 DEF Extended
    <2>4. expiresAt' \in [Licenses -> Nat \cup {NoExpiry}]
      BY <1>10, <2>3 DEF RedeemCard
    <2>5. /\ cardStatus' \in [Cards -> CardStatuses]
          /\ renewals' \in [Cards -> Nat]
      BY <1>10, <2>1 DEF RedeemCard, CardStatuses
    <2>6. leaseUntil' \in [Licenses -> Nat]
      BY <1>10, <2>1 DEF RedeemCard, IssueLease
    <2> QED
      BY <1>10, <2>2, <2>4, <2>5, <2>6 DEF RedeemCard, devVars, planVars
  <1>11. ASSUME NEW r \in ClientRequests, BeginDeactivate(r) PROVE TypeInv'
    <2>1. PICK l \in Licenses, f \in Fingerprints :
            Starts(r, [NoRequest EXCEPT !.pc = "unbind", !.lic = l, !.fp = f])
      BY <1>11 DEF BeginDeactivate
    <2> DEFINE rec == [NoRequest EXCEPT !.pc = "unbind", !.lic = l, !.fp = f]
    <2>2. rec \in RequestRecord
      BY DEF NoRequest, RequestRecord, Phases
    <2>3. Shaped(rec)
      BY DEF NoRequest, Shaped
    <2>4. req' \in [Requests -> RequestRecord] /\ \A s \in Requests : Shaped(req'[s])
      BY <2>1, <2>2, <2>3, RequestStep DEF Starts
    <2> QED
      BY <1>11, <2>4 DEF BeginDeactivate, cardVars, licVars, devVars, planVars
  <1>12. ASSUME NEW r \in AdminRequests, BeginAdminUnbind(r) PROVE TypeInv'
    <2>1. PICK l \in Licenses, f \in Fingerprints :
            Starts(r, [NoRequest EXCEPT !.pc = "unbind", !.lic = l, !.fp = f])
      BY <1>12 DEF BeginAdminUnbind
    <2> DEFINE rec == [NoRequest EXCEPT !.pc = "unbind", !.lic = l, !.fp = f]
    <2>2. rec \in RequestRecord
      BY DEF NoRequest, RequestRecord, Phases
    <2>3. Shaped(rec)
      BY DEF NoRequest, Shaped
    <2>4. req' \in [Requests -> RequestRecord] /\ \A s \in Requests : Shaped(req'[s])
      BY <2>1, <2>2, <2>3, RequestStep DEF Starts
    <2> QED
      BY <1>12, <2>4 DEF BeginAdminUnbind, cardVars, licVars, devVars, planVars
  <1>13. ASSUME NEW r \in AdminRequests, BeginCardAction(r) PROVE TypeInv'
    <2>1. PICK c \in Cards, a \in AdminActions :
            Starts(r, [NoRequest EXCEPT !.pc = "card action", !.card = c,
                         !.action = a, !.status = cardStatus[c],
                         !.activated = cardActivated[c], !.lic = cardLicense[c]])
      BY <1>13 DEF BeginCardAction
    <2> DEFINE rec == [NoRequest EXCEPT !.pc = "card action", !.card = c,
                         !.action = a, !.status = cardStatus[c],
                         !.activated = cardActivated[c], !.lic = cardLicense[c]]
    <2>2. rec \in RequestRecord
      BY DEF NoRequest, RequestRecord, Phases
    <2>3. Shaped(rec)
      BY DEF NoRequest, Shaped
    <2>4. req' \in [Requests -> RequestRecord] /\ \A s \in Requests : Shaped(req'[s])
      BY <2>1, <2>2, <2>3, RequestStep DEF Starts
    <2> QED
      BY <1>13, <2>4 DEF BeginCardAction, cardVars, licVars, devVars, planVars
  <1>14. ASSUME NEW r \in AdminRequests, FreezeCard(r) PROVE TypeInv'
    <2>1. req' \in [Requests -> RequestRecord] /\ \A s \in Requests : Shaped(req'[s])
      BY <1>14, EndsType DEF FreezeCard
    <2>2. cardStatus' \in [Cards -> CardStatuses]
      BY <1>14 DEF FreezeCard, CardStatuses
    <2>3. licStatus' \in [Licenses -> LicStatuses] /\ inactiveSince' \in [Licenses -> Nat]
      BY <1>14, LicStatusType DEF FreezeCard, MoveLicense, LicStatuses
    <2> QED
      BY <1>14, <2>1, <2>2, <2>3 DEF FreezeCard, devVars, planVars
  <1>15. ASSUME NEW r \in AdminRequests, UnfreezeCard(r) PROVE TypeInv'
    <2>1. req' \in [Requests -> RequestRecord] /\ \A s \in Requests : Shaped(req'[s])
      BY <1>15, EndsType DEF UnfreezeCard
    <2>2. cardStatus' \in [Cards -> CardStatuses]
      BY <1>15 DEF UnfreezeCard, CardStatuses, Thawed
    <2>3. licStatus' \in [Licenses -> LicStatuses] /\ inactiveSince' \in [Licenses -> Nat]
      BY <1>15, LicStatusType DEF UnfreezeCard, MoveLicense, LicStatuses
    <2> QED
      BY <1>15, <2>1, <2>2, <2>3 DEF UnfreezeCard, devVars, planVars
  <1>16. ASSUME NEW r \in AdminRequests, RevokeCard(r) PROVE TypeInv'
    <2>1. req' \in [Requests -> RequestRecord] /\ \A s \in Requests : Shaped(req'[s])
      BY <1>16, EndsType DEF RevokeCard
    <2>2. cardStatus' \in [Cards -> CardStatuses]
      BY <1>16 DEF RevokeCard, CardStatuses, TerminalOf
    <2>3. licStatus' \in [Licenses -> LicStatuses] /\ inactiveSince' \in [Licenses -> Nat]
      BY <1>16, LicStatusType DEF RevokeCard, TerminateLicense, LicStatuses, TerminalOf
    <2> QED
      BY <1>16, <2>1, <2>2, <2>3 DEF RevokeCard, devVars, planVars
  <1>17. ASSUME NEW r \in AdminRequests, BeginLicenseAction(r) PROVE TypeInv'
    <2>1. PICK l \in Licenses, a \in AdminActions :
            Starts(r, [NoRequest EXCEPT !.pc = "license action", !.lic = l,
                                       !.action = a, !.status = licStatus[l]])
      BY <1>17 DEF BeginLicenseAction
    <2> DEFINE rec == [NoRequest EXCEPT !.pc = "license action", !.lic = l,
                                       !.action = a, !.status = licStatus[l]]
    <2>2. rec \in RequestRecord
      BY DEF NoRequest, RequestRecord, Phases
    <2>3. Shaped(rec)
      BY DEF NoRequest, Shaped
    <2>4. req' \in [Requests -> RequestRecord] /\ \A s \in Requests : Shaped(req'[s])
      BY <2>1, <2>2, <2>3, RequestStep DEF Starts
    <2> QED
      BY <1>17, <2>4 DEF BeginLicenseAction, cardVars, licVars, devVars, planVars
  <1>18. ASSUME NEW r \in AdminRequests, FreezeOrThawLicense(r) PROVE TypeInv'
    <2>1. req' \in [Requests -> RequestRecord] /\ \A s \in Requests : Shaped(req'[s])
      BY <1>18, EndsType DEF FreezeOrThawLicense
    <2>2. licStatus' \in [Licenses -> LicStatuses] /\ inactiveSince' \in [Licenses -> Nat]
      BY <1>18, LicStatusType DEF FreezeOrThawLicense, LicStatuses
    <2> QED
      BY <1>18, <2>1, <2>2 DEF FreezeOrThawLicense, cardVars, devVars, planVars
  <1>19. ASSUME NEW r \in AdminRequests, RevokeLicense(r) PROVE TypeInv'
    <2>1. req' \in [Requests -> RequestRecord] /\ \A s \in Requests : Shaped(req'[s])
      BY <1>19, EndsType DEF RevokeLicense
    <2>2. cardStatus' \in [Cards -> CardStatuses]
      BY <1>19 DEF RevokeLicense, CardStatuses, TerminalOf
    <2>3. licStatus' \in [Licenses -> LicStatuses] /\ inactiveSince' \in [Licenses -> Nat]
      BY <1>19, LicStatusType DEF RevokeLicense, LicStatuses, TerminalOf
    <2> QED
      BY <1>19, <2>1, <2>2, <2>3 DEF RevokeLicense, devVars, planVars
  <1>20. ASSUME NEW r \in AdminRequests, BeginExtend(r) PROVE TypeInv'
    <2>1. PICK l \in Licenses :
            Starts(r, [NoRequest EXCEPT !.pc = "extend", !.lic = l])
      BY <1>20 DEF BeginExtend
    <2> DEFINE rec == [NoRequest EXCEPT !.pc = "extend", !.lic = l]
    <2>2. rec \in RequestRecord
      BY DEF NoRequest, RequestRecord, Phases
    <2>3. Shaped(rec)
      BY DEF NoRequest, Shaped
    <2>4. req' \in [Requests -> RequestRecord] /\ \A s \in Requests : Shaped(req'[s])
      BY <2>1, <2>2, <2>3, RequestStep DEF Starts
    <2> QED
      BY <1>20, <2>4 DEF BeginExtend, cardVars, licVars, devVars, planVars
  <1>21. ASSUME NEW r \in AdminRequests, ExtendByAdmin(r) PROVE TypeInv'
    <2>1. req[r].lic \in Licenses
      BY <1>21 DEF ExtendByAdmin, Shaped
    <2>2. req' \in [Requests -> RequestRecord] /\ \A s \in Requests : Shaped(req'[s])
      BY <1>21, EndsType DEF ExtendByAdmin
    <2>3. Extended(req[r].lic, ExtendDays) \in Nat
      BY <2>1 DEF Extended
    <2>4. expiresAt' \in [Licenses -> Nat \cup {NoExpiry}]
      BY <1>21, <2>3 DEF ExtendByAdmin
    <2> QED
      BY <1>21, <2>2, <2>4 DEF ExtendByAdmin, cardVars, devVars, planVars
  <1>22. ASSUME NEW r \in Requests, UnbindRow(r) PROVE TypeInv'
    <2> DEFINE rec == [req[r] EXCEPT !.pc = "drop"]
    <2>0. req[r] \in RequestRecord /\ req[r].lic \in Licenses /\ req[r].fp \in Fingerprints
      BY <1>22 DEF UnbindRow, Shaped
    <2>1. rec \in RequestRecord
      <3>1. "drop" \in Phases
        BY DEF Phases
      <3> QED
        BY <2>0, <3>1, PhaseRecord
    <2>2. Shaped(rec)
      BY <2>0 DEF Shaped, RequestRecord
    <2>3. req' = [req EXCEPT ![r] = rec]
      BY <1>22 DEF UnbindRow
    <2>4. req' \in [Requests -> RequestRecord] /\ \A s \in Requests : Shaped(req'[s])
      BY <2>1, <2>2, <2>3, RequestStep
    <2>5. devStatus' \in [Licenses \X Fingerprints -> {"none", "active", "unbound"}]
      BY <1>22 DEF UnbindRow
    <2> QED
      BY <1>22, <2>4, <2>5 DEF UnbindRow, cardVars, licVars, planVars
  <1>23. ASSUME NEW r \in Requests, DropSeat(r) PROVE TypeInv'
    <2>1. req' \in [Requests -> RequestRecord] /\ \A s \in Requests : Shaped(req'[s])
      BY <1>23, EndsType DEF DropSeat
    <2>2. online' \in [Licenses -> SUBSET Fingerprints]
      BY <1>23 DEF DropSeat
    <2> QED
      BY <1>23, <2>1, <2>2 DEF DropSeat, cardVars, licVars, devVars, planVars
  <1>24. ASSUME NEW r \in Requests, EndRequest(r) PROVE TypeInv'
    BY <1>24, EndsType DEF EndRequest, cardVars, licVars, devVars, planVars
  <1>25. ASSUME NEW c \in Cards, BindCardToUser(c) PROVE TypeInv'
    BY <1>25 DEF BindCardToUser, Unspent, CardStatuses, licVars, devVars, planVars
  <1>26. ASSUME NEW p \in Plans, NEW active \in BOOLEAN, SetPlanStatus(p, active)
         PROVE TypeInv'
    BY <1>26 DEF SetPlanStatus, cardVars, licVars, devVars
  <1>27. ASSUME NEW p \in Products, NEW active \in BOOLEAN, SetProductStatus(p, active)
         PROVE TypeInv'
    BY <1>27 DEF SetProductStatus, cardVars, licVars, devVars
  <1>28. ASSUME NEW l \in Licenses, NEW f \in Fingerprints, SeatLapses(l, f)
         PROVE TypeInv'
    BY <1>28 DEF SeatLapses, cardVars, licVars, devVars, planVars
  <1>29. ASSUME Tick PROVE TypeInv'
    BY <1>29 DEF Tick, cardVars, licVars, devVars, planVars
  <1>30. ASSUME UNCHANGED vars PROVE TypeInv'
    BY <1>30 DEF vars, cardVars, licVars, devVars, planVars
  <1> QED
    BY ONLY [Next]_vars, <1>1, <1>2, <1>3, <1>4, <1>5, <1>6, <1>7, <1>8, <1>9, <1>10,
       <1>11, <1>12, <1>13, <1>14, <1>15, <1>16, <1>17, <1>18, <1>19, <1>20, <1>21,
       <1>22, <1>23, <1>24, <1>25, <1>26, <1>27, <1>28, <1>29, <1>30
       DEF Next, ClientStep, AdminStep, AnyRequestStep

\* Every reachable state is well typed (the columns' CHECKs and the shape of
\* the requests in flight), whatever the catalogue.
THEOREM TypeCorrect == Spec => []TypeOK
  <1>1. TypeInv => TypeOK
    BY DEF TypeInv
  <1> QED
    BY TypeInit, TypeNext, <1>1, PTL DEF Spec

-----------------------------------------------------------------------------
(***************************************************************************)
(* Safety of the rows.  What an administrator read before the transaction  *)
(* stays true enough of the row while the request is in flight: that is    *)
(* the strengthening the invariants of the rows rest on.                   *)
(***************************************************************************)
ReadByAdmin(rec) ==
    /\ rec.pc = "card action" =>
         /\ rec.lic # NULL => licOrigin[rec.lic] = rec.card
         /\ rec.action = "freeze" => rec.status \in {"active", "unused"}
    /\ rec.pc = "license action" =>
         /\ licStatus[rec.lic] # "none"
         /\ rec.action = "freeze" => rec.status = "active"
         /\ rec.action = "unfreeze" => rec.status = "frozen"

\* A card a user account consumed is depleted for good and has no licence.
UserCards == \A c \in Cards : cardUser[c] => cardStatus[c] = "depleted" /\ cardLicense[c] = NULL

RowInv ==
    /\ TypeInv
    /\ PointersAgree
    /\ DeadLicenseDeadCard
    /\ UserCards
    /\ RenewalCardSpentOnce
    /\ \A r \in Requests : ReadByAdmin(req[r])

LEMMA RowInit == Init => RowInv
  <1> SUFFICES ASSUME Init PROVE RowInv
    OBVIOUS
  <1>1. TypeInv
    BY TypeInit
  <1>2. PointersAgree /\ DeadLicenseDeadCard
    BY DEF Init, PointersAgree, DeadLicenseDeadCard, LicTerminal
  <1>3. UserCards /\ RenewalCardSpentOnce
    BY DEF Init, UserCards, RenewalCardSpentOnce
  <1>4. \A r \in Requests : ReadByAdmin(req[r])
    BY DEF Init, ReadByAdmin, NoRequest
  <1> QED
    BY <1>1, <1>2, <1>3, <1>4 DEF RowInv

-----------------------------------------------------------------------------
(***************************************************************************)
(* Every step is a step of the ledger, or leaves the rows alone.           *)
(***************************************************************************)
LedgerStep == Ledger!Next \/ UNCHANGED Ledger!ledgerVars

LEMMA ClientLedgerStep ==
  ASSUME RowInv, NEW r \in ClientRequests, ClientStep(r)
  PROVE  LedgerStep
  <1> USE ConstantsAssumption DEF RowInv, TypeInv, TypeOK, LedgerStep, Requests
  <1>1. CASE FreshActivation(r)
    <2>1. req[r].card \in Cards
      BY <1>1 DEF FreshActivation, Shaped
    <2>2. PICK l \in Licenses : Ledger!Issue(req[r].card, l)
      BY <1>1, <2>1 DEF FreshActivation, LinkCard, SetLicStatus, Ledger!Issue, Ledger!SetCard
    <2> QED
      BY <2>1, <2>2 DEF Ledger!Next
  <1>2. CASE RedeemCard(r)
    <2>1. req[r].card \in Cards
      BY <1>2 DEF RedeemCard, Shaped
    <2>2. Ledger!Redeem(req[r].card)
      BY <1>2 DEF RedeemCard, Redeemable, Ledger!Redeem, Ledger!SetCard
    <2> QED
      BY <2>1, <2>2 DEF Ledger!Next
  <1>3. ASSUME ~FreshActivation(r), ~RedeemCard(r) PROVE UNCHANGED Ledger!ledgerVars
    BY <1>3 DEF ClientStep, BeginActivate, Reactivation, NewBinding, Admission, BeginHeartbeat,
       HeartbeatCheck, HeartbeatRenew, BeginRedeem, BeginDeactivate, Ledger!ledgerVars,
       cardVars, licVars
  <1> QED
    BY <1>1, <1>2, <1>3

LEMMA AdminLedgerStep ==
  ASSUME RowInv, NEW r \in AdminRequests, AdminStep(r)
  PROVE  LedgerStep
  <1> USE ConstantsAssumption DEF RowInv, TypeInv, TypeOK, LedgerStep, Requests
  <1> DEFINE c == req[r].card
             l == req[r].lic
  <1>1. l \in Licenses \cup {NULL} /\ Shaped(req[r]) /\ ReadByAdmin(req[r])
    BY DEF RequestRecord
  <1>2. CASE FreezeCard(r)
    <2>1. c \in Cards /\ Ledger!SetLicenseOf(c, l, {"active"}, "frozen")
      BY <1>1, <1>2 DEF FreezeCard, CardActionStarted, ReadByAdmin, Shaped, MoveLicense,
         SetLicStatus, Ledger!SetLicenseOf
    <2>2. Ledger!Suspend(c, l)
      BY <1>1, <1>2, <2>1 DEF FreezeCard, CardStill, CardActionStarted, ReadByAdmin, Ledger!Suspend,
         Ledger!SetCard
    <2> QED
      BY <1>1, <2>1, <2>2 DEF Ledger!Next
  <1>3. CASE UnfreezeCard(r)
    <2>1. c \in Cards /\ Ledger!SetLicenseOf(c, l, {"frozen"}, "active")
      BY <1>1, <1>3 DEF UnfreezeCard, CardActionStarted, ReadByAdmin, Shaped, MoveLicense,
         SetLicStatus, Ledger!SetLicenseOf
    <2>2. Ledger!Resume(c, l)
      BY <1>1, <1>3, <2>1 DEF UnfreezeCard, CardStill, Thawed, Ledger!Resume, Ledger!SetCard
    <2> QED
      BY <1>1, <2>1, <2>2 DEF Ledger!Next
  <1>4. CASE RevokeCard(r)
    <2> DEFINE s == TerminalOf(req[r].action)
    <2>1. c \in Cards /\ (l # NULL => licOrigin[l] = c)
      BY <1>1, <1>4 DEF RevokeCard, CardActionStarted, ReadByAdmin, Shaped
    <2>2. Ledger!SetLicenseOf(c, l, {"active", "frozen"}, s)
      BY <1>1, <1>4, <2>1 DEF RevokeCard, TerminateLicense, LicenseTerminable, SetLicStatus,
         Ledger!SetLicenseOf, PointersAgree, LicStatuses, LicTerminal
    <2>3. cardStatus[c] \in {"unused", "active", "frozen"} /\ s \in Ledger!Terminal
      BY <1>4, <2>1 DEF RevokeCard, CardTerminable, CardStatuses, CardTerminal, TerminalOf,
         Ledger!Terminal
    <2>4. Ledger!Retire(c, l)
      BY <1>4, <2>2, <2>3 DEF RevokeCard, Ledger!Retire, Ledger!SetCard
    <2> QED
      BY <1>1, <2>1, <2>4 DEF Ledger!Next
  <1>5. CASE FreezeOrThawLicense(r)
    <2>1. l \in Licenses /\ Ledger!SwitchLicense(l)
      BY <1>1, <1>5 DEF FreezeOrThawLicense, ReadByAdmin, Shaped, SetLicStatus, cardVars,
         Ledger!SwitchLicense
    <2> QED
      BY <2>1 DEF Ledger!Next
  <1>6. CASE RevokeLicense(r)
    <2> DEFINE o == licOrigin[l]
               s == TerminalOf(req[r].action)
    <2>1. l \in Licenses /\ o \in Cards /\ licStatus[l] \in {"active", "frozen"}
      <3>1. req[r].pc = "license action" /\ licStatus[l] \notin LicTerminal
        BY <1>6 DEF RevokeLicense, RevocationApplies, LicenseTerminable
      <3>2. l \in Licenses /\ licStatus[l] # "none"
        BY <1>1, <3>1 DEF ReadByAdmin, Shaped
      <3>3. licStatus[l] \in LicStatuses /\ o \in Cards
        BY <1>1, <3>2 DEF PointersAgree
      <3> QED
        BY <3>1, <3>2, <3>3 DEF LicStatuses, LicTerminal
    <2>2. Ledger!SetLicenseOf(o, l, {"active", "frozen"}, s)
      BY <1>6, <2>1 DEF RevokeLicense, SetLicStatus, Ledger!SetLicenseOf
    <2>3. cardStatus[o] \in {"unused", "active", "frozen"} /\ s \in Ledger!Terminal
      BY <1>6, <2>1 DEF RevokeLicense, RevocationApplies, CardTerminable, CardStatuses,
         CardTerminal, TerminalOf, Ledger!Terminal
    <2>4. Ledger!Retire(o, l)
      BY <1>6, <2>2, <2>3 DEF RevokeLicense, Ledger!Retire, Ledger!SetCard
    <2> QED
      BY <2>1, <2>4 DEF Ledger!Next
  <1>7. ASSUME ~FreezeCard(r), ~UnfreezeCard(r), ~RevokeCard(r), ~FreezeOrThawLicense(r),
               ~RevokeLicense(r)
        PROVE  UNCHANGED Ledger!ledgerVars
    BY <1>7 DEF AdminStep, BeginAdminUnbind, BeginCardAction, BeginLicenseAction, BeginExtend,
       ExtendByAdmin, Ledger!ledgerVars, cardVars, licVars
  <1> QED
    BY <1>2, <1>3, <1>4, <1>5, <1>6, <1>7

LEMMA StepIsLedgerStep ==
  ASSUME RowInv, [Next]_vars
  PROVE  LedgerStep
  <1> USE DEF LedgerStep, Ledger!ledgerVars, cardVars, licVars
  <1>1. ASSUME NEW r \in Requests, AnyRequestStep(r) PROVE LedgerStep
    BY <1>1 DEF AnyRequestStep, UnbindRow, DropSeat, EndRequest
  <1>2. ASSUME NEW c \in Cards, BindCardToUser(c) PROVE LedgerStep
    BY <1>2 DEF BindCardToUser, Unspent, Ledger!Next, Ledger!Consume, Ledger!SetCard
  <1>3. ASSUME NEW p \in Plans, NEW active \in BOOLEAN, SetPlanStatus(p, active)
        PROVE LedgerStep
    BY <1>3 DEF SetPlanStatus
  <1>4. ASSUME NEW p \in Products, NEW active \in BOOLEAN, SetProductStatus(p, active)
        PROVE LedgerStep
    BY <1>4 DEF SetProductStatus
  <1>5. ASSUME NEW l \in Licenses, NEW f \in Fingerprints, SeatLapses(l, f)
        PROVE LedgerStep
    BY <1>5 DEF SeatLapses
  <1>6. ASSUME Tick PROVE LedgerStep
    BY <1>6 DEF Tick
  <1>7. ASSUME UNCHANGED vars PROVE LedgerStep
    BY <1>7 DEF vars
  <1> QED
    BY ClientLedgerStep, AdminLedgerStep, <1>1, <1>2, <1>3, <1>4, <1>5, <1>6, <1>7 DEF Next

-----------------------------------------------------------------------------
(***************************************************************************)
(* What the ledger keeps, and so every step of Licensing.                  *)
(***************************************************************************)

\* A licence row, once made, keeps its origin card; a card never loses its licence.
RowsStay ==
    /\ \A l \in Licenses : licStatus[l] # "none"
                             => licStatus'[l] # "none" /\ licOrigin'[l] = licOrigin[l]
    /\ \A c \in Cards : cardLicense[c] # NULL => cardLicense'[c] # NULL

TerminalStays ==
    /\ \A c \in Cards : cardStatus[c] \in CardTerminal => cardStatus'[c] = cardStatus[c]
    /\ \A l \in Licenses : licStatus[l] \in LicTerminal => licStatus'[l] = licStatus[l]

LEMMA PointersNext ==
  ASSUME RowInv, [Next]_vars
  PROVE  PointersAgree' /\ RowsStay
  <1> USE ConstantsAssumption DEF RowInv, TypeInv, TypeOK, PointersAgree, RowsStay
  <1> USE DEF Ledger!SetCard
  <1>1. ASSUME NEW c \in Cards, NEW l \in Licenses, Ledger!Issue(c, l) PROVE PointersAgree' /\ RowsStay
    BY <1>1 DEF Ledger!Issue
  <1>2. ASSUME NEW c \in Cards, Ledger!Redeem(c) \/ Ledger!Consume(c) PROVE PointersAgree' /\ RowsStay
    BY <1>2 DEF Ledger!Redeem, Ledger!Consume
  <1>3. ASSUME NEW c \in Cards, NEW l \in Licenses \cup {NULL},
               Ledger!Suspend(c, l) \/ Ledger!Resume(c, l)
        PROVE  PointersAgree' /\ RowsStay
    BY <1>3 DEF Ledger!Suspend, Ledger!Resume, Ledger!SetLicenseOf
  <1>4. ASSUME NEW c \in Cards, NEW l \in Licenses \cup {NULL}, Ledger!Retire(c, l)
        PROVE  PointersAgree' /\ RowsStay
    BY <1>4 DEF Ledger!Retire, Ledger!SetLicenseOf, Ledger!Terminal
  <1>5. ASSUME NEW l \in Licenses, Ledger!SwitchLicense(l) PROVE PointersAgree' /\ RowsStay
    BY <1>5 DEF Ledger!SwitchLicense
  <1>6. ASSUME UNCHANGED Ledger!ledgerVars PROVE PointersAgree' /\ RowsStay
    BY <1>6 DEF Ledger!ledgerVars
  <1> QED
    BY StepIsLedgerStep, <1>1, <1>2, <1>3, <1>4, <1>5, <1>6 DEF LedgerStep, Ledger!Next

LEMMA TerminalNext ==
  ASSUME RowInv, [Next]_vars
  PROVE  TerminalStays
  <1> USE ConstantsAssumption DEF RowInv, TypeInv, TypeOK, PointersAgree, TerminalStays, CardTerminal, LicTerminal
  <1> USE DEF Ledger!SetCard
  <1>1. ASSUME NEW c \in Cards, NEW l \in Licenses, Ledger!Issue(c, l) PROVE TerminalStays
    BY <1>1 DEF Ledger!Issue
  <1>2. ASSUME NEW c \in Cards, Ledger!Redeem(c) \/ Ledger!Consume(c) PROVE TerminalStays
    BY <1>2 DEF Ledger!Redeem, Ledger!Consume
  <1>3. ASSUME NEW c \in Cards, NEW l \in Licenses \cup {NULL},
               Ledger!Suspend(c, l) \/ Ledger!Resume(c, l)
        PROVE  TerminalStays
    BY <1>3 DEF Ledger!Suspend, Ledger!Resume, Ledger!SetLicenseOf
  <1>4. ASSUME NEW c \in Cards, NEW l \in Licenses \cup {NULL}, Ledger!Retire(c, l)
        PROVE  TerminalStays
    BY <1>4 DEF Ledger!Retire, Ledger!SetLicenseOf, Ledger!Terminal
  <1>5. ASSUME NEW l \in Licenses, Ledger!SwitchLicense(l) PROVE TerminalStays
    BY <1>5 DEF Ledger!SwitchLicense
  <1>6. ASSUME UNCHANGED Ledger!ledgerVars PROVE TerminalStays
    BY <1>6 DEF Ledger!ledgerVars
  <1> QED
    BY StepIsLedgerStep, <1>1, <1>2, <1>3, <1>4, <1>5, <1>6 DEF LedgerStep, Ledger!Next

LEMMA DeadNext ==
  ASSUME RowInv, [Next]_vars
  PROVE  DeadLicenseDeadCard'
  <1> USE ConstantsAssumption DEF RowInv, TypeInv, TypeOK, PointersAgree, DeadLicenseDeadCard, CardTerminal, LicTerminal
  <1> USE DEF Ledger!SetCard
  <1>1. ASSUME NEW c \in Cards, NEW l \in Licenses, Ledger!Issue(c, l) PROVE DeadLicenseDeadCard'
    BY <1>1 DEF Ledger!Issue
  <1>2. ASSUME NEW c \in Cards, Ledger!Redeem(c) \/ Ledger!Consume(c) PROVE DeadLicenseDeadCard'
    BY <1>2 DEF Ledger!Redeem, Ledger!Consume
  <1>3. ASSUME NEW c \in Cards, NEW l \in Licenses \cup {NULL},
               Ledger!Suspend(c, l) \/ Ledger!Resume(c, l)
        PROVE  DeadLicenseDeadCard'
    BY <1>3 DEF Ledger!Suspend, Ledger!Resume, Ledger!SetLicenseOf
  <1>4. ASSUME NEW c \in Cards, NEW l \in Licenses \cup {NULL}, Ledger!Retire(c, l)
        PROVE  DeadLicenseDeadCard'
    BY <1>4 DEF Ledger!Retire, Ledger!SetLicenseOf, Ledger!Terminal
  <1>5. ASSUME NEW l \in Licenses, Ledger!SwitchLicense(l) PROVE DeadLicenseDeadCard'
    BY <1>5 DEF Ledger!SwitchLicense
  <1>6. ASSUME UNCHANGED Ledger!ledgerVars PROVE DeadLicenseDeadCard'
    BY <1>6 DEF Ledger!ledgerVars
  <1> QED
    BY StepIsLedgerStep, <1>1, <1>2, <1>3, <1>4, <1>5, <1>6 DEF LedgerStep, Ledger!Next

LEMMA ConsumedNext ==
  ASSUME RowInv, [Next]_vars
  PROVE  UserCards' /\ RenewalCardSpentOnce'
  <1> USE ConstantsAssumption DEF RowInv, TypeInv, TypeOK, PointersAgree, UserCards, RenewalCardSpentOnce
  <1> USE DEF Ledger!SetCard
  <1>1. ASSUME NEW c \in Cards, NEW l \in Licenses, Ledger!Issue(c, l) PROVE UserCards' /\ RenewalCardSpentOnce'
    BY <1>1 DEF Ledger!Issue
  <1>2. ASSUME NEW c \in Cards, Ledger!Redeem(c) \/ Ledger!Consume(c) PROVE UserCards' /\ RenewalCardSpentOnce'
    <2>1. CASE Ledger!Redeem(c)
      <3>1. renewals[c] = 0
        <4>1. renewals[c] \in Nat /\ renewals[c] <= 1 /\ renewals[c] # 1
          BY <2>1 DEF Ledger!Redeem
        <4> QED
          BY ONLY <4>1
      <3>2. /\ cardStatus' = [cardStatus EXCEPT ![c] = "depleted"]
            /\ renewals' = [renewals EXCEPT ![c] = 1]
            /\ cardUser' = cardUser /\ cardLicense' = cardLicense
        BY <2>1, <3>1 DEF Ledger!Redeem
      <3> QED
        BY <3>2
    <2>2. CASE Ledger!Consume(c)
      BY <2>2 DEF Ledger!Consume
    <2> QED
      BY <1>2, <2>1, <2>2
  <1>3. ASSUME NEW c \in Cards, NEW l \in Licenses \cup {NULL},
               Ledger!Suspend(c, l) \/ Ledger!Resume(c, l)
        PROVE  UserCards' /\ RenewalCardSpentOnce'
    BY <1>3 DEF Ledger!Suspend, Ledger!Resume, Ledger!SetLicenseOf
  <1>4. ASSUME NEW c \in Cards, NEW l \in Licenses \cup {NULL}, Ledger!Retire(c, l)
        PROVE  UserCards' /\ RenewalCardSpentOnce'
    BY <1>4 DEF Ledger!Retire, Ledger!SetLicenseOf, Ledger!Terminal
  <1>5. ASSUME NEW l \in Licenses, Ledger!SwitchLicense(l) PROVE UserCards' /\ RenewalCardSpentOnce'
    BY <1>5 DEF Ledger!SwitchLicense
  <1>6. ASSUME UNCHANGED Ledger!ledgerVars PROVE UserCards' /\ RenewalCardSpentOnce'
    BY <1>6 DEF Ledger!ledgerVars
  <1> QED
    BY StepIsLedgerStep, <1>1, <1>2, <1>3, <1>4, <1>5, <1>6 DEF LedgerStep, Ledger!Next

\* A request changes slot only in its own steps; only an administrator's first
\* step makes a card action or a licence action.
Untouched(s) == req'[s] = req[s] \/ req'[s].pc \notin {"card action", "license action"}

\* A step that fills the slot r with another kind of request is such a step.
LEMMA FilledUntouched ==
  ASSUME TypeOK, NEW r \in Requests, NEW s \in Requests, NEW q,
         req' = [req EXCEPT ![r] = q], q.pc \notin {"card action", "license action"}
  PROVE  Untouched(s)
  <1>1. req \in [Requests -> RequestRecord]
    BY DEF TypeOK
  <1>2. CASE s = r
    BY <1>1, <1>2 DEF Untouched
  <1>3. CASE s # r
    BY <1>1, <1>3 DEF Untouched
  <1> QED
    BY <1>2, <1>3

LEMMA EndsUntouched ==
  ASSUME TypeOK, NEW r \in Requests, NEW s \in Requests, Ends(r)
  PROVE  Untouched(s)
  <1>1. NoRequest.pc \notin {"card action", "license action"}
    BY DEF NoRequest
  <1> QED
    BY <1>1, FilledUntouched DEF Ends

LEMMA UntouchedNext ==
  ASSUME RowInv, [Next]_vars, NEW s \in Requests
  PROVE  \/ Untouched(s)
         \/ \E r \in AdminRequests : BeginCardAction(r) \/ BeginLicenseAction(r)
  <1> USE DEF RowInv, TypeInv, TypeOK, Requests
  <1>4. ASSUME NEW r \in ClientRequests, ClientStep(r) PROVE Untouched(s)
    <2>1. CASE BeginActivate(r)
      <3>1. PICK c \in Cards, f \in Fingerprints, k \in Keys :
              Starts(r, [NoRequest EXCEPT !.pc = "activate", !.card = c, !.fp = f,
                                    !.key = k, !.at = now])
        BY <2>1 DEF BeginActivate
      <3> DEFINE new == [NoRequest EXCEPT !.pc = "activate", !.card = c, !.fp = f,
                                    !.key = k, !.at = now]
      <3>2. new.pc \notin {"card action", "license action"}
        BY DEF NoRequest
      <3>3. req' = [req EXCEPT ![r] = new]
        BY <3>1 DEF Starts
      <3> HIDE DEF new
      <3> QED
        BY <3>2, <3>3, FilledUntouched
    <2>7. CASE BeginHeartbeat(r)
      <3>1. PICK l \in Licenses, f \in Fingerprints :
              Starts(r, [NoRequest EXCEPT !.pc = "check", !.lic = l, !.fp = f])
        BY <2>7 DEF BeginHeartbeat
      <3> DEFINE new == [NoRequest EXCEPT !.pc = "check", !.lic = l, !.fp = f]
      <3>2. new.pc \notin {"card action", "license action"}
        BY DEF NoRequest
      <3>3. req' = [req EXCEPT ![r] = new]
        BY <3>1 DEF Starts
      <3> HIDE DEF new
      <3> QED
        BY <3>2, <3>3, FilledUntouched
    <2>8. CASE BeginRedeem(r)
      <3>1. PICK l \in Licenses, f \in Fingerprints, c \in Cards :
              Starts(r, [NoRequest EXCEPT !.pc = "redeem", !.lic = l, !.fp = f,
                                       !.card = c, !.at = now])
        BY <2>8 DEF BeginRedeem
      <3> DEFINE new == [NoRequest EXCEPT !.pc = "redeem", !.lic = l, !.fp = f,
                                       !.card = c, !.at = now]
      <3>2. new.pc \notin {"card action", "license action"}
        BY DEF NoRequest
      <3>3. req' = [req EXCEPT ![r] = new]
        BY <3>1 DEF Starts
      <3> HIDE DEF new
      <3> QED
        BY <3>2, <3>3, FilledUntouched
    <2>9. CASE BeginDeactivate(r)
      <3>1. PICK l \in Licenses, f \in Fingerprints :
              Starts(r, [NoRequest EXCEPT !.pc = "unbind", !.lic = l, !.fp = f])
        BY <2>9 DEF BeginDeactivate
      <3> DEFINE new == [NoRequest EXCEPT !.pc = "unbind", !.lic = l, !.fp = f]
      <3>2. new.pc \notin {"card action", "license action"}
        BY DEF NoRequest
      <3>3. req' = [req EXCEPT ![r] = new]
        BY <3>1 DEF Starts
      <3> HIDE DEF new
      <3> QED
        BY <3>2, <3>3, FilledUntouched
    <2>10. ASSUME NEW l, ToAdmission(r, l) PROVE Untouched(s)
      <3> DEFINE new == [NoRequest EXCEPT !.pc = "admit", !.lic = l, !.fp = req[r].fp,
                                          !.until = now + LeaseTTL]
      <3>1. new.pc \notin {"card action", "license action"}
        BY DEF NoRequest
      <3>2. req' = [req EXCEPT ![r] = new]
        BY <2>10 DEF ToAdmission
      <3> HIDE DEF new
      <3> QED
        BY <3>1, <3>2, FilledUntouched
    <2>2. CASE FreshActivation(r)
      <3>1. PICK l \in Licenses : ToAdmission(r, l)
        BY <2>2 DEF FreshActivation, ToAdmission
      <3> QED
        BY <3>1, <2>10
    <2>3. CASE Reactivation(r) \/ NewBinding(r)
      <3>1. PICK l : ToAdmission(r, l)
        BY <2>3 DEF Reactivation, NewBinding
      <3> QED
        BY <3>1, <2>10
    <2>4. ASSUME Ends(r) PROVE Untouched(s)
      BY <2>4, EndsUntouched
    <2>5. CASE Admission(r) \/ HeartbeatRenew(r) \/ RedeemCard(r)
      BY <2>4, <2>5 DEF Admission, HeartbeatRenew, RedeemCard
    <2>6. CASE HeartbeatCheck(r)
      <3>1. req[r] \in RequestRecord
        OBVIOUS
      <3> QED
        BY <2>6, <3>1 DEF HeartbeatCheck, RequestRecord, Untouched
    <2> QED
      BY <1>4, <2>1, <2>7, <2>8, <2>9, <2>2, <2>3, <2>5, <2>6 DEF ClientStep
  <1>5. ASSUME NEW r \in AdminRequests, AdminStep(r), ~BeginCardAction(r), ~BeginLicenseAction(r)
        PROVE  Untouched(s)
    <2>1. CASE BeginAdminUnbind(r)
      <3>1. PICK l \in Licenses, f \in Fingerprints :
              Starts(r, [NoRequest EXCEPT !.pc = "unbind", !.lic = l, !.fp = f])
        BY <2>1 DEF BeginAdminUnbind
      <3> DEFINE new == [NoRequest EXCEPT !.pc = "unbind", !.lic = l, !.fp = f]
      <3>2. new.pc \notin {"card action", "license action"}
        BY DEF NoRequest
      <3>3. req' = [req EXCEPT ![r] = new]
        BY <3>1 DEF Starts
      <3> HIDE DEF new
      <3> QED
        BY <3>2, <3>3, FilledUntouched
    <2>4. CASE BeginExtend(r)
      <3>1. PICK l \in Licenses :
              Starts(r, [NoRequest EXCEPT !.pc = "extend", !.lic = l])
        BY <2>4 DEF BeginExtend
      <3> DEFINE new == [NoRequest EXCEPT !.pc = "extend", !.lic = l]
      <3>2. new.pc \notin {"card action", "license action"}
        BY DEF NoRequest
      <3>3. req' = [req EXCEPT ![r] = new]
        BY <3>1 DEF Starts
      <3> HIDE DEF new
      <3> QED
        BY <3>2, <3>3, FilledUntouched
    <2>2. ASSUME Ends(r) PROVE Untouched(s)
      BY <2>2, EndsUntouched
    <2>3. CASE FreezeCard(r) \/ UnfreezeCard(r) \/ RevokeCard(r) \/ FreezeOrThawLicense(r)
               \/ RevokeLicense(r) \/ ExtendByAdmin(r)
      BY <2>2, <2>3 DEF FreezeCard, UnfreezeCard, RevokeCard, FreezeOrThawLicense, RevokeLicense,
         ExtendByAdmin
    <2> QED
      BY <1>5, <2>1, <2>4, <2>3 DEF AdminStep
  <1>6. ASSUME NEW r \in Requests, AnyRequestStep(r) PROVE Untouched(s)
    <2>1. CASE UnbindRow(r)
      <3>1. req[r] \in RequestRecord
        OBVIOUS
      <3> QED
        BY <2>1, <3>1 DEF UnbindRow, RequestRecord, Untouched
    <2>2. ASSUME Ends(r) PROVE Untouched(s)
      BY <2>2, EndsUntouched
    <2>3. CASE DropSeat(r) \/ EndRequest(r)
      BY <2>2, <2>3 DEF DropSeat, EndRequest
    <2> QED
      BY <1>6, <2>1, <2>3 DEF AnyRequestStep
  <1>7. ASSUME NEW c \in Cards, BindCardToUser(c) PROVE Untouched(s)
    BY <1>7 DEF BindCardToUser, Untouched
  <1>8. ASSUME NEW p \in Plans, NEW active \in BOOLEAN, SetPlanStatus(p, active)
        PROVE Untouched(s)
    BY <1>8 DEF SetPlanStatus, Untouched
  <1>9. ASSUME NEW p \in Products, NEW active \in BOOLEAN, SetProductStatus(p, active)
        PROVE Untouched(s)
    BY <1>9 DEF SetProductStatus, Untouched
  <1>10. ASSUME NEW l \in Licenses, NEW f \in Fingerprints, SeatLapses(l, f)
         PROVE Untouched(s)
    BY <1>10 DEF SeatLapses, Untouched
  <1>11. ASSUME Tick \/ UNCHANGED vars PROVE Untouched(s)
    BY <1>11 DEF Tick, vars, Untouched
  <1> QED
    BY ONLY [Next]_vars, <1>4, <1>5, <1>6, <1>7, <1>8, <1>9, <1>10, <1>11
       DEF Next, Requests

\* What administrators read stays true while other requests run.
LEMMA ReadByAdminNext ==
  ASSUME RowInv, [Next]_vars, NEW s \in Requests
  PROVE  ReadByAdmin(req[s])'
  <1> USE DEF RowInv, TypeInv, TypeOK, Requests
  <1>1. ASSUME Untouched(s) PROVE ReadByAdmin(req[s])'
    <2>1. /\ ReadByAdmin(req[s]) /\ Shaped(req[s]) /\ req[s] \in RequestRecord
          /\ RowsStay /\ PointersAgree
      BY PointersNext
    <2>2. req[s].lic \in Licenses \cup {NULL} /\ (req[s].pc = "card action" => req[s].card \in Cards)
      BY <2>1 DEF RequestRecord, Shaped
    <2>3. CASE req'[s] = req[s] /\ req[s].pc = "card action"
      <3>1. req[s].lic # NULL => licOrigin[req[s].lic] \in Cards
        BY <2>1, <2>2, <2>3 DEF ReadByAdmin
      <3>2. req[s].lic # NULL => licOrigin'[req[s].lic] = licOrigin[req[s].lic]
        BY <2>1, <2>2, <3>1, ConstantsAssumption DEF RowsStay, PointersAgree
      <3> QED
        BY <2>1, <2>3, <3>2 DEF ReadByAdmin
    <2>4. CASE req'[s] = req[s] /\ req[s].pc = "license action"
      BY <2>1, <2>4 DEF ReadByAdmin, RowsStay, Shaped
    <2>5. CASE req'[s].pc \notin {"card action", "license action"}
      BY <2>5 DEF ReadByAdmin
    <2> QED
      BY <1>1, <2>3, <2>4, <2>5 DEF Untouched
  <1>2. ASSUME NEW r \in AdminRequests, BeginCardAction(r) PROVE ReadByAdmin(req[s])'
    <2>1. PICK c \in Cards, a \in AdminActions :
            /\ CardActionAllowed(a, cardStatus[c])
            /\ Starts(r, [NoRequest EXCEPT !.pc = "card action", !.card = c,
                         !.action = a, !.status = cardStatus[c],
                         !.activated = cardActivated[c], !.lic = cardLicense[c]])
      BY <1>2 DEF BeginCardAction
    <2>2. CASE s # r
      BY <1>1, <2>1, <2>2 DEF Starts, Untouched
    <2>3. CASE s = r
      <3>1. /\ req'[s].pc = "card action" /\ req'[s].card = c /\ req'[s].lic = cardLicense[c]
            /\ req'[s].action = a /\ req'[s].status = cardStatus[c]
        BY <2>1, <2>3 DEF Starts, NoRequest
      <3>2. /\ cardLicense[c] # NULL => licOrigin[cardLicense[c]] = c
            /\ a = "freeze" => cardStatus[c] \in {"active", "unused"}
        BY <2>1 DEF PointersAgree, CardActionAllowed
      <3>3. licOrigin' = licOrigin
        BY <1>2 DEF BeginCardAction, licVars
      <3> QED
        BY <3>1, <3>2, <3>3 DEF ReadByAdmin
    <2> QED
      BY <2>2, <2>3
  <1>3. ASSUME NEW r \in AdminRequests, BeginLicenseAction(r) PROVE ReadByAdmin(req[s])'
    <2>1. PICK l \in Licenses, a \in AdminActions :
            /\ licStatus[l] # "none"
            /\ LicenseActionAllowed(a, licStatus[l])
            /\ Starts(r, [NoRequest EXCEPT !.pc = "license action", !.lic = l,
                                       !.action = a, !.status = licStatus[l]])
      BY <1>3 DEF BeginLicenseAction
    <2>2. CASE s # r
      BY <1>1, <2>1, <2>2 DEF Starts, Untouched
    <2>3. CASE s = r
      <3>1. /\ req'[s].pc = "license action" /\ req'[s].lic = l
            /\ req'[s].action = a /\ req'[s].status = licStatus[l]
        BY <2>1, <2>3 DEF Starts, NoRequest
      <3>2. /\ a = "freeze" => licStatus[l] = "active"
            /\ a = "unfreeze" => licStatus[l] = "frozen"
        BY <2>1 DEF LicenseActionAllowed
      <3>3. licStatus' = licStatus
        BY <1>3 DEF BeginLicenseAction, licVars
      <3> QED
        BY <2>1, <3>1, <3>2, <3>3 DEF ReadByAdmin
    <2> QED
      BY <2>2, <2>3
  <1> QED
    BY <1>1, <1>2, <1>3, UntouchedNext

LEMMA RowNext == RowInv /\ [Next]_vars => RowInv'
  BY TypeNext, PointersNext, DeadNext, ConsumedNext, ReadByAdminNext DEF RowInv, TypeInv, Requests

LEMMA RowsCorrect == Spec => []RowInv
  BY RowInit, RowNext, PTL DEF Spec

-----------------------------------------------------------------------------
(***************************************************************************)
(* The theorems about the rows.                                            *)
(***************************************************************************)

\* The pointers between cards and licences agree, whatever interleaves.
THEOREM PointersCorrect == Spec => []PointersAgree
  <1>1. RowInv => PointersAgree
    BY DEF RowInv
  <1> QED
    BY RowsCorrect, <1>1, PTL

\* A revoked or voided licence has a terminal card: no activation revives it.
THEOREM DeadStaysDead == Spec => []DeadLicenseDeadCard
  <1>1. RowInv => DeadLicenseDeadCard
    BY DEF RowInv
  <1> QED
    BY RowsCorrect, <1>1, PTL

\* A renewal card is spent at most once, and is depleted then.
THEOREM SpentOnce == Spec => []RenewalCardSpentOnce
  <1>1. RowInv => RenewalCardSpentOnce
    BY DEF RowInv
  <1> QED
    BY RowsCorrect, <1>1, PTL

\* A card is consumed by a user account or by a licence, never by both.
THEOREM ConsumedOnce == Spec => []ExclusiveConsumption
  <1>1. RowInv => ExclusiveConsumption
    BY ConstantsAssumption DEF RowInv, UserCards, PointersAgree, ExclusiveConsumption, TypeInv, TypeOK
  <1> QED
    BY RowsCorrect, <1>1, PTL

\* No step leads out of a terminal status.
THEOREM TerminalForGood == Spec => TerminalIsFinal
  <1>1. RowInv /\ [Next]_vars =>
          [/\ \A c \in Cards : cardStatus[c] \in CardTerminal => cardStatus'[c] = cardStatus[c]
           /\ \A l \in Licenses : licStatus[l] \in LicTerminal
                                     => licStatus'[l] = licStatus[l]]_vars
    BY TerminalNext DEF TerminalStays
  <1> QED
    BY RowsCorrect, <1>1, PTL DEF Spec, TerminalIsFinal

\* The handlers, with their stale reads, implement the atomic card ledger.
THEOREM LedgerImplemented == Spec => ImplementsLedger
  <1>1. Init => Ledger!Init
    BY DEF Init, Ledger!Init
  <1>2. RowInv /\ [Next]_vars => [Ledger!Next]_(Ledger!ledgerVars)
    BY StepIsLedgerStep DEF LedgerStep
  <1> QED
    BY RowsCorrect, <1>1, <1>2, PTL DEF Spec, ImplementsLedger, Ledger!Spec

-----------------------------------------------------------------------------
(***************************************************************************)
(* Freezing or revoking a licence bounds every lease: those already        *)
(* issued, and those an activation, a heartbeat or a redemption still in   *)
(* flight is about to issue.                                               *)
(***************************************************************************)
Inactive == {"frozen", "revoked", "voided"}

\* A lease expiry t of licence l respects the last time l stopped being active.
Bounded(t, l) == /\ t <= now + LeaseTTL
                 /\ licStatus[l] \in Inactive => t <= inactiveSince[l] + LeaseTTL

\* The lease a request is about to issue, if it gets that far.
Pending(rec) ==
    /\ rec.pc \in {"admit", "renew"} => licStatus[rec.lic] # "none" /\ Bounded(rec.until, rec.lic)
    /\ rec.pc = "redeem" => rec.at <= now

LeaseInv ==
    /\ RowInv
    /\ \A l \in Licenses : Bounded(leaseUntil[l], l)
    /\ \A r \in Requests : Pending(req[r])

LEMMA LeaseInit == Init => LeaseInv
  <1> SUFFICES ASSUME Init PROVE LeaseInv
    OBVIOUS
  <1>1. \A l \in Licenses : Bounded(leaseUntil[l], l)
    BY ConstantsAssumption DEF Init, Bounded, Inactive
  <1>2. \A r \in Requests : Pending(req[r])
    BY DEF Init, Pending, NoRequest
  <1> QED
    BY RowInit, <1>1, <1>2 DEF LeaseInv

-----------------------------------------------------------------------------
\* How a step moves the status of a licence and the time it went inactive.
StatusMoves ==
    /\ now <= now'
    /\ \A l \in Licenses :
        \/ licStatus'[l] = licStatus[l] /\ inactiveSince'[l] = inactiveSince[l]
        \/ licStatus'[l] = "active"
        \/ licStatus[l] = "active" /\ inactiveSince'[l] = now
        \/ licStatus[l] \in Inactive /\ inactiveSince'[l] = inactiveSince[l]

LEMMA SetLicStatusMoves ==
  ASSUME TypeInv, NEW l \in Licenses, NEW s \in LicStatuses, SetLicStatus(l, s),
         s = "active" \/ licStatus[l] # "none", now' = now
  PROVE  StatusMoves
  BY DEF TypeInv, TypeOK, SetLicStatus, StatusMoves, LicStatuses, Inactive

LEMMA StatusMovesNext ==
  ASSUME RowInv, [Next]_vars
  PROVE  StatusMoves
  <1> USE DEF RowInv, TypeInv, TypeOK, Requests
  <1>1. ASSUME UNCHANGED <<licStatus, inactiveSince, now>> PROVE StatusMoves
    BY <1>1 DEF StatusMoves
  <1>2. ASSUME NEW r \in ClientRequests, ClientStep(r) PROVE StatusMoves
    <2>1. CASE FreshActivation(r)
      <3>1. PICK l \in Licenses : SetLicStatus(l, "active")
        BY <2>1 DEF FreshActivation
      <3>2. now' = now
        BY <2>1 DEF FreshActivation
      <3> QED
        BY <3>1, <3>2, SetLicStatusMoves DEF LicStatuses
    <2> QED
      BY <1>1, <1>2, <2>1 DEF ClientStep, BeginActivate, Reactivation, NewBinding, Admission,
         BeginHeartbeat, HeartbeatCheck, HeartbeatRenew, BeginRedeem, RedeemCard,
         BeginDeactivate, licVars
  <1>3. ASSUME NEW r \in AdminRequests, AdminStep(r) PROVE StatusMoves
    <2> DEFINE l == req[r].lic
    <2>1. l \in Licenses \cup {NULL} /\ Shaped(req[r]) /\ ReadByAdmin(req[r])
      BY DEF RequestRecord
    <2>2. CASE FreezeCard(r) \/ UnfreezeCard(r)
      <3>1. MoveLicense(l, "active", "frozen") \/ MoveLicense(l, "frozen", "active")
        BY <2>2 DEF FreezeCard, UnfreezeCard
      <3>2. now' = now
        BY <2>2 DEF FreezeCard, UnfreezeCard
      <3>3. CASE l = NULL
        BY <1>1, <3>1, <3>2, <3>3 DEF MoveLicense
      <3>4. CASE l # NULL
        BY <2>1, <3>1, <3>2, <3>4, SetLicStatusMoves DEF MoveLicense, LicStatuses
      <3> QED
        BY <3>3, <3>4
    <2>3. CASE RevokeCard(r)
      <3>1. TerminateLicense(l, TerminalOf(req[r].action)) /\ now' = now
        BY <2>3 DEF RevokeCard
      <3>2. l # NULL => licOrigin[l] \in Cards
        BY <2>1, <2>3 DEF RevokeCard, CardActionStarted, ReadByAdmin, Shaped
      <3>3. l # NULL => l \in Licenses /\ licStatus[l] # "none"
        BY <2>1, <3>2, ConstantsAssumption DEF PointersAgree
      <3>4. TerminalOf(req[r].action) \in LicStatuses
        BY DEF TerminalOf, LicStatuses
      <3>5. CASE l = NULL
        BY <1>1, <3>1, <3>5 DEF TerminateLicense
      <3>6. CASE l # NULL
        BY <3>1, <3>3, <3>4, <3>6, SetLicStatusMoves DEF TerminateLicense
      <3> QED
        BY <3>5, <3>6
    <2>4. CASE FreezeOrThawLicense(r) \/ RevokeLicense(r)
      <3>1. PICK s \in LicStatuses : SetLicStatus(l, s)
        BY <2>4 DEF FreezeOrThawLicense, RevokeLicense, TerminalOf, LicStatuses
      <3>2. l \in Licenses /\ licStatus[l] # "none" /\ now' = now
        BY <2>1, <2>4 DEF FreezeOrThawLicense, RevokeLicense, ReadByAdmin, Shaped
      <3> QED
        BY <3>1, <3>2, SetLicStatusMoves
    <2> QED
      BY <1>1, <1>3, <2>2, <2>3, <2>4 DEF AdminStep, BeginAdminUnbind, BeginCardAction,
         BeginLicenseAction, BeginExtend, ExtendByAdmin, licVars
  <1>4. ASSUME NEW r \in Requests, AnyRequestStep(r) PROVE StatusMoves
    BY <1>1, <1>4 DEF AnyRequestStep, UnbindRow, DropSeat, EndRequest, licVars
  <1>5. ASSUME NEW c \in Cards, BindCardToUser(c) PROVE StatusMoves
    BY <1>1, <1>5 DEF BindCardToUser, licVars
  <1>6. ASSUME NEW p \in Plans, NEW active \in BOOLEAN, SetPlanStatus(p, active)
        PROVE StatusMoves
    BY <1>1, <1>6 DEF SetPlanStatus, licVars
  <1>7. ASSUME NEW p \in Products, NEW active \in BOOLEAN, SetProductStatus(p, active)
        PROVE StatusMoves
    BY <1>1, <1>7 DEF SetProductStatus, licVars
  <1>8. ASSUME NEW l \in Licenses, NEW f \in Fingerprints, SeatLapses(l, f)
        PROVE StatusMoves
    BY <1>1, <1>8 DEF SeatLapses, licVars
  <1>9. ASSUME Tick PROVE StatusMoves
    BY <1>9 DEF Tick, licVars, StatusMoves
  <1>10. ASSUME UNCHANGED vars PROVE StatusMoves
    BY <1>1, <1>10 DEF vars, licVars
  <1> QED
    BY ONLY [Next]_vars, <1>2, <1>3, <1>4, <1>5, <1>6, <1>7, <1>8, <1>9, <1>10 DEF Next

LEMMA LaterBound == \A a, b, c, d \in Nat : a <= b + d /\ b <= c => a <= c + d
  OBVIOUS

LEMMA BoundedStays ==
  ASSUME RowInv, StatusMoves, now' \in Nat, NEW l \in Licenses, NEW t \in Nat, Bounded(t, l)
  PROVE  Bounded(t, l)'
  <1> USE ConstantsAssumption DEF RowInv, TypeInv, TypeOK
  <1>1. /\ now \in Nat /\ now' \in Nat /\ now <= now' /\ LeaseTTL \in Nat
        /\ t <= now + LeaseTTL /\ t \in Nat
    BY DEF StatusMoves, Bounded
  <1>2. t <= now' + LeaseTTL
    BY <1>1, LaterBound
  <1>3. licStatus'[l] \in Inactive => t <= inactiveSince'[l] + LeaseTTL
    <2>1. CASE licStatus'[l] = licStatus[l] /\ inactiveSince'[l] = inactiveSince[l]
      BY <2>1 DEF Bounded
    <2>2. CASE licStatus'[l] = "active"
      BY <2>2 DEF Inactive
    <2>3. CASE licStatus[l] = "active" /\ inactiveSince'[l] = now
      BY <2>3 DEF Bounded
    <2>4. CASE licStatus[l] \in Inactive /\ inactiveSince'[l] = inactiveSince[l]
      BY <2>4 DEF Bounded
    <2> QED
      BY ONLY StatusMoves, l \in Licenses, <2>1, <2>2, <2>3, <2>4 DEF StatusMoves
  <1> QED
    BY <1>2, <1>3 DEF Bounded

LEMMA IssueLeaseCases ==
  ASSUME leaseUntil \in [Licenses -> Nat], NEW l \in Licenses, NEW m \in Licenses,
         NEW t \in Nat, IssueLease(m, t)
  PROVE  leaseUntil'[l] = leaseUntil[l] \/ (l = m /\ leaseUntil'[l] = t)
  <1>1. CASE t > leaseUntil[m]
    <2>1. leaseUntil' = [leaseUntil EXCEPT ![m] = t]
      BY <1>1 DEF IssueLease
    <2> QED
      BY <2>1
  <1>2. CASE ~(t > leaseUntil[m])
    <2>1. leaseUntil' = [leaseUntil EXCEPT ![m] = leaseUntil[m]]
      BY <1>2 DEF IssueLease
    <2> QED
      BY <2>1
  <1> QED
    BY <1>1, <1>2

\* A lease that is issued is one that was pending.
LEMMA IssuedWasPending ==
  ASSUME LeaseInv, [Next]_vars, NEW l \in Licenses
  PROVE  Bounded(leaseUntil'[l], l)
  <1> USE ConstantsAssumption DEF LeaseInv, RowInv, TypeInv, TypeOK, Requests
  <1>1. ASSUME UNCHANGED leaseUntil PROVE Bounded(leaseUntil'[l], l)
    BY <1>1
  <1>2. ASSUME NEW r \in ClientRequests, ClientStep(r) PROVE Bounded(leaseUntil'[l], l)
    <2>1. CASE Admission(r) \/ HeartbeatRenew(r)
      <3>1. /\ req[r].lic \in Licenses /\ Bounded(req[r].until, req[r].lic)
            /\ IssueLease(req[r].lic, req[r].until)
        BY <2>1 DEF Admission, HeartbeatRenew, Shaped, Pending
      <3> QED
        BY <3>1 DEF IssueLease
    <2>2. CASE RedeemCard(r)
      <3>1. /\ req[r].lic \in Licenses /\ licStatus[req[r].lic] = "active"
            /\ req[r].at <= now /\ IssueLease(req[r].lic, req[r].at + LeaseTTL)
        BY <2>2 DEF RedeemCard, Redeemable, Shaped, Pending
      <3>2. req[r].at \in Nat /\ now \in Nat /\ LeaseTTL \in Nat
        BY DEF RequestRecord
      <3>3. Bounded(req[r].at + LeaseTTL, req[r].lic)
        BY ONLY <3>1, <3>2 DEF Bounded, Inactive
      <3>4. leaseUntil'[l] = leaseUntil[l]
            \/ (l = req[r].lic /\ leaseUntil'[l] = req[r].at + LeaseTTL)
        <4>1. req[r].at + LeaseTTL \in Nat /\ leaseUntil \in [Licenses -> Nat]
          BY <3>2
        <4> QED
          BY <3>1, <4>1, IssueLeaseCases
      <3> QED
        BY <3>3, <3>4
    <2> QED
      BY <1>1, <1>2, <2>1, <2>2 DEF ClientStep, BeginActivate, FreshActivation, Reactivation,
         NewBinding, BeginHeartbeat, HeartbeatCheck, BeginRedeem, BeginDeactivate
  <1>3. ASSUME NEW r \in AdminRequests, AdminStep(r) PROVE UNCHANGED leaseUntil
    BY <1>3 DEF AdminStep, BeginAdminUnbind, BeginCardAction, FreezeCard, UnfreezeCard,
       RevokeCard, BeginLicenseAction, FreezeOrThawLicense, RevokeLicense, BeginExtend,
       ExtendByAdmin
  <1>4. ASSUME NEW r \in Requests, AnyRequestStep(r) PROVE UNCHANGED leaseUntil
    BY <1>4 DEF AnyRequestStep, UnbindRow, DropSeat, EndRequest
  <1>5. ASSUME \/ \E c \in Cards : BindCardToUser(c)
               \/ \E p \in Plans, active \in BOOLEAN : SetPlanStatus(p, active)
               \/ \E p \in Products, active \in BOOLEAN : SetProductStatus(p, active)
               \/ \E m \in Licenses, f \in Fingerprints : SeatLapses(m, f)
               \/ Tick \/ UNCHANGED vars
        PROVE  UNCHANGED leaseUntil
    BY <1>5 DEF BindCardToUser, SetPlanStatus, SetProductStatus, SeatLapses, Tick, vars
  <1> QED
    BY ONLY [Next]_vars, <1>1, <1>2, <1>3, <1>4, <1>5 DEF Next

\* A request becomes pending only on an active licence, with the lease and the
\* clock of that moment.
NewlyPending(rec) ==
    /\ rec.pc \in {"admit", "renew"} =>
         /\ licStatus'[rec.lic] = "active" /\ rec.lic \in Licenses
         /\ rec.until = now + LeaseTTL
    /\ rec.pc = "redeem" => rec.at = now

\* No administrator's request starts as one that will issue a lease.
LEMMA AdminBegins ==
  ASSUME TypeInv, NEW r \in AdminRequests, NEW s \in Requests,
         BeginAdminUnbind(r) \/ BeginExtend(r) \/ BeginCardAction(r) \/ BeginLicenseAction(r)
  PROVE  req'[s] = req[s] \/ req'[s].pc \notin {"admit", "renew", "redeem"}
  <1>0. req \in [Requests -> RequestRecord] /\ r \in Requests
    BY DEF TypeInv, TypeOK, Requests
  <1>1. CASE BeginAdminUnbind(r)
    <2>1. PICK l, f :
            req' = [req EXCEPT ![r] = [NoRequest EXCEPT !.pc = "unbind", !.lic = l, !.fp = f]]
      BY <1>1 DEF BeginAdminUnbind, Starts
    <2> QED
      BY <1>0, <2>1 DEF NoRequest
  <1>2. CASE BeginExtend(r)
    <2>1. PICK l :
            req' = [req EXCEPT ![r] = [NoRequest EXCEPT !.pc = "extend", !.lic = l]]
      BY <1>2 DEF BeginExtend, Starts
    <2> QED
      BY <1>0, <2>1 DEF NoRequest
  <1>3. CASE BeginCardAction(r)
    <2>1. PICK c, a :
            req' = [req EXCEPT ![r] = [NoRequest EXCEPT !.pc = "card action", !.card = c,
                         !.action = a, !.status = cardStatus[c],
                         !.activated = cardActivated[c], !.lic = cardLicense[c]]]
      BY <1>3 DEF BeginCardAction, Starts
    <2> QED
      BY <1>0, <2>1 DEF NoRequest
  <1>4. CASE BeginLicenseAction(r)
    <2>1. PICK l, a :
            req' = [req EXCEPT ![r] = [NoRequest EXCEPT !.pc = "license action", !.lic = l,
                                       !.action = a, !.status = licStatus[l]]]
      BY <1>4 DEF BeginLicenseAction, Starts
    <2> QED
      BY <1>0, <2>1 DEF NoRequest
  <1> QED
    BY <1>1, <1>2, <1>3, <1>4

LEMMA PendingIsNew ==
  ASSUME LeaseInv, [Next]_vars, NEW s \in Requests
  PROVE  req'[s] = req[s] \/ NewlyPending(req'[s])
  <1> DEFINE Goal == req'[s] = req[s] \/ NewlyPending(req'[s])
  <1> USE ConstantsAssumption DEF LeaseInv, RowInv, TypeInv, TypeOK, Requests
  <1>1. ASSUME UNCHANGED req PROVE Goal
    BY <1>1
  <1>2. ASSUME NEW r \in Requests, Ends(r) PROVE Goal
    BY <1>2 DEF Ends, NoRequest, NewlyPending
  <1>3. ASSUME NEW r \in ClientRequests, ClientStep(r) PROVE Goal
    <2>1. CASE BeginActivate(r) \/ BeginHeartbeat(r) \/ BeginDeactivate(r)
      <3>1. req'[s] = req[s] \/ req'[s].pc = "activate" \/ req'[s].pc = "check"
            \/ req'[s].pc = "unbind"
        <4>1. CASE BeginActivate(r)
          BY <4>1 DEF BeginActivate, Starts, NoRequest
        <4>2. CASE BeginHeartbeat(r)
          BY <4>2 DEF BeginHeartbeat, Starts, NoRequest
        <4>3. CASE BeginDeactivate(r)
          BY <4>3 DEF BeginDeactivate, Starts, NoRequest
        <4> QED
          BY <2>1, <4>1, <4>2, <4>3
      <3> QED
        BY <3>1 DEF NewlyPending
    <2>2. CASE BeginRedeem(r)
      BY <2>2 DEF BeginRedeem, Starts, NoRequest, NewlyPending
    <2>3. CASE FreshActivation(r)
      <3>1. PICK l \in Licenses :
              /\ SetLicStatus(l, "active")
              /\ req' = [req EXCEPT ![r] =
                          [NoRequest EXCEPT !.pc = "admit", !.lic = l, !.fp = req[r].fp,
                                            !.until = now + LeaseTTL]]
        BY <2>3 DEF FreshActivation
      <3>2. licStatus'[l] = "active"
        BY <3>1 DEF SetLicStatus
      <3> QED
        BY <3>1, <3>2 DEF NoRequest, NewlyPending
    <2>4. CASE Reactivation(r) \/ NewBinding(r)
      <3> DEFINE l == cardLicense[req[r].card]
      <3>1. /\ l \in Licenses /\ licStatus[l] = "active" /\ licStatus' = licStatus
            /\ ToAdmission(r, l)
        BY <2>4 DEF Reactivation, NewBinding, ActiveCardAccepted, Shaped, licVars
      <3> HIDE DEF l
      <3> QED
        BY <3>1 DEF ToAdmission, NoRequest, NewlyPending
    <2>5. CASE Admission(r) \/ HeartbeatRenew(r) \/ RedeemCard(r)
      BY <1>2, <2>5 DEF Admission, HeartbeatRenew, RedeemCard
    <2>6. CASE HeartbeatCheck(r)
      <3>1. /\ req[r] \in RequestRecord /\ req[r].lic \in Licenses
            /\ licStatus'[req[r].lic] = "active"
        BY <2>6 DEF HeartbeatCheck, Shaped, licVars
      <3>2. req' = [req EXCEPT ![r].pc = "renew", ![r].until = now + LeaseTTL]
        BY <2>6 DEF HeartbeatCheck
      <3> QED
        BY <3>1, <3>2 DEF RequestRecord, NewlyPending
    <2> QED
      BY <1>3, <2>1, <2>2, <2>3, <2>4, <2>5, <2>6 DEF ClientStep
  <1>4. ASSUME NEW r \in AdminRequests, AdminStep(r) PROVE Goal
    <2>1. CASE BeginAdminUnbind(r) \/ BeginExtend(r) \/ BeginCardAction(r) \/ BeginLicenseAction(r)
      BY <2>1, AdminBegins DEF NewlyPending
    <2>2. CASE FreezeCard(r) \/ UnfreezeCard(r) \/ RevokeCard(r) \/ FreezeOrThawLicense(r)
               \/ RevokeLicense(r) \/ ExtendByAdmin(r)
      BY <1>2, <2>2 DEF FreezeCard, UnfreezeCard, RevokeCard, FreezeOrThawLicense, RevokeLicense,
         ExtendByAdmin
    <2> QED
      BY <1>4, <2>1, <2>2 DEF AdminStep
  <1>5. ASSUME NEW r \in Requests, AnyRequestStep(r) PROVE Goal
    <2>1. CASE UnbindRow(r)
      <3>1. req[r] \in RequestRecord
        OBVIOUS
      <3> QED
        BY <2>1, <3>1 DEF UnbindRow, RequestRecord, NewlyPending
    <2>2. CASE DropSeat(r) \/ EndRequest(r)
      BY <1>2, <2>2 DEF DropSeat, EndRequest
    <2> QED
      BY <1>5, <2>1, <2>2 DEF AnyRequestStep
  <1>6. ASSUME \/ \E c \in Cards : BindCardToUser(c)
               \/ \E p \in Plans, active \in BOOLEAN : SetPlanStatus(p, active)
               \/ \E p \in Products, active \in BOOLEAN : SetProductStatus(p, active)
               \/ \E m \in Licenses, f \in Fingerprints : SeatLapses(m, f)
               \/ Tick \/ UNCHANGED vars
        PROVE  UNCHANGED req
    BY <1>6 DEF BindCardToUser, SetPlanStatus, SetProductStatus, SeatLapses, Tick, vars
  <1> QED
    BY ONLY [Next]_vars, <1>1, <1>3, <1>4, <1>5, <1>6 DEF Next

LEMMA LeaseNext == LeaseInv /\ [Next]_vars => LeaseInv'
  <1> SUFFICES ASSUME LeaseInv, [Next]_vars PROVE LeaseInv'
    OBVIOUS
  <1>1. RowInv /\ RowInv' /\ StatusMoves
    BY RowNext, StatusMovesNext DEF LeaseInv
  <1>2. now' \in Nat /\ now \in Nat /\ leaseUntil' \in [Licenses -> Nat]
    BY <1>1 DEF RowInv, TypeInv, TypeOK
  <1>3. ASSUME NEW l \in Licenses PROVE Bounded(leaseUntil[l], l)'
    BY <1>1, <1>2, IssuedWasPending, BoundedStays
  <1>4. ASSUME NEW s \in Requests PROVE Pending(req[s])'
    <2>1. CASE req'[s] = req[s]
      <3>1. /\ Pending(req[s]) /\ Shaped(req[s]) /\ req[s].until \in Nat /\ req[s].at \in Nat
            /\ RowsStay
        BY <1>1, PointersNext DEF LeaseInv, RowInv, TypeInv, TypeOK, RequestRecord
      <3>2. CASE req[s].pc \in {"admit", "renew"}
        <4>1. req[s].lic \in Licenses /\ Bounded(req[s].until, req[s].lic)
              /\ licStatus'[req[s].lic] # "none"
          BY <3>1, <3>2 DEF Shaped, Pending, RowsStay
        <4>2. ASSUME NEW t \in Nat, NEW l \in Licenses, Bounded(t, l) PROVE Bounded(t, l)'
          BY <1>1, <1>2, <4>2, BoundedStays
        <4>3. PICK t \in Nat, l \in Licenses : t = req[s].until /\ l = req[s].lic
          BY <3>1, <4>1
        <4>4. Bounded(t, l)'
          BY <4>1, <4>2, <4>3
        <4> QED
          BY <2>1, <3>2, <4>1, <4>3, <4>4 DEF Pending
      <3>3. CASE req[s].pc = "redeem"
        BY <1>1, <1>2, <2>1, <3>1, <3>3 DEF Pending, StatusMoves
      <3> QED
        BY <2>1, <3>2, <3>3 DEF Pending
    <2>2. CASE NewlyPending(req'[s])
      BY <1>1, <1>2, <2>2, ConstantsAssumption DEF NewlyPending, Pending, Bounded, Inactive, StatusMoves
    <2> QED
      BY <2>1, <2>2, PendingIsNew
  <1> QED
    BY <1>1, <1>3, <1>4 DEF LeaseInv, Requests

\* Freezing or revoking a licence cuts every lease off LeaseTTL later at most,
\* whatever requests were in flight.
THEOREM LeasesEnd == Spec => []LeaseEndsAfterRevocation
  <1>1. LeaseInv => LeaseEndsAfterRevocation
    BY DEF LeaseInv, Bounded, Inactive, LeaseEndsAfterRevocation
  <1> QED
    BY LeaseInit, LeaseNext, <1>1, PTL DEF Spec

-----------------------------------------------------------------------------
(***************************************************************************)
(* Every device row of a uses plan cost one use.  A licence that does not  *)
(* exist has no device rows, so its first one is the first use.            *)
(***************************************************************************)
Seen(l) == {f \in Fingerprints : devStatus[<<l, f>>] # "none"}
NoRowsYet == \A l \in Licenses : licStatus[l] = "none" => Seen(l) = {}

UsesInv == RowInv /\ NoRowsYet /\ UsesAccounted

\* Steps that make no device row.
UsesStay ==
    /\ UNCHANGED <<usesLeft, licOrigin>>
    /\ \A l \in Licenses, f \in Fingerprints :
          devStatus'[<<l, f>>] = "none" <=> devStatus[<<l, f>>] = "none"

LEMMA UsesStaying ==
  ASSUME UsesInv, RowInv', UsesStay
  PROVE  NoRowsYet' /\ UsesAccounted'
  <1>1. \A l \in Licenses : Seen(l)' = Seen(l)
    BY DEF UsesStay, Seen
  <1>2. \A l \in Licenses : licStatus'[l] = "none" <=> licStatus[l] = "none"
    BY DEF UsesInv, RowInv, PointersAgree, UsesStay
  <1>3. NoRowsYet'
    BY <1>1, <1>2 DEF UsesInv, NoRowsYet
  <1>4. UsesAccounted'
    BY <1>1, <1>2 DEF UsesInv, UsesAccounted, UsesStay, Seen, LicPlan
  <1> QED
    BY <1>3, <1>4

\* A new device row of licence l, at the price of a use.
LEMMA OneMoreSeen ==
  ASSUME TypeOK, NEW l \in Licenses, NEW f \in Fingerprints, devStatus[<<l, f>>] = "none",
         devStatus' = [devStatus EXCEPT ![<<l, f>>] = "active"]
  PROVE  /\ Cardinality(Seen(l)) \in Nat
         /\ Cardinality(Seen(l)') = Cardinality(Seen(l)) + 1
         /\ \A m \in Licenses : m # l => Seen(m)' = Seen(m)
  <1>1. Seen(l)' = Seen(l) \cup {f} /\ f \notin Seen(l)
    BY DEF TypeOK, Seen
  <1>2. IsFiniteSet(Seen(l))
    BY ConstantsAssumption, FS_Subset DEF Seen
  <1>3. \A m \in Licenses : m # l => Seen(m)' = Seen(m)
    BY DEF TypeOK, Seen
  <1> QED
    BY <1>1, <1>2, <1>3, FS_AddElement, FS_CardinalityType

LEMMA FreshUses ==
  ASSUME UsesInv, RowInv', NEW r \in ClientRequests, FreshActivation(r)
  PROVE  NoRowsYet' /\ UsesAccounted'
  <1> DEFINE c == req[r].card
             f == req[r].fp
             p == PlanOf[c]
  <1>1. TypeOK /\ c \in Cards /\ f \in Fingerprints /\ p \in Plans
    BY ConstantsAssumption DEF UsesInv, RowInv, TypeInv, Shaped, FreshActivation, Requests
  <1>2. PICK l \in Licenses :
          /\ licStatus[l] = "none" /\ SetLicStatus(l, "active")
          /\ licOrigin' = [licOrigin EXCEPT ![l] = c]
          /\ usesLeft' = [usesLeft EXCEPT ![l] =
                             IF PlanKind[p] = "uses" THEN UsesTotal[p] - 1 ELSE 0]
          /\ devStatus' = [devStatus EXCEPT ![<<l, f>>] = "active"]
    BY DEF FreshActivation
  <1>3. Seen(l) = {} /\ devStatus[<<l, f>>] = "none"
    BY <1>1, <1>2 DEF UsesInv, NoRowsYet, Seen
  <1>4. Cardinality(Seen(l)') = 1 /\ \A m \in Licenses : m # l => Seen(m)' = Seen(m)
    <2>1. Cardinality(Seen(l)) = 0
      BY <1>3, FS_EmptySet
    <2> HIDE DEF c, f, p
    <2>2. /\ Cardinality(Seen(l)') = Cardinality(Seen(l)) + 1
          /\ \A m \in Licenses : m # l => Seen(m)' = Seen(m)
      BY <1>1, <1>2, <1>3, OneMoreSeen
    <2> QED
      BY <2>1, <2>2
  <1>5. /\ licStatus'[l] = "active" /\ licOrigin'[l] = c
        /\ usesLeft'[l] = IF PlanKind[p] = "uses" THEN UsesTotal[p] - 1 ELSE 0
        /\ \A m \in Licenses : m # l => /\ licStatus'[m] = licStatus[m]
                                        /\ licOrigin'[m] = licOrigin[m]
                                        /\ usesLeft'[m] = usesLeft[m]
    BY <1>1, <1>2 DEF TypeOK, SetLicStatus
  <1>6. NoRowsYet'
    BY <1>4, <1>5 DEF UsesInv, NoRowsYet
  <1>7. ASSUME NEW m \in Licenses, licStatus'[m] # "none", PlanKind[LicPlan(m)'] = "uses"
        PROVE  usesLeft'[m] + Cardinality(Seen(m)') = UsesTotal[LicPlan(m)']
    <2>1. CASE m = l
      <3>1. LicPlan(m)' = p /\ UsesTotal[p] \in Nat
        BY <1>1, <1>5, <2>1, ConstantsAssumption DEF LicPlan
      <3> HIDE DEF p, c, f
      <3> QED
        BY <1>4, <1>5, <1>7, <2>1, <3>1
    <2>2. CASE m # l
      <3>1. LicPlan(m)' = LicPlan(m)
        BY <1>5, <2>2 DEF LicPlan
      <3> QED
        BY <1>4, <1>5, <1>7, <2>2, <3>1 DEF UsesInv, UsesAccounted, Seen
    <2> QED
      BY <2>1, <2>2
  <1> QED
    BY <1>6, <1>7 DEF UsesAccounted, Seen

LEMMA BindingUses ==
  ASSUME UsesInv, RowInv', NEW r \in ClientRequests, NewBinding(r)
  PROVE  NoRowsYet' /\ UsesAccounted'
  <1>1. /\ TypeOK /\ req[r].card \in Cards /\ req[r].fp \in Fingerprints
        /\ cardLicense[req[r].card] \in Licenses
        /\ licStatus[cardLicense[req[r].card]] = "active"
    BY ConstantsAssumption DEF UsesInv, RowInv, TypeInv, TypeOK, Shaped, NewBinding,
       ActiveCardAccepted, Requests
  <1>2. PICK c \in Cards, f \in Fingerprints, l \in Licenses, p \in Plans :
          /\ licStatus[l] = "active" /\ cardLicense[c] = l /\ p = PlanOf[c]
          /\ devStatus[<<l, f>>] = "none" /\ ConsumeUse(l, p)
          /\ devStatus' = [devStatus EXCEPT ![<<l, f>>] = "active"]
    BY <1>1, ConstantsAssumption DEF NewBinding
  <1>3. LicPlan(l) = p /\ UNCHANGED <<licStatus, licOrigin>>
    BY <1>2, ConstantsAssumption DEF UsesInv, RowInv, PointersAgree, LicPlan, NewBinding
  <1>4. /\ Cardinality(Seen(l)) \in Nat
        /\ Cardinality(Seen(l)') = Cardinality(Seen(l)) + 1
        /\ \A m \in Licenses : m # l => Seen(m)' = Seen(m)
    BY <1>1, <1>2, OneMoreSeen
  <1>5. /\ usesLeft[l] \in Nat
        /\ PlanKind[p] = "uses" => usesLeft'[l] = usesLeft[l] - 1
        /\ \A m \in Licenses : m # l => usesLeft'[m] = usesLeft[m]
    BY <1>1, <1>2 DEF TypeOK, ConsumeUse
  <1>6. NoRowsYet'
    BY <1>2, <1>3, <1>4 DEF UsesInv, NoRowsYet
  <1>7. ASSUME NEW m \in Licenses, licStatus'[m] # "none", PlanKind[LicPlan(m)'] = "uses"
        PROVE  usesLeft'[m] + Cardinality(Seen(m)') = UsesTotal[LicPlan(m)']
    <2>1. LicPlan(m)' = LicPlan(m)
      BY <1>3 DEF LicPlan
    <2>2. usesLeft[m] + Cardinality(Seen(m)) = UsesTotal[LicPlan(m)]
      BY <1>3, <1>7, <2>1 DEF UsesInv, UsesAccounted, Seen
    <2>3. CASE m = l
      BY <1>3, <1>4, <1>5, <1>7, <2>1, <2>2, <2>3
    <2>4. CASE m # l
      BY <1>4, <1>5, <2>1, <2>2, <2>4
    <2> QED
      BY <2>3, <2>4
  <1> QED
    BY <1>6, <1>7 DEF UsesAccounted, Seen

LEMMA OtherUses ==
  ASSUME UsesInv, [Next]_vars,
         \A r \in ClientRequests : ~FreshActivation(r) /\ ~NewBinding(r)
  PROVE  UsesStay
  <1> USE DEF licVars, devVars
  <1>1. ASSUME UNCHANGED <<usesLeft, licOrigin, devStatus>> PROVE UsesStay
    BY <1>1 DEF UsesStay
  <1>2. ASSUME NEW r \in ClientRequests, ClientStep(r) PROVE UsesStay
    BY <1>1, <1>2 DEF ClientStep, BeginActivate, Reactivation, Admission, BeginHeartbeat,
       HeartbeatCheck, HeartbeatRenew, BeginRedeem, RedeemCard, BeginDeactivate
  <1>3. ASSUME NEW r \in AdminRequests, AdminStep(r) PROVE UsesStay
    BY <1>1, <1>3 DEF AdminStep, BeginAdminUnbind, BeginCardAction, FreezeCard, UnfreezeCard,
       RevokeCard, BeginLicenseAction, FreezeOrThawLicense, RevokeLicense, BeginExtend,
       ExtendByAdmin
  <1>4. ASSUME NEW r \in Requests, AnyRequestStep(r) PROVE UsesStay
    <2>1. CASE UnbindRow(r)
      BY <2>1 DEF UnbindRow, UsesStay, UsesInv, RowInv, TypeInv, TypeOK
    <2> QED
      BY <1>1, <1>4, <2>1 DEF AnyRequestStep, DropSeat, EndRequest
  <1>5. ASSUME \/ \E c \in Cards : BindCardToUser(c)
               \/ \E p \in Plans, active \in BOOLEAN : SetPlanStatus(p, active)
               \/ \E p \in Products, active \in BOOLEAN : SetProductStatus(p, active)
               \/ \E l \in Licenses, f \in Fingerprints : SeatLapses(l, f)
               \/ Tick \/ UNCHANGED vars
        PROVE  UsesStay
    BY <1>1, <1>5 DEF BindCardToUser, SetPlanStatus, SetProductStatus, SeatLapses, Tick, vars
  <1> QED
    BY ONLY [Next]_vars, <1>2, <1>3, <1>4, <1>5 DEF Next

LEMMA UsesNext == UsesInv /\ [Next]_vars => UsesInv'
  <1> SUFFICES ASSUME UsesInv, [Next]_vars PROVE UsesInv'
    OBVIOUS
  <1>1. RowInv'
    BY RowNext DEF UsesInv
  <1>2. CASE \E r \in ClientRequests : FreshActivation(r) \/ NewBinding(r)
    BY <1>1, <1>2, FreshUses, BindingUses DEF UsesInv
  <1>3. CASE \A r \in ClientRequests : ~FreshActivation(r) /\ ~NewBinding(r)
    BY <1>1, <1>3, OtherUses, UsesStaying DEF UsesInv
  <1> QED
    BY <1>2, <1>3

LEMMA UsesInit == Init => UsesInv
  <1> SUFFICES ASSUME Init PROVE UsesInv
    OBVIOUS
  <1>1. NoRowsYet /\ UsesAccounted
    BY DEF Init, NoRowsYet, Seen, UsesAccounted
  <1> QED
    BY <1>1, RowInit DEF UsesInv

\* On a uses plan every device row cost exactly one use (ConsumeLicenseUse), whoever
\* activates, unbinds and comes back meanwhile.
THEOREM UsesAreAccounted == Spec => []UsesAccounted
  <1>1. UsesInv => UsesAccounted
    BY DEF UsesInv
  <1> QED
    BY UsesInit, UsesNext, <1>1, PTL DEF Spec

-----------------------------------------------------------------------------
(***************************************************************************)
(* With one administrator at a time a card makes one licence.  A card with *)
(* a licence is marked activated and never unused again (InUse): the only  *)
(* way back is an unfreeze that read activated_at as NULL, and nobody but  *)
(* the administrator can move a card that is frozen since (Thawing).       *)
(***************************************************************************)
OneAdmin == \A r, s \in AdminRequests : r = s

InUse == \A l \in Licenses : licOrigin[l] # NULL =>
    cardActivated[licOrigin[l]] /\ cardStatus[licOrigin[l]] # "unused"

Thawing(rec) ==
    rec.pc = "card action" /\ rec.action = "unfreeze" =>
        /\ cardStatus[rec.card] = "frozen"
        /\ cardActivated[rec.card] => rec.activated

OneInv == RowInv /\ InUse /\ OneLicensePerCard /\ \A r \in AdminRequests : Thawing(req[r])

\* Steps that make no licence and take no card with a licence back to unused.
NoReturn ==
    /\ UNCHANGED licOrigin
    /\ \A c \in Cards :
          /\ cardActivated[c] => cardActivated'[c]
          /\ cardStatus'[c] = "unused" => cardStatus[c] = "unused" \/ ~cardActivated[c]

LEMMA NoReturnKeeps ==
  ASSUME OneInv, NoReturn
  PROVE  InUse' /\ OneLicensePerCard'
  <1>1. \A l \in Licenses : licOrigin[l] # NULL => licOrigin[l] \in Cards
    BY DEF OneInv, RowInv, TypeInv, TypeOK
  <1>2. InUse'
    <2> SUFFICES ASSUME NEW l \in Licenses, licOrigin'[l] # NULL
                 PROVE  cardActivated'[licOrigin'[l]] /\ cardStatus'[licOrigin'[l]] # "unused"
      BY DEF InUse
    <2>1. licOrigin'[l] = licOrigin[l] /\ licOrigin[l] \in Cards
      BY <1>1 DEF NoReturn
    <2>2. PICK c \in Cards : c = licOrigin[l]
      BY <2>1
    <2>3. cardActivated[c] /\ cardStatus[c] # "unused"
      BY <2>1, <2>2 DEF OneInv, InUse
    <2>4. cardActivated'[c] /\ cardStatus'[c] # "unused"
      BY <2>3 DEF NoReturn
    <2> QED
      BY <2>1, <2>2, <2>4
  <1>3. OneLicensePerCard'
    BY DEF OneInv, OneLicensePerCard, NoReturn
  <1> QED
    BY <1>2, <1>3

LEMMA FreshKeepsOne ==
  ASSUME OneInv, NEW r \in ClientRequests, FreshActivation(r)
  PROVE  InUse' /\ OneLicensePerCard'
  <1>1. TypeOK /\ req[r].card \in Cards /\ NULL \notin Cards
    BY ConstantsAssumption DEF OneInv, RowInv, TypeInv, Shaped, FreshActivation, Requests
  <1>2. PICK c \in Cards, l \in Licenses :
          /\ cardStatus[c] = "unused"
          /\ licOrigin' = [licOrigin EXCEPT ![l] = c]
          /\ cardStatus'[c] # "unused"
          /\ \A d \in Cards : d # c => cardStatus'[d] = cardStatus[d]
          /\ cardActivated' = [cardActivated EXCEPT ![c] = TRUE]
    <2>1. PICK c \in Cards : c = req[r].card
      BY <1>1
    <2>2. PICK l \in Licenses : licOrigin' = [licOrigin EXCEPT ![l] = c] /\ LinkCard(c, l)
      BY <2>1 DEF FreshActivation
    <2>3. PICK x \in {"active", "depleted"} : cardStatus' = [cardStatus EXCEPT ![c] = x]
      BY <2>1 DEF FreshActivation
    <2>4. cardStatus[c] = "unused"
      BY <2>1 DEF FreshActivation
    <2>5. cardStatus'[c] = x /\ \A d \in Cards : d # c => cardStatus'[d] = cardStatus[d]
      BY <1>1, <2>3 DEF TypeOK
    <2>6. cardActivated' = [cardActivated EXCEPT ![c] = TRUE]
      BY <2>2 DEF LinkCard
    <2> QED
      BY <2>2, <2>3, <2>4, <2>5, <2>6
  <1>3. \A m \in Licenses : licOrigin[m] # c
    BY <1>1, <1>2 DEF OneInv, InUse
  <1>4. \A m \in Licenses : licOrigin'[m] = IF m = l THEN c ELSE licOrigin[m]
    BY <1>1, <1>2 DEF TypeOK
  <1>5. OneLicensePerCard'
    BY <1>3, <1>4 DEF OneInv, OneLicensePerCard
  <1>6. ASSUME NEW m \in Licenses, licOrigin'[m] # NULL
        PROVE  cardActivated'[licOrigin'[m]] /\ cardStatus'[licOrigin'[m]] # "unused"
    <2>1. CASE m = l
      BY <1>1, <1>2, <1>4, <2>1 DEF TypeOK
    <2>2. CASE m # l
      <3>1. licOrigin'[m] = licOrigin[m] /\ licOrigin[m] \in Cards /\ licOrigin[m] # c
        BY <1>1, <1>3, <1>4, <1>6, <2>2 DEF TypeOK
      <3>2. cardActivated[licOrigin[m]] /\ cardStatus[licOrigin[m]] # "unused"
        BY <3>1, <1>6 DEF OneInv, InUse
      <3> QED
        BY <1>1, <1>2, <3>1, <3>2 DEF TypeOK
    <2> QED
      BY <2>1, <2>2
  <1> QED
    BY <1>5, <1>6 DEF InUse

LEMMA OthersReturnNothing ==
  ASSUME OneInv, [Next]_vars, \A r \in ClientRequests : ~FreshActivation(r)
  PROVE  NoReturn
  <1> USE DEF cardVars, licVars
  <1>1. TypeOK
    BY DEF OneInv, RowInv, TypeInv
  <1>2. ASSUME UNCHANGED <<cardStatus, cardActivated, licOrigin>> PROVE NoReturn
    BY <1>2 DEF NoReturn
  <1>3. ASSUME NEW c, NEW s, s # "unused", cardStatus' = [cardStatus EXCEPT ![c] = s],
               UNCHANGED <<cardActivated, licOrigin>>
        PROVE  NoReturn
    BY <1>1, <1>3 DEF NoReturn, TypeOK
  <1>4. ASSUME NEW r \in ClientRequests, ClientStep(r) PROVE NoReturn
    <2>1. CASE RedeemCard(r)
      BY <1>3, <2>1 DEF RedeemCard
    <2> QED
      BY <1>2, <1>4, <2>1 DEF ClientStep, BeginActivate, Reactivation, NewBinding, Admission,
         BeginHeartbeat, HeartbeatCheck, HeartbeatRenew, BeginRedeem, BeginDeactivate
  <1>5. ASSUME NEW r \in AdminRequests, AdminStep(r) PROVE NoReturn
    <2>1. CASE FreezeCard(r)
      BY <1>3, <2>1 DEF FreezeCard
    <2>2. CASE UnfreezeCard(r)
      <3>1. /\ Thawing(req[r]) /\ req[r].pc = "card action" /\ req[r].action = "unfreeze"
            /\ cardStatus' = [cardStatus EXCEPT ![req[r].card] = Thawed(req[r].activated)]
            /\ UNCHANGED <<cardActivated, licOrigin>>
        BY <2>2 DEF OneInv, UnfreezeCard, CardActionStarted
      <3>2. cardActivated[req[r].card] => Thawed(req[r].activated) = "active"
        BY <3>1 DEF Thawing, Thawed
      <3> QED
        BY <1>1, <3>1, <3>2 DEF NoReturn, TypeOK
    <2>3. CASE RevokeCard(r)
      <3>1. TerminalOf(req[r].action) # "unused"
        BY DEF TerminalOf
      <3> QED
        BY <1>3, <2>3, <3>1 DEF RevokeCard
    <2>4. CASE RevokeLicense(r)
      <3>1. TerminalOf(req[r].action) # "unused"
        BY DEF TerminalOf
      <3> QED
        BY <1>3, <2>4, <3>1 DEF RevokeLicense
    <2> QED
      BY <1>2, <1>5, <2>1, <2>2, <2>3, <2>4 DEF AdminStep, BeginAdminUnbind, BeginCardAction,
         BeginLicenseAction, FreezeOrThawLicense, BeginExtend, ExtendByAdmin
  <1>6. ASSUME NEW r \in Requests, AnyRequestStep(r) PROVE NoReturn
    BY <1>2, <1>6 DEF AnyRequestStep, UnbindRow, DropSeat, EndRequest
  <1>7. ASSUME NEW c \in Cards, BindCardToUser(c) PROVE NoReturn
    BY <1>1, <1>7 DEF BindCardToUser, NoReturn, TypeOK
  <1>8. ASSUME \/ \E p \in Plans, active \in BOOLEAN : SetPlanStatus(p, active)
               \/ \E p \in Products, active \in BOOLEAN : SetProductStatus(p, active)
               \/ \E l \in Licenses, f \in Fingerprints : SeatLapses(l, f)
               \/ Tick \/ UNCHANGED vars
        PROVE  NoReturn
    BY <1>2, <1>8 DEF SetPlanStatus, SetProductStatus, SeatLapses, Tick, vars
  <1> QED
    BY ONLY [Next]_vars, \A r \in ClientRequests : ~FreshActivation(r),
       <1>4, <1>5, <1>6, <1>7, <1>8 DEF Next

\* Only an administrator, in the last step of a request, moves a frozen card.
FrozenStay == \A c \in Cards : cardStatus[c] = "frozen" =>
    cardStatus'[c] = "frozen" /\ cardActivated'[c] = cardActivated[c]

LEMMA FrozenNext ==
  ASSUME RowInv, [Next]_vars
  PROVE  FrozenStay \/ \E r \in AdminRequests : Ends(r)
  <1> USE DEF cardVars, licVars
  <1>1. TypeOK
    BY DEF RowInv, TypeInv
  <1>2. ASSUME UNCHANGED <<cardStatus, cardActivated>> PROVE FrozenStay
    BY <1>2 DEF FrozenStay
  <1>3. ASSUME NEW r \in ClientRequests, ClientStep(r) PROVE FrozenStay
    <2>1. CASE RedeemCard(r)
      BY <1>1, <2>1 DEF RedeemCard, Redeemable, FrozenStay, TypeOK
    <2>2. CASE FreshActivation(r)
      BY <1>1, <2>2 DEF FreshActivation, LinkCard, FrozenStay, TypeOK
    <2> QED
      BY <1>2, <1>3, <2>1, <2>2 DEF ClientStep, BeginActivate, Reactivation, NewBinding,
         Admission, BeginHeartbeat, HeartbeatCheck, HeartbeatRenew, BeginRedeem, BeginDeactivate
  <1>4. ASSUME NEW r \in AdminRequests, AdminStep(r) PROVE FrozenStay \/ Ends(r)
    BY <1>2, <1>4 DEF AdminStep, BeginAdminUnbind, BeginCardAction, BeginLicenseAction,
       FreezeCard, UnfreezeCard, RevokeCard, RevokeLicense, FreezeOrThawLicense, BeginExtend,
       ExtendByAdmin
  <1>5. ASSUME NEW r \in Requests, AnyRequestStep(r) PROVE FrozenStay
    BY <1>2, <1>5 DEF AnyRequestStep, UnbindRow, DropSeat, EndRequest
  <1>6. ASSUME NEW c \in Cards, BindCardToUser(c) PROVE FrozenStay
    BY <1>1, <1>6 DEF BindCardToUser, Unspent, FrozenStay, TypeOK
  <1>7. ASSUME \/ \E p \in Plans, active \in BOOLEAN : SetPlanStatus(p, active)
               \/ \E p \in Products, active \in BOOLEAN : SetProductStatus(p, active)
               \/ \E l \in Licenses, f \in Fingerprints : SeatLapses(l, f)
               \/ Tick \/ UNCHANGED vars
        PROVE  FrozenStay
    BY <1>2, <1>7 DEF SetPlanStatus, SetProductStatus, SeatLapses, Tick, vars
  <1> QED
    BY ONLY [Next]_vars, <1>3, <1>4, <1>5, <1>6, <1>7 DEF Next

LEMMA ThawingNext ==
  ASSUME OneAdmin, OneInv, [Next]_vars, NEW s \in AdminRequests
  PROVE  Thawing(req[s])'
  <1>1. RowInv /\ TypeOK /\ Thawing(req[s]) /\ Shaped(req[s]) /\ s \in Requests
    BY DEF OneInv, RowInv, TypeInv, Requests
  <1>2. CASE Untouched(s)
    <2>1. CASE req'[s].pc # "card action"
      BY <2>1 DEF Thawing
    <2>2. CASE req'[s] = req[s] /\ req[s].pc = "card action"
      <3>1. NoRequest.pc # "card action"
        BY DEF NoRequest
      <3>2. DOMAIN req = Requests
        BY <1>1 DEF TypeOK
      <3>3. ~Ends(s)
        <4> SUFFICES ASSUME Ends(s) PROVE FALSE
          OBVIOUS
        <4>1. req'[s] = NoRequest
          BY <1>1, <3>2 DEF Ends
        <4> QED
          BY <2>2, <3>1, <4>1
      <3>4. FrozenStay
        BY <1>1, <3>3, FrozenNext DEF OneAdmin
      <3> QED
        BY <1>1, <2>2, <3>4 DEF Thawing, FrozenStay, Shaped
    <2> QED
      BY <1>2, <2>1, <2>2 DEF Untouched
  <1>3. CASE BeginCardAction(s)
    <2>1. PICK c \in Cards, a \in AdminActions :
            /\ CardActionAllowed(a, cardStatus[c])
            /\ Starts(s, [NoRequest EXCEPT !.pc = "card action", !.card = c,
                         !.action = a, !.status = cardStatus[c],
                         !.activated = cardActivated[c], !.lic = cardLicense[c]])
      BY <1>3 DEF BeginCardAction
    <2>2. /\ req'[s].card = c /\ req'[s].action = a /\ req'[s].activated = cardActivated[c]
      BY <1>1, <2>1 DEF Starts, NoRequest, TypeOK
    <2>3. a = "unfreeze" => cardStatus[c] = "frozen"
      BY <2>1 DEF CardActionAllowed
    <2>4. UNCHANGED <<cardStatus, cardActivated>>
      BY <1>3 DEF BeginCardAction, cardVars
    <2> QED
      BY <2>2, <2>3, <2>4 DEF Thawing
  <1>4. CASE BeginLicenseAction(s)
    <2>1. req'[s].pc = "license action"
      BY <1>1, <1>4 DEF BeginLicenseAction, Starts, NoRequest, TypeOK
    <2> QED
      BY <2>1 DEF Thawing
  <1> QED
    BY <1>1, <1>2, <1>3, <1>4, UntouchedNext DEF OneAdmin

LEMMA OneNext == OneAdmin /\ OneInv /\ [Next]_vars => OneInv'
  <1> SUFFICES ASSUME OneAdmin, OneInv, [Next]_vars PROVE OneInv'
    OBVIOUS
  <1>1. RowInv'
    BY RowNext DEF OneInv
  <1>2. InUse' /\ OneLicensePerCard'
    BY FreshKeepsOne, OthersReturnNothing, NoReturnKeeps
  <1> QED
    BY <1>1, <1>2, ThawingNext DEF OneInv

LEMMA OneInit == Init => OneInv
  <1> SUFFICES ASSUME Init PROVE OneInv
    OBVIOUS
  <1>1. InUse /\ OneLicensePerCard
    BY DEF Init, InUse, OneLicensePerCard
  <1>2. \A r \in AdminRequests : Thawing(req[r])
    BY DEF Init, Thawing, NoRequest, Requests
  <1> QED
    BY <1>1, <1>2, RowInit DEF OneInv

\* One card, one licence, for any number of cards, machines and client requests, as
\* long as one administrator works at a time (Activate, CardAction).
THEOREM OneLicense ==
  ASSUME \A r, s \in AdminRequests : r = s
  PROVE  Spec => []OneLicensePerCard
  <1>1. OneInv => OneLicensePerCard
    BY DEF OneInv
  <1>2. OneInv /\ [Next]_vars => OneInv'
    BY OneNext DEF OneAdmin
  <1> QED
    BY OneInit, <1>1, <1>2, PTL DEF Spec

===============================================================================
