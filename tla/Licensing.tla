------------------------------ MODULE Licensing ------------------------------
(***************************************************************************)
(* The life of card keys, licences and device bindings in the License API: *)
(* the rows of PostgreSQL tables cards, licenses, devices and renewals,    *)
(* the plan and product switches, the Redis set of online devices, and the *)
(* requests of client devices and administrators that are in flight.       *)
(*                                                                         *)
(* A handler reads some rows outside any transaction, then runs one        *)
(* transaction, then talks to Redis.  Each of these is one action here, so *)
(* requests interleave exactly where the handlers release the database;    *)
(* what a handler read earlier stays in its request record and may be      *)
(* stale.  A transaction is one action: its FOR UPDATE locks on the card   *)
(* and the licence serialise it (service.go:272, service.go:368,           *)
(* heartbeat.go:292), and a refused one rolls back.  A request may end at  *)
(* any step without its next effect (EndRequest), which stands for every   *)
(* error return, a cancelled context, an unreachable Redis or database and *)
(* a crash of the process.                                                 *)
(*                                                                         *)
(* Left to other modules: nonces and sequence numbers (Replay), bans,      *)
(* agents' data scope, plan editing and deletion, version policy.          *)
(***************************************************************************)
EXTENDS Integers, FiniteSets

CONSTANTS
    Cards,            \* rows of table cards
    Licenses,         \* identifiers CreateLicense can allocate
    Fingerprints,     \* machines, by their salted fingerprint hash
    Keys,             \* device public keys
    Plans,
    Products,
    ClientRequests,   \* slots for client requests in flight at once
    AdminRequests,    \* slots for administrator requests in flight at once
    NULL

CONSTANTS
    CardKind,         \* [Cards -> {"license", "renewal"}]
    PlanOf,           \* [Cards -> Plans]
    ProductOf,        \* [Cards -> Products]
    PlanKind,         \* [Plans -> PlanKinds]
    DurationDays,     \* [Plans -> Nat]
    FixedExpiry,      \* [Plans -> Nat]: card creation time + fixed_expiry_days
    UsesTotal,        \* [Plans -> Nat]
    DeviceLimit,      \* [Plans -> Nat], at least 1 (validatePlan)
    ConcurrentLimit,  \* [Plans -> Nat], at least 1 (validatePlan)
    LeaseTTL,
    ExtendDays,       \* days AdminExtendLicense adds
    Operations,       \* the operations an instance exercises
    MaxTime,          \* bound on the clock
    MaxExpiry         \* bound on expires_at, which AdminExtendLicense can move forever

PlanKinds == {"duration", "fixed", "uses", "permanent"}
Requests == ClientRequests \cup AdminRequests

ASSUME ConstantsAssumption ==
    /\ NULL \notin Cards \cup Licenses \cup Fingerprints \cup Keys
    /\ IsFiniteSet(Fingerprints)
    /\ CardKind \in [Cards -> {"license", "renewal"}]
    /\ PlanOf \in [Cards -> Plans]
    /\ ProductOf \in [Cards -> Products]
    /\ PlanKind \in [Plans -> PlanKinds]
    /\ {DurationDays, FixedExpiry, UsesTotal, DeviceLimit, ConcurrentLimit}
         \subseteq [Plans -> Nat]
    /\ \A p \in Plans : /\ PlanKind[p] = "duration" => DurationDays[p] > 0
                        /\ PlanKind[p] = "uses" => UsesTotal[p] > 0
                        /\ DeviceLimit[p] > 0
                        /\ ConcurrentLimit[p] > 0
    /\ LeaseTTL \in Nat /\ ExtendDays \in Nat
    /\ MaxTime \in Nat /\ MaxExpiry \in Nat

VARIABLES
    cardStatus,      \* cards.status
    cardLicense,     \* cards.license_id
    cardActivated,   \* cards.activated_at IS NOT NULL
    cardUser,        \* cards.used_by_user IS NOT NULL
    licStatus,       \* licenses.status; "none" while the row does not exist
    licOrigin,       \* licenses.origin_card_id
    usesLeft,        \* licenses.uses_left (0 when the column is NULL)
    expiresAt,       \* licenses.expires_at
    devStatus,       \* devices.status, by licence and fingerprint (UNIQUE)
    devKey,          \* devices.device_pub
    renewals,        \* number of rows of table renewals for each card
    planActive,
    productActive,
    online,          \* the ZSET online:lic:<id>, as the set of its members
    now,
    req,             \* the request in each slot
    leaseUntil,      \* history: latest expiry of a lease issued for the licence
    inactiveSince    \* history: when the licence last stopped being active

cardVars  == <<cardStatus, cardLicense, cardActivated, cardUser>>
licVars   == <<licStatus, licOrigin, usesLeft, expiresAt, inactiveSince>>
devVars   == <<devStatus, devKey>>
planVars  == <<planActive, productActive>>
vars == <<cardVars, licVars, devVars, renewals, planVars, online, now, req,
          leaseUntil>>

CardStatuses == {"unused", "active", "frozen", "revoked", "voided", "depleted"}
CardTerminal == {"revoked", "voided", "depleted"}
LicStatuses  == {"none", "active", "frozen", "revoked", "voided"}
LicTerminal  == {"revoked", "voided"}
AdminActions == {"freeze", "unfreeze", "revoke", "void"}
NoExpiry == -1    \* expires_at IS NULL: a permanent or a uses licence

(***************************************************************************)
(* What a request remembers between its steps.                             *)
(***************************************************************************)
NoRequest ==
    [pc |-> "idle", card |-> NULL, lic |-> NULL, fp |-> NULL, key |-> NULL,
     action |-> "none", status |-> "none", activated |-> FALSE,
     at |-> 0, until |-> 0]

Phases == {"idle", "activate", "admit", "check", "renew", "redeem", "unbind",
           "drop", "card action", "license action", "extend"}

RequestRecord ==
    [pc : Phases,
     card : Cards \cup {NULL}, lic : Licenses \cup {NULL},
     fp : Fingerprints \cup {NULL}, key : Keys \cup {NULL},
     action : AdminActions \cup {"none"},
     status : CardStatuses \cup LicStatuses,
     activated : BOOLEAN, at : Nat, until : Nat]

Starts(r, rec) == /\ req[r].pc = "idle"
                  /\ req' = [req EXCEPT ![r] = rec]
Ends(r) == req' = [req EXCEPT ![r] = NoRequest]

(***************************************************************************)
(* Reading and writing rows.                                               *)
(***************************************************************************)
LicPlan(l) == PlanOf[licOrigin[l]]
Expired(l, t) == expiresAt[l] # NoExpiry /\ expiresAt[l] < t
ActiveDevices(l) == {f \in Fingerprints : devStatus[<<l, f>>] = "active"}

\* The partial unique index uq_devices_active_pub, and the NOT EXISTS of
\* RotateDevicePub: no other active device row has this key.
KeyFree(k, l, f) ==
    \A m \in Licenses, g \in Fingerprints :
        devStatus[<<m, g>>] = "active" /\ devKey[<<m, g>>] = k => m = l /\ g = f

\* ExtendLicense: days are added to the later of the clock and the old expiry.
Extended(l, days) ==
    IF expiresAt[l] = NoExpiry \/ expiresAt[l] < now THEN now + days
                                                     ELSE expiresAt[l] + days

\* UPDATE licenses SET status, with the moment it stops being active.
SetLicStatus(l, s) ==
    /\ licStatus' = [licStatus EXCEPT ![l] = s]
    /\ inactiveSince' = [inactiveSince EXCEPT ![l] =
                            IF s = "active" THEN 0
                            ELSE IF licStatus[l] = "active" THEN now ELSE @]

IssueLease(l, until) ==
    leaseUntil' = [leaseUntil EXCEPT ![l] = IF until > @ THEN until ELSE @]

\* onlineScript: a member renews, another device needs a free seat.
SeatFree(l, f) ==
    f \in online[l] \/ Cardinality(online[l]) < ConcurrentLimit[LicPlan(l)]

\* SetCardActivated.
LinkCardForgotten(c, l) ==
    /\ cardActivated' = [cardActivated EXCEPT ![c] = TRUE]
    /\ UNCHANGED cardLicense
LinkCard(c, l) ==
    /\ cardLicense' = [cardLicense EXCEPT ![c] = l]
    /\ cardActivated' = [cardActivated EXCEPT ![c] = TRUE]

\* ConsumeLicenseUse: refused when no use is left.
ConsumeUseForgotten(l, p) == UNCHANGED usesLeft
ConsumeUse(l, p) ==
    /\ PlanKind[p] = "uses" => usesLeft[l] > 0
    /\ usesLeft' = [usesLeft EXCEPT ![l] = IF PlanKind[p] = "uses" THEN @ - 1 ELSE @]

-----------------------------------------------------------------------------
Init ==
    /\ cardStatus = [c \in Cards |-> "unused"]
    /\ cardLicense = [c \in Cards |-> NULL]
    /\ cardActivated = [c \in Cards |-> FALSE]
    /\ cardUser = [c \in Cards |-> FALSE]
    /\ licStatus = [l \in Licenses |-> "none"]
    /\ licOrigin = [l \in Licenses |-> NULL]
    /\ usesLeft = [l \in Licenses |-> 0]
    /\ expiresAt = [l \in Licenses |-> NoExpiry]
    /\ inactiveSince = [l \in Licenses |-> 0]
    /\ devStatus = [d \in Licenses \X Fingerprints |-> "none"]
    /\ devKey = [d \in Licenses \X Fingerprints |-> NULL]
    /\ renewals = [c \in Cards |-> 0]
    /\ planActive = [p \in Plans |-> TRUE]
    /\ productActive = [p \in Products |-> TRUE]
    /\ online = [l \in Licenses |-> {}]
    /\ now = 0
    /\ req = [r \in Requests |-> NoRequest]
    /\ leaseUntil = [l \in Licenses |-> 0]

-----------------------------------------------------------------------------
(***************************************************************************)
(* Activation.                                                             *)
(***************************************************************************)

\* The clock the transaction will use is read before it starts.
BeginActivate(r) ==
    /\ "activate" \in Operations
    /\ \E c \in Cards, f \in Fingerprints, k \in Keys :
        Starts(r, [NoRequest EXCEPT !.pc = "activate", !.card = c, !.fp = f,
                                    !.key = k, !.at = now])
    /\ UNCHANGED <<cardVars, licVars, devVars, renewals, planVars, online, now,
                   leaseUntil>>

OnSale(c) == productActive[ProductOf[c]] /\ planActive[PlanOf[c]]

InitialExpiry(p, t) ==
    IF PlanKind[p] = "duration" THEN t + DurationDays[p]
    ELSE IF PlanKind[p] = "fixed" THEN FixedExpiry[p] ELSE NoExpiry

\* An unused card creates its licence, and binds the first device to it.
FreshActivation(r) ==
    LET c == req[r].card
        f == req[r].fp
        p == PlanOf[c]
        uses == PlanKind[p] = "uses"
    IN  /\ req[r].pc = "activate"
        /\ OnSale(c)
        /\ cardStatus[c] = "unused"
        /\ CardKind[c] = "license"
        /\ PlanKind[p] = "fixed" => FixedExpiry[p] >= req[r].at
        /\ \E l \in Licenses :
            /\ licStatus[l] = "none"
            /\ KeyFree(req[r].key, l, f)
            /\ SetLicStatus(l, "active")
            /\ licOrigin' = [licOrigin EXCEPT ![l] = c]
            /\ usesLeft' = [usesLeft EXCEPT ![l] =
                               IF uses THEN UsesTotal[p] - 1 ELSE 0]
            /\ expiresAt' = [expiresAt EXCEPT ![l] = InitialExpiry(p, req[r].at)]
            /\ devStatus' = [devStatus EXCEPT ![<<l, f>>] = "active"]
            /\ devKey' = [devKey EXCEPT ![<<l, f>>] = req[r].key]
            /\ cardStatus' = [cardStatus EXCEPT ![c] =
                                 IF uses /\ UsesTotal[p] = 1 THEN "depleted"
                                                             ELSE "active"]
            /\ LinkCard(c, l)
            /\ req' = [req EXCEPT ![r] =
                          [NoRequest EXCEPT !.pc = "admit", !.lic = l, !.fp = f,
                                            !.until = now + LeaseTTL]]
        /\ UNCHANGED <<cardUser, renewals, planVars, online, now, leaseUntil>>

\* What an active card demands of its licence, whatever the device.
ActiveCardAccepted(r) ==
    LET c == req[r].card
        l == cardLicense[c]
    IN  /\ req[r].pc = "activate"
        /\ OnSale(c)
        /\ cardStatus[c] = "active"
        /\ l # NULL
        /\ licStatus[l] = "active"
        /\ ~Expired(l, req[r].at)

ToAdmission(r, l) ==
    req' = [req EXCEPT ![r] = [NoRequest EXCEPT !.pc = "admit", !.lic = l,
                                  !.fp = req[r].fp, !.until = now + LeaseTTL]]

\* The licence has a device row of this machine, whatever its status: its key
\* is rotated if it changed, and the status stays as it is.
Reactivation(r) ==
    LET l == cardLicense[req[r].card]
        f == req[r].fp
        k == req[r].key
    IN  /\ ActiveCardAccepted(r)
        /\ devStatus[<<l, f>>] # "none"
        /\ devKey[<<l, f>>] # k => KeyFree(k, l, f)
        /\ devKey' = [devKey EXCEPT ![<<l, f>>] = k]
        /\ ToAdmission(r, l)
        /\ UNCHANGED <<cardVars, licVars, devStatus, renewals, planVars, online,
                       now, leaseUntil>>

\* A machine the licence has never seen takes a device slot, and a use.
NewBinding(r) ==
    LET l == cardLicense[req[r].card]
        f == req[r].fp
        p == PlanOf[req[r].card]
    IN  /\ ActiveCardAccepted(r)
        /\ devStatus[<<l, f>>] = "none"
        /\ Cardinality(ActiveDevices(l)) < DeviceLimit[p]
        /\ ConsumeUse(l, p)
        /\ KeyFree(req[r].key, l, f)
        /\ devStatus' = [devStatus EXCEPT ![<<l, f>>] = "active"]
        /\ devKey' = [devKey EXCEPT ![<<l, f>>] = req[r].key]
        /\ ToAdmission(r, l)
        /\ UNCHANGED <<cardVars, licStatus, licOrigin, expiresAt, inactiveSince,
                       renewals, planVars, online, now, leaseUntil>>

\* After the commit the device asks for a seat; the lease is returned whether
\* it got one or not.
Admission(r) ==
    LET l == req[r].lic
        f == req[r].fp
    IN  /\ req[r].pc = "admit"
        /\ online' = [online EXCEPT ![l] = IF SeatFree(l, f) THEN @ \cup {f} ELSE @]
        /\ IssueLease(l, req[r].until)
        /\ Ends(r)
        /\ UNCHANGED <<cardVars, licVars, devVars, renewals, planVars, now>>

-----------------------------------------------------------------------------
(***************************************************************************)
(* Heartbeat: the device row, the licence row and the seat are three steps.*)
(***************************************************************************)
BeginHeartbeat(r) ==
    /\ "heartbeat" \in Operations
    /\ \E l \in Licenses, f \in Fingerprints :
        /\ devStatus[<<l, f>>] = "active"
        /\ Starts(r, [NoRequest EXCEPT !.pc = "check", !.lic = l, !.fp = f])
    /\ UNCHANGED <<cardVars, licVars, devVars, renewals, planVars, online, now,
                   leaseUntil>>

HeartbeatCheckBlind(r) ==
    /\ req[r].pc = "check"
    /\ req' = [req EXCEPT ![r].pc = "renew", ![r].until = now + LeaseTTL]
    /\ UNCHANGED <<cardVars, licVars, devVars, renewals, planVars, online, now,
                   leaseUntil>>

\* The licence is read without a lock; the lease will expire LeaseTTL later.
HeartbeatCheck(r) ==
    LET l == req[r].lic
    IN  /\ req[r].pc = "check"
        /\ licStatus[l] = "active"
        /\ ~Expired(l, now)
        /\ req' = [req EXCEPT ![r].pc = "renew", ![r].until = now + LeaseTTL]
        /\ UNCHANGED <<cardVars, licVars, devVars, renewals, planVars, online,
                       now, leaseUntil>>

\* A seat is needed, unless Redis does not answer.
HeartbeatRenew(r) ==
    LET l == req[r].lic
        f == req[r].fp
    IN  /\ req[r].pc = "renew"
        /\ \/ SeatFree(l, f) /\ online' = [online EXCEPT ![l] = @ \cup {f}]
           \/ UNCHANGED online
        /\ IssueLease(l, req[r].until)
        /\ Ends(r)
        /\ UNCHANGED <<cardVars, licVars, devVars, renewals, planVars, now>>

-----------------------------------------------------------------------------
(***************************************************************************)
(* Redeeming a renewal card on the licence of an active device.            *)
(***************************************************************************)
BeginRedeem(r) ==
    /\ "redeem" \in Operations
    /\ \E l \in Licenses, f \in Fingerprints, c \in Cards :
        /\ devStatus[<<l, f>>] = "active"
        /\ Starts(r, [NoRequest EXCEPT !.pc = "redeem", !.lic = l, !.fp = f,
                                       !.card = c, !.at = now])
    /\ UNCHANGED <<cardVars, licVars, devVars, renewals, planVars, online, now,
                   leaseUntil>>

RedeemableTwice(c, l) ==
    /\ licStatus[l] = "active" /\ expiresAt[l] # NoExpiry
    /\ CardKind[c] = "renewal" /\ cardStatus[c] \in {"unused", "depleted"}

Redeemable(c, l) ==
    /\ licStatus[l] = "active"
    /\ expiresAt[l] # NoExpiry
    /\ CardKind[c] = "renewal"
    /\ ProductOf[c] = ProductOf[licOrigin[l]]
    /\ cardStatus[c] = "unused"
    /\ DurationDays[PlanOf[c]] > 0
    /\ planActive[LicPlan(l)]

RedeemCard(r) ==
    LET c == req[r].card
        l == req[r].lic
    IN  /\ req[r].pc = "redeem"
        /\ Redeemable(c, l)
        /\ expiresAt' = [expiresAt EXCEPT ![l] =
                            Extended(l, DurationDays[PlanOf[c]])]
        /\ cardStatus' = [cardStatus EXCEPT ![c] = "depleted"]
        /\ renewals' = [renewals EXCEPT ![c] = @ + 1]
        /\ IssueLease(l, req[r].at + LeaseTTL)
        /\ Ends(r)
        /\ UNCHANGED <<cardLicense, cardActivated, cardUser, licStatus, licOrigin,
                       usesLeft, inactiveSince, devVars, planVars, online, now>>

\* MarkCardUsedByUser.
Unspent(c) == cardStatus[c] = "unused" /\ cardLicense[c] = NULL /\ ~cardUser[c]

\* UserBindCard: a user account consumes the card instead of a licence.
BindCardToUser(c) ==
    /\ "bind card" \in Operations
    /\ CardKind[c] = "license"
    /\ Unspent(c)
    /\ DurationDays[PlanOf[c]] > 0
    /\ cardUser' = [cardUser EXCEPT ![c] = TRUE]
    /\ cardStatus' = [cardStatus EXCEPT ![c] = "depleted"]
    /\ cardActivated' = [cardActivated EXCEPT ![c] = TRUE]
    /\ UNCHANGED <<cardLicense, licVars, devVars, renewals, planVars, online, now,
                   req, leaseUntil>>

-----------------------------------------------------------------------------
(***************************************************************************)
(* Unbinding a device: by itself (Deactivate) or by an administrator.      *)
(***************************************************************************)
BeginDeactivate(r) ==
    /\ "deactivate" \in Operations
    /\ \E l \in Licenses, f \in Fingerprints :
        /\ devStatus[<<l, f>>] = "active"
        /\ Starts(r, [NoRequest EXCEPT !.pc = "unbind", !.lic = l, !.fp = f])
    /\ UNCHANGED <<cardVars, licVars, devVars, renewals, planVars, online, now,
                   leaseUntil>>

BeginAdminUnbind(r) ==
    /\ "unbind" \in Operations
    /\ \E l \in Licenses, f \in Fingerprints :
        /\ devStatus[<<l, f>>] # "none"
        /\ Starts(r, [NoRequest EXCEPT !.pc = "unbind", !.lic = l, !.fp = f])
    /\ UNCHANGED <<cardVars, licVars, devVars, renewals, planVars, online, now,
                   leaseUntil>>

UnbindRow(r) ==
    LET d == <<req[r].lic, req[r].fp>>
    IN  /\ req[r].pc = "unbind"
        /\ devStatus[d] = "active"
        /\ devStatus' = [devStatus EXCEPT ![d] = "unbound"]
        /\ req' = [req EXCEPT ![r].pc = "drop"]
        /\ UNCHANGED <<cardVars, licVars, devKey, renewals, planVars, online, now,
                       leaseUntil>>

\* An error of Redis is recorded or ignored: the seat stays until it lapses.
DropSeat(r) ==
    LET l == req[r].lic
    IN  /\ req[r].pc = "drop"
        /\ \/ online' = [online EXCEPT ![l] = @ \ {req[r].fp}]
           \/ UNCHANGED online
        /\ Ends(r)
        /\ UNCHANGED <<cardVars, licVars, devVars, renewals, planVars, now,
                       leaseUntil>>

-----------------------------------------------------------------------------
(***************************************************************************)
(* Administrators on cards.  The row is read first; status, activated_at   *)
(* and license_id as they were then decide what the transaction does.      *)
(***************************************************************************)
CardActionAllowed(a, s) ==
    CASE a = "freeze"   -> s \in {"active", "unused"}
      [] a = "unfreeze" -> s = "frozen"
      [] OTHER          -> s \notin {"revoked", "voided"}

BeginCardAction(r) ==
    /\ "card action" \in Operations
    /\ \E c \in Cards, a \in AdminActions :
        /\ CardActionAllowed(a, cardStatus[c])
        /\ Starts(r, [NoRequest EXCEPT !.pc = "card action", !.card = c,
                         !.action = a, !.status = cardStatus[c],
                         !.activated = cardActivated[c], !.lic = cardLicense[c]])
    /\ UNCHANGED <<cardVars, licVars, devVars, renewals, planVars, online, now,
                   leaseUntil>>

CardActionStarted(r, actions) ==
    req[r].pc = "card action" /\ req[r].action \in actions

\* TransitionCardStatus: refused unless the row still has status from.
CardStillUnchecked(c, from) == TRUE
CardStill(c, from) == cardStatus[c] = from

\* TransitionLicense, likewise; without a licence there is nothing to move.
MoveLicense(l, from, to) ==
    IF l = NULL THEN UNCHANGED <<licStatus, inactiveSince>>
                ELSE licStatus[l] = from /\ SetLicStatus(l, to)

FreezeCard(r) ==
    /\ CardActionStarted(r, {"freeze"})
    /\ CardStill(req[r].card, req[r].status)
    /\ cardStatus' = [cardStatus EXCEPT ![req[r].card] = "frozen"]
    /\ MoveLicense(req[r].lic, "active", "frozen")
    /\ Ends(r)
    /\ UNCHANGED <<cardLicense, cardActivated, cardUser, licOrigin, usesLeft,
                   expiresAt, devVars, renewals, planVars, online, now, leaseUntil>>

ThawedToUnused(activated) == "unused"
Thawed(activated) == IF activated THEN "active" ELSE "unused"

UnfreezeCard(r) ==
    /\ CardActionStarted(r, {"unfreeze"})
    /\ CardStill(req[r].card, "frozen")
    /\ cardStatus' = [cardStatus EXCEPT ![req[r].card] = Thawed(req[r].activated)]
    /\ MoveLicense(req[r].lic, "frozen", "active")
    /\ Ends(r)
    /\ UNCHANGED <<cardLicense, cardActivated, cardUser, licOrigin, usesLeft,
                   expiresAt, devVars, renewals, planVars, online, now, leaseUntil>>

TerminalAsNamed(a) == a
TerminalOf(a) == IF a = "void" THEN "voided" ELSE "revoked"
CardTerminable(c) == cardStatus[c] \notin CardTerminal
LicenseTerminable(l) == licStatus[l] \notin LicTerminal

TerminateLicense(l, s) ==
    IF l = NULL THEN UNCHANGED <<licStatus, inactiveSince>>
                ELSE LicenseTerminable(l) /\ SetLicStatus(l, s)

RevokeCard(r) ==
    LET s == TerminalOf(req[r].action)
    IN  /\ CardActionStarted(r, {"revoke", "void"})
        /\ CardTerminable(req[r].card)
        /\ cardStatus' = [cardStatus EXCEPT ![req[r].card] = s]
        /\ TerminateLicense(req[r].lic, s)
        /\ Ends(r)
        /\ UNCHANGED <<cardLicense, cardActivated, cardUser, licOrigin, usesLeft,
                       expiresAt, devVars, renewals, planVars, online, now,
                       leaseUntil>>

-----------------------------------------------------------------------------
(***************************************************************************)
(* Administrators on licences.                                             *)
(***************************************************************************)
LicenseActionAllowed(a, s) ==
    CASE a = "freeze"   -> s = "active"
      [] a = "unfreeze" -> s = "frozen"
      [] OTHER          -> s \notin LicTerminal

BeginLicenseAction(r) ==
    /\ "license action" \in Operations
    /\ \E l \in Licenses, a \in AdminActions :
        /\ licStatus[l] # "none"
        /\ LicenseActionAllowed(a, licStatus[l])
        /\ Starts(r, [NoRequest EXCEPT !.pc = "license action", !.lic = l,
                                       !.action = a, !.status = licStatus[l]])
    /\ UNCHANGED <<cardVars, licVars, devVars, renewals, planVars, online, now,
                   leaseUntil>>

FreezeOrThawLicense(r) ==
    /\ req[r].pc = "license action"
    /\ req[r].action \in {"freeze", "unfreeze"}
    /\ licStatus[req[r].lic] = req[r].status
    /\ SetLicStatus(req[r].lic, IF req[r].action = "freeze" THEN "frozen"
                                                            ELSE "active")
    /\ Ends(r)
    /\ UNCHANGED <<cardVars, licOrigin, usesLeft, expiresAt, devVars, renewals,
                   planVars, online, now, leaseUntil>>

\* The licence and its origin card move together, or not at all.
RevocationApplies(l) == LicenseTerminable(l) /\ CardTerminable(licOrigin[l])

RevokeLicense(r) ==
    LET l == req[r].lic
        s == TerminalOf(req[r].action)
    IN  /\ req[r].pc = "license action"
        /\ req[r].action \in {"revoke", "void"}
        /\ RevocationApplies(l)
        /\ SetLicStatus(l, s)
        /\ cardStatus' = [cardStatus EXCEPT ![licOrigin[l]] = s]
        /\ Ends(r)
        /\ UNCHANGED <<cardLicense, cardActivated, cardUser, licOrigin, usesLeft,
                       expiresAt, devVars, renewals, planVars, online, now,
                       leaseUntil>>

BeginExtend(r) ==
    /\ "extend" \in Operations
    /\ \E l \in Licenses :
        /\ licStatus[l] \in {"active", "frozen"}
        /\ Starts(r, [NoRequest EXCEPT !.pc = "extend", !.lic = l])
    /\ UNCHANGED <<cardVars, licVars, devVars, renewals, planVars, online, now,
                   leaseUntil>>

\* The transaction does not look at the status again.
ExtendByAdmin(r) ==
    LET l == req[r].lic
    IN  /\ req[r].pc = "extend"
        /\ Extended(l, ExtendDays) <= MaxExpiry
        /\ expiresAt' = [expiresAt EXCEPT ![l] = Extended(l, ExtendDays)]
        /\ Ends(r)
        /\ UNCHANGED <<cardVars, licStatus, licOrigin, usesLeft, inactiveSince,
                       devVars, renewals, planVars, online, now, leaseUntil>>

SetPlanStatus(p, active) ==
    /\ "plan status" \in Operations
    /\ planActive[p] # active
    /\ planActive' = [planActive EXCEPT ![p] = active]
    /\ UNCHANGED <<cardVars, licVars, devVars, renewals, productActive, online,
                   now, req, leaseUntil>>

SetProductStatus(p, active) ==
    /\ "product status" \in Operations
    /\ productActive[p] # active
    /\ productActive' = [productActive EXCEPT ![p] = active]
    /\ UNCHANGED <<cardVars, licVars, devVars, renewals, planActive, online,
                   now, req, leaseUntil>>

-----------------------------------------------------------------------------
(***************************************************************************)
(* The environment.                                                        *)
(***************************************************************************)

\* The request ends without its next effect, whatever the reason.
EndRequest(r) ==
    /\ req[r].pc # "idle"
    /\ Ends(r)
    /\ UNCHANGED <<cardVars, licVars, devVars, renewals, planVars, online, now,
                   leaseUntil>>

\* The score of a member of online:lic:<id> passes.
SeatLapses(l, f) ==
    /\ f \in online[l]
    /\ online' = [online EXCEPT ![l] = @ \ {f}]
    /\ UNCHANGED <<cardVars, licVars, devVars, renewals, planVars, now, req,
                   leaseUntil>>

Tick ==
    /\ now < MaxTime
    /\ now' = now + 1
    /\ UNCHANGED <<cardVars, licVars, devVars, renewals, planVars, online, req,
                   leaseUntil>>

ClientStep(r) ==
    \/ BeginActivate(r)
    \/ FreshActivation(r)
    \/ Reactivation(r)
    \/ NewBinding(r)
    \/ Admission(r)
    \/ BeginHeartbeat(r)
    \/ HeartbeatCheck(r)
    \/ HeartbeatRenew(r)
    \/ BeginRedeem(r)
    \/ RedeemCard(r)
    \/ BeginDeactivate(r)

AdminStep(r) ==
    \/ BeginAdminUnbind(r)
    \/ BeginCardAction(r)
    \/ FreezeCard(r)
    \/ UnfreezeCard(r)
    \/ RevokeCard(r)
    \/ BeginLicenseAction(r)
    \/ FreezeOrThawLicense(r)
    \/ RevokeLicense(r)
    \/ BeginExtend(r)
    \/ ExtendByAdmin(r)

AnyRequestStep(r) == UnbindRow(r) \/ DropSeat(r) \/ EndRequest(r)

Next ==
    \/ \E r \in ClientRequests : ClientStep(r)
    \/ \E r \in AdminRequests : AdminStep(r)
    \/ \E r \in Requests : AnyRequestStep(r)
    \/ \E c \in Cards : BindCardToUser(c)
    \/ \E p \in Plans, active \in BOOLEAN : SetPlanStatus(p, active)
    \/ \E p \in Products, active \in BOOLEAN : SetProductStatus(p, active)
    \/ \E l \in Licenses, f \in Fingerprints : SeatLapses(l, f)
    \/ Tick

Spec == Init /\ [][Next]_vars

-----------------------------------------------------------------------------
(***************************************************************************)
(* Properties.                                                             *)
(***************************************************************************)

\* Every column, every request record and the Redis sets have their types.
TypeOK ==
    /\ cardStatus \in [Cards -> CardStatuses]
    /\ cardLicense \in [Cards -> Licenses \cup {NULL}]
    /\ cardActivated \in [Cards -> BOOLEAN]
    /\ cardUser \in [Cards -> BOOLEAN]
    /\ licStatus \in [Licenses -> LicStatuses]
    /\ licOrigin \in [Licenses -> Cards \cup {NULL}]
    /\ usesLeft \in [Licenses -> Nat]
    /\ expiresAt \in [Licenses -> Nat \cup {NoExpiry}]
    /\ inactiveSince \in [Licenses -> Nat]
    /\ devStatus \in [Licenses \X Fingerprints -> {"none", "active", "unbound"}]
    /\ devKey \in [Licenses \X Fingerprints -> Keys \cup {NULL}]
    /\ renewals \in [Cards -> Nat]
    /\ planActive \in [Plans -> BOOLEAN]
    /\ productActive \in [Products -> BOOLEAN]
    /\ online \in [Licenses -> SUBSET Fingerprints]
    /\ now \in Nat
    /\ req \in [Requests -> RequestRecord]
    /\ leaseUntil \in [Licenses -> Nat]

\* No step, of an administrator with a stale row or of a client, takes a card
\* or a licence out of a terminal status ("终态不可转出", 0001_init.sql; the
\* guards of TransitionCardStatus, TransitionCardToTerminal, SetCardStatus).
TerminalIsFinal ==
    [][/\ \A c \in Cards : cardStatus[c] \in CardTerminal
                              => cardStatus'[c] = cardStatus[c]
       /\ \A l \in Licenses : licStatus[l] \in LicTerminal
                              => licStatus'[l] = licStatus[l]]_vars

\* A card is consumed by a user account or by a licence, never by both, also
\* when it is frozen and thawed in between (MarkCardUsedByUser, Activate).
ExclusiveConsumption ==
    \A c \in Cards : cardUser[c] =>
        /\ cardLicense[c] = NULL
        /\ \A l \in Licenses : licOrigin[l] # c

\* A dead licence never leaves a card behind that could be activated again:
\* its origin card is terminal too (LicenseAction, CardAction).
DeadLicenseDeadCard ==
    \A l \in Licenses : licStatus[l] \in LicTerminal
                           => cardStatus[licOrigin[l]] \in CardTerminal

\* Freezing or revoking a licence bounds what its devices can still do: no
\* lease outlives that moment by more than LeaseTTL, although heartbeats and
\* activations in flight read the licence earlier ("吊销/冻结在此一个心跳周期内
\* 传播到在线客户端", heartbeat.go:35).
LeaseEndsAfterRevocation ==
    \A l \in Licenses : licStatus[l] \in {"frozen", "revoked", "voided"}
                           => leaseUntil[l] <= inactiveSince[l] + LeaseTTL

\* On a uses plan every device row cost exactly one use: none is free, and a
\* machine that comes back is not charged again (ConsumeLicenseUse).
UsesAccounted ==
    \A l \in Licenses :
        licStatus[l] # "none" /\ PlanKind[LicPlan(l)] = "uses" =>
            usesLeft[l] + Cardinality({f \in Fingerprints : devStatus[<<l, f>>] # "none"})
                = UsesTotal[LicPlan(l)]

\* A renewal card extends one licence once, however redeeming interleaves with
\* administrators freezing and thawing the card (Redeem).
RenewalCardSpentOnce ==
    \A c \in Cards : renewals[c] <= 1 /\ (renewals[c] = 1 => cardStatus[c] = "depleted")

\* One card, one licence (Activate, CardAction), with one administrator at a
\* time.  Two can break it: an unfreeze decides by the activated_at it read
\* before another one thawed, a client activated and the other froze again.
OneLicensePerCard ==
    \A l, m \in Licenses : licOrigin[l] # NULL /\ licOrigin[l] = licOrigin[m] => l = m

\* Whatever interleaves, the rows move only as the card state machine of
\* domain.go allows, each handler taking effect in one step (CardLedger).
Ledger == INSTANCE CardLedger WITH
    Cards <- Cards, Licenses <- Licenses, NULL <- NULL,
    cardStatus <- cardStatus, cardLicense <- cardLicense, cardUser <- cardUser,
    licStatus <- licStatus, licOrigin <- licOrigin, renewals <- renewals
ImplementsLedger == Ledger!Spec

\* The pointers between the tables agree: license_id of a card names a licence
\* made from it, and a card with a licence never loses its pointer, although
\* a card may go through two licences (SetCardActivated, CreateLicense).
PointersAgree ==
    /\ \A c \in Cards : cardLicense[c] # NULL => licOrigin[cardLicense[c]] = c
    /\ \A l \in Licenses :
         /\ licStatus[l] = "none" <=> licOrigin[l] = NULL
         /\ licOrigin[l] # NULL => cardLicense[licOrigin[l]] # NULL

-----------------------------------------------------------------------------
(***************************************************************************)
(* What the documents or comments of the repository say and the code does  *)
(* not do: TLC refutes each of these.                                      *)
(***************************************************************************)

\* Revoking a card revokes its licence ("卡密吊销（级联许可证）", operations.md:44).
\* CardAction cascades to the license_id it read before its transaction.
CardRevocationCascades ==
    \A c \in Cards, l \in Licenses :
        cardStatus[c] \in {"revoked", "voided"} /\ licOrigin[l] = c
            => licStatus[l] \in LicTerminal

\* A licence in use can be revoked by an administrator ("管理员一键吊销",
\* threat-model.md:62).  LicenseAction rolls back when the origin card is
\* already terminal, as the card of a used up uses plan is.
LiveLicenseRevocable ==
    \A l \in Licenses : licStatus[l] \in {"active", "frozen"} => RevocationApplies(l)

\* An activation that succeeds has bound the device ("激活仍成功（绑定完成）",
\* service.go:447).  The device row found by fingerprint may be unbound.
ActivationBinds ==
    [][\A r \in ClientRequests :
          req[r].pc = "activate" /\ req'[r].pc = "admit"
              => devStatus'[req'[r].lic, req'[r].fp] = "active"]_vars

=============================================================================
