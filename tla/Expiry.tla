-------------------------------- MODULE Expiry ---------------------------------
(***************************************************************************)
(* The date of one licence: devices and administrators extend it, time     *)
(* passes, and the workers record once that it has expired.                *)
(*                                                                         *)
(* A licence that expires stays "active": its date decides.  now() in a    *)
(* transaction is when the transaction began, and an extension may wait    *)
(* for the row after that.  Everything under the lock of the licence is    *)
(* one step: RowLocks has the statements.                                  *)
(***************************************************************************)
EXTENDS Integers

CONSTANTS
    Extenders,      \* slots for extensions in flight at once
    Coupons,        \* renewal cards
    CouponDays,     \* duration_days of their plan
    Workers,
    Forever,        \* no date: a permanent licence, or one of a uses plan
    FirstDates,     \* dates activation gives
    MaxGiven, MaxCuts, ExpiryMaxTime   \* bounds on days, failed sweeps, the clock

ASSUME ExpiryAssumption ==
    /\ {CouponDays, MaxGiven, MaxCuts, ExpiryMaxTime} \subseteq Nat
    /\ Forever \notin Nat /\ FirstDates \subseteq Nat \cup {Forever}

VARIABLES
    today,          \* the clock of the database, in days
    date,           \* licenses.expires_at
    standing,       \* licenses.status
    spent,          \* renewal cards that are depleted
    extend,         \* the extension in each slot
    sweep,          \* where each worker is
    expired,        \* rows of kind 'expired' in license_events
    told,           \* the date in the device's lease
    cuts,
    given, used,    \* history: days granted, and days the licence was valid
    waited          \* history: days between the begin of a transaction and its end

expiryVars ==
    <<today, date, standing, spent, extend, sweep, expired, told, cuts, given, used, waited>>

NoExtension == [pc |-> "idle", coupon |-> "none", began |-> 0]
Lapsed == date # Forever /\ date < today

ExpiryInit ==
    /\ today = 0
    /\ date \in FirstDates /\ told = date
    /\ standing = "active"
    /\ spent = {}
    /\ extend = [x \in Extenders |-> NoExtension]
    /\ sweep = [w \in Workers |-> "idle"]
    /\ expired = 0 /\ cuts = 0
    /\ given = (IF date = Forever THEN 0 ELSE date)
    /\ used = 0 /\ waited = 0

-----------------------------------------------------------------------------
\* Redeem: the device is checked, then the transaction begins.
BeginCoupon(x, c) ==
    /\ extend[x] = NoExtension
    /\ extend' = [extend EXCEPT ![x] = [pc |-> "coupon", coupon |-> c, began |-> today]]
    /\ UNCHANGED <<today, date, standing, spent, sweep, expired, told, cuts, given, used, waited>>

\* AdminExtendLicense reads the licence, and its transaction begins.
BeginExtension(x) ==
    /\ extend[x] = NoExtension
    /\ standing # "revoked"
    /\ extend' = [extend EXCEPT ![x].pc = "admin", ![x].began = today]
    /\ UNCHANGED <<today, date, standing, spent, sweep, expired, told, cuts, given, used, waited>>

\* ExtendLicense, in a transaction whose now() is began.
ExtendedFromDate(days, began) == IF date = Forever THEN began + days ELSE date + days
ExtendedDate(days, began) ==
    IF date = Forever \/ date < began THEN began + days ELSE date + days

ExtendBy(x, days) ==
    /\ given + days <= MaxGiven
    /\ date' = ExtendedDate(days, extend[x].began)
    /\ given' = given + days
    /\ waited' = waited + (today - extend[x].began)
    /\ extend' = [extend EXCEPT ![x] = NoExtension]

\* The licence is locked and looked at again; the lease has the date it had.
CommitCoupon(x) ==
    /\ extend[x].pc = "coupon"
    /\ standing = "active" /\ date # Forever
    /\ extend[x].coupon \notin spent
    /\ ExtendBy(x, CouponDays)
    /\ spent' = spent \cup {extend[x].coupon}
    /\ told' = date
    /\ UNCHANGED <<today, standing, sweep, expired, cuts, used>>

\* One UPDATE, whatever the status and the date are by now.
CommitExtension(x, days) ==
    /\ extend[x].pc = "admin"
    /\ ExtendBy(x, days)
    /\ UNCHANGED <<today, standing, spent, sweep, expired, told, cuts, used>>

AbandonExtension(x) ==
    /\ extend[x] # NoExtension
    /\ extend' = [extend EXCEPT ![x] = NoExtension]
    /\ UNCHANGED <<today, date, standing, spent, sweep, expired, told, cuts, given, used, waited>>

-----------------------------------------------------------------------------
\* LicenseAction, CardAction.
SetStanding(s) ==
    /\ standing # "revoked" /\ standing' = s
    /\ UNCHANGED <<today, date, spent, extend, sweep, expired, told, cuts, given, used, waited>>

\* Heartbeat: an expired licence gets no lease.
BeatDated ==
    /\ standing = "active" /\ ~Lapsed
    /\ told # date /\ told' = date
    /\ UNCHANGED <<today, date, standing, spent, extend, sweep, expired, cuts, given, used, waited>>

-----------------------------------------------------------------------------
\* MarkExpiredLicenseEvents, every 30 seconds: one INSERT ... SELECT, which sees
\* the rows that were committed when it began, and no index forbids a second one:
\* two workers may each insert the event.
DueToday == date # Forever /\ date = today - 1
Due == Lapsed
FindExpired(w) ==
    /\ sweep[w] = "idle"
    /\ standing = "active" /\ Due
    /\ expired = 0
    /\ sweep' = [sweep EXCEPT ![w] = "insert"]
    /\ UNCHANGED <<today, date, standing, spent, extend, expired, told, cuts, given, used, waited>>

InsertExpired(w) ==
    /\ sweep[w] = "insert"
    /\ expired' = expired + 1
    /\ sweep' = [sweep EXCEPT ![w] = "idle"]
    /\ UNCHANGED <<today, date, standing, spent, extend, told, cuts, given, used, waited>>

\* The statement fails or the worker is stopped; it tries again.
CutSweep(w) ==
    /\ sweep[w] = "insert" /\ cuts < MaxCuts
    /\ sweep' = [sweep EXCEPT ![w] = "idle"]
    /\ cuts' = cuts + 1
    /\ UNCHANGED <<today, date, standing, spent, extend, expired, told, given, used, waited>>

NextDay ==
    /\ today < ExpiryMaxTime
    /\ today' = today + 1
    /\ used' = IF date # Forever /\ date > today THEN used + 1 ELSE used
    /\ UNCHANGED <<date, standing, spent, extend, sweep, expired, told, cuts, given, waited>>

ExpiryNext ==
    \/ \E x \in Extenders :
        \/ \E c \in Coupons : BeginCoupon(x, c)
        \/ BeginExtension(x)
        \/ CommitCoupon(x) \/ CommitExtension(x, 1) \/ AbandonExtension(x)
    \/ \E s \in {"active", "frozen", "revoked"} : SetStanding(s)
    \/ BeatDated
    \/ \E w \in Workers : FindExpired(w) \/ InsertExpired(w) \/ CutSweep(w)
    \/ NextDay

\* A worker sweeps again and again, and a device that runs beats.
ExpiryFairness ==
    /\ \A w \in Workers : /\ WF_expiryVars(FindExpired(w))
                          /\ WF_expiryVars(InsertExpired(w))
    /\ WF_expiryVars(BeatDated)

ExpirySpec == ExpiryInit /\ [][ExpiryNext]_expiryVars /\ ExpiryFairness

-----------------------------------------------------------------------------
ExpiryTypeOK ==
    /\ today \in Nat
    /\ date \in Nat \cup {Forever} /\ told \in Nat \cup {Forever}
    /\ standing \in {"active", "frozen", "revoked"}
    /\ spent \subseteq Coupons
    /\ extend \in [Extenders -> [pc : {"idle", "coupon", "admin"},
                                 coupon : Coupons \cup {"none"}, began : Nat]]
    /\ sweep \in [Workers -> {"idle", "insert"}]
    /\ {expired, cuts, given, used, waited} \subseteq Nat

\* Every day that was granted is a day the licence was valid or still will be,
\* and no day is counted twice, however renewals and administrators' extensions
\* overlap with each other and with the expiry (ExtendLicense); what may be lost
\* is the time an extension waited for the row.
DaysAddUp ==
    date # Forever =>
        LET left == IF date > today THEN date - today ELSE 0
        IN  /\ used + left <= given
            /\ given <= used + left + waited

\* An expired licence gets its event although sweeps fail (runSweep), and a device
\* that got its lease with the date before a renewal (Redeem) learns the new one.
Settled == standing = "active" => IF Lapsed THEN expired > 0 ELSE told = date
ExpirySettles == []<>Settled
=============================================================================
