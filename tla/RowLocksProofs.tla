---------------------------- MODULE RowLocksProofs ----------------------------
(***************************************************************************)
(* The transactions of RowLocks, statement by statement, implement the     *)
(* card ledger, for any number of cards, licences and transactions.        *)
(***************************************************************************)
EXTENDS RowLocks, TLAPS

-----------------------------------------------------------------------------
(***************************************************************************)
(* The invariant.                                                          *)
(***************************************************************************)

\* What was committed.
RowsLinked ==
    /\ \A c \in Cards :
        /\ card[c].license # NULL => lic[card[c].license].status # "none"
                                     /\ lic[card[c].license].origin = c
        /\ card[c].activated => card[c].license # NULL
        /\ card[c].status = "active" => card[c].activated
    /\ \A l \in Licenses : lic[l].status # "none" => lic[l].origin \in Cards \ RenewalCards

\* What a transaction set out to do.
Intended(q) ==
    /\ q.op = "none" => q = NoTx
    /\ q.op \in {"activate", "redeem"} => q.from = "any"
    /\ q.op = "card action" =>
        \/ q.from \in {"active", "unused"} /\ q.to = "frozen"
        \/ q.from = "frozen" /\ q.to \in {"active", "unused"}
        \/ q.from = "any" /\ q.to \in LicTerminal
    /\ q.op = "license action" =>
        \/ q.from = "active" /\ q.to = "frozen"
        \/ q.from = "frozen" /\ q.to = "active"
        \/ q.from = "any" /\ q.to \in LicTerminal

\* The rows it has locked by now.
HoldsCard(q) ==
    \/ q.next = "commit" /\ ~(q.op = "license action" /\ q.from # "any")
    \/ q.next = "license" /\ q.op \in {"activate", "card action"}
HoldsLicense(q) ==
    \/ q.next = "commit" /\ ~(q.op = "card action" /\ q.lic = NULL)
    \/ q.next = "card" /\ q.op \in {"redeem", "license action"}
Holds(q, x) == (HoldsCard(q) /\ x = q.card) \/ (HoldsLicense(q) /\ x = q.lic)

\* What it knows of its rows whoever else commits.
Knows(q) ==
    /\ q.op # "none" => q.card \in Cards /\ q.next # "begin"
    /\ q.waits # NULL => /\ q.next \in {"card", "license"}
                         /\ q.waits = IF q.next = "card" THEN q.card ELSE q.lic
    /\ q.op = "activate" /\ q.next # "card" => q.lic # NULL /\ q.card \notin RenewalCards
    /\ q.op = "card action" =>
        /\ q.next = "license" => q.lic # NULL
        /\ q.lic # NULL => lic[q.lic].status # "none" /\ lic[q.lic].origin = q.card
        /\ q.to = "active" => card[q.card].activated
    /\ q.op \in {"redeem", "license action"} => q.lic # NULL /\ lic[q.lic].status # "none"
    /\ q.op = "license action" => lic[q.lic].origin = q.card
    /\ q.op = "license action" /\ q.next = "card" => q.from = "any"

\* Its version of a card it has locked, beside the committed one.
Issued(q) ==
    /\ q.next = "commit"
    /\ card[q.card].status = "unused" /\ lic[q.lic].status = "none"
    /\ q.crow.status \in {"active", "depleted"}
    /\ q.crow.license = q.lic /\ q.crow.activated
    /\ q.crow.renewed = card[q.card].renewed
    /\ q.lrow.status = "active" /\ q.lrow.origin = q.card
Met(q) ==
    /\ q.crow = card[q.card] /\ q.crow.license = q.lic
    /\ q.next = "commit" => q.lrow = lic[q.lic]
Redeemed(q) ==
    /\ card[q.card].status = "unused"
    /\ q.crow = [card[q.card] EXCEPT !.status = "depleted", !.renewed = @ + 1]
Moved(q) ==
    /\ IF q.from = "any" THEN card[q.card].status \notin CardTerminal
                         ELSE card[q.card].status = q.from
    /\ q.crow = [card[q.card] EXCEPT !.status = q.to]
CardVersion(q) ==
    /\ q.op = "activate" => Issued(q) \/ Met(q)
    /\ q.op = "redeem" => Redeemed(q)
    /\ q.op \in {"card action", "license action"} => Moved(q)

\* And of a licence.
Switched(q, from, to) ==
    /\ IF q.from = "any" THEN lic[q.lic].status \notin LicTerminal
                         ELSE lic[q.lic].status = from
    /\ q.lrow = [lic[q.lic] EXCEPT !.status = to]
LicenseVersion(q) ==
    /\ q.op = "redeem" => q.lrow = lic[q.lic]
    /\ q.op = "card action" =>
        Switched(q, IF q.to = "frozen" THEN "active" ELSE "frozen",
                    IF q.to = "unused" THEN "active" ELSE q.to)
    /\ q.op = "license action" => Switched(q, q.from, q.to)

Sound(t, q) ==
    /\ Intended(q) /\ Knows(q)
    /\ \A x \in Cards \cup Licenses : holder[x] = t <=> Holds(q, x)
    /\ HoldsCard(q) => CardVersion(q)
    /\ HoldsLicense(q) => LicenseVersion(q)

RowsInv == RowTypeOK /\ RowsLinked /\ \A t \in RowTx : Sound(t, tx[t])

-----------------------------------------------------------------------------
LEMMA RowBounds ==
    /\ NULL \notin Cards /\ NULL \notin Licenses /\ NULL \notin RowTx
    /\ Cards \cap Licenses = {} /\ RenewalCards \subseteq Cards
BY RowAssumption

LEMMA NewRows == NewCard \in CardRow /\ NoLicence \in LicRow
BY DEF NewCard, NoLicence, CardRow, LicRow

LEMMA NoTxTyped ==
    /\ NoTx \in TxRecord
    /\ NoTx.op = "none" /\ NoTx.next = "begin" /\ NoTx.card = NULL /\ NoTx.lic = NULL
    /\ NoTx.waits = NULL
BY NewRows DEF NoTx, TxRecord

LEMMA RecordFields ==
    ASSUME NEW q \in TxRecord
    PROVE  /\ q.op \in {"none", "activate", "redeem", "card action", "license action"}
           /\ q.next \in {"begin", "card", "license", "commit"}
           /\ q.card \in Cards \cup {NULL} /\ q.lic \in Licenses \cup {NULL}
           /\ q.from \in {"any", "unused", "active", "frozen"}
           /\ q.to \in {"any", "unused", "active", "frozen", "revoked", "voided"}
           /\ q.waits \in Cards \cup Licenses \cup {NULL}
           /\ q.crow \in CardRow /\ q.lrow \in LicRow
BY DEF TxRecord, RowOps

\* A slot that is free is sound as long as it has no lock.
LEMMA IdleSound ==
    ASSUME NEW t \in RowTx, \A x \in Cards \cup Licenses : holder[x] # t
    PROVE  Sound(t, NoTx)
<1>1. ~HoldsCard(NoTx) /\ ~HoldsLicense(NoTx)
      BY NoTxTyped DEF HoldsCard, HoldsLicense
<1>2. Intended(NoTx) /\ Knows(NoTx)
      BY NoTxTyped DEF Intended, Knows
<1> QED
    BY <1>1, <1>2 DEF Sound, Holds

LEMMA RowsInvInit == RowInit => RowsInv
<1> SUFFICES ASSUME RowInit PROVE RowsInv
    OBVIOUS
<1>1. RowTypeOK
      BY NewRows, NoTxTyped DEF RowInit, RowTypeOK
<1>2. RowsLinked
      BY DEF RowInit, RowsLinked, NewCard, NoLicence
<1>3. ASSUME NEW t \in RowTx PROVE Sound(t, tx[t])
      BY IdleSound, RowBounds DEF RowInit
<1> QED
    BY <1>1, <1>2, <1>3 DEF RowsInv

-----------------------------------------------------------------------------
(***************************************************************************)
(* What a step of one transaction leaves of the others.                    *)
(***************************************************************************)

\* The rows a transaction holds stay as they are, a licence that exists stays with
\* its card, and a card stays activated.
LEMMA OthersKnow ==
    ASSUME NEW q \in TxRecord, Knows(q),
           \A l \in Licenses : lic[l].status # "none" =>
               lic'[l].status # "none" /\ lic'[l].origin = lic[l].origin,
           \A c \in Cards : card[c].activated => card'[c].activated
    PROVE  Knows(q)'
<1> USE RecordFields
<1> QED
    BY DEF Knows

LEMMA OthersVersions ==
    ASSUME NEW q \in TxRecord, Knows(q),
           HoldsCard(q) => card'[q.card] = card[q.card],
           HoldsLicense(q) => lic'[q.lic] = lic[q.lic]
    PROVE  /\ HoldsCard(q) /\ CardVersion(q) => CardVersion(q)'
           /\ HoldsLicense(q) /\ LicenseVersion(q) => LicenseVersion(q)'
<1>1. HoldsCard(q) /\ q.next = "commit" /\ q.op = "activate" => HoldsLicense(q)
      BY DEF HoldsLicense
<1>2. HoldsCard(q) /\ CardVersion(q) => CardVersion(q)'
      BY <1>1 DEF CardVersion, Issued, Met, Redeemed, Moved
<1>3. HoldsLicense(q) /\ LicenseVersion(q) => LicenseVersion(q)'
      BY DEF LicenseVersion, Switched
<1> QED
    BY <1>2, <1>3

\* A transaction holds rows that there are.
LEMMA HeldRows ==
    ASSUME NEW q \in TxRecord, Intended(q), Knows(q)
    PROVE  /\ q.next # "begin" <=> q.op # "none"
           /\ HoldsCard(q) => q.card \in Cards
           /\ HoldsLicense(q) => q.lic \in Licenses
<1>1. q.next # "begin" <=> q.op # "none"
      BY NoTxTyped DEF Intended, Knows
<1>2. HoldsCard(q) => q.card \in Cards
      BY <1>1 DEF Knows, HoldsCard
<1>3. HoldsLicense(q) => q.lic \in Licenses
      BY <1>1, RecordFields DEF Knows, HoldsLicense
<1> QED
    BY <1>1, <1>2, <1>3

LEMMA OthersSound ==
    ASSUME RowTypeOK, NEW u \in RowTx, Sound(u, tx[u]), tx'[u] = tx[u],
           \A x \in Cards \cup Licenses : holder'[x] = u <=> holder[x] = u,
           \A c \in Cards : holder[c] = u => card'[c] = card[c],
           \A l \in Licenses : holder[l] = u => lic'[l] = lic[l],
           \A l \in Licenses : lic[l].status # "none" =>
               lic'[l].status # "none" /\ lic'[l].origin = lic[l].origin,
           \A c \in Cards : card[c].activated => card'[c].activated
    PROVE  Sound(u, tx[u])'
<1> DEFINE q == tx[u]
<1>1. q \in TxRecord
      BY DEF RowTypeOK
<1>2. Intended(q) /\ Knows(q)
      BY DEF Sound
<1>3. /\ HoldsCard(q) => q.card \in Cards /\ holder[q.card] = u
      /\ HoldsLicense(q) => q.lic \in Licenses /\ holder[q.lic] = u
      BY <1>1, <1>2, HeldRows DEF Sound, Holds
<1>4. Knows(q)'
      BY <1>1, <1>2, OthersKnow
<1>5. /\ HoldsCard(q) /\ CardVersion(q) => CardVersion(q)'
      /\ HoldsLicense(q) /\ LicenseVersion(q) => LicenseVersion(q)'
      BY <1>1, <1>2, <1>3, OthersVersions
<1>6. Intended(q)' /\ HoldsCard(q)' = HoldsCard(q) /\ HoldsLicense(q)' = HoldsLicense(q)
      /\ \A x : Holds(q, x)' = Holds(q, x)
      BY <1>2 DEF Intended, HoldsCard, HoldsLicense, Holds
<1> QED
    BY <1>2, <1>4, <1>5, <1>6 DEF Sound

LEMMA HolderOnly ==
    ASSUME RowsInv, NEW t \in RowTx
    PROVE  \A x \in Cards \cup Licenses : holder[x] = t <=> Holds(tx[t], x)
BY DEF RowsInv, Sound

\* A step of one transaction that commits nothing.
LEMMA QuietStep ==
    ASSUME RowsInv, NEW t \in RowTx, NEW q \in TxRecord,
           tx' = [tx EXCEPT ![t] = q], UNCHANGED <<card, lic>>,
           holder' \in [Cards \cup Licenses -> RowTx \cup {NULL}],
           \A x \in Cards \cup Licenses :
               holder'[x] # holder[x] => holder[x] \in {t, NULL} /\ holder'[x] \in {t, NULL},
           Intended(q), Knows(q),
           \A x \in Cards \cup Licenses : holder'[x] = t <=> Holds(q, x),
           HoldsCard(q) => CardVersion(q), HoldsLicense(q) => LicenseVersion(q)
    PROVE  RowsInv'
<1>1. RowTypeOK /\ RowsLinked
      BY DEF RowsInv
<1>2. RowTypeOK'
      BY <1>1 DEF RowTypeOK
<1>3. RowsLinked'
      BY <1>1 DEF RowsLinked
<1>4. tx'[t] = q /\ \A u \in RowTx \ {t} : tx'[u] = tx[u]
      BY <1>1 DEF RowTypeOK
<1>5. Sound(t, tx[t])'
  <2>1. Intended(q)' /\ Knows(q)'
        BY DEF Intended, Knows
  <2>2. \A x \in Cards \cup Licenses : holder'[x] = t <=> Holds(q, x)'
        BY DEF Holds, HoldsCard, HoldsLicense
  <2>3. /\ HoldsCard(q)' => CardVersion(q)'
        /\ HoldsLicense(q)' => LicenseVersion(q)'
        BY DEF HoldsCard, HoldsLicense, CardVersion, LicenseVersion, Issued, Met, Redeemed,
               Moved, Switched
  <2> QED
      BY <1>4, <2>1, <2>2, <2>3 DEF Sound
<1>6. ASSUME NEW u \in RowTx \ {t} PROVE Sound(u, tx[u])'
  <2>1. Sound(u, tx[u])
        BY DEF RowsInv
  <2>2. \A x \in Cards \cup Licenses : holder'[x] = u <=> holder[x] = u
        BY RowBounds
  <2> QED
      BY <1>1, <1>4, <2>1, <2>2, OthersSound
<1> QED
    BY <1>2, <1>3, <1>5, <1>6 DEF RowsInv

-----------------------------------------------------------------------------
(***************************************************************************)
(* The statements of a transaction.                                        *)
(***************************************************************************)

LEMMA BeginStep ==
    ASSUME RowsInv, NEW t \in RowTx, NEW rec \in TxRecord, Begin(t, rec),
           rec.op # "none", rec.waits = NULL, rec.card \in Cards, Intended(rec),
           rec.op = "card action" =>
               /\ rec.lic # NULL => lic[rec.lic].status # "none" /\ lic[rec.lic].origin = rec.card
               /\ rec.to = "active" => card[rec.card].activated,
           rec.op \in {"redeem", "license action"} =>
               rec.lic # NULL /\ lic[rec.lic].status # "none",
           rec.op = "license action" => lic[rec.lic].origin = rec.card
    PROVE  RowsInv'
<1> DEFINE q == [rec EXCEPT !.next = FirstRow(rec.op, rec.lic)]
<1>1. FirstRow(rec.op, rec.lic) =
          IF rec.op \in {"redeem", "license action"} THEN "license" ELSE "card"
      BY DEF FirstRow
<1>2. /\ q \in TxRecord /\ q.next = FirstRow(rec.op, rec.lic)
      /\ q.op = rec.op /\ q.card = rec.card /\ q.lic = rec.lic
      /\ q.from = rec.from /\ q.to = rec.to /\ q.waits = rec.waits
      BY <1>1 DEF TxRecord
<1>3. ~HoldsCard(q) /\ ~HoldsLicense(q)
      BY <1>1, <1>2 DEF HoldsCard, HoldsLicense
<1>4. Intended(q)
      BY <1>2 DEF Intended
<1>5. Knows(q)
      BY <1>1, <1>2 DEF Knows
<1>6. \A x \in Cards \cup Licenses : holder[x] # t
  <2>1. tx[t] = NoTx
        BY DEF Begin, RowsInv, Sound, Intended
  <2> QED
      BY <2>1, NoTxTyped, HolderOnly DEF Holds, HoldsCard, HoldsLicense
<1>7. /\ tx' = [tx EXCEPT ![t] = q] /\ UNCHANGED <<card, lic, holder>>
      /\ holder \in [Cards \cup Licenses -> RowTx \cup {NULL}]
      BY DEF Begin, RowsInv, RowTypeOK
<1> QED
    BY <1>2, <1>3, <1>4, <1>5, <1>6, <1>7, QuietStep DEF Holds

LEMMA WaitStep ==
    ASSUME RowsInv, NEW t \in RowTx, WaitForRow(t)
    PROVE  RowsInv'
<1> DEFINE p == tx[t]
           q == [p EXCEPT !.waits = RowWanted(t)]
<1>1. /\ p \in TxRecord /\ p.next \in {"card", "license"}
      /\ tx' = [tx EXCEPT ![t] = q] /\ UNCHANGED <<card, lic, holder>>
      /\ holder \in [Cards \cup Licenses -> RowTx \cup {NULL}]
      /\ Sound(t, p)
      BY DEF WaitForRow, AtStatement, RowsInv, RowTypeOK
<1>2. Intended(p) /\ Knows(p) /\ p.op # "none"
      BY <1>1, HeldRows DEF Sound
<1>3. RowWanted(t) \in Cards \cup Licenses \cup {NULL}
      BY <1>1, RecordFields DEF RowWanted
<1>4. /\ q \in TxRecord /\ q.waits = RowWanted(t) /\ q.next = p.next
      /\ q.op = p.op /\ q.card = p.card /\ q.lic = p.lic
      /\ q.from = p.from /\ q.to = p.to /\ q.crow = p.crow /\ q.lrow = p.lrow
      BY <1>1, <1>3 DEF TxRecord
<1>5. Intended(q) /\ Knows(q)
      BY <1>1, <1>2, <1>4 DEF Intended, Knows, RowWanted
<1>6. /\ HoldsCard(q) <=> HoldsCard(p)
      /\ HoldsLicense(q) <=> HoldsLicense(p)
      /\ \A x : Holds(q, x) <=> Holds(p, x)
      BY <1>4 DEF HoldsCard, HoldsLicense, Holds
<1>7. CardVersion(p) => CardVersion(q)
  <2> HIDE DEF p, q
  <2>1. (Issued(p) => Issued(q)) /\ (Met(p) => Met(q))
        BY <1>4 DEF Issued, Met
  <2>2. (Redeemed(p) => Redeemed(q)) /\ (Moved(p) => Moved(q))
        BY <1>4 DEF Redeemed, Moved
  <2> QED
      BY <1>4, <2>1, <2>2 DEF CardVersion
<1>8. LicenseVersion(p) => LicenseVersion(q)
  <2> HIDE DEF p, q
  <2> QED
      BY <1>4 DEF LicenseVersion, Switched
<1>9. /\ \A x \in Cards \cup Licenses : holder'[x] = t <=> Holds(q, x)
      /\ HoldsCard(q) => CardVersion(q)
      /\ HoldsLicense(q) => LicenseVersion(q)
      BY <1>1, <1>6, <1>7, <1>8 DEF Sound
<1> HIDE DEF p, q
<1> QED
    BY <1>1, <1>4, <1>5, <1>9, QuietStep

LEMMA EndStep ==
    ASSUME RowsInv, NEW t \in RowTx, EndTx(t), UNCHANGED <<card, lic>>
    PROVE  RowsInv'
<1>1. ~HoldsCard(NoTx) /\ ~HoldsLicense(NoTx)
      BY NoTxTyped DEF HoldsCard, HoldsLicense
<1>2. Intended(NoTx) /\ Knows(NoTx)
      BY NoTxTyped DEF Intended, Knows
<1>3. holder \in [Cards \cup Licenses -> RowTx \cup {NULL}]
      BY DEF RowsInv, RowTypeOK
<1>4. /\ holder' \in [Cards \cup Licenses -> RowTx \cup {NULL}]
      /\ \A x \in Cards \cup Licenses : holder'[x] # t
      /\ \A x \in Cards \cup Licenses :
             holder'[x] # holder[x] => holder[x] \in {t, NULL} /\ holder'[x] \in {t, NULL}
      BY <1>3, RowBounds DEF EndTx
<1>5. tx' = [tx EXCEPT ![t] = NoTx]
      BY DEF EndTx
<1>6. \A x \in Cards \cup Licenses : holder'[x] = t <=> Holds(NoTx, x)
  <2>1. \A x : ~Holds(NoTx, x)
        BY <1>1 DEF Holds
  <2> QED
      BY <1>4, <2>1
<1>7. NoTx \in TxRecord
      BY NoTxTyped
<1> QED
    BY <1>1, <1>2, <1>4, <1>5, <1>6, <1>7, QuietStep

LEMMA ActivateStep ==
    ASSUME RowsInv, NEW t \in RowTx, BeginActivateTx(t)
    PROVE  RowsInv'
<1> PICK c \in Cards : Begin(t, [NoTx EXCEPT !.op = "activate", !.card = c])
    BY DEF BeginActivateTx
<1> DEFINE rec == [NoTx EXCEPT !.op = "activate", !.card = c]
<1>2. /\ rec \in TxRecord /\ rec.op = "activate" /\ rec.card = c /\ rec.from = "any"
      /\ rec.waits = NULL
      BY NewRows DEF NoTx, TxRecord, RowOps
<1>3. Intended(rec)
      BY <1>2 DEF Intended
<1>4. Begin(t, rec)
      OBVIOUS
<1> HIDE DEF rec
<1> QED
    BY <1>2, <1>3, <1>4, BeginStep

LEMMA RedeemStep ==
    ASSUME RowsInv, NEW t \in RowTx, BeginRedeemTx(t)
    PROVE  RowsInv'
<1> PICK l \in Licenses, c \in Cards :
        /\ lic[l].status # "none"
        /\ Begin(t, [NoTx EXCEPT !.op = "redeem", !.lic = l, !.card = c])
    BY DEF BeginRedeemTx
<1> DEFINE rec == [NoTx EXCEPT !.op = "redeem", !.lic = l, !.card = c]
<1>2. /\ rec \in TxRecord /\ rec.op = "redeem" /\ rec.card = c /\ rec.lic = l
      /\ rec.from = "any" /\ rec.waits = NULL
      BY NewRows DEF NoTx, TxRecord, RowOps
<1>3. Intended(rec)
      BY <1>2 DEF Intended
<1>4. Begin(t, rec)
      OBVIOUS
<1>5. rec.lic # NULL
      BY <1>2, RowBounds
<1> HIDE DEF rec
<1> QED
    BY <1>2, <1>3, <1>4, <1>5, BeginStep

LEMMA CardActionStep ==
    ASSUME RowsInv, NEW t \in RowTx, BeginCardActionTx(t)
    PROVE  RowsInv'
<1>1. PICK c \in Cards, from \in {"any", "unused", "active", "frozen"},
           to \in {"unused", "active", "frozen", "revoked", "voided"} :
        /\ \/ from \in {"active", "unused"} /\ to = "frozen"
           \/ /\ from = "frozen"
              /\ to = IF card[c].activated THEN "active" ELSE "unused"
           \/ from = "any" /\ to \in LicTerminal
        /\ Begin(t, [NoTx EXCEPT !.op = "card action", !.card = c, !.lic = card[c].license,
                                 !.from = from, !.to = to])
      BY DEF BeginCardActionTx, LicTerminal
<1> DEFINE rec == [NoTx EXCEPT !.op = "card action", !.card = c, !.lic = card[c].license,
                               !.from = from, !.to = to]
<1>2. /\ card[c].license \in Licenses \cup {NULL}
      /\ card[c].license # NULL => lic[card[c].license].status # "none"
                                   /\ lic[card[c].license].origin = c
      BY DEF RowsInv, RowTypeOK, RowsLinked, CardRow
<1>3. /\ rec \in TxRecord /\ rec.op = "card action" /\ rec.card = c
      /\ rec.lic = card[c].license /\ rec.from = from /\ rec.to = to /\ rec.waits = NULL
      BY <1>2, NewRows DEF NoTx, TxRecord, RowOps
<1>4. Intended(rec)
      BY <1>1, <1>3 DEF Intended
<1>5. rec.to = "active" => card[rec.card].activated
      BY <1>1, <1>3 DEF LicTerminal
<1>6. Begin(t, rec)
      BY <1>1
<1> HIDE DEF rec
<1> QED
    BY <1>2, <1>3, <1>4, <1>5, <1>6, BeginStep

LEMMA LicenseActionStep ==
    ASSUME RowsInv, NEW t \in RowTx, BeginLicenseActionTx(t)
    PROVE  RowsInv'
<1>1. PICK l \in Licenses, from \in {"any", "active", "frozen"},
           to \in {"active", "frozen", "revoked", "voided"} :
        /\ lic[l].status # "none"
        /\ \/ from = "active" /\ to = "frozen"
           \/ from = "frozen" /\ to = "active"
           \/ from = "any" /\ to \in LicTerminal
        /\ Begin(t, [NoTx EXCEPT !.op = "license action", !.lic = l, !.card = lic[l].origin,
                                 !.from = from, !.to = to])
      BY DEF BeginLicenseActionTx, LicTerminal
<1> DEFINE rec == [NoTx EXCEPT !.op = "license action", !.lic = l, !.card = lic[l].origin,
                               !.from = from, !.to = to]
<1>2. lic[l].origin \in Cards
      BY <1>1 DEF RowsInv, RowsLinked
<1>4. /\ rec \in TxRecord /\ rec.op = "license action" /\ rec.card = lic[l].origin
      /\ rec.lic = l /\ rec.from = from /\ rec.to = to /\ rec.waits = NULL
      BY <1>2, NewRows DEF NoTx, TxRecord, RowOps
<1>5. Intended(rec)
      BY <1>1, <1>4 DEF Intended
<1>6. Begin(t, rec)
      BY <1>1
<1>7. rec.lic # NULL
      BY <1>4, RowBounds
<1> HIDE DEF rec
<1> QED
    BY <1>1, <1>2, <1>4, <1>5, <1>6, <1>7, BeginStep

\* What is known of a transaction whose statement finds its row free.
LEMMA FreeRow ==
    ASSUME RowsInv, NEW t \in RowTx, Free(t)
    PROVE  /\ tx[t] \in TxRecord /\ Intended(tx[t]) /\ Knows(tx[t])
           /\ tx[t].op # "none" /\ tx[t].next \in {"card", "license"}
           /\ tx[t].card \in Cards
           /\ tx[t].next = "card" => holder[tx[t].card] = NULL
           /\ tx[t].next = "license" => tx[t].lic \in Licenses /\ holder[tx[t].lic] = NULL
<1>1. tx[t] \in TxRecord /\ Intended(tx[t]) /\ Knows(tx[t])
      BY DEF RowsInv, RowTypeOK, Sound
<1>2. tx[t].next \in {"card", "license"} /\ holder[RowWanted(t)] = NULL
      BY DEF Free, AtStatement
<1>3. tx[t].op # "none"
      BY <1>1, <1>2, HeldRows
<1>4. tx[t].card \in Cards
      BY <1>1, <1>3 DEF Knows
<1>5. tx[t].next = "license" => tx[t].lic \in Licenses
      BY <1>1, <1>3, RecordFields DEF Knows
<1> QED
    BY <1>1, <1>2, <1>3, <1>4, <1>5 DEF RowWanted

\* Taking one free row, or an unused card and the row of its new licence.
LEMMA TakingHolds ==
    ASSUME RowsInv, NEW t \in RowTx, NEW x \in Cards \cup Licenses, NEW y \in Cards \cup Licenses,
           holder[x] = NULL, holder[y] = NULL,
           holder' = [holder EXCEPT ![x] = t, ![y] = t]
    PROVE  /\ holder' \in [Cards \cup Licenses -> RowTx \cup {NULL}]
           /\ \A z \in Cards \cup Licenses :
                 holder'[z] # holder[z] => holder[z] \in {t, NULL} /\ holder'[z] \in {t, NULL}
           /\ \A z \in Cards \cup Licenses :
                 holder'[z] = t <=> (z = x \/ z = y \/ holder[z] = t)
<1>1. holder \in [Cards \cup Licenses -> RowTx \cup {NULL}]
      BY DEF RowsInv, RowTypeOK
<1>2. \A z \in Cards \cup Licenses :
          holder'[z] = IF z = x \/ z = y THEN t ELSE holder[z]
      BY <1>1
<1> QED
    BY <1>1, <1>2

LEMMA TakingOne ==
    ASSUME RowsInv, NEW t \in RowTx, NEW x \in Cards \cup Licenses,
           holder[x] = NULL, holder' = [holder EXCEPT ![x] = t]
    PROVE  /\ holder' \in [Cards \cup Licenses -> RowTx \cup {NULL}]
           /\ \A z \in Cards \cup Licenses :
                 holder'[z] # holder[z] => holder[z] \in {t, NULL} /\ holder'[z] \in {t, NULL}
           /\ \A z \in Cards \cup Licenses :
                 holder'[z] = t <=> (z = x \/ holder[z] = t)
<1>1. holder \in [Cards \cup Licenses -> RowTx \cup {NULL}]
      BY DEF RowsInv, RowTypeOK
<1>2. \A z \in Cards \cup Licenses : holder'[z] = IF z = x THEN t ELSE holder[z]
      BY <1>1
<1> QED
    BY <1>1, <1>2

LEMMA UnusedStep ==
    ASSUME RowsInv, NEW t \in RowTx, TakeUnusedCard(t)
    PROVE  RowsInv'
<1> DEFINE p == tx[t]
           c == p.card
<1>1. PICK l \in Licenses, s \in {"active", "depleted"} :
        /\ lic[l].status = "none" /\ holder[l] = NULL
        /\ holder' = [holder EXCEPT ![c] = t, ![l] = t]
        /\ tx' = [tx EXCEPT ![t].next = "commit", ![t].lic = l, ![t].waits = NULL,
                      ![t].crow = [card[c] EXCEPT !.status = s, !.license = l,
                                                  !.activated = TRUE],
                      ![t].lrow = [NoLicence EXCEPT !.status = "active", !.origin = c]]
      BY DEF TakeUnusedCard
<1>2. /\ p.op = "activate" /\ p.next = "card" /\ Free(t)
      /\ card[c].status = "unused" /\ c \notin RenewalCards
      /\ UNCHANGED <<card, lic>>
      BY DEF TakeUnusedCard
<1>3. /\ p \in TxRecord /\ Intended(p) /\ Knows(p) /\ c \in Cards /\ holder[c] = NULL
      /\ l # NULL /\ card[c] \in CardRow
      BY <1>2, FreeRow, RowBounds DEF RowsInv, RowTypeOK
<1> DEFINE crow == [card[c] EXCEPT !.status = s, !.license = l, !.activated = TRUE]
           lrow == [NoLicence EXCEPT !.status = "active", !.origin = c]
           q == [p EXCEPT !.next = "commit", !.lic = l, !.waits = NULL, !.crow = crow,
                          !.lrow = lrow]
<1>4. /\ crow \in CardRow /\ crow.status = s /\ crow.license = l /\ crow.activated
      /\ crow.renewed = card[c].renewed
      BY <1>3 DEF CardRow
<1>5. lrow \in LicRow /\ lrow.status = "active" /\ lrow.origin = c
      BY <1>3 DEF LicRow, NoLicence
<1>6. tx' = [tx EXCEPT ![t] = q]
      BY <1>1
<1> HIDE DEF crow, lrow
<1>7. /\ q \in TxRecord /\ q.next = "commit" /\ q.lic = l /\ q.waits = NULL
      /\ q.crow = crow /\ q.lrow = lrow
      /\ q.op = p.op /\ q.card = c /\ q.from = p.from /\ q.to = p.to
      BY <1>3, <1>4, <1>5 DEF TxRecord
<1> HIDE DEF q
<1>8. HoldsCard(q) /\ HoldsLicense(q)
      BY <1>2, <1>7 DEF HoldsCard, HoldsLicense
<1>9. Intended(q) /\ Knows(q)
      BY <1>2, <1>3, <1>7 DEF Intended, Knows
<1>10. CardVersion(q) /\ LicenseVersion(q)
      BY <1>1, <1>2, <1>4, <1>5, <1>7 DEF CardVersion, Issued, LicenseVersion
<1>11. \A x : ~Holds(p, x)
      BY <1>2 DEF Holds, HoldsCard, HoldsLicense
<1>12. \A x : Holds(q, x) <=> x = c \/ x = l
      BY <1>7, <1>8 DEF Holds
<1>13. /\ holder' \in [Cards \cup Licenses -> RowTx \cup {NULL}]
       /\ \A z \in Cards \cup Licenses :
             holder'[z] # holder[z] => holder[z] \in {t, NULL} /\ holder'[z] \in {t, NULL}
       /\ \A z \in Cards \cup Licenses : holder'[z] = t <=> Holds(q, z)
  <2>1. c \in Cards \cup Licenses /\ l \in Cards \cup Licenses
        BY <1>3
  <2>2. \A z \in Cards \cup Licenses : holder'[z] = t <=> (z = c \/ z = l \/ holder[z] = t)
        BY <1>1, <1>3, <2>1, TakingHolds
  <2>3. /\ holder' \in [Cards \cup Licenses -> RowTx \cup {NULL}]
        /\ \A z \in Cards \cup Licenses :
             holder'[z] # holder[z] => holder[z] \in {t, NULL} /\ holder'[z] \in {t, NULL}
        BY <1>1, <1>3, <2>1, TakingHolds
  <2> QED
      BY <1>11, <1>12, <2>2, <2>3, HolderOnly
<1> QED
    BY <1>2, <1>6, <1>7, <1>9, <1>10, <1>13, QuietStep

LEMMA ActiveStep ==
    ASSUME RowsInv, NEW t \in RowTx, TakeActiveCard(t)
    PROVE  RowsInv'
<1> DEFINE p == tx[t]
           c == p.card
           q == [p EXCEPT !.next = "license", !.lic = card[c].license, !.waits = NULL,
                          !.crow = card[c]]
<1>1. /\ p.op = "activate" /\ p.next = "card" /\ Free(t)
      /\ card[c].status = "active"
      /\ UNCHANGED <<card, lic>> /\ holder' = [holder EXCEPT ![c] = t]
      /\ tx' = [tx EXCEPT ![t] = q]
      BY DEF TakeActiveCard
<1>2. /\ p \in TxRecord /\ Intended(p) /\ Knows(p) /\ c \in Cards /\ holder[c] = NULL
      /\ card[c] \in CardRow
      BY <1>1, FreeRow DEF RowsInv, RowTypeOK
<1>3. /\ card[c].license \in Licenses /\ c \notin RenewalCards
      BY <1>1, <1>2 DEF RowsInv, RowsLinked, CardRow
<1>4. /\ q \in TxRecord /\ q.next = "license" /\ q.lic = card[c].license /\ q.waits = NULL
      /\ q.crow = card[c]
      /\ q.op = p.op /\ q.card = c /\ q.from = p.from /\ q.to = p.to
      BY <1>2, <1>3 DEF TxRecord
<1> HIDE DEF q
<1>5. HoldsCard(q) /\ ~HoldsLicense(q)
      BY <1>1, <1>4 DEF HoldsCard, HoldsLicense
<1>6. Intended(q) /\ Knows(q)
      BY <1>1, <1>2, <1>3, <1>4, RowBounds DEF Intended, Knows
<1>7. CardVersion(q)
      BY <1>1, <1>4 DEF CardVersion, Met
<1>8. \A x : ~Holds(p, x)
      BY <1>1 DEF Holds, HoldsCard, HoldsLicense
<1>9. \A x : Holds(q, x) <=> x = c
      BY <1>4, <1>5 DEF Holds
<1>10. /\ holder' \in [Cards \cup Licenses -> RowTx \cup {NULL}]
       /\ \A z \in Cards \cup Licenses :
             holder'[z] # holder[z] => holder[z] \in {t, NULL} /\ holder'[z] \in {t, NULL}
       /\ \A z \in Cards \cup Licenses : holder'[z] = t <=> Holds(q, z)
  <2>1. \A z \in Cards \cup Licenses : holder'[z] = t <=> (z = c \/ holder[z] = t)
        BY <1>1, <1>2, TakingOne
  <2>2. /\ holder' \in [Cards \cup Licenses -> RowTx \cup {NULL}]
        /\ \A z \in Cards \cup Licenses :
             holder'[z] # holder[z] => holder[z] \in {t, NULL} /\ holder'[z] \in {t, NULL}
        BY <1>1, <1>2, TakingOne
  <2> QED
      BY <1>8, <1>9, <2>1, <2>2, HolderOnly
<1> QED
    BY <1>1, <1>4, <1>5, <1>6, <1>7, <1>10, QuietStep

LEMMA RedeemedRow ==
    ASSUME NEW row \in CardRow
    PROVE  [row EXCEPT !.status = "depleted", !.renewed = @ + 1] \in CardRow
<1>1. row.renewed + 1 \in Nat
      BY DEF CardRow
<1> QED
    BY <1>1 DEF CardRow

LEMMA CardStep ==
    ASSUME RowsInv, NEW t \in RowTx, TakeCard(t)
    PROVE  RowsInv'
<1> DEFINE p == tx[t]
           c == p.card
           next == IF p.op = "card action" /\ p.lic # NULL THEN "license" ELSE "commit"
           crow == IF p.op = "redeem"
                   THEN [card[c] EXCEPT !.status = "depleted", !.renewed = @ + 1]
                   ELSE [card[c] EXCEPT !.status = p.to]
           q == [p EXCEPT !.waits = NULL, !.next = next, !.crow = crow]
<1>1. /\ p.op # "activate" /\ p.next = "card" /\ Free(t) /\ Finds(t) /\ Accepts(t)
      /\ UNCHANGED <<card, lic>> /\ holder' = [holder EXCEPT ![c] = t]
      BY DEF TakeCard
<1>2. /\ p \in TxRecord /\ Intended(p) /\ Knows(p) /\ c \in Cards /\ holder[c] = NULL
      /\ p.op \in {"redeem", "card action", "license action"}
      /\ card[c] \in CardRow
      BY <1>1, FreeRow, RecordFields DEF RowsInv, RowTypeOK
<1>3. p.op = "card action" /\ p.lic # NULL => holder[p.lic] # t
  <2>1. p.op = "card action" => ~Holds(p, p.lic)
        BY <1>1 DEF Holds, HoldsCard, HoldsLicense
  <2> QED
      BY <1>2, <2>1, RecordFields, HolderOnly
<1>4. tx' = [tx EXCEPT ![t] = q]
  <2>1. tx' = [tx EXCEPT
                  ![t].waits = NULL,
                  ![t].next = IF tx[t].op = "card action" /\ tx[t].lic # NULL
                                 /\ holder[tx[t].lic] # t THEN "license" ELSE "commit",
                  ![t].crow = crow]
        BY DEF TakeCard
  <2> HIDE DEF crow
  <2> QED
      BY <1>3, <2>1
<1>5. ASSUME p.op = "redeem" PROVE card[c].status = "unused"
      BY <1>1, <1>5 DEF Accepts
<1>6. p.op # "redeem" => /\ IF p.from = "any" THEN card[c].status \notin CardTerminal
                                              ELSE card[c].status = p.from
                         /\ p.to \in {"unused", "active", "frozen", "revoked", "voided"}
  <2>1. p.op # "redeem" => IF p.from = "any" THEN card[c].status \notin CardTerminal
                                            ELSE card[c].status = p.from
        BY <1>1, <1>2 DEF Finds
  <2>2. p.op # "redeem" => p.to \in {"unused", "active", "frozen", "revoked", "voided"}
        BY <1>2 DEF Intended, LicTerminal
  <2> QED
      BY <2>1, <2>2
<1>7. crow \in CardRow
  <2>1. CASE p.op = "redeem"
        BY <1>2, <2>1, RedeemedRow
  <2>2. CASE p.op # "redeem"
        BY <1>2, <1>6, <2>2 DEF CardRow
  <2> QED
      BY <2>1, <2>2
<1>8. /\ q \in TxRecord /\ q.next = next /\ q.lic = p.lic /\ q.waits = NULL
      /\ q.crow = crow /\ q.lrow = p.lrow
      /\ q.op = p.op /\ q.card = c /\ q.from = p.from /\ q.to = p.to
  <2>1. next \in {"license", "commit"}
        OBVIOUS
  <2> HIDE DEF p, next, crow
  <2> QED
      BY <1>2, <1>7, <2>1 DEF TxRecord
<1>9. CardVersion(q)
  <2> HIDE DEF q
  <2> QED
      BY <1>2, <1>5, <1>6, <1>8 DEF CardVersion, Redeemed, Moved
<1> HIDE DEF q, crow
<1>10. Intended(q) /\ Knows(q)
       BY <1>2, <1>8 DEF Intended, Knows
<1>11. p.op = "license action" => p.from = "any"
       BY <1>1, <1>2 DEF Knows
<1>12. HoldsCard(q) /\ ~HoldsCard(p)
       BY <1>1, <1>2, <1>8, <1>11 DEF HoldsCard
<1>13. HoldsLicense(q) <=> HoldsLicense(p)
       BY <1>1, <1>2, <1>8 DEF HoldsLicense
<1>14. HoldsLicense(q) => LicenseVersion(q)
  <2>1. HoldsLicense(q) => LicenseVersion(p) /\ p.op # "card action"
        BY <1>1, <1>13 DEF RowsInv, Sound, HoldsLicense
  <2> QED
      BY <1>8, <2>1 DEF LicenseVersion, Switched
<1>15. /\ holder' \in [Cards \cup Licenses -> RowTx \cup {NULL}]
       /\ \A z \in Cards \cup Licenses :
             holder'[z] # holder[z] => holder[z] \in {t, NULL} /\ holder'[z] \in {t, NULL}
       /\ \A z \in Cards \cup Licenses : holder'[z] = t <=> Holds(q, z)
  <2>1. \A z \in Cards \cup Licenses : holder'[z] = t <=> (z = c \/ holder[z] = t)
        BY <1>1, <1>2, TakingOne
  <2>2. /\ holder' \in [Cards \cup Licenses -> RowTx \cup {NULL}]
        /\ \A z \in Cards \cup Licenses :
             holder'[z] # holder[z] => holder[z] \in {t, NULL} /\ holder'[z] \in {t, NULL}
        BY <1>1, <1>2, TakingOne
  <2>3. \A z : Holds(q, z) <=> (z = c \/ Holds(p, z))
        BY <1>8, <1>12, <1>13 DEF Holds
  <2> QED
      BY <2>1, <2>2, <2>3, HolderOnly
<1> QED
    BY <1>1, <1>4, <1>8, <1>9, <1>10, <1>12, <1>14, <1>15, QuietStep

LEMMA LicenseStep ==
    ASSUME RowsInv, NEW t \in RowTx, TakeLicense(t)
    PROVE  RowsInv'
<1> DEFINE p == tx[t]
           l == p.lic
           next == IF p.op = "redeem" \/ (p.op = "license action" /\ p.from = "any")
                   THEN "card" ELSE "commit"
           lrow == IF p.op \in {"activate", "redeem"} THEN lic[l]
                   ELSE [lic[l] EXCEPT !.status = IF p.op = "card action" /\ p.to = "unused"
                                                  THEN "active" ELSE p.to]
           q == [p EXCEPT !.waits = NULL, !.next = next, !.lrow = lrow]
<1>1. /\ p.next = "license" /\ Free(t) /\ Finds(t) /\ Accepts(t)
      /\ UNCHANGED <<card, lic>> /\ holder' = [holder EXCEPT ![l] = t]
      BY DEF TakeLicense
<1>2. /\ p \in TxRecord /\ Intended(p) /\ Knows(p) /\ p.card \in Cards
      /\ l \in Licenses /\ holder[l] = NULL /\ l # NULL
      /\ p.op \in {"activate", "redeem", "card action", "license action"}
      /\ lic[l] \in LicRow
  <2>1. /\ p \in TxRecord /\ Intended(p) /\ Knows(p) /\ p.card \in Cards
        /\ l \in Licenses /\ holder[l] = NULL /\ p.op # "none"
        BY <1>1, FreeRow
  <2>2. l # NULL
        BY <2>1, RowBounds
  <2>3. p.op \in {"activate", "redeem", "card action", "license action"}
        BY <2>1, RecordFields
  <2>4. lic[l] \in LicRow
        BY <2>1 DEF RowsInv, RowTypeOK
  <2> QED
      BY <2>1, <2>2, <2>3, <2>4
<1>3. p.op = "card action" => holder[p.card] = t
  <2>1. p.op = "card action" => Holds(p, p.card)
        BY <1>1 DEF Holds, HoldsCard
  <2> QED
      BY <1>2, <2>1, HolderOnly
<1>4. tx' = [tx EXCEPT ![t] = q]
  <2>1. tx' = [tx EXCEPT
                  ![t].waits = NULL,
                  ![t].next = IF \/ p.op = "redeem"
                                 \/ p.op = "license action" /\ p.from = "any"
                                 \/ p.op = "card action" /\ holder[p.card] # t
                              THEN "card" ELSE "commit",
                  ![t].lrow = lrow]
        BY DEF TakeLicense
  <2> HIDE DEF lrow
  <2> QED
      BY <1>3, <2>1
<1>5. p.op \in {"card action", "license action"} =>
          p.to \in {"unused", "active", "frozen", "revoked", "voided"}
      BY <1>2 DEF Intended, LicTerminal
<1>6. lrow \in LicRow
  <2>1. p.op = "license action" => p.to # "unused"
        BY <1>2 DEF Intended, LicTerminal
  <2> QED
      BY <1>2, <1>5, <2>1 DEF LicRow
<1>7. /\ q \in TxRecord /\ q.next = next /\ q.lic = l /\ q.waits = NULL
      /\ q.crow = p.crow /\ q.lrow = lrow
      /\ q.op = p.op /\ q.card = p.card /\ q.from = p.from /\ q.to = p.to
  <2>1. next \in {"card", "commit"}
        OBVIOUS
  <2> HIDE DEF p, next, lrow
  <2> QED
      BY <1>2, <1>6, <2>1 DEF TxRecord
<1>8. LicenseVersion(q)
  <2>1. CASE p.op \in {"activate", "redeem"}
        BY <1>7, <2>1 DEF LicenseVersion
  <2>2. CASE p.op = "license action"
    <3>1. IF p.from = "any" THEN lic[l].status \notin LicTerminal ELSE lic[l].status = p.from
          BY <1>1, <2>2 DEF Finds
    <3> QED
        BY <1>7, <2>2, <3>1 DEF LicenseVersion, Switched
  <2>3. CASE p.op = "card action"
    <3>1. IF p.from = "any" THEN lic[l].status \notin LicTerminal
          ELSE lic[l].status = IF p.to = "frozen" THEN "active" ELSE "frozen"
      <4>1. CASE p.from = "any"
            BY <1>1, <2>3, <4>1 DEF Finds
      <4>2. CASE p.from # "any"
            BY <1>1, <2>3, <4>2 DEF Finds
      <4> QED
          BY <4>1, <4>2
    <3> QED
        BY <1>7, <2>3, <3>1 DEF LicenseVersion, Switched
  <2> QED
      BY <1>2, <2>1, <2>2, <2>3
<1>9. CardVersion(p) => CardVersion(q)
      BY <1>1, <1>7 DEF CardVersion, Issued, Met, Redeemed, Moved
<1> HIDE DEF q, lrow
<1>10. Intended(q) /\ Knows(q)
       BY <1>1, <1>2, <1>7 DEF Intended, Knows
<1>11. HoldsCard(q) <=> HoldsCard(p)
       BY <1>1, <1>2, <1>7 DEF HoldsCard
<1>12. HoldsLicense(q) /\ ~HoldsLicense(p)
       BY <1>1, <1>2, <1>7 DEF HoldsLicense
<1>13. HoldsCard(q) => CardVersion(q)
       BY <1>9, <1>11 DEF RowsInv, Sound
<1>14. /\ holder' \in [Cards \cup Licenses -> RowTx \cup {NULL}]
       /\ \A z \in Cards \cup Licenses :
             holder'[z] # holder[z] => holder[z] \in {t, NULL} /\ holder'[z] \in {t, NULL}
       /\ \A z \in Cards \cup Licenses : holder'[z] = t <=> Holds(q, z)
  <2>1. \A z \in Cards \cup Licenses : holder'[z] = t <=> (z = l \/ holder[z] = t)
        BY <1>1, <1>2, TakingOne
  <2>2. /\ holder' \in [Cards \cup Licenses -> RowTx \cup {NULL}]
        /\ \A z \in Cards \cup Licenses :
             holder'[z] # holder[z] => holder[z] \in {t, NULL} /\ holder'[z] \in {t, NULL}
        BY <1>1, <1>2, TakingOne
  <2>3. \A z : Holds(q, z) <=> (z = l \/ Holds(p, z))
        BY <1>7, <1>11, <1>12 DEF Holds
  <2> QED
      BY <2>1, <2>2, <2>3, HolderOnly
<1> QED
    BY <1>1, <1>4, <1>7, <1>8, <1>10, <1>13, <1>14, QuietStep

-----------------------------------------------------------------------------
(***************************************************************************)
(* The commit.                                                             *)
(***************************************************************************)

\* What the card a transaction commits has to do with the one it replaces.
LEMMA CommittedCard ==
    ASSUME RowsInv, NEW t \in RowTx, tx[t].next = "commit", HoldsCard(tx[t])
    PROVE  LET q == tx[t]
           IN  /\ q.crow \in CardRow /\ q.card \in Cards
               /\ card[q.card].activated => q.crow.activated
               /\ q.crow.activated => q.crow.license # NULL
               /\ q.crow.status = "active" => q.crow.activated
               /\ \/ q.crow.license = card[q.card].license
                  \/ HoldsLicense(q) /\ q.crow.license = q.lic
                     /\ q.lrow.status # "none" /\ q.lrow.origin = q.card
<1> DEFINE q == tx[t]
<1>1. q \in TxRecord /\ Intended(q) /\ Knows(q) /\ CardVersion(q)
      BY DEF RowsInv, RowTypeOK, Sound
<1>2. /\ q.crow \in CardRow /\ q.card \in Cards /\ q.op \in RowOps
      /\ card[q.card] \in CardRow
      BY <1>1, HeldRows, RecordFields DEF RowOps, RowsInv, RowTypeOK
<1>3. /\ card[q.card].activated => card[q.card].license # NULL
      /\ card[q.card].status = "active" => card[q.card].activated
      BY <1>2 DEF RowsInv, RowsLinked
<1>4. CASE q.op = "activate"
  <2>1. HoldsLicense(q) /\ q.lic # NULL
        BY <1>1, <1>4 DEF HoldsLicense, Knows
  <2>2. CASE Issued(q)
        BY <1>2, <2>1, <2>2 DEF Issued
  <2>3. CASE Met(q)
        BY <1>2, <1>3, <2>3 DEF Met
  <2> QED
      BY <1>1, <1>4, <2>2, <2>3 DEF CardVersion
<1>5. CASE q.op = "redeem"
  <2>1. /\ q.crow.status = "depleted" /\ q.crow.license = card[q.card].license
        /\ q.crow.activated = card[q.card].activated
        BY <1>1, <1>2, <1>5 DEF CardVersion, Redeemed, CardRow
  <2> QED
      BY <1>2, <1>3, <2>1
<1>6. CASE q.op \in {"card action", "license action"}
  <2>1. /\ q.crow.status = q.to /\ q.crow.license = card[q.card].license
        /\ q.crow.activated = card[q.card].activated
        BY <1>1, <1>2, <1>6 DEF CardVersion, Moved, CardRow
  <2>2. q.to = "active" => card[q.card].activated
    <3>1. CASE q.op = "card action"
          BY <1>1, <3>1 DEF Knows
    <3>2. CASE q.op = "license action"
          BY <1>1, <3>2 DEF Intended, LicTerminal, HoldsCard
    <3> QED
        BY <1>6, <3>1, <3>2
  <2> QED
      BY <1>2, <1>3, <2>1, <2>2
<1> QED
    BY <1>2, <1>4, <1>5, <1>6 DEF RowOps

LEMMA CommittedLicense ==
    ASSUME RowsInv, NEW t \in RowTx, tx[t].next = "commit", HoldsLicense(tx[t])
    PROVE  LET q == tx[t]
           IN  /\ q.lrow \in LicRow /\ q.lic \in Licenses
               /\ q.lrow.status # "none" /\ q.lrow.origin \in Cards \ RenewalCards
               /\ lic[q.lic].status # "none" => q.lrow.origin = lic[q.lic].origin
<1> DEFINE q == tx[t]
<1>1. q \in TxRecord /\ Intended(q) /\ Knows(q) /\ LicenseVersion(q)
      BY DEF RowsInv, RowTypeOK, Sound
<1>2. /\ q.lrow \in LicRow /\ q.lic \in Licenses /\ q.op \in RowOps /\ q.card \in Cards
      /\ lic[q.lic] \in LicRow
  <2>1. q.lrow \in LicRow /\ q.lic \in Licenses /\ q.op \in RowOps
        BY <1>1, HeldRows, RecordFields DEF RowOps
  <2>2. q.card \in Cards
        BY <1>1, <2>1 DEF Knows, RowOps
  <2> QED
      BY <2>1, <2>2 DEF RowsInv, RowTypeOK
<1>3. lic[q.lic].status # "none" => lic[q.lic].origin \in Cards \ RenewalCards
      BY <1>2 DEF RowsInv, RowsLinked
<1>4. CASE q.op = "activate"
  <2>1. CardVersion(q) /\ q.card \notin RenewalCards
        BY <1>1, <1>4 DEF RowsInv, Sound, HoldsCard, Knows
  <2>2. CASE Issued(q)
        BY <1>2, <2>1, <2>2 DEF Issued
  <2>3. CASE Met(q)
    <3>1. q.lrow = lic[q.lic] /\ card[q.card].license = q.lic
          BY <2>3 DEF Met
    <3>2. q.lic # NULL
          BY <1>2, RowBounds
    <3>3. lic[q.lic].status # "none"
          BY <1>2, <3>1, <3>2 DEF RowsInv, RowsLinked
    <3> QED
        BY <1>2, <1>3, <3>1, <3>3
  <2> QED
      BY <1>4, <2>1, <2>2, <2>3 DEF CardVersion
<1>5. CASE q.op = "redeem"
  <2>1. q.lrow = lic[q.lic] /\ lic[q.lic].status # "none"
        BY <1>1, <1>5 DEF LicenseVersion, Knows
  <2> QED
      BY <1>2, <1>3, <2>1
<1>6. CASE q.op \in {"card action", "license action"}
  <2>1. lic[q.lic].status # "none"
    <3>1. q.lic # NULL
          BY <1>2, RowBounds
    <3> QED
        BY <1>1, <1>6, <3>1 DEF Knows
  <2>2. q.lrow.status # "none" /\ q.lrow.origin = lic[q.lic].origin
    <3>1. q.to \in {"unused", "active", "frozen", "revoked", "voided"}
          BY <1>1, <1>6 DEF Intended, LicTerminal
    <3>2. \E to \in {"unused", "active", "frozen", "revoked", "voided"} :
              q.lrow = [lic[q.lic] EXCEPT !.status = to]
          BY <1>1, <1>6, <3>1 DEF LicenseVersion, Switched
    <3> QED
        BY <1>2, <3>2 DEF LicRow
  <2> QED
      BY <1>2, <1>3, <2>1, <2>2
<1> QED
    BY <1>2, <1>4, <1>5, <1>6 DEF RowOps

\* The rows after a commit.
LEMMA CommittedRows ==
    ASSUME RowsInv, NEW t \in RowTx, CommitTx(t)
    PROVE  LET q == tx[t]
           IN  /\ q.next = "commit" /\ q \in TxRecord
               /\ card' = [c \in Cards |-> IF HoldsCard(q) /\ c = q.card THEN q.crow ELSE card[c]]
               /\ lic' = [l \in Licenses |->
                             IF HoldsLicense(q) /\ l = q.lic THEN q.lrow ELSE lic[l]]
<1> DEFINE q == tx[t]
<1>1. q.next = "commit" /\ q \in TxRecord
      BY DEF CommitTx, RowsInv, RowTypeOK
<1>2. \A x \in Cards \cup Licenses :
          holder[x] = t <=> (HoldsCard(q) /\ x = q.card) \/ (HoldsLicense(q) /\ x = q.lic)
      BY HolderOnly DEF Holds
<1>3. q.card \in Cards \cup {NULL} /\ q.lic \in Licenses \cup {NULL}
      BY <1>1, RecordFields
<1>4. \A c \in Cards : holder[c] = t <=> HoldsCard(q) /\ c = q.card
      BY <1>2, <1>3, RowBounds
<1>5. \A l \in Licenses : holder[l] = t <=> HoldsLicense(q) /\ l = q.lic
      BY <1>2, <1>3, RowBounds
<1>6. /\ card' = [c \in Cards |-> IF holder[c] = t THEN q.crow ELSE card[c]]
      /\ lic' = [l \in Licenses |-> IF holder[l] = t THEN q.lrow ELSE lic[l]]
      BY DEF CommitTx
<1> QED
    BY <1>1, <1>4, <1>5, <1>6

LEMMA CommitStep ==
    ASSUME RowsInv, NEW t \in RowTx, CommitTx(t)
    PROVE  RowsInv'
<1> DEFINE q == tx[t]
<1>1. RowTypeOK /\ RowsLinked
      BY DEF RowsInv
<1>2. /\ q.next = "commit" /\ q \in TxRecord
      /\ card' = [c \in Cards |-> IF HoldsCard(q) /\ c = q.card THEN q.crow ELSE card[c]]
      /\ lic' = [l \in Licenses |-> IF HoldsLicense(q) /\ l = q.lic THEN q.lrow ELSE lic[l]]
      BY CommittedRows
<1>3. HoldsCard(q) =>
          /\ q.crow \in CardRow /\ q.card \in Cards
          /\ card[q.card].activated => q.crow.activated
          /\ q.crow.activated => q.crow.license # NULL
          /\ q.crow.status = "active" => q.crow.activated
          /\ \/ q.crow.license = card[q.card].license
             \/ HoldsLicense(q) /\ q.crow.license = q.lic
                /\ q.lrow.status # "none" /\ q.lrow.origin = q.card
      BY <1>2, CommittedCard
<1>4. HoldsLicense(q) =>
          /\ q.lrow \in LicRow /\ q.lic \in Licenses
          /\ q.lrow.status # "none" /\ q.lrow.origin \in Cards \ RenewalCards
          /\ lic[q.lic].status # "none" => q.lrow.origin = lic[q.lic].origin
      BY <1>2, CommittedLicense
<1>5. /\ holder' = [x \in Cards \cup Licenses |-> IF holder[x] = t THEN NULL ELSE holder[x]]
      /\ tx' = [tx EXCEPT ![t] = NoTx]
      BY DEF CommitTx, EndTx
<1> HIDE DEF q
<1>6. RowTypeOK'
  <2>1. card' \in [Cards -> CardRow]
        BY <1>1, <1>2, <1>3 DEF RowTypeOK
  <2>2. lic' \in [Licenses -> LicRow]
        BY <1>1, <1>2, <1>4 DEF RowTypeOK
  <2>3. holder' \in [Cards \cup Licenses -> RowTx \cup {NULL}] /\ tx' \in [RowTx -> TxRecord]
        BY <1>1, <1>5, NoTxTyped DEF RowTypeOK
  <2> QED
      BY <2>1, <2>2, <2>3 DEF RowTypeOK
<1>7. \A l \in Licenses : lic[l].status # "none" =>
          lic'[l].status # "none" /\ lic'[l].origin = lic[l].origin
      BY <1>2, <1>4
<1>8. \A c \in Cards : card[c].activated => card'[c].activated
      BY <1>2, <1>3
<1>9. RowsLinked'
  <2>1. ASSUME NEW c \in Cards
        PROVE  /\ card'[c].license # NULL => lic'[card'[c].license].status # "none"
                                            /\ lic'[card'[c].license].origin = c
               /\ card'[c].activated => card'[c].license # NULL
               /\ card'[c].status = "active" => card'[c].activated
    <3>1. CASE ~(HoldsCard(q) /\ c = q.card)
      <4>1. card'[c] = card[c]
            BY <1>2, <3>1
      <4>2. card[c].license \in Licenses \cup {NULL}
            BY <1>1 DEF RowTypeOK, CardRow
      <4> QED
          BY <1>1, <1>7, <4>1, <4>2 DEF RowsLinked
    <3>2. CASE HoldsCard(q) /\ c = q.card
      <4>1. card'[c] = q.crow
            BY <1>2, <3>2
      <4>2. CASE q.crow.license = card[c].license
        <5>1. card[c].license \in Licenses \cup {NULL}
              BY <1>1 DEF RowTypeOK, CardRow
        <5>2. card[c].license # NULL => lic[card[c].license].status # "none"
                                        /\ lic[card[c].license].origin = c
              BY <1>1 DEF RowsLinked
        <5> QED
            BY <1>3, <1>7, <3>2, <4>1, <4>2, <5>1, <5>2
      <4>3. CASE HoldsLicense(q) /\ q.crow.license = q.lic
                 /\ q.lrow.status # "none" /\ q.lrow.origin = q.card
        <5>1. lic'[q.lic] = q.lrow
              BY <1>2, <1>4, <4>3
        <5> QED
            BY <1>3, <3>2, <4>1, <4>3, <5>1
      <4> QED
          BY <1>3, <3>2, <4>2, <4>3
    <3> QED
        BY <3>1, <3>2
  <2>2. ASSUME NEW l \in Licenses
        PROVE  lic'[l].status # "none" => lic'[l].origin \in Cards \ RenewalCards
        BY <1>1, <1>2, <1>4 DEF RowsLinked
  <2> QED
      BY <2>1, <2>2 DEF RowsLinked
<1>10. Sound(t, tx[t])'
  <2>1. tx'[t] = NoTx
        BY <1>1, <1>5 DEF RowTypeOK
  <2>2. \A x \in Cards \cup Licenses : holder'[x] # t
        BY <1>5, RowBounds
  <2>3. ~HoldsCard(NoTx)' /\ ~HoldsLicense(NoTx)' /\ \A x : ~Holds(NoTx, x)'
        BY NoTxTyped DEF HoldsCard, HoldsLicense, Holds
  <2>4. Intended(NoTx)' /\ Knows(NoTx)'
        BY NoTxTyped DEF Intended, Knows
  <2> QED
      BY <2>1, <2>2, <2>3, <2>4 DEF Sound
<1>11. ASSUME NEW u \in RowTx \ {t} PROVE Sound(u, tx[u])'
  <2>1. Sound(u, tx[u]) /\ tx'[u] = tx[u]
        BY <1>1, <1>5 DEF RowsInv, RowTypeOK
  <2>2. \A x \in Cards \cup Licenses : holder'[x] = u <=> holder[x] = u
        BY <1>5, RowBounds
  <2>3. /\ \A c \in Cards : holder[c] = u => card'[c] = card[c]
        /\ \A l \in Licenses : holder[l] = u => lic'[l] = lic[l]
        BY DEF CommitTx
  <2> QED
      BY <1>1, <1>7, <1>8, <2>1, <2>2, <2>3, OthersSound
<1> QED
    BY <1>6, <1>9, <1>10, <1>11 DEF RowsInv

-----------------------------------------------------------------------------
LEMMA RowsInvStep == RowsInv /\ [RowNext]_rowVars => RowsInv'
<1> SUFFICES ASSUME RowsInv, [RowNext]_rowVars PROVE RowsInv'
    OBVIOUS
<1>1. ASSUME NEW t \in RowTx, BeginTx(t) PROVE RowsInv'
      BY <1>1, ActivateStep, RedeemStep, CardActionStep, LicenseActionStep DEF BeginTx
<1>2. ASSUME NEW t \in RowTx, TakeRow(t) PROVE RowsInv'
      BY <1>2, UnusedStep, ActiveStep, CardStep, LicenseStep DEF TakeRow
<1>3. ASSUME NEW t \in RowTx, Rollback(t) \/ AbortDeadlock(t) \/ GiveUpTx(t) PROVE RowsInv'
      BY <1>3, EndStep DEF Rollback, AbortDeadlock, GiveUpTx
<1>4. CASE UNCHANGED rowVars
  <2>1. UNCHANGED <<card, lic, holder, tx>>
        BY <1>4 DEF rowVars
  <2>2. RowTypeOK' /\ RowsLinked'
        BY <2>1 DEF RowsInv, RowTypeOK, RowsLinked
  <2>3. ASSUME NEW u \in RowTx PROVE Sound(u, tx[u])'
        BY <2>1, OthersSound DEF RowsInv
  <2> QED
      BY <2>2, <2>3 DEF RowsInv
<1> QED
    BY <1>1, <1>2, <1>3, <1>4, WaitStep, CommitStep DEF RowNext

\* Every transaction in flight knows what it has locked, and the committed rows are
\* linked, whatever the order of the statements.
THEOREM RowsInvariant == RowSpec => []RowsInv
  <1> QED
    BY RowsInvInit, RowsInvStep, PTL DEF RowSpec

\* Type correctness of the rows, their locks and the transactions.
THEOREM RowTypes == RowSpec => []RowTypeOK
  <1>1. RowsInv => RowTypeOK
    BY DEF RowsInv
  <1> QED
    BY RowsInvariant, <1>1, PTL

-----------------------------------------------------------------------------
(***************************************************************************)
(* The card ledger.                                                        *)
(***************************************************************************)

RowLedgerStep == RowLedger!Next \/ UNCHANGED RowLedger!ledgerVars

LEMMA LedgerActions ==
    /\ \A c \in Cards, l \in Licenses : RowLedger!Issue(c, l) => RowLedgerStep
    /\ \A c \in Cards : RowLedger!Redeem(c) => RowLedgerStep
    /\ \A c \in Cards, l \in Licenses \cup {NULL} :
          RowLedger!Suspend(c, l) \/ RowLedger!Resume(c, l) \/ RowLedger!Retire(c, l)
              => RowLedgerStep
    /\ \A l \in Licenses : RowLedger!SwitchLicense(l) => RowLedgerStep
BY DEF RowLedgerStep, RowLedger!Next

\* A commit is one step of the ledger, or of none of its columns.
LEMMA CommitIsLedgerStep ==
    ASSUME RowsInv, NEW t \in RowTx, CommitTx(t)
    PROVE  RowLedgerStep
<1> DEFINE q == tx[t]
<1>1. /\ Intended(q) /\ Knows(q) /\ q \in TxRecord /\ q.next = "commit"
      /\ HoldsCard(q) => CardVersion(q)
      /\ HoldsLicense(q) => LicenseVersion(q)
      BY CommittedRows DEF RowsInv, Sound
<1>2. PICK c \in Cards, l \in Licenses \cup {NULL},
           to \in {"any", "unused", "active", "frozen", "revoked", "voided"} :
               c = q.card /\ l = q.lic /\ to = q.to
      BY <1>1, HeldRows, RecordFields DEF Knows
<1>3. /\ q.op \in RowOps
      /\ card[c] \in CardRow /\ (l \in Licenses => lic[l] \in LicRow)
      BY <1>1, HeldRows, RecordFields DEF RowOps, RowsInv, RowTypeOK
<1>4. /\ card' = [x \in Cards |-> IF HoldsCard(q) /\ x = c THEN q.crow ELSE card[x]]
      /\ lic' = [x \in Licenses |-> IF HoldsLicense(q) /\ x = l THEN q.lrow ELSE lic[x]]
      BY <1>2, CommittedRows
<1>5. ~HoldsCard(q) => card' = card
      BY <1>4 DEF RowsInv, RowTypeOK
<1>6. ~HoldsLicense(q) => lic' = lic
      BY <1>4 DEF RowsInv, RowTypeOK
<1>7. HoldsCard(q) /\ Moved(q) =>
          /\ RowLedger!SetCard(c, to)
          /\ [x \in Cards |-> card'[x].license] = [x \in Cards |-> card[x].license]
          /\ [x \in Cards |-> card'[x].renewed] = [x \in Cards |-> card[x].renewed]
  <2>1. SUFFICES ASSUME HoldsCard(q), Moved(q)
                 PROVE  /\ RowLedger!SetCard(c, to)
                        /\ \A x \in Cards : /\ card'[x].license = card[x].license
                                           /\ card'[x].renewed = card[x].renewed
        OBVIOUS
  <2>2. q.crow = [card[c] EXCEPT !.status = to]
        BY <1>2, <2>1 DEF Moved
  <2>3. /\ q.crow.status = to /\ q.crow.license = card[c].license
        /\ q.crow.renewed = card[c].renewed
        BY <1>3, <2>2 DEF CardRow
  <2> QED
      BY <1>4, <2>1, <2>3 DEF RowLedger!SetCard
<1>8. ASSUME HoldsLicense(q), l \in Licenses, NEW s, q.lrow = [lic[l] EXCEPT !.status = s]
      PROVE  /\ [x \in Licenses |-> lic'[x].status] =
                    [[x \in Licenses |-> lic[x].status] EXCEPT ![l] = s]
             /\ [x \in Licenses |-> lic'[x].origin] = [x \in Licenses |-> lic[x].origin]
      BY <1>3, <1>4, <1>8 DEF LicRow
<1>9. CASE q.op = "activate"
  <2>1. HoldsCard(q) /\ HoldsLicense(q) /\ l \in Licenses
        BY <1>1, <1>2, <1>9, HeldRows DEF HoldsCard, HoldsLicense
  <2>2. CASE Issued(q)
    <3> HIDE DEF q
    <3>1. /\ card[c].status = "unused" /\ lic[l].status = "none"
          /\ q.crow.status \in {"active", "depleted"} /\ q.crow.license = l
          /\ q.crow.renewed = card[c].renewed
          /\ q.lrow.status = "active" /\ q.lrow.origin = c
          BY <1>2, <2>2 DEF Issued
    <3>2. /\ card' = [x \in Cards |-> IF x = c THEN q.crow ELSE card[x]]
          /\ lic' = [x \in Licenses |-> IF x = l THEN q.lrow ELSE lic[x]]
          BY <1>4, <2>1
    <3> PICK s \in {"active", "depleted"} : s = q.crow.status
        BY <3>1
    <3>3. /\ RowLedger!SetCard(c, s)
          /\ [x \in Cards |-> card'[x].license] =
                [[x \in Cards |-> card[x].license] EXCEPT ![c] = l]
          /\ [x \in Cards |-> card'[x].renewed] = [x \in Cards |-> card[x].renewed]
          BY <3>1, <3>2 DEF RowLedger!SetCard
    <3>4. /\ [x \in Licenses |-> lic'[x].status] =
                [[x \in Licenses |-> lic[x].status] EXCEPT ![l] = "active"]
          /\ [x \in Licenses |-> lic'[x].origin] =
                [[x \in Licenses |-> lic[x].origin] EXCEPT ![l] = c]
          BY <3>1, <3>2
    <3>5. \E x \in {"active", "depleted"} : RowLedger!SetCard(c, x)
          BY <3>3
    <3>6. /\ [x \in Cards |-> card[x].status][c] = "unused"
          /\ [x \in Licenses |-> lic[x].status][l] = "none"
          BY <2>1, <3>1
    <3>7. RowLedger!Issue(c, l)
          BY <3>3, <3>4, <3>5, <3>6 DEF RowLedger!Issue
    <3> QED
        BY <2>1, <3>7, LedgerActions
  <2>3. CASE Met(q)
    <3>1. card' = card /\ lic' = lic
          BY <1>1, <1>2, <1>4, <2>1, <2>3 DEF Met, RowsInv, RowTypeOK
    <3> QED
        BY <3>1 DEF RowLedgerStep, RowLedger!ledgerVars
  <2> QED
      BY <1>1, <1>9, <2>1, <2>2, <2>3 DEF CardVersion
<1>10. CASE q.op = "redeem"
  <2>1. HoldsCard(q) /\ HoldsLicense(q) /\ l \in Licenses
        BY <1>1, <1>2, <1>10, HeldRows DEF HoldsCard, HoldsLicense
  <2>2. /\ card[c].status = "unused" /\ q.lrow = lic[l]
        /\ q.crow.status = "depleted" /\ q.crow.license = card[c].license
        /\ q.crow.renewed = card[c].renewed + 1
        BY <1>1, <1>2, <1>3, <1>10, <2>1 DEF CardVersion, LicenseVersion, Redeemed, CardRow
  <2>3. /\ card' = [x \in Cards |-> IF x = c THEN q.crow ELSE card[x]]
        /\ lic' = lic
        BY <1>1, <1>2, <1>4, <2>1, <2>2 DEF RowsInv, RowTypeOK
  <2>4. /\ RowLedger!SetCard(c, "depleted")
        /\ [x \in Cards |-> card'[x].license] = [x \in Cards |-> card[x].license]
        /\ [x \in Cards |-> card'[x].renewed] =
              [[x \in Cards |-> card[x].renewed] EXCEPT ![c] = @ + 1]
        BY <2>2, <2>3 DEF RowLedger!SetCard
  <2>5. RowLedger!Redeem(c)
        BY <2>2, <2>3, <2>4 DEF RowLedger!Redeem
  <2> QED
      BY <2>5, LedgerActions
<1>11. CASE q.op = "card action"
  <2>1. HoldsCard(q) /\ Moved(q)
        BY <1>1, <1>11 DEF HoldsCard, CardVersion
  <2>2. /\ q.from # "any" => card[c].status = q.from
        /\ q.from = "any" => card[c].status \in {"unused", "active", "frozen"}
        BY <1>2, <1>3, <2>1 DEF Moved, CardRow, CardTerminal
  <2>3. ASSUME NEW from, NEW s, l # NULL => lic[l].status \in from,
               l # NULL => q.lrow = [lic[l] EXCEPT !.status = s]
        PROVE  /\ RowLedger!SetLicenseOf(c, l, from, s)
               /\ [x \in Licenses |-> lic'[x].origin] = [x \in Licenses |-> lic[x].origin]
    <3>1. CASE l = NULL
      <4>1. lic' = lic
            BY <1>2, <1>6, <1>11, <3>1 DEF HoldsLicense, HoldsCard, CardVersion
      <4> QED
          BY <3>1, <4>1 DEF RowLedger!SetLicenseOf
    <3>2. CASE l # NULL
      <4>1. HoldsLicense(q) /\ l \in Licenses /\ lic[l].origin = c
            BY <1>1, <1>2, <1>11, <3>2 DEF HoldsLicense, Knows
      <4> QED
          BY <1>8, <2>3, <3>2, <4>1 DEF RowLedger!SetLicenseOf
    <3> QED
        BY <3>1, <3>2
  <2>4. l # NULL => Switched(q, IF to = "frozen" THEN "active" ELSE "frozen",
                                IF to = "unused" THEN "active" ELSE to)
        BY <1>1, <1>2, <1>11 DEF HoldsLicense, LicenseVersion
  <2>5. CASE q.from \in {"active", "unused"}
    <3>1. to = "frozen"
          BY <1>1, <1>2, <1>11, <2>5 DEF Intended
    <3>2. /\ RowLedger!SetLicenseOf(c, l, {"active"}, "frozen")
          /\ [x \in Licenses |-> lic'[x].origin] = [x \in Licenses |-> lic[x].origin]
          BY <1>2, <2>3, <2>4, <2>5, <3>1 DEF Switched
    <3>3. RowLedger!Suspend(c, l)
          BY <1>7, <2>1, <2>2, <2>5, <3>1, <3>2 DEF RowLedger!Suspend
    <3> QED
        BY <3>3, LedgerActions
  <2>6. CASE q.from = "frozen"
    <3>1. to \in {"active", "unused"}
          BY <1>1, <1>2, <1>11, <2>6 DEF Intended
    <3>2. /\ RowLedger!SetLicenseOf(c, l, {"frozen"}, "active")
          /\ [x \in Licenses |-> lic'[x].origin] = [x \in Licenses |-> lic[x].origin]
          BY <1>2, <2>3, <2>4, <2>6, <3>1 DEF Switched
    <3>3. RowLedger!Resume(c, l)
          BY <1>7, <2>1, <2>2, <2>6, <3>1, <3>2 DEF RowLedger!Resume
    <3> QED
        BY <3>3, LedgerActions
  <2>7. CASE q.from = "any"
    <3>1. to \in RowLedger!Terminal /\ to \notin {"unused", "frozen"}
          BY <1>1, <1>2, <1>11, <2>7 DEF Intended, LicTerminal, RowLedger!Terminal
    <3>2. l # NULL => lic[l].status \in {"active", "frozen"}
      <4>1. l # NULL => lic[l].status # "none" /\ l \in Licenses
            BY <1>1, <1>2, <1>11 DEF Knows
      <4> QED
          BY <1>2, <1>3, <2>4, <2>7, <4>1 DEF Switched, LicRow, LicTerminal
    <3>3. /\ RowLedger!SetLicenseOf(c, l, {"active", "frozen"}, to)
          /\ [x \in Licenses |-> lic'[x].origin] = [x \in Licenses |-> lic[x].origin]
          BY <1>2, <2>3, <2>4, <2>7, <3>1, <3>2 DEF Switched
    <3>4. RowLedger!Retire(c, l)
          BY <1>7, <2>1, <2>2, <2>7, <3>1, <3>3 DEF RowLedger!Retire
    <3> QED
        BY <3>4, LedgerActions
  <2> QED
      BY <1>1, <1>11, <2>5, <2>6, <2>7 DEF Intended
<1>12. CASE q.op = "license action"
  <2>1. HoldsLicense(q) /\ l \in Licenses /\ lic[l].origin = c /\ lic[l].status # "none"
        BY <1>1, <1>2, <1>12, HeldRows DEF HoldsLicense, Knows
  <2>2. Switched(q, q.from, to)
        BY <1>1, <1>2, <1>12, <2>1 DEF LicenseVersion
  <2>3. /\ [x \in Licenses |-> lic'[x].status] =
               [[x \in Licenses |-> lic[x].status] EXCEPT ![l] = to]
        /\ [x \in Licenses |-> lic'[x].origin] = [x \in Licenses |-> lic[x].origin]
        BY <1>2, <1>8, <2>1, <2>2 DEF Switched
  <2>4. CASE q.from = "any"
    <3>1. HoldsCard(q) /\ Moved(q)
          BY <1>1, <1>12, <2>4 DEF HoldsCard, CardVersion
    <3>2. /\ card[c].status \in {"unused", "active", "frozen"}
          /\ lic[l].status \in {"active", "frozen"}
          BY <1>2, <1>3, <2>1, <2>2, <2>4, <3>1
          DEF Moved, Switched, CardRow, LicRow, CardTerminal, LicTerminal
    <3>3. to \in RowLedger!Terminal
          BY <1>1, <1>2, <1>12, <2>4 DEF Intended, LicTerminal, RowLedger!Terminal
    <3>4. RowLedger!SetLicenseOf(c, l, {"active", "frozen"}, to)
          BY <2>1, <2>3, <3>2 DEF RowLedger!SetLicenseOf
    <3>5. RowLedger!Retire(c, l)
          BY <1>7, <2>3, <3>1, <3>2, <3>3, <3>4 DEF RowLedger!Retire
    <3> QED
        BY <3>5, LedgerActions
  <2>5. CASE q.from # "any"
    <3>1. card' = card
          BY <1>1, <1>5, <1>12, <2>5 DEF HoldsCard
    <3>2. lic[l].status = q.from /\ q.from # to /\ {q.from, to} = {"active", "frozen"}
          BY <1>1, <1>2, <1>12, <2>2, <2>5 DEF Switched, Intended
    <3>3. RowLedger!SwitchLicense(l)
          BY <2>1, <2>3, <3>1, <3>2 DEF RowLedger!SwitchLicense
    <3> QED
        BY <2>1, <3>3, LedgerActions
  <2> QED
      BY <2>4, <2>5
<1> QED
    BY <1>3, <1>9, <1>10, <1>11, <1>12 DEF RowOps

LEMMA RowStepIsLedgerStep == RowsInv /\ [RowNext]_rowVars => [RowLedger!Next]_(RowLedger!ledgerVars)
<1> SUFFICES ASSUME RowsInv, [RowNext]_rowVars PROVE RowLedgerStep
    BY DEF RowLedgerStep
<1>1. ASSUME NEW t \in RowTx, BeginTx(t) \/ WaitForRow(t) \/ TakeRow(t) \/ Rollback(t)
                               \/ AbortDeadlock(t) \/ GiveUpTx(t)
      PROVE  UNCHANGED <<card, lic>>
      BY <1>1 DEF BeginTx, BeginActivateTx, BeginRedeemTx, BeginCardActionTx,
                  BeginLicenseActionTx, Begin, WaitForRow, TakeRow, TakeUnusedCard,
                  TakeActiveCard, TakeCard, TakeLicense, Rollback, AbortDeadlock, GiveUpTx
<1>2. UNCHANGED <<card, lic>> => RowLedgerStep
      BY DEF RowLedgerStep, RowLedger!ledgerVars
<1> QED
    BY <1>1, <1>2, CommitIsLedgerStep DEF RowNext, rowVars

\* Statement by statement, with waits, rollbacks and deadlocks, the transactions of
\* the handlers implement the atomic card ledger (WithTx, FOR UPDATE).
THEOREM RowsAreLedgerSteps == RowSpec => RowsImplementLedger
  <1>1. RowInit => RowLedger!Init
    BY DEF RowInit, RowLedger!Init, NewCard, NoLicence
  <1> QED
    BY RowsInvariant, RowStepIsLedgerStep, <1>1, PTL DEF RowSpec, RowsImplementLedger, RowLedger!Spec

-----------------------------------------------------------------------------
(***************************************************************************)
(* Deadlocks.                                                              *)
(***************************************************************************)

\* A transaction that waits and is waited for is at its second row.
LEMMA BetweenRows ==
    ASSUME RowsInv, NEW t \in RowTx, NEW u \in RowTx, NEW v \in RowTx,
           WaitsFor(t, u), WaitsFor(v, t)
    PROVE  /\ tx[t].op \in RowOps
           /\ tx[t].next = "card" => /\ tx[t].op \in {"redeem", "license action"}
                                     /\ holder[tx[t].card] = u
           /\ tx[t].next = "license" => /\ tx[t].op \in {"activate", "card action"}
                                        /\ holder[tx[t].lic] = u
           /\ tx[t].next \in {"card", "license"}
           /\ tx[t].card \in Cards /\ (tx[t].next = "license" => tx[t].lic \in Licenses)
<1> DEFINE q == tx[t]
           x == tx[v].waits
<1>1. q \in TxRecord /\ Intended(q) /\ Knows(q)
      BY DEF RowsInv, RowTypeOK, Sound
<1>2. /\ q.next \in {"card", "license"} /\ q.op \in RowOps
      /\ holder[IF q.next = "card" THEN q.card ELSE q.lic] = u
  <2>1. q.next \in {"card", "license"}
        /\ holder[IF q.next = "card" THEN q.card ELSE q.lic] = u
        BY <1>1 DEF WaitsFor, Knows
  <2> QED
      BY <1>1, <2>1, HeldRows, RecordFields DEF RowOps
<1>3. x \in Cards \cup Licenses /\ holder[x] = t
      BY RecordFields DEF WaitsFor, RowsInv, RowTypeOK
<1>4. HoldsCard(q) \/ HoldsLicense(q)
      BY <1>3, HolderOnly DEF Holds
<1>5. /\ q.next = "card" => q.op \in {"redeem", "license action"}
      /\ q.next = "license" => q.op \in {"activate", "card action"}
      BY <1>2, <1>4 DEF HoldsCard, HoldsLicense
<1>6. q.card \in Cards /\ (q.next = "license" => q.lic \in Licenses)
      BY <1>1, <1>2, <1>5, RecordFields DEF Knows, RowOps
<1> QED
    BY <1>2, <1>5, <1>6

\* Cycles of waits need one transaction that locks the licence first, other than one
\* that renews with a renewal card, and one that locks the card first.
LEMMA BothOrders == RowsInv => DeadlocksNeedBothOrders
<1> SUFFICES ASSUME RowsInv, NEW ring \in SUBSET RowTx, ring # {}, Cyclic(ring)
             PROVE  (\E t \in ring : LicenseFirst(t)) /\ (\E t \in ring : CardFirst(t))
    BY DEF DeadlocksNeedBothOrders
<1>1. \A t \in ring : \E u \in ring, v \in ring : WaitsFor(t, u) /\ WaitsFor(v, t)
      BY DEF Cyclic
<1>2. ASSUME NEW t \in ring, tx[t].next = "card"
      PROVE  \E u \in ring : tx[u].next = "license" /\ tx[u].card = tx[t].card
  <2>1. PICK u \in ring : WaitsFor(t, u) /\ holder[tx[t].card] = u /\ tx[t].card \in Cards
        BY <1>1, <1>2, BetweenRows
  <2>2. Holds(tx[u], tx[t].card) /\ tx[u] \in TxRecord
        BY <2>1, HolderOnly DEF RowsInv, RowTypeOK
  <2>3. HoldsCard(tx[u]) /\ tx[t].card = tx[u].card
        BY <2>1, <2>2, RecordFields, RowBounds DEF Holds
  <2>4. tx[u].next \in {"card", "license"}
        BY <1>1, BetweenRows
  <2> QED
      BY <2>3, <2>4 DEF HoldsCard
<1>3. ASSUME NEW t \in ring, tx[t].next = "license"
      PROVE  \E u \in ring : tx[u].next = "card"
  <2>1. PICK u \in ring : WaitsFor(t, u) /\ holder[tx[t].lic] = u /\ tx[t].lic \in Licenses
        BY <1>1, <1>3, BetweenRows
  <2>2. Holds(tx[u], tx[t].lic) /\ tx[u] \in TxRecord
        BY <2>1, HolderOnly DEF RowsInv, RowTypeOK
  <2>3. HoldsLicense(tx[u])
        BY <2>1, <2>2, RecordFields, RowBounds DEF Holds
  <2>4. tx[u].next \in {"card", "license"}
        BY <1>1, BetweenRows
  <2> QED
      BY <2>3, <2>4 DEF HoldsLicense
<1>4. PICK t \in ring : tx[t].next = "card"
  <2>1. PICK s \in ring : tx[s].next \in {"card", "license"}
        BY <1>1, BetweenRows
  <2> QED
      BY <1>3, <2>1
<1>5. PICK u \in ring : tx[u].next = "license" /\ tx[u].card = tx[t].card
      BY <1>2, <1>4
<1>6. CardFirst(u)
      BY <1>1, <1>5, BetweenRows DEF CardFirst
<1>7. tx[t].op \in {"redeem", "license action"}
      BY <1>1, <1>4, BetweenRows
<1>8. tx[u].card \notin RenewalCards
  <2>1. /\ Knows(tx[u]) /\ tx[u] \in TxRecord
        /\ tx[u].op \in {"activate", "card action"} /\ tx[u].lic \in Licenses
        BY <1>1, <1>5, BetweenRows DEF RowsInv, RowTypeOK, Sound
  <2>2. CASE tx[u].op = "activate"
        BY <1>5, <2>1, <2>2 DEF Knows
  <2>3. CASE tx[u].op = "card action"
    <3>1. lic[tx[u].lic].status # "none" /\ lic[tx[u].lic].origin = tx[u].card
          BY <1>5, <2>1, <2>3 DEF Knows
    <3> QED
        BY <2>1, <3>1 DEF RowsInv, RowsLinked
  <2> QED
      BY <2>1, <2>2, <2>3
<1>9. LicenseFirst(t)
      BY <1>5, <1>7, <1>8 DEF LicenseFirst
<1> QED
    BY <1>6, <1>9

\* A deadlock is always between handlers that lock in different orders, however many
\* are in the cycle (adminsvc.go:414, heartbeat.go:303).
THEOREM DeadlockOrders == RowSpec => []DeadlocksNeedBothOrders
  <1> QED
    BY RowsInvariant, BothOrders, PTL
=============================================================================
