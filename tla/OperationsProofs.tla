---------------------------- MODULE OperationsProofs ----------------------------
(***************************************************************************)
(* Files of db/migrations are applied once and in order, for any number of *)
(* replicas, files and faults; and the days of a licence add up, for any   *)
(* number of extensions, renewal cards and workers.                        *)
(*                                                                         *)
(* The composition MCOperations follows one part at a time: it implements  *)
(* each of them, so what is proved of a part is true of what TLC runs.     *)
(***************************************************************************)
EXTENDS MCOperations, RowLocksProofs

LEMMA StartupBounds ==
    /\ NoReplica \notin Replicas /\ Skips \subseteq Replicas
    /\ Files \in Nat /\ Files > 0 /\ MaxFaults \in Nat
BY StartupAssumption

\* The journal so far is the files 1 to Len(journal).
Ordered ==
    /\ Len(journal) <= Files
    /\ \A i \in 1..Len(journal) : journal[i] = i

\* A replica passes over a file only when it is in the journal; one about to commit
\* a file commits the next one, and is alone with that.
Placed(b) ==
    /\ b.file <= Len(journal) + 1
    /\ b.pc \in {"apply", "insert", "commit"} => b.file <= Files
    /\ b.pc = "commit" => b.file = Len(journal) + 1
Passed(r) ==
    /\ r \in Skips => boot[r].pc \in {"down", "count", "create", "serving"}
    /\ r \notin Skips /\ boot[r].pc \in {"unlock", "count", "create", "serving"}
           => Len(journal) = Files
Alone == \A r, s \in Replicas : boot[r].pc = "commit" /\ boot[s].pc = "commit" => r = s

StartInv ==
    /\ StartTypeOK /\ Ordered /\ Alone
    /\ \A r \in Replicas : Placed(boot[r]) /\ Passed(r)

LEMMA AppliedIsBefore ==
    ASSUME StartTypeOK, Ordered, NEW f \in 1..(Files + 1)
    PROVE  Applied(f) <=> f <= Len(journal)
<1>1. Len(journal) \in Nat
      BY DEF StartTypeOK
<1> QED
    BY <1>1 DEF Applied, Ordered

\* A step of one replica that leaves the journal and the others alone.
LEMMA OneBoots ==
    ASSUME StartInv, NEW r \in Replicas, NEW b \in Boot,
           boot' = [boot EXCEPT ![r] = b], UNCHANGED journal,
           tracked' \in BOOLEAN, initialAdmin' \in BOOLEAN,
           advisory' \in Replicas \cup {NoReplica}, faults' \in Nat,
           Placed(b),
           r \in Skips => b.pc \in {"down", "count", "create", "serving"},
           r \notin Skips /\ b.pc \in {"unlock", "count", "create", "serving"}
               => Len(journal) = Files,
           b.pc = "commit" => \A s \in Replicas \ {r} : boot[s].pc # "commit"
    PROVE  StartInv'
<1>1. boot' \in [Replicas -> Boot] /\ boot'[r] = b
      /\ \A s \in Replicas \ {r} : boot'[s] = boot[s]
      BY DEF StartInv, StartTypeOK
<1>2. StartTypeOK'
      BY <1>1 DEF StartInv, StartTypeOK
<1>3. Ordered' /\ Alone'
      BY <1>1 DEF StartInv, Ordered, Alone
<1>4. ASSUME NEW s \in Replicas
      PROVE  Placed(boot[s])' /\ Passed(s)'
      BY <1>1 DEF StartInv, Placed, Passed
<1> QED
    BY <1>2, <1>3, <1>4 DEF StartInv

\* The process ends and its sessions with it.
LEMMA OneExits ==
    ASSUME StartInv, NEW r \in Replicas, ExitReplica(r), UNCHANGED journal,
           tracked' \in BOOLEAN, initialAdmin' \in BOOLEAN, faults' \in Nat
    PROVE  StartInv'
<1>1. Down \in Boot /\ Down.pc = "down" /\ Down.file = 1
      BY StartupBounds DEF Down, Boot, BootPhases
<1>2. Placed(Down)
      BY <1>1 DEF Placed, StartInv, StartTypeOK
<1>3. advisory' \in Replicas \cup {NoReplica}
      BY DEF ExitReplica, StartInv, StartTypeOK
<1> QED
    BY <1>1, <1>2, <1>3, OneBoots DEF ExitReplica

\* A commit of the next file, in order, by the only one that is about to commit.
LEMMA OneCommits ==
    ASSUME StartInv, NEW r \in Replicas, NEW b \in Boot,
           boot[r].pc = "commit",
           journal' = Append(journal, boot[r].file),
           boot' = [boot EXCEPT ![r] = b],
           tracked' \in BOOLEAN, initialAdmin' \in BOOLEAN,
           advisory' \in Replicas \cup {NoReplica}, faults' \in Nat,
           b.pc \in {"check", "down"}, b.file <= Len(journal) + 2
    PROVE  StartInv'
<1>1. boot' \in [Replicas -> Boot] /\ boot'[r] = b
      /\ \A s \in Replicas \ {r} : boot'[s] = boot[s]
      BY DEF StartInv, StartTypeOK
<1>2. boot[r].file = Len(journal) + 1 /\ Len(journal) + 1 \in 1..Files
      BY DEF StartInv, Placed, StartTypeOK
<1>3. journal \in Seq(1..Files)
      BY DEF StartInv, StartTypeOK
<1>4. /\ journal' \in Seq(1..Files) /\ Len(journal') = Len(journal) + 1
      /\ \A i \in 1..Len(journal) : journal'[i] = journal[i]
      /\ journal'[Len(journal) + 1] = Len(journal) + 1
      BY <1>2, <1>3
<1>5. StartTypeOK'
      BY <1>1, <1>4 DEF StartInv, StartTypeOK
<1>6. Ordered'
      BY <1>2, <1>3, <1>4 DEF StartInv, Ordered
<1>7. \A s \in Replicas \ {r} : boot[s].pc # "commit"
      BY DEF StartInv, Alone
<1>8. Alone'
      BY <1>1, <1>7 DEF Alone
<1>9. ASSUME NEW s \in Replicas
      PROVE  Placed(boot[s])' /\ Passed(s)'
  <2>1. r \notin Skips
        BY DEF StartInv, Passed
  <2>2. CASE s = r
        BY <1>1, <1>4, <2>1, <2>2 DEF Placed, Passed
  <2>3. CASE s # r
        BY <1>1, <1>2, <1>3, <1>4, <1>7, <2>3 DEF StartInv, Placed, Passed, StartTypeOK, Boot
  <2> QED
      BY <2>2, <2>3
<1> QED
    BY <1>5, <1>6, <1>8, <1>9 DEF StartInv

LEMMA StartInvInit == StartInit => StartInv
<1> SUFFICES ASSUME StartInit PROVE StartInv
    OBVIOUS
<1>1. Down \in Boot /\ Down.pc = "down" /\ Down.file = 1
      BY StartupBounds DEF Down, Boot, BootPhases
<1>2. journal = <<>> /\ Len(journal) = 0 /\ journal \in Seq(1..Files)
      BY DEF StartInit
<1>3. StartTypeOK
      BY <1>1, <1>2 DEF StartInit, StartTypeOK
<1>4. Ordered
      BY <1>2, StartupBounds DEF Ordered
<1>5. Alone /\ \A r \in Replicas : Placed(boot[r]) /\ Passed(r)
      BY <1>1, <1>2 DEF StartInit, Alone, Placed, Passed
<1> QED
    BY <1>3, <1>4, <1>5 DEF StartInv

\* The steps that only move a replica on, to a place where it may be.
LEMMA GoesOn ==
    ASSUME StartInv, NEW r \in Replicas, NEW pc \in BootPhases, GoOn(r, pc),
           UNCHANGED journal,
           tracked' \in BOOLEAN, initialAdmin' \in BOOLEAN,
           advisory' \in Replicas \cup {NoReplica}, faults' \in Nat,
           pc \in {"apply", "insert"} => boot[r].file <= Files,
           pc \notin {"commit"},
           r \in Skips => pc \in {"down", "count", "create", "serving"},
           r \notin Skips /\ pc \in {"unlock", "count", "create", "serving"}
               => Len(journal) = Files
    PROVE  StartInv'
<1> DEFINE b == [boot[r] EXCEPT !.pc = pc]
<1>1. boot[r] \in Boot
      BY DEF StartInv, StartTypeOK
<1>2. b \in Boot /\ b.pc = pc /\ b.file = boot[r].file
      BY <1>1 DEF Boot
<1>3. boot' = [boot EXCEPT ![r] = b]
      BY DEF GoOn
<1>4. Placed(b)
      BY <1>2 DEF StartInv, Placed
<1> HIDE DEF b
<1> QED
    BY <1>2, <1>3, <1>4, OneBoots

LEMMA StartInvStep ==
    ASSUME StartInv, NEW r \in Replicas,
           Boots(r) \/ CrashReplica(r) \/ LockConnectionLost(r)
    PROVE  StartInv'
<1>1. /\ boot[r] \in Boot /\ boot \in [Replicas -> Boot]
      /\ tracked \in BOOLEAN /\ initialAdmin \in BOOLEAN
      /\ advisory \in Replicas \cup {NoReplica} /\ faults \in Nat
      /\ Len(journal) \in Nat /\ Len(journal) <= Files
      /\ boot[r].file \in 1..(Files + 1) /\ boot[r].pc \in BootPhases
      /\ Placed(boot[r]) /\ Passed(r)
      BY DEF StartInv, StartTypeOK, Ordered, Boot
<1>2. CASE Start(r)
      BY <1>1, <1>2, GoesOn DEF Start, BootPhases
<1>3. CASE EnsureSchemaMigrations(r)
      BY <1>1, <1>3, GoesOn DEF EnsureSchemaMigrations, At, BootPhases, Passed
<1>4. CASE CreateSchemaMigrations(r)
  <2>1. CASE tracked
        BY <1>1, <1>4, <2>1, OneExits DEF CreateSchemaMigrations
  <2>2. CASE ~tracked
        BY <1>1, <1>4, <2>2, GoesOn DEF CreateSchemaMigrations, At, BootPhases, Passed
  <2> QED
      BY <2>1, <2>2
<1>5. CASE Lock(r)
      BY <1>1, <1>5, GoesOn DEF Lock, At, BootPhases, Passed
<1>6. CASE CheckFile(r)
  <2>1. r \notin Skips
        BY <1>1, <1>6 DEF CheckFile, At, Passed
  <2>2. CASE NoMoreFiles(boot[r].file)
    <3>1. Len(journal) = Files
          BY <1>1, <2>2, StartupBounds DEF NoMoreFiles, Placed
    <3>2. GoOn(r, "unlock") /\ "unlock" \in BootPhases
          BY <1>6, <2>2 DEF CheckFile, BootPhases
    <3> QED
        BY <1>1, <1>6, <2>1, <3>1, <3>2, GoesOn DEF CheckFile
  <2>3. CASE ~NoMoreFiles(boot[r].file) /\ Applied(boot[r].file)
    <3> DEFINE b == [boot[r] EXCEPT !.file = boot[r].file + 1]
    <3>1. boot[r].file <= Files /\ boot[r].file <= Len(journal)
          BY <1>1, <2>3, AppliedIsBefore, StartupBounds DEF NoMoreFiles, StartInv
    <3>2. b \in Boot /\ b.pc = "check" /\ b.file = boot[r].file + 1
          BY <1>1, <1>6, <3>1, StartupBounds DEF Boot, CheckFile, At
    <3>3. boot' = [boot EXCEPT ![r] = b]
          BY <1>6, <2>3 DEF CheckFile
    <3>4. Placed(b)
          BY <1>1, <3>1, <3>2 DEF Placed
    <3> HIDE DEF b
    <3> QED
        BY <1>1, <1>6, <2>1, <3>2, <3>3, <3>4, OneBoots DEF CheckFile
  <2>4. CASE ~NoMoreFiles(boot[r].file) /\ ~Applied(boot[r].file)
    <3>1. boot[r].file <= Files
          BY <1>1, <2>4, StartupBounds DEF NoMoreFiles
    <3>2. GoOn(r, "apply") /\ "apply" \in BootPhases
          BY <1>6, <2>4 DEF CheckFile, BootPhases
    <3> QED
        BY <1>1, <1>6, <2>1, <3>1, <3>2, GoesOn DEF CheckFile
  <2> QED
      BY <2>2, <2>3, <2>4
<1>7. CASE ApplyFile(r)
  <2>1. r \notin Skips /\ boot[r].file <= Files
        BY <1>1, <1>7 DEF ApplyFile, At, Passed, Placed
  <2>2. CASE GoOn(r, "insert") /\ UNCHANGED advisory
        BY <1>1, <1>7, <2>1, <2>2, GoesOn DEF ApplyFile, BootPhases
  <2>3. CASE ExitReplica(r)
        BY <1>1, <1>7, <2>3, OneExits DEF ApplyFile
  <2> QED
      BY <1>7, <2>2, <2>3 DEF ApplyFile
<1>8. CASE InsertFile(r)
  <2>1. r \notin Skips /\ boot[r].file <= Files
        BY <1>1, <1>8 DEF InsertFile, At, Passed, Placed
  <2>2. CASE ~Applied(boot[r].file) /\ GoOn(r, "commit") /\ UNCHANGED advisory
    <3> DEFINE b == [boot[r] EXCEPT !.pc = "commit"]
    <3>1. boot[r].file = Len(journal) + 1
          BY <1>1, <2>2, AppliedIsBefore DEF StartInv, Placed
    <3>2. b \in Boot /\ b.pc = "commit" /\ b.file = boot[r].file
          BY <1>1 DEF Boot, BootPhases
    <3>3. boot' = [boot EXCEPT ![r] = b]
          BY <2>2 DEF GoOn
    <3>4. Placed(b)
          BY <1>1, <2>1, <3>1, <3>2 DEF Placed
    <3>5. ASSUME NEW s \in Replicas \ {r} PROVE boot[s].pc # "commit"
          BY <1>8, <3>1 DEF InsertFile, StartInv, Placed
    <3> HIDE DEF b
    <3> QED
        BY <1>1, <1>8, <2>1, <2>2, <3>2, <3>3, <3>4, <3>5, OneBoots DEF InsertFile
  <2>3. CASE ExitReplica(r)
        BY <1>1, <1>8, <2>3, OneExits DEF InsertFile
  <2> QED
      BY <1>8, <2>2, <2>3 DEF InsertFile
<1>9. CASE CommitFile(r)
  <2> DEFINE b == [boot[r] EXCEPT !.pc = "check", !.file = boot[r].file + 1]
  <2>1. boot[r].pc = "commit" /\ boot[r].file = Len(journal) + 1 /\ boot[r].file <= Files
        BY <1>1, <1>9 DEF CommitFile, At, Placed
  <2>2. b \in Boot /\ b.pc = "check" /\ b.file = boot[r].file + 1
    <3>1. boot[r].file + 1 \in 1..(Files + 1)
          BY <1>1, <2>1, StartupBounds
    <3>2. "check" \in BootPhases /\ boot[r] \in Boot
          BY <1>1 DEF BootPhases
    <3> QED
        BY <3>1, <3>2 DEF Boot
  <2>3. boot' = [boot EXCEPT ![r] = b]
        BY <1>9 DEF CommitFile
  <2>4. b.file <= Len(journal) + 2
        BY <1>1, <2>1, <2>2
  <2> HIDE DEF b
  <2> QED
      BY <1>1, <1>9, <2>1, <2>2, <2>3, <2>4, OneCommits DEF CommitFile
<1>10. CASE Unlock(r)
      BY <1>1, <1>10, GoesOn DEF Unlock, At, BootPhases, Passed
<1>11. CASE CountAdmins(r)
  <2>1. CASE ExitReplica(r)
        BY <1>1, <1>11, <2>1, OneExits DEF CountAdmins
  <2>2. CASE Applied(AdminFile)
        BY <1>1, <1>11, <2>2, GoesOn DEF CountAdmins, At, BootPhases, Passed
  <2> QED
      BY <1>11, <2>1, <2>2 DEF CountAdmins
<1>12. CASE CreateInitialAdmin(r)
  <2>1. CASE initialAdmin
        BY <1>1, <1>12, <2>1, OneExits DEF CreateInitialAdmin
  <2>2. CASE ~initialAdmin
        BY <1>1, <1>12, <2>2, GoesOn DEF CreateInitialAdmin, At, BootPhases, Passed
  <2> QED
      BY <2>1, <2>2
<1>13. CASE CrashReplica(r)
  <2> DEFINE b == [boot[r] EXCEPT !.dead = TRUE]
  <2>1. b \in Boot /\ b.pc = boot[r].pc /\ b.file = boot[r].file
        BY <1>1 DEF Boot
  <2>2. boot' = [boot EXCEPT ![r] = b]
        BY <1>13 DEF CrashReplica
  <2>3. Placed(b)
        BY <1>1, <2>1 DEF Placed
  <2>4. b.pc = "commit" => \A s \in Replicas \ {r} : boot[s].pc # "commit"
        BY <2>1 DEF StartInv, Alone
  <2>5. faults' \in Nat
        BY <1>1, <1>13 DEF CrashReplica
  <2> HIDE DEF b
  <2> QED
      BY <1>1, <1>13, <2>1, <2>2, <2>3, <2>4, <2>5, OneBoots DEF CrashReplica, Passed
<1>14. CASE SessionsEnd(r)
  <2>1. CASE journal' = journal
        BY <1>1, <1>14, <2>1, OneExits DEF SessionsEnd
  <2>2. CASE boot[r].pc = "commit" /\ journal' = Append(journal, boot[r].file)
    <3>1. Down \in Boot /\ Down.pc = "down" /\ Down.file <= Len(journal) + 2
      <4>1. Down \in Boot /\ Down.pc = "down" /\ Down.file = 1
            BY StartupBounds DEF Down, Boot, BootPhases
      <4> QED
          BY <1>1, <4>1
    <3>2. /\ boot' = [boot EXCEPT ![r] = Down]
          /\ advisory' \in Replicas \cup {NoReplica}
          BY <1>1, <1>14 DEF SessionsEnd, ExitReplica
    <3> QED
        BY <1>1, <1>14, <2>2, <3>1, <3>2, OneCommits DEF SessionsEnd
  <2> QED
      BY <1>14, <2>1, <2>2 DEF SessionsEnd
<1>15. CASE LockConnectionLost(r)
  <2>1. UNCHANGED <<journal, boot>>
        BY <1>15 DEF LockConnectionLost
  <2>2. StartTypeOK'
        BY <1>1, <1>15 DEF LockConnectionLost, StartInv, StartTypeOK
  <2> QED
      BY <2>1, <2>2 DEF StartInv, Ordered, Alone, Placed, Passed
<1> QED
    BY <1>2, <1>3, <1>4, <1>5, <1>6, <1>7, <1>8, <1>9, <1>10, <1>11, <1>12, <1>13,
       <1>14, <1>15 DEF Boots

LEMMA StartInvAlways == StartInit /\ [][StartNext]_startVars => []StartInv
<1>1. StartInv /\ [StartNext]_startVars => StartInv'
  <2> SUFFICES ASSUME StartInv, [StartNext]_startVars PROVE StartInv'
      OBVIOUS
  <2>1. CASE StartNext
        BY <2>1, StartInvStep DEF StartNext
  <2>2. CASE UNCHANGED startVars
        BY <2>2 DEF startVars, StartInv, StartTypeOK, Ordered, Alone, Placed, Passed
  <2> QED
      BY <2>1, <2>2
<1> QED
    BY <1>1, StartInvInit, PTL

THEOREM StartInvariant == StartSpec => []StartInv
BY StartInvAlways, PTL DEF StartSpec

\* What a row of schema_migrations, the advisory lock and a replica can be, however
\* many replicas, files and faults there are (StartTypeOK).
THEOREM StartTypes == StartSpec => []StartTypeOK
BY StartInvariant, PTL DEF StartInv

\* Migrate applies every file once and in order, whatever happens to the advisory
\* lock, and no replica that migrates goes on with a part of the schema.
THEOREM SchemaStaysInOrder == StartSpec => []SchemaInOrder
<1>1. StartInv => SchemaInOrder
      BY DEF StartInv, Ordered, Passed, SchemaInOrder
<1> QED
    BY <1>1, StartInvariant, PTL

-----------------------------------------------------------------------------
LEMMA ExpiryBounds == CouponDays \in Nat /\ Forever \notin Nat
                      /\ FirstDates \subseteq Nat \cup {Forever}
BY ExpiryAssumption

\* A licence has no date only as long as it never had one.  No transaction began
\* after today, and one that redeems has a card.
DatedOnce == date = Forever => used = 0 /\ given = 0
Begun(e) == /\ e.began <= today
            /\ e.pc = "coupon" => e.coupon \in Coupons
BegunBefore == \A x \in Extenders : Begun(extend[x])
ExpiryInv == ExpiryTypeOK /\ DaysAddUp /\ DatedOnce /\ BegunBefore

\* The arithmetic of DaysAddUp, apart from where the numbers are kept.
Adds(now, end, gave, was, lost) ==
    LET left == IF end > now THEN end - now ELSE 0
    IN  was + left <= gave /\ gave <= was + left + lost

LEMMA FirstDateAdds ==
    ASSUME NEW now \in Nat, NEW began \in Nat, began <= now, NEW days \in Nat,
           NEW lost \in Nat
    PROVE  Adds(now, began + days, days, 0, lost + (now - began))
BY DEF Adds

LEMMA LaterDateAdds ==
    ASSUME NEW now \in Nat, NEW began \in Nat, began <= now, NEW days \in Nat,
           NEW end \in Nat, NEW gave \in Nat, NEW was \in Nat, NEW lost \in Nat,
           Adds(now, end, gave, was, lost)
    PROVE  Adds(now, IF end < began THEN began + days ELSE end + days,
                gave + days, was, lost + (now - began))
<1>1. CASE end < began
      BY <1>1 DEF Adds
<1>2. CASE end >= began /\ end > now
      BY <1>2 DEF Adds
<1>3. CASE end >= began /\ end <= now
      BY <1>3 DEF Adds
<1> QED
    BY <1>1, <1>2, <1>3

LEMMA NextDayAdds ==
    ASSUME NEW now \in Nat, NEW end \in Nat, NEW gave \in Nat, NEW was \in Nat,
           NEW lost \in Nat, Adds(now, end, gave, was, lost)
    PROVE  Adds(now + 1, end, gave, IF end > now THEN was + 1 ELSE was, lost)
BY DEF Adds

LEMMA ExpiryInvInit == ExpiryInit => ExpiryInv
<1> SUFFICES ASSUME ExpiryInit PROVE ExpiryInv
    OBVIOUS
<1>1. date \in Nat \cup {Forever} /\ today = 0
      BY ExpiryBounds DEF ExpiryInit
<1>2. given \in Nat
      BY <1>1 DEF ExpiryInit
<1>3. NoExtension \in [pc : {"idle", "coupon", "admin"},
                       coupon : Coupons \cup {"none"}, began : Nat]
      /\ NoExtension.began = 0 /\ NoExtension.pc = "idle"
      BY DEF NoExtension
<1>4. ExpiryTypeOK
      BY <1>1, <1>2, <1>3 DEF ExpiryInit, ExpiryTypeOK
<1>5. DaysAddUp /\ DatedOnce
      BY <1>1 DEF ExpiryInit, DaysAddUp, DatedOnce
<1>6. BegunBefore
      BY <1>1, <1>3 DEF ExpiryInit, BegunBefore, Begun
<1> QED
    BY <1>4, <1>5, <1>6 DEF ExpiryInv

\* Steps that leave the sums alone and let a transaction begin only today.
LEMMA SumsStay ==
    ASSUME ExpiryInv, ExpiryTypeOK', UNCHANGED <<today, date, given, used, waited>>,
           \A x \in Extenders : extend'[x] = extend[x] \/ Begun(extend'[x])
    PROVE  ExpiryInv'
<1>1. DaysAddUp' /\ DatedOnce'
      BY DEF ExpiryInv, DaysAddUp, DatedOnce
<1>2. BegunBefore'
      BY DEF ExpiryInv, BegunBefore, Begun
<1> QED
    BY <1>1, <1>2 DEF ExpiryInv

\* A step that puts one extension elsewhere.
LEMMA OneExtends ==
    ASSUME ExpiryTypeOK, NEW x \in Extenders,
           NEW e \in [pc : {"idle", "coupon", "admin"},
                      coupon : Coupons \cup {"none"}, began : Nat],
           extend' = [extend EXCEPT ![x] = e]
    PROVE  /\ extend' \in [Extenders -> [pc : {"idle", "coupon", "admin"},
                                 coupon : Coupons \cup {"none"}, began : Nat]]
           /\ \A y \in Extenders : extend'[y] = extend[y] \/ extend'[y] = e
BY DEF ExpiryTypeOK

LEMMA NoExtensionTyped ==
    /\ NoExtension \in [pc : {"idle", "coupon", "admin"},
                        coupon : Coupons \cup {"none"}, began : Nat]
    /\ NoExtension.began = 0 /\ NoExtension.pc = "idle"
BY DEF NoExtension

\* An extension: the licence gets its days, from its date or from the begin of the
\* transaction, and loses the time the transaction waited.
LEMMA ExtensionAdds ==
    ASSUME ExpiryInv, NEW x \in Extenders, NEW days \in Nat, ExtendBy(x, days),
           UNCHANGED <<today, used>>,
           standing' \in {"active", "frozen", "revoked"}, spent' \subseteq Coupons,
           told' \in Nat \cup {Forever}, UNCHANGED <<sweep, expired, cuts>>
    PROVE  ExpiryInv'
<1>1. /\ today \in Nat /\ given \in Nat /\ used \in Nat /\ waited \in Nat
      /\ date \in Nat \cup {Forever}
      /\ extend[x].began \in Nat /\ extend[x].began <= today
      BY DEF ExpiryInv, ExpiryTypeOK, BegunBefore, Begun
<1> DEFINE began == extend[x].began
<1>2. /\ given' = given + days
      /\ waited' = waited + (today - began)
      /\ date' = ExtendedDate(days, began)
      BY DEF ExtendBy
<1>3. date' \in Nat /\ given' \in Nat /\ waited' \in Nat
      BY <1>1, <1>2 DEF ExtendedDate
<1>4. Adds(today, date', given', used, waited')
  <2>1. CASE date = Forever
    <3>1. given = 0 /\ used = 0 /\ date' = began + days
          BY <1>2, <2>1 DEF ExpiryInv, DatedOnce, ExtendedDate
    <3>2. Adds(today, began + days, days, 0, waited + (today - began))
          BY <1>1, FirstDateAdds
    <3> QED
        BY <1>1, <1>2, <3>1, <3>2
  <2>2. CASE date # Forever
    <3>1. date \in Nat /\ Adds(today, date, given, used, waited)
          BY <1>1, <2>2 DEF ExpiryInv, DaysAddUp, Adds
    <3>2. date' = IF date < began THEN began + days ELSE date + days
          BY <1>2, <2>2 DEF ExtendedDate
    <3>3. Adds(today, IF date < began THEN began + days ELSE date + days,
               given + days, used, waited + (today - began))
          BY <1>1, <3>1, LaterDateAdds
    <3> QED
        BY <1>2, <3>2, <3>3
  <2> QED
      BY <2>1, <2>2
<1>5. DaysAddUp' /\ DatedOnce'
      BY <1>3, <1>4, ExpiryBounds DEF DaysAddUp, DatedOnce, Adds
<1>6. extend' = [extend EXCEPT ![x] = NoExtension]
      BY DEF ExtendBy
<1>7. ExpiryTypeOK'
      BY <1>1, <1>3, <1>6, OneExtends, NoExtensionTyped DEF ExpiryInv, ExpiryTypeOK
<1>8. BegunBefore'
  <2> SUFFICES ASSUME NEW y \in Extenders PROVE Begun(extend[y])'
      BY DEF BegunBefore
  <2>1. extend'[y] = extend[y] \/ extend'[y] = NoExtension
        BY <1>6, OneExtends, NoExtensionTyped DEF ExpiryInv
  <2> QED
      BY <1>1, <2>1, NoExtensionTyped DEF ExpiryInv, BegunBefore, Begun
<1> QED
    BY <1>5, <1>7, <1>8 DEF ExpiryInv

LEMMA ExpiryInvStep ==
    ASSUME ExpiryInv, ExpiryNext
    PROVE  ExpiryInv'
<1> USE ExpiryBounds
<1>1. ExpiryTypeOK
      BY DEF ExpiryInv
<1>2. ASSUME NEW x \in Extenders, NEW c \in Coupons, BeginCoupon(x, c)
      PROVE  ExpiryInv'
  <2> DEFINE e == [pc |-> "coupon", coupon |-> c, began |-> today]
  <2>1. /\ e \in [pc : {"idle", "coupon", "admin"}, coupon : Coupons \cup {"none"},
                  began : Nat]
        /\ Begun(e)
        BY <1>1 DEF ExpiryTypeOK, Begun
  <2>2. extend' = [extend EXCEPT ![x] = e]
        BY <1>2 DEF BeginCoupon
  <2> HIDE DEF e
  <2>3. ExpiryTypeOK'
        BY <1>1, <1>2, <2>1, <2>2, OneExtends DEF BeginCoupon, ExpiryTypeOK
  <2>4. \A y \in Extenders : extend'[y] = extend[y] \/ Begun(extend'[y])
        BY <1>1, <2>1, <2>2, OneExtends
  <2> QED
      BY <1>2, <2>3, <2>4, SumsStay DEF BeginCoupon
<1>3. ASSUME NEW x \in Extenders, BeginExtension(x)
      PROVE  ExpiryInv'
  <2> DEFINE e == [extend[x] EXCEPT !.pc = "admin", !.began = today]
  <2>1. /\ e \in [pc : {"idle", "coupon", "admin"}, coupon : Coupons \cup {"none"},
                  began : Nat]
        /\ Begun(e)
    <3>1. /\ today \in Nat
          /\ extend[x] \in [pc : {"idle", "coupon", "admin"},
                            coupon : Coupons \cup {"none"}, began : Nat]
          BY <1>1 DEF ExpiryTypeOK
    <3>2. e.pc = "admin" /\ e.began = today
          BY <3>1
    <3>3. Begun(e)
          BY <3>1, <3>2 DEF Begun
    <3> QED
        BY <3>1, <3>3
  <2>2. extend' = [extend EXCEPT ![x] = e]
        BY <1>3 DEF BeginExtension
  <2> HIDE DEF e
  <2>3. ExpiryTypeOK'
        BY <1>1, <1>3, <2>1, <2>2, OneExtends DEF BeginExtension, ExpiryTypeOK
  <2>4. \A y \in Extenders : extend'[y] = extend[y] \/ Begun(extend'[y])
        BY <1>1, <2>1, <2>2, OneExtends
  <2> QED
      BY <1>3, <2>3, <2>4, SumsStay DEF BeginExtension
<1>4. ASSUME NEW x \in Extenders, CommitCoupon(x)
      PROVE  ExpiryInv'
  <2>1. /\ extend[x] \in [pc : {"idle", "coupon", "admin"},
                          coupon : Coupons \cup {"none"}, began : Nat]
        /\ spent \subseteq Coupons /\ date \in Nat \cup {Forever}
        /\ standing \in {"active", "frozen", "revoked"}
        BY <1>1 DEF ExpiryTypeOK
  <2>2. spent' \subseteq Coupons
        BY <1>4, <2>1 DEF CommitCoupon, ExpiryInv, BegunBefore, Begun
  <2>3. told' \in Nat \cup {Forever} /\ standing' \in {"active", "frozen", "revoked"}
        BY <1>4, <2>1 DEF CommitCoupon
  <2> QED
      BY <1>4, <2>2, <2>3, ExtensionAdds DEF CommitCoupon
<1>5. ASSUME NEW x \in Extenders, CommitExtension(x, 1)
      PROVE  ExpiryInv'
      BY <1>1, <1>5, ExtensionAdds DEF CommitExtension, ExpiryTypeOK
<1>6. ASSUME NEW x \in Extenders, AbandonExtension(x)
      PROVE  ExpiryInv'
  <2>1. extend' = [extend EXCEPT ![x] = NoExtension]
        BY <1>6 DEF AbandonExtension
  <2>2. ExpiryTypeOK'
        BY <1>1, <1>6, <2>1, OneExtends, NoExtensionTyped DEF AbandonExtension, ExpiryTypeOK
  <2>3. \A y \in Extenders : extend'[y] = extend[y] \/ Begun(extend'[y])
        BY <1>1, <2>1, OneExtends, NoExtensionTyped DEF ExpiryTypeOK, Begun
  <2> QED
      BY <1>6, <2>2, <2>3, SumsStay DEF AbandonExtension
<1>7. ASSUME NEW s \in {"active", "frozen", "revoked"}, SetStanding(s)
      PROVE  ExpiryInv'
      BY <1>1, <1>7, SumsStay DEF SetStanding, ExpiryTypeOK
<1>8. CASE BeatDated
      BY <1>1, <1>8, SumsStay DEF BeatDated, ExpiryTypeOK
<1>9. ASSUME NEW w \in Workers, FindExpired(w) \/ InsertExpired(w) \/ CutSweep(w)
      PROVE  ExpiryInv'
  <2>1. ExpiryTypeOK'
        BY <1>1, <1>9 DEF FindExpired, InsertExpired, CutSweep, ExpiryTypeOK
  <2> QED
      BY <1>9, <2>1, SumsStay DEF FindExpired, InsertExpired, CutSweep
<1>10. CASE NextDay
  <2>1. today' = today + 1 /\ today \in Nat /\ today' \in Nat
        BY <1>1, <1>10 DEF NextDay, ExpiryTypeOK
  <2>2. used' \in Nat /\ ExpiryTypeOK'
        BY <1>1, <1>10, <2>1 DEF NextDay, ExpiryTypeOK
  <2>3. DatedOnce'
        BY <1>10 DEF NextDay, ExpiryInv, DatedOnce
  <2>4. BegunBefore'
        BY <1>1, <1>10, <2>1 DEF NextDay, ExpiryInv, BegunBefore, Begun, ExpiryTypeOK
  <2>5. DaysAddUp'
    <3> SUFFICES ASSUME date # Forever
                 PROVE  Adds(today + 1, date, given, used', waited)
        BY <1>10, <2>1 DEF NextDay, DaysAddUp, Adds
    <3>1. date \in Nat /\ given \in Nat /\ used \in Nat /\ waited \in Nat
          BY <1>1 DEF ExpiryTypeOK
    <3>2. Adds(today, date, given, used, waited)
          BY DEF ExpiryInv, DaysAddUp, Adds
    <3>3. used' = IF date > today THEN used + 1 ELSE used
          BY <1>10 DEF NextDay
    <3> QED
        BY <2>1, <3>1, <3>2, <3>3, NextDayAdds
  <2> QED
      BY <2>2, <2>3, <2>4, <2>5 DEF ExpiryInv
<1> QED
    BY <1>2, <1>3, <1>4, <1>5, <1>6, <1>7, <1>8, <1>9, <1>10 DEF ExpiryNext

THEOREM ExpiryInvariant == ExpirySpec => []ExpiryInv
<1>1. ExpiryInv /\ [ExpiryNext]_expiryVars => ExpiryInv'
  <2> SUFFICES ASSUME ExpiryInv, [ExpiryNext]_expiryVars PROVE ExpiryInv'
      OBVIOUS
  <2>1. CASE ExpiryNext
        BY <2>1, ExpiryInvStep
  <2>2. CASE UNCHANGED expiryVars
    <3>1. ExpiryTypeOK'
          BY <2>2 DEF expiryVars, ExpiryInv, ExpiryTypeOK
    <3>2. DaysAddUp' /\ DatedOnce' /\ BegunBefore'
          BY <2>2 DEF expiryVars, ExpiryInv, DaysAddUp, DatedOnce, BegunBefore, Begun
    <3> QED
        BY <3>1, <3>2 DEF ExpiryInv
  <2> QED
      BY <2>1, <2>2
<1> QED
    BY <1>1, ExpiryInvInit, PTL DEF ExpirySpec

\* What the columns of a licence, an extension in flight and a worker can be
\* (ExpiryTypeOK).
THEOREM ExpiryTypes == ExpirySpec => []ExpiryTypeOK
BY ExpiryInvariant, PTL DEF ExpiryInv

\* ExtendLicense loses no granted day and counts none twice, but for the time an
\* extension waits for the row: for any number of administrators, renewal cards
\* and days, and any length of time.
THEOREM GrantedDaysAddUp == ExpirySpec => []DaysAddUp
BY ExpiryInvariant, PTL DEF ExpiryInv

-----------------------------------------------------------------------------
(***************************************************************************)
(* The composition.                                                        *)
(***************************************************************************)

\* A step of the composition is a step of one part, and the others stutter.
LEMMA OperationsStep ==
    [OperationsNext]_operationsVars =>
        [RowNext]_rowVars /\ [StartNext]_startVars /\ [ExpiryNext]_expiryVars
<1> SUFFICES ASSUME [OperationsNext]_operationsVars
             PROVE  [RowNext]_rowVars /\ [StartNext]_startVars /\ [ExpiryNext]_expiryVars
    OBVIOUS
<1>1. CASE RowStep
      BY <1>1 DEF RowStep
<1>2. CASE StartStep
      BY <1>2 DEF StartStep
<1>3. CASE ExpiryStep
      BY <1>3 DEF ExpiryStep
<1>4. CASE UNCHANGED operationsVars
      BY <1>4 DEF operationsVars
<1> QED
    BY <1>1, <1>2, <1>3, <1>4 DEF OperationsNext

\* The rows, the start and the renewals, followed one at a time, are the three of
\* them: the handlers of licenses.go and adminsvc.go, Migrate and ExtendLicense
\* neither wait for one another nor write what another reads.
THEOREM OperationsAreParts ==
    OperationsSpec => /\ RowSpec /\ ExpirySpec
                      /\ StartInit /\ [][StartNext]_startVars
<1>1. OperationsInit => RowInit /\ StartInit /\ ExpiryInit
      BY DEF OperationsInit
<1> QED
    BY <1>1, OperationsStep, PTL DEF OperationsSpec, RowSpec, ExpirySpec

\* Whatever the three do, every row, lock, transaction, replica and date has the
\* values its column or variable can hold (OperationsTypeOK).
THEOREM OperationsTyped == OperationsSpec => []OperationsTypeOK
<1>1. StartInv => StartTypeOK
      BY DEF StartInv
<1>2. RowTypeOK /\ StartTypeOK /\ ExpiryTypeOK => OperationsTypeOK
      BY DEF OperationsTypeOK
<1> QED
    BY <1>1, <1>2, OperationsAreParts, RowTypes, StartInvAlways, ExpiryTypes, PTL

\* What is proved of the parts is so of the composition: deadlocks need handlers of
\* both orders, migrations stay in order, days add up, and every step on the rows
\* is a step of the card ledger.
THEOREM OperationsSafe ==
    OperationsSpec => /\ [](DeadlocksNeedBothOrders /\ SchemaInOrder /\ DaysAddUp)
                      /\ RowsImplementLedger
<1>1. StartInv => SchemaInOrder
      BY DEF StartInv, Ordered, Passed, SchemaInOrder
<1> QED
    BY <1>1, OperationsAreParts, DeadlockOrders, StartInvAlways, GrantedDaysAddUp,
       RowsAreLedgerSteps, PTL

=============================================================================
