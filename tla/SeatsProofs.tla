------------------------------ MODULE SeatsProofs ------------------------------
(***************************************************************************)
(* The concurrent limit holds for heartbeat leases, and the seat of an     *)
(* unbound device ends, for any number of devices, requests and replicas,  *)
(* any skew of their clocks and any limits.  What the invariant adds: a    *)
(* lease, granted or on its way, ends at most 2 * MaxSkew after the score  *)
(* of its device or is nearly over (Covered); scores and leases lie no     *)
(* further ahead than SeatTTL (Ahead); and the set has no more members     *)
(* than the limit of the request that last added one (Counted).            *)
(***************************************************************************)
EXTENDS Seats, FiniteSetTheorems, TLAPS

LEMMA SeatBounds ==
    /\ SeatTTL \in Nat /\ MaxSkew \in Nat /\ MaxStall \in Nat /\ SeatMaxTime \in Nat
    /\ SeatTTL > MaxSkew
    /\ Limits \subseteq Nat
    /\ \A s \in Skews \cup {0} : s \in Int /\ -MaxSkew <= s /\ s <= MaxSkew
BY SeatsAssumption

\* A request in flight has a device, arrived in the past and is not older than
\* MaxStall; one that drops a seat belongs to an unbound device.
Requested == \A r \in SeatRequests : seatReq[r].pc # "idle" =>
    /\ seatReq[r].dev \in SeatDevices
    /\ seatReq[r].at <= seatNow /\ seatNow <= seatReq[r].at + MaxStall
    /\ seatReq[r].kind # "none"
    /\ seatReq[r].pc = "plan" => seatReq[r].kind = "heartbeat"
    /\ seatReq[r].pc = "renew" => seatReq[r].kind # "unbind"
    /\ seatReq[r].pc = "drop" => bound[seatReq[r].dev] = "unbound"

SeatType == SeatTypeOK /\ Requested

Ahead ==
    /\ \A d \in SeatDevices : online[d] <= seatNow + MaxSkew + SeatTTL
    /\ \A d \in SeatDevices : seatLease[d] <= seatNow + MaxSkew + SeatTTL
    /\ \A r \in SeatRequests : seatReq[r].exp <= seatNow + seatReq[r].skew + SeatTTL

CoveredBy(exp, score) == exp <= score + 2 * MaxSkew \/ exp <= seatNow + 3 * MaxSkew
Covered ==
    /\ \A d \in SeatDevices : bound[d] # "unbound" => CoveredBy(seatLease[d], online[d])
    /\ \A r \in SeatRequests :
          /\ seatReq[r].pc = "mint"
          /\ seatReq[r].kind = "heartbeat"
          /\ bound[seatReq[r].dev] # "unbound"
          => CoveredBy(seatReq[r].exp, online[seatReq[r].dev])

Counted ==
    /\ seatLimit <= ceiling
    /\ \A r \in SeatRequests : seatReq[r].limit <= ceiling
    /\ Cardinality(Members(online)) <= ceiling

Ghosts ==
    /\ GhostSeatEnds
    /\ \A r \in SeatRequests :
          seatReq[r].pc # "idle" /\ seatReq[r].kind = "heartbeat" =>
             /\ bound[seatReq[r].dev] # "new"
             /\ bound[seatReq[r].dev] = "unbound"
                   => seatReq[r].at <= unboundAt[seatReq[r].dev]

SeatInv == SeatType /\ Ahead /\ Counted /\ Ghosts /\ (~degraded => Covered)

-----------------------------------------------------------------------------
\* Removing what is over keeps scores natural numbers and adds no member.
LEMMA ExpireShrinks ==
    ASSUME SeatTypeOK, NEW clock \in Int
    PROVE  /\ Expire(clock) \in [SeatDevices -> Nat]
           /\ \A d \in SeatDevices : Expire(clock)[d] = 0 \/ Expire(clock)[d] = online[d]
           /\ \A d \in SeatDevices : Expire(clock)[d] = 0 => online[d] <= clock \/ online[d] = 0
           /\ Members(Expire(clock)) \subseteq Members(online)
BY DEF Expire, Members, SeatTypeOK

LEMMA MembersFinite ==
    ASSUME NEW zset
    PROVE  IsFiniteSet(Members(zset)) /\ Cardinality(Members(zset)) \in Nat
<1>1. Members(zset) \in SUBSET SeatDevices
      BY DEF Members
<1> QED
    BY <1>1, SeatsAssumption, FS_Subset, FS_CardinalityType

LEMMA FewerMembers ==
    ASSUME NEW s, NEW t, Members(s) \subseteq Members(t)
    PROVE  Cardinality(Members(s)) <= Cardinality(Members(t))
BY MembersFinite, FS_Subset

\* The script lets the set grow beyond what it found only below the limit.
LEMMA AdmissionCounts ==
    ASSUME SeatTypeOK, NEW d \in SeatDevices, NEW clock \in Int, NEW score \in Nat,
           NEW limit \in Nat, Admits(d, limit, clock)
    PROVE  LET new == [Expire(clock) EXCEPT ![d] = score]
           IN  \/ Cardinality(Members(new)) <= Cardinality(Members(online))
               \/ Cardinality(Members(new)) <= limit
<1> DEFINE old == Expire(clock)
           new == [old EXCEPT ![d] = score]
<1>1. old \in [SeatDevices -> Nat] /\ Members(old) \subseteq Members(online)
      BY ExpireShrinks
<1> HIDE DEF old
<1>2. Members(new) \subseteq Members(old) \cup {d}
      BY <1>1 DEF Members
<1>3. /\ IsFiniteSet(Members(old) \cup {d})
      /\ Cardinality(Members(old) \cup {d}) =
            IF d \in Members(old) THEN Cardinality(Members(old))
                                  ELSE Cardinality(Members(old)) + 1
      BY MembersFinite, FS_AddElement
<1>4. Cardinality(Members(new)) <= Cardinality(Members(old) \cup {d})
      BY <1>2, <1>3, FS_Subset
<1>5. Cardinality(Members(old)) <= Cardinality(Members(online))
      BY <1>1, FewerMembers
<1>6. d \in Members(old) \/ Cardinality(Members(old)) < limit
      BY <1>1 DEF Admits, Members, old
<1>7. /\ Cardinality(Members(new)) \in Nat /\ Cardinality(Members(old)) \in Nat
      /\ Cardinality(Members(online)) \in Nat
      BY MembersFinite
<1> QED
    BY <1>3, <1>4, <1>5, <1>6, <1>7 DEF old

-----------------------------------------------------------------------------
\* The clock of the replica that serves a request.
LEMMA ClockTyped ==
    ASSUME SeatTypeOK, NEW r \in SeatRequests
    PROVE  /\ seatReq[r].skew \in Int
           /\ -MaxSkew <= seatReq[r].skew /\ seatReq[r].skew <= MaxSkew
           /\ ClockOf(r) \in Int /\ NewScore(ClockOf(r)) \in Nat \ {0}
           /\ NewScore(ClockOf(r)) = seatNow + seatReq[r].skew + SeatTTL
<1>1. seatReq[r].skew \in Skews \cup {0} /\ seatNow \in Nat
      BY DEF SeatTypeOK, SeatRequest
<1> QED
    BY <1>1, SeatBounds DEF ClockOf, NewScore

\* A request that ends or moves on keeps its type.
LEMMA MoveTyped ==
    ASSUME SeatTypeOK, NEW r \in SeatRequests,
           \/ EndSeatRequest(r)
           \/ \E pc \in {"renew", "mint"} : StepTo(r, pc)
    PROVE  seatReq' \in [SeatRequests -> SeatRequest]
<1>1. CASE EndSeatRequest(r)
      BY <1>1 DEF SeatTypeOK, EndSeatRequest, SeatRequest, NoSeatRequest
<1>2. ASSUME NEW pc \in {"renew", "mint"}, StepTo(r, pc)
      PROVE  seatReq' \in [SeatRequests -> SeatRequest]
      BY <1>2 DEF SeatTypeOK, StepTo, SeatRequest
<1> QED
    BY <1>1, <1>2

\* A new request in a slot is well typed.
LEMMA ArrivalTyped ==
    ASSUME SeatTypeOK, NEW r \in SeatRequests, NEW req \in SeatRequest,
           seatReq' = [seatReq EXCEPT ![r] = req]
    PROVE  seatReq' \in [SeatRequests -> SeatRequest]
BY DEF SeatTypeOK

LEMMA SeatTypeStep == SeatType /\ [SeatNext]_seatVars => SeatType'
<1> SUFFICES ASSUME SeatType, [SeatNext]_seatVars PROVE SeatType'
    OBVIOUS
<1> USE DEF SeatType
<1> USE SeatBounds
<1>1. ASSUME NEW r \in SeatRequests, NEW d \in SeatDevices, NEW skew \in Skews,
             BeginBeat(r, d, skew)
      PROVE  SeatType'
  <2>1. seatReq' = [seatReq EXCEPT ![r] =
               [pc |-> "plan", kind |-> "heartbeat", dev |-> d, skew |-> skew, limit |-> 0,
                exp |-> 0, at |-> seatNow]]
      BY <1>1 DEF BeginBeat, Arrival
  <2>2. seatReq' \in [SeatRequests -> SeatRequest]
    <3>1. [pc |-> "plan", kind |-> "heartbeat", dev |-> d, skew |-> skew, limit |-> 0,
           exp |-> 0, at |-> seatNow] \in SeatRequest
        BY DEF SeatTypeOK, SeatRequest
    <3> QED
        BY <2>1, <3>1, ArrivalTyped
  <2>3. Requested'
      BY <1>1, <2>1 DEF BeginBeat, Requested, SeatTypeOK
  <2> QED
      BY <1>1, <2>2, <2>3 DEF BeginBeat, SeatTypeOK
<1>2. ASSUME NEW r \in SeatRequests, ReadPlan(r) PROVE SeatType'
  <2> DEFINE req == [seatReq[r] EXCEPT !.pc = "renew", !.limit = seatLimit,
                                       !.exp = ClockOf(r) + SeatTTL]
  <2>1. req \in SeatRequest
    <3>1. ClockOf(r) + SeatTTL \in Int /\ seatLimit \in Nat
        BY ClockTyped DEF SeatTypeOK
    <3>2. seatReq[r] \in SeatRequest
        BY DEF SeatTypeOK
    <3> QED
        BY <3>1, <3>2 DEF SeatRequest
  <2>2. seatReq' = [seatReq EXCEPT ![r] = req]
      BY <1>2 DEF ReadPlan, SeatTypeOK
  <2>3. /\ req.dev = seatReq[r].dev /\ req.at = seatReq[r].at
        /\ req.kind = seatReq[r].kind /\ req.pc = "renew" /\ seatReq[r].kind = "heartbeat"
      BY <1>2 DEF ReadPlan, SeatTypeOK, SeatRequest, Requested
  <2> HIDE DEF req
  <2>4. seatReq' \in [SeatRequests -> SeatRequest]
      BY <2>1, <2>2, ArrivalTyped
  <2>5. Requested'
      BY <1>2, <2>2, <2>3 DEF ReadPlan, Requested, SeatTypeOK
  <2> QED
      BY <1>2, <2>4, <2>5 DEF ReadPlan, SeatTypeOK
<1>3. ASSUME NEW r \in SeatRequests, NEW d \in SeatDevices, NEW skew \in Skews,
             BeginSeatActivate(r, d, skew)
      PROVE  SeatType'
  <2>1. seatReq' = [seatReq EXCEPT ![r] =
               [pc |-> "renew", kind |-> "activate", dev |-> d, skew |-> skew,
                limit |-> seatLimit, exp |-> seatNow + skew + SeatTTL, at |-> seatNow]]
      BY <1>3 DEF BeginSeatActivate, Arrival
  <2>2. seatReq' \in [SeatRequests -> SeatRequest]
    <3>1. [pc |-> "renew", kind |-> "activate", dev |-> d, skew |-> skew,
           limit |-> seatLimit, exp |-> seatNow + skew + SeatTTL, at |-> seatNow]
             \in SeatRequest
        BY DEF SeatTypeOK, SeatRequest
    <3> QED
        BY <2>1, <3>1, ArrivalTyped
  <2>3. \A e \in SeatDevices : bound[e] = "unbound" => bound'[e] = "unbound"
      BY <1>3 DEF BeginSeatActivate, SeatTypeOK
  <2>4. UNCHANGED seatNow
      BY <1>3 DEF BeginSeatActivate
  <2>5. Requested'
      BY <2>1, <2>3, <2>4 DEF Requested, SeatTypeOK
  <2> QED
      BY <1>3, <2>2, <2>5 DEF BeginSeatActivate, SeatTypeOK
<1>4. ASSUME NEW r \in SeatRequests, RenewOnline(r) PROVE SeatType'
  <2>1. seatReq' \in [SeatRequests -> SeatRequest]
      BY <1>4, MoveTyped DEF RenewOnline
  <2>2. /\ online' \in [SeatDevices -> Nat]
        /\ seatBy' \in [SeatDevices -> {"none", "heartbeat", "activate"}]
    <3>1. Expire(ClockOf(r)) \in [SeatDevices -> Nat] /\ NewScore(ClockOf(r)) \in Nat
        BY ClockTyped, ExpireShrinks
    <3>2. seatReq[r].kind \in {"heartbeat", "activate"}
        BY <1>4 DEF RenewOnline, Requested, SeatTypeOK, SeatRequest
    <3> QED
        BY <1>4, <3>1, <3>2 DEF RenewOnline, SeatTypeOK
  <2>3. Requested'
      BY <1>4 DEF RenewOnline, EndSeatRequest, StepTo, NoSeatRequest, Requested, SeatTypeOK,
                  SeatRequest
  <2> QED
      BY <1>4, <2>1, <2>2, <2>3 DEF RenewOnline, SeatTypeOK
<1>5. ASSUME NEW r \in SeatRequests, RenewFails(r) PROVE SeatType'
  <2>1. seatReq' \in [SeatRequests -> SeatRequest]
      BY <1>5, MoveTyped DEF RenewFails
  <2>2. Requested'
      BY <1>5 DEF RenewFails, EndSeatRequest, StepTo, NoSeatRequest, Requested, SeatTypeOK,
                  SeatRequest
  <2> QED
      BY <1>5, <2>1, <2>2 DEF RenewFails, SeatTypeOK
<1>6. ASSUME NEW r \in SeatRequests, MintLease(r) PROVE SeatType'
  <2>1. seatReq' \in [SeatRequests -> SeatRequest]
      BY <1>6, MoveTyped DEF MintLease
  <2>2. Requested'
      BY <1>6 DEF MintLease, EndSeatRequest, NoSeatRequest, Requested, SeatTypeOK
  <2>3. seatReq[r].exp \in Int
      BY DEF SeatTypeOK, SeatRequest
  <2> QED
      BY <1>6, <2>1, <2>2, <2>3 DEF MintLease, SeatTypeOK
<1>7. ASSUME NEW r \in SeatRequests, NEW d \in SeatDevices, BeginUnbind(r, d)
      PROVE  SeatType'
  <2>1. seatReq' = [seatReq EXCEPT ![r] =
               [pc |-> "drop", kind |-> "unbind", dev |-> d, skew |-> 0, limit |-> 0,
                exp |-> 0, at |-> seatNow]]
      BY <1>7 DEF BeginUnbind, Arrival
  <2>2. seatReq' \in [SeatRequests -> SeatRequest]
    <3>1. [pc |-> "drop", kind |-> "unbind", dev |-> d, skew |-> 0, limit |-> 0,
           exp |-> 0, at |-> seatNow] \in SeatRequest
        BY DEF SeatTypeOK, SeatRequest
    <3> QED
        BY <2>1, <3>1, ArrivalTyped
  <2>3. Requested'
      BY <1>7, <2>1 DEF BeginUnbind, Requested, SeatTypeOK
  <2> QED
      BY <1>7, <2>2, <2>3 DEF BeginUnbind, SeatTypeOK
<1>8. ASSUME NEW r \in SeatRequests, DropOnline(r) PROVE SeatType'
  <2>1. seatReq' \in [SeatRequests -> SeatRequest]
      BY <1>8, MoveTyped DEF DropOnline
  <2>2. Requested'
      BY <1>8 DEF DropOnline, EndSeatRequest, NoSeatRequest, Requested, SeatTypeOK
  <2> QED
      BY <1>8, <2>1, <2>2 DEF DropOnline, Dropped, SeatTypeOK
<1>9. ASSUME NEW r \in SeatRequests, AbandonSeat(r) PROVE SeatType'
  <2>1. seatReq' \in [SeatRequests -> SeatRequest]
      BY <1>9, MoveTyped DEF AbandonSeat
  <2>2. Requested'
      BY <1>9 DEF AbandonSeat, EndSeatRequest, NoSeatRequest, Requested, SeatTypeOK
  <2> QED
      BY <1>9, <2>1, <2>2 DEF AbandonSeat, SeatTypeOK
<1>10. ASSUME NEW skew \in Skews, OnlineDevices(skew) PROVE SeatType'
  <2>1. seatNow + skew \in Int
      BY DEF SeatTypeOK
  <2> QED
      BY <1>10, <2>1, ExpireShrinks DEF OnlineDevices, SeatTypeOK, Requested
<1>11. ASSUME NEW limit \in Limits, SetConcurrentLimit(limit) PROVE SeatType'
      BY <1>11 DEF SetConcurrentLimit, SeatTypeOK, Requested
<1>12. CASE FlushOnline
      BY <1>12 DEF FlushOnline, SeatTypeOK, Requested
<1>13. CASE SeatTick
      BY <1>13 DEF SeatTick, SeatTypeOK, Requested, SeatRequest
<1>14. CASE UNCHANGED seatVars
      BY <1>14 DEF seatVars, SeatTypeOK, Requested
<1> QED
    BY <1>1, <1>2, <1>3, <1>4, <1>5, <1>6, <1>7, <1>8, <1>9, <1>10, <1>11, <1>12, <1>13, <1>14
       DEF SeatNext, SeatStep

LEMMA SeatTypeInit == SeatInit => SeatType
<1> SUFFICES ASSUME SeatInit PROVE SeatType
    OBVIOUS
<1>1. seatLimit \in Nat
      BY SeatBounds DEF SeatInit
<1>2. NoSeatRequest \in SeatRequest
      BY DEF NoSeatRequest, SeatRequest
<1>3. Requested
      BY DEF SeatInit, Requested, NoSeatRequest
<1>4. seatReq \in [SeatRequests -> SeatRequest]
      BY <1>2 DEF SeatInit
<1>5. /\ online \in [SeatDevices -> Nat]
      /\ bound \in [SeatDevices -> {"new", "active", "unbound"}]
      /\ seatLease \in [SeatDevices -> Int]
      /\ seatBy \in [SeatDevices -> {"none", "heartbeat", "activate"}]
      /\ unboundAt \in [SeatDevices -> Nat]
      BY DEF SeatInit
<1> QED
    BY <1>1, <1>3, <1>4, <1>5 DEF SeatInit, SeatType, SeatTypeOK

\* Every column and every request keeps its type, and a request in the handler is
\* younger than MaxStall.
THEOREM SeatsTypeCorrect == SeatSpec => []SeatTypeOK
<1>1. SeatType => SeatTypeOK
      BY DEF SeatType
<1> QED
    BY <1>1, SeatTypeInit, SeatTypeStep, PTL DEF SeatSpec

-----------------------------------------------------------------------------
\* A request that moves on keeps all but its phase, one that ends is forgotten.
Moved == \A q \in SeatRequests :
    \/ seatReq'[q] = NoSeatRequest
    \/ /\ seatReq'[q].skew = seatReq[q].skew /\ seatReq'[q].exp = seatReq[q].exp
       /\ seatReq'[q].limit = seatReq[q].limit /\ seatReq'[q].dev = seatReq[q].dev
       /\ seatReq'[q].kind = seatReq[q].kind /\ seatReq'[q].at = seatReq[q].at
       /\ seatReq'[q].pc # "idle" => seatReq[q].pc # "idle"

LEMMA MoveKeepsFields ==
    ASSUME SeatTypeOK, NEW r \in SeatRequests, seatReq[r].pc # "idle",
           \/ EndSeatRequest(r)
           \/ \E pc \in {"renew", "mint"} : StepTo(r, pc)
    PROVE  Moved
<1>1. CASE EndSeatRequest(r)
      BY <1>1 DEF SeatTypeOK, EndSeatRequest, Moved
<1>2. ASSUME NEW pc \in {"renew", "mint"}, StepTo(r, pc) PROVE Moved
      BY <1>2 DEF SeatTypeOK, StepTo, SeatRequest, Moved
<1> QED
    BY <1>1, <1>2

\* The handlers move their request.
LEMMA StepsMove ==
    ASSUME SeatTypeOK, NEW r \in SeatRequests,
           RenewOnline(r) \/ RenewFails(r) \/ MintLease(r) \/ DropOnline(r) \/ AbandonSeat(r)
    PROVE  Moved
<1>1. seatReq[r].pc # "idle"
      BY DEF RenewOnline, RenewFails, MintLease, DropOnline, AbandonSeat
<1>2. EndSeatRequest(r) \/ \E pc \in {"renew", "mint"} : StepTo(r, pc)
      BY DEF RenewOnline, RenewFails, MintLease, DropOnline, AbandonSeat
<1> QED
    BY <1>1, <1>2, MoveKeepsFields

\* Scores and leases lie at most SeatTTL beyond the fastest clock.
LEMMA AheadStep == SeatInv /\ [SeatNext]_seatVars => Ahead'
<1> SUFFICES ASSUME SeatInv, [SeatNext]_seatVars PROVE Ahead'
    OBVIOUS
<1> USE SeatBounds
<1>a. /\ SeatTypeOK /\ Ahead
      /\ seatNow \in Nat
      /\ \A d \in SeatDevices : online[d] \in Nat /\ seatLease[d] \in Int
      /\ \A r \in SeatRequests : seatReq[r].exp \in Int
      BY DEF SeatInv, SeatType, SeatTypeOK, SeatRequest
<1>b. \A r \in SeatRequests : /\ seatReq[r].skew \in Int
                              /\ -MaxSkew <= seatReq[r].skew /\ seatReq[r].skew <= MaxSkew
      BY <1>a, ClockTyped
<1>1. ASSUME NEW r \in SeatRequests, NEW d \in SeatDevices, NEW skew \in Skews \cup {0},
             BeginBeat(r, d, skew) \/ BeginSeatActivate(r, d, skew) \/ BeginUnbind(r, d)
      PROVE  Ahead'
  <2>1. UNCHANGED <<online, seatLease, seatNow>>
      BY <1>1 DEF BeginBeat, BeginSeatActivate, BeginUnbind
  <2>2. \A q \in SeatRequests : seatReq'[q].exp <= seatNow + seatReq'[q].skew + SeatTTL
      BY <1>1, <1>a, <1>b DEF BeginBeat, BeginSeatActivate, BeginUnbind, Arrival, SeatTypeOK, Ahead
  <2> QED
      BY <1>a, <2>1, <2>2 DEF Ahead
<1>2. ASSUME NEW r \in SeatRequests, ReadPlan(r) PROVE Ahead'
  <2>1. UNCHANGED <<online, seatLease, seatNow>>
      BY <1>2 DEF ReadPlan
  <2>2. ASSUME NEW q \in SeatRequests
        PROVE  seatReq'[q].exp <= seatNow + seatReq'[q].skew + SeatTTL
    <3>1. /\ seatReq'[q].skew = seatReq[q].skew
          /\ seatReq'[q].exp = IF q = r THEN ClockOf(r) + SeatTTL ELSE seatReq[q].exp
        BY <1>2, <1>a DEF ReadPlan, SeatTypeOK, SeatRequest
    <3> QED
        BY <3>1, <1>a, <1>b DEF Ahead, ClockOf
  <2> QED
      BY <1>a, <2>1, <2>2 DEF Ahead
<1>3. ASSUME NEW r \in SeatRequests, RenewOnline(r) PROVE Ahead'
  <2>1. Moved
      BY <1>3, <1>a, StepsMove
  <2>2. UNCHANGED <<seatLease, seatNow>>
      BY <1>3 DEF RenewOnline
  <2>3. ASSUME NEW d \in SeatDevices PROVE online'[d] <= seatNow + MaxSkew + SeatTTL
    <3>1. /\ ClockOf(r) \in Int
          /\ NewScore(ClockOf(r)) <= seatNow + MaxSkew + SeatTTL
        BY <1>a, <1>b, ClockTyped
    <3>2. \/ online'[d] = Expire(ClockOf(r))[d]
          \/ online'[d] = NewScore(ClockOf(r))
        BY <1>3 DEF RenewOnline, Expire
    <3>3. Expire(ClockOf(r))[d] = 0 \/ Expire(ClockOf(r))[d] = online[d]
        BY <1>a, <3>1, ExpireShrinks
    <3> QED
        BY <3>1, <3>2, <3>3, <1>a DEF Ahead
  <2> QED
      BY <1>a, <1>b, <2>1, <2>2, <2>3 DEF Ahead, Moved, NoSeatRequest
<1>4. ASSUME NEW r \in SeatRequests, RenewFails(r) \/ DropOnline(r) \/ AbandonSeat(r)
      PROVE  Ahead'
  <2>1. Moved
      BY <1>4, <1>a, StepsMove
  <2>2. UNCHANGED <<seatLease, seatNow>>
      BY <1>4 DEF RenewFails, DropOnline, AbandonSeat
  <2>3. ASSUME NEW d \in SeatDevices PROVE online'[d] = online[d] \/ online'[d] = 0
      BY <1>4, <1>a DEF RenewFails, DropOnline, AbandonSeat, Dropped, SeatTypeOK
  <2> QED
      BY <1>a, <1>b, <2>1, <2>2, <2>3 DEF Ahead, Moved, NoSeatRequest
<1>5. ASSUME NEW r \in SeatRequests, MintLease(r) PROVE Ahead'
  <2>1. Moved
      BY <1>5, <1>a, StepsMove
  <2>2. UNCHANGED <<online, seatNow>>
      BY <1>5 DEF MintLease
  <2>3. ASSUME NEW d \in SeatDevices
        PROVE  seatLease'[d] = seatLease[d] \/ seatLease'[d] = seatReq[r].exp
      BY <1>5, <1>a DEF MintLease, SeatTypeOK
  <2> QED
      BY <1>a, <1>b, <2>1, <2>2, <2>3 DEF Ahead, Moved, NoSeatRequest
<1>6. ASSUME NEW skew \in Skews, OnlineDevices(skew) PROVE Ahead'
  <2>1. seatNow + skew \in Int
      BY <1>a
  <2>2. ASSUME NEW d \in SeatDevices PROVE online'[d] = online[d] \/ online'[d] = 0
      BY <1>6, <1>a, <2>1, ExpireShrinks DEF OnlineDevices
  <2>3. UNCHANGED <<seatLease, seatReq, seatNow>>
      BY <1>6 DEF OnlineDevices
  <2> QED
      BY <1>a, <2>2, <2>3 DEF Ahead
<1>7. ASSUME NEW limit \in Limits, SetConcurrentLimit(limit) PROVE Ahead'
      BY <1>7, <1>a DEF SetConcurrentLimit, Ahead
<1>8. CASE FlushOnline
      BY <1>8, <1>a DEF FlushOnline, Ahead
<1>9. CASE SeatTick
      BY <1>9, <1>a, <1>b DEF SeatTick, Ahead
<1>10. CASE UNCHANGED seatVars
      BY <1>10, <1>a DEF seatVars, Ahead
<1> QED
    BY <1>1, <1>2, <1>3, <1>4, <1>5, <1>6, <1>7, <1>8, <1>9, <1>10 DEF SeatNext, SeatStep

\* The set never has more members than the highest limit there was.
LEMMA CountedStep == SeatInv /\ [SeatNext]_seatVars => Counted'
<1> SUFFICES ASSUME SeatInv, [SeatNext]_seatVars PROVE Counted'
    OBVIOUS
<1> USE SeatBounds
<1>a. /\ SeatTypeOK /\ Counted /\ Requested
      /\ seatLimit \in Nat /\ ceiling \in Nat
      /\ \A r \in SeatRequests : seatReq[r].limit \in Nat
      BY DEF SeatInv, SeatType, SeatTypeOK, SeatRequest
<1>b. Cardinality(Members(online)) \in Nat /\ Cardinality(Members(online')) \in Nat
      BY MembersFinite
<1>c. Cardinality(Members([d \in SeatDevices |-> 0])) = 0
      BY FS_EmptySet DEF Members
<1>1. ASSUME NEW r \in SeatRequests, NEW d \in SeatDevices, NEW skew \in Skews \cup {0},
             BeginBeat(r, d, skew) \/ BeginSeatActivate(r, d, skew) \/ BeginUnbind(r, d)
      PROVE  Counted'
  <2>1. UNCHANGED <<online, seatLimit, ceiling>>
      BY <1>1 DEF BeginBeat, BeginSeatActivate, BeginUnbind
  <2>2. \A q \in SeatRequests : seatReq'[q].limit <= ceiling
      BY <1>1, <1>a DEF BeginBeat, BeginSeatActivate, BeginUnbind, Arrival, SeatTypeOK, Counted
  <2> QED
      BY <1>a, <2>1, <2>2 DEF Counted
<1>2. ASSUME NEW r \in SeatRequests, ReadPlan(r) PROVE Counted'
  <2>1. UNCHANGED <<online, seatLimit, ceiling>>
      BY <1>2 DEF ReadPlan
  <2>2. \A q \in SeatRequests :
            seatReq'[q].limit = IF q = r THEN seatLimit ELSE seatReq[q].limit
      BY <1>2, <1>a DEF ReadPlan, SeatTypeOK, SeatRequest
  <2> QED
      BY <1>a, <2>1, <2>2 DEF Counted
<1>3. ASSUME NEW r \in SeatRequests, RenewOnline(r) PROVE Counted'
  <2>1. Moved
      BY <1>3, <1>a, StepsMove
  <2>2. UNCHANGED <<seatLimit, ceiling>>
      BY <1>3 DEF RenewOnline
  <2>3. /\ ClockOf(r) \in Int /\ NewScore(ClockOf(r)) \in Nat
        /\ seatReq[r].dev \in SeatDevices
      BY <1>3, <1>a, ClockTyped DEF RenewOnline, Requested
  <2>4. Cardinality(Members(online')) <= ceiling
    <3>1. CASE Admits(seatReq[r].dev, seatReq[r].limit, ClockOf(r))
      <4>1. online' = [Expire(ClockOf(r)) EXCEPT ![seatReq[r].dev] = NewScore(ClockOf(r))]
          BY <1>3, <3>1 DEF RenewOnline
      <4>2. \/ Cardinality(Members(online')) <= Cardinality(Members(online))
            \/ Cardinality(Members(online')) <= seatReq[r].limit
          BY <1>a, <2>3, <3>1, <4>1, AdmissionCounts
      <4> QED
          BY <1>a, <1>b, <4>2 DEF Counted
    <3>2. CASE ~Admits(seatReq[r].dev, seatReq[r].limit, ClockOf(r))
      <4>1. online' = Expire(ClockOf(r))
          BY <1>3, <3>2 DEF RenewOnline
      <4>2. Cardinality(Members(online')) <= Cardinality(Members(online))
          BY <1>a, <2>3, <4>1, ExpireShrinks, FewerMembers
      <4> QED
          BY <1>a, <1>b, <4>2 DEF Counted
    <3> QED
        BY <3>1, <3>2
  <2> QED
      BY <1>a, <2>1, <2>2, <2>4 DEF Counted, Moved, NoSeatRequest
<1>4. ASSUME NEW r \in SeatRequests,
             RenewFails(r) \/ MintLease(r) \/ DropOnline(r) \/ AbandonSeat(r)
      PROVE  Counted'
  <2>1. Moved
      BY <1>4, <1>a, StepsMove
  <2>2. UNCHANGED <<seatLimit, ceiling>>
      BY <1>4 DEF RenewFails, MintLease, DropOnline, AbandonSeat
  <2>3. Members(online') \subseteq Members(online)
      BY <1>4, <1>a DEF RenewFails, MintLease, DropOnline, AbandonSeat, Dropped, SeatTypeOK, Members
  <2>4. Cardinality(Members(online')) <= Cardinality(Members(online))
      BY <2>3, FewerMembers
  <2> QED
      BY <1>a, <1>b, <2>1, <2>2, <2>4 DEF Counted, Moved, NoSeatRequest
<1>5. ASSUME NEW skew \in Skews, OnlineDevices(skew) PROVE Counted'
  <2>1. seatNow + skew \in Int
      BY <1>a DEF SeatTypeOK
  <2>2. Cardinality(Members(online')) <= Cardinality(Members(online))
      BY <1>5, <1>a, <2>1, ExpireShrinks, FewerMembers DEF OnlineDevices
  <2>3. UNCHANGED <<seatLimit, seatReq, ceiling>>
      BY <1>5 DEF OnlineDevices
  <2> QED
      BY <1>a, <1>b, <2>2, <2>3 DEF Counted
<1>6. ASSUME NEW limit \in Limits, SetConcurrentLimit(limit) PROVE Counted'
  <2>1. limit \in Nat /\ ceiling <= ceiling' /\ limit <= ceiling' /\ ceiling' \in Nat
      BY <1>6, <1>a DEF SetConcurrentLimit
  <2>2. seatLimit' = limit /\ UNCHANGED <<seatReq, online>>
      BY <1>6 DEF SetConcurrentLimit
  <2> QED
      BY <1>a, <1>b, <2>1, <2>2 DEF Counted
<1>7. CASE FlushOnline
      BY <1>7, <1>a, <1>c DEF FlushOnline, Counted
<1>8. CASE SeatTick
      BY <1>8, <1>a DEF SeatTick, Counted
<1>9. CASE UNCHANGED seatVars
      BY <1>9, <1>a DEF seatVars, Counted
<1> QED
    BY <1>1, <1>2, <1>3, <1>4, <1>5, <1>6, <1>7, <1>8, <1>9 DEF SeatNext, SeatStep

\* The seat of an unbound device was taken before the row was unbound or by a
\* heartbeat that was in flight then.
LEMMA GhostsStep == SeatInv /\ [SeatNext]_seatVars => Ghosts'
<1> SUFFICES ASSUME SeatInv, [SeatNext]_seatVars PROVE Ghosts'
    OBVIOUS
<1> USE SeatBounds
<1>a. /\ SeatTypeOK /\ Ghosts /\ Requested /\ Ahead
      /\ seatNow \in Nat
      /\ \A d \in SeatDevices : online[d] \in Nat /\ unboundAt[d] \in Nat
      /\ \A r \in SeatRequests : seatReq[r].at \in Nat
      BY DEF SeatInv, SeatType, SeatTypeOK, SeatRequest
<1>1. ASSUME NEW r \in SeatRequests, NEW d \in SeatDevices, NEW skew \in Skews,
             BeginBeat(r, d, skew)
      PROVE  Ghosts'
      BY <1>1, <1>a DEF BeginBeat, MayBeat, Arrival, Ghosts, GhostSeatEnds, SeatTypeOK
<1>2. ASSUME NEW r \in SeatRequests, NEW d \in SeatDevices, NEW skew \in Skews,
             BeginSeatActivate(r, d, skew)
      PROVE  Ghosts'
  <2>1. \A e \in SeatDevices : /\ bound'[e] = "unbound" <=> bound[e] = "unbound"
                               /\ bound[e] # "new" => bound'[e] # "new"
      BY <1>2, <1>a DEF BeginSeatActivate, SeatTypeOK
  <2>2. \A q \in SeatRequests : seatReq'[q].kind = "heartbeat" => seatReq'[q] = seatReq[q]
      BY <1>2, <1>a DEF BeginSeatActivate, Arrival, SeatTypeOK
  <2>3. UNCHANGED <<online, seatBy, unboundAt>>
      BY <1>2 DEF BeginSeatActivate
  <2> QED
      BY <1>a, <2>1, <2>2, <2>3 DEF Ghosts, GhostSeatEnds, Requested
<1>3. ASSUME NEW r \in SeatRequests, NEW d \in SeatDevices, BeginUnbind(r, d)
      PROVE  Ghosts'
  <2>1. \A q \in SeatRequests : seatReq'[q].kind = "heartbeat" => seatReq'[q] = seatReq[q]
      BY <1>3, <1>a DEF BeginUnbind, Arrival, SeatTypeOK
  <2>2. \A e \in SeatDevices : /\ bound'[e] = IF e = d THEN "unbound" ELSE bound[e]
                               /\ unboundAt'[e] = IF e = d THEN seatNow ELSE unboundAt[e]
      BY <1>3, <1>a DEF BeginUnbind, SeatTypeOK
  <2>3. UNCHANGED <<online, seatBy>>
      BY <1>3 DEF BeginUnbind
  <2>4. ASSUME NEW e \in SeatDevices, bound'[e] = "unbound", seatBy[e] = "heartbeat"
        PROVE  online[e] <= unboundAt'[e] + MaxStall + MaxSkew + SeatTTL
    <3>1. CASE e = d
        BY <1>a, <2>2, <3>1 DEF Ahead
    <3>2. CASE e # d
        BY <1>a, <2>2, <2>4, <3>2 DEF Ghosts, GhostSeatEnds
    <3> QED
        BY <3>1, <3>2
  <2>5. ASSUME NEW q \in SeatRequests, seatReq'[q].pc # "idle", seatReq'[q].kind = "heartbeat"
        PROVE  /\ bound'[seatReq'[q].dev] # "new"
               /\ bound'[seatReq'[q].dev] = "unbound" => seatReq'[q].at <= unboundAt'[seatReq'[q].dev]
    <3>1. /\ seatReq'[q] = seatReq[q] /\ seatReq[q].dev \in SeatDevices
          /\ seatReq[q].at <= seatNow
        BY <1>a, <2>1, <2>5 DEF Requested
    <3> QED
        BY <1>a, <2>2, <2>5, <3>1 DEF Ghosts
  <2> QED
      BY <2>3, <2>4, <2>5 DEF Ghosts, GhostSeatEnds
<1>4. ASSUME NEW r \in SeatRequests, ReadPlan(r) PROVE Ghosts'
  <2>1. \A q \in SeatRequests :
            /\ seatReq'[q].kind = seatReq[q].kind /\ seatReq'[q].dev = seatReq[q].dev
            /\ seatReq'[q].at = seatReq[q].at
            /\ seatReq'[q].pc # "idle" => seatReq[q].pc # "idle"
      BY <1>4, <1>a DEF ReadPlan, SeatTypeOK, SeatRequest
  <2>2. UNCHANGED <<online, bound, seatBy, unboundAt>>
      BY <1>4 DEF ReadPlan
  <2> QED
      BY <1>a, <2>1, <2>2 DEF Ghosts, GhostSeatEnds
<1>5. ASSUME NEW r \in SeatRequests, RenewOnline(r) PROVE Ghosts'
  <2> DEFINE d == seatReq[r].dev
  <2>1. Moved
      BY <1>5, <1>a, StepsMove
  <2>2. UNCHANGED <<bound, unboundAt>>
      BY <1>5 DEF RenewOnline
  <2>3. /\ ClockOf(r) \in Int /\ d \in SeatDevices /\ seatNow <= seatReq[r].at + MaxStall
        /\ NewScore(ClockOf(r)) \in Nat /\ NewScore(ClockOf(r)) <= seatNow + MaxSkew + SeatTTL
      BY <1>5, <1>a, ClockTyped DEF RenewOnline, Requested
  <2>4. \A e \in SeatDevices : Expire(ClockOf(r))[e] = 0 \/ Expire(ClockOf(r))[e] = online[e]
      BY <1>a, <2>3, ExpireShrinks
  <2>5. ASSUME NEW e \in SeatDevices, bound[e] = "unbound", seatBy'[e] = "heartbeat"
        PROVE  online'[e] <= unboundAt[e] + MaxStall + MaxSkew + SeatTTL
    <3>1. CASE seatBy[e] = "heartbeat" /\ online'[e] = Expire(ClockOf(r))[e]
        BY <1>a, <2>4, <2>5, <3>1 DEF Ghosts, GhostSeatEnds
    <3>2. CASE e = d /\ seatReq[r].kind = "heartbeat" /\ online'[e] = NewScore(ClockOf(r))
      <4>1. seatReq[r].at <= unboundAt[e]
          BY <1>5, <1>a, <2>5, <3>2 DEF RenewOnline, Ghosts
      <4> QED
          BY <1>a, <2>3, <3>2, <4>1
    <3> QED
        BY <1>5, <1>a, <2>3, <2>5, <3>1, <3>2, ExpireShrinks DEF RenewOnline, SeatTypeOK
  <2> QED
      BY <1>a, <2>1, <2>2, <2>5 DEF Ghosts, GhostSeatEnds, Moved, NoSeatRequest
<1>6. ASSUME NEW r \in SeatRequests,
             RenewFails(r) \/ MintLease(r) \/ DropOnline(r) \/ AbandonSeat(r)
      PROVE  Ghosts'
  <2>1. Moved
      BY <1>6, <1>a, StepsMove
  <2>2. UNCHANGED <<bound, seatBy, unboundAt>>
      BY <1>6 DEF RenewFails, MintLease, DropOnline, AbandonSeat
  <2>3. \A e \in SeatDevices : online'[e] = online[e] \/ online'[e] = 0
      BY <1>6, <1>a DEF RenewFails, MintLease, DropOnline, AbandonSeat, Dropped, SeatTypeOK
  <2> QED
      BY <1>a, <2>1, <2>2, <2>3 DEF Ghosts, GhostSeatEnds, Moved, NoSeatRequest
<1>7. ASSUME NEW skew \in Skews, OnlineDevices(skew) PROVE Ghosts'
  <2>1. seatNow + skew \in Int
      BY <1>a
  <2>2. \A e \in SeatDevices : online'[e] = online[e] \/ online'[e] = 0
      BY <1>7, <1>a, <2>1, ExpireShrinks DEF OnlineDevices
  <2>3. UNCHANGED <<bound, seatReq, seatBy, unboundAt>>
      BY <1>7 DEF OnlineDevices
  <2> QED
      BY <1>a, <2>2, <2>3 DEF Ghosts, GhostSeatEnds
<1>8. ASSUME NEW limit \in Limits, SetConcurrentLimit(limit) PROVE Ghosts'
      BY <1>8, <1>a DEF SetConcurrentLimit, Ghosts, GhostSeatEnds
<1>9. CASE FlushOnline
      BY <1>9, <1>a DEF FlushOnline, Ghosts, GhostSeatEnds
<1>10. CASE SeatTick
      BY <1>10, <1>a DEF SeatTick, Ghosts, GhostSeatEnds
<1>11. CASE UNCHANGED seatVars
      BY <1>11, <1>a DEF seatVars, Ghosts, GhostSeatEnds
<1> QED
    BY <1>1, <1>2, <1>3, <1>4, <1>5, <1>6, <1>7, <1>8, <1>9, <1>10, <1>11 DEF SeatNext, SeatStep

\* Leases, granted or on their way, end with the seat of their device.
LEMMA CoveredStep ==
    SeatInv /\ [SeatNext]_seatVars => (~degraded' => Covered')
<1> SUFFICES ASSUME SeatInv, [SeatNext]_seatVars, ~degraded' PROVE Covered'
    OBVIOUS
<1> USE SeatBounds
<1>a. /\ SeatTypeOK /\ Requested /\ Ahead
      /\ seatNow \in Nat
      /\ \A d \in SeatDevices : online[d] \in Nat /\ seatLease[d] \in Int
      /\ \A r \in SeatRequests : seatReq[r].exp \in Int
      BY DEF SeatInv, SeatType, SeatTypeOK, SeatRequest
<1>b. \A r \in SeatRequests : /\ seatReq[r].skew \in Int
                              /\ -MaxSkew <= seatReq[r].skew /\ seatReq[r].skew <= MaxSkew
      BY <1>a, ClockTyped
<1>c. ASSUME UNCHANGED degraded PROVE Covered
      BY <1>c DEF SeatInv
<1>1. ASSUME NEW r \in SeatRequests, NEW d \in SeatDevices, NEW skew \in Skews \cup {0},
             BeginBeat(r, d, skew) \/ BeginSeatActivate(r, d, skew) \/ BeginUnbind(r, d)
      PROVE  Covered'
  <2>1. Covered
      BY <1>1, <1>c DEF BeginBeat, BeginSeatActivate, BeginUnbind
  <2>2. \A e \in SeatDevices : bound'[e] # "unbound" => bound[e] # "unbound"
      BY <1>1, <1>a DEF BeginBeat, BeginSeatActivate, BeginUnbind, SeatTypeOK
  <2>3. \A q \in SeatRequests : seatReq'[q].pc = "mint" => seatReq'[q] = seatReq[q]
      BY <1>1, <1>a DEF BeginBeat, BeginSeatActivate, BeginUnbind, Arrival, SeatTypeOK
  <2>4. UNCHANGED <<online, seatLease, seatNow>>
      BY <1>1 DEF BeginBeat, BeginSeatActivate, BeginUnbind
  <2> QED
      BY <1>a, <2>1, <2>2, <2>3, <2>4 DEF Covered, CoveredBy, Requested
<1>2. ASSUME NEW r \in SeatRequests, ReadPlan(r) PROVE Covered'
  <2>1. Covered
      BY <1>2, <1>c DEF ReadPlan
  <2>2. \A q \in SeatRequests : seatReq'[q].pc = "mint" => seatReq'[q] = seatReq[q]
      BY <1>2, <1>a DEF ReadPlan, SeatTypeOK, SeatRequest
  <2>3. UNCHANGED <<online, bound, seatLease, seatNow>>
      BY <1>2 DEF ReadPlan
  <2> QED
      BY <2>1, <2>2, <2>3 DEF Covered, CoveredBy
<1>3. ASSUME NEW r \in SeatRequests, RenewOnline(r) PROVE Covered'
  <2> DEFINE d == seatReq[r].dev
             clock == ClockOf(r)
  <2>1. Covered
      BY <1>3, <1>c DEF RenewOnline
  <2>2. UNCHANGED <<bound, seatLease, seatNow>>
      BY <1>3 DEF RenewOnline
  <2>3. /\ clock \in Int /\ clock = seatNow + seatReq[r].skew
        /\ NewScore(clock) \in Nat /\ NewScore(clock) = seatNow + seatReq[r].skew + SeatTTL
        /\ d \in SeatDevices
      BY <1>3, <1>a, ClockTyped DEF RenewOnline, Requested, ClockOf
  \* What was covered by a score still is.
  <2>4. ASSUME NEW e \in SeatDevices, NEW exp \in Int, CoveredBy(exp, online[e]),
               exp <= seatNow + MaxSkew + SeatTTL
        PROVE  CoveredBy(exp, online'[e])
    <3>1. online'[e] = Expire(clock)[e] \/ online'[e] = NewScore(clock)
        BY <1>3 DEF RenewOnline, Expire
    <3>2. CASE online'[e] = NewScore(clock)
        BY <1>a, <1>b, <2>3, <2>4, <3>2 DEF CoveredBy
    <3>3. CASE online'[e] = Expire(clock)[e]
      <4>1. \/ Expire(clock)[e] = online[e]
            \/ Expire(clock)[e] = 0 /\ online[e] <= clock
            \/ Expire(clock)[e] = 0 /\ online[e] = 0
          BY <1>a, <2>3, ExpireShrinks
      <4> QED
          BY <1>a, <1>b, <2>3, <2>4, <3>3, <4>1 DEF CoveredBy
    <3> QED
        BY <3>1, <3>2, <3>3
  <2>5. ASSUME NEW e \in SeatDevices, bound[e] # "unbound"
        PROVE  CoveredBy(seatLease[e], online'[e])
      BY <1>a, <2>1, <2>4, <2>5 DEF Covered, Ahead
  <2>6. ASSUME NEW q \in SeatRequests, seatReq'[q].pc = "mint",
               seatReq'[q].kind = "heartbeat", bound[seatReq'[q].dev] # "unbound"
        PROVE  CoveredBy(seatReq'[q].exp, online'[seatReq'[q].dev])
    <3>1. CASE q # r
      <4>1. seatReq'[q] = seatReq[q] /\ seatReq[q].dev \in SeatDevices
          BY <1>3, <1>a, <2>6, <3>1
             DEF RenewOnline, EndSeatRequest, StepTo, SeatTypeOK, Requested
      <4>2. seatReq[q].exp <= seatNow + MaxSkew + SeatTTL
          BY <1>a, <1>b DEF Ahead
      <4> QED
          BY <1>a, <2>1, <2>4, <2>6, <4>1, <4>2 DEF Covered
    <3>2. CASE q = r
      <4>1. Moved /\ seatReq'[r] # NoSeatRequest
          BY <1>3, <1>a, <2>6, <3>2, StepsMove DEF NoSeatRequest
      <4>2. seatReq'[r].exp = seatReq[r].exp /\ seatReq'[r].dev = d
            /\ seatReq[r].kind = "heartbeat"
          BY <2>6, <3>2, <4>1 DEF Moved
      <4>3. Admits(d, seatReq[r].limit, clock)
          BY <1>3, <1>a, <2>6, <3>2, <4>2 DEF RenewOnline, EndSeatRequest, NoSeatRequest, SeatTypeOK
      <4>4. online'[d] = NewScore(clock)
          BY <1>3, <1>a, <2>3, <4>3, ExpireShrinks DEF RenewOnline
      <4> QED
          BY <1>a, <1>b, <2>3, <3>2, <4>2, <4>4 DEF Ahead, CoveredBy
    <3> QED
        BY <3>1, <3>2
  <2> QED
      BY <2>2, <2>5, <2>6 DEF Covered, CoveredBy
<1>4. ASSUME NEW r \in SeatRequests, RenewFails(r) \/ AbandonSeat(r) PROVE Covered'
  <2>1. Covered
      BY <1>4, <1>c, <1>a DEF RenewFails, AbandonSeat
  <2>2. UNCHANGED <<online, bound, seatLease, seatNow>>
      BY <1>4 DEF RenewFails, AbandonSeat
  <2>3. ASSUME NEW q \in SeatRequests, seatReq'[q].pc = "mint", seatReq'[q].kind = "heartbeat"
        PROVE  seatReq'[q] = seatReq[q]
      BY <1>4, <1>a, <2>3 DEF RenewFails, AbandonSeat, EndSeatRequest, StepTo, NoSeatRequest, SeatTypeOK
  <2> QED
      BY <2>1, <2>2, <2>3 DEF Covered, CoveredBy
<1>5. ASSUME NEW r \in SeatRequests, MintLease(r) PROVE Covered'
  <2>1. Covered
      BY <1>5, <1>c DEF MintLease
  <2>2. UNCHANGED <<online, bound, seatNow>>
      BY <1>5 DEF MintLease
  <2>3. ASSUME NEW q \in SeatRequests, seatReq'[q].pc = "mint" PROVE seatReq'[q] = seatReq[q]
      BY <1>5, <1>a, <2>3 DEF MintLease, EndSeatRequest, NoSeatRequest, SeatTypeOK
  <2>4. ASSUME NEW e \in SeatDevices, bound[e] # "unbound"
        PROVE  CoveredBy(seatLease'[e], online[e])
    <3>1. \/ seatLease'[e] = seatLease[e]
          \/ /\ seatLease'[e] = seatReq[r].exp /\ e = seatReq[r].dev
             /\ seatReq[r].pc = "mint" /\ seatReq[r].kind = "heartbeat"
        BY <1>5, <1>a DEF MintLease, SeatTypeOK
    <3> QED
        BY <2>1, <2>4, <3>1 DEF Covered
  <2> QED
      BY <2>1, <2>2, <2>3, <2>4 DEF Covered, CoveredBy
<1>6. ASSUME NEW r \in SeatRequests, DropOnline(r) PROVE Covered'
  <2>1. Covered
      BY <1>6, <1>c DEF DropOnline
  <2>2. UNCHANGED <<bound, seatLease, seatNow>>
      BY <1>6 DEF DropOnline
  <2>3. ASSUME NEW q \in SeatRequests, seatReq'[q].pc = "mint" PROVE seatReq'[q] = seatReq[q]
      BY <1>6, <1>a, <2>3 DEF DropOnline, EndSeatRequest, NoSeatRequest, SeatTypeOK
  <2>4. \A e \in SeatDevices : bound[e] # "unbound" => online'[e] = online[e]
      BY <1>6, <1>a DEF DropOnline, Dropped, Requested, SeatTypeOK
  <2> QED
      BY <1>a, <2>1, <2>2, <2>3, <2>4 DEF Covered, CoveredBy, Requested
<1>7. ASSUME NEW skew \in Skews, OnlineDevices(skew) PROVE Covered'
  <2>1. Covered
      BY <1>7, <1>c DEF OnlineDevices
  <2>2. UNCHANGED <<bound, seatLease, seatReq, seatNow>>
      BY <1>7 DEF OnlineDevices
  <2>3. ASSUME NEW e \in SeatDevices, NEW exp \in Int, CoveredBy(exp, online[e])
        PROVE  CoveredBy(exp, online'[e])
    <3>1. seatNow + skew \in Int
        BY <1>a
    <3>2. \/ online'[e] = online[e]
          \/ online'[e] = 0 /\ (online[e] <= seatNow + skew \/ online[e] = 0)
        BY <1>7, <1>a, <3>1, ExpireShrinks DEF OnlineDevices
    <3> QED
        BY <1>a, <2>3, <3>2 DEF CoveredBy
  <2> QED
      BY <1>a, <2>1, <2>2, <2>3 DEF Covered, CoveredBy, Requested
<1>8. ASSUME NEW limit \in Limits, SetConcurrentLimit(limit) PROVE Covered'
      BY <1>8, <1>c DEF SetConcurrentLimit, Covered, CoveredBy
<1>9. CASE FlushOnline
      BY <1>9 DEF FlushOnline
<1>10. CASE SeatTick
  <2>1. Covered
      BY <1>10, <1>c DEF SeatTick
  <2> QED
      BY <1>10, <1>a, <2>1 DEF SeatTick, Covered, CoveredBy, Requested
<1>11. CASE UNCHANGED seatVars
      BY <1>11, <1>c DEF seatVars, Covered, CoveredBy
<1> QED
    BY <1>1, <1>2, <1>3, <1>4, <1>5, <1>6, <1>7, <1>8, <1>9, <1>10, <1>11 DEF SeatNext, SeatStep

-----------------------------------------------------------------------------
LEMMA SeatInvInit == SeatInit => SeatInv
<1> SUFFICES ASSUME SeatInit PROVE SeatInv
    OBVIOUS
<1> USE SeatBounds
<1>1. SeatType
      BY SeatTypeInit
<1>2. Ahead
      BY DEF SeatInit, Ahead, NoSeatRequest
<1>3. Counted
  <2>1. Members(online) = {}
      BY DEF SeatInit, Members
  <2>2. seatLimit \in Nat
      BY DEF SeatInit
  <2> QED
      BY <2>1, <2>2, FS_EmptySet DEF SeatInit, Counted, NoSeatRequest
<1>4. Ghosts
      BY DEF SeatInit, Ghosts, GhostSeatEnds, NoSeatRequest
<1>5. Covered
      BY DEF SeatInit, Covered, CoveredBy, NoSeatRequest
<1> QED
    BY <1>1, <1>2, <1>3, <1>4, <1>5 DEF SeatInv

LEMMA SeatInvStep == SeatInv /\ [SeatNext]_seatVars => SeatInv'
<1>1. SeatInv => SeatType
      BY DEF SeatInv
<1> QED
    BY <1>1, SeatTypeStep, AheadStep, CountedStep, GhostsStep, CoveredStep DEF SeatInv

\* A fresh lease of a bound device has a live seat under it.
LEMMA FreshIsMember ==
    ASSUME SeatInv, ~degraded, NEW d \in FreshlyLeased
    PROVE  d \in SeatDevices /\ online[d] # 0
<1>1. /\ d \in SeatDevices /\ bound[d] # "unbound"
      /\ seatLease[d] > seatNow + 3 * MaxSkew
      BY DEF FreshlyLeased
<1>2. CoveredBy(seatLease[d], online[d])
      BY <1>1 DEF SeatInv, Covered
<1>3. seatLease[d] \in Int /\ seatNow \in Nat
      BY <1>1 DEF SeatInv, SeatType, SeatTypeOK
<1> QED
    BY <1>1, <1>2, <1>3, SeatBounds DEF CoveredBy

\* No more bound devices run on heartbeat leases than the limit allowed
\* (cache.go:110-126, called with a plan that may be stale, heartbeat.go:103).
THEOREM SeatLimitHolds == SeatSpec => []SeatsWithinLimit
<1>1. SeatInv => SeatsWithinLimit
  <2> SUFFICES ASSUME SeatInv, ~degraded
               PROVE  Cardinality(FreshlyLeased) <= ceiling
      BY DEF SeatsWithinLimit
  <2>1. FreshlyLeased \subseteq Members(online)
      BY FreshIsMember DEF Members
  <2>2. /\ Cardinality(FreshlyLeased) <= Cardinality(Members(online))
        /\ Cardinality(FreshlyLeased) \in Nat
      BY <2>1, MembersFinite, FS_Subset, FS_CardinalityType
  <2>3. Cardinality(Members(online)) <= ceiling /\ ceiling \in Nat
      BY DEF SeatInv, Counted, SeatType, SeatTypeOK
  <2> QED
      BY <2>2, <2>3, MembersFinite
<1> QED
    BY <1>1, SeatInvInit, SeatInvStep, PTL DEF SeatSpec

\* A device that renews in time keeps its seat against every other call.
THEOREM FreshSeatKept == SeatSpec => []FreshLeaseKeepsSeat
<1>1. SeatInv => FreshLeaseKeepsSeat
      BY FreshIsMember DEF FreshLeaseKeepsSeat
<1> QED
    BY <1>1, SeatInvInit, SeatInvStep, PTL DEF SeatSpec

\* A seat taken after an unbind by a heartbeat in flight is not renewed.
THEOREM GhostsEnd == SeatSpec => []GhostSeatEnds
<1>1. SeatInv => GhostSeatEnds
      BY DEF SeatInv, Ghosts
<1> QED
    BY <1>1, SeatInvInit, SeatInvStep, PTL DEF SeatSpec
=============================================================================
