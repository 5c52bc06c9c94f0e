--------------------------------- MODULE Seats ---------------------------------
(***************************************************************************)
(* The concurrent seats of one licence: the sorted set online:lic:<id> in  *)
(* Redis, whose members are devices and whose scores are the times at      *)
(* which their seats end.  Every call carries the clock of the replica     *)
(* that makes it, and replicas differ.  A heartbeat reads the device row,  *)
(* then the plan and its clock, asks for the seat, and only then mints the *)
(* lease; an activation mints its lease whether it gets a seat or not.     *)
(*                                                                         *)
(* Left out: everything that decides whether the licence is good           *)
(* (Licensing) and whether the message is fresh (Replay).                  *)
(***************************************************************************)
EXTENDS Integers, FiniteSets

CONSTANTS
    SeatDevices,
    SeatRequests,   \* slots for requests in flight
    NoDevice,
    Limits,         \* the values an administrator gives concurrent_limit
    SeatTTL,        \* lease_ttl_seconds of the plan, also the life of a seat
    MaxSkew,        \* how far the clock of a replica may be off
    Skews,          \* how far the clocks of the replicas are off
    MaxStall,       \* longest time a request spends in its handler
    SeatMaxTime     \* bound on the clock

\* validatePlan and the column's CHECK keep the limit positive.
ASSUME SeatsAssumption ==
    /\ IsFiniteSet(SeatDevices)
    /\ NoDevice \notin SeatDevices
    /\ Limits \subseteq Nat \ {0}
    /\ {SeatTTL, MaxSkew, MaxStall, SeatMaxTime} \subseteq Nat
    /\ Skews \subseteq -MaxSkew .. MaxSkew
    /\ SeatTTL > MaxSkew

VARIABLES
    online,      \* the sorted set: the score of each device, 0 when it is no member
    bound,       \* devices.status, "new" before the first activation
    seatLimit,   \* plans.concurrent_limit
    seatLease,   \* the end of the last lease a heartbeat was answered with
    seatReq,     \* the request in each slot
    seatNow,     \* true time
    ceiling,     \* history: the highest limit there was
    degraded,    \* history: Redis has failed a heartbeat or lost the set
    seatBy,      \* history: the call that set a device's score
    unboundAt    \* history: when the row was unbound

seatVars == <<online, bound, seatLimit, seatLease, seatReq, seatNow,
              ceiling, degraded, seatBy, unboundAt>>

SeatRequest == [pc : {"idle", "plan", "renew", "mint", "drop"},
                kind : {"none", "heartbeat", "activate", "unbind"},
                dev : SeatDevices \cup {NoDevice},
                skew : Skews \cup {0},       \* of the replica that serves it
                limit : Nat,         \* concurrent_limit as it was read
                exp : Int,           \* the end of the lease it will mint
                at : Nat]            \* when it arrived
NoSeatRequest == [pc |-> "idle", kind |-> "none", dev |-> NoDevice, skew |-> 0,
                  limit |-> 0, exp |-> 0, at |-> 0]

SeatInit ==
    /\ online = [d \in SeatDevices |-> 0]
    /\ bound = [d \in SeatDevices |-> "new"]
    /\ seatLimit \in Limits
    /\ seatLease = [d \in SeatDevices |-> 0]
    /\ seatReq = [r \in SeatRequests |-> NoSeatRequest]
    /\ seatNow = 0
    /\ ceiling = seatLimit
    /\ degraded = FALSE
    /\ seatBy = [d \in SeatDevices |-> "none"]
    /\ unboundAt = [d \in SeatDevices |-> 0]

-----------------------------------------------------------------------------
\* ZREMRANGEBYSCORE key 0 clock
Expire(clock) == [d \in SeatDevices |-> IF online[d] <= clock THEN 0 ELSE online[d]]
Members(zset) == {d \in SeatDevices : zset[d] # 0}

AdmitsOneMore(d, limit, clock) ==   \* n > limit
    Expire(clock)[d] # 0 \/ Cardinality(Members(Expire(clock))) <= limit
\* What onlineScript decides at a replica's clock: a member is renewed, a
\* device that is none needs a free seat.
Admits(d, limit, clock) ==
    Expire(clock)[d] # 0 \/ Cardinality(Members(Expire(clock))) < limit
NewScoreNow(clock) == clock   \* scored as RateLimit does
NewScore(clock) == clock + SeatTTL

ClockOf(r) == seatNow + seatReq[r].skew

EndSeatRequest(r) == seatReq' = [seatReq EXCEPT ![r] = NoSeatRequest]
Arrival(pc, kind, d, skew, limit, exp) ==
    [pc |-> pc, kind |-> kind, dev |-> d, skew |-> skew, limit |-> limit,
     exp |-> exp, at |-> seatNow]
StepTo(r, pc) == seatReq' = [seatReq EXCEPT ![r].pc = pc]

MayBeatOnceBound(d) == bound[d] # "new"   \* the status is not looked at
\* Heartbeat reads the row of the device.
MayBeat(d) == bound[d] = "active"
BeginBeat(r, d, skew) ==
    /\ seatReq[r].pc = "idle"
    /\ MayBeat(d)
    /\ seatReq' = [seatReq EXCEPT ![r] =
                      Arrival("plan", "heartbeat", d, skew, 0, 0)]
    /\ UNCHANGED <<online, bound, seatLimit, seatLease, seatNow, ceiling, degraded,
                   seatBy, unboundAt>>

\* It takes its time and reads the plan.
ReadPlan(r) ==
    /\ seatReq[r].pc = "plan"
    /\ seatReq' = [seatReq EXCEPT ![r].pc = "renew", ![r].limit = seatLimit,
                                  ![r].exp = ClockOf(r) + SeatTTL]
    /\ UNCHANGED <<online, bound, seatLimit, seatLease, seatNow, ceiling, degraded,
                   seatBy, unboundAt>>

\* The transaction of Activate: a new device is bound, one that was unbound
\* stays so and is answered all the same.
BeginSeatActivate(r, d, skew) ==
    /\ seatReq[r].pc = "idle"
    /\ bound' = [bound EXCEPT ![d] = IF @ = "new" THEN "active" ELSE @]
    /\ seatReq' = [seatReq EXCEPT ![r] =
                      Arrival("renew", "activate", d, skew, seatLimit,
                              seatNow + skew + SeatTTL)]
    /\ UNCHANGED <<online, seatLimit, seatLease, seatNow, ceiling, degraded,
                   seatBy, unboundAt>>

\* RenewOnline.  A heartbeat that gets no seat ends there, an activation does not.
RenewOnline(r) ==
    LET d == seatReq[r].dev
        clock == ClockOf(r)
    IN  /\ seatReq[r].pc = "renew"
        /\ IF Admits(d, seatReq[r].limit, clock)
           THEN /\ online' = [Expire(clock) EXCEPT ![d] = NewScore(clock)]
                /\ seatBy' = [seatBy EXCEPT ![d] = seatReq[r].kind]
                /\ StepTo(r, "mint")
           ELSE /\ online' = Expire(clock)
                /\ IF seatReq[r].kind = "heartbeat"
                   THEN EndSeatRequest(r) ELSE StepTo(r, "mint")
                /\ UNCHANGED seatBy
        /\ UNCHANGED <<bound, seatLimit, seatLease, seatNow, ceiling, degraded, unboundAt>>

\* Redis does not answer: a heartbeat goes on without a seat.
RenewFails(r) ==
    /\ seatReq[r].pc = "renew"
    /\ IF seatReq[r].kind = "heartbeat"
       THEN StepTo(r, "mint") /\ degraded' = TRUE
       ELSE EndSeatRequest(r) /\ UNCHANGED degraded
    /\ UNCHANGED <<online, bound, seatLimit, seatLease, seatNow, ceiling, seatBy, unboundAt>>

\* The answer with the lease; the heartbeat has bumped the device row.
MintLease(r) ==
    LET d == seatReq[r].dev
    IN  /\ seatReq[r].pc = "mint"
        /\ seatLease' = IF seatReq[r].kind = "heartbeat" /\ seatReq[r].exp > seatLease[d]
                        THEN [seatLease EXCEPT ![d] = seatReq[r].exp] ELSE seatLease
        /\ EndSeatRequest(r)
        /\ UNCHANGED <<online, bound, seatLimit, seatNow, ceiling, degraded, seatBy, unboundAt>>

\* Deactivate and UnbindDevice: the row first, the seat after it.
BeginUnbind(r, d) ==
    /\ seatReq[r].pc = "idle"
    /\ bound[d] = "active"
    /\ bound' = [bound EXCEPT ![d] = "unbound"]
    /\ unboundAt' = [unboundAt EXCEPT ![d] = seatNow]
    /\ seatReq' = [seatReq EXCEPT ![r] =
                      Arrival("drop", "unbind", d, 0, 0, 0)]
    /\ UNCHANGED <<online, seatLimit, seatLease, seatNow, ceiling, degraded, seatBy>>

Dropped(zset, d) == [zset EXCEPT ![d] = 0]
DropOnline(r) ==
    /\ seatReq[r].pc = "drop"
    /\ online' = Dropped(online, seatReq[r].dev)
    /\ EndSeatRequest(r)
    /\ UNCHANGED <<bound, seatLimit, seatLease, seatNow, ceiling, degraded, seatBy, unboundAt>>

\* A request that stops: a cancelled context, a crash, a failed DropOnline.
AbandonSeat(r) ==
    /\ seatReq[r].pc # "idle"
    /\ EndSeatRequest(r)
    /\ UNCHANGED <<online, bound, seatLimit, seatLease, seatNow, ceiling, degraded,
                   seatBy, unboundAt>>

\* OnlineDevices, for the page of a licence, removes what its clock says is over.
OnlineDevices(skew) ==
    /\ online' = Expire(seatNow + skew)
    /\ UNCHANGED <<bound, seatLimit, seatLease, seatReq, seatNow, ceiling, degraded,
                   seatBy, unboundAt>>

\* UpdatePlan
SetConcurrentLimit(limit) ==
    /\ seatLimit' = limit
    /\ ceiling' = IF limit > ceiling THEN limit ELSE ceiling
    /\ UNCHANGED <<online, bound, seatLease, seatReq, seatNow, degraded, seatBy, unboundAt>>

\* Redis restarts without its data.
FlushOnline ==
    /\ online' = [d \in SeatDevices |-> 0]
    /\ degraded' = TRUE
    /\ UNCHANGED <<bound, seatLimit, seatLease, seatReq, seatNow, ceiling, seatBy, unboundAt>>

SeatTick ==
    /\ seatNow < SeatMaxTime
    /\ \A r \in SeatRequests : seatReq[r].pc # "idle" => seatNow < seatReq[r].at + MaxStall
    /\ seatNow' = seatNow + 1
    /\ UNCHANGED <<online, bound, seatLimit, seatLease, seatReq, ceiling, degraded,
                   seatBy, unboundAt>>

SeatStep(r) ==
    \/ ReadPlan(r)
    \/ RenewOnline(r)
    \/ RenewFails(r)
    \/ MintLease(r)
    \/ DropOnline(r)
    \/ AbandonSeat(r)

SeatNext ==
    \/ \E r \in SeatRequests, d \in SeatDevices :
          \/ \E skew \in Skews : BeginBeat(r, d, skew) \/ BeginSeatActivate(r, d, skew)
          \/ BeginUnbind(r, d)
    \/ \E r \in SeatRequests : SeatStep(r)
    \/ \E skew \in Skews : OnlineDevices(skew)
    \/ \E limit \in Limits : SetConcurrentLimit(limit)
    \/ FlushOnline
    \/ SeatTick

SeatSpec == SeatInit /\ [][SeatNext]_seatVars

-----------------------------------------------------------------------------
\* The types of the seats: scores are never negative, and each request is of a phase.
SeatTypeOK ==
    /\ online \in [SeatDevices -> Nat]
    /\ bound \in [SeatDevices -> {"new", "active", "unbound"}]
    /\ seatLimit \in Limits
    /\ seatLease \in [SeatDevices -> Int]
    /\ seatReq \in [SeatRequests -> SeatRequest]
    /\ seatNow \in Nat
    /\ ceiling \in Nat
    /\ degraded \in BOOLEAN
    /\ seatBy \in [SeatDevices -> {"none", "heartbeat", "activate"}]
    /\ unboundAt \in [SeatDevices -> Nat]

\* Bound devices whose last heartbeat lease is good for longer than the replicas
\* can disagree about.
FreshlyLeased ==
    {d \in SeatDevices : bound[d] = "active" /\ seatLease[d] > seatNow + 3 * MaxSkew}

\* However heartbeats, activations, unbinding and replicas with wrong clocks
\* interleave, no more bound devices run on heartbeat leases than the highest
\* concurrent limit the plan has had, up to three times the skew at the end of a
\* lease ("在线名额 Redis Lua 原子裁决", security-baseline.md:31), unless Redis failed.
SeatsWithinLimit == ~degraded => Cardinality(FreshlyLeased) <= ceiling

\* A device that renews in time is not put out of its seat by the clock of
\* another replica or by anyone's unbinding: while its lease is fresh it is a
\* member, so RenewOnline renews it without asking for a free seat.
FreshLeaseKeepsSeat == ~degraded => \A d \in FreshlyLeased : online[d] # 0

\* A heartbeat that passed the check of the device row may take a seat after the
\* row was unbound and the seat dropped (heartbeat.go:45 and :103), but such a
\* seat ends: it is not renewed beyond what was in flight.
GhostSeatEnds ==
    \A d \in SeatDevices : bound[d] = "unbound" /\ seatBy[d] = "heartbeat" =>
        online[d] <= unboundAt[d] + MaxStall + MaxSkew + SeatTTL
=============================================================================
