------------------------------- MODULE RateLimit -------------------------------
(***************************************************************************)
(* The limit on the requests of one address to one group of endpoints: a   *)
(* sorted set in Redis, one member for each request let through, scored by *)
(* the clock of the replica that asked.  And the threshold: every replica  *)
(* believes what it read from the table for a while.                       *)
(*                                                                         *)
(* True time is rateNow.  A replica reads rateNow plus its skew.  A request *)
(* has the threshold its replica gave it, whatever that is: the two halves *)
(* meet in Ask, and share no other state.                                  *)
(***************************************************************************)
EXTENDS Integers, Sequences, FiniteSets

CONSTANTS
    Asks,            \* slots for requests in flight at once
    Servers,         \* replicas
    ServerSkew,      \* [Servers -> 0..RateSkew]: how far its clock is ahead
    RateSkew,        \* of the slowest one, at most
    RateStall,       \* bound on the time from reading the clock to the script
    Window,          \* length of the sliding window
    ConfigTTL,       \* how long a replica believes the threshold it read
    Fallback,        \* the threshold of the environment
    Limits,          \* thresholds an administrator sets
    RateMaxTime, MaxHits            \* bounds on the clock and the requests let through

ASSUME RateAssumption ==
    /\ ServerSkew \in [Servers -> 0..RateSkew]
    /\ {RateSkew, RateStall, Window, ConfigTTL, RateMaxTime, MaxHits} \subseteq Nat
    /\ Limits \subseteq Nat \ {0} /\ Fallback \in Nat \ {0}
    /\ Window > RateSkew + RateStall

VARIABLES
    rateNow,
    zset,         \* the sorted set: numbers of hits
    hits,         \* the requests let through: true time and score
    asks,         \* the request in each slot
    outage,       \* Redis did not answer, or lost its keys
    configured,   \* limit_per_min in api_rate_limits, 0 without a row
    replaced,     \* history: when each threshold was last replaced
    known,        \* what each replica has in memory
    unread        \* history: the table could not be read

rateVars == <<rateNow, zset, hits, asks, outage>>
thresholdVars == <<configured, replaced, known, unread>>

Thresholds == Limits \cup {Fallback}
NoAsk == [pc |-> "idle", began |-> 0, limit |-> Fallback, clock |-> 0]
InForce == IF configured = 0 THEN Fallback ELSE configured

RateInit ==
    /\ rateNow = 0
    /\ zset = {} /\ hits = <<>>
    /\ asks = [a \in Asks |-> NoAsk]
    /\ outage = FALSE
    /\ configured = 0
    /\ replaced = [v \in Thresholds |-> 0]
    /\ known = [s \in Servers |-> [value |-> 0, at |-> -1 - ConfigTTL]]
    /\ unread = FALSE

-----------------------------------------------------------------------------
\* handleSetRateLimit.  No replica is told: Invalidate has no caller.
SetRateLimit(v) ==
    /\ v # configured
    /\ configured' = v
    /\ replaced' = [replaced EXCEPT ![InForce] = rateNow]
    /\ UNCHANGED <<rateVars, known, unread>>

\* ScopeRateLimiter.limit: what is in memory, read again when it is too old; if
\* the query fails the old one serves on, and the next request tries again.
TooOld(s) == rateNow - known[s].at > ConfigTTL
LoadThreshold(s) ==
    /\ TooOld(s)
    /\ \/ /\ known' = [known EXCEPT ![s] = [value |-> configured, at |-> rateNow]]
          /\ UNCHANGED unread
       \/ unread' = TRUE /\ UNCHANGED known
    /\ UNCHANGED <<rateVars, configured, replaced>>

\* The threshold a request gets from its replica.
Given(s) == IF known[s].value > 0 THEN known[s].value ELSE Fallback

\* Cache.RateLimit reads the clock of its replica and then calls Redis.
Ask(a, s) ==
    /\ asks[a].pc = "idle"
    /\ \E v \in Thresholds :
        asks' = [asks EXCEPT ![a] = [pc |-> "script", began |-> rateNow, limit |-> v,
                                     clock |-> rateNow + ServerSkew[s]]]
    /\ UNCHANGED <<rateNow, zset, hits, outage, thresholdVars>>

\* rlScript: what is older than the window goes, and everything when the last
\* member is (PEXPIRE).  Below the threshold the request becomes a member.
Alive == zset # {} /\ rateNow < hits[Len(hits)].at + Window
Kept(a) == {h \in IF Alive THEN zset ELSE {} : hits[h].score > asks[a].clock - Window}
Crowded(a) == Cardinality(Kept(a)) >= asks[a].limit

Hit(a) == [at |-> rateNow, score |-> asks[a].clock]

AdmitUncounted(a) ==
    /\ asks[a].pc = "script"
    /\ ~Crowded(a) /\ Len(hits) < MaxHits
    /\ hits' = Append(hits, Hit(a))
    /\ zset' = Kept(a)
    /\ asks' = [asks EXCEPT ![a] = NoAsk]
    /\ UNCHANGED <<rateNow, outage, thresholdVars>>
Admit(a) ==
    /\ asks[a].pc = "script"
    /\ ~Crowded(a) /\ Len(hits) < MaxHits
    /\ hits' = Append(hits, Hit(a))
    /\ zset' = Kept(a) \cup {Len(hits) + 1}
    /\ asks' = [asks EXCEPT ![a] = NoAsk]
    /\ UNCHANGED <<rateNow, outage, thresholdVars>>

\* RATE_LIMITED: nothing is added.
TurnAway(a) ==
    /\ asks[a].pc = "script"
    /\ Crowded(a)
    /\ zset' = Kept(a)
    /\ asks' = [asks EXCEPT ![a] = NoAsk]
    /\ UNCHANGED <<rateNow, hits, outage, thresholdVars>>

\* Redis does not answer: the request passes uncounted.
PassUncounted(a) ==
    /\ asks[a].pc = "script"
    /\ asks' = [asks EXCEPT ![a] = NoAsk]
    /\ outage' = TRUE
    /\ UNCHANGED <<rateNow, zset, hits, thresholdVars>>

\* Redis restarts without its keys.
LoseKeys ==
    /\ zset # {} /\ zset' = {}
    /\ outage' = TRUE
    /\ UNCHANGED <<rateNow, hits, asks, thresholdVars>>

RateTick ==
    /\ rateNow < RateMaxTime
    /\ \A a \in Asks : asks[a].pc # "idle" => rateNow - asks[a].began < RateStall
    /\ rateNow' = rateNow + 1
    /\ UNCHANGED <<zset, hits, asks, outage, thresholdVars>>

WindowNext ==
    \/ \E a \in Asks :
        \/ \E s \in Servers : Ask(a, s)
        \/ Admit(a) \/ TurnAway(a) \/ PassUncounted(a)
    \/ LoseKeys \/ RateTick
ThresholdNext ==
    \/ \E v \in Limits : SetRateLimit(v)
    \/ \E s \in Servers : LoadThreshold(s)
    \/ RateTick
RateNext == WindowNext \/ ThresholdNext

RateSpec == RateInit /\ [][RateNext]_<<rateVars, thresholdVars>>

-----------------------------------------------------------------------------
RateTypeOK ==
    /\ rateNow \in Nat
    /\ zset \subseteq 1..Len(hits)
    /\ hits \in Seq([at : Nat, score : Nat])
    /\ asks \in [Asks -> [pc : {"idle", "script"}, began : Nat, limit : Thresholds,
                          clock : Nat]]
    /\ outage \in BOOLEAN /\ unread \in BOOLEAN
    /\ configured \in Limits \cup {0}
    /\ replaced \in [Thresholds -> Nat]
    /\ known \in [Servers -> [value : Limits \cup {0}, at : Int]]

\* Hits so recent that no clock has them out of the window, and hits that some
\* clock can still have in it.
Recent(t, length) == {h \in 1..Len(hits) : t - hits[h].at < length}
Certain == Window - RateSkew - RateStall
Possible == Window + RateSkew + RateStall

\* The window, whatever the threshold: with allowance for clocks that differ
\* (rlScript has the score of whoever asks) and for the time a call takes, no
\* request is let through when as many as its threshold were let through in the
\* window while Redis kept its keys; and none is refused unless as many were, so
\* that who waits for a window gets through however often it asked in between.
WindowExact ==
    \A a \in Asks :
        asks[a].pc = "script" =>
            IF Crowded(a) THEN Cardinality(Recent(rateNow, Possible)) >= asks[a].limit
            ELSE outage \/ Cardinality(Recent(rateNow, Certain)) < asks[a].limit

\* The threshold: a replica that could read the table never gives one that was
\* replaced longer ago than its memory may be old (ScopeRateLimiter.limit).
ThresholdFresh ==
    ~unread =>
        \A s \in Servers :
            ~TooOld(s) /\ Given(s) # InForce => rateNow - replaced[Given(s)] <= ConfigTTL

\* An address is let through as often as the administrator allows, by the clocks and
\* the memories of all replicas (Cache.RateLimit, ScopeRateLimiter).
LimitApplied == WindowExact /\ ThresholdFresh
=============================================================================
