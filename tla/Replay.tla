-------------------------------- MODULE Replay --------------------------------
(***************************************************************************)
(* The replay gate in front of /v1: checkActivationReplay for activations, *)
(* checkReplay for the other signed requests of a device.  A request must  *)
(* carry a timestamp within MaxClockSkew of the server clock, a nonce that *)
(* Redis has not seen, and a sequence number above the last one, which     *)
(* Redis holds for a while and devices.last_seq holds for good.  The three *)
(* checks are separate steps, concurrent in all replicas; each call to     *)
(* Redis may fail, and Redis may lose everything.                          *)
(*                                                                         *)
(* One device, with one key, signs the messages.  The network delivers any *)
(* signed message at any time, any number of times, or never.  Signatures, *)
(* and what a request does once it is admitted, are left out (Licensing).  *)
(***************************************************************************)
EXTENDS Integers

CONSTANTS
    Nonces,         \* a message is known by its nonce
    Requests,       \* slots for requests in the gate at once
    NULL,
    ReplayWindow,   \* VFT_REPLAY_WINDOW
    SeqTTL,         \* how long Redis keeps a sequence number: ten replay windows
    MaxClockSkew,   \* VFT_MAX_CLOCK_SKEW
    ClockError,     \* how far the clock of the device may be off
    Stall,          \* longest time a request spends in the gate
    Faults,         \* what may go wrong with Redis
    SignedKinds,    \* the messages an instance signs
    MaxTime         \* bound on the clock

Kinds == {"activate", "heartbeat", "redeem"}   \* deactivate goes as redeem does
SeqKeys == {"activate", "device"}

\* The defaults of config.go are 300 s and 120 s; nothing there compares them.
ASSUME ReplayAssumption ==
    /\ NULL \notin Nonces
    /\ {ReplayWindow, SeqTTL, MaxClockSkew, ClockError, Stall, MaxTime} \subseteq Nat
    /\ ReplayWindow > MaxClockSkew + Stall
    /\ SeqTTL > 2 * MaxClockSkew + Stall
    /\ ClockError <= MaxClockSkew
    /\ Faults \subseteq {"nonce call", "seq call", "flush"}
    /\ SignedKinds \subseteq Kinds

VARIABLES
    msg,         \* the signed message of each nonce, or NULL
    clientSeq,   \* the counter of the device, last_seq of its state file
    nonceUntil,  \* Redis: when the key nonce:<scope>:<nonce> expires
    redisSeq,    \* Redis: the keys seq:dev:<id> and seq:dev:activate:<pub>
    redisUntil,  \* Redis: when they expire
    dbSeq,       \* devices.last_seq
    req,         \* the request in each slot
    now,
    faulted,     \* history: the faults Redis has met
    accepted,    \* history: how often each message was admitted; 2 for more
    refused,     \* history: why an activation was refused
    lastAccepted \* history: highest sequence number admitted from the device

redisVars == <<nonceUntil, redisSeq, redisUntil>>
history == <<accepted, refused, lastAccepted>>
vars == <<msg, clientSeq, redisVars, dbSeq, req, now, faulted, history>>

Messages == [kind : Kinds, seq : Nat, ts : Int]
RequestRecord == [pc : {"idle", "nonce", "seq", "db", "bump"},
                  nonce : Nonces \cup {NULL}, at : Nat]
NoRequest == [pc |-> "idle", nonce |-> NULL, at |-> 0]
Reasons == {"replay", "seq", "unavailable"}

SeqKey(n) == IF msg[n].kind = "activate" THEN "activate" ELSE "device"

Init ==
    /\ msg = [n \in Nonces |-> NULL]
    /\ clientSeq = 0
    /\ nonceUntil = [n \in Nonces |-> 0]
    /\ redisSeq = [k \in SeqKeys |-> -1]
    /\ redisUntil = [k \in SeqKeys |-> 0]
    /\ dbSeq = 0
    /\ req = [r \in Requests |-> NoRequest]
    /\ now = 0
    /\ faulted = {}
    /\ accepted = [n \in Nonces |-> 0]
    /\ refused = [n \in Nonces |-> {}]
    /\ lastAccepted = 0

-----------------------------------------------------------------------------
\* The device signs with its clock.  Its counter goes up, but activations of
\* the SDK are all signed with 0.
Sign(n, kind, error) ==
    /\ msg[n] = NULL
    /\ clientSeq' = IF kind = "activate" THEN clientSeq ELSE clientSeq + 1
    /\ msg' = [msg EXCEPT ![n] =
                  [kind |-> kind, ts |-> now + error,
                   seq |-> IF kind = "activate" THEN 0 ELSE clientSeq']]
    /\ UNCHANGED <<redisVars, dbSeq, req, now, faulted, history>>

Refuse(r, reason) ==
    /\ refused' = IF SeqKey(req[r].nonce) = "device" THEN refused
                  ELSE [refused EXCEPT ![req[r].nonce] = @ \cup {reason}]
    /\ req' = [req EXCEPT ![r] = NoRequest]
    /\ UNCHANGED <<accepted, lastAccepted>>

\* The handler goes on; a heartbeat writes last_seq at its end.
Accept(r) ==
    LET n == req[r].nonce
    IN  /\ accepted' = [accepted EXCEPT ![n] = IF @ = 2 THEN 2 ELSE @ + 1]
        /\ lastAccepted' = IF SeqKey(n) = "device" /\ msg[n].seq > lastAccepted
                           THEN msg[n].seq ELSE lastAccepted
        /\ req' = [req EXCEPT ![r] = IF msg[n].kind = "heartbeat"
                                     THEN [@ EXCEPT !.pc = "bump"] ELSE NoRequest]
        /\ UNCHANGED refused

GoesOn(r, pc) ==
    /\ req' = [req EXCEPT ![r].pc = pc]
    /\ UNCHANGED history

\* A message arrives, the first time or again; one with a timestamp out of the
\* window is refused at once.
InWindow(n) == msg[n].ts >= now - MaxClockSkew /\ msg[n].ts <= now + MaxClockSkew

ArrivalAtTimestamp(n) == [pc |-> "nonce", nonce |-> n, at |-> msg[n].ts]
Arrival(n) == [pc |-> "nonce", nonce |-> n, at |-> now]

Deliver(r, n) ==
    /\ req[r].pc = "idle"
    /\ msg[n] # NULL
    /\ InWindow(n)
    /\ req' = [req EXCEPT ![r] = Arrival(n)]
    /\ UNCHANGED <<msg, clientSeq, redisVars, dbSeq, now, faulted, history>>

\* SET NX with a TTL.
NonceFresh(n) == now >= nonceUntil[n]

TakeNonceBriefly(n) == nonceUntil' = [nonceUntil EXCEPT ![n] = now + MaxClockSkew]
TakeNonce(n) ==
    nonceUntil' = [nonceUntil EXCEPT ![n] = now + ReplayWindow + MaxClockSkew]

ConsumeNonce(r) ==
    LET n == req[r].nonce
    IN  /\ req[r].pc = "nonce"
        /\ \/ NonceFresh(n) /\ TakeNonce(n) /\ GoesOn(r, "seq")
           \/ ~NonceFresh(n) /\ UNCHANGED nonceUntil /\ Refuse(r, "replay")
        /\ UNCHANGED <<msg, clientSeq, redisSeq, redisUntil, dbSeq, now, faulted>>

\* The call fails, with or without its effect: an activation is refused, the
\* rest rely on the sequence number.
NonceCallFails(r) ==
    LET n == req[r].nonce
    IN  /\ req[r].pc = "nonce"
        /\ "nonce call" \in Faults
        /\ faulted' = faulted \cup {"nonce call"}
        /\ UNCHANGED nonceUntil \/ (NonceFresh(n) /\ TakeNonce(n))
        /\ IF msg[n].kind = "activate" THEN Refuse(r, "unavailable") ELSE GoesOn(r, "seq")
        /\ UNCHANGED <<msg, clientSeq, redisSeq, redisUntil, dbSeq, now>>

\* seqScript.  CheckSeq reports a key that is not there as known.
SeqKnown(k) == IF now < redisUntil[k] THEN redisSeq[k] ELSE -1

StoreSeqBriefly(k, seq) ==
    /\ redisSeq' = [redisSeq EXCEPT ![k] = seq]
    /\ redisUntil' = [redisUntil EXCEPT ![k] = now + MaxClockSkew]
StoreSeq(k, seq) ==
    /\ redisSeq' = [redisSeq EXCEPT ![k] = seq]
    /\ redisUntil' = [redisUntil EXCEPT ![k] = now + SeqTTL]

CheckSeq(r) ==
    LET n == req[r].nonce
        k == SeqKey(n)
    IN  /\ req[r].pc = "seq"
        /\ \/ /\ msg[n].seq > SeqKnown(k)
              /\ StoreSeq(k, msg[n].seq)
              /\ Accept(r)
           \/ /\ msg[n].seq <= SeqKnown(k)
              /\ UNCHANGED <<redisSeq, redisUntil>>
              /\ Refuse(r, "seq")
        /\ UNCHANGED <<msg, clientSeq, nonceUntil, dbSeq, now, faulted>>

SeqCallFails(r) ==
    /\ req[r].pc = "seq"
    /\ "seq call" \in Faults
    /\ faulted' = faulted \cup {"seq call"}
    /\ IF msg[req[r].nonce].kind = "activate" THEN Refuse(r, "unavailable")
                                              ELSE GoesOn(r, "db")
    /\ UNCHANGED <<msg, clientSeq, redisVars, dbSeq, now>>

\* AcceptDeviceSeq, one guarded UPDATE.
SeqNewToDb(n) == dbSeq < msg[n].seq

AcceptDeviceSeq(r) ==
    LET n == req[r].nonce
    IN  /\ req[r].pc = "db"
        /\ \/ SeqNewToDb(n) /\ dbSeq' = msg[n].seq /\ Accept(r)
           \/ ~SeqNewToDb(n) /\ UNCHANGED dbSeq /\ Refuse(r, "seq")
        /\ UNCHANGED <<msg, clientSeq, redisVars, now, faulted>>

\* BumpDeviceHeartbeat; a heartbeat that fails before it leaves last_seq alone.
Bumped(seq) == IF seq > dbSeq THEN seq ELSE dbSeq

BumpDeviceHeartbeat(r) ==
    /\ req[r].pc = "bump"
    /\ dbSeq' = Bumped(msg[req[r].nonce].seq)
    /\ req' = [req EXCEPT ![r] = NoRequest]
    /\ UNCHANGED <<msg, clientSeq, redisVars, now, faulted, history>>

\* The request fails wherever it is, or its replica crashes.
Abandon(r) ==
    /\ req[r].pc # "idle"
    /\ req' = [req EXCEPT ![r] = NoRequest]
    /\ UNCHANGED <<msg, clientSeq, redisVars, dbSeq, now, faulted, history>>

\* Redis restarts empty.
Flush ==
    /\ "flush" \in Faults
    /\ faulted' = faulted \cup {"flush"}
    /\ nonceUntil' = [n \in Nonces |-> 0]
    /\ redisSeq' = [k \in SeqKeys |-> -1]
    /\ redisUntil' = [k \in SeqKeys |-> 0]
    /\ UNCHANGED <<msg, clientSeq, dbSeq, req, now, history>>

\* No request is in the gate for longer than Stall.
Tick ==
    /\ now < MaxTime
    /\ \A r \in Requests : req[r].pc \in {"nonce", "seq", "db"} => now < req[r].at + Stall
    /\ now' = now + 1
    /\ UNCHANGED <<msg, clientSeq, redisVars, dbSeq, req, faulted, history>>

Gate(r) ==
    \/ ConsumeNonce(r)
    \/ NonceCallFails(r)
    \/ CheckSeq(r)
    \/ SeqCallFails(r)
    \/ AcceptDeviceSeq(r)
    \/ BumpDeviceHeartbeat(r)
    \/ Abandon(r)

Next ==
    \/ \E n \in Nonces, kind \in SignedKinds, e \in -ClockError .. ClockError :
          Sign(n, kind, e)
    \/ \E r \in Requests, n \in Nonces : Deliver(r, n)
    \/ \E r \in Requests : Gate(r)
    \/ Flush
    \/ Tick

Spec == Init /\ [][Next]_vars

-----------------------------------------------------------------------------
TypeOK ==
    /\ msg \in [Nonces -> Messages \cup {NULL}]
    /\ clientSeq \in Nat
    /\ nonceUntil \in [Nonces -> Nat]
    /\ redisSeq \in [SeqKeys -> Nat \cup {-1}]
    /\ redisUntil \in [SeqKeys -> Nat]
    /\ dbSeq \in Nat
    /\ req \in [Requests -> RequestRecord]
    /\ now \in Nat
    /\ faulted \subseteq Faults
    /\ accepted \in [Nonces -> 0 .. 2]
    /\ refused \in [Nonces -> SUBSET Reasons]
    /\ lastAccepted \in Nat

\* A signed message is admitted at most once, however often, late and in
\* whatever replicas at once it arrives ("nonce 原子消费", PROTOCOL.md), as long as
\* Redis has answered every nonce check and lost nothing; failing sequence calls
\* do not matter.  The nonce outlives the timestamp because ReplayWindow is
\* longer than MaxClockSkew + Stall.
NoncesKept == "nonce call" \notin faulted /\ "flush" \notin faulted
AcceptedOnce == NoncesKept => \A n \in Nonces : accepted[n] <= 1

\* As long as Redis has not failed, a device message is never admitted after one
\* with a higher sequence number, also after the key in Redis has expired: by
\* then the timestamp is too old ("序列号严格递增", PROTOCOL.md; CheckSeq).
AcceptedInOrder ==
    [][faulted' = {} => \A n \in Nonces :
          accepted'[n] > accepted[n] /\ SeqKey(n) = "device"
              => msg[n].seq > lastAccepted]_vars

\* As long as Redis has not failed, a device message that is admitted is new to
\* devices.last_seq ("防重放最终事实", 0001_init.sql): the two stores agree.
NewToDatabase ==
    [][faulted' = {} => \A n \in Nonces :
          accepted'[n] > accepted[n] /\ SeqKey(n) = "device"
              => msg[n].seq > dbSeq]_vars

\* Whatever fails and whatever races, devices.last_seq never falls back, so a
\* number the fallback has refused stays refused ("DB 为最终事实",
\* BumpDeviceHeartbeat, AcceptDeviceSeq).
LastSeqNeverFalls == [][dbSeq' >= dbSeq]_vars

-----------------------------------------------------------------------------
(***************************************************************************)
(* What a document says and the code does not do.                          *)
(***************************************************************************)

\* An activation that met a network failure can be tried again ("VFT_E_NETWORK:
\* 暂时性，提示重试", sdk-integration.md:60).  The SDK signs each with seq 0.
ActivationCanBeRetried == \A n \in Nonces : "seq" \notin refused[n]
=============================================================================
