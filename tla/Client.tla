-------------------------------- MODULE Client --------------------------------
(***************************************************************************)
(* The Windows SDK of one device: the thread of the host application and   *)
(* the heartbeat thread, the SdkState they share, its copy in state.bin,   *)
(* and the pinned signing keys.  The host process may crash and start      *)
(* again, and the network may lose a request or its answer.  A careful     *)
(* host stops the heartbeat before it makes a signed call of its own; for  *)
(* another one the two threads meet, and SdkState has no lock.             *)
(*                                                                         *)
(* The server is reduced to what its answers depend on: the device row,    *)
(* the status of the licence, the last sequence number admitted (Replay)   *)
(* and the signing keys.  Its clock is the client's (server_delta), its    *)
(* answers are whole and honest, and a licence does not expire by date     *)
(* here.  One read or write of SdkState is one step, and so is the reading *)
(* of all of it to save it.                                                *)
(***************************************************************************)
EXTENDS Integers

CONSTANTS
    SignKeys,    \* signing keys of leases, by kid
    FirstKey,    \* the one in use at first
    NULL,
    Garbled,     \* a file that does not decrypt
    LeaseTTL,
    Grace,       \* offline_grace_seconds of the plan
    Hosts,       \* which hosts are looked at: "careful", "careless"
    Rotating,    \* bound: the hosts for which keys are rotated
    MaxSeq,      \* bound on the sequence numbers, for each host
    MaxTime      \* bound on the clock

Leases == [key : SignKeys, exp : Nat]
SdkState == [seq : Nat, lease : Leases \cup {NULL}, pins : SUBSET SignKeys]

ASSUME ClientAssumption ==
    /\ FirstKey \in SignKeys
    /\ NULL \notin Leases \cup SdkState /\ Garbled \notin SdkState
    /\ {LeaseTTL, Grace, MaxTime} \subseteq Nat /\ MaxSeq \in [Hosts -> Nat]
    /\ Hosts \subseteq {"careful", "careless"} /\ Rotating \subseteq Hosts

VARIABLES
    host,
    file,        \* state.bin
    tmp,         \* state.bin.tmp
    st,          \* SdkState; device_id and license_id are set when lease is
    up,          \* the host process runs
    hbRun,
    thr,         \* where each thread is, and the request it works on
    keys,        \* server: VFT_SIGN_KEYS, which /v1/bootstrap publishes
    active,      \* server: VFT_SIGN_ACTIVE_KID
    licence,     \* server: licenses.status
    device,      \* server: devices.status, or "none"
    serverSeq,   \* server: the last sequence number admitted
    now,
    unsaved,     \* history: "yes" while a number in use may not be in state.bin,
                 \* "lost" once the process ended then
    badInRow,    \* history: answers not trusted in a row, with one active key
    revokedAt    \* history: when the licence was revoked

stored == <<host, file, tmp>>
clientVars == <<stored, st, up, hbRun, thr>>
serverVars == <<keys, active, licence, device, serverSeq, revokedAt>>
history == <<unsaved, badInRow>>
vars == <<clientVars, serverVars, now, history>>

Threads == {"app", "beat"}
Calls == {"activate", "redeem", "deactivate"}
Answers == {"none", "ok", "network", "device", "replay", "licence", "other"}
Thread == [pc : {"idle", "read", "write", "sent", "answered", "adopt", "install", "clear",
                 "save", "replace", "done", "join", "off", "loop", "wait"},
           op : Calls \cup {"heartbeat"}, seq : Nat, ans : Answers, got : Leases \cup {NULL},
           next : {"adopt", "install", "clear", "done"}, told : {"none", "active", "revoked"}]

At(pc) == [pc |-> pc, op |-> "heartbeat", seq |-> 0, ans |-> "none", got |-> NULL,
           next |-> "done", told |-> "none"]
Threadless == [t \in Threads |-> At(IF t = "app" THEN "idle" ELSE "off")]
EmptyState == [seq |-> 0, lease |-> NULL, pins |-> {}]

Init ==
    /\ host \in Hosts
    /\ file = EmptyState /\ st = EmptyState /\ tmp = NULL
    /\ up = FALSE /\ hbRun = FALSE /\ thr = Threadless
    /\ keys = {FirstKey} /\ active = FirstKey
    /\ licence = "active" /\ device = "none" /\ serverSeq = 0 /\ revokedAt = 0
    /\ now = 0
    /\ unsaved = "no" /\ badInRow = 0

Go(t, pc) == thr' = [thr EXCEPT ![t].pc = pc]
\* Save, then go on at next.
GoSaving(t, next) == thr' = [thr EXCEPT ![t].pc = "save", ![t].next = next]

-----------------------------------------------------------------------------
BootForgetful(loaded) == st' = [loaded EXCEPT !.pins = keys] /\ file' = st'

\* lumistar_init: the first bootstrap pins the keys it sees (TOFU); without a
\* network the pinned keys must do.
Boot(loaded) ==
    \/ LET pinned == IF loaded.pins = {} THEN keys ELSE loaded.pins
       IN  /\ st' = [loaded EXCEPT !.pins = pinned]
           /\ file' = IF loaded.pins = {} THEN st' ELSE file
    \/ /\ loaded.pins # {}
       /\ st' = loaded
       /\ UNCHANGED file

\* A file that does not decrypt is deleted, the private key in it too: the
\* server does not know the device that comes up.
Start ==
    /\ ~up
    /\ up' = TRUE
    /\ \/ file # Garbled /\ Boot(file) /\ UNCHANGED <<device, serverSeq>>
       \/ file = Garbled /\ Boot(EmptyState) /\ device' = "none" /\ serverSeq' = 0
    /\ UNCHANGED <<host, tmp, hbRun, thr, keys, active, licence, revokedAt, now, history>>

\* The host exits or crashes; only state.bin is left.
Crash ==
    /\ up
    /\ up' = FALSE
    /\ st' = EmptyState /\ tmp' = NULL
    /\ hbRun' = FALSE
    /\ thr' = Threadless
    /\ unsaved' = IF unsaved = "no" THEN "no" ELSE "lost"
    /\ UNCHANGED <<host, file, serverVars, now, badInRow>>

-----------------------------------------------------------------------------
(***************************************************************************)
(* post_signed, adopt_lease and save_state, in either thread.              *)
(***************************************************************************)

\* ++st.seq, without a lock.
ReadSeq(t) ==
    /\ thr[t].pc = "read"
    /\ thr' = [thr EXCEPT ![t].pc = "write", ![t].seq = st.seq + 1]
    /\ UNCHANGED <<stored, st, up, hbRun, serverVars, now, history>>

WriteSeq(t) ==
    /\ thr[t].pc = "write"
    /\ st' = [st EXCEPT !.seq = thr[t].seq]
    /\ Go(t, "sent")
    /\ unsaved' = IF unsaved = "no" THEN "yes" ELSE unsaved
    /\ UNCHANGED <<stored, up, hbRun, serverVars, now, badInRow>>

\* The request or its answer is lost: status 0.
Lose(t) ==
    /\ thr[t].pc \in {"sent", "answered"}
    /\ thr[t].ans # "network"
    /\ thr' = [thr EXCEPT ![t].pc = "answered", ![t].ans = "network", ![t].got = NULL]
    /\ UNCHANGED <<stored, st, up, hbRun, serverVars, now, history>>

\* post_signed returns; the number of a request that succeeded is saved.  The
\* heartbeat thread tells the host that a refusal is a revocation.
Return(t) ==
    LET r == thr[t]
        next == IF r.op = "deactivate" THEN "clear" ELSE "adopt"
    IN  /\ r.pc = "answered"
        /\ \/ /\ r.ans = "ok"
              /\ thr' = [thr EXCEPT ![t].pc = IF r.op = "activate" THEN next ELSE "save",
                                    ![t].next = next, ![t].seq = 0]
           \/ /\ r.ans # "ok"
              /\ thr' = [thr EXCEPT ![t].pc = "done", ![t].seq = 0,
                    ![t].told = IF t = "beat" /\ r.ans # "network" THEN "revoked" ELSE "none"]
        /\ UNCHANGED <<stored, st, up, hbRun, serverVars, now, history>>

HoldsValidLease == st.lease # NULL /\ st.lease.key \in st.pins /\ now <= st.lease.exp

PinnedOnly(more) == [st EXCEPT !.pins = more]

\* bootstrap(true) only adds keys.
Pinned(more) == [st EXCEPT !.pins = @ \cup more]

\* adopt_lease is over; the heartbeat thread tells the host "active", however
\* it ended.
GoAdopted(t, pc) ==
    thr' = [thr EXCEPT ![t].pc = pc, ![t].next = "done", ![t].got = NULL,
                       ![t].told = IF t = "beat" THEN "active" ELSE "none"]

\* A lease under a key that is not pinned is trusted after another bootstrap,
\* if the old lease still holds and that bootstrap gets through.
Adopt(t) ==
    LET r == thr[t]
    IN  /\ r.pc = "adopt"
        /\ \/ /\ r.got.key \in st.pins
              /\ Go(t, "install")
              /\ badInRow' = 0
              /\ UNCHANGED st
           \/ /\ r.got.key \notin st.pins
              /\ HoldsValidLease
              /\ st' = Pinned(keys)
              /\ badInRow' = 0
              /\ IF r.got.key \in st'.pins THEN GoSaving(t, "install") ELSE GoAdopted(t, "save")
           \/ /\ r.got.key \notin st.pins
              /\ GoAdopted(t, "done")
              /\ badInRow' = IF HoldsValidLease \/ badInRow = 2 THEN badInRow ELSE badInRow + 1
              /\ UNCHANGED st
        /\ UNCHANGED <<stored, up, hbRun, serverVars, now, unsaved>>

Install(t) ==
    /\ thr[t].pc = "install"
    /\ st' = [st EXCEPT !.lease = thr[t].got]
    /\ GoAdopted(t, "save")
    /\ UNCHANGED <<stored, up, hbRun, serverVars, now, history>>

SerializedWithoutSeq == [st EXCEPT !.seq = 0]

\* The content saved.
Serialized == st

Saving(t) == thr[t].pc = "replace"

\* Both threads write to one file: what two of them leave may not decrypt.
Serialize(t) ==
    /\ thr[t].pc = "save"
    /\ \/ tmp' = Serialized
       \/ tmp' = Garbled /\ \E other \in Threads \ {t} : Saving(other)
    /\ Go(t, "replace")
    /\ UNCHANGED <<host, file, st, up, hbRun, serverVars, now, history>>

\* MoveFileEx, whose result is not looked at: it fails while the other thread
\* has the file open, and when that one has moved it away.
Replace(t) ==
    /\ Saving(t)
    /\ \/ tmp # NULL /\ file' = tmp /\ tmp' = NULL
       \/ /\ tmp = NULL \/ \E other \in Threads \ {t} : Saving(other)
          /\ UNCHANGED <<file, tmp>>
    /\ Go(t, thr[t].next)
    /\ unsaved' = IF unsaved = "yes" /\ thr[t].next \in {"adopt", "clear"} THEN "no" ELSE unsaved
    /\ UNCHANGED <<host, st, up, hbRun, serverVars, now, badInRow>>

Done(t) ==
    /\ thr[t].pc = "done"
    /\ thr' = [thr EXCEPT ![t] = At(IF t = "app" THEN "idle" ELSE "wait")]
    /\ UNCHANGED <<stored, st, up, hbRun, serverVars, now, history>>

-----------------------------------------------------------------------------
(***************************************************************************)
(* The application thread.                                                 *)
(***************************************************************************)

\* lumistar_activate, which signs with 0, lumistar_redeem, lumistar_deactivate.
Call(op) ==
    /\ up
    /\ thr["app"].pc = "idle"
    /\ host = "careful" => ~hbRun
    /\ st.seq < MaxSeq[host]
    /\ thr' = [thr EXCEPT !["app"] =
                  [At(IF op = "activate" THEN "sent" ELSE "read") EXCEPT !.op = op]]
    /\ UNCHANGED <<stored, st, up, hbRun, serverVars, now, history>>

ClearDeactivated ==
    /\ thr["app"].pc = "clear"
    /\ st' = [st EXCEPT !.lease = NULL]
    /\ GoSaving("app", "done")
    /\ UNCHANGED <<stored, up, hbRun, serverVars, now, history>>

StartHeartbeat ==
    /\ up
    /\ thr["app"].pc = "idle"
    /\ ~hbRun
    /\ hbRun' = TRUE
    /\ thr' = [thr EXCEPT !["beat"] = At("loop")]
    /\ UNCHANGED <<stored, st, up, serverVars, now, history>>

\* lumistar_stop_heartbeat: clear hbRun, notify, join.
StopHeartbeat ==
    /\ thr["app"].pc = "idle"
    /\ hbRun
    /\ hbRun' = FALSE
    /\ Go("app", "join")
    /\ UNCHANGED <<stored, st, up, serverVars, now, history>>

BeatNotJoined == TRUE

BeatJoined == thr["beat"].pc = "off"

Join ==
    /\ thr["app"].pc = "join"
    /\ BeatJoined
    /\ Go("app", "idle")
    /\ UNCHANGED <<stored, st, up, hbRun, serverVars, now, history>>

-----------------------------------------------------------------------------
RunningForEver == TRUE

\* heartbeat_loop: one heartbeat at once, then one per interval.
Running == hbRun
\* st.device_id is set; and the bound on the numbers.
Activated == st.lease # NULL /\ st.seq < MaxSeq[host]

Beat ==
    /\ thr["beat"].pc = "loop"
    /\ Go("beat", CASE ~Running -> "off"
                    [] Running /\ Activated -> "read"
                    [] Running /\ ~Activated -> "wait")
    /\ UNCHANGED <<stored, st, up, hbRun, serverVars, now, history>>

\* wait_for returns: the interval is over, or stop_heartbeat was heard.
Wake ==
    /\ thr["beat"].pc = "wait"
    /\ Go("beat", "loop")
    /\ UNCHANGED <<stored, st, up, hbRun, serverVars, now, history>>

-----------------------------------------------------------------------------
(***************************************************************************)
(* The server.                                                             *)
(***************************************************************************)

Answer(t, ans, got) ==
    thr' = [thr EXCEPT ![t].pc = "answered", ![t].ans = ans, ![t].got = got]

Lease == [key |-> active, exp |-> now + LeaseTTL]

RenewableOnce == licence = "active" \/ now <= revokedAt + LeaseTTL
Renewable == licence = "active"

\* A device row that was unbound stays so (service.go:379).
ServeActivate(t) ==
    /\ thr[t].op = "activate"
    /\ Renewable
    /\ device' = IF device = "none" THEN "bound" ELSE device
    /\ Answer(t, "ok", Lease)
    /\ UNCHANGED serverSeq

\* The device row, then the sequence number, then the licence.
ServeSigned(t) ==
    LET r == thr[t]
    IN  /\ r.op # "activate"
        /\ device = "bound"
        /\ r.seq > serverSeq
        /\ serverSeq' = r.seq
        /\ \/ /\ r.op = "deactivate"
              /\ device' = "unbound"
              /\ Answer(t, "ok", NULL)
           \/ /\ r.op # "deactivate"
              /\ Renewable
              /\ Answer(t, "ok", Lease)
              /\ UNCHANGED device
           \/ /\ r.op # "deactivate"
              /\ ~Renewable
              /\ Answer(t, "licence", NULL)
              /\ UNCHANGED device

\* "other" is RATE_LIMITED, an internal error, a refused card.
Refuse(t) ==
    /\ \/ Answer(t, "other", NULL)
       \/ thr[t].op = "activate" /\ licence # "active" /\ Answer(t, "licence", NULL)
       \/ thr[t].op # "activate" /\ device # "bound" /\ Answer(t, "device", NULL)
       \/ /\ thr[t].op # "activate" /\ device = "bound" /\ thr[t].seq <= serverSeq
          /\ Answer(t, "replay", NULL)
    /\ UNCHANGED <<device, serverSeq>>

Serve(t) ==
    /\ thr[t].pc = "sent"
    /\ ServeActivate(t) \/ ServeSigned(t) \/ Refuse(t)
    /\ UNCHANGED <<stored, st, up, hbRun, keys, active, licence, revokedAt, now, history>>

Revoke ==
    /\ licence = "active"
    /\ licence' = "revoked"
    /\ revokedAt' = now
    /\ UNCHANGED <<clientVars, keys, active, device, serverSeq, now, history>>

AdminUnbind ==
    /\ device = "bound"
    /\ device' = "unbound"
    /\ UNCHANGED <<clientVars, keys, active, licence, serverSeq, revokedAt, now, history>>

\* Key rotation (operations.md): publish a new key and sign with it; later
\* take the old one away.
Rotate(k) ==
    /\ host \in Rotating
    /\ k \notin keys
    /\ keys' = keys \cup {k}
    /\ active' = k
    /\ badInRow' = 0
    /\ UNCHANGED <<clientVars, licence, device, serverSeq, revokedAt, now, unsaved>>

RetirableAny == keys

\* The active key must be one of the configured ones.
Retirable == keys \ {active}

Retire(k) ==
    /\ k \in Retirable
    /\ keys' = keys \ {k}
    /\ UNCHANGED <<clientVars, active, licence, device, serverSeq, revokedAt, now, history>>

Tick ==
    /\ now < MaxTime
    /\ now' = now + 1
    /\ UNCHANGED <<clientVars, serverVars, history>>

-----------------------------------------------------------------------------
Post(t) ==
    \/ ReadSeq(t) \/ WriteSeq(t) \/ Lose(t) \/ Serve(t) \/ Return(t)
    \/ Adopt(t) \/ Install(t) \/ Serialize(t) \/ Replace(t) \/ Done(t)

Next ==
    \/ Start \/ Crash
    \/ \E t \in Threads : Post(t)
    \/ \E op \in Calls : Call(op)
    \/ ClearDeactivated \/ StartHeartbeat \/ StopHeartbeat \/ Join
    \/ Beat \/ Wake
    \/ Revoke \/ AdminUnbind \/ Tick
    \/ \E k \in SignKeys : Rotate(k) \/ Retire(k)

\* Threads that can go on do so, and a request is answered or times out.
Fairness ==
    /\ \A t \in Threads : WF_vars(Post(t))
    /\ WF_vars(ClearDeactivated) /\ WF_vars(Join) /\ WF_vars(Beat) /\ WF_vars(Wake)

Spec == Init /\ [][Next]_vars /\ Fairness

-----------------------------------------------------------------------------
\* Every variable has its type, and the server signs with a key it publishes.
TypeOK ==
    /\ host \in Hosts
    /\ file \in SdkState \cup {Garbled} /\ tmp \in SdkState \cup {Garbled, NULL}
    /\ st \in SdkState
    /\ up \in BOOLEAN /\ hbRun \in BOOLEAN
    /\ thr \in [Threads -> Thread]
    /\ keys \subseteq SignKeys /\ active \in keys
    /\ licence \in {"active", "revoked"}
    /\ device \in {"none", "bound", "unbound"}
    /\ serverSeq \in Nat /\ now \in Nat /\ revokedAt \in Nat
    /\ unsaved \in {"no", "yes", "lost"} /\ badInRow \in 0 .. 2

\* lumistar_get_state.
State ==
    CASE st.lease = NULL -> "not activated"
      [] st.lease # NULL /\ st.lease.key \notin st.pins -> "error"
      [] st.lease # NULL /\ st.lease.key \in st.pins ->
            IF now > st.lease.exp + Grace THEN "stale" ELSE "active"

\* lumistar_has_feature, of a feature in the lease.
HasFeature == st.lease # NULL /\ st.lease.key \in st.pins /\ now <= st.lease.exp

\* Whatever crashes, whichever keys are rotated and whichever threads meet, the
\* lease in state.bin verifies under the keys pinned there, so the cached lease
\* still holds after a restart without a network (lumistar_init, adopt_lease).
SavedLeaseVerifies ==
    /\ file # Garbled /\ file.lease # NULL => file.lease.key \in file.pins
    /\ up => State # "error"

\* For a careful host, what state.bin holds is never lost, by no crash and no
\* later save: the pinned keys are only added to ("只增不减", sdk.cpp:275), the
\* sequence number only grows, and the file always decrypts.
StateBinKeepsUp ==
    [][host = "careful" =>
          /\ file' # Garbled
          /\ file.pins \subseteq file'.pins
          /\ file.seq <= file'.seq]_vars

\* For a careful host whose process never ended with a number in use, no request
\* is taken for a replay or for an old sequence number: every number signed is
\* new to the server, over losses, refusals and restarts (post_signed).
NumbersStayAhead ==
    host = "careful" /\ unsaved # "lost" => \A t \in Threads : thr[t].ans # "replay"

\* After a careful host deactivated the device, no lease comes back until it
\* activates or redeems again, in memory or in state.bin, from no thread and
\* from no restart (lumistar_deactivate, adopt_lease; sdk-integration.md:71).
DeactivatedForGood ==
    [][/\ host = "careful"
       /\ \/ up /\ st.lease = NULL /\ st'.lease # NULL
          \/ file # Garbled /\ file.lease = NULL /\ file' # Garbled /\ file'.lease # NULL
       => thr["app"].op \in {"activate", "redeem"}]_vars

\* Whatever was in flight, cached or restarted when the licence was revoked, the
\* application has no feature longer than a lease, and is not active longer than
\* its grace (has_feature, current_state).
RevocationReachesClient ==
    licence = "revoked" =>
        /\ up /\ HasFeature => now <= revokedAt + LeaseTTL
        /\ up /\ State = "active" => now <= revokedAt + LeaseTTL + Grace

\* stop_heartbeat returns, whatever the heartbeat thread is doing: the network
\* calls time out and the wait is not for ever (heartbeat_loop, hbCv.wait_for).
StopReturns == thr["app"].pc = "join" ~> thr["app"].pc = "idle"

-----------------------------------------------------------------------------
(***************************************************************************)
(* What documents say and the code does not do.                            *)
(***************************************************************************)

\* An untrusted answer is temporary ("VFT_E_BAD_RESPONSE: 暂时性，提示重试",
\* sdk-integration.md:60).  Once the lease of a device has lapsed while the
\* signing key was rotated, no answer is ever trusted again.
BadResponseIsTemporary == badInRow < 2
=============================================================================
