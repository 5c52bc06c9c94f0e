----------------------------- MODULE ClientProofs ------------------------------
(***************************************************************************)
(* What the SDK keeps is never lost and never used too long, for any       *)
(* number of keys, calls and crashes.  For every host, each lease, in the  *)
(* state, a file or a hand, has its key and ends in time (LeasesSound).    *)
(* For a careful one, what is between the counter, the file and the server *)
(* (Careful), since one thread at a time works.                            *)
(***************************************************************************)
EXTENDS Client, TLAPS

\* Which steps each thread can be at; a process that is down has no threads.
Shapes ==
    /\ thr["app"].pc \notin {"off", "loop", "wait"}
    /\ thr["beat"].pc \notin {"idle", "join", "clear"}
    /\ thr["beat"].op = "heartbeat" /\ thr["beat"].next # "clear"
    /\ ~up => thr = Threadless /\ ~hbRun /\ st = EmptyState
    /\ ~hbRun /\ thr["app"].pc # "join" => thr["beat"].pc = "off"

\* A lease verifies under the keys that are pinned beside it ...
Verifies(x) == x.lease # NULL => x.lease.key \in x.pins
\* ... and does not outlive a revocation, nor what the server can have issued.
Dated(lease) ==
    lease # NULL => /\ lease.exp <= now + LeaseTTL
                    /\ licence = "revoked" => lease.exp <= revokedAt + LeaseTTL

\* On its way to be installed, with a lease in hand.
Bringing(r, pcs) == r.pc \in pcs \/ (r.pc \in {"save", "replace"} /\ r.next \in pcs)

LeasesSound ==
    /\ Verifies(st) /\ Dated(st.lease)
    /\ file # Garbled => Verifies(file) /\ Dated(file.lease)
    /\ tmp \notin {Garbled, NULL} => Verifies(tmp) /\ Dated(tmp.lease)
    /\ \A t \in Threads :
        /\ Dated(thr[t].got)
        /\ Bringing(thr[t], {"install"}) /\ thr[t].got # NULL => thr[t].got.key \in st.pins

\* In the middle of a call or of a heartbeat.
Working(t) == thr[t].pc \notin {"idle", "join", "off", "loop", "wait"}

\* What a thread of a careful host knows of the numbers and of the file.
Knows(r) ==
    /\ r.pc = "write" => r.seq = st.seq + 1
    /\ r.pc = "sent" /\ r.op # "activate" =>
          unsaved # "no" /\ r.seq = st.seq /\ (unsaved # "lost" => serverSeq < r.seq)
    /\ r.pc = "replace" => tmp = st
    /\ r.ans = "replay" => unsaved = "lost"
    /\ Bringing(r, {"adopt", "install"}) => r.got # NULL
    /\ r.pc = "answered" /\ r.ans = "ok" /\ r.op # "deactivate" => r.got # NULL

Renewing(r) == r.op \in {"activate", "redeem"}

Careful ==
    /\ Working("app") => ~hbRun /\ thr["app"].op \in Calls
    /\ file # Garbled
    /\ \A t \in Threads : Knows(thr[t])
    /\ up => /\ file.pins \subseteq st.pins /\ file.seq <= st.seq
             /\ unsaved # "lost" => serverSeq <= st.seq
             /\ st.lease # NULL /\ file.lease = NULL =>
                   /\ Renewing(thr["app"]) /\ thr["app"].next = "done"
                   /\ thr["app"].pc \in {"save", "replace"}
    /\ unsaved = "no" => serverSeq <= file.seq
    /\ unsaved = "yes" => up
    /\ Working("beat") => st.lease # NULL
    /\ Bringing(thr["app"], {"adopt", "install"}) => Renewing(thr["app"])

-----------------------------------------------------------------------------
LEMMA ClientBounds ==
    /\ FirstKey \in SignKeys /\ LeaseTTL \in Nat /\ Grace \in Nat
    /\ NULL \notin Leases /\ NULL \notin SdkState /\ Garbled \notin SdkState
BY ClientAssumption

\* The steps of a thread, whichever it is.
LEMMA TypePost ==
    ASSUME TypeOK, NEW t \in Threads, Post(t)
    PROVE  TypeOK'
<1>1. thr[t] \in Thread /\ thr \in [Threads -> Thread] /\ st \in SdkState
      BY DEF TypeOK
<1>2. ASSUME ReadSeq(t) PROVE TypeOK'
  <2>1. [thr[t] EXCEPT !.pc = "write", !.seq = st.seq + 1] \in Thread
    <3>1. st.seq + 1 \in Nat
          BY <1>1 DEF SdkState
    <3>2. \A r \in Thread, n \in Nat : [r EXCEPT !.pc = "write", !.seq = n] \in Thread
          BY DEF Thread
    <3> QED
        BY <1>1, <3>1, <3>2
  <2>2. thr' = [thr EXCEPT ![t] = [thr[t] EXCEPT !.pc = "write", !.seq = st.seq + 1]]
        BY <1>2 DEF ReadSeq
  <2> QED
      BY <1>1, <1>2, <2>1, <2>2 DEF ReadSeq, TypeOK, stored, serverVars, history
<1>3. ASSUME WriteSeq(t) PROVE TypeOK'
      BY <1>1, <1>3 DEF WriteSeq, TypeOK, Thread, SdkState, Go, stored, serverVars
<1>4. ASSUME Lose(t) PROVE TypeOK'
      BY <1>1, <1>4 DEF Lose, TypeOK, Thread, Answers, stored, serverVars, history
<1>5. ASSUME Serve(t) PROVE TypeOK'
      BY <1>1, <1>5, ClientBounds DEF Serve, ServeActivate, ServeSigned, Refuse, Answer, Lease, Leases,
          TypeOK, Thread, Answers, stored, history
<1>6. ASSUME Return(t) PROVE TypeOK'
      BY <1>1, <1>6 DEF Return, TypeOK, Thread, stored, serverVars, history
<1>7. ASSUME Adopt(t) PROVE TypeOK'
      BY <1>1, <1>7 DEF Adopt, Pinned, Go, GoSaving, GoAdopted, TypeOK, Thread, SdkState, stored, serverVars
<1>8. ASSUME Install(t) PROVE TypeOK'
  <2>1. thr[t].got \in Leases \cup {NULL} /\ thr' \in [Threads -> Thread]
        BY <1>1, <1>8 DEF Install, GoAdopted, Thread
  <2>2. st' \in SdkState
        BY <1>1, <1>8, <2>1 DEF Install, SdkState
  <2> QED
      BY <1>8, <2>1, <2>2 DEF Install, TypeOK, stored, serverVars, history
<1>9. ASSUME Serialize(t) PROVE TypeOK'
      BY <1>1, <1>9 DEF Serialize, Serialized, Go, TypeOK, Thread, serverVars, history
<1>10. ASSUME Replace(t) PROVE TypeOK'
      BY <1>1, <1>10 DEF Replace, Go, TypeOK, Thread, serverVars
<1>11. ASSUME Done(t) PROVE TypeOK'
      BY <1>1, <1>11 DEF Done, At, TypeOK, Thread, Answers, stored, serverVars, history
<1> QED
    BY <1>2, <1>3, <1>4, <1>5, <1>6, <1>7, <1>8, <1>9, <1>10, <1>11 DEF Post

LEMMA TypeBegin == TypeOK /\ Start => TypeOK'
<1> SUFFICES ASSUME TypeOK, Start PROVE TypeOK'
    OBVIOUS
<1>1. ASSUME NEW loaded \in SdkState, Boot(loaded)
      PROVE  /\ st' \in SdkState /\ file' \in SdkState \cup {Garbled}
  <2>1. keys \subseteq SignKeys /\ loaded.pins \subseteq SignKeys
        BY DEF TypeOK, SdkState
  <2>2. ASSUME NEW p \in SUBSET SignKeys PROVE [loaded EXCEPT !.pins = p] \in SdkState
        BY DEF SdkState
  <2> QED
      BY <1>1, <2>1, <2>2 DEF Boot, TypeOK
<1>2. EmptyState \in SdkState
      BY DEF EmptyState, SdkState
<1>3. st' \in SdkState /\ file' \in SdkState \cup {Garbled}
      BY <1>1, <1>2 DEF Start, TypeOK
<1> QED
    BY <1>3 DEF Start, TypeOK, history

LEMMA TypeInit == Init => TypeOK
<1>1. EmptyState \in SdkState
      BY DEF EmptyState, SdkState
<1>2. Threadless \in [Threads -> Thread]
      BY DEF Threadless, At, Thread, Answers
<1> SUFFICES ASSUME Init PROVE TypeOK
    OBVIOUS
<1>3. FirstKey \in SignKeys
      BY ClientBounds
<1>4. /\ keys \subseteq SignKeys /\ active \in keys
      /\ serverSeq \in Nat /\ now \in Nat /\ revokedAt \in Nat /\ badInRow \in 0 .. 2
      BY <1>3 DEF Init
<1> QED
    BY <1>1, <1>2, <1>4 DEF Init, TypeOK

LEMMA TypeNext == TypeOK /\ [Next]_vars => TypeOK'
<1> SUFFICES ASSUME TypeOK, [Next]_vars PROVE TypeOK'
    OBVIOUS
<1>1. \A pc \in {"idle", "sent", "read", "loop", "off"} : At(pc) \in Thread
      BY DEF At, Thread, Answers
<1>2. ASSUME Crash PROVE TypeOK'
  <2>1. EmptyState \in SdkState /\ Threadless \in [Threads -> Thread]
        BY <1>1 DEF EmptyState, SdkState, Threadless
  <2> QED
      BY <1>2, <2>1 DEF Crash, TypeOK, serverVars
<1>3. ASSUME NEW op \in Calls, Call(op) PROVE TypeOK'
  <2>1. thr' \in [Threads -> Thread]
        BY <1>1, <1>3 DEF Call, TypeOK, Threads, Thread
  <2> QED
      BY <1>3, <2>1 DEF Call, TypeOK, stored, serverVars, history
<1>4. ASSUME ClearDeactivated PROVE TypeOK'
  <2>1. st' \in SdkState
        BY <1>4 DEF ClearDeactivated, TypeOK, SdkState
  <2>2. thr' \in [Threads -> Thread]
    <3>1. thr' = [thr EXCEPT !["app"] = [thr["app"] EXCEPT !.pc = "save", !.next = "done"]]
          BY <1>4 DEF ClearDeactivated, GoSaving
    <3>2. ASSUME NEW r \in Thread PROVE [r EXCEPT !.pc = "save", !.next = "done"] \in Thread
          BY DEF Thread
    <3> QED
        BY <3>1, <3>2 DEF TypeOK, Threads
  <2> QED
      BY <1>4, <2>1, <2>2 DEF ClearDeactivated, TypeOK, stored, serverVars, history
<1>5. ASSUME StartHeartbeat \/ StopHeartbeat \/ Join \/ Beat \/ Wake PROVE TypeOK'
  <2>1. \A u \in Threads : \A pc \in {"join", "idle", "off", "read", "wait", "loop"} :
            [thr[u] EXCEPT !.pc = pc] \in Thread
        BY DEF TypeOK, Thread
  <2>2. thr' \in [Threads -> Thread]
        BY <1>1, <1>5, <2>1
        DEF StartHeartbeat, StopHeartbeat, Join, Beat, Wake, Go, TypeOK, Threads
  <2> QED
      BY <1>5, <2>2 DEF StartHeartbeat, StopHeartbeat, Join, Beat, Wake, TypeOK,
                        stored, serverVars, history
<1>6. ASSUME Revoke \/ AdminUnbind \/ Tick \/ UNCHANGED vars PROVE TypeOK'
      BY <1>6 DEF Revoke, AdminUnbind, Tick, vars, TypeOK, clientVars, stored, serverVars, history
<1>7. ASSUME NEW k \in SignKeys, Rotate(k) \/ Retire(k) PROVE TypeOK'
      BY <1>7 DEF Rotate, Retire, Retirable, TypeOK, clientVars, stored, history
<1> QED
    BY <1>2, <1>3, <1>4, <1>5, <1>6, <1>7, TypePost, TypeBegin DEF Next

\* Type correctness of the client and of what the server keeps for it; and the server
\* signs with a key it publishes.
THEOREM ClientTypes == Spec => []TypeOK
<1> QED
    BY TypeInit, TypeNext, PTL DEF Spec


-----------------------------------------------------------------------------
\* A step of a thread begins and ends in the middle of its call, except for the last.
LEMMA PostThread ==
    ASSUME TypeOK, NEW t \in Threads, Post(t)
    PROVE  /\ Working(t)
           /\ thr'[t].pc = (IF t = "app" THEN "idle" ELSE "wait") \/ Working(t)'
           /\ \A u \in Threads \ {t} : thr'[u] = thr[u]
           /\ up' = up /\ hbRun' = hbRun /\ host' = host
           /\ thr'[t].op = thr[t].op \/ (thr'[t].op = "heartbeat" /\ ~Working(t)')
           /\ thr'[t].next = "clear" => thr[t].next = "clear" \/ thr[t].op = "deactivate"
           /\ thr'[t].pc = "clear" => thr[t].next = "clear" \/ thr[t].op = "deactivate"
<1>1. thr[t] \in Thread /\ thr \in [Threads -> Thread]
      BY DEF TypeOK
<1>2. CASE ReadSeq(t) \/ WriteSeq(t) \/ Lose(t)
      BY <1>1, <1>2 DEF ReadSeq, WriteSeq, Lose, Go, Working, Thread, stored
<1>3. CASE Serve(t)
      BY <1>1, <1>3 DEF Serve, ServeActivate, ServeSigned, Refuse, Answer, Working, Thread, stored
<1>4. CASE Return(t)
      BY <1>1, <1>4 DEF Return, Working, Thread, stored
<1>5. CASE Adopt(t)
      BY <1>1, <1>5 DEF Adopt, Go, GoSaving, GoAdopted, Working, Thread, stored
<1>6. CASE Install(t) \/ Serialize(t)
      BY <1>1, <1>6 DEF Install, GoAdopted, Serialize, Go, Working, Thread, stored
<1>7. CASE Replace(t)
      BY <1>1, <1>7 DEF Replace, Saving, Go, Working, Thread, stored
<1>8. CASE Done(t)
      BY <1>1, <1>8 DEF Done, At, Working, Thread, stored
<1> QED
    BY <1>2, <1>3, <1>4, <1>5, <1>6, <1>7, <1>8 DEF Post

LEMMA ShapesNext == TypeOK /\ Shapes /\ [Next]_vars => Shapes'
<1> SUFFICES ASSUME TypeOK, Shapes, [Next]_vars PROVE Shapes'
    OBVIOUS
<1>1. /\ thr \in [Threads -> Thread] /\ "app" \in Threads /\ "beat" \in Threads
      /\ \A t \in Threads : t = "app" \/ t = "beat"
      /\ "app" # "beat"
      BY DEF TypeOK, Threads
<1>2. ASSUME NEW t \in Threads, Post(t) PROVE Shapes'
  <2>1. up
        BY <1>1, <1>2, PostThread DEF Shapes, Working, Threadless, At
  <2> QED
      BY <1>1, <1>2, <2>1, PostThread DEF Shapes, Working
<1>3. CASE Start \/ Crash
      BY <1>1, <1>3 DEF Start, Crash, Shapes, Threadless, At
<1>4. CASE \E op \in Calls : Call(op)
      BY <1>1, <1>4 DEF Call, At, Shapes, Calls
<1>5. CASE ClearDeactivated \/ StartHeartbeat \/ StopHeartbeat \/ Join \/ Beat \/ Wake
  <2>1. up
        BY <1>1, <1>5
        DEF ClearDeactivated, StartHeartbeat, StopHeartbeat, Join, Beat, Wake, Shapes,
            Threadless, At
  <2>2. CASE ClearDeactivated \/ StopHeartbeat \/ Join
    <3>1. /\ thr'["beat"] = thr["beat"] /\ up' = up
          /\ thr'["app"].pc \in {"save", "join", "idle"}
          /\ \/ ~hbRun' /\ thr'["app"].pc = "join"
             \/ hbRun' = hbRun /\ thr["app"].pc = "clear"
             \/ hbRun' = hbRun /\ thr["beat"].pc = "off"
          BY <1>1, <2>2 DEF ClearDeactivated, StopHeartbeat, Join, BeatJoined, Go, GoSaving, Thread
    <3> QED
        BY <1>1, <2>1, <3>1 DEF Shapes
  <2>3. CASE StartHeartbeat
        BY <1>1, <2>1, <2>3 DEF StartHeartbeat, At, Shapes
  <2>4. CASE Beat \/ Wake
    <3>1. /\ thr'["app"] = thr["app"] /\ thr'["beat"].op = thr["beat"].op
          /\ thr'["beat"].next = thr["beat"].next
          /\ thr'["beat"].pc \in {"off", "read", "wait", "loop"}
          /\ up' = up /\ hbRun' = hbRun
          /\ thr["beat"].pc # "off"
          BY <1>1, <2>4 DEF Beat, Wake, Running, Go, Thread
    <3> QED
        BY <1>1, <2>1, <3>1 DEF Shapes
  <2> QED
      BY <1>5, <2>2, <2>3, <2>4
<1>6. CASE \/ Revoke \/ AdminUnbind \/ Tick \/ UNCHANGED vars
           \/ \E k \in SignKeys : Rotate(k) \/ Retire(k)
      BY <1>6 DEF Revoke, AdminUnbind, Tick, vars, Rotate, Retire, Shapes, clientVars, stored
<1> QED
    BY <1>2, <1>3, <1>4, <1>5, <1>6 DEF Next


-----------------------------------------------------------------------------
(***************************************************************************)
(* Leases.                                                                 *)
(***************************************************************************)

LEMMA DatedStays ==
    ASSUME TypeOK, [Next]_vars, NEW x \in Leases \cup {NULL}, Dated(x)
    PROVE  Dated(x)'
<1>1. /\ now \in Nat /\ revokedAt \in Nat /\ LeaseTTL \in Nat
      /\ x # NULL => x.exp \in Nat
      BY ClientBounds DEF TypeOK, Leases
<1>2. \/ now <= now' /\ now' \in Nat /\ licence' = licence /\ revokedAt' = revokedAt
      \/ now' = now /\ revokedAt' = now
  <2>1. ASSUME NEW t \in Threads, Post(t) PROVE UNCHANGED <<now, licence, revokedAt>>
        BY <2>1 DEF Post, ReadSeq, WriteSeq, Lose, Serve, Return, Adopt, Install, Serialize,
                    Replace, Done, serverVars
  <2>2. ASSUME NEW op \in Calls, Call(op) PROVE UNCHANGED <<now, licence, revokedAt>>
        BY <2>2 DEF Call, serverVars
  <2>3. ASSUME NEW k \in SignKeys, Rotate(k) \/ Retire(k)
        PROVE  UNCHANGED <<now, licence, revokedAt>>
        BY <2>3 DEF Rotate, Retire
  <2>4. CASE Start \/ Crash
        BY <1>1, <2>4 DEF Start, Crash, serverVars
  <2>5. CASE ClearDeactivated \/ StartHeartbeat \/ StopHeartbeat \/ Join \/ Beat \/ Wake
        BY <1>1, <2>5 DEF ClearDeactivated, StartHeartbeat, StopHeartbeat, Join, Beat, Wake,
                          serverVars
  <2>6. CASE AdminUnbind \/ UNCHANGED vars
        BY <1>1, <2>6 DEF AdminUnbind, vars, serverVars
  <2>7. CASE Revoke \/ Tick
        BY <1>1, <2>7 DEF Revoke, Tick, serverVars
  <2> QED
      BY <1>1, <2>1, <2>2, <2>3, <2>4, <2>5, <2>6, <2>7 DEF Next
<1> QED
    BY <1>1, <1>2 DEF Dated

\* The server dates what it issues, and issues nothing once the licence is revoked.
LEMMA Issued ==
    ASSUME TypeOK, NEW t \in Threads, Serve(t)
    PROVE  /\ thr'[t].got = NULL \/ (thr'[t].got = Lease /\ licence = "active")
           /\ thr'[t].pc = "answered"
<1>1. thr[t] \in Thread /\ thr \in [Threads -> Thread]
      BY DEF TypeOK
<1> QED
    BY <1>1 DEF Serve, ServeActivate, ServeSigned, Refuse, Answer, Renewable, Thread

\* The leases a thread holds, and what it does to the state in memory.
LeaseStep(t) ==
    /\ Dated(thr'[t].got)
    /\ Bringing(thr'[t], {"install"}) /\ thr'[t].got # NULL => thr'[t].got.key \in st'.pins
    /\ Verifies(st)' /\ Dated(st'.lease) /\ st.pins \subseteq st'.pins
    /\ file' = file \/ (file' = tmp /\ tmp # NULL)
    /\ tmp' \in {tmp, NULL, Garbled, st}

LEMMA LeasePost ==
    ASSUME TypeOK, LeasesSound, NEW t \in Threads, Post(t)
    PROVE  LeaseStep(t)
<1>1. /\ thr[t] \in Thread /\ thr \in [Threads -> Thread] /\ st \in SdkState
      /\ Verifies(st) /\ Dated(st.lease) /\ Dated(thr[t].got) /\ Dated(NULL)
      /\ Bringing(thr[t], {"install"}) /\ thr[t].got # NULL => thr[t].got.key \in st.pins
      BY DEF TypeOK, LeasesSound, Dated
<1>2. ASSUME ReadSeq(t) \/ Lose(t) \/ Return(t) \/ Done(t) PROVE LeaseStep(t)
  <2>1. /\ st' = st /\ file' = file /\ tmp' = tmp
        /\ thr'[t].got \in {thr[t].got, NULL}
        /\ ~Bringing(thr'[t], {"install"})
        BY <1>1, <1>2 DEF ReadSeq, Lose, Return, Done, At, Bringing, Thread, stored
  <2> QED
      BY <1>1, <2>1 DEF LeaseStep, Verifies
<1>3. ASSUME WriteSeq(t) PROVE LeaseStep(t)
  <2>1. /\ st' = [st EXCEPT !.seq = thr[t].seq] /\ file' = file /\ tmp' = tmp
        /\ thr'[t].got = thr[t].got
        /\ ~Bringing(thr'[t], {"install"})
        BY <1>1, <1>3 DEF WriteSeq, Go, Bringing, Thread, stored
  <2>2. st'.lease = st.lease /\ st'.pins = st.pins
        BY <1>1, <2>1 DEF SdkState
  <2> QED
      BY <1>1, <2>1, <2>2 DEF LeaseStep, Verifies
<1>4. ASSUME Serve(t) PROVE LeaseStep(t)
  <2>1. /\ st' = st /\ file' = file /\ tmp' = tmp
        /\ ~Bringing(thr'[t], {"install"})
        BY <1>4, Issued DEF Serve, Bringing, stored
  <2>2. Dated(thr'[t].got)
        BY <1>1, <1>4, Issued, ClientBounds DEF Lease, Dated, TypeOK
  <2> QED
      BY <1>1, <2>1, <2>2 DEF LeaseStep, Verifies
<1>5. ASSUME Adopt(t) PROVE LeaseStep(t)
  <2>1. /\ thr'[t].got \in {thr[t].got, NULL} /\ file' = file /\ tmp' = tmp
        /\ st' \in {st, Pinned(keys)}
        /\ Bringing(thr'[t], {"install"}) => thr'[t].got.key \in st'.pins
        BY <1>1, <1>5 DEF Adopt, Go, GoSaving, GoAdopted, Bringing, Thread, stored
  <2>2. st'.lease = st.lease /\ st.pins \subseteq st'.pins
        BY <1>1, <2>1 DEF Pinned, SdkState
  <2> QED
      BY <1>1, <2>1, <2>2 DEF LeaseStep, Verifies
<1>6. ASSUME Install(t) PROVE LeaseStep(t)
  <2>1. /\ thr'[t].got = NULL /\ file' = file /\ tmp' = tmp
        /\ st' = [st EXCEPT !.lease = thr[t].got]
        /\ thr[t].pc = "install"
        BY <1>1, <1>6 DEF Install, GoAdopted, Thread, stored
  <2>2. st'.lease = thr[t].got /\ st'.pins = st.pins
        BY <1>1, <2>1 DEF SdkState
  <2> QED
      BY <1>1, <2>1, <2>2 DEF LeaseStep, Verifies, Bringing
<1>7. ASSUME Serialize(t) PROVE LeaseStep(t)
  <2>1. /\ st' = st /\ file' = file /\ tmp' \in {st, Garbled}
        /\ thr'[t].got = thr[t].got
        /\ Bringing(thr'[t], {"install"}) => Bringing(thr[t], {"install"})
        BY <1>1, <1>7 DEF Serialize, Serialized, Go, Bringing, Thread
  <2> QED
      BY <1>1, <2>1 DEF LeaseStep, Verifies
<1>8. ASSUME Replace(t) PROVE LeaseStep(t)
  <2>1. /\ st' = st
        /\ file' = file \/ (file' = tmp /\ tmp # NULL)
        /\ tmp' \in {tmp, NULL}
        /\ thr'[t].got = thr[t].got
        /\ Bringing(thr'[t], {"install"}) => Bringing(thr[t], {"install"})
        BY <1>1, <1>8 DEF Replace, Saving, Go, Bringing, Thread
  <2> QED
      BY <1>1, <2>1 DEF LeaseStep, Verifies
<1> QED
    BY <1>2, <1>3, <1>4, <1>5, <1>6, <1>7, <1>8 DEF Post


LEMMA LeasesNext == TypeOK /\ Shapes /\ LeasesSound /\ [Next]_vars => LeasesSound'
<1> SUFFICES ASSUME TypeOK, Shapes, LeasesSound, [Next]_vars PROVE LeasesSound'
    OBVIOUS
<1>1. /\ thr \in [Threads -> Thread] /\ "app" \in Threads /\ "beat" \in Threads
      /\ \A t \in Threads : thr[t].got \in Leases \cup {NULL}
      /\ st \in SdkState /\ st.lease \in Leases \cup {NULL}
      /\ file # Garbled => file \in SdkState /\ file.lease \in Leases \cup {NULL}
      /\ tmp \notin {Garbled, NULL} => tmp \in SdkState /\ tmp.lease \in Leases \cup {NULL}
      BY DEF TypeOK, Threads, Thread, SdkState
<1>2. /\ Dated(st.lease) /\ Verifies(st) /\ Dated(NULL)
      /\ file # Garbled => Dated(file.lease) /\ Verifies(file)
      /\ tmp \notin {Garbled, NULL} => Dated(tmp.lease) /\ Verifies(tmp)
      /\ \A t \in Threads : Dated(thr[t].got)
      BY DEF LeasesSound, Dated
<1>3. \A x \in Leases \cup {NULL} : Dated(x) => Dated(x)'
      BY DatedStays
<1>4. ASSUME NEW t \in Threads, Post(t) PROVE LeasesSound'
  <2>1. LeaseStep(t) /\ \A u \in Threads \ {t} : thr'[u] = thr[u]
        BY <1>4, LeasePost, PostThread
  <2>2. TypeOK'
        BY TypeNext
  <2>3. Verifies(st)' /\ Dated(st.lease)'
    <3>1. Verifies(st)' /\ Dated(st'.lease) /\ st'.lease \in Leases \cup {NULL}
          BY <2>1, <2>2 DEF LeaseStep, TypeOK, SdkState
    <3> QED
        BY <1>3, <3>1 DEF Dated
  <2>4. (file # Garbled => Verifies(file) /\ Dated(file.lease))'
    <3>1. CASE file' = file
          BY <1>1, <1>2, <1>3, <3>1 DEF Verifies, Dated
    <3>2. CASE file' = tmp /\ tmp # NULL
          BY <1>1, <1>2, <1>3, <3>2 DEF Verifies, Dated
    <3> QED
        BY <2>1, <3>1, <3>2 DEF LeaseStep
  <2>5. (tmp \notin {Garbled, NULL} => Verifies(tmp) /\ Dated(tmp.lease))'
    <3>1. CASE tmp' = tmp
          BY <1>1, <1>2, <1>3, <3>1 DEF Verifies, Dated
    <3>2. CASE tmp' = st
          BY <1>1, <1>2, <1>3, <3>2 DEF Verifies, Dated
    <3> QED
        BY <2>1, <3>1, <3>2 DEF LeaseStep
  <2>6. ASSUME NEW u \in Threads
        PROVE  /\ Dated(thr[u].got)'
               /\ (Bringing(thr[u], {"install"}) /\ thr[u].got # NULL
                       => thr[u].got.key \in st.pins)'
    <3>1. Dated(thr'[u].got) /\ thr'[u].got \in Leases \cup {NULL}
          BY <1>2, <2>1, <2>2 DEF LeaseStep, TypeOK, Thread
    <3>2. Dated(thr[u].got)'
          BY <1>3, <3>1 DEF Dated
    <3>3. st.pins \subseteq st'.pins
          BY <2>1 DEF LeaseStep
    <3>4. CASE u = t
          BY <2>1, <3>2, <3>4 DEF LeaseStep, Bringing
    <3>5. CASE u # t
          BY <2>1, <3>2, <3>3, <3>5 DEF LeasesSound, Bringing
    <3> QED
        BY <3>4, <3>5
  <2> QED
      BY <2>3, <2>4, <2>5, <2>6 DEF LeasesSound
<1>5. ASSUME NEW t \in Threads, ~\E x \in Threads : Post(x), ~Start, ~Crash
      PROVE  /\ st' = st \/ st' = [st EXCEPT !.lease = NULL]
             /\ file' = file /\ tmp' = tmp
             /\ thr'[t].got \in {thr[t].got, NULL}
             /\ ~Bringing(thr[t], {"install"}) => ~Bringing(thr'[t], {"install"})
  <2>1. ASSUME NEW op \in Calls, Call(op)
        PROVE  /\ st' = st /\ file' = file /\ tmp' = tmp
               /\ thr'[t].got \in {thr[t].got, NULL}
               /\ ~Bringing(thr[t], {"install"}) => ~Bringing(thr'[t], {"install"})
        BY <1>1, <2>1 DEF Call, At, Bringing, stored
  <2>2. CASE ClearDeactivated \/ StartHeartbeat \/ StopHeartbeat \/ Join \/ Beat \/ Wake
    <3>1. thr[t] \in Thread
          BY <1>1
    <3> QED
        BY <1>1, <2>2, <3>1
        DEF ClearDeactivated, StartHeartbeat, StopHeartbeat, Join, Beat, Wake, Go, GoSaving, At,
            Bringing, stored, Thread
  <2>3. CASE \/ Revoke \/ AdminUnbind \/ Tick \/ UNCHANGED vars
             \/ \E k \in SignKeys : Rotate(k) \/ Retire(k)
        BY <2>3 DEF Revoke, AdminUnbind, Tick, vars, Rotate, Retire, clientVars, stored
  <2> QED
      BY <1>5, <2>1, <2>2, <2>3 DEF Next

<1>6. ASSUME ~\E x \in Threads : Post(x), ~Start, ~Crash PROVE LeasesSound'
  <2>1. /\ file' = file /\ tmp' = tmp /\ st' \in {st, [st EXCEPT !.lease = NULL]}
        BY <1>1, <1>5, <1>6
  <2>2. /\ Verifies(st)' /\ st'.lease \in {st.lease, NULL} /\ st'.pins = st.pins
        BY <1>1, <1>2, <2>1 DEF Verifies, SdkState
  <2>3. Dated(st.lease)'
        BY <1>1, <1>2, <1>3, <2>2 DEF Dated
  <2>4. /\ (file # Garbled => Verifies(file) /\ Dated(file.lease))'
        /\ (tmp \notin {Garbled, NULL} => Verifies(tmp) /\ Dated(tmp.lease))'
        BY <1>1, <1>2, <1>3, <2>1 DEF Dated, Verifies
  <2>5. ASSUME NEW t \in Threads
        PROVE  /\ Dated(thr[t].got)'
               /\ (Bringing(thr[t], {"install"}) /\ thr[t].got # NULL
                       => thr[t].got.key \in st.pins)'
    <3>1. Dated(thr[t].got)'
          BY <1>1, <1>2, <1>3, <1>5, <1>6 DEF Dated
    <3>2. (Bringing(thr[t], {"install"}) /\ thr[t].got # NULL => thr[t].got.key \in st.pins)
          BY DEF LeasesSound
    <3>3. /\ thr'[t].got \in {thr[t].got, NULL}
          /\ ~Bringing(thr[t], {"install"}) => ~Bringing(thr'[t], {"install"})
          BY <1>5, <1>6
    <3> QED
        BY <2>2, <3>1, <3>2, <3>3 DEF Bringing
  <2> QED
      BY <2>2, <2>3, <2>4, <2>5 DEF LeasesSound
<1>7. CASE Crash
  <2>1. /\ st'.lease = NULL /\ tmp' = NULL /\ file' = file
        /\ \A t \in Threads : thr'[t].got = NULL
        BY <1>7 DEF Crash, EmptyState, Threadless, At
  <2>2. Verifies(st)' /\ Dated(st.lease)' /\ \A t \in Threads : Dated(thr[t].got)'
        BY <2>1 DEF Verifies, Dated
  <2>3. (file # Garbled => Verifies(file) /\ Dated(file.lease))'
        BY <1>1, <1>2, <1>3, <2>1 DEF Dated, Verifies
  <2> QED
      BY <2>1, <2>2, <2>3 DEF LeasesSound
<1>8. CASE Start
  <2>1. ~up /\ thr = Threadless /\ thr' = thr /\ tmp' = tmp
        BY <1>8 DEF Start, Shapes
  <2>2. PICK loaded \in SdkState :
            /\ Boot(loaded)
            /\ Verifies(loaded) /\ Dated(loaded.lease)
            /\ file' = st' \/ (file' = file /\ loaded.pins # {})
    <3>1. EmptyState \in SdkState /\ Verifies(EmptyState) /\ Dated(EmptyState.lease)
          BY DEF EmptyState, SdkState, Verifies, Dated
    <3>2. \A loaded \in SdkState : Boot(loaded) /\ (file = Garbled \/ file = loaded) =>
              file' = st' \/ (file' = file /\ loaded.pins # {})
          BY DEF Boot
    <3> QED
        BY <1>1, <1>2, <1>8, <3>1, <3>2 DEF Start
  <2>3. /\ st' \in SdkState /\ st'.lease = loaded.lease
        /\ loaded.pins \subseteq st'.pins
        BY <2>2 DEF Boot, SdkState, TypeOK
  <2>4. Verifies(st)' /\ Dated(st.lease)'
        BY <1>3, <2>2, <2>3 DEF Verifies, Dated, SdkState
  <2>5. (file # Garbled => Verifies(file) /\ Dated(file.lease))'
    <3>1. CASE file' = st'
          BY <2>4, <3>1 DEF Verifies, Dated
    <3>2. CASE file' = file
          BY <1>1, <1>2, <1>3, <3>2 DEF Verifies, Dated
    <3> QED
        BY <2>2, <3>1, <3>2
  <2>6. (tmp \notin {Garbled, NULL} => Verifies(tmp) /\ Dated(tmp.lease))'
        BY <1>1, <1>2, <1>3, <2>1 DEF Verifies, Dated
  <2>7. \A t \in Threads : thr'[t].got = NULL /\ Dated(thr[t].got)'
        BY <2>1 DEF Threadless, At, Dated
  <2> QED
      BY <2>4, <2>5, <2>6, <2>7 DEF LeasesSound
<1> QED
    BY <1>4, <1>6, <1>7, <1>8


LEMMA LeasesInit == Init => Shapes /\ LeasesSound
<1> SUFFICES ASSUME Init PROVE Shapes /\ LeasesSound
    OBVIOUS
<1>1. /\ thr = Threadless /\ st = EmptyState /\ file = EmptyState /\ tmp = NULL
      /\ ~up /\ ~hbRun
      BY DEF Init
<1>2. Shapes
      BY <1>1 DEF Shapes, Threadless, At, Threads
<1>3. Verifies(EmptyState) /\ Dated(EmptyState.lease) /\ Dated(NULL)
      BY DEF Verifies, Dated, EmptyState
<1>4. \A t \in Threads : thr[t].got = NULL
      BY <1>1 DEF Threadless, At
<1> QED
    BY <1>1, <1>2, <1>3, <1>4 DEF LeasesSound

LeaseInv == TypeOK /\ Shapes /\ LeasesSound

LEMMA LeaseInvariant == Spec => []LeaseInv
<1>1. Init => LeaseInv
      BY TypeInit, LeasesInit DEF LeaseInv
<1>2. LeaseInv /\ [Next]_vars => LeaseInv'
      BY TypeNext, ShapesNext, LeasesNext DEF LeaseInv
<1> QED
    BY <1>1, <1>2, PTL DEF Spec

\* No crash, no rotation of keys and no meeting of threads leaves a cached lease
\* without its key (lumistar_init, adopt_lease).
THEOREM SavedLeases == Spec => []SavedLeaseVerifies
<1>1. LeaseInv => SavedLeaseVerifies
      BY DEF LeaseInv, LeasesSound, Verifies, SavedLeaseVerifies, State
<1> QED
    BY LeaseInvariant, <1>1, PTL

\* A revocation reaches the application a lease later at most, through every answer,
\* file and thread that still carries one (has_feature, current_state).
THEOREM RevocationsReach == Spec => []RevocationReachesClient
<1>1. LeaseInv => RevocationReachesClient
  <2> SUFFICES ASSUME LeaseInv, licence = "revoked", st.lease # NULL
               PROVE  /\ now <= st.lease.exp => now <= revokedAt + LeaseTTL
                      /\ ~(now > st.lease.exp + Grace) => now <= revokedAt + LeaseTTL + Grace
      BY DEF RevocationReachesClient, HasFeature, State
  <2>1. /\ st.lease.exp \in Nat /\ now \in Nat /\ revokedAt \in Nat
        /\ LeaseTTL \in Nat /\ Grace \in Nat
        BY ClientBounds DEF LeaseInv, TypeOK, SdkState, Leases
  <2>2. st.lease.exp <= revokedAt + LeaseTTL
        BY DEF LeaseInv, LeasesSound, Dated
  <2> QED
      BY <2>1, <2>2
<1> QED
    BY LeaseInvariant, <1>1, PTL

-----------------------------------------------------------------------------
(***************************************************************************)
(* A careful host: one thread at a time works, and while it does it alone  *)
(* writes the state.                                                       *)
(***************************************************************************)

CarefulInv == LeaseInv /\ (host = "careful" => Careful)

\* What a step of a thread must do to the numbers, the state and its file.
FileKeepsUp == file' # Garbled /\ file.pins \subseteq file'.pins /\ file.seq <= file'.seq
LeaseComesBack ==
    \/ up /\ st.lease = NULL /\ st'.lease # NULL
    \/ file.lease = NULL /\ file'.lease # NULL
CarefulStep(t) ==
    /\ Knows(thr[t])'
    /\ FileKeepsUp
    /\ file'.pins \subseteq st'.pins /\ file'.seq <= st'.seq
    /\ unsaved' # "lost" => serverSeq' <= st'.seq
    /\ unsaved' = "no" => serverSeq' <= file'.seq
    /\ unsaved = "lost" => unsaved' = "lost"
    /\ t = "beat" => st'.lease # NULL
    /\ st'.lease # NULL /\ file'.lease = NULL =>
          /\ t = "app" /\ Renewing(thr'[t]) /\ thr'[t].next = "done"
          /\ thr'[t].pc \in {"save", "replace"}
    /\ t = "app" /\ Bringing(thr'[t], {"adopt", "install"}) => Renewing(thr'[t])
    /\ LeaseComesBack => Renewing(thr["app"])

\* The other thread rests; and what the thread at work finds.
Finds(t, r) ==
    /\ r = thr[t] /\ r \in Thread /\ thr \in [Threads -> Thread] /\ Knows(r) /\ up
    /\ t \in {"app", "beat"}
    /\ \A u \in Threads \ {t} : ~Working(u)
    /\ st \in SdkState /\ file \in SdkState /\ file # Garbled /\ st # NULL /\ st # Garbled
    /\ file.pins \subseteq st.pins /\ file.seq <= st.seq
    /\ unsaved # "lost" => serverSeq <= st.seq
    /\ unsaved = "no" => serverSeq <= file.seq
    /\ serverSeq \in Nat /\ st.seq \in Nat /\ file.seq \in Nat
    /\ t = "beat" => st.lease # NULL
    /\ st.lease # NULL /\ file.lease = NULL =>
          t = "app" /\ Renewing(r) /\ r.next = "done" /\ r.pc \in {"save", "replace"}
    /\ t = "app" => r.op \in Calls
    /\ t = "beat" => r.op = "heartbeat" /\ r.next # "clear"
    /\ t = "app" /\ Bringing(r, {"adopt", "install"}) => Renewing(r)

LEMMA OneAtWork ==
    ASSUME LeaseInv, Careful, NEW t \in Threads, Working(t), NEW r, r = thr[t]
    PROVE  Finds(t, r)
<1>1. /\ r \in Thread /\ thr \in [Threads -> Thread] /\ st \in SdkState
      /\ t = "app" \/ t = "beat"
      /\ \A u \in Threads : u = "app" \/ u = "beat"
      BY DEF LeaseInv, TypeOK, Threads
<1>2. file \in SdkState /\ file # Garbled /\ st # NULL /\ st # Garbled
      BY <1>1, ClientBounds DEF LeaseInv, TypeOK, Careful
<1>3. st.seq \in Nat /\ file.seq \in Nat /\ serverSeq \in Nat
      BY <1>1, <1>2 DEF SdkState, LeaseInv, TypeOK
<1>4. up
      BY <1>1 DEF LeaseInv, Shapes, Threadless, At, Working
<1>5. Working("app") => ~Working("beat")
      BY DEF LeaseInv, Shapes, Careful, Working
<1>6. t = "beat" => r.op = "heartbeat" /\ r.next # "clear"
      BY DEF LeaseInv, Shapes
<1>7. st.lease # NULL /\ file.lease = NULL =>
          t = "app" /\ Renewing(r) /\ r.next = "done" /\ r.pc \in {"save", "replace"}
      BY <1>1, <1>4, <1>5 DEF Careful, Working
<1> QED
    BY <1>1, <1>2, <1>3, <1>4, <1>5, <1>6, <1>7 DEF Careful, Finds

LEMMA KnownPost ==
    ASSUME LeaseInv, Careful, NEW t \in Threads, Post(t)
    PROVE  CarefulStep(t)
<1>1. PICK r \in Thread : r = thr[t]
      BY DEF LeaseInv, TypeOK
<1>2. Finds(t, r)
      BY <1>1, PostThread, OneAtWork DEF LeaseInv
<1>3. ASSUME ReadSeq(t) PROVE CarefulStep(t)
  <2>1. /\ r.pc = "read"
        /\ thr'[t].pc = "write" /\ thr'[t].seq = st.seq + 1 /\ thr'[t].ans = r.ans
        /\ thr'[t].op = r.op /\ UNCHANGED <<st, file, tmp, unsaved, serverSeq>>
        BY <1>2, <1>3 DEF ReadSeq, Finds, Thread, stored, serverVars, history
  <2>2. Knows(thr[t])'
        BY <1>2, <2>1 DEF Knows, Bringing, Finds
  <2> QED
      BY <1>2, <2>1, <2>2 DEF CarefulStep, FileKeepsUp, LeaseComesBack, Finds, Bringing
<1>4. ASSUME WriteSeq(t) PROVE CarefulStep(t)
  <2>1. /\ r.pc = "write" /\ st' = [st EXCEPT !.seq = r.seq]
        /\ thr'[t].pc = "sent" /\ thr'[t].seq = r.seq /\ thr'[t].ans = r.ans
        /\ thr'[t].op = r.op /\ UNCHANGED <<file, tmp, serverSeq>>
        /\ unsaved' = IF unsaved = "no" THEN "yes" ELSE unsaved
        BY <1>2, <1>4 DEF WriteSeq, Go, Finds, Thread, stored, serverVars
  <2>2. r.seq = st.seq + 1 /\ r.seq \in Nat
        BY <1>2, <2>1 DEF Knows, Finds
  <2>3. st'.seq = st.seq + 1 /\ st'.lease = st.lease /\ st'.pins = st.pins
        BY <1>2, <2>1, <2>2 DEF Finds, SdkState
  <2>4. (unsaved' # "lost" => serverSeq < st.seq + 1) /\ file.seq <= st.seq + 1
        BY <1>2, <2>1 DEF Finds
  <2>5. Knows(thr[t])'
        BY <1>2, <2>1, <2>2, <2>3, <2>4 DEF Knows, Bringing, Finds
  <2>6. unsaved' # "lost" => serverSeq' <= st'.seq
        BY <1>2, <2>1, <2>3 DEF Finds
  <2> QED
      BY <1>2, <2>1, <2>3, <2>4, <2>5, <2>6
      DEF CarefulStep, FileKeepsUp, LeaseComesBack, Finds, Bringing
<1>5. ASSUME Lose(t) PROVE CarefulStep(t)
  <2>1. /\ r.pc \in {"sent", "answered"}
        /\ thr'[t].pc = "answered" /\ thr'[t].ans = "network"
        /\ UNCHANGED <<st, file, tmp, unsaved, serverSeq>>
        BY <1>2, <1>5 DEF Lose, Finds, Thread, stored, serverVars, history
  <2>2. Knows(thr[t])'
        BY <2>1 DEF Knows, Bringing
  <2> QED
      BY <1>2, <2>1, <2>2 DEF CarefulStep, FileKeepsUp, LeaseComesBack, Finds, Bringing
<1>6. ASSUME Return(t) PROVE CarefulStep(t)
  <2>1. /\ r.pc = "answered" /\ thr'[t].ans = r.ans /\ thr'[t].op = r.op /\ thr'[t].got = r.got
        /\ thr'[t].pc \in {"done", "save", "adopt", "clear"}
        /\ thr'[t].pc = "adopt" \/ (thr'[t].pc = "save" /\ thr'[t].next \in {"adopt", "install"})
              => r.ans = "ok" /\ r.op # "deactivate"
        /\ UNCHANGED <<st, file, tmp, unsaved, serverSeq>>
        BY <1>2, <1>6 DEF Return, Finds, Thread, stored, serverVars, history
  <2>2. Knows(thr[t])'
        BY <1>2, <2>1 DEF Knows, Bringing, Finds
  <2> QED
      BY <1>2, <2>1, <2>2
      DEF CarefulStep, FileKeepsUp, LeaseComesBack, Finds, Bringing, Renewing, Calls

<1>7. ASSUME Serve(t) PROVE CarefulStep(t)
  <2>1. /\ r.pc = "sent" /\ thr'[t].pc = "answered" /\ thr'[t].op = r.op
        /\ UNCHANGED <<st, file, tmp, unsaved>>
        BY <1>2, <1>7 DEF Serve, ServeActivate, ServeSigned, Refuse, Answer, Finds, Thread,
                          stored, history
  <2>2. /\ thr'[t].ans = "ok" /\ r.op # "deactivate" => thr'[t].got = Lease
        /\ thr'[t].ans = "replay" =>
              r.op # "activate" /\ r.seq <= serverSeq /\ serverSeq' = serverSeq
        BY <1>2, <1>7 DEF Serve, ServeActivate, ServeSigned, Refuse, Answer, Finds, Thread
  <2>3. serverSeq' = serverSeq \/ (r.op # "activate" /\ serverSeq' = r.seq)
        BY <1>2, <1>7 DEF Serve, ServeActivate, ServeSigned, Refuse, Finds
  <2>4. Lease # NULL
        BY ClientBounds DEF LeaseInv, TypeOK, Lease, Leases
  <2>5. r.op # "activate" =>
            unsaved # "no" /\ r.seq = st.seq /\ (unsaved # "lost" => serverSeq < r.seq)
        BY <1>2, <2>1 DEF Knows, Finds
  <2>6. thr'[t].ans = "replay" => unsaved = "lost"
        BY <1>2, <2>2, <2>5 DEF Finds
  <2>7. Knows(thr[t])'
        BY <2>1, <2>2, <2>4, <2>6 DEF Knows, Bringing
  <2>8. /\ unsaved # "lost" => serverSeq' <= st.seq
        /\ unsaved = "no" => serverSeq' <= file.seq
        BY <1>2, <2>3, <2>5 DEF Finds
  <2> QED
      BY <1>2, <2>1, <2>7, <2>8 DEF CarefulStep, FileKeepsUp, LeaseComesBack, Finds, Bringing
<1>8. ASSUME Adopt(t) PROVE CarefulStep(t)
  <2>1. /\ r.pc = "adopt" /\ thr'[t].ans = r.ans /\ thr'[t].op = r.op
        /\ thr'[t].pc \in {"install", "save", "done"}
        /\ Bringing(thr'[t], {"adopt", "install"}) => thr'[t].got = r.got
        /\ UNCHANGED <<file, tmp, unsaved, serverSeq>>
        /\ st' \in {st, Pinned(keys)}
        BY <1>2, <1>8 DEF Adopt, Go, GoSaving, GoAdopted, Bringing, Finds, Thread, stored, serverVars
  <2>2. st'.seq = st.seq /\ st'.lease = st.lease /\ st.pins \subseteq st'.pins
        BY <1>2, <2>1 DEF Pinned, Finds, SdkState
  <2>3. Bringing(r, {"adopt", "install"})
        BY <2>1 DEF Bringing
  <2>4. Knows(thr[t])'
        BY <1>2, <2>1, <2>3 DEF Knows, Finds
  <2> QED
      BY <1>2, <2>1, <2>2, <2>3, <2>4
      DEF CarefulStep, FileKeepsUp, LeaseComesBack, Finds, Renewing
<1>9. ASSUME Install(t) PROVE CarefulStep(t)
  <2>1. /\ r.pc = "install" /\ thr'[t].ans = r.ans /\ thr'[t].op = r.op
        /\ thr'[t].pc = "save" /\ thr'[t].next = "done"
        /\ UNCHANGED <<file, tmp, unsaved, serverSeq>>
        /\ st' = [st EXCEPT !.lease = r.got]
        BY <1>2, <1>9 DEF Install, GoAdopted, Finds, Thread, stored, serverVars, history
  <2>2. st'.seq = st.seq /\ st'.lease = r.got /\ st.pins = st'.pins
        BY <1>2, <2>1 DEF Finds, SdkState
  <2>3. Bringing(r, {"adopt", "install"})
        BY <2>1 DEF Bringing
  <2>4. Knows(thr[t])' /\ r.got # NULL
        BY <1>2, <2>1, <2>3 DEF Knows, Finds, Bringing
  <2>5. file.lease = NULL \/ st.lease = NULL => t = "app"
        BY <1>2, <2>1 DEF Finds
  <2> QED
      BY <1>2, <2>1, <2>2, <2>3, <2>4, <2>5
      DEF CarefulStep, FileKeepsUp, LeaseComesBack, Finds, Renewing, Bringing
<1>10. ASSUME Serialize(t) PROVE CarefulStep(t)
  <2>1. /\ r.pc = "save" /\ thr'[t] = [r EXCEPT !.pc = "replace"]
        /\ UNCHANGED <<st, file, unsaved, serverSeq>>
        /\ tmp' = st
        BY <1>2, <1>10
        DEF Serialize, Serialized, Saving, Working, Go, Finds, stored, serverVars, history
  <2>2. /\ thr'[t].pc = "replace" /\ thr'[t].next = r.next /\ thr'[t].op = r.op
        /\ thr'[t].ans = r.ans /\ thr'[t].got = r.got
        BY <1>2, <2>1 DEF Finds, Thread
  <2>3. Bringing(thr'[t], {"adopt", "install"}) => Bringing(r, {"adopt", "install"})
        BY <2>1, <2>2 DEF Bringing
  <2>4. Knows(thr[t])'
        BY <1>2, <2>1, <2>2, <2>3 DEF Knows, Finds
  <2> QED
      BY <1>2, <2>1, <2>2, <2>3, <2>4
      DEF CarefulStep, FileKeepsUp, LeaseComesBack, Finds, Renewing
<1>11. ASSUME Replace(t) PROVE CarefulStep(t)
  <2>1. /\ r.pc = "replace" /\ thr'[t] = [r EXCEPT !.pc = r.next]
        /\ UNCHANGED <<st, serverSeq>>
        /\ unsaved' = IF unsaved = "yes" /\ r.next \in {"adopt", "clear"} THEN "no" ELSE unsaved
        BY <1>2, <1>11 DEF Replace, Saving, Go, Finds, serverVars
  <2>2. tmp = st
        BY <1>2, <2>1 DEF Knows, Finds
  <2>3. file' = st
        BY <1>2, <1>11, <2>2 DEF Replace, Saving, Working, Finds
  <2>4. /\ thr'[t].pc = r.next /\ thr'[t].next = r.next /\ thr'[t].op = r.op
        /\ thr'[t].ans = r.ans /\ thr'[t].got = r.got
        /\ r.next \in {"adopt", "install", "clear", "done"}
        BY <1>2, <2>1 DEF Finds, Thread
  <2>5. Bringing(thr'[t], {"adopt", "install"}) => Bringing(r, {"adopt", "install"})
        BY <2>1, <2>4 DEF Bringing
  <2>6. unsaved' = "lost" <=> unsaved = "lost"
        BY <2>1
  <2>7. Knows(thr[t])'
        BY <1>2, <2>1, <2>4, <2>5, <2>6 DEF Knows, Finds
  <2>8. unsaved' = "no" => serverSeq' <= file'.seq
        BY <1>2, <2>1, <2>3 DEF Finds
  <2> QED
      BY <1>2, <2>1, <2>3, <2>4, <2>5, <2>6, <2>7, <2>8
      DEF CarefulStep, FileKeepsUp, LeaseComesBack, Finds, Renewing
<1>12. ASSUME Done(t) PROVE CarefulStep(t)
  <2>1. /\ r.pc = "done" /\ thr'[t].pc \in {"idle", "wait"} /\ thr'[t].ans = "none"
        /\ UNCHANGED <<st, file, tmp, unsaved, serverSeq>>
        BY <1>2, <1>12 DEF Done, At, Finds, stored, serverVars, history
  <2>2. Knows(thr[t])'
        BY <2>1 DEF Knows, Bringing
  <2> QED
      BY <1>2, <2>1, <2>2 DEF CarefulStep, FileKeepsUp, LeaseComesBack, Finds, Bringing
<1> QED
    BY <1>3, <1>4, <1>5, <1>6, <1>7, <1>8, <1>9, <1>10, <1>11, <1>12, PostThread DEF Post

LEMMA CarefulPost ==
    ASSUME LeaseInv, Careful, NEW t \in Threads, Post(t)
    PROVE  Careful' /\ FileKeepsUp /\ (LeaseComesBack => Renewing(thr["app"]))
<1>1. PICK r \in Thread : r = thr[t]
      BY DEF LeaseInv, TypeOK
<1>2. /\ Working(t) /\ \A u \in Threads \ {t} : thr'[u] = thr[u]
      /\ up' = up /\ hbRun' = hbRun
      /\ thr'[t].op = r.op \/ ~Working(t)'
      BY <1>1, PostThread DEF LeaseInv
<1>3. Finds(t, r)
      BY <1>1, <1>2, OneAtWork
<1>4. CarefulStep(t)
      BY KnownPost
<1>5. ASSUME NEW u \in Threads PROVE Knows(thr[u])'
  <2>1. CASE u = t
        BY <1>4, <2>1 DEF CarefulStep
  <2>2. CASE u # t
    <3>1. thr'[u] = thr[u] /\ ~Working(u) /\ (thr[u].ans = "replay" => unsaved = "lost")
          BY <1>2, <1>3, <2>2 DEF Finds, Careful, Knows
    <3> QED
        BY <1>4, <3>1 DEF CarefulStep, Knows, Working, Bringing
  <2> QED
      BY <2>1, <2>2
<1>6. (Working("app") => ~hbRun /\ thr["app"].op \in Calls)'
  <2>1. CASE t = "app"
        BY <1>1, <1>2, <1>3, <2>1 DEF Careful, Finds
  <2>2. CASE t # "app"
        BY <1>2, <1>3, <2>2 DEF Finds, Working, Threads
  <2> QED
      BY <2>1, <2>2
<1>7. (Working("beat") => st.lease # NULL)'
      BY <1>2, <1>3, <1>4 DEF CarefulStep, Finds, Working, Threads
<1>8. (Bringing(thr["app"], {"adopt", "install"}) => Renewing(thr["app"]))'
  <2>1. CASE t = "app"
        BY <1>4, <2>1 DEF CarefulStep, Bringing, Renewing
  <2>2. CASE t # "app"
        BY <1>2, <1>3, <2>2 DEF Finds, Working, Threads, Bringing
  <2> QED
      BY <2>1, <2>2
<1>9. (up => /\ file.pins \subseteq st.pins /\ file.seq <= st.seq
             /\ unsaved # "lost" => serverSeq <= st.seq
             /\ st.lease # NULL /\ file.lease = NULL =>
                   /\ Renewing(thr["app"]) /\ thr["app"].next = "done"
                   /\ thr["app"].pc \in {"save", "replace"})'
      BY <1>4 DEF CarefulStep, Renewing
<1>10. (unsaved = "no" => serverSeq <= file.seq)' /\ (unsaved = "yes" => up)' /\ file' # Garbled
       BY <1>2, <1>3, <1>4 DEF CarefulStep, FileKeepsUp, Finds
<1>11. FileKeepsUp /\ (LeaseComesBack => Renewing(thr["app"]))
       BY <1>4 DEF CarefulStep
<1> QED
    BY <1>5, <1>6, <1>7, <1>8, <1>9, <1>10, <1>11 DEF Careful

\* Nothing but the threads and the processes changes.
LEMMA CarefulRest ==
    ASSUME LeaseInv, Careful, UNCHANGED <<up, st, file, tmp, unsaved, serverSeq>>,
           \A t \in Threads : \/ thr'[t] = thr[t]
                              \/ /\ thr'[t].pc \in {"idle", "join", "off", "loop", "wait", "read"}
                                 /\ thr'[t].ans \in {thr[t].ans, "none"},
           Working("app")' => ~hbRun' /\ thr'["app"].op \in Calls,
           Working("beat")' => st.lease # NULL,
           st.lease # NULL /\ file.lease = NULL /\ up => thr'["app"] = thr["app"]
    PROVE  Careful'
<1>1. ASSUME NEW t \in Threads PROVE Knows(thr[t])'
  <2>1. Knows(thr[t])
        BY DEF Careful
  <2>2. CASE thr'[t] = thr[t]
        BY <2>1, <2>2 DEF Knows, Bringing
  <2>3. CASE thr'[t] # thr[t]
        BY <2>1, <2>3 DEF Knows, Bringing
  <2> QED
      BY <2>2, <2>3
<1>2. (Bringing(thr["app"], {"adopt", "install"}) => Renewing(thr["app"]))'
      BY DEF Careful, Bringing, Renewing, Threads
<1>3. (up => /\ file.pins \subseteq st.pins /\ file.seq <= st.seq
             /\ unsaved # "lost" => serverSeq <= st.seq
             /\ st.lease # NULL /\ file.lease = NULL =>
                   /\ Renewing(thr["app"]) /\ thr["app"].next = "done"
                   /\ thr["app"].pc \in {"save", "replace"})'
      BY DEF Careful, Renewing
<1>4. (unsaved = "no" => serverSeq <= file.seq)' /\ (unsaved = "yes" => up)' /\ file' # Garbled
      BY DEF Careful
<1> QED
    BY <1>1, <1>2, <1>3, <1>4 DEF Careful

LEMMA CarefulNext ==
    ASSUME LeaseInv, Careful, host = "careful", [Next]_vars
    PROVE  Careful' /\ FileKeepsUp /\ (LeaseComesBack => Renewing(thr["app"]))
<1> DEFINE Goal == Careful' /\ FileKeepsUp /\ (LeaseComesBack => Renewing(thr["app"]))
<1>1. /\ thr \in [Threads -> Thread] /\ Threads = {"app", "beat"}
      /\ st \in SdkState /\ file \in SdkState /\ file # Garbled
      /\ st.seq \in Nat /\ file.seq \in Nat /\ serverSeq \in Nat
      BY ClientBounds DEF LeaseInv, TypeOK, Threads, Careful, SdkState
<1>2. UNCHANGED <<st, file>> => FileKeepsUp /\ ~LeaseComesBack
      BY <1>1 DEF FileKeepsUp, LeaseComesBack
<1>3. ~hbRun /\ thr["app"].pc # "join" => thr["beat"].pc = "off"
      BY DEF LeaseInv, Shapes
<1>4. st.lease # NULL /\ file.lease = NULL /\ up => Working("app")
      BY DEF Careful, Working
<1>5. ASSUME NEW t \in Threads, Post(t) PROVE Goal
      BY <1>5, CarefulPost
<1>6. ASSUME Start PROVE Goal
  <2>1. /\ ~up /\ thr' = Threadless /\ hbRun' = hbRun /\ Boot(file)
        /\ UNCHANGED <<tmp, unsaved, serverSeq>>
        BY <1>1, <1>6 DEF Start, LeaseInv, Shapes, history
  <2>2. /\ st'.lease = file.lease /\ st'.seq = file.seq /\ file.pins \subseteq st'.pins
        /\ st' \in SdkState
        /\ file' = st' \/ file' = file
        BY <1>1, <2>1 DEF Boot, SdkState, LeaseInv, TypeOK
  <2>3. file' # Garbled /\ file.pins \subseteq file'.pins /\ file.seq = file'.seq
        /\ file'.lease = file.lease /\ file'.pins \subseteq st'.pins
        BY <1>1, <2>2, ClientBounds
  <2>4. \A t \in Threads : Knows(thr[t])' /\ ~Working(t)' /\ ~Bringing(thr[t], {"adopt", "install"})'
        BY <2>1 DEF Knows, Working, Bringing, Threadless, At
  <2>5. unsaved # "yes" /\ (unsaved = "no" => serverSeq <= file.seq) /\ unsaved \in {"no", "yes", "lost"}
        BY <2>1 DEF Careful, LeaseInv, TypeOK
  <2> QED
      BY <1>1, <2>1, <2>2, <2>3, <2>4, <2>5 DEF Careful, FileKeepsUp, LeaseComesBack
<1>7. ASSUME Crash PROVE Goal
  <2>1. /\ ~up' /\ thr' = Threadless /\ file' = file /\ serverSeq' = serverSeq
        /\ unsaved' = IF unsaved = "no" THEN "no" ELSE "lost"
        /\ st' = EmptyState
        BY <1>7 DEF Crash, serverVars
  <2>2. \A t \in Threads : Knows(thr[t])' /\ ~Working(t)' /\ ~Bringing(thr[t], {"adopt", "install"})'
        BY <2>1 DEF Knows, Working, Bringing, Threadless, At
  <2>3. FileKeepsUp /\ ~LeaseComesBack
        BY <1>1, <2>1 DEF FileKeepsUp, LeaseComesBack, EmptyState
  <2> QED
      BY <1>1, <2>1, <2>2, <2>3 DEF Careful
<1>8. ASSUME NEW op \in Calls, Call(op) PROVE Goal
  <2>1. /\ up /\ thr["app"].pc = "idle" /\ ~hbRun
        /\ UNCHANGED <<up, hbRun, st, file, tmp, unsaved, serverSeq>>
        /\ thr'["beat"] = thr["beat"] /\ thr'["app"].op = op
        /\ thr'["app"].pc = (IF op = "activate" THEN "sent" ELSE "read") /\ thr'["app"].ans = "none"
        BY <1>1, <1>8 DEF Call, At, stored, serverVars, history
  <2>2. ASSUME NEW t \in Threads PROVE Knows(thr[t])'
    <3>1. Knows(thr[t])
          BY DEF Careful
    <3>2. CASE t = "app"
          BY <2>1, <3>2 DEF Knows, Bringing
    <3>3. CASE t = "beat"
          BY <2>1, <3>1, <3>3 DEF Knows, Bringing
    <3> QED
        BY <1>1, <3>2, <3>3
  <2>3. ~(st.lease # NULL /\ file.lease = NULL)
        BY <1>4, <2>1 DEF Working
  <2>4. thr["beat"].pc = "off"
        BY <1>3, <2>1
  <2> QED
      BY <1>2, <2>1, <2>2, <2>3, <2>4 DEF Careful, Working, Bringing
<1>9. ASSUME ClearDeactivated PROVE Goal
  <2>1. /\ thr["app"].pc = "clear" /\ st' = [st EXCEPT !.lease = NULL]
        /\ thr'["app"] = [thr["app"] EXCEPT !.pc = "save", !.next = "done"]
        /\ thr'["beat"] = thr["beat"]
        /\ UNCHANGED <<up, hbRun, file, tmp, unsaved, serverSeq>>
        BY <1>1, <1>9 DEF ClearDeactivated, GoSaving, stored, serverVars, history
  <2>2. /\ thr'["app"].pc = "save" /\ thr'["app"].next = "done"
        /\ thr'["app"].ans = thr["app"].ans /\ thr'["app"].op = thr["app"].op
        BY <1>1, <2>1 DEF Thread
  <2>3. st'.lease = NULL /\ st'.seq = st.seq /\ st'.pins = st.pins
        BY <1>1, <2>1 DEF SdkState
  <2>4. ~hbRun /\ thr["app"].op \in Calls /\ thr["beat"].pc = "off"
        BY <1>3, <2>1 DEF Careful, Working
  <2>5. ASSUME NEW t \in Threads PROVE Knows(thr[t])'
    <3>1. Knows(thr[t])
          BY DEF Careful
    <3>2. CASE t = "app"
          BY <2>1, <2>2, <3>1, <3>2 DEF Knows, Bringing
    <3>3. CASE t = "beat"
          BY <2>1, <2>4, <3>1, <3>3 DEF Knows, Bringing
    <3> QED
        BY <1>1, <3>2, <3>3
  <2>6. FileKeepsUp /\ ~LeaseComesBack
        BY <1>1, <2>1, <2>3 DEF FileKeepsUp, LeaseComesBack
  <2> QED
      BY <2>1, <2>2, <2>3, <2>4, <2>5, <2>6 DEF Careful, Working, Bringing
<1>10. ASSUME StartHeartbeat \/ StopHeartbeat \/ Join \/ Beat \/ Wake PROVE Goal
  <2>1. UNCHANGED <<up, st, file, tmp, unsaved, serverSeq>>
        BY <1>10 DEF StartHeartbeat, StopHeartbeat, Join, Beat, Wake, stored, serverVars, history
  <2>2. /\ \A t \in Threads : \/ thr'[t] = thr[t]
                             \/ /\ thr'[t].pc \in {"idle", "join", "off", "loop", "wait", "read"}
                                /\ thr'[t].ans \in {thr[t].ans, "none"}
        /\ thr'["app"] = thr["app"] \/ (~Working("app") /\ ~Working("app")')
        /\ Working("beat")' => Working("beat") \/ st.lease # NULL
    <3>1. ASSUME StartHeartbeat \/ StopHeartbeat \/ Join
          PROVE  /\ \A t \in Threads : \/ thr'[t] = thr[t]
                                      \/ /\ thr'[t].pc \in {"idle", "join", "loop"}
                                         /\ thr'[t].ans \in {thr[t].ans, "none"}
                 /\ thr'["app"] = thr["app"] \/ (~Working("app") /\ ~Working("app")')
                 /\ Working("beat")' => Working("beat")
          BY <1>1, <3>1 DEF StartHeartbeat, StopHeartbeat, Join, Go, At, Thread, Working
    <3>2. ASSUME Beat \/ Wake
          PROVE  /\ thr'["app"] = thr["app"]
                 /\ thr'["beat"].ans = thr["beat"].ans
                 /\ thr'["beat"].pc \in {"off", "loop", "wait", "read"}
                 /\ thr'["beat"].pc = "read" => st.lease # NULL
          BY <1>1, <3>2 DEF Beat, Wake, Running, Activated, Go, Thread
    <3> QED
        BY <1>1, <1>10, <3>1, <3>2 DEF Working
  <2>3. Working("app")' => ~hbRun' /\ thr'["app"].op \in Calls
    <3>1. Working("app") => ~hbRun /\ thr["app"].op \in Calls
          BY DEF Careful
    <3>2. Working("app") => ~hbRun'
          BY <1>1, <1>10, <3>1 DEF StartHeartbeat, StopHeartbeat, Join, Beat, Wake, Working
    <3> QED
        BY <2>2, <3>1, <3>2 DEF Working
  <2>4. Working("beat")' => st.lease # NULL
        BY <2>2 DEF Careful
  <2>5. Careful'
        BY <1>4, <2>1, <2>2, <2>3, <2>4, CarefulRest
  <2> QED
      BY <1>2, <2>1, <2>5
<1>11. ASSUME \/ Revoke \/ AdminUnbind \/ Tick \/ UNCHANGED vars
              \/ \E k \in SignKeys : Rotate(k) \/ Retire(k)
       PROVE  Goal
  <2>1. UNCHANGED <<up, hbRun, thr, st, file, tmp, unsaved, serverSeq>>
        BY <1>11 DEF Revoke, AdminUnbind, Tick, vars, Rotate, Retire, clientVars, stored,
                     serverVars, history
  <2>2. /\ Working("app")' => ~hbRun' /\ thr'["app"].op \in Calls
        /\ Working("beat")' => st.lease # NULL
        BY <2>1 DEF Careful, Working
  <2>3. Careful'
        BY <2>1, <2>2, CarefulRest
  <2> QED
      BY <1>2, <2>1, <2>3
<1> QED
    BY <1>5, <1>6, <1>7, <1>8, <1>9, <1>10, <1>11 DEF Next

LEMMA HostStays == [Next]_vars => host' = host
<1>1. ASSUME NEW t \in Threads, Post(t) PROVE host' = host
      BY <1>1 DEF Post, ReadSeq, WriteSeq, Lose, Serve, Return, Adopt, Install, Serialize,
                  Replace, Done, stored
<1>2. ASSUME \/ Start \/ Crash \/ ClearDeactivated \/ StartHeartbeat \/ StopHeartbeat \/ Join
             \/ Beat \/ Wake \/ \E op \in Calls : Call(op)
      PROVE  host' = host
      BY <1>2 DEF Start, Crash, ClearDeactivated, StartHeartbeat, StopHeartbeat, Join, Beat, Wake,
                  Call, stored
<1>3. ASSUME \/ Revoke \/ AdminUnbind \/ Tick \/ UNCHANGED vars
             \/ \E k \in SignKeys : Rotate(k) \/ Retire(k)
      PROVE  host' = host
      BY <1>3 DEF Revoke, AdminUnbind, Tick, vars, Rotate, Retire, clientVars, stored
<1> QED
    BY <1>1, <1>2, <1>3 DEF Next

LEMMA CarefulInit == Init => Careful
<1> SUFFICES ASSUME Init PROVE Careful
    OBVIOUS
<1>1. /\ thr = Threadless /\ file = EmptyState /\ ~up /\ unsaved = "no" /\ serverSeq = 0
      BY DEF Init
<1>2. EmptyState \in SdkState
      BY DEF EmptyState, SdkState
<1>3. \A t \in Threads : Knows(thr[t]) /\ ~Working(t) /\ ~Bringing(thr[t], {"adopt", "install"})
      BY <1>1 DEF Knows, Working, Bringing, Threadless, At
<1> QED
    BY <1>1, <1>2, <1>3, ClientBounds DEF Careful, EmptyState, Threads

LEMMA CarefulInvariant == Spec => []CarefulInv
<1>1. Init => CarefulInv
      BY TypeInit, LeasesInit, CarefulInit DEF LeaseInv, CarefulInv
<1>2. CarefulInv /\ [Next]_vars => CarefulInv'
  <2> SUFFICES ASSUME CarefulInv, [Next]_vars PROVE CarefulInv'
      OBVIOUS
  <2>1. LeaseInv' /\ host' = host
        BY TypeNext, ShapesNext, LeasesNext, HostStays DEF LeaseInv, CarefulInv
  <2> QED
      BY <2>1, CarefulNext DEF CarefulInv
<1> QED
    BY <1>1, <1>2, PTL DEF Spec

\* No crash and no later save of a careful host takes back a pinned key or a sequence
\* number, and what it saves always decrypts (save_state, sdk.cpp:275).
THEOREM StateIsKept == Spec => StateBinKeepsUp
<1>1. CarefulInv /\ [Next]_vars =>
        [host = "careful" => /\ file' # Garbled
                             /\ file.pins \subseteq file'.pins
                             /\ file.seq <= file'.seq]_vars
      BY CarefulNext DEF CarefulInv, FileKeepsUp
<1> QED
    BY CarefulInvariant, <1>1, PTL DEF Spec, StateBinKeepsUp

\* A careful host that did not end with a number in use is never taken for a replay
\* (post_signed).
THEOREM NumbersAreNew == Spec => []NumbersStayAhead
<1>1. CarefulInv => NumbersStayAhead
      BY DEF CarefulInv, Careful, Knows, NumbersStayAhead
<1> QED
    BY CarefulInvariant, <1>1, PTL

\* A deactivated device of a careful host has no lease before it activates or redeems
\* again (lumistar_deactivate, adopt_lease).
THEOREM NoLeaseComesBack == Spec => DeactivatedForGood
<1>1. CarefulInv /\ [Next]_vars =>
        [/\ host = "careful"
         /\ \/ up /\ st.lease = NULL /\ st'.lease # NULL
            \/ file # Garbled /\ file.lease = NULL /\ file' # Garbled /\ file'.lease # NULL
         => thr["app"].op \in {"activate", "redeem"}]_vars
  <2> SUFFICES ASSUME CarefulInv, [Next]_vars, host = "careful",
                      \/ up /\ st.lease = NULL /\ st'.lease # NULL
                      \/ file # Garbled /\ file.lease = NULL /\ file' # Garbled
                         /\ file'.lease # NULL
               PROVE  thr["app"].op \in {"activate", "redeem"}
      OBVIOUS
  <2>1. LeaseComesBack /\ (LeaseComesBack => Renewing(thr["app"]))
        BY CarefulNext DEF CarefulInv, LeaseComesBack
  <2> QED
      BY <2>1 DEF Renewing
<1> QED
    BY CarefulInvariant, <1>1, PTL DEF Spec, DeactivatedForGood

===============================================================================
