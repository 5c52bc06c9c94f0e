------------------------------ MODULE GateProofs ------------------------------
(***************************************************************************)
(* The replay gate admits no message twice while its nonces last, for any  *)
(* number of messages, replicas and deliveries, and any windows that       *)
(* ReplayAssumption allows.  AcceptedOnce alone is not inductive: one has  *)
(* to know that a message in the gate is young (Timely), that the nonce of *)
(* one that passed it outlives its timestamp (Taken), and that no two      *)
(* requests are past the nonce with one message (Alone).                   *)
(***************************************************************************)
EXTENDS Replay, FiniteSetTheorems, TLAPS

InGate(r) == req[r].pc \in {"nonce", "seq", "db"}
Passed(r) == req[r].pc \in {"seq", "db"}

Carries == \A r \in Requests :
    req[r].pc # "idle" => req[r].nonce \in Nonces /\ msg[req[r].nonce] # NULL

Timely == \A r \in Requests : InGate(r) =>
    /\ req[r].at <= now /\ now <= req[r].at + Stall
    /\ msg[req[r].nonce].ts <= req[r].at + MaxClockSkew
    /\ msg[req[r].nonce].ts >= req[r].at - MaxClockSkew

Outlives(n) == nonceUntil[n] > msg[n].ts + MaxClockSkew + Stall

Taken ==
    /\ \A n \in Nonces : accepted[n] > 0 => msg[n] # NULL /\ Outlives(n)
    /\ \A r \in Requests : Passed(r) => Outlives(req[r].nonce)

Alone ==
    /\ \A r, s \in Requests :
          Passed(r) /\ Passed(s) /\ req[r].nonce = req[s].nonce => r = s
    /\ \A r \in Requests : Passed(r) => accepted[req[r].nonce] = 0

TypeInv == TypeOK /\ Carries

AtMostOnce == \A n \in Nonces : accepted[n] <= 1

Young == TypeInv /\ Timely
Once == Young /\ Taken /\ Alone /\ AtMostOnce
OnceInv == Young /\ (NoncesKept => Once)

LEMMA Bounds ==
    /\ ReplayWindow \in Nat /\ SeqTTL \in Nat /\ MaxClockSkew \in Nat
    /\ ClockError \in Nat /\ Stall \in Nat /\ MaxTime \in Nat
    /\ ReplayWindow > MaxClockSkew + Stall
BY ReplayAssumption

\* A request that moves on in the gate stays a request with its message.
LEMMA Moves ==
    ASSUME TypeInv, NEW r \in Requests, msg' = msg,
           \/ req' = [req EXCEPT ![r] = NoRequest]
           \/ /\ req[r].pc # "idle"
              /\ \E pc \in {"seq", "db", "bump"} : req' = [req EXCEPT ![r].pc = pc]
    PROVE  req' \in [Requests -> RequestRecord] /\ Carries'
<1>1. CASE req' = [req EXCEPT ![r] = NoRequest]
      BY <1>1 DEF TypeInv, TypeOK, Carries, NoRequest, RequestRecord
<1>2. ASSUME NEW pc \in {"seq", "db", "bump"}, req[r].pc # "idle",
             req' = [req EXCEPT ![r].pc = pc]
      PROVE  req' \in [Requests -> RequestRecord] /\ Carries'
      BY <1>2 DEF TypeInv, TypeOK, Carries, RequestRecord
<1> QED
    BY <1>1, <1>2

LEMMA RefusalTyped ==
    ASSUME TypeInv, NEW r \in Requests, req[r].pc # "idle",
           NEW reason \in Reasons, Refuse(r, reason)
    PROVE  refused' \in [Nonces -> SUBSET Reasons]
<1>1. req[r].nonce \in Nonces /\ refused \in [Nonces -> SUBSET Reasons]
      BY DEF TypeInv, TypeOK, Carries
<1>2. refused[req[r].nonce] \cup {reason} \in SUBSET Reasons
      BY <1>1
<1> QED
    BY <1>1, <1>2 DEF Refuse

\* Every column and every request record keeps its type, and a request in the
\* gate carries a signed message.
LEMMA TypeStep == TypeInv /\ [Next]_vars => TypeInv'
<1> SUFFICES ASSUME TypeInv, [Next]_vars PROVE TypeInv'
    OBVIOUS
<1> USE DEF TypeInv, TypeOK, history, redisVars
<1> USE Bounds
<1>1. ASSUME NEW n \in Nonces, NEW kind \in SignedKinds,
             NEW e \in -ClockError .. ClockError, Sign(n, kind, e)
      PROVE TypeInv'
  <2>1. kind \in Kinds
      BY ReplayAssumption
  <2>5. clientSeq' \in Nat
      BY <1>1 DEF Sign
  <2>6. now + e \in Int
      OBVIOUS
  <2>2. [kind |-> kind, ts |-> now + e,
         seq |-> IF kind = "activate" THEN 0 ELSE clientSeq'] \in Messages
      BY <2>1, <2>5, <2>6 DEF Messages
  <2>3. msg' \in [Nonces -> Messages \cup {NULL}]
      BY <1>1, <2>2, Zenon DEF Sign
  <2>4. Carries'
      BY <1>1, <2>2, ReplayAssumption DEF Sign, Carries, Messages, RequestRecord
  <2> QED
      BY <1>1, <2>5, <2>3, <2>4 DEF Sign
<1>2. ASSUME NEW r \in Requests, NEW n \in Nonces, Deliver(r, n) PROVE TypeInv'
      BY <1>2 DEF Deliver, Arrival, Carries, RequestRecord
<1>3. ASSUME NEW r \in Requests, ConsumeNonce(r) PROVE TypeInv'
  <2>1. req' \in [Requests -> RequestRecord] /\ Carries'
      BY <1>3, Moves DEF ConsumeNonce, GoesOn, Refuse
  <2> QED
      BY <1>3, <2>1 DEF ConsumeNonce, GoesOn, TakeNonce, Refuse, Reasons
<1>4. ASSUME NEW r \in Requests, NonceCallFails(r) PROVE TypeInv'
  <2>1. req' \in [Requests -> RequestRecord] /\ Carries'
      BY <1>4, Moves DEF NonceCallFails, GoesOn, Refuse
  <2> QED
    <3>1. refused' \in [Nonces -> SUBSET Reasons]
        BY <1>4, RefusalTyped DEF NonceCallFails, GoesOn, Reasons
    <3>2. nonceUntil' \in [Nonces -> Nat]
      <4>1. CASE nonceUntil' = nonceUntil
          BY <4>1
      <4>2. CASE TakeNonce(req[r].nonce)
        <5>1. now + ReplayWindow + MaxClockSkew \in Nat
            OBVIOUS
        <5> QED
            BY <4>2, <5>1, Zenon DEF TakeNonce
      <4> QED
          BY <1>4, <4>1, <4>2 DEF NonceCallFails
    <3>3. accepted' = accepted /\ lastAccepted' = lastAccepted
        BY <1>4 DEF NonceCallFails, GoesOn, Refuse
    <3> QED
        BY <1>4, <2>1, <3>1, <3>2, <3>3 DEF NonceCallFails
<1>5. ASSUME NEW r \in Requests, CheckSeq(r) PROVE TypeInv'
  <2>1. req' \in [Requests -> RequestRecord] /\ Carries'
      BY <1>5, Moves DEF CheckSeq, Accept, Refuse
  <2>2. req[r].nonce \in Nonces /\ msg[req[r].nonce].seq \in Nat
      BY <1>5 DEF CheckSeq, Carries, Messages
  <2>3. SeqKey(req[r].nonce) \in SeqKeys
      BY DEF SeqKey, SeqKeys
  <2> QED
      BY <1>5, <2>1, <2>2, <2>3 DEF CheckSeq, StoreSeq, Accept, Refuse, Reasons
<1>6. ASSUME NEW r \in Requests, SeqCallFails(r) PROVE TypeInv'
  <2>1. req' \in [Requests -> RequestRecord] /\ Carries'
      BY <1>6, Moves DEF SeqCallFails, GoesOn, Refuse
  <2> QED
    <3>1. refused' \in [Nonces -> SUBSET Reasons]
        BY <1>6, RefusalTyped DEF SeqCallFails, GoesOn, Reasons
    <3> QED
        BY <1>6, <2>1, <3>1 DEF SeqCallFails, GoesOn, Refuse
<1>7. ASSUME NEW r \in Requests, AcceptDeviceSeq(r) PROVE TypeInv'
  <2>1. req' \in [Requests -> RequestRecord] /\ Carries'
      BY <1>7, Moves DEF AcceptDeviceSeq, Accept, Refuse
  <2>2. req[r].nonce \in Nonces /\ msg[req[r].nonce].seq \in Nat
      BY <1>7 DEF AcceptDeviceSeq, Carries, Messages
  <2> QED
      BY <1>7, <2>1, <2>2 DEF AcceptDeviceSeq, Accept, Refuse, Reasons
<1>8. ASSUME NEW r \in Requests, BumpDeviceHeartbeat(r) PROVE TypeInv'
  <2>1. req' \in [Requests -> RequestRecord] /\ Carries'
      BY <1>8, Moves DEF BumpDeviceHeartbeat
  <2>2. msg[req[r].nonce].seq \in Nat
      BY <1>8 DEF BumpDeviceHeartbeat, Carries, Messages
  <2> QED
      BY <1>8, <2>1, <2>2 DEF BumpDeviceHeartbeat, Bumped
<1>9. ASSUME NEW r \in Requests, Abandon(r) PROVE TypeInv'
  <2>1. req' \in [Requests -> RequestRecord] /\ Carries'
      BY <1>9, Moves DEF Abandon
  <2> QED
      BY <1>9, <2>1 DEF Abandon
<1>10. CASE Flush
      BY <1>10 DEF Flush, Carries, SeqKeys
<1>11. CASE Tick
      BY <1>11 DEF Tick, Carries
<1>12. CASE UNCHANGED vars
      BY <1>12 DEF vars, Carries
<1> QED
    BY <1>1, <1>2, <1>3, <1>4, <1>5, <1>6, <1>7, <1>8, <1>9, <1>10, <1>11, <1>12
    DEF Next, Gate

LEMMA TypeAtStart == Init => TypeInv
<1> SUFFICES ASSUME Init PROVE TypeInv
    OBVIOUS
<1>1. req \in [Requests -> RequestRecord] /\ Carries
    BY DEF Init, NoRequest, RequestRecord, Carries
<1>2. redisSeq \in [SeqKeys -> Nat \cup {-1}] /\ redisUntil \in [SeqKeys -> Nat]
    BY DEF Init
<1>3. refused \in [Nonces -> SUBSET Reasons] /\ accepted \in [Nonces -> 0 .. 2]
    BY DEF Init
<1> QED
    BY <1>1, <1>2, <1>3 DEF Init, TypeInv, TypeOK

\* Type correctness of the replay gate (checkReplay, checkActivationReplay).
THEOREM GateTypeCorrect == Spec => []TypeOK
<1>1. TypeInv => TypeOK
      BY DEF TypeInv
<1> QED
    BY <1>1, TypeAtStart, TypeStep, PTL DEF Spec

-----------------------------------------------------------------------------
\* A request that leaves the gate or moves on in it leaves the others as they are.
LEMMA TimelyUnderMove ==
    ASSUME Young, NEW r \in Requests, msg' = msg, now' = now,
           \/ req' = [req EXCEPT ![r] = NoRequest]
           \/ /\ InGate(r)
              /\ \E pc \in {"seq", "db", "bump"} : req' = [req EXCEPT ![r].pc = pc]
    PROVE  Timely'
<1> USE DEF Young, TypeInv, TypeOK, RequestRecord
<1>1. \A s \in Requests : InGate(s)' => InGate(s)
        /\ req'[s].nonce = req[s].nonce /\ req'[s].at = req[s].at
      BY DEF InGate, NoRequest
<1> QED
    BY <1>1 DEF Timely

\* A request in the gate is younger than Stall, and came with a timestamp in the
\* window (checkReplay).
LEMMA TimelyStep ==
    ASSUME Young, [Next]_vars
    PROVE  Timely'
<1> USE DEF history, redisVars
<1>1. ASSUME NEW n \in Nonces, NEW kind \in SignedKinds,
             NEW e \in -ClockError .. ClockError, Sign(n, kind, e)
      PROVE Timely'
  <2>1. \A r \in Requests : InGate(r) => msg'[req[r].nonce] = msg[req[r].nonce]
      BY <1>1 DEF Sign, InGate, Young, TypeInv, TypeOK, Carries
  <2> QED
      BY <1>1, <2>1 DEF Sign, Timely, InGate, Young
<1>2. ASSUME NEW r \in Requests, NEW n \in Nonces, Deliver(r, n) PROVE Timely'
  <2>1. req' = [req EXCEPT ![r] = Arrival(n)] /\ msg' = msg /\ now' = now
      BY <1>2 DEF Deliver
  <2>2. now \in Nat /\ now <= now + Stall
      BY Bounds DEF Young, TypeInv, TypeOK
  <2>3. \A s \in Requests : s # r => req'[s] = req[s]
      BY <2>1 DEF Young, TypeInv, TypeOK
  <2>4. req'[r].nonce = n /\ req'[r].at = now
      BY <2>1 DEF Arrival, Young, TypeInv, TypeOK
  <2>5. msg[n].ts <= now + MaxClockSkew /\ msg[n].ts >= now - MaxClockSkew
      BY <1>2 DEF Deliver, InWindow
  <2>6. ASSUME NEW s \in Requests, InGate(s)'
        PROVE  /\ req'[s].at <= now /\ now <= req'[s].at + Stall
               /\ msg[req'[s].nonce].ts <= req'[s].at + MaxClockSkew
               /\ msg[req'[s].nonce].ts >= req'[s].at - MaxClockSkew
    <3>1. CASE s = r
        BY <3>1, <2>2, <2>4, <2>5
    <3>2. CASE s # r
        BY <3>2, <2>3, <2>6 DEF Young, Timely, InGate
    <3> QED
        BY <3>1, <3>2
  <2> QED
      BY <2>1, <2>6 DEF Timely
<1>3. ASSUME NEW r \in Requests, Gate(r) PROVE Timely'
  <2>1. CASE ConsumeNonce(r) \/ NonceCallFails(r)
      BY <2>1, TimelyUnderMove DEF ConsumeNonce, NonceCallFails, Refuse, GoesOn, InGate
  <2>2. CASE CheckSeq(r) \/ SeqCallFails(r)
      BY <2>2, TimelyUnderMove DEF CheckSeq, SeqCallFails, Accept, Refuse, GoesOn, InGate
  <2>3. CASE AcceptDeviceSeq(r)
      BY <2>3, TimelyUnderMove DEF AcceptDeviceSeq, Accept, Refuse, InGate
  <2>4. CASE BumpDeviceHeartbeat(r) \/ Abandon(r)
      BY <2>4, TimelyUnderMove DEF BumpDeviceHeartbeat, Abandon
  <2> QED
      BY <1>3, <2>1, <2>2, <2>3, <2>4 DEF Gate
<1>4. CASE Tick
  <2>1. ASSUME NEW r \in Requests, InGate(r)
        PROVE  now' <= req[r].at + Stall /\ req[r].at <= now'
    <3>1. now \in Nat /\ req[r].at \in Nat /\ req[r].at <= now
        BY <2>1 DEF Young, Timely, TypeInv, TypeOK, RequestRecord
    <3>2. now < req[r].at + Stall /\ now' = now + 1
        BY <1>4, <2>1 DEF Tick, InGate
    <3> QED
        BY <3>1, <3>2, Bounds
  <2> QED
      BY <1>4, <2>1 DEF Tick, Timely, InGate, Young
<1>5. CASE Flush \/ UNCHANGED vars
      BY <1>5 DEF Flush, vars, Timely, InGate, Young
<1> QED
    BY <1>1, <1>2, <1>3, <1>4, <1>5 DEF Next

-----------------------------------------------------------------------------
\* A request that ends, or goes on behind the nonce, takes nothing from Once.
LEMMA OnceUnderMove ==
    ASSUME Once, NEW r \in Requests, req[r].pc # "idle",
           msg' = msg, nonceUntil' = nonceUntil, accepted' = accepted,
           \/ req' = [req EXCEPT ![r] = NoRequest]
           \/ Passed(r) /\ req' = [req EXCEPT ![r].pc = "db"]
    PROVE  Taken' /\ Alone' /\ AtMostOnce'
<1> USE DEF Once, Young, TypeInv, TypeOK, RequestRecord
<1>1. \A s \in Requests : Passed(s)' => Passed(s) /\ req'[s].nonce = req[s].nonce
      BY DEF Passed, NoRequest
<1>2. Taken'
      BY <1>1 DEF Taken, Outlives
<1>3. Alone'
      BY <1>1 DEF Alone
<1> QED
    BY <1>2, <1>3 DEF AtMostOnce

\* The nonce of a message in the gate is taken for longer than its timestamp is
\* accepted, and no other request and no earlier delivery has passed with it.
LEMMA NonceTaken ==
    ASSUME Once, NEW r \in Requests, req[r].pc = "nonce",
           NonceFresh(req[r].nonce), TakeNonce(req[r].nonce),
           msg' = msg, accepted' = accepted, req' = [req EXCEPT ![r].pc = "seq"]
    PROVE  Taken' /\ Alone' /\ AtMostOnce'
<1> USE DEF Once, Young, TypeInv, TypeOK, RequestRecord
<1> DEFINE m == req[r].nonce
<1>1. m \in Nonces /\ msg[m] \in Messages /\ msg[m].ts \in Int
      BY DEF Carries, Messages
<1>2. /\ req[r].at \in Nat /\ req[r].at <= now /\ now <= req[r].at + Stall
      /\ msg[m].ts <= req[r].at + MaxClockSkew /\ msg[m].ts >= req[r].at - MaxClockSkew
      BY DEF Timely, InGate
<1>3. ~Outlives(m)
      BY <1>1, <1>2, Bounds DEF NonceFresh, Outlives
<1>4. nonceUntil'[m] = now + ReplayWindow + MaxClockSkew
      BY <1>1 DEF TakeNonce
<1>5. nonceUntil'[m] > msg[m].ts + MaxClockSkew + Stall
      BY <1>1, <1>2, <1>4, Bounds
<1>6. \A n \in Nonces : Outlives(n) => Outlives(n)'
      BY <1>3 DEF Outlives, TakeNonce
<1>7. Outlives(m)'
      BY <1>5 DEF Outlives
<1>8. ~(accepted[m] > 0) /\ \A s \in Requests : Passed(s) => req[s].nonce # m
      BY <1>1, <1>3 DEF Taken
<1>9. \A s \in Requests : /\ req'[s].nonce = req[s].nonce
                          /\ s # r => (Passed(s)' <=> Passed(s))
      BY DEF Passed
<1>10. Taken'
  <2>1. \A n \in Nonces : accepted'[n] > 0 => msg'[n] # NULL /\ Outlives(n)'
      BY <1>6 DEF Taken
  <2>2. ASSUME NEW s \in Requests, Passed(s)' PROVE Outlives(req[s].nonce)'
    <3>1. CASE s = r
        BY <3>1, <1>7
    <3>2. CASE s # r
        BY <3>2, <2>2, <1>6, <1>9 DEF Taken, Passed, Carries
    <3> QED
        BY <3>1, <3>2
  <2> QED
      BY <2>1, <2>2, <1>9 DEF Taken, Outlives
<1>11. accepted[m] = 0
      BY <1>1, <1>8
<1>12. Alone'
      BY <1>8, <1>9, <1>11 DEF Alone
<1> QED
    BY <1>10, <1>12 DEF AtMostOnce

\* A request is admitted: it leaves the gate, alone with its message.
LEMMA OnceUnderAccept ==
    ASSUME Once, NEW r \in Requests, Passed(r), Accept(r),
           msg' = msg, nonceUntil' = nonceUntil
    PROVE  Taken' /\ Alone' /\ AtMostOnce'
<1> USE DEF Once, Young, TypeInv, TypeOK, RequestRecord
<1> DEFINE m == req[r].nonce
<1>1. m \in Nonces /\ msg[m] # NULL /\ accepted[m] = 0
      BY DEF Carries, Passed, Alone
<1>2. accepted' = [accepted EXCEPT ![m] = 1]
      BY <1>1 DEF Accept
<1>3. ~Passed(r)'
      BY DEF Accept, NoRequest, Passed
<1>4. \A s \in Requests : s # r => req'[s] = req[s]
      BY DEF Accept
<1>5. \A s \in Requests : Passed(s)' => s # r /\ Passed(s) /\ req'[s] = req[s] /\ req[s].nonce # m
      BY <1>3, <1>4 DEF Passed, Alone
<1>6. Taken'
      BY <1>1, <1>2, <1>5 DEF Taken, Outlives
<1>7. Alone'
      BY <1>1, <1>2, <1>5 DEF Alone, Carries, Passed
<1>8. AtMostOnce'
      BY <1>1, <1>2 DEF AtMostOnce
<1> QED
    BY <1>6, <1>7, <1>8

LEMMA OnceStep ==
    ASSUME Once, [Next]_vars, NoncesKept'
    PROVE  Taken' /\ Alone' /\ AtMostOnce'
<1> USE DEF history, redisVars
<1>1. ASSUME NEW n \in Nonces, NEW kind \in SignedKinds,
             NEW e \in -ClockError .. ClockError, Sign(n, kind, e)
      PROVE Taken' /\ Alone' /\ AtMostOnce'
  <2>1. \A p \in Nonces : msg[p] # NULL => msg'[p] = msg[p]
      BY <1>1 DEF Sign, Once, Young, TypeInv, TypeOK
  <2>2. \A r \in Requests : Passed(r) => req[r].nonce \in Nonces
                              /\ msg'[req[r].nonce] = msg[req[r].nonce]
      BY <2>1 DEF Passed, Once, Young, TypeInv, Carries
  <2>3. \A p \in Nonces : accepted[p] > 0 => msg'[p] = msg[p] /\ msg[p] # NULL
      BY <2>1 DEF Once, Taken
  <2>4. Taken'
      BY <1>1, <2>2, <2>3 DEF Sign, Taken, Outlives, Passed, Once
  <2> QED
      BY <1>1, <2>4 DEF Sign, Alone, Passed, AtMostOnce, Once
<1>2. ASSUME NEW r \in Requests, NEW n \in Nonces, Deliver(r, n)
      PROVE Taken' /\ Alone' /\ AtMostOnce'
  <2>1. req' = [req EXCEPT ![r] = Arrival(n)] /\ UNCHANGED <<msg, nonceUntil, accepted>>
      BY <1>2 DEF Deliver
  <2>2. \A s \in Requests : Passed(s)' => Passed(s) /\ req'[s] = req[s]
      BY <2>1 DEF Passed, Arrival, Once, Young, TypeInv, TypeOK
  <2> QED
      BY <2>1, <2>2 DEF Taken, Outlives, Alone, AtMostOnce, Once
<1>3. ASSUME NEW r \in Requests, ConsumeNonce(r)
      PROVE Taken' /\ Alone' /\ AtMostOnce'
  <2>1. CASE TakeNonce(req[r].nonce) /\ NonceFresh(req[r].nonce) /\ GoesOn(r, "seq")
      BY <1>3, <2>1, NonceTaken DEF ConsumeNonce, GoesOn
  <2>2. CASE UNCHANGED nonceUntil /\ Refuse(r, "replay")
      BY <1>3, <2>2, OnceUnderMove DEF ConsumeNonce, Refuse
  <2> QED
      BY <1>3, <2>1, <2>2 DEF ConsumeNonce
<1>4. ASSUME NEW r \in Requests, NonceCallFails(r) PROVE FALSE
      BY <1>4 DEF NonceCallFails, NoncesKept
<1>5. ASSUME NEW r \in Requests, CheckSeq(r) PROVE Taken' /\ Alone' /\ AtMostOnce'
      BY <1>5, OnceUnderAccept, OnceUnderMove DEF CheckSeq, Refuse, Passed
<1>6. ASSUME NEW r \in Requests, SeqCallFails(r) PROVE Taken' /\ Alone' /\ AtMostOnce'
      BY <1>6, OnceUnderMove DEF SeqCallFails, Refuse, GoesOn, Passed
<1>7. ASSUME NEW r \in Requests, AcceptDeviceSeq(r)
      PROVE Taken' /\ Alone' /\ AtMostOnce'
      BY <1>7, OnceUnderAccept, OnceUnderMove DEF AcceptDeviceSeq, Refuse, Passed
<1>8. ASSUME NEW r \in Requests, BumpDeviceHeartbeat(r) \/ Abandon(r)
      PROVE Taken' /\ Alone' /\ AtMostOnce'
      BY <1>8, OnceUnderMove DEF BumpDeviceHeartbeat, Abandon
<1>9. CASE Flush
      BY <1>9 DEF Flush, NoncesKept
<1>10. CASE Tick \/ UNCHANGED vars
      BY <1>10 DEF Tick, vars, Taken, Outlives, Alone, Passed, AtMostOnce, Once
<1> QED
    BY <1>1, <1>2, <1>3, <1>4, <1>5, <1>6, <1>7, <1>8, <1>9, <1>10 DEF Next, Gate

\* A fault of Redis is not forgotten.
LEMMA FaultsStay == [Next]_vars /\ NoncesKept' => NoncesKept
<1> USE DEF history, redisVars, NoncesKept
<1>1. ASSUME NEW r \in Requests, Gate(r), NoncesKept' PROVE NoncesKept
      BY <1>1 DEF Gate, ConsumeNonce, NonceCallFails, CheckSeq, SeqCallFails,
                  AcceptDeviceSeq, BumpDeviceHeartbeat, Abandon
<1>2. ASSUME NEW n \in Nonces, NoncesKept',
             \/ \E kind \in SignedKinds, e \in -ClockError .. ClockError : Sign(n, kind, e)
             \/ \E r \in Requests : Deliver(r, n)
      PROVE NoncesKept
      BY <1>2 DEF Sign, Deliver
<1>3. ASSUME Flush \/ Tick \/ UNCHANGED vars, NoncesKept' PROVE NoncesKept
      BY <1>3 DEF Flush, Tick, vars
<1> QED
    BY <1>1, <1>2, <1>3 DEF Next

\* As long as Redis answered every nonce check and lost nothing, a signed message
\* is admitted at most once (ConsumeNonce, "nonce 原子消费"), whatever happens to
\* the sequence numbers.
THEOREM MessagesAdmittedOnce == Spec => []AcceptedOnce
<1>1. Init => OnceInv
  <2> SUFFICES ASSUME Init PROVE Once
      BY DEF OnceInv, Once
  <2>1. TypeInv
      BY TypeAtStart
  <2>2. \A r \in Requests : ~InGate(r) /\ ~Passed(r)
      BY DEF Init, NoRequest, InGate, Passed
  <2>3. \A n \in Nonces : accepted[n] = 0
      BY DEF Init
  <2>4. Timely
      BY <2>2 DEF Timely
  <2>5. Taken
      BY <2>2, <2>3 DEF Taken, Passed
  <2>6. Alone /\ AtMostOnce
      BY <2>2, <2>3 DEF Alone, AtMostOnce, Passed
  <2> QED
      BY <2>1, <2>4, <2>5, <2>6 DEF Once, Young
<1>2. OnceInv /\ [Next]_vars => OnceInv'
  <2> SUFFICES ASSUME OnceInv, [Next]_vars PROVE OnceInv'
      OBVIOUS
  <2>1. Young'
      BY TypeStep, TimelyStep DEF OnceInv, Young
  <2>2. ASSUME NoncesKept' PROVE Once'
      BY <2>1, <2>2, FaultsStay, OnceStep DEF OnceInv, Once
  <2> QED
      BY <2>1, <2>2 DEF OnceInv
<1>3. OnceInv => AcceptedOnce
      BY DEF OnceInv, Once, AtMostOnce, AcceptedOnce
<1> QED
    BY <1>1, <1>2, <1>3, PTL DEF Spec

\* devices.last_seq never falls, whatever fails (AcceptDeviceSeq,
\* BumpDeviceHeartbeat).
THEOREM LastSeqIsMonotone == Spec => LastSeqNeverFalls
<1>1. TypeInv /\ [Next]_vars => [dbSeq' >= dbSeq]_vars
  <2> SUFFICES ASSUME TypeInv, Next PROVE dbSeq' >= dbSeq
      OBVIOUS
  <2> USE DEF redisVars
  <2>1. dbSeq \in Nat
      BY DEF TypeInv, TypeOK
  <2>2. ASSUME NEW r \in Requests, AcceptDeviceSeq(r) PROVE dbSeq' >= dbSeq
      BY <2>1, <2>2 DEF AcceptDeviceSeq, SeqNewToDb, TypeInv, TypeOK, Carries, Messages
  <2>3. ASSUME NEW r \in Requests, BumpDeviceHeartbeat(r) PROVE dbSeq' >= dbSeq
      BY <2>1, <2>3 DEF BumpDeviceHeartbeat, Bumped, TypeInv, TypeOK, Carries, Messages
  <2>4. ASSUME NEW r \in Requests, ConsumeNonce(r) \/ NonceCallFails(r) \/ CheckSeq(r)
                                   \/ SeqCallFails(r) \/ Abandon(r)
        PROVE dbSeq' = dbSeq
      BY <2>4 DEF ConsumeNonce, NonceCallFails, CheckSeq, SeqCallFails, Abandon
  <2>5. ASSUME \/ \E n \in Nonces, kind \in SignedKinds, e \in -ClockError .. ClockError :
                     Sign(n, kind, e)
               \/ \E r \in Requests, n \in Nonces : Deliver(r, n)
               \/ Flush \/ Tick
        PROVE dbSeq' = dbSeq
      BY <2>5 DEF Sign, Deliver, Flush, Tick
  <2> QED
      BY <2>1, <2>2, <2>3, <2>4, <2>5 DEF Next, Gate
<1>2. Init => TypeInv
      BY TypeAtStart
<1> QED
    BY <1>1, <1>2, TypeStep, PTL DEF Spec, LastSeqNeverFalls

-----------------------------------------------------------------------------
(***************************************************************************)
(* The order of what is admitted, as long as Redis has not failed.  A      *)
(* sequence number is remembered until every older message is too old to   *)
(* pass the timestamp (Ordered), because no message is dated later than    *)
(* ClockError after it was signed (Signed); devices.last_seq follows what  *)
(* was admitted (Bumping).                                                 *)
(***************************************************************************)
Signed == \A n \in Nonces : msg[n] # NULL =>
    /\ msg[n].ts <= now + ClockError
    /\ msg[n].seq <= clientSeq
    /\ SeqKey(n) = "device" => msg[n].seq > 0

Bumping == \A r \in Requests : req[r].pc = "bump" => msg[req[r].nonce].seq <= lastAccepted

Ordered ==
    /\ \A r \in Requests : req[r].pc # "db"
    /\ lastAccepted <= clientSeq /\ dbSeq <= lastAccepted
    /\ lastAccepted > 0 => redisSeq["device"] = lastAccepted
    /\ \A n \in Nonces :
          msg[n] # NULL /\ SeqKey(n) = "device" /\ msg[n].seq <= lastAccepted =>
              msg[n].ts + MaxClockSkew + Stall < redisUntil["device"]

OrderInv == Signed /\ (faulted = {} => Bumping /\ Ordered)

LEMMA WindowBounds ==
    /\ SeqTTL \in Nat /\ MaxClockSkew \in Nat /\ ClockError \in Nat /\ Stall \in Nat
    /\ ClockError + MaxClockSkew + Stall < SeqTTL
<1>1. SeqTTL > 2 * MaxClockSkew + Stall /\ ClockError <= MaxClockSkew
      BY ReplayAssumption
<1> QED
    BY <1>1, Bounds

LEMMA MessageTyped ==
    ASSUME TypeInv, NEW n \in Nonces, msg[n] # NULL
    PROVE  msg[n].ts \in Int /\ msg[n].seq \in Nat /\ msg[n].kind \in Kinds
BY DEF TypeInv, TypeOK, Messages

LEMMA SignedStep ==
    ASSUME TypeInv, Signed, [Next]_vars
    PROVE  Signed'
<1> USE DEF history, redisVars
<1>1. now \in Nat /\ clientSeq \in Nat /\ msg \in [Nonces -> Messages \cup {NULL}]
      BY DEF TypeInv, TypeOK
<1>2. ASSUME msg' = msg, clientSeq' = clientSeq, now' = now \/ now' = now + 1
      PROVE  Signed'
  <2> SUFFICES ASSUME NEW n \in Nonces, msg[n] # NULL
               PROVE  /\ msg[n].ts <= now' + ClockError /\ msg[n].seq <= clientSeq
                      /\ SeqKey(n) = "device" => msg[n].seq > 0
      BY <1>2 DEF Signed, SeqKey
  <2>1. msg[n].ts \in Int /\ msg[n].ts <= now + ClockError
      BY MessageTyped DEF Signed
  <2> QED
      BY <1>1, <1>2, <2>1, WindowBounds DEF Signed
<1>3. ASSUME NEW n \in Nonces, NEW kind \in SignedKinds,
             NEW e \in -ClockError .. ClockError, Sign(n, kind, e)
      PROVE  Signed'
  <2>1. PICK seq \in Nat :
            /\ msg' = [msg EXCEPT ![n] = [kind |-> kind, ts |-> now + e, seq |-> seq]]
            /\ seq <= clientSeq' /\ clientSeq <= clientSeq'
            /\ kind # "activate" => seq > 0
    <3>1. CASE kind = "activate"
      <4>1. msg' = [msg EXCEPT ![n] = [kind |-> kind, ts |-> now + e, seq |-> 0]]
          BY <1>3, <3>1 DEF Sign
      <4>2. clientSeq' = clientSeq /\ 0 \in Nat /\ 0 <= clientSeq
          BY <1>1, <1>3, <3>1 DEF Sign
      <4>3. WITNESS 0 \in Nat
      <4> QED
          BY <1>1, <3>1, <4>1, <4>2
    <3>2. CASE kind # "activate"
      <4>1. clientSeq' = clientSeq + 1
          BY <1>3, <3>2 DEF Sign
      <4>2. msg' = [msg EXCEPT ![n] = [kind |-> kind, ts |-> now + e, seq |-> clientSeq + 1]]
          BY <1>3, <3>2, <4>1 DEF Sign
      <4> USE <1>1
      <4>3. WITNESS clientSeq + 1 \in Nat
      <4> QED
          BY <1>1, <4>1, <4>2
    <3> QED
        BY <3>1, <3>2
  <2>2. msg'[n].kind = kind /\ msg'[n].ts = now + e /\ msg'[n].seq = seq
      BY <1>1, <2>1
  <2>3. now' = now /\ e \in Int /\ e <= ClockError /\ clientSeq' \in Nat
      BY <1>1, <1>3, WindowBounds DEF Sign
  <2>4. ASSUME NEW m \in Nonces, msg'[m] # NULL
        PROVE  /\ msg'[m].ts <= now + ClockError /\ msg'[m].seq <= clientSeq'
               /\ msg'[m].kind # "activate" => msg'[m].seq > 0
    <3>1. CASE m = n
        BY <1>1, <2>1, <2>2, <2>3, <3>1, WindowBounds
    <3>2. CASE m # n
      <4>1. msg'[m] = msg[m]
          BY <1>1, <2>1, <3>2
      <4>2. msg[m].seq \in Nat /\ msg[m].seq <= clientSeq
          BY <2>4, <4>1, MessageTyped DEF Signed
      <4>3. msg[m].ts <= now + ClockError /\ (msg[m].kind # "activate" => msg[m].seq > 0)
          BY <2>4, <4>1 DEF Signed, SeqKey
      <4> QED
          BY <1>1, <2>1, <2>3, <4>1, <4>2, <4>3
    <3> QED
        BY <3>1, <3>2
  <2> QED
      BY <2>3, <2>4 DEF Signed, SeqKey
<1>4. ASSUME NEW r \in Requests, Gate(r) \/ \E n \in Nonces : Deliver(r, n)
      PROVE  Signed'
  <2>1. msg' = msg /\ clientSeq' = clientSeq /\ now' = now
      BY <1>4 DEF Gate, ConsumeNonce, NonceCallFails, CheckSeq, SeqCallFails,
                  AcceptDeviceSeq, BumpDeviceHeartbeat, Abandon, Deliver
  <2> QED
      BY <1>2, <2>1
<1>5. CASE Flush \/ Tick \/ UNCHANGED vars
  <2>1. msg' = msg /\ clientSeq' = clientSeq /\ (now' = now \/ now' = now + 1)
      BY <1>5 DEF Flush, Tick, vars
  <2> QED
      BY <1>2, <2>1
<1> QED
    BY ONLY [Next]_vars, <1>3, <1>4, <1>5 DEF Next

\* What passes the check of the sequence number is newer than all before it.
LEMMA PassesNewer ==
    ASSUME Young, OrderInv, faulted = {}, NEW r \in Requests, NEW n \in Nonces,
           n = req[r].nonce, req[r].pc = "seq", SeqKey(n) = "device",
           msg[n].seq > SeqKnown("device")
    PROVE  msg[n].seq > lastAccepted
<1> SUFFICES ASSUME ~(msg[n].seq > lastAccepted) PROVE FALSE
    OBVIOUS
<1>1. TypeInv /\ msg[n] # NULL
      BY DEF Young, TypeInv, Carries
<1>2. /\ msg[n].ts \in Int /\ msg[n].seq \in Nat /\ lastAccepted \in Nat /\ now \in Nat
      /\ req[r].at \in Nat /\ redisUntil["device"] \in Nat
      BY <1>1, MessageTyped DEF TypeInv, TypeOK, RequestRecord, SeqKeys
<1>3. msg[n].seq <= lastAccepted /\ lastAccepted > 0
      BY <1>1, <1>2 DEF OrderInv, Signed
<1>4. msg[n].ts + MaxClockSkew + Stall < redisUntil["device"] /\ redisSeq["device"] = lastAccepted
      BY <1>1, <1>3 DEF OrderInv, Ordered
<1>5. now <= req[r].at + Stall /\ msg[n].ts >= req[r].at - MaxClockSkew
      BY DEF Young, Timely, InGate
<1>6. now < redisUntil["device"]
      BY <1>2, <1>4, <1>5, WindowBounds
<1> QED
    BY <1>2, <1>3, <1>4, <1>6 DEF SeqKnown

\* Steps that admit nothing and write no sequence number.
LEMMA OrderUnderMove ==
    ASSUME TypeInv, Bumping, Ordered,
           UNCHANGED <<msg, redisSeq, redisUntil, dbSeq, lastAccepted, clientSeq>>,
           \A s \in Requests : \/ req'[s] = req[s]
                               \/ req'[s].pc \notin {"db", "bump"}
    PROVE  Bumping' /\ Ordered'
<1>1. Bumping'
      BY DEF Bumping
<1>2. \A s \in Requests : req'[s].pc # "db"
      BY DEF Ordered
<1> QED
    BY <1>1, <1>2 DEF Ordered, SeqKey

LEMMA OrderAtCheck ==
    ASSUME Young, OrderInv, faulted = {}, NEW r \in Requests, CheckSeq(r)
    PROVE  Bumping' /\ Ordered'
<1>1. PICK n \in Nonces : n = req[r].nonce /\ msg[n] # NULL
      BY DEF CheckSeq, Young, TypeInv, Carries
<1>2. /\ TypeInv /\ Bumping /\ Ordered /\ Signed /\ msg[n].ts \in Int /\ msg[n].seq \in Nat
      /\ lastAccepted \in Nat /\ clientSeq \in Nat /\ dbSeq \in Nat /\ now \in Nat
      /\ redisSeq \in [SeqKeys -> Nat \cup {-1}] /\ redisUntil \in [SeqKeys -> Nat]
      /\ req \in [Requests -> RequestRecord]
      BY <1>1, MessageTyped DEF Young, OrderInv, TypeInv, TypeOK
<1>3. UNCHANGED <<msg, clientSeq, nonceUntil, dbSeq, now, faulted>>
      BY DEF CheckSeq
<1>4. CASE UNCHANGED <<redisSeq, redisUntil>> /\ Refuse(r, "seq")
  <2>1. \A s \in Requests : req'[s] = req[s] \/ req'[s].pc \notin {"db", "bump"}
      BY <1>2, <1>4 DEF Refuse, NoRequest
  <2> QED
      BY <1>2, <1>3, <1>4, <2>1, OrderUnderMove DEF Refuse
<1>5. CASE /\ msg[n].seq > SeqKnown(SeqKey(n))
           /\ StoreSeq(SeqKey(n), msg[n].seq)
           /\ Accept(r)
  <2>1. /\ \A s \in Requests : s # r => req'[s] = req[s]
        /\ req'[r].pc \in {"bump", "idle"}
        /\ req'[r].pc = "bump" => req'[r].nonce = n /\ SeqKey(n) = "device"
    <3>1. CASE msg[n].kind = "heartbeat"
        BY <1>1, <1>2, <1>5, <3>1 DEF Accept, SeqKey, RequestRecord
    <3>2. CASE msg[n].kind # "heartbeat"
        BY <1>1, <1>2, <1>5, <3>2 DEF Accept, NoRequest
    <3> QED
        BY <3>1, <3>2
  <2>2. \A s \in Requests : req'[s].pc # "db"
      BY <1>2, <2>1 DEF Ordered
  <2>3. CASE SeqKey(n) = "device"
    <3>1. msg[n].seq > lastAccepted
        BY <1>1, <1>5, <2>3, PassesNewer DEF CheckSeq
    <3>2. lastAccepted' = msg[n].seq
        BY <1>1, <1>5, <2>3, <3>1 DEF Accept
    <3>3. redisSeq'["device"] = msg[n].seq /\ redisUntil'["device"] = now + SeqTTL
        BY <1>2, <1>5, <2>3 DEF StoreSeq, SeqKeys
    <3>4. Bumping'
      <4> SUFFICES ASSUME NEW s \in Requests, req'[s].pc = "bump"
                   PROVE  msg[req'[s].nonce].seq <= msg[n].seq
          BY <1>3, <3>2 DEF Bumping
      <4>1. CASE s = r
          BY <1>2, <2>1, <4>1
      <4>2. CASE s # r
        <5>1. PICK m \in Nonces : m = req[s].nonce /\ msg[m] # NULL
            BY <1>2, <2>1, <4>2 DEF TypeInv, Carries
        <5>2. msg[m].seq \in Nat /\ msg[m].seq <= lastAccepted
            BY <1>2, <2>1, <4>2, <5>1, MessageTyped DEF Bumping
        <5> QED
            BY <1>2, <2>1, <3>1, <4>2, <5>1, <5>2
      <4> QED
          BY <4>1, <4>2
    <3>5. ASSUME NEW m \in Nonces, msg[m] # NULL
          PROVE  msg[m].ts + MaxClockSkew + Stall < now + SeqTTL
      <4>1. msg[m].ts \in Int /\ msg[m].ts <= now + ClockError
          BY <1>2, <3>5, MessageTyped DEF Signed
      <4> QED
          BY <1>2, <4>1, WindowBounds
    <3>6. lastAccepted' <= clientSeq' /\ dbSeq' <= lastAccepted'
        BY <1>1, <1>2, <1>3, <3>1, <3>2 DEF Signed, Ordered
    <3> QED
        BY <1>3, <2>2, <3>2, <3>3, <3>4, <3>5, <3>6 DEF Ordered
  <2>4. CASE SeqKey(n) # "device"
    <3>1. lastAccepted' = lastAccepted
        BY <1>1, <1>5, <2>4 DEF Accept
    <3>2. redisSeq'["device"] = redisSeq["device"] /\ redisUntil'["device"] = redisUntil["device"]
        BY <1>2, <1>5, <2>4 DEF StoreSeq, SeqKeys
    <3>3. \A s \in Requests : req'[s] = req[s] \/ req'[s].pc \notin {"db", "bump"}
        BY <2>1, <2>4
    <3>4. Bumping'
        BY <1>2, <1>3, <3>1, <3>3 DEF Bumping
    <3> QED
        BY <1>2, <1>3, <2>2, <3>1, <3>2, <3>4 DEF Ordered, SeqKey
  <2> QED
      BY <2>3, <2>4
<1> QED
    BY <1>1, <1>4, <1>5 DEF CheckSeq

LEMMA OrderAtBump ==
    ASSUME Young, OrderInv, faulted = {}, NEW r \in Requests, BumpDeviceHeartbeat(r)
    PROVE  Bumping' /\ Ordered'
<1>1. PICK n \in Nonces : n = req[r].nonce /\ msg[n] # NULL
      BY DEF BumpDeviceHeartbeat, Young, TypeInv, Carries
<1>2. /\ Bumping /\ Ordered /\ dbSeq \in Nat /\ lastAccepted \in Nat /\ msg[n].seq \in Nat
      /\ req \in [Requests -> RequestRecord]
      BY <1>1, MessageTyped DEF Young, OrderInv, TypeInv, TypeOK
<1>3. UNCHANGED <<msg, clientSeq, redisVars, now, faulted, history>>
      BY DEF BumpDeviceHeartbeat
<1>4. \A s \in Requests : req'[s] = req[s] \/ req'[s].pc \notin {"db", "bump"}
      BY <1>2 DEF BumpDeviceHeartbeat, NoRequest
<1>5. dbSeq' <= lastAccepted
  <2>1. msg[n].seq <= lastAccepted
      BY <1>1, <1>2 DEF Bumping, BumpDeviceHeartbeat
  <2> QED
      BY <1>1, <1>2, <2>1 DEF Ordered, BumpDeviceHeartbeat, Bumped
<1>6. Bumping'
      BY <1>2, <1>3, <1>4 DEF Bumping, history
<1>7. \A s \in Requests : req'[s].pc # "db"
      BY <1>2, <1>4 DEF Ordered
<1> QED
    BY <1>2, <1>3, <1>5, <1>6, <1>7 DEF Ordered, SeqKey, history, redisVars

LEMMA OrderAtSign ==
    ASSUME Young, OrderInv, faulted = {}, NEW n \in Nonces, NEW kind \in SignedKinds,
           NEW e \in -ClockError .. ClockError, Sign(n, kind, e)
    PROVE  Bumping' /\ Ordered'
<1>1. /\ TypeInv /\ Bumping /\ Ordered /\ clientSeq \in Nat /\ lastAccepted \in Nat
      /\ msg \in [Nonces -> Messages \cup {NULL}]
      BY DEF Young, OrderInv, TypeInv, TypeOK
<1>2. /\ UNCHANGED <<redisVars, dbSeq, req, now, faulted, history>> /\ msg[n] = NULL
      /\ \A m \in Nonces : m # n => msg'[m] = msg[m]
      BY <1>1 DEF Sign
<1>3. kind # "activate" => msg'[n].kind # "activate" /\ msg'[n].seq = clientSeq + 1
      BY <1>1 DEF Sign
<1>4. kind = "activate" => msg'[n].kind = "activate"
      BY <1>1 DEF Sign
<1>5. clientSeq' \in Nat /\ clientSeq <= clientSeq'
      BY <1>1 DEF Sign
<1>6. Bumping'
      BY <1>1, <1>2 DEF Bumping, TypeInv, Carries, history
<1>7. ASSUME NEW m \in Nonces, msg'[m] # NULL, msg'[m].kind # "activate",
             msg'[m].seq <= lastAccepted
      PROVE  msg'[m].ts + MaxClockSkew + Stall < redisUntil["device"]
  <2>1. m # n
      BY <1>1, <1>3, <1>4, <1>7 DEF Ordered
  <2> QED
      BY <1>1, <1>2, <1>7, <2>1 DEF Ordered, SeqKey
<1> QED
    BY <1>1, <1>2, <1>5, <1>6, <1>7 DEF Ordered, SeqKey, history, redisVars

LEMMA OrderStep ==
    ASSUME Young, OrderInv, [Next]_vars, faulted' = {}
    PROVE  faulted = {} /\ Bumping' /\ Ordered'
<1> USE DEF history, redisVars
<1>1. faulted = {}
  <2>1. faulted \subseteq faulted'
    <3>1. ASSUME NEW r \in Requests, Gate(r) \/ \E n \in Nonces : Deliver(r, n)
          PROVE  faulted \subseteq faulted'
        BY <3>1 DEF Gate, ConsumeNonce, NonceCallFails, CheckSeq, SeqCallFails,
                    AcceptDeviceSeq, BumpDeviceHeartbeat, Abandon, Deliver
    <3>2. ASSUME NEW n \in Nonces, NEW kind \in SignedKinds,
                 NEW e \in -ClockError .. ClockError, Sign(n, kind, e)
          PROVE  faulted \subseteq faulted'
        BY <3>2 DEF Sign
    <3>3. CASE Flush \/ Tick \/ UNCHANGED vars
        BY <3>3 DEF Flush, Tick, vars
    <3> QED
        BY ONLY [Next]_vars, <3>1, <3>2, <3>3 DEF Next
  <2> QED
      BY <2>1
<1>2. TypeInv /\ Bumping /\ Ordered /\ req \in [Requests -> RequestRecord]
      BY <1>1 DEF OrderInv, Young, TypeInv, TypeOK
<1>3. ASSUME NEW r \in Requests, NEW n \in Nonces, Deliver(r, n) PROVE Bumping' /\ Ordered'
  <2>1. \A s \in Requests : req'[s] = req[s] \/ req'[s].pc \notin {"db", "bump"}
      BY <1>2, <1>3 DEF Deliver, Arrival
  <2> QED
      BY <1>2, <1>3, <2>1, OrderUnderMove DEF Deliver
<1>4. ASSUME NEW r \in Requests, ConsumeNonce(r) \/ Abandon(r) PROVE Bumping' /\ Ordered'
  <2>1. \A s \in Requests : req'[s] = req[s] \/ req'[s].pc \notin {"db", "bump"}
    <3>1. CASE req' = [req EXCEPT ![r].pc = "seq"]
        BY <1>2, <3>1 DEF RequestRecord
    <3>2. CASE req' = [req EXCEPT ![r] = NoRequest]
        BY <1>2, <3>2 DEF NoRequest
    <3> QED
        BY <1>4, <3>1, <3>2 DEF ConsumeNonce, Abandon, GoesOn, Refuse
  <2>2. UNCHANGED <<msg, redisSeq, redisUntil, dbSeq, lastAccepted, clientSeq>>
      BY <1>4 DEF ConsumeNonce, Abandon, GoesOn, Refuse
  <2> QED
      BY <1>2, <2>1, <2>2, OrderUnderMove
<1>5. ASSUME NEW r \in Requests, Gate(r) PROVE Bumping' /\ Ordered'
  <2>1. ~NonceCallFails(r) /\ ~SeqCallFails(r)
      BY DEF NonceCallFails, SeqCallFails
  <2>2. ~AcceptDeviceSeq(r)
      BY <1>2 DEF AcceptDeviceSeq, Ordered
  <2> QED
      BY <1>1, <1>4, <1>5, <2>1, <2>2, OrderAtCheck, OrderAtBump DEF Gate
<1>6. CASE Flush
      BY <1>6 DEF Flush
<1>7. CASE Tick \/ UNCHANGED vars
  <2>1. req' = req /\ UNCHANGED <<msg, redisSeq, redisUntil, dbSeq, lastAccepted, clientSeq>>
      BY <1>7 DEF Tick, vars
  <2> QED
      BY <1>1, <1>2, <2>1, OrderUnderMove
<1>8. ASSUME NEW n \in Nonces, NEW kind \in SignedKinds,
             NEW e \in -ClockError .. ClockError, Sign(n, kind, e)
      PROVE  Bumping' /\ Ordered'
      BY <1>1, <1>8, OrderAtSign
<1>9. Bumping' /\ Ordered'
      BY ONLY [Next]_vars, <1>3, <1>5, <1>6, <1>7, <1>8 DEF Next
<1> QED
    BY <1>1, <1>9

\* What a step admits of the device, while Redis has not failed.
AdmitsInOrder ==
    faulted' = {} => \A n \in Nonces :
        accepted'[n] > accepted[n] /\ SeqKey(n) = "device" =>
            msg[n].seq > lastAccepted /\ msg[n].seq > dbSeq

LEMMA AdmittedInOrder ==
    ASSUME Young, OrderInv, [Next]_vars
    PROVE  AdmitsInOrder
<1> USE DEF history, redisVars
<1> SUFFICES ASSUME faulted' = {}, NEW n \in Nonces, accepted'[n] > accepted[n],
                    SeqKey(n) = "device"
             PROVE  msg[n].seq > lastAccepted /\ msg[n].seq > dbSeq
    BY DEF AdmitsInOrder
<1>1. faulted = {}
      BY OrderStep
<1>2. /\ accepted \in [Nonces -> 0 .. 2] /\ Ordered
      /\ dbSeq \in Nat /\ lastAccepted \in Nat /\ ~(accepted[n] > accepted[n])
      BY <1>1 DEF Young, TypeInv, TypeOK, OrderInv
<1>3. PICK r \in Requests : CheckSeq(r) \/ AcceptDeviceSeq(r)
  <2>1. accepted' # accepted
      BY <1>2
  <2>2. ASSUME NEW r \in Requests,
               \/ ConsumeNonce(r) \/ NonceCallFails(r) \/ SeqCallFails(r)
               \/ BumpDeviceHeartbeat(r) \/ Abandon(r) \/ \E m \in Nonces : Deliver(r, m)
        PROVE  FALSE
      BY <2>1, <2>2 DEF ConsumeNonce, NonceCallFails, SeqCallFails, BumpDeviceHeartbeat,
                        Abandon, Deliver, Refuse, GoesOn
  <2>3. ASSUME NEW m \in Nonces, NEW kind \in SignedKinds,
               NEW e \in -ClockError .. ClockError, Sign(m, kind, e)
        PROVE  FALSE
      BY <2>1, <2>3 DEF Sign
  <2>4. ~Flush /\ ~Tick /\ ~UNCHANGED vars
      BY <2>1 DEF Flush, Tick, vars
  <2> QED
      BY ONLY [Next]_vars, <2>2, <2>3, <2>4 DEF Next, Gate
<1>4. ~AcceptDeviceSeq(r)
      BY <1>2 DEF AcceptDeviceSeq, Ordered
<1>5. PICK m \in Nonces : m = req[r].nonce
      BY <1>3 DEF CheckSeq, AcceptDeviceSeq, Young, TypeInv, Carries
<1>6. ~Refuse(r, "seq")
      BY <1>2 DEF Refuse
<1>7. Accept(r) /\ msg[m].seq > SeqKnown(SeqKey(m)) /\ req[r].pc = "seq"
      BY <1>3, <1>4, <1>5, <1>6 DEF CheckSeq
<1>8. n = m
      BY <1>2, <1>5, <1>7 DEF Accept
<1>9. msg[n].seq \in Nat
      BY <1>5, <1>7, <1>8, MessageTyped DEF Young, TypeInv, Carries
<1>10. msg[n].seq > lastAccepted
      BY <1>1, <1>5, <1>7, <1>8, PassesNewer
<1> QED
    BY <1>2, <1>9, <1>10 DEF Ordered

OrderedGate == Young /\ OrderInv

LEMMA OrderAlways == Spec => []OrderedGate
<1>1. Init => OrderedGate
  <2> SUFFICES ASSUME Init PROVE OrderedGate
      OBVIOUS
  <2>1. Timely /\ Bumping
      BY DEF Init, NoRequest, Timely, InGate, Bumping
  <2>2. Signed /\ Ordered
      BY DEF Init, Signed, Ordered, NoRequest, SeqKeys
  <2> QED
      BY <2>1, <2>2, TypeAtStart DEF OrderedGate, Young, OrderInv
<1>2. OrderedGate /\ [Next]_vars => OrderedGate'
      BY TypeStep, TimelyStep, SignedStep, OrderStep DEF OrderedGate, Young, OrderInv
<1> QED
    BY <1>1, <1>2, PTL DEF Spec

\* While Redis has not failed, the messages of a device are admitted in the order of
\* their numbers, for any windows: a number is forgotten only when the timestamp of
\* every older message is (CheckSeq, "序列号严格递增", PROTOCOL.md).
THEOREM AdmissionsInOrder == Spec => AcceptedInOrder
<1>1. OrderedGate /\ [Next]_vars =>
        [faulted' = {} => \A n \in Nonces :
            accepted'[n] > accepted[n] /\ SeqKey(n) = "device" => msg[n].seq > lastAccepted]_vars
      BY AdmittedInOrder DEF OrderedGate, AdmitsInOrder
<1> QED
    BY OrderAlways, <1>1, PTL DEF Spec, AcceptedInOrder

\* And each is new to devices.last_seq: the two stores agree (0001_init.sql).
THEOREM DatabaseAgrees == Spec => NewToDatabase
<1>1. OrderedGate /\ [Next]_vars =>
        [faulted' = {} => \A n \in Nonces :
            accepted'[n] > accepted[n] /\ SeqKey(n) = "device" => msg[n].seq > dbSeq]_vars
      BY AdmittedInOrder DEF OrderedGate, AdmitsInOrder
<1> QED
    BY OrderAlways, <1>1, PTL DEF Spec, NewToDatabase

===============================================================================
