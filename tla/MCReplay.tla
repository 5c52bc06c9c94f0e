------------------------------- MODULE MCReplay -------------------------------
(***************************************************************************)
(* Instances of Replay for TLC.                                            *)
(***************************************************************************)
EXTENDS Replay, TLC

Symmetry == Permutations(Nonces) \cup Permutations(Requests)

\* Bound: once Redis failed in another way than on a sequence call, heartbeats
\* of a device whose clock is right are followed for a shorter time.
ShortWithFaults ==
    faulted \subseteq {"seq call"} \/
        (now <= 2 /\ \A n \in Nonces : msg[n] # NULL =>
                        msg[n].kind = "heartbeat" /\ msg[n].ts \in 0 .. now)
=============================================================================
