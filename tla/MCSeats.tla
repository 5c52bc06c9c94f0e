------------------------------- MODULE MCSeats -------------------------------
(***************************************************************************)
(* Instance of Seats for TLC.                                              *)
(***************************************************************************)
EXTENDS Seats, TLC

SlowAndFast == {-1, 1}
Symmetry == Permutations(SeatDevices) \cup Permutations(SeatRequests)

\* Bound: nothing is followed once Redis has failed a heartbeat or lost the set.
UntilDegraded == ~degraded
=============================================================================
