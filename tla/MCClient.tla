------------------------------- MODULE MCClient -------------------------------
(***************************************************************************)
(* Instances of Client for TLC.                                            *)
(***************************************************************************)
EXTENDS Client

\* A careless host, whose threads meet at every step, gets one number.
Numbers == [h \in Hosts |-> IF h = "careful" THEN 2 ELSE 1]
=============================================================================
