-------------------------- MODULE MCEventDelivery ---------------------------
(***************************************************************************)
(* Small instances of EventDelivery for TLC.                               *)
(***************************************************************************)
EXTENDS EventDelivery, TLC

\* Sockets and status requests are interchangeable; sound for the run without liveness.
Symmetric == Permutations(Sub) \cup Permutations(Sync)
=============================================================================
