--------------------------- MODULE MCRunRegistry ----------------------------
(***************************************************************************)
(* Small instances of RunRegistry for TLC.                                 *)
(***************************************************************************)
EXTENDS RegistryInvariant, TLC

\* Ids and requests are interchangeable; sound for the runs without liveness.
Symmetric == Permutations(Thread) \cup Permutations(Run) \cup Permutations(Key)
                 \cup Permutations(Req)
=============================================================================
