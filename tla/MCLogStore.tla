----------------------------- MODULE MCLogStore -----------------------------
(* Instances of LogStoreProperties for TLC.                                *)
EXTENDS LogStoreProperties, TLC

CONSTANTS p1, p2, p3

Lives == Permutations(Procs)
=============================================================================
