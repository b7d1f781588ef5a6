--------------------------- MODULE MCMemoryStore ----------------------------
(* Instances of MemoryStoreProperties for TLC.                             *)
EXTENDS MemoryStoreProperties, TLC

CONSTANTS w1, w2

(* The processes of one host that write under one origin, two sweeps say:  *)
(* they write the same version when they do the same thing to the same     *)
(* head, and different ones when one corrects what the other deletes.      *)
Common == [p \in Writers |-> "host"]
(* Every writer under its own origin, so that writers are interchangeable  *)
(* together with their origins.                                            *)
Own == [p \in Writers |-> p]
WriterSymmetry == Permutations(Writers)
=============================================================================
