----------------------------- MODULE MCJobStore -----------------------------
(* Instances of JobStoreProperties for TLC: the bindings of occurrences to *)
(* jobs and ledger windows that the configurations choose.                 *)
EXTENDS JobStoreProperties

CONSTANTS j1, j2, o1, o2, w1, k1, s1, d1

(* One job outside any schedule: leases, checkpoints and dispatches.       *)
NoBinding == [o \in {} |-> j1]
NoWindow  == [o \in {} |-> w1]

(* Two scheduled jobs drawing on one ledger window.                        *)
TwoBindings == [o \in {o1, o2} |-> IF o = o1 THEN j1 ELSE j2]
OneWindow   == [o \in {o1, o2} |-> w1]

(* The two slots are interchangeable: each carries its own job and both    *)
(* bindings are unchanged when they are exchanged together.                *)
Exchange == [x \in {o1, o2, j1, j2} |->
               CASE x = o1 -> o2 [] x = o2 -> o1 [] x = j1 -> j2 [] x = j2 -> j1]
SlotSymmetry == {Exchange}
=============================================================================
