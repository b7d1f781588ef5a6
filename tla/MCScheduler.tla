---------------------------- MODULE MCScheduler ----------------------------
(* Instances of SchedulerProperties for TLC: one trigger with a slot at    *)
(* every tick of the clock, each slot with a ledger window of its own.     *)
EXTENDS SchedulerProperties, TLC

CONSTANTS t1, p1, p2

AnyCursor == {Never, 0}

Slots2 == {1, 2}
Occurrences2 == {t1} \X Slots2
SameJob2 == [o \in Occurrences2 |-> o]
OwnWindow2 == [o \in Occurrences2 |-> o[2]]

Slots3 == {1, 2, 3}
Occurrences3 == {t1} \X Slots3
SameJob3 == [o \in Occurrences3 |-> o]
OwnWindow3 == [o \in Occurrences3 |-> o[2]]

(* The processes are interchangeable.                                      *)
Peers == Permutations({p1, p2})
=============================================================================
