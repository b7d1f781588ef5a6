----------------------------- MODULE MCRunLoop -----------------------------
(* Instances of RunLoopProperties for TLC.                                 *)
EXTENDS RunLoopProperties

Solo == <<"dev">>
Pair == <<"lead", "dev">>
Trio == <<"lead", "dev", "guard">>

Stage(rule, timed, action, in) ==
    [advance |-> rule, quorum |-> 2, timed |-> timed, onTimeout |-> action, in |-> in]

Watch(types, agent, tool) == [on |-> types, agent |-> agent, tool |-> tool, self |-> FALSE]

(* A stage two members share is resolved by either, the next needs both,   *)
(* within a time.                                                          *)
Relay == <<Stage("any", FALSE, "fail", {"lead", "dev"}), Stage("quorum", TRUE, "escalate", {"lead", "dev"})>>
Timed == <<Stage("coordinator", TRUE, "advance", {"lead", "dev"}), Stage("all", TRUE, "escalate", {"lead", "dev"})>>
Alone == <<Stage("all", FALSE, "fail", {"dev"})>>
Lasting == <<Stage("all", TRUE, "escalate", {"lead", "dev"})>>

NoWatchers == <<>>
(* A member outside the stages sees to the run when it stands still.       *)
Guarded == <<Watch({"run.quiescent", "stage.timeout"}, "guard", FALSE)>>
(* dev is told of every submission of the others.                          *)
Told == <<Watch({"stage.submitted"}, "dev", FALSE)>>
(* A tool runs on every submission, in the name of the one who reviews.    *)
Reviewed == <<Watch({"run.quiescent"}, "guard", FALSE), Watch({"stage.submitted"}, "lead", TRUE)>>
=============================================================================
