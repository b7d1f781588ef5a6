--------------------------- MODULE MCDurableStep ----------------------------
(* Instances of DurableStepProperties for TLC.                             *)
EXTENDS DurableStepProperties, TLC

(* A start that arms a timer, emits an event and carries out one effect of *)
(* each kind at once; the emitted event opens a turn.                      *)
Decides1 ==
    [e \in {"run.started", "agent.failed"} \cup Kinds |->
        CASE e = "run.started" -> <<"timer", "emit", "tool", "keyed">>
          [] e = "emit"        -> <<"turn">>
          [] e = "turn"        -> <<"resume">>
          [] OTHER             -> <<>>]
=============================================================================
