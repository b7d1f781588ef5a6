------------------------------ MODULE Effects -------------------------------
(***************************************************************************)
(* What durable execution promises of the effects the reducer decides,     *)
(* whatever crashes: an effect acts on the world only after it was         *)
(* commissioned and before its outcome is known, an effect that cannot be  *)
(* repeated acts at most once, an outcome is decided once and is honest,   *)
(* and a step is closed when all its effects have a known outcome, before  *)
(* the next step is begun.                                                 *)
(***************************************************************************)
EXTENDS Naturals, FiniteSets

CONSTANTS
    Attempts,           \* processes that may carry the effects out, one after the other
    External(_),        \* the effect acts on the outside world
    Repeatable(_)       \* repeating the effect has no further consequence

VARIABLES
    commissioned,       \* steps begun, each with its effects
    acts,               \* effects that acted on the world, each act by its number
    outcomes,           \* effect and its decided outcome
    closed              \* steps closed

effectVars == <<commissioned, acts, outcomes, closed>>

Commissioned == UNION {step.works : step \in commissioned}
Settled(w) == \E s \in {"completed", "failed", "unknown"} : <<w, s>> \in outcomes
Acted(w) == \E a \in acts : a[1] = w

EffectsInit ==
    /\ commissioned = {}
    /\ acts = {}
    /\ outcomes = {}
    /\ closed = {}

(* The reducer, not this module, says which step comes next and which      *)
(* effects it has.                                                         *)
Commission ==
    \E new \in commissioned' :
        /\ commissioned' = commissioned \cup {new}
        /\ new.works \cap Commissioned = {}
        /\ \A old \in commissioned : old.step \in closed /\ old.step < new.step
        /\ UNCHANGED <<acts, outcomes, closed>>

Act(w, n) ==
    /\ w \in Commissioned /\ External(w)
    /\ Repeatable(w) \/ ~Acted(w)
    /\ ~Settled(w) \/ <<w, "unknown">> \in outcomes \/ Repeatable(w)
    /\ acts' = acts \cup {<<w, n>>}
    /\ UNCHANGED <<commissioned, outcomes, closed>>

Settle(w, s) ==
    /\ w \in Commissioned /\ ~Settled(w)
    /\ s = "completed" /\ External(w) => Acted(w)
    /\ s = "failed" => ~Acted(w) \/ Repeatable(w)
    /\ outcomes' = outcomes \cup {<<w, s>>}
    /\ UNCHANGED <<commissioned, acts, closed>>

Close ==
    \E step \in commissioned :
        /\ step.step \notin closed
        /\ \A w \in step.works : Settled(w) /\ <<w, "unknown">> \notin outcomes
        /\ closed' = closed \cup {step.step}
        /\ UNCHANGED <<commissioned, acts, outcomes>>

EffectsNext ==
    \/ Commission
    \/ \E w \in Commissioned, n \in Attempts : Act(w, n)
    \/ \E w \in Commissioned, s \in {"completed", "failed", "unknown"} : Settle(w, s)
    \/ Close

EffectsSpec == EffectsInit /\ [][EffectsNext]_effectVars
=============================================================================
