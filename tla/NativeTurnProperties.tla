------------------------ MODULE NativeTurnProperties ------------------------
(* What is checked of module NativeTurn.                                   *)
EXTENDS NativeTurn

TurnTypeOK ==
    /\ unread \in Seq([type : {"spawn", "finished", "failed", "requested", "granted",
                               "denied", "expired", "consumed", "tick"}, about : Asks \cup {Turn}])
    /\ tip \in [Asks -> {"none", "pending", "granted", "denied", "expired", "consumed"}]
    /\ run.auth \in [Asks -> {"none", "pending", "granted", "denied", "expired", "consumed"}]
    /\ \A s \in DOMAIN children : children[s].ends \subseteq {"completed", "failed", "unknown"}
    /\ timers \cup elapsed \subseteq Asks
    /\ faults \in 0..MaxFaults

(* No model call and no tool call of a turn reaches the outside twice,     *)
(* whatever dies and whoever takes over, approved calls included           *)
(* (runModelChild, runToolChild and resumeAuthorization stop at a child    *)
(* that was started and has no outcome).                                   *)
NothingRunsTwice == \A i, k \in DOMAIN acted : acted[i] = acted[k] => i = k

(* A model is asked for the next round only when the round before has its  *)
(* answer and every call it named has its result (the loops over calls in  *)
(* runDurableTurn and continueAuthorization, with a suspension in between).*)
RoundsAreWhole ==
    \A s \in DOMAIN children :
        s.kind = "model" /\ s.round > 0 =>
            LET before == Model(s.round - 1)
            IN /\ Completed(before)
               /\ \A i \in DOMAIN children[before].answer :
                     Completed(Tool(s.round - 1, children[before].answer[i]))

(* Under the durable preparation of contexts every model call of a turn is *)
(* made on the one presentation that was committed, however the world      *)
(* changed between two workers (loadPreparedContext).                      *)
ContextIsFrozen ==
    barrier => \A s \in DOMAIN children :
        s.kind = "model" => children[s].request.context = context

(* The contract of module ActionGrant, over the approved calls that acted. *)
Grants == INSTANCE ActionGrant WITH
    Actions <- Asks,
    decision <- tip,
    done <- {a \in Asks : \E i \in DOMAIN acted : acted[i] = a}

(* An authorization is requested once, decided once, spent at most once    *)
(* and in time, and its call acts only on a spent grant and once           *)
(* (resumeAuthorization, decideExactStore and the reducer's part).         *)
ImplementsGrant == Grants!GrantSpec

HasOutcome(s) == s \in DOMAIN children /\ children[s].ends # {}

(* No request for approval stays open: it is refused, expires or leads to  *)
(* an outcome of its call, even if nobody answers and the worker dies in   *)
(* between, unless the run stopped on work nobody knows the outcome of     *)
(* (applyTimerTick, decideExactStore).                                     *)
AuthorizationsEnd ==
    \A a \in Asks :
        (tip[a] = "pending") ~>
            (tip[a] \in {"denied", "expired"} \/ HasOutcome(a) \/ worker.pc = "stopped")

(* What a model is told of a round is every call of it, in its order       *)
(* (docs/adr/0009, "Multiple calls keep their provider order. Their result *)
(* blocks are reinjected in that same order").                             *)
TranscriptIsExact ==
    \A s \in DOMAIN children :
        LET told == children[s].request.messages
        IN s.kind = "model" =>
            \A r \in 1..s.round : told[2 * r].results = told[2 * r - 1].calls

(* A turn that was opened ends: nothing may commission a turn and leave    *)
(* its marker set (the comment on spawnFor, internal/kernel/decide.go).    *)
OpenTurnsAreOwed ==
    (run.member = "idle" /\ run.turnOpen) ~> (~run.turnOpen \/ worker.pc = "stopped")

(* The worker's own records never make its log unreadable.                 *)
LogStaysReadable == \A s \in DOMAIN children : Cardinality(children[s].ends) <= 1
=============================================================================
