------------------------- MODULE RunLoopProperties -------------------------
(* What the reducer and the loop promise together, over RunLoop.           *)
EXTENDS RunLoop

Queued(types) == {i \in DOMAIN queue : queue[i].type \in types}
Listed(r)     == {i \in DOMAIN r.inbox : r.inbox[i].listed /\ ~r.inbox[i].replied}
OpenBudget(r) == {i \in DOMAIN r.inbox : r.inbox[i].kind = "budget" /\ ~r.inbox[i].replied}

Ids == 0 .. MaxInputs

(* The shape of the state.                                                 *)
RunTypeOK ==
    /\ run.status \in {"new", "running", "blocked", "paused"} \cup Terminal
    /\ run.stage \in 0 .. Len(Stages) /\ run.timer \in 0 .. Len(Stages)
    /\ \A m \in Names :
          /\ run.members[m].state \in {"inactive", "idle", "thinking", "tool", "waiting", "submitted", "failed"}
          /\ run.members[m].pending \subseteq Ids
          /\ run.members[m].on \in 0 .. Len(run.inbox)
    /\ armed \subseteq DOMAIN Stages
    /\ \A i \in DOMAIN queue : queue[i].id \in Ids /\ queue[i].depth \in 0 .. MaxDepth
    /\ prompted \subseteq Ids /\ heard \subseteq Ids

(* A stage resolves once, however many members go on submitting to it and  *)
(* however its timeout races them (applyStageSubmitted, applyStageTimeout). *)
StageResolvesOnce == Cardinality(Queued({"stage.entered", "run.result"})) <= 1

(* A member's open turn is one whose end is still in the log to be decided, *)
(* and a member has one turn at a time (Member.TurnOpen).                  *)
TurnMarkerIsExact ==
    run.status \notin Terminal =>
        \A m \in Names :
            LET ends == {i \in Queued({"agent.turn_done", "agent.failed"}) : queue[i].actor = m}
            IN IF run.members[m].open THEN Cardinality(ends) = 1 ELSE ends = {}

(* Text that arrives for somebody is never lost: it is undecided, it was a *)
(* cause of a turn, or it is pending, unless its member failed             *)
(* (applyInjection).                                                       *)
CausesAreKept ==
    \/ run.status \in Terminal
    \/ \E m \in Names : run.members[m].state = "failed"
    \/ \A id \in prompted :
          \/ id \in heard
          \/ \E i \in DOMAIN queue : queue[i].id = id
          \/ \E m \in Names : id \in run.members[m].pending

(* A step that leaves a blocked or paused run halted begins no turn        *)
(* (spendingHalted).                                                       *)
NoTurnOpensWhileHalted ==
    [][{run.status, run'.status} \subseteq {"blocked", "paused"} =>
          Cardinality(Queued({"agent.activated"}))' <= Cardinality(Queued({"agent.activated"}))]_vars

(* A member waits exactly while a question of its own is unanswered        *)
(* (applyToolDenied, applyTurnDone: an idle member carrying a block is a   *)
(* destroyed block).                                                       *)
WaitingIsAsked ==
    \A m \in Names :
        LET x == run.members[m] IN
        /\ x.state = "waiting" <=> x.on # 0
        /\ x.on # 0 => run.inbox[x.on].agent = m /\ ~run.inbox[x.on].replied

(* A blocked run that has nothing left to decide has a question somebody   *)
(* can answer.                                                             *)
BlockedIsAnswerable == queue = <<>> /\ run.status = "blocked" => Listed(run) # {}

(* A running run that stands still was diagnosed or waits for an answer    *)
(* (checkQuiescence: "the system does not fail, does not finish, does not  *)
(* advance").                                                              *)
SilenceIsDiagnosed ==
    queue = <<>> /\ armed = {} /\ run.status = "running" => run.quiescent \/ Listed(run) # {}

(* When every event of a running run is decided, nobody is taken for       *)
(* working and nobody who could work still has a reason to (drainParked,   *)
(* applyTurnDone: each is the only wake-up the parked causes have).        *)
NobodyIsStranded ==
    queue = <<>> /\ run.status = "running" =>
        \A m \in Names : ~Busy(run.members[m]) /\ ~Runnable(run.members[m])

(* The run is called quiescent only when the event that made it so was the *)
(* last one: nothing in the log is still to be decided, except that its    *)
(* turns or its budget are used up, which applyCost and its like append    *)
(* behind every event (checkQuiescence: "Detection is conservative"; what  *)
(* becomes of such a run is BudgetBlocksDoNotKill, below).                 *)
QuiescenceIsTrue ==
    [][run'.quiescent /\ ~run.quiescent =>
          \A i \in DOMAIN Tail(queue) : Tail(queue)[i].type \in {"run.expired", "budget.exceeded"}]_vars

(* Going over the budget is a question, not an end: no run fails while its *)
(* budget question is open ("Block and ask, do not kill").                 *)
BudgetBlocksDoNotKill ==
    run.status = "failed" => OpenBudget(run) = {}

(* A cost that leaves the run at or over its budget stops it: it is        *)
(* stopped, or the event that blocks it is in the log (applyCost; unpause: *)
(* "it will resume and block again on the next cost").                     *)
BlocksOnEveryCost ==
    [][run'.spent > run.spent /\ run'.budget # 0 /\ run'.spent >= run'.budget =>
          run'.status # "running" \/ Queued({"budget.exceeded"})' # {}]_vars

Excused ==
    \/ run.status \in Terminal \/ Halted(run) \/ Listed(run) # {}
    \/ \E m \in Names : run.members[m].state = "failed"

(* Every prompt in the end is a cause of a turn, unless the run ended, is  *)
(* halted or waits for an answer, or a member failed.                      *)
PromptsAreServed == ~(prompted \subseteq heard) ~> prompted \subseteq heard \/ Excused

(* The clock ends a timed stage: the run leaves the stage, or it ends, or  *)
(* somebody is asked or told, or it was paused once the time was up        *)
(* (applyTimerTick: "a stage that ran out of time silently lost its        *)
(* deadline and went on waiting").                                         *)
TimedStagesEnd ==
    \A s \in DOMAIN Stages :
        Stages[s].timed /\ run.stage = s ~>
            \/ run.stage # s \/ run.status \in Terminal
            \/ Listed(run) # {} \/ run.quiescent
            \/ run.status = "paused" /\ run.timer = 0
=============================================================================
