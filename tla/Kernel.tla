------------------------------- MODULE Kernel -------------------------------
(***************************************************************************)
(* The reducer of a run (internal/kernel/decide.go): Decide takes the      *)
(* state of a run and the next event of its log and returns the new state  *)
(* and the effects the event calls for.  It is a pure function, so this    *)
(* module declares no variable; RunLoop executes the effects.              *)
(*                                                                         *)
(* A stage is named by its position, 0 before the first; the stage timer,  *)
(* an inbox item and an event payload that is a number carry it in n.      *)
(* Costs are whole units.  An event's id matters only where the reducer    *)
(* parks it as a cause: human inputs have ids of their own, all other      *)
(* events share id 0.  A depth is cut at MaxDepth, where the reducer stops *)
(* telling depths apart.  Left out: the warning below the budget (an event *)
(* nothing reacts to; the share that triggers it is taken as the whole),   *)
(* artifacts, shared state and its locks, nested runs, the exact           *)
(* authorization of a tool call, and inbox.timeout, which nothing emits.   *)
(*                                                                         *)
(* An operator named Op_Defect is operator Op with a bug such code could   *)
(* have; nothing uses it.                                                  *)
(***************************************************************************)
EXTENDS Naturals, Sequences, FiniteSets, SequencesExt

CONSTANTS
    Members,      \* the roster, a sequence of names
    Advisory,     \* the members that no stage waits for
    Coordinator,  \* the member with the role coordinator, or Nobody
    Stages,       \* a sequence of [advance, quorum, timed, onTimeout, in]
    Watchers,     \* a sequence of [on, agent, tool, self]
    SteerTarget,  \* the member an unaddressed prompt is for, or "*"
    Budget,       \* units the run may spend, 0 for no limit
    MaxTurns,     \* turns after which the run expires, 0 for no limit
    MaxDepth      \* depth at which events wake no watcher

Names == ToSet(Members)

(* Where an event, a question or a blueprint names no member.              *)
Nobody == ""

ASSUME RosterAssumption ==
    /\ Members \in Seq(STRING) /\ Members # <<>> /\ IsInjective(Members)
    /\ Nobody \notin Names /\ "*" \notin Names
    /\ Advisory \subseteq Names /\ Coordinator \in Names \cup {Nobody}
    /\ SteerTarget \in Names \cup {"*"}

ASSUME BlueprintAssumption ==
    /\ Stages \in Seq([advance : {"any", "all", "quorum", "coordinator"}, quorum : Nat, timed : BOOLEAN,
                       onTimeout : {"fail", "advance", "escalate"}, in : SUBSET Names])
    /\ Watchers \in Seq([on : SUBSET STRING, agent : Names, tool : BOOLEAN, self : BOOLEAN])
    /\ {Budget, MaxTurns, MaxDepth} \subseteq Nat

Terminal == {"succeeded", "failed", "cancelled", "expired"}

Halted(r) == r.status \in {"blocked", "paused"}

Deeper(e) == IF e.depth < MaxDepth THEN e.depth + 1 ELSE MaxDepth

Derived(e, type, n) ==
    [type |-> type, actor |-> Nobody, source |-> "runtime", depth |-> Deeper(e),
     id |-> 0, n |-> n, to |-> Nobody]

NewMember(m) ==
    [state |-> IF m \in Advisory THEN "inactive" ELSE "idle",
     open |-> FALSE, submitted |-> FALSE, pending |-> {}, on |-> 0]

NewRun ==
    [status |-> "new", stage |-> 0, resolved |-> FALSE, timer |-> 0,
     members |-> [m \in Names |-> NewMember(m)], inbox |-> <<>>,
     quiescent |-> FALSE, spent |-> 0, budget |-> 0, overBudget |-> FALSE, turns |-> 0]

Busy(x) == x.state \notin {"waiting", "failed"} /\ (x.open \/ x.state \in {"thinking", "tool"})
Runnable(x) == x.state = "idle" /\ x.pending # {}
Takes(x) == ~Busy(x) /\ x.state # "waiting"

-----------------------------------------------------------------------------
(* Effects.                                                                *)

Emit(ev)               == [op |-> "emit", event |-> ev]
SetTimer(s)            == [op |-> "set_timer", stage |-> s]
CancelTimer(s)         == [op |-> "cancel_timer", stage |-> s]
AskHuman(id, agent, e) == [op |-> "ask", id |-> id, agent |-> agent, depth |-> Deeper(e)]
CallTool(agent, e)     == [op |-> "call", agent |-> agent, depth |-> Deeper(e)]
SpawnTurn(agent, causes, r, e) ==
    [op |-> "spawn", agent |-> agent, causes |-> causes, stage |-> r.stage, depth |-> Deeper(e)]

Control(f) == f.op \in {"emit", "set_timer", "cancel_timer"}

(* The elements of s at the positions in P, in their order.                *)
Kept(s, P) ==
    LET upTo[n \in 0 .. Len(s)] ==
            IF n = 0 THEN <<>> ELSE IF n \in P THEN Append(upTo[n - 1], s[n]) ELSE upTo[n - 1]
    IN upTo[Len(s)]

OrderEffects(fx) ==
    LET control == {i \in DOMAIN fx : Control(fx[i])}
    IN Kept(fx, control) \o Kept(fx, DOMAIN fx \ control)

Result(r, fx) == [run |-> r, fx |-> fx]

With(r, who, Change(_)) ==
    [r EXCEPT !.members = [m \in Names |-> IF m \in who THEN Change(@[m]) ELSE @[m]]]

Idle(x) == [x EXCEPT !.state = "idle"]
Park(r, who, e) == With(r, who, LAMBDA x : [x EXCEPT !.pending = @ \cup {e.id}])

InOrder(who) == Kept(Members, {i \in DOMAIN Members : Members[i] \in who})

(* A turn for every member of who, because of e and of what Causes adds;   *)
(* a run whose spending is halted parks the cause instead.                 *)
SpawnCauses(r, who, Causes(_), e) ==
    IF Halted(r)
    THEN LET parked(m) == [r.members[m] EXCEPT !.pending = @ \cup Causes(m) \cup {e.id}]
         IN Result([r EXCEPT !.members = [m \in Names |-> IF m \in who THEN parked(m) ELSE @[m]]], <<>>)
    ELSE Result(With(r, who, LAMBDA x : [x EXCEPT !.open = TRUE]),
                [i \in DOMAIN InOrder(who) |->
                    SpawnTurn(InOrder(who)[i], {e.id} \cup Causes(InOrder(who)[i]), r, e)])

Spawn(r, who, e) == SpawnCauses(r, who, LAMBDA m : {}, e)

(* The turns of the causes members of who had to leave pending.            *)
Drain(r, who, e) ==
    SpawnCauses(With(r, who, LAMBDA x : [x EXCEPT !.pending = {}]),
                who, LAMBDA m : r.members[m].pending, e)

-----------------------------------------------------------------------------
(* Watchers: the members an event wakes and the tools it runs.             *)

Hits(r, e) ==
    {w \in DOMAIN Watchers :
        /\ e.type \in Watchers[w].on
        /\ Watchers[w].self \/ Watchers[w].agent # e.actor
        /\ e.depth < MaxDepth
        /\ r.members[Watchers[w].agent].state # "failed"}

Agents(W) == {Watchers[w].agent : w \in W}

(* Of the watchers told: the first of each agent that takes a turn.        *)
Taking(r, told) ==
    {w \in told : /\ Takes(r.members[Watchers[w].agent])
                  /\ \A v \in told : v < w => Watchers[v].agent # Watchers[w].agent}

Roused(tools, w, r, e) ==
    IF w \in tools THEN CallTool(Watchers[w].agent, e)
                   ELSE SpawnTurn(Watchers[w].agent, {e.id}, r, e)

(* The tools run, the agents of now get a turn, those of later the cause.  *)
Rouse(r, e, tools, now, later) ==
    LET acting == IF Halted(r) THEN tools ELSE tools \cup now
        order == Kept([i \in DOMAIN Watchers |-> i], acting)
    IN Result(Park(Spawn(With(r, Agents(now), Idle), Agents(now), e).run, Agents(later), e),
              [i \in DOMAIN order |-> Roused(tools, order[i], r, e)])

Notify(r, e, tools, told) == Rouse(r, e, tools, Taking(r, told), told \ Taking(r, told))

Wake(r, e) ==
    Notify(r, e, {w \in Hits(r, e) : Watchers[w].tool}, {w \in Hits(r, e) : ~Watchers[w].tool})

-----------------------------------------------------------------------------
(* What each event does to the run, before watchers and quiescence.        *)

Ask(r, kind, agent, listed) ==
    [r EXCEPT !.inbox = Append(@, [kind |-> kind, agent |-> agent, listed |-> listed, replied |-> FALSE])]

NextInboxId(r) == Len(r.inbox) + 1

(* The question blocks the run and is nobody's: the reducer lists it only  *)
(* when inbox.created confirms it.                                         *)
BlockAndAsk(r, kind, e) ==
    Result([Ask(r, kind, Nobody, FALSE) EXCEPT !.status = "blocked"],
           <<AskHuman(NextInboxId(r), Nobody, e)>>)

Started(r, e) ==
    Result([NewRun EXCEPT !.status = "running", !.budget = Budget],
           IF Stages = <<>> THEN <<>> ELSE <<Emit(Derived(e, "stage.entered", 1))>>)

Injected(r, e) ==
    LET to == IF e.to = Nobody THEN SteerTarget ELSE e.to
        reached == IF to = "*" THEN {m \in Names : r.members[m].state # "inactive"} ELSE {to}
        later == {m \in reached : ~Takes(r.members[m])}
        now == {m \in reached \ later : r.members[m].state # "failed"}
    IN Spawn(With(Park(r, later, e), now,
                  LAMBDA x : [x EXCEPT !.state = "idle", !.submitted = FALSE]), now, e)

RaiseBudget(r, e) ==
    IF e.n > r.budget THEN [r EXCEPT !.budget = e.n, !.overBudget = FALSE] ELSE r

DrainParked(r, e) ==
    LET who == {m \in Names : r.members[m].pending # {} /\ Takes(r.members[m])
                               /\ r.members[m].state # "failed"}
    IN Drain(With(r, who, Idle), who, e)

Unpaused_KeepsParked(r, e) == Result([RaiseBudget(r, e) EXCEPT !.status = "running"], <<>>)

Unpaused(r, e) == DrainParked([RaiseBudget(r, e) EXCEPT !.status = "running"], e)

Participants(s) == Stages[s].in \ Advisory

StageEntered(r, e) ==
    LET timed == Stages[e.n].timed
        reached == {m \in Participants(e.n) : r.members[m].state # "failed"}
        later == {m \in reached : r.members[m].state = "waiting"}
        now == reached \ later
        entered == With([r EXCEPT !.stage = e.n, !.resolved = FALSE, !.timer = IF timed THEN e.n ELSE @],
                        Names, LAMBDA x : [x EXCEPT !.submitted = FALSE])
        opened == Spawn(With(Park(entered, later, e), now, Idle), now, e)
    IN Result(opened.run, (IF timed THEN <<SetTimer(e.n)>> ELSE <<>>) \o opened.fx)

QuorumMet(r, s) ==
    LET voters == Participants(s)
        done == {m \in voters : r.members[m].submitted}
    IN /\ voters # {}
       /\ CASE Stages[s].advance = "any" -> done # {}
            [] Stages[s].advance = "quorum" -> Cardinality(done) >= Stages[s].quorum
            [] Stages[s].advance = "coordinator" /\ Coordinator # Nobody -> r.members[Coordinator].submitted
            [] OTHER -> done = voters

(* A resolved stage leads to the next one, or to the result of the run.    *)
Onward(r, e) ==
    IF r.stage = Len(Stages)
    THEN <<Emit(Derived(e, "run.result", 0))>>
    ELSE <<Emit(Derived(e, "stage.advanced", r.stage + 1)),
           Emit(Derived(e, "stage.entered", r.stage + 1))>>

Resolves_Again(r) == r.stage # 0 /\ QuorumMet(r, r.stage)

Resolves(r) == r.stage # 0 /\ QuorumMet(r, r.stage) /\ ~r.resolved

StageSubmitted(r, e) ==
    LET said == With(r, {e.actor}, LAMBDA x : [x EXCEPT !.submitted = TRUE, !.state = "submitted"])
    IN IF Resolves(said)
       THEN Result([said EXCEPT !.resolved = TRUE, !.timer = 0],
                   (IF r.timer # 0 THEN <<CancelTimer(r.timer)>> ELSE <<>>) \o Onward(r, e))
       ELSE Result(said, <<>>)

TimerTick_WhileRunning(r, e) ==
    IF r.timer = e.n /\ e.n # 0 /\ r.status = "running"
    THEN Result([r EXCEPT !.timer = 0], <<Emit(Derived(e, "stage.timeout", r.stage))>>)
    ELSE Result(r, <<>>)

TimerTick(r, e) ==
    IF r.timer = e.n /\ e.n # 0
    THEN Result([r EXCEPT !.timer = 0], <<Emit(Derived(e, "stage.timeout", r.stage))>>)
    ELSE Result(r, <<>>)

Escalated(woken, e) ==
    IF woken.fx # <<>> THEN woken ELSE BlockAndAsk(woken.run, "stage_timeout", e)

StageTimeout(r, e) ==
    LET off == [r EXCEPT !.timer = 0]
        action == IF r.stage = 0 THEN "escalate" ELSE Stages[r.stage].onTimeout
    IN CASE r.resolved -> Result(off, <<>>)
         [] ~r.resolved /\ action = "fail" -> Result([off EXCEPT !.status = "failed"], <<>>)
         [] ~r.resolved /\ action = "advance" -> Result([off EXCEPT !.resolved = TRUE], Onward(r, e))
         [] OTHER -> Escalated(Wake(off, e), e)

Activated(r, e) ==
    LET on == With([r EXCEPT !.turns = @ + 1], {e.actor},
                   LAMBDA x : [x EXCEPT !.state = "thinking", !.open = TRUE])
    IN Result(on, IF MaxTurns = 0 \/ on.turns < MaxTurns THEN <<>>
                  ELSE <<Emit(Derived(e, "run.expired", 0))>>)

TurnDone_WaitingStaysOpen(r, e) ==
    LET m == r.members[e.actor]
        closed == With(r, {e.actor}, LAMBDA x : [x EXCEPT !.open = FALSE])
        back == With(closed, IF m.submitted THEN {} ELSE {e.actor}, Idle)
    IN CASE m.state \in {"waiting", "failed"} -> Result(r, <<>>)
         [] m.state \notin {"waiting", "failed"} /\ m.pending = {} -> Result(back, <<>>)
         [] OTHER -> Drain(back, {e.actor}, e)

TurnDone_WaitingGoesIdle(r, e) ==
    LET m == r.members[e.actor]
        closed == With(r, {e.actor}, LAMBDA x : [x EXCEPT !.open = FALSE])
        back == With(closed, IF m.submitted THEN {} ELSE {e.actor}, Idle)
    IN CASE m.state = "failed" -> Result(closed, <<>>)
         [] m.state # "failed" /\ m.pending = {} -> Result(back, <<>>)
         [] OTHER -> Drain(back, {e.actor}, e)

TurnDone(r, e) ==
    LET m == r.members[e.actor]
        closed == With(r, {e.actor}, LAMBDA x : [x EXCEPT !.open = FALSE])
        back == With(closed, IF m.submitted THEN {} ELSE {e.actor}, Idle)
    IN CASE m.state \in {"waiting", "failed"} -> Result(closed, <<>>)
         [] m.state \notin {"waiting", "failed"} /\ m.pending = {} -> Result(back, <<>>)
         [] OTHER -> Drain(back, {e.actor}, e)

AgentFailed(r, e) ==
    Result(With(r, {e.actor}, LAMBDA x : [x EXCEPT !.state = "failed", !.open = FALSE]), <<>>)

ToolCalled(r, e) == Result(With(r, {e.actor}, LAMBDA x : [x EXCEPT !.state = "tool"]), <<>>)

ToolCompleted(r, e) ==
    Result(With(r, {e.actor}, LAMBDA x :
               IF x.state = "tool" THEN [x EXCEPT !.state = "thinking"] ELSE x), <<>>)

(* to carries the policy: a tool that needs approval blocks its member on  *)
(* an inbox item, any other denial leaves it idle.                         *)
ToolDenied(r, e) ==
    IF e.to # "ask" THEN Result(With(r, {e.actor}, Idle), <<>>)
    ELSE Result(With(Ask(r, "tool_approval", e.actor, TRUE), {e.actor},
                     LAMBDA x : [x EXCEPT !.state = "waiting", !.on = NextInboxId(r)]),
                <<AskHuman(NextInboxId(r), e.actor, e)>>)

Charged(r, e) ==
    LET paid == With([r EXCEPT !.spent = @ + e.n], {e.actor},
                     LAMBDA x : IF x.state = "thinking" THEN Idle(x) ELSE x)
        over == paid.spent >= r.budget
    IN CASE r.budget = 0 -> Result(paid, <<>>)
         [] r.budget # 0 /\ over /\ ~r.overBudget ->
                Result([paid EXCEPT !.overBudget = TRUE], <<Emit(Derived(e, "budget.exceeded", 0))>>)
         [] OTHER -> Result([paid EXCEPT !.overBudget = over], <<>>)

InboxReplied(r, e) ==
    LET answered == [r EXCEPT !.inbox[e.n].replied = TRUE]
        freed == {m \in Names : r.members[m].on = e.n}
        running == [answered EXCEPT !.status = IF @ = "blocked" THEN "running" ELSE @]
    IN IF freed # {}
       THEN Spawn(With(running, freed, LAMBDA x : [x EXCEPT !.state = "idle", !.on = 0]), freed, e)
       ELSE IF r.status = "blocked" THEN DrainParked(running, e) ELSE Result(answered, <<>>)

Diagnosed(woken) ==
    IF woken.fx = <<>> THEN Result([woken.run EXCEPT !.status = "failed"], <<>>) ELSE woken

RunQuiescent(r, e) == Diagnosed(Wake(r, e))

Apply(r, e) ==
    CASE e.type = "run.started"         -> Started(r, e)
      [] e.type = "run.prompt"          -> Injected(r, e)
      [] e.type = "run.paused"          -> Result([r EXCEPT !.status = "paused"], <<>>)
      [] e.type = "run.unpaused"        -> Unpaused(r, e)
      [] e.type = "run.cancelled"       -> Result([r EXCEPT !.status = "cancelled"], <<>>)
      [] e.type = "run.expired"         -> Result([r EXCEPT !.status = "expired"], <<>>)
      [] e.type = "run.result"          -> Result([r EXCEPT !.status = "succeeded"], <<>>)
      [] e.type = "run.quiescent"       -> RunQuiescent(r, e)
      [] e.type = "stage.entered"       -> StageEntered(r, e)
      [] e.type = "stage.submitted"     -> StageSubmitted(r, e)
      [] e.type = "stage.advanced"      -> Result([r EXCEPT !.stage = e.n], <<>>)
      [] e.type = "stage.timeout"       -> StageTimeout(r, e)
      [] e.type = "agent.activated"     -> Activated(r, e)
      [] e.type = "agent.turn_done"     -> TurnDone(r, e)
      [] e.type = "agent.failed"        -> AgentFailed(r, e)
      [] e.type = "tool.call"           -> ToolCalled(r, e)
      [] e.type = "tool.call_completed" -> ToolCompleted(r, e)
      [] e.type = "tool.call_denied"    -> ToolDenied(r, e)
      [] e.type = "llm.response"        -> Charged(r, e)
      [] e.type = "budget.exceeded"     -> BlockAndAsk(r, "budget", e)
      [] e.type = "inbox.created"       -> Result([r EXCEPT !.inbox[e.n].listed = TRUE], <<>>)
      [] e.type = "inbox.replied"       -> InboxReplied(r, e)
      [] e.type = "timer.tick"          -> TimerTick(r, e)

-----------------------------------------------------------------------------
(* Quiescence: nothing is going on, nothing can start, nobody was asked.   *)

Quiet_IgnoresTurns(r, e, fx) ==
    /\ r.status = "running" /\ ~r.quiescent
    /\ e.type # "run.quiescent"
    /\ \A i \in DOMAIN fx : fx[i].op = "cancel_timer"
    /\ r.timer = 0
    /\ \A m \in Names : ~Runnable(r.members[m])
    /\ ~r.resolved
    /\ \A i \in DOMAIN r.inbox : r.inbox[i].listed => r.inbox[i].replied

Quiet_AfterTurnsOnly(r, e, fx) ==
    /\ r.status = "running" /\ ~r.quiescent
    /\ e.type = "agent.turn_done"
    /\ \A i \in DOMAIN fx : fx[i].op = "cancel_timer"
    /\ r.timer = 0
    /\ \A m \in Names : ~Busy(r.members[m]) /\ ~Runnable(r.members[m])
    /\ ~r.resolved
    /\ \A i \in DOMAIN r.inbox : r.inbox[i].listed => r.inbox[i].replied

Quiet(r, e, fx) ==
    /\ r.status = "running" /\ ~r.quiescent
    /\ e.type # "run.quiescent"
    /\ \A i \in DOMAIN fx : fx[i].op = "cancel_timer"
    /\ r.timer = 0
    /\ \A m \in Names : ~Busy(r.members[m]) /\ ~Runnable(r.members[m])
    /\ ~r.resolved
    /\ \A i \in DOMAIN r.inbox : r.inbox[i].listed => r.inbox[i].replied

WatcherDispatched == {"resource.conflict", "run.quiescent", "stage.timeout"}

(* The watchers see what the event did; then the run is looked at.         *)
Watched(applied, e) ==
    IF e.source = "runtime" \/ e.type \in WatcherDispatched THEN applied
    ELSE LET woken == Wake(applied.run, e) IN Result(woken.run, applied.fx \o woken.fx)

Concluded(seen, e) ==
    IF Quiet(seen.run, e, seen.fx)
    THEN Result([seen.run EXCEPT !.quiescent = TRUE],
                OrderEffects(seen.fx \o <<Emit(Derived(e, "run.quiescent", 0))>>))
    ELSE Result(seen.run, OrderEffects(seen.fx))

Decide(r, e) ==
    IF r.status \in Terminal THEN Result(r, <<>>)
    ELSE Concluded(Watched(Apply(r, e), e), e)
=============================================================================
