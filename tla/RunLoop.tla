------------------------------ MODULE RunLoop ------------------------------
(***************************************************************************)
(* The run loop (internal/exec/loop.go) driving the reducer of Kernel over *)
(* the log of one run, with the executor that carries the effects out and  *)
(* the people who write to the log from outside.                           *)
(*                                                                         *)
(* queue is the part of the log behind the loop's cursor: the events it    *)
(* has not decided yet.  A step decides the first of them and carries its  *)
(* effects out; whatever they produce is appended behind the rest.  People *)
(* write only between two steps (host/v1 applies their commands at the     *)
(* loop's boundaries; the command line needs the writer lock, so the loop  *)
(* has stopped) and their commands are checked against the state at the    *)
(* tip of the log, not at the cursor.                                      *)
(***************************************************************************)
EXTENDS Kernel

CONSTANTS
    TurnKinds,    \* how a turn may end
    CallKinds,    \* how a tool run by a watcher may end
    Costs,        \* what a turn may cost
    HumanActs,    \* what people may do
    Interrupted,  \* whether people also act while events are undecided
    ClockForgets, \* whether a recovered run starts with an empty clock
    MaxInputs,    \* bound: things people do
    Raise         \* by how much they raise a budget

ASSUME ActorsAssumption ==
    /\ TurnKinds \subseteq {"submits", "idles", "asks", "fails"}
    /\ CallKinds \subseteq {"done", "deny", "ask", "lost"}
    /\ HumanActs \subseteq {"prompt", "pause", "unpause", "raise", "cancel", "reply"}
    /\ {Interrupted, ClockForgets} \subseteq BOOLEAN /\ Costs \subseteq Nat /\ MaxInputs \in Nat /\ Raise \in Nat \ {0}

VARIABLES
    run,       \* the state of the run at the cursor
    queue,     \* the undecided events of the log
    armed,     \* the stage timers the clock will fire
    inputs,    \* how many things people did; the last one's id
    prompted,  \* the ids of the prompts among them
    heard      \* the ids that were a cause of a turn

vars == <<run, queue, armed, inputs, prompted, heard>>

Event(type, actor, source, depth, n) ==
    [type |-> type, actor |-> actor, source |-> source, depth |-> depth,
     id |-> 0, n |-> n, to |-> Nobody]

Human(type, n, id) == [Event(type, Nobody, "human", 0, n) EXCEPT !.id = id]

Init ==
    /\ run = NewRun
    /\ queue = <<Human("run.started", 0, 0)>>
    /\ armed = {}
    /\ inputs = 0
    /\ prompted = {}
    /\ heard = {}

-----------------------------------------------------------------------------
(* What an effect appends to the log.                                      *)

Turn(f, kind, cost) ==
    LET began == Event("agent.activated", f.agent, "runtime", f.depth, 0)
        paid == Event("llm.response", f.agent, "agent", f.depth, cost)
        done == Event("agent.turn_done", f.agent, "agent", f.depth, 0)
    IN CASE kind = "submits" ->
              <<began, paid, Event("stage.submitted", f.agent, "agent", f.depth, f.stage), done>>
         [] kind = "idles" -> <<began, paid, done>>
         [] kind = "asks" ->
              <<began, Event("tool.call", f.agent, "agent", f.depth, 0),
                [Event("tool.call_denied", f.agent, "agent", f.depth, 0) EXCEPT !.to = "ask"],
                paid, done>>
         [] kind = "fails" -> <<Event("agent.failed", f.agent, "runtime", f.depth, 0)>>

Called(f, kind) ==
    CASE kind = "done" -> <<Event("tool.call_completed", f.agent, "agent", f.depth, 0)>>
      [] kind = "lost" -> <<>>
      [] OTHER -> <<[Event("tool.call_denied", f.agent, "agent", f.depth, 0) EXCEPT !.to = kind]>>

Outcomes(f) ==
    CASE f.op = "spawn" -> TurnKinds \X Costs
      [] f.op = "call" -> CallKinds \X {0}
      [] OTHER -> {<<"done", 0>>}

Produced(f, outcome) ==
    CASE f.op = "emit" -> <<f.event>>
      [] f.op = "spawn" -> Turn(f, outcome[1], outcome[2])
      [] f.op = "call" -> Called(f, outcome[1])
      [] f.op = "ask" -> <<Event("inbox.created", f.agent, "runtime", f.depth, f.id)>>
      [] OTHER -> <<>>

Results(fx) ==
    {results \in [DOMAIN fx -> UNION {Outcomes(fx[i]) : i \in DOMAIN fx}] :
        \A i \in DOMAIN fx : results[i] \in Outcomes(fx[i])}

Timers(fx, op) == {fx[i].stage : i \in {j \in DOMAIN fx : fx[j].op = op}}

Causes(fx) == UNION {fx[i].causes : i \in {j \in DOMAIN fx : fx[j].op = "spawn"}}

-----------------------------------------------------------------------------
Step ==
    /\ queue # <<>>
    /\ \E d \in {Decide(run, Head(queue))} : \E results \in Results(d.fx) :
          /\ run' = d.run
          /\ queue' = Tail(queue) \o FlattenSeq([i \in DOMAIN d.fx |-> Produced(d.fx[i], results[i])])
          /\ armed' = (armed \ Timers(d.fx, "cancel_timer")) \cup Timers(d.fx, "set_timer")
          /\ heard' = heard \cup Causes(d.fx)
    /\ UNCHANGED <<inputs, prompted>>

(* The clock is asked only when every event has been decided.              *)
Tick ==
    /\ run.status \notin Terminal /\ queue = <<>>
    /\ \E s \in armed :
          /\ queue' = queue \o <<Event("timer.tick", Nobody, "runtime", 0, s)>>
          /\ armed' = armed \ {s}
    /\ UNCHANGED <<run, inputs, prompted, heard>>

(* A worker dies between two steps and another one recovers the run.  What *)
(* it needs is in the log: the supervisor and the command line rebuild even *)
(* the clock from it, so their recovery changes nothing here; the worker of *)
(* the host package starts with a new clock.                               *)
Recover ==
    /\ ClockForgets
    /\ run.status \notin Terminal /\ armed # {}
    /\ armed' = {}
    /\ UNCHANGED <<run, queue, inputs, prompted, heard>>

-----------------------------------------------------------------------------
(* People: every command is refused unless the state at the tip allows it. *)

Tip ==
    LET after[n \in 0 .. Len(queue)] ==
            IF n = 0 THEN run ELSE Decide(after[n - 1], queue[n]).run
    IN after[Len(queue)]

Says(act, type, n) ==
    /\ act \in HumanActs
    /\ inputs' = inputs + 1
    /\ queue' = Append(queue, Human(type, n, inputs + 1))
    /\ UNCHANGED <<run, armed, heard>>

Prompt(tip) ==
    /\ tip.status \notin Terminal \cup {"paused"}
    /\ Says("prompt", "run.prompt", 0)
    /\ prompted' = prompted \cup {inputs + 1}

Pause(tip) ==
    /\ tip.status \notin Terminal \cup {"paused"}
    /\ Says("pause", "run.paused", 0)
    /\ UNCHANGED prompted

Unpause(tip) ==
    /\ tip.status \notin Terminal \cup {"running"}
    /\ Says("unpause", "run.unpaused", 0)
    /\ UNCHANGED prompted

UnpauseRaising(tip) ==
    /\ tip.status \notin Terminal
    /\ tip.budget # 0
    /\ Says("raise", "run.unpaused", tip.budget + Raise)
    /\ UNCHANGED prompted

Cancel(tip) ==
    /\ tip.status \notin Terminal
    /\ Says("cancel", "run.cancelled", 0)
    /\ UNCHANGED prompted

Reply(tip) ==
    /\ tip.status \notin Terminal
    /\ \E i \in DOMAIN tip.inbox :
          /\ tip.inbox[i].listed /\ ~tip.inbox[i].replied
          /\ Says("reply", "inbox.replied", i)
    /\ UNCHANGED prompted

People ==
    /\ inputs < MaxInputs
    /\ Interrupted \/ queue = <<>>
    /\ \E tip \in {Tip} :
          Prompt(tip) \/ Pause(tip) \/ Unpause(tip) \/ UnpauseRaising(tip) \/ Cancel(tip) \/ Reply(tip)

Next == Step \/ Tick \/ Recover \/ People

(* The loop goes on while there is an event to decide or a timer to wait   *)
(* for; nothing makes people act.  The first conjunct is WF_vars(Step) with *)
(* its enabling condition written out: a decision is cheap to check, and   *)
(* costly to search for.                                                   *)
Fairness == ([]<>(queue = <<>>) \/ []<><<Step>>_vars) /\ WF_vars(Tick)

Spec == Init /\ [][Next]_vars /\ Fairness
=============================================================================
