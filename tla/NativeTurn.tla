----------------------------- MODULE NativeTurn -----------------------------
(***************************************************************************)
(* A native turn (internal/exec/turn.go): rounds of one model call and the *)
(* tool calls it asks for, each a child with durable records, a tool call  *)
(* under policy "ask" being suspended until a person decides, and the      *)
(* reducer's side of that authorization (internal/kernel/decide.go).       *)
(*                                                                         *)
(* One member and one SpawnTurn; the worker may die between any two        *)
(* records.  The turn's parent record and those of the resumptions are     *)
(* kept as the outcomes of two kinds of work; how a step prepares, starts  *)
(* and completes them is module DurableStep's.                             *)
(*                                                                         *)
(* Abstractions.  A call is its provider's id: that one id names one tool  *)
(* and one argument digest is checked by validateRoundCalls.  A result is  *)
(* named by its call, a model's request by what it was presented and the   *)
(* calls and results so far.  The run is not claimed from a coordination   *)
(* store: there a registration stops a second worker before it reaches a   *)
(* turn (DurableStep), so the receipts of children are never consulted.    *)
(***************************************************************************)
EXTENDS Sequences, Integers, FiniteSets

CONSTANTS
    Calls,          \* ids a provider gives to tool calls
    Policy,         \* call -> "allow", "ask" or "deny", frozen with the run
    Responses,      \* what a model may answer: sequences of calls, <<>> to finish
    Presentations,  \* what preparing the context may yield as the world changes
    Barriers,       \* whether the context is prepared durably (ContextConfig)
    MaxRounds,      \* bound of the code: 64 model rounds
    MaxFaults       \* bound: crashes and changes of the world

ASSUME TurnAssumption ==
    /\ Policy \in [Calls -> {"allow", "ask", "deny"}]
    /\ Responses \subseteq Seq(Calls)
    /\ Barriers \subseteq BOOLEAN
    /\ {"none", "failed"} \cap Presentations = {}
    /\ MaxRounds \in Nat \ {0} /\ MaxFaults \in Nat

Rounds == 0..(MaxRounds - 1)
Model(r) == [kind |-> "model", round |-> r, call |-> "-"]
Tool(r, c) == [kind |-> "tool", round |-> r, call |-> c]
Turn == [kind |-> "turn", round |-> 0, call |-> "-"]
Asks == {Tool(r, c) : r \in Rounds, c \in {c \in Calls : Policy[c] = "ask"}}

VARIABLES
    unread,         \* domain events appended and not yet decided
    tip,            \* ask -> its authorization, folded over the whole log
    run,            \* the reducer's state: the member, its open turn, the authorizations
    works,          \* turn or resumption -> recorded outcome, "open" before
    children,       \* child -> its records
    suspended,      \* call -> suspension
    context,        \* presentation committed for the turn, "none" or "failed"
    timers,         \* authorizations with an armed timer
    worker,         \* where the worker is, with what it remembers
    acted,          \* children that reached the outside, in order
    elapsed,        \* authorizations whose expiry has passed
    barrier,        \* the run prepares its context durably
    world,          \* what preparing the context would yield now
    faults          \* bound: how many faults happened

records == <<works, children, suspended, context>>
outside == <<acted, elapsed, world>>
turnVars == <<unread, tip, run, records, timers, worker, outside, barrier, faults>>

Down == [pc |-> "down"]
Event(type, about) == [type |-> type, about |-> about]
Nothing == [a \in {} |-> a]

TurnInit ==
    /\ unread = <<Event("spawn", Turn)>>
    /\ tip = [a \in Asks |-> "none"]
    /\ run = [member |-> "idle", turnOpen |-> FALSE, auth |-> tip]
    /\ works = Nothing /\ children = Nothing /\ suspended = Nothing
    /\ context = "none"
    /\ timers = {}
    /\ worker = Down
    /\ acted = <<>> /\ elapsed = {}
    /\ barrier \in Barriers
    /\ world \in Presentations
    /\ faults = 0

-----------------------------------------------------------------------------
(* The reducer.  An authorization follows only the events that match its   *)
(* state; a request blocks the member, a refusal unblocks it, and the end  *)
(* of a turn, which begins with the member's activation, closes it.        *)

Live(s) == s \in {"pending", "granted"}

Matches(type, s) ==
    CASE type = "requested" -> s = "none"
      [] type \in {"granted", "denied"} -> s = "pending"
      [] type = "expired" -> Live(s)
      [] type = "consumed" -> s = "granted"
      [] OTHER -> FALSE

Standing(type) == IF type = "requested" THEN "pending" ELSE type

Folded(auth, e) ==
    IF e.about \in Asks /\ Matches(e.type, auth[e.about])
    THEN [auth EXCEPT ![e.about] = Standing(e.type)] ELSE auth

MemberAfter(e) ==
    CASE e.type = "spawn" -> "thinking"
      [] e.type = "finished" -> "idle"
      [] e.type = "failed" -> "failed"
      [] e.type = "requested" -> "waiting"
      [] e.type \in {"denied", "expired"} /\ Live(run.auth[e.about]) -> "idle"
      [] OTHER -> run.member

Decided(e) ==
    [member |-> MemberAfter(e),
     turnOpen |-> e.type = "spawn" \/ (run.turnOpen /\ e.type \notin {"finished", "failed"}),
     auth |-> Folded(run.auth, e)]

(* A timer's tick becomes the expiry unless the authorization is over.     *)
Emitted(e) ==
    IF e.type = "tick" /\ Live(run.auth[e.about]) THEN <<Event("expired", e.about)>> ELSE <<>>

TimersAfter_Unarmed(e) ==
    IF e.type \in {"denied", "expired", "consumed"} THEN timers \ {e.about} ELSE timers

TimersAfter(e) ==
    CASE e.type = "requested" -> timers \cup {e.about}
      [] e.type \in {"denied", "expired", "consumed"} -> timers \ {e.about}
      [] OTHER -> timers

(* Events appended: folded at once by whoever reads the whole log.         *)
Appended(events) ==
    /\ unread' = unread \o events
    /\ tip' = IF events = <<>> THEN tip ELSE Folded(tip, events[1])

-----------------------------------------------------------------------------
(* The worker between two steps.                                           *)

At(pc) == worker.pc = pc
Becomes(w) == worker' = w
Loop == [pc |-> "loop"]
Stopped == [pc |-> "stopped"]

Outcomes == {works[w] : w \in DOMAIN works} \cup UNION {children[s].ends : s \in DOMAIN children}

(* Recover refuses a log in which a child ended in two ways, and a run     *)
(* with an unknown outcome is not continued.                               *)
Recoverable ==
    /\ "unknown" \notin Outcomes
    /\ \A s \in DOMAIN children : Cardinality(children[s].ends) <= 1

Open ==
    /\ At("down")
    /\ Becomes(IF Recoverable THEN Loop ELSE Stopped)
    /\ UNCHANGED <<unread, tip, run, records, timers, outside, barrier, faults>>

Current == Head(unread)
WorkOf(e) ==
    IF e.type = "spawn" THEN Turn ELSE [e.about EXCEPT !.kind = "resume"]
CommissionsWork(e) ==
    e.type = "spawn" \/ (e.type = "granted" /\ Matches("granted", run.auth[e.about]))

Deciding == At("loop") /\ unread # <<>>

(* An event with control effects only: its step is one transition here.    *)
DecideControl ==
    /\ Deciding /\ ~CommissionsWork(Current)
    /\ run' = Decided(Current)
    /\ timers' = TimersAfter(Current)
    /\ unread' = Tail(unread) \o Emitted(Current)
    /\ tip' = IF Emitted(Current) = <<>> THEN tip ELSE Folded(tip, Emitted(Current)[1])
    /\ UNCHANGED <<records, worker, outside, barrier, faults>>

Ended(w) == w \in DOMAIN works /\ works[w] # "open"

DecideWork ==
    /\ Deciding /\ CommissionsWork(Current)
    /\ LET w == WorkOf(Current)
       IN /\ Becomes(IF Ended(w) THEN [pc |-> "complete"]
                     ELSE [pc |-> IF w = Turn THEN "context" ELSE "resume", work |-> w])
          /\ works' = IF w \in DOMAIN works THEN works
                      ELSE [x \in DOMAIN works \cup {w} |-> IF x = w THEN "open" ELSE works[x]]
    /\ UNCHANGED <<unread, tip, run, children, suspended, context, timers, outside, barrier, faults>>

(* How a turn or a resumption ends: only a SpawnTurn that ends badly       *)
(* becomes a failure of its member.                                        *)
Ends(work, status, events) ==
    Becomes([pc |-> "end", work |-> work, status |-> status, events |-> events])
Fails(work, status) ==
    Ends(work, status, IF work = Turn THEN <<Event("failed", Turn)>> ELSE <<>>)
Finishes(work) == Ends(work, "completed", <<Event("finished", Turn)>>)

FinishWork ==
    /\ At("end")
    /\ works' = [works EXCEPT ![worker.work] = worker.status]
    /\ Appended(worker.events)
    /\ Becomes(IF worker.status = "unknown" THEN Stopped ELSE [pc |-> "complete"])
    /\ UNCHANGED <<run, children, suspended, context, timers, outside, barrier, faults>>

CompleteStep ==
    /\ At("complete")
    /\ run' = Decided(Current)
    /\ unread' = Tail(unread)
    /\ Becomes(Loop)
    /\ UNCHANGED <<tip, records, timers, outside, barrier, faults>>

-----------------------------------------------------------------------------
(* A turn: its context, then rounds.                                       *)

Round(work, r, request) == [pc |-> "model", work |-> work, round |-> r, request |-> request]
FirstRound(p) == Round(worker.work, 0, [context |-> p, messages |-> <<>>])

(* With the barrier the first worker's presentation is committed and the   *)
(* others use it; without it each worker prepares the turn anew.           *)
Reusable_Never == FALSE

Reusable == barrier /\ context # "none"

ReuseContext ==
    /\ At("context") /\ Reusable
    /\ IF context = "failed" THEN Fails(Turn, "failed") ELSE Becomes(FirstRound(context))
    /\ UNCHANGED <<unread, tip, run, records, timers, outside, barrier, faults>>

PrepareContext ==
    /\ At("context") /\ ~Reusable
    /\ Becomes(FirstRound(world))
    /\ context' = IF barrier THEN world ELSE context
    /\ UNCHANGED <<unread, tip, run, works, children, suspended, timers, outside, barrier, faults>>

(* A projection or preparation that fails is recorded and final.           *)
PreparationFails ==
    /\ At("context") /\ ~Reusable
    /\ faults < MaxFaults /\ faults' = faults + 1
    /\ context' = IF barrier THEN "failed" ELSE context
    /\ Fails(Turn, "failed")
    /\ UNCHANGED <<unread, tip, run, works, children, suspended, timers, outside, barrier>>

(* A committed context is refused when the member's route has changed.     *)
RouteChanged ==
    /\ At("context") /\ Reusable /\ context # "failed"
    /\ faults < MaxFaults /\ faults' = faults + 1
    /\ Fails(Turn, "failed")
    /\ UNCHANGED <<unread, tip, run, records, timers, outside, barrier>>

Child(request) == [request |-> request, started |-> FALSE, ends |-> {}, answer |-> <<>>]
ToolRequest == [context |-> "-", messages |-> <<>>]

Prepares(s, request) ==
    /\ s \notin DOMAIN children
    /\ children' = [x \in DOMAIN children \cup {s} |->
                        IF x = s THEN Child(request) ELSE children[x]]
    /\ UNCHANGED <<unread, tip, run, works, suspended, context, timers, worker, outside, barrier, faults>>

Completed(s) == s \in DOMAIN children /\ "completed" \in children[s].ends
Prepared(s) == s \in DOMAIN children /\ ~Completed(s)
Interrupted_Refused(s) == Prepared(s) /\ children[s].started /\ children[s].ends # {}

Interrupted(s) == Prepared(s) /\ children[s].started

(* A child is recorded as started, and its call made.  One that was        *)
(* already started is not made again: nobody knows whether it happened.    *)
Starts(s) ==
    /\ Prepared(s) /\ ~Interrupted(s)
    /\ children' = [children EXCEPT ![s].started = TRUE]
    /\ worker' = [worker EXCEPT !.pc = "call"]

StopsAt(s) ==
    /\ Interrupted(s)
    /\ Fails(worker.work, "unknown")

InModel == "calls" \notin DOMAIN worker
Slot == IF InModel THEN Model(worker.round) ELSE Tool(worker.round, worker.calls[worker.index])
Unchanged == UNCHANGED <<unread, tip, run, works, suspended, context, timers, outside, barrier, faults>>

(* The round's model call.  A request that differs from the one recorded   *)
(* is an error nobody marked as harmless.                                  *)
ModelDue == At("model") /\ worker.round < MaxRounds
Changed(s) == s \in DOMAIN children /\ children[s].request # worker.request

PrepareModel == ModelDue /\ Prepares(Slot, worker.request)

ModelChanged ==
    /\ ModelDue /\ Changed(Slot)
    /\ Fails(worker.work, "unknown")
    /\ Unchanged /\ UNCHANGED children

StartModel == ModelDue /\ ~Changed(Slot) /\ Starts(Slot) /\ Unchanged
StopAtModel == ModelDue /\ ~Changed(Slot) /\ StopsAt(Slot) /\ Unchanged /\ UNCHANGED children

TooManyRounds ==
    /\ At("model") /\ worker.round = MaxRounds
    /\ Fails(worker.work, "failed")
    /\ Unchanged /\ UNCHANGED children

(* What the model answered: nothing more to do, or calls in an order that  *)
(* is kept.                                                                *)
Answers(calls) ==
    IF calls = <<>> THEN Finishes(worker.work)
    ELSE Becomes([pc |-> "tools", work |-> worker.work, round |-> worker.round,
                  request |-> [worker.request EXCEPT !.messages = Append(@, [calls |-> calls])],
                  calls |-> calls, index |-> 1, results |-> <<>>])

ReuseModel ==
    /\ ModelDue /\ ~Changed(Slot) /\ Completed(Slot)
    /\ Answers(children[Slot].answer)
    /\ Unchanged /\ UNCHANGED children

-----------------------------------------------------------------------------
(* The calls of a round, one after the other.                              *)

InTools == At("tools") /\ worker.index <= Len(worker.calls)
Policed(p) == InTools /\ Policy[worker.calls[worker.index]] = p

Took(w) == [w EXCEPT !.index = @ + 1, !.results = Append(@, w.calls[w.index])]

PrepareTool == InTools /\ Prepares(Slot, ToolRequest)

ReuseTool ==
    /\ Policed("allow") /\ Completed(Slot)
    /\ Becomes(Took(worker))
    /\ Unchanged /\ UNCHANGED children

StartTool == Policed("allow") /\ Starts(Slot) /\ Unchanged
StopAtTool == Policed("allow") /\ StopsAt(Slot) /\ Unchanged /\ UNCHANGED children

(* A denied call is answered without being started and ends the turn.      *)
DenyTool ==
    /\ Policed("deny") /\ Slot \in DOMAIN children
    /\ children' = [children EXCEPT ![Slot].ends = @ \cup {"completed"}]
    /\ Finishes(worker.work)
    /\ Unchanged

NextRound ==
    /\ At("tools") /\ ~InTools
    /\ Becomes(Round(worker.work, worker.round + 1,
            [worker.request EXCEPT !.messages = Append(@, [results |-> worker.results])]))
    /\ Unchanged /\ UNCHANGED children

(* A call somebody must approve: where the turn stands and the request are *)
(* one append, under a slot that names the call but not its round.         *)
Suspension ==
    [round |-> worker.round, index |-> worker.index, calls |-> worker.calls, request |-> worker.request]
Suspending == Policed("ask") /\ Slot \in DOMAIN children
Call == worker.calls[worker.index]

Suspend ==
    /\ Suspending /\ Call \notin DOMAIN suspended
    /\ suspended' = [c \in DOMAIN suspended \cup {Call} |->
                        IF c = Call THEN Suspension ELSE suspended[c]]
    /\ Appended(<<Event("requested", Slot)>>)
    /\ Ends(worker.work, "completed", <<>>)
    /\ UNCHANGED <<run, works, children, context, timers, outside, barrier, faults>>

AlreadySuspended ==
    /\ Suspending /\ Call \in DOMAIN suspended
    /\ IF suspended[Call] = Suspension THEN Ends(worker.work, "completed", <<>>)
       ELSE Fails(worker.work, "failed")
    /\ Unchanged /\ UNCHANGED children

-----------------------------------------------------------------------------
(* Resumption of an approved call.                                         *)

Resuming == At("resume")
Approved == Tool(worker.work.round, worker.work.call)
Suspended == suspended[Approved.call]

(* The turn goes on where it was suspended, with the approved call's result *)
(* as the first of its round.                                              *)
Resumed == [pc |-> "tools", work |-> worker.work, round |-> Suspended.round,
            request |-> Suspended.request, calls |-> Suspended.calls,
            index |-> Suspended.index, results |-> <<>>]

GrantIsGone ==
    /\ Resuming /\ tip[Approved] \notin {"granted", "consumed"}
    /\ Fails(worker.work, "failed")
    /\ Unchanged /\ UNCHANGED children

ResumeCompleted ==
    /\ Resuming /\ Completed(Approved)
    /\ Becomes(Took(Resumed))
    /\ Unchanged /\ UNCHANGED children

(* An approved call that was started is recorded as unknown, whatever its  *)
(* record says.                                                            *)
ResumeInterrupted ==
    /\ Resuming /\ Interrupted(Approved)
    /\ children' = [children EXCEPT ![Approved].ends = @ \cup {"unknown"}]
    /\ Fails(worker.work, "unknown")
    /\ Unchanged

Unconsumed == Resuming /\ tip[Approved] = "granted" /\ ~Interrupted(Approved)

TooLate_Never(a) == FALSE

TooLate(a) == a \in elapsed

ExpireGrant ==
    /\ Unconsumed /\ TooLate(Approved)
    /\ Appended(<<Event("expired", Approved)>>)
    /\ Fails(worker.work, "failed")
    /\ UNCHANGED <<run, records, timers, outside, barrier, faults>>

ConsumeGrant ==
    /\ Unconsumed /\ ~TooLate(Approved)
    /\ Appended(<<Event("consumed", Approved)>>)
    /\ children' = [children EXCEPT ![Approved].started = TRUE]
    /\ Becomes([Resumed EXCEPT !.pc = "call"])
    /\ UNCHANGED <<run, works, suspended, context, timers, outside, barrier, faults>>
-----------------------------------------------------------------------------
(* A call in flight: it reaches the outside or not, and the worker hears   *)
(* what came of it, that it was not dispatched, or nothing.                *)

InFlight == worker.pc \in {"call", "acted"}
Records(status, answer) ==
    children' = [children EXCEPT ![Slot].ends = @ \cup {status}, ![Slot].answer = answer]

Act ==
    /\ At("call")
    /\ acted' = Append(acted, Slot)
    /\ worker' = [worker EXCEPT !.pc = "acted"]
    /\ UNCHANGED <<unread, tip, run, records, timers, elapsed, barrier, world, faults>>

Answered ==
    /\ At("acted")
    /\ IF InModel
       THEN \E calls \in Responses : Records("completed", calls) /\ Answers(calls)
       ELSE Records("completed", <<>>) /\ Becomes([Took(worker) EXCEPT !.pc = "tools"])
    /\ Unchanged

Fault == faults < MaxFaults /\ faults' = faults + 1

Refused ==
    /\ At("call") /\ Fault
    /\ Records("failed", <<>>)
    /\ Fails(worker.work, "failed")
    /\ UNCHANGED <<unread, tip, run, works, suspended, context, timers, outside, barrier>>

Lost ==
    /\ InFlight /\ Fault
    /\ Records("unknown", <<>>)
    /\ Fails(worker.work, "unknown")
    /\ UNCHANGED <<unread, tip, run, works, suspended, context, timers, outside, barrier>>

-----------------------------------------------------------------------------
(* Everybody else.  A decision is appended between two steps of the worker *)
(* or while there is none; one that comes too late is recorded as the      *)
(* expiry.                                                                 *)

Listening == worker.pc \in {"loop", "down"}

DecisionBy(a, type) ==
    /\ Listening /\ tip[a] = "pending"
    /\ Appended(<<Event(IF a \in elapsed THEN "expired" ELSE type, a)>>)
    /\ UNCHANGED <<run, records, timers, worker, outside, barrier, faults>>

Grant(a) == DecisionBy(a, "granted")
Deny(a) == DecisionBy(a, "denied")

(* A timer fires when the run has nothing to decide.                       *)
Tick(a) ==
    /\ At("loop") /\ unread = <<>>
    /\ a \in timers \cap elapsed
    /\ timers' = timers \ {a}
    /\ Appended(<<Event("tick", a)>>)
    /\ UNCHANGED <<run, records, worker, outside, barrier, faults>>

Elapse(a) ==
    /\ tip[a] # "none" /\ a \notin elapsed
    /\ elapsed' = elapsed \cup {a}
    /\ UNCHANGED <<unread, tip, run, records, timers, worker, acted, barrier, world, faults>>

WorldChanges ==
    /\ Fault
    /\ world' \in Presentations \ {world}
    /\ UNCHANGED <<unread, tip, run, records, timers, worker, acted, elapsed, barrier>>

Crash ==
    /\ worker.pc \notin {"down", "stopped"} /\ Fault
    /\ Becomes(Down)
    /\ UNCHANGED <<unread, tip, run, records, timers, outside, barrier>>

-----------------------------------------------------------------------------
Decide == DecideControl \/ DecideWork
PrepareTurn == ReuseContext \/ PrepareContext
ModelRound ==
    PrepareModel \/ ModelChanged \/ StartModel \/ StopAtModel \/ TooManyRounds \/ ReuseModel
ToolRound ==
    \/ PrepareTool \/ ReuseTool \/ StartTool \/ StopAtTool \/ DenyTool
    \/ NextRound \/ Suspend \/ AlreadySuspended
ResumeAuthorization ==
    GrantIsGone \/ ResumeCompleted \/ ResumeInterrupted \/ ExpireGrant \/ ConsumeGrant

Worker ==
    \/ Open \/ Decide \/ PrepareTurn \/ ModelRound \/ ToolRound \/ ResumeAuthorization
    \/ FinishWork \/ CompleteStep

Outside == Act \/ Answered
Timers == \E a \in Asks : Tick(a) \/ Elapse(a)
People == \E a \in Asks : Grant(a) \/ Deny(a)
Faults == PreparationFails \/ RouteChanged \/ Refused \/ Lost \/ WorldChanges \/ Crash

TurnNext == Worker \/ Outside \/ Timers \/ People \/ Faults

TurnSpec == TurnInit /\ [][TurnNext]_turnVars

(* The worker steps whenever it can and is opened again when it dies, a    *)
(* call returns, time passes and timers fire; a person need never answer.  *)
Fairness ==
    /\ WF_turnVars(Worker)
    /\ WF_turnVars(Outside)
    /\ \A a \in Asks : WF_turnVars(Tick(a)) /\ WF_turnVars(Elapse(a))

FairSpec == TurnSpec /\ Fairness
=============================================================================
