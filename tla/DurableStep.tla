----------------------------- MODULE DurableStep ----------------------------
(***************************************************************************)
(* Durable execution of the effects the reducer decides (internal/exec:    *)
(* Loop.run, Runner.RunStep, Recover), by a worker that may die anywhere.  *)
(*                                                                         *)
(* For every domain event the worker writes the manifest of the effects    *)
(* the reducer decided, carries them out and writes, for each, that it     *)
(* started and how it ended, and last that the step is complete.  Control  *)
(* effects run one by one in the order decided; independent ones run in    *)
(* goroutines that the worker waits for, and their outcomes are written in *)
(* list order.  A worker that finds a step half done decides, effect by    *)
(* effect, what the records allow: skip, take the outcome of a receipt, do *)
(* it again, or stop because nobody knows whether it happened.             *)
(*                                                                         *)
(* Abstractions.  A domain event is the kind of thing that happened, an    *)
(* effect the kind of thing to do; the reducer is the constant Decides.  A *)
(* native turn or the resumption of an authorized one ("turn", "resume")   *)
(* is one effect whose calls are module NativeTurn's.  An append that      *)
(* fails stops the worker with everything in its memory lost, which is the *)
(* same step as its death.  The log has one writer and keeps what it       *)
(* confirmed (module LogStore).                                            *)
(***************************************************************************)
EXTENDS Sequences, Integers

CONSTANTS
    Decides,        \* kind of domain event -> sequence of the effects it leads to
    Coordinations,  \* whether the worker runs under a claim of the coordination store
    MaxAttempts,    \* bound: workers, one after the other
    MaxFaults       \* bound: crashes, and calls that fail although nothing forbids them

ControlKinds == {"emit", "timer"}
IndependentKinds == {"tool", "keyed", "turn", "resume"}
Kinds == ControlKinds \cup IndependentKinds

(* "tool" is declared non-idempotent, "keyed" idempotent under its key.    *)
Events == DOMAIN Decides

ASSUME StepAssumption ==
    /\ Decides \in [Events -> Seq(Kinds)]
    /\ "run.started" \in Events /\ "agent.failed" \in Events /\ Kinds \subseteq Events
    /\ \A e \in Events : \A i, k \in 1..Len(Decides[e]) :
          i < k /\ Decides[e][k] \in ControlKinds => Decides[e][i] \in ControlKinds
    /\ Coordinations \subseteq BOOLEAN
    /\ MaxAttempts \in Nat \ {0} /\ MaxFaults \in Nat

VARIABLES
    log,            \* the confirmed log of the run
    worker,         \* where the worker is, with what it remembers
    calls,          \* effect -> state of the goroutine that carries it out
    orphans,        \* calls of dead workers the world may still act on
    performed,      \* effect and attempt of every act on the world
    coordinated,    \* the worker holds a claim
    attempt,        \* number of the current worker
    registered,     \* effect and attempt of every dispatch registered in the store
    receipts,       \* effects with a receipt in the store
    checkpointed,   \* attempt of the last checkpoint in the store, 0 for none
    faults          \* bound: how many faults happened

memory == <<worker, calls>>
world == <<orphans, performed>>
store == <<registered, receipts, checkpointed>>
stepVars == <<log, memory, world, store, coordinated, attempt, faults>>

NoCalls == [w \in {} |-> "none"]
Down == [pc |-> "down"]

StepInit ==
    /\ log = <<[type |-> "event", kind |-> "run.started"]>>
    /\ worker = Down
    /\ calls = NoCalls
    /\ orphans = {} /\ performed = {}
    /\ coordinated \in Coordinations
    /\ attempt = 0
    /\ registered = {} /\ receipts = {} /\ checkpointed = 0
    /\ faults = 0

-----------------------------------------------------------------------------
(* What the log says.  An effect is the position of the event that decided *)
(* it, its place in the list and its kind.                                 *)

List(seq) ==
    LET fx == Decides[log[seq].kind]
    IN [i \in 1..Len(fx) |-> [source |-> seq, index |-> i, kind |-> fx[i]]]
Works(seq) == {List(seq)[i] : i \in DOMAIN List(seq)}

Records(type) == {i \in DOMAIN log : log[i].type = type}

Prepared(seq) == \E i \in Records("prepared") : log[i].work.source = seq
Started(w) == \E i \in Records("started") : log[i].work = w
Finished_Completed(w) ==
    \E i \in Records("finished") : log[i].work = w /\ log[i].status = "completed"

Finished(w) == \E i \in Records("finished") : log[i].work = w
Complete(seq) == \E i \in Records("completed") : log[i].source = seq

Event(kind) == [type |-> "event", kind |-> kind]
Prepare(w) == [type |-> "prepared", work |-> w]
Start(w) == [type |-> "started", work |-> w]
Finish(w, status) == [type |-> "finished", work |-> w, status |-> status]
CompleteStep(seq) == [type |-> "completed", source |-> seq]

(* Recover: the log is refused if a record appears before the manifest it  *)
(* belongs to, if an effect ended in two ways, or if the completions do    *)
(* not name the domain events one after the other.                         *)
Maximum(S) == IF S = {} THEN 0 ELSE CHOOSE x \in S : \A y \in S : y <= x
NextAfter(seq) ==       \* the first event after seq, if there is one
    {i \in Records("event") : i > seq /\ \A k \in Records("event") : k > seq => i <= k}
CompletedBefore(i) == Maximum({log[k].source : k \in {k \in Records("completed") : k < i}})

Accepted ==
    /\ \A i \in Records("started") \cup Records("finished") :
          \E k \in Records("prepared") : k < i /\ log[k].work = log[i].work
    /\ \A i, k \in Records("finished") :
          log[i].work = log[k].work => log[i].status = log[k].status
    /\ \A i \in Records("completed") : log[i].source \in NextAfter(CompletedBefore(i))

Cursor == CompletedBefore(Len(log) + 1)
Unknown == {log[i].work : i \in {i \in Records("finished") : log[i].status = "unknown"}}

Appended(records) == log' = log \o records

-----------------------------------------------------------------------------
(* The worker.                                                             *)

At(pc) == worker.pc = pc
Becomes(w) == worker' = w
Goes(pc) == worker' = [worker EXCEPT !.pc = pc]

(* A worker that opens the run claims its job, recovers the log and stops  *)
(* if it is refused or holds an unknown outcome; otherwise it continues    *)
(* after the last completed step.                                          *)
Open ==
    /\ At("down") /\ attempt < MaxAttempts
    /\ Becomes(IF ~Accepted THEN [pc |-> "refused"]
               ELSE IF Unknown # {} THEN [pc |-> "unknown"]
               ELSE [pc |-> "read", cursor |-> Cursor])
    /\ attempt' = attempt + 1
    /\ UNCHANGED <<log, calls, world, store, coordinated, faults>>

(* Loop.run: the next event is decided; without one the run is idle.       *)
Read ==
    /\ At("read")
    /\ \/ \E seq \in NextAfter(worker.cursor) : Becomes([pc |-> "prepare", source |-> seq])
       \/ NextAfter(worker.cursor) = {} /\ Becomes([pc |-> "idle", cursor |-> worker.cursor])
    /\ UNCHANGED <<log, calls, world, store, coordinated, attempt, faults>>

(* The whole manifest is one append.                                       *)
PrepareStep ==
    LET works == List(worker.source)
    IN /\ At("prepare")
       /\ Appended(IF Prepared(worker.source) THEN <<>>
                   ELSE [i \in DOMAIN works |-> Prepare(works[i])])
       /\ Becomes([pc |-> "control", source |-> worker.source, left |-> works])
       /\ UNCHANGED <<calls, world, store, coordinated, attempt, faults>>

Current == Head(worker.left)
Onward == worker' = [worker EXCEPT !.left = Tail(@)]
StopsUnknown == Becomes([pc |-> "unknown"])
StopsRecoverably == Becomes(Down)

(* Control effects, in order.  The event of an emit is in the log together *)
(* with its outcome.  A timer that cannot be armed is recorded as failed   *)
(* and ends the pass.                                                      *)
InControl == At("control") /\ worker.left # <<>> /\ Current.kind \in ControlKinds

SkipControl ==
    /\ InControl /\ Finished(Current)
    /\ Onward
    /\ UNCHANGED <<log, calls, world, store, coordinated, attempt, faults>>

RunControl ==
    /\ InControl /\ ~Finished(Current)
    /\ Appended((IF Current.kind = "emit" THEN <<Event("emit")>> ELSE <<>>)
                    \o <<Finish(Current, "completed")>>)
    /\ Onward
    /\ UNCHANGED <<calls, world, store, coordinated, attempt, faults>>

TimerFails ==
    /\ InControl /\ ~Finished(Current) /\ Current.kind = "timer"
    /\ faults < MaxFaults /\ faults' = faults + 1
    /\ Appended(<<Finish(Current, "failed")>>)
    /\ StopsRecoverably
    /\ UNCHANGED <<calls, world, store, coordinated, attempt>>

ControlDone ==
    /\ At("control") /\ ~InControl
    /\ Becomes([pc |-> "classify", source |-> worker.source,
                left |-> worker.left, todo |-> <<>>])
    /\ UNCHANGED <<log, calls, world, store, coordinated, attempt, faults>>

-----------------------------------------------------------------------------
(* Independent effects.  First every effect of the list is judged by its   *)
(* records.                                                                *)

Classifying == At("classify") /\ worker.left # <<>>
Interrupted(w) == Started(w) /\ ~Finished(w)

(* An effect that may be carried out, or carried out again: one that never *)
(* started, a native turn, which continues from its own records, and one   *)
(* that is idempotent under its key.                                       *)
MayRun_Again(w) == ~Started(w) \/ w.kind \in {"tool", "turn", "keyed"}

MayRun(w) == ~Started(w) \/ w.kind \in {"turn", "keyed"}

SkipFinished ==
    /\ Classifying /\ Finished(Current)
    /\ Onward
    /\ UNCHANGED <<log, calls, world, store, coordinated, attempt, faults>>

FinishFromReceipt ==
    /\ Classifying /\ Interrupted(Current) /\ Current.kind # "turn" /\ Current \in receipts
    /\ Appended(<<Event(Current.kind), Finish(Current, "completed")>>)
    /\ Onward
    /\ UNCHANGED <<calls, world, store, coordinated, attempt, faults>>

HasReceipt(w) == w \in receipts /\ Interrupted(w) /\ w.kind # "turn"

WillRun ==
    /\ Classifying /\ ~Finished(Current) /\ ~HasReceipt(Current) /\ MayRun(Current)
    /\ worker' = [worker EXCEPT !.left = Tail(@), !.todo = Append(@, Current)]
    /\ UNCHANGED <<log, calls, world, store, coordinated, attempt, faults>>

FinishUnknown ==
    /\ Classifying /\ ~Finished(Current) /\ ~HasReceipt(Current) /\ ~MayRun(Current)
    /\ Appended(<<Finish(Current, "unknown")>>)
    /\ StopsUnknown
    /\ UNCHANGED <<calls, world, store, coordinated, attempt, faults>>

Classified ==
    /\ At("classify") /\ worker.left = <<>>
    /\ Becomes([pc |-> "launch", source |-> worker.source, left |-> worker.todo,
                todo |-> worker.todo])
    /\ UNCHANGED <<log, calls, world, store, coordinated, attempt, faults>>

(* Then they are launched in order: registered in the store under the      *)
(* claim, recorded as started unless they continue something that was, and *)
(* handed to a goroutine.                                                  *)
Launching == At("launch") /\ worker.left # <<>>
RegisteredBy(w) == {n \in 1..MaxAttempts : <<w, n>> \in registered}

Register ==
    /\ Launching /\ coordinated
    /\ RegisteredBy(Current) = {}
    /\ registered' = registered \cup {<<Current, attempt>>}
    /\ UNCHANGED <<log, memory, world, receipts, checkpointed, coordinated, attempt, faults>>

Continues(w) == w.kind = "resume" \/ (w.kind = "turn" /\ Started(w))

Launch ==
    /\ Launching
    /\ coordinated => attempt \in RegisteredBy(Current)
    /\ Appended(IF Continues(Current) THEN <<>> ELSE <<Start(Current)>>)
    /\ calls' = [w \in DOMAIN calls \cup {Current} |->
                    IF w = Current THEN "running" ELSE calls[w]]
    /\ Onward
    /\ UNCHANGED <<world, store, coordinated, attempt, faults>>

(* A registration or a start record that is refused leaves the rest of the *)
(* list for another worker: a registration belongs to one attempt for ever.*)
Joining(startErr) ==
    Becomes([pc |-> "finish", source |-> worker.source, startErr |-> startErr,
             ambiguous |-> FALSE, left |-> SubSeq(worker.todo, 1, Len(worker.todo) - Len(worker.left))])

LaunchFails ==
    /\ Launching
    /\ \/ /\ coordinated /\ RegisteredBy(Current) \notin {{}, {attempt}}
          /\ UNCHANGED faults
       \/ faults < MaxFaults /\ faults' = faults + 1
    /\ Joining(TRUE)
    /\ UNCHANGED <<log, calls, world, store, coordinated, attempt>>

Launched ==
    /\ At("launch") /\ worker.left = <<>>
    /\ Joining(FALSE)
    /\ UNCHANGED <<log, calls, world, store, coordinated, attempt, faults>>

-----------------------------------------------------------------------------
(* Goroutines.  A call acts on the world and answers, is refused before it *)
(* acted, or is lost: an error or a panic that does not say which.         *)

Acting(w) == w.kind \in {"tool", "keyed"}
InFlight(w) == w \in DOMAIN calls /\ calls[w] \in {"running", "acted"}
Returns(w, how) == calls' = [calls EXCEPT ![w] = how]

Perform(w) ==
    /\ InFlight(w) /\ calls[w] = "running" /\ Acting(w)
    /\ performed' = performed \cup {<<w, attempt>>}
    /\ Returns(w, "acted")
    /\ UNCHANGED <<log, worker, orphans, store, coordinated, attempt, faults>>

(* The adapter may hand a receipt over with the answer; the call is lost   *)
(* when the store refuses it.                                              *)
Answer(w) ==
    /\ InFlight(w) /\ (calls[w] = "acted" \/ ~Acting(w))
    /\ Returns(w, "ok")
    /\ \/ UNCHANGED receipts
       \/ coordinated /\ Acting(w) /\ receipts' = receipts \cup {w}
    /\ UNCHANGED <<log, worker, world, registered, checkpointed, coordinated, attempt, faults>>

Refuse(w) ==
    /\ InFlight(w) /\ calls[w] = "running"
    /\ Returns(w, "refused")
    /\ UNCHANGED <<log, worker, world, store, coordinated, attempt, faults>>

Outstanding(ws) == {<<w, attempt>> : w \in {w \in ws : calls[w] = "running" /\ Acting(w)}}

Lose(w) ==
    /\ InFlight(w)
    /\ Returns(w, "lost")
    /\ orphans' = orphans \cup Outstanding({w})
    /\ UNCHANGED <<log, worker, performed, store, coordinated, attempt, faults>>

OrphanActs(w, n) ==
    /\ <<w, n>> \in orphans
    /\ orphans' = orphans \ {<<w, n>>}
    /\ performed' = performed \cup {<<w, n>>}
    /\ UNCHANGED <<log, memory, store, coordinated, attempt, faults>>

(* wg.Wait, then the outcomes in list order, each with its events.         *)
Returned_Answered == \A w \in DOMAIN calls : calls[w] \in {"ok", "refused"}

Returned == \A w \in DOMAIN calls : calls[w] \in {"ok", "refused", "lost"}

StatusOf_LostFailed(how) == IF how = "ok" THEN "completed" ELSE "failed"

StatusOf(how) ==
    CASE how = "ok" -> "completed" [] how = "refused" -> "failed" [] OTHER -> "unknown"

EventsOf(w, how) ==
    IF how = "ok" THEN <<Event(w.kind)>>
    ELSE IF w.kind = "turn" THEN <<Event("agent.failed")>> ELSE <<>>

FinishCall ==
    /\ At("finish") /\ Returned /\ worker.left # <<>>
    /\ Appended(EventsOf(Current, calls[Current])
                    \o <<Finish(Current, StatusOf(calls[Current]))>>)
    /\ worker' = [worker EXCEPT !.left = Tail(@), !.ambiguous = @ \/ calls[Current] = "lost"]
    /\ UNCHANGED <<calls, world, store, coordinated, attempt, faults>>

EndCalls ==
    /\ At("finish") /\ Returned /\ worker.left = <<>>
    /\ IF worker.ambiguous THEN StopsUnknown
       ELSE IF worker.startErr THEN StopsRecoverably
       ELSE Becomes([pc |-> "complete", source |-> worker.source])
    /\ calls' = NoCalls
    /\ UNCHANGED <<log, world, store, coordinated, attempt, faults>>

-----------------------------------------------------------------------------
(* The end of a step: its completion, and the checkpoint of the claim,     *)
(* which the store refuses to another attempt than the one that wrote the  *)
(* last.                                                                   *)

EndStep ==
    /\ At("complete")
    /\ Appended(<<CompleteStep(worker.source)>>)
    /\ Goes("checkpoint")
    /\ UNCHANGED <<calls, world, store, coordinated, attempt, faults>>

Checkpoint ==
    /\ At("checkpoint")
    /\ LET accepted == coordinated => checkpointed \in {0, attempt}
       IN /\ checkpointed' = IF coordinated /\ accepted THEN attempt ELSE checkpointed
          /\ IF accepted THEN Becomes([pc |-> "read", cursor |-> worker.source])
                         ELSE StopsRecoverably
    /\ UNCHANGED <<log, calls, world, registered, receipts, coordinated, attempt, faults>>

(* The worker dies, or stops because an append failed.                     *)
Crash ==
    /\ worker.pc \notin {"down", "unknown", "refused"} /\ faults < MaxFaults
    /\ Becomes(Down)
    /\ calls' = NoCalls
    /\ orphans' = orphans \cup Outstanding(DOMAIN calls)
    /\ faults' = faults + 1
    /\ UNCHANGED <<log, performed, store, coordinated, attempt>>

-----------------------------------------------------------------------------
WorkerNext ==
    \/ Open \/ Read \/ PrepareStep
    \/ SkipControl \/ RunControl \/ ControlDone
    \/ SkipFinished \/ FinishFromReceipt \/ WillRun \/ FinishUnknown \/ Classified
    \/ Register \/ Launch \/ LaunchFails \/ Launched
    \/ FinishCall \/ EndCalls \/ EndStep \/ Checkpoint

CallNext(w) == Perform(w) \/ Answer(w) \/ Refuse(w) \/ Lose(w)

StepNext ==
    \/ WorkerNext
    \/ \E w \in DOMAIN calls : CallNext(w)
    \/ \E o \in orphans : OrphanActs(o[1], o[2])
    \/ TimerFails
    \/ Crash

StepSpec == StepInit /\ [][StepNext]_stepVars

(* A worker goes on and is opened again, and a call returns.               *)
Fairness ==
    /\ WF_stepVars(WorkerNext)
    /\ WF_stepVars(\E w \in DOMAIN calls : CallNext(w))

FairSpec == StepSpec /\ Fairness
=============================================================================
