-------------------------- MODULE NativeTurnProofs --------------------------
(***************************************************************************)
(* Proofs about NativeTurn, for any calls, policy, answers of the model,   *)
(* presentations of the context, rounds and faults, and about what         *)
(* prepares the presentation a turn freezes (ContextPreparation), for any  *)
(* histories, weights and limits.                                          *)
(***************************************************************************)
EXTENDS NativeTurnProperties, ContextPreparation,
        SequenceTheorems, FiniteSetTheorems, WellFoundedInduction, TLAPS

(* What a worker, a record and an event look like.                         *)
Slots == {Model(r) : r \in Rounds} \cup {Tool(r, c) : r \in Rounds, c \in Calls}
Works == {Turn} \cup [kind : {"resume"}, round : Rounds, call : Calls]
Requests == [context : Presentations \cup {"-"},
             messages : Seq([calls : Seq(Calls)] \cup [results : Seq(Calls)])]
Statuses == {"completed", "failed", "unknown"}
Standings == {"none", "pending", "granted", "denied", "expired", "consumed"}
TurnEvents == [type : {"spawn", "finished", "failed"}, about : {Turn}]
AskEvents ==
    [type : {"requested", "granted", "denied", "expired", "consumed", "tick"}, about : Asks]
Reports == {<<>>} \cup {<<e>> : e \in TurnEvents}

Between == [pc : {"down", "loop", "stopped", "complete"}]
Entering == [pc : {"context", "resume"}, work : Works]
Ending == [pc : {"end"}, work : Works, status : Statuses, events : Reports]
Asking == [pc : {"model"}, work : Works, round : 0 .. MaxRounds, request : Requests]
Modelling == [pc : {"call", "acted"}, work : Works, round : Rounds, request : Requests]
Calling == [pc : {"tools", "call", "acted"}, work : Works, round : Rounds, request : Requests,
            calls : Seq(Calls), index : Nat \ {0}, results : Seq(Calls)]
Workers == Between \cup Entering \cup Ending \cup Asking \cup Modelling \cup Calling

Children == [request : Requests, started : BOOLEAN, ends : SUBSET Statuses, answer : Seq(Calls)]
Suspensions == [round : Rounds, index : Nat \ {0}, calls : Seq(Calls), request : Requests]

(* The shape of the state.                                                 *)
TurnShape ==
    /\ worker \in Workers
    /\ tip \in [Asks -> Standings]
    /\ unread \in Seq(TurnEvents \cup AskEvents)
    /\ DOMAIN children \subseteq Slots /\ children \in [DOMAIN children -> Children]
    /\ DOMAIN suspended \subseteq Calls /\ suspended \in [DOMAIN suspended -> Suspensions]
    /\ acted \in Seq(Slots) /\ elapsed \subseteq Asks
    /\ world \in Presentations /\ context \in Presentations \cup {"none", "failed"}

(* The events that were appended tell the truth: what is granted was       *)
(* requested, and a timer fires behind the expiry.                         *)
EventsOK ==
    \A i \in DOMAIN unread :
        /\ unread[i].type = "granted" => tip[unread[i].about] # "none"
        /\ unread[i].type = "tick" => unread[i].about \in elapsed

(* Where a turn was suspended is on record before anybody is asked, and    *)
(* leads back to the call that was asked about.                            *)
SuspensionsOK ==
    /\ \A c \in DOMAIN suspended :
          suspended[c].index <= Len(suspended[c].calls) /\ suspended[c].calls[suspended[c].index] = c
    /\ \A a \in Asks : tip[a] # "none" =>
          a \in DOMAIN children /\ a.call \in DOMAIN suspended /\ suspended[a.call].round = a.round

(* A child that acted was started, and acted once.  What asks for approval *)
(* has no record of a start or an outcome before its grant was spent.      *)
ActedOK ==
    /\ \A i \in DOMAIN acted : acted[i] \in DOMAIN children /\ children[acted[i]].started
    /\ \A i, k \in DOMAIN acted : acted[i] = acted[k] => i = k
SpentOK ==
    \A a \in Asks \cap DOMAIN children :
        children[a].started \/ children[a].ends # {} => tip[a] = "consumed"

(* The worker: it resumes what was asked about, and a call in flight has   *)
(* its start on record, its grant spent, and did not act before.           *)
WorkerOK ==
    /\ At("resume") => Approved \in Asks /\ tip[Approved] # "none"
    /\ InFlight =>
          /\ ~InModel => worker.index <= Len(worker.calls)
          /\ Slot \in DOMAIN children /\ children[Slot].started
          /\ Slot \in Asks => tip[Slot] = "consumed"
          /\ At("call") => \A i \in DOMAIN acted : acted[i] # Slot

(* A worker that is at work has an event to decide.                        *)
Resting == {"down", "loop", "stopped"}
BusyOK == worker.pc \notin Resting => unread # <<>>

TurnInv == TurnShape /\ EventsOK /\ BusyOK /\ SuspensionsOK /\ ActedOK /\ SpentOK /\ WorkerOK

(* With the barrier whatever holds a presentation holds the committed one, *)
(* and nothing holds one before it is committed.                           *)
InRound == worker.pc \in {"model", "tools", "call", "acted"}

FrozenInv ==
    barrier =>
        /\ InRound => worker.request.context = context /\ context # "none"
        /\ \A c \in DOMAIN suspended : suspended[c].request.context = context /\ context # "none"
        /\ \A s \in DOMAIN children :
              s.kind = "model" => children[s].request.context = context /\ context # "none"
-----------------------------------------------------------------------------
(* Shapes.  The fields a worker has follow from its program counter.       *)

LEMMA WorkerIs ==
    ASSUME worker \in Workers
    PROVE  /\ worker.pc \in {"down", "loop", "stopped", "complete"} => worker \in Between
           /\ worker.pc \in {"context", "resume"} => worker \in Entering
           /\ At("end") => worker \in Ending
           /\ At("model") => worker \in Asking /\ InModel
           /\ At("tools") => worker \in Calling /\ ~InModel
           /\ InFlight /\ InModel => worker \in Modelling
           /\ InFlight /\ ~InModel => worker \in Calling
  BY DEF Workers, Between, Entering, Ending, Asking, Modelling, Calling, At, InFlight, InModel

LEMMA ModelSlots ==
    ASSUME NEW r \in Rounds
    PROVE  Model(r) \in Slots /\ Model(r) \notin Asks /\ Model(r).kind = "model"
<1>1. Model(r).kind = "model"
  BY DEF Model
<1>2. \A a \in Asks : a.kind = "tool"
  BY DEF Asks, Tool
<1> QED
  BY <1>1, <1>2 DEF Slots

LEMMA ToolSlots ==
    ASSUME NEW r \in Rounds, NEW c \in Calls
    PROVE  /\ Tool(r, c) \in Slots /\ Tool(r, c).kind = "tool"
           /\ Tool(r, c).round = r /\ Tool(r, c).call = c
           /\ Tool(r, c) \in Asks <=> Policy[c] = "ask"
<1>1. Tool(r, c).round = r /\ Tool(r, c).call = c /\ Tool(r, c).kind = "tool"
  BY DEF Tool
<1>2. Tool(r, c) \in Slots
  BY DEF Slots
<1>3. ASSUME Tool(r, c) \in Asks PROVE Policy[c] = "ask"
  <2>1. PICK q \in Rounds, d \in {d \in Calls : Policy[d] = "ask"} : Tool(r, c) = Tool(q, d)
    BY <1>3 DEF Asks
  <2>2. c = d
    BY <2>1 DEF Tool
  <2> QED
    BY <2>2
<1>4. ASSUME Policy[c] = "ask" PROVE Tool(r, c) \in Asks
  BY <1>4 DEF Asks
<1> QED
  BY <1>1, <1>2, <1>3, <1>4

LEMMA AsksAreTools ==
    ASSUME NEW a \in Asks
    PROVE  /\ a.round \in Rounds /\ a.call \in Calls /\ Policy[a.call] = "ask"
           /\ a = Tool(a.round, a.call) /\ a \in Slots /\ a # Turn
<1>1. PICK q \in Rounds, d \in {d \in Calls : Policy[d] = "ask"} : a = Tool(q, d)
  BY DEF Asks
<1>2. a.round = q /\ a.call = d /\ a.kind = "tool"
  BY <1>1, ToolSlots
<1>3. Turn.kind = "turn"
  BY DEF Turn
<1> QED
  BY <1>1, <1>2, <1>3, ToolSlots

LEMMA CallsAreKnown ==
    ASSUME worker \in Calling, worker.index <= Len(worker.calls)
    PROVE  worker.calls[worker.index] \in Calls /\ worker.round \in Rounds
  BY DEF Calling

LEMMA SlotIsOne ==
    ASSUME TurnAssumption, TurnShape, WorkerOK,
           ModelDue \/ InTools \/ InFlight
    PROVE  /\ Slot \in Slots
           /\ Slot \in Asks => ~InModel /\ Policy[worker.calls[worker.index]] = "ask"
           /\ InModel => worker.round \in Rounds /\ Slot = Model(worker.round)
           /\ ~InModel => /\ worker \in Calling /\ worker.calls[worker.index] \in Calls
                          /\ worker.round \in Rounds
                          /\ Slot = Tool(worker.round, worker.calls[worker.index])
<1>1. CASE InModel
  <2>1. worker.round \in Rounds
    BY <1>1, WorkerIs DEF TurnShape, ModelDue, InTools, InFlight, At, Asking, Modelling, Rounds, TurnAssumption
  <2> QED
    BY <1>1, <2>1, ModelSlots DEF Slot
<1>2. CASE ~InModel
  <2>1. worker \in Calling /\ worker.index <= Len(worker.calls)
    BY <1>2, WorkerIs DEF TurnShape, ModelDue, InTools, InFlight, At, WorkerOK
  <2>2. worker.calls[worker.index] \in Calls /\ worker.round \in Rounds
    BY <2>1, CallsAreKnown
  <2> QED
    BY <1>2, <2>1, <2>2, ToolSlots DEF Slot
<1> QED
  BY <1>1, <1>2

LEMMA EndsIsEnding ==
    ASSUME NEW work \in Works, NEW status \in Statuses, NEW events \in Reports,
           Ends(work, status, events)
    PROVE  worker' \in Ending /\ worker'.pc = "end"
  BY DEF Ends, Becomes, Ending

LEMMA FailsIsEnding ==
    ASSUME NEW work \in Works, NEW status \in Statuses, Fails(work, status)
    PROVE  worker' \in Ending /\ worker'.pc = "end"
<1>1. <<Event("failed", Turn)>> \in Reports /\ <<>> \in Reports
  BY DEF Reports, TurnEvents, Event
<1> QED
  BY <1>1, EndsIsEnding DEF Fails

LEMMA FinishesIsEnding ==
    ASSUME NEW work \in Works, Finishes(work)
    PROVE  worker' \in Ending /\ worker'.pc = "end"
<1>1. <<Event("finished", Turn)>> \in Reports
  BY DEF Reports, TurnEvents, Event
<1> QED
  BY <1>1, EndsIsEnding DEF Finishes, Statuses

(* A worker that ends its work is at rest for every invariant.             *)
LEMMA EndingIsQuiet ==
    ASSUME worker' \in Ending, worker'.pc = "end"
    PROVE  worker' \in Workers /\ WorkerOK' /\ ~InRound'
  BY DEF Workers, WorkerOK, At, InFlight, InRound

-----------------------------------------------------------------------------
(* The authorizations.                                                     *)

Grows ==
    /\ tip' \in [Asks -> Standings]
    /\ \A a \in Asks : tip[a] # "none" => tip'[a] # "none"
    /\ \A a \in Asks : tip[a] = "consumed" => tip'[a] = "consumed"

LEMMA FoldedGrows ==
    ASSUME tip \in [Asks -> Standings], NEW e \in TurnEvents \cup AskEvents, tip' = Folded(tip, e)
    PROVE  Grows
<1>1. CASE e.about \in Asks /\ Matches(e.type, tip[e.about])
  <2>1. tip' = [tip EXCEPT ![e.about] = Standing(e.type)]
    BY <1>1 DEF Folded
  <2>2. /\ Standing(e.type) \in Standings \ {"none"}
        /\ tip[e.about] # "consumed"
    BY <1>1 DEF Standing, Standings, Matches, Live, AskEvents, TurnEvents
  <2> QED
    BY <2>1, <2>2 DEF Grows, Standings
<1>2. CASE ~(e.about \in Asks /\ Matches(e.type, tip[e.about]))
  BY <1>2 DEF Folded, Grows
<1> QED
  BY <1>1, <1>2

LEMMA AppendedGrows ==
    ASSUME tip \in [Asks -> Standings], NEW events \in Seq(TurnEvents \cup AskEvents),
           Len(events) <= 1, Appended(events)
    PROVE  Grows
<1>1. CASE events = <<>>
  BY <1>1 DEF Appended, Grows
<1>2. CASE events # <<>>
  <2>1. events[1] \in TurnEvents \cup AskEvents /\ tip' = Folded(tip, events[1])
    BY <1>2 DEF Appended
  <2> QED
    BY <2>1, FoldedGrows
<1> QED
  BY <1>1, <1>2

(* What was said of the events stays true when standings grow.             *)
LEMMA EventsKept ==
    ASSUME TurnShape, EventsOK, Grows, elapsed \subseteq elapsed', unread' = unread
    PROVE  EventsOK'
<1> SUFFICES ASSUME NEW i \in DOMAIN unread
             PROVE  /\ unread[i].type = "granted" => tip'[unread[i].about] # "none"
                    /\ unread[i].type = "tick" => unread[i].about \in elapsed'
  BY DEF EventsOK
<1>1. unread[i] \in TurnEvents \cup AskEvents
  BY DEF TurnShape
<1> QED
  BY <1>1 DEF EventsOK, Grows, TurnEvents, AskEvents
-----------------------------------------------------------------------------
(* The worker between two steps.                                           *)

(* What changes only the worker and what it leaves to be read.             *)
Records3 == <<tip, children, suspended, acted>>

LEMMA RecordsKept ==
    ASSUME TurnInv, UNCHANGED Records3
    PROVE  SuspensionsOK' /\ ActedOK' /\ SpentOK'
  BY DEF TurnInv, Records3, SuspensionsOK, ActedOK, SpentOK

LEMMA WorkerMoves ==
    ASSUME TurnInv, UNCHANGED Records3, UNCHANGED <<unread, elapsed, world>>,
           context' \in Presentations \cup {"none", "failed"},
           worker' \in Workers, WorkerOK', worker.pc \in Resting => worker'.pc \in Resting
    PROVE  TurnInv'
<1>1. TurnShape'
  BY DEF TurnInv, TurnShape, Records3
<1>2. EventsOK' /\ BusyOK'
  BY DEF TurnInv, EventsOK, Records3, BusyOK
<1> QED
  BY <1>1, <1>2, RecordsKept DEF TurnInv

LEMMA EndsQuietly ==
    ASSUME TurnInv, UNCHANGED Records3, UNCHANGED <<unread, elapsed, world>>,
           context' \in Presentations \cup {"none", "failed"},
           worker.pc \notin Resting, worker' \in Ending, worker'.pc = "end"
    PROVE  TurnInv'
  BY EndingIsQuiet, WorkerMoves

LEMMA Opens == ASSUME TurnInv, Open PROVE TurnInv'
<1>1. worker' \in Between /\ worker'.pc \in {"loop", "stopped"}
  BY DEF Open, Becomes, Loop, Stopped, Between
<1>2. worker' \in Workers /\ WorkerOK'
  BY <1>1 DEF Workers, WorkerOK, At, InFlight
<1> QED
  BY <1>1, <1>2, WorkerMoves DEF Open, records, outside, Records3, TurnInv, TurnShape, Resting

LEMMA Crashes == ASSUME TurnInv, Crash PROVE TurnInv'
<1>1. worker' \in Between /\ worker'.pc = "down"
  BY DEF Crash, Becomes, Down, Between
<1>2. worker' \in Workers /\ WorkerOK'
  BY <1>1 DEF Workers, WorkerOK, At, InFlight
<1> QED
  BY <1>1, <1>2, WorkerMoves DEF Crash, records, outside, Records3, TurnInv, TurnShape, Resting

LEMMA TailIs ==
    ASSUME TurnInv, unread # <<>>
    PROVE  /\ Current \in TurnEvents \cup AskEvents /\ Current = unread[1] /\ 1 \in DOMAIN unread
           /\ Tail(unread) \in Seq(TurnEvents \cup AskEvents)
           /\ \A i \in DOMAIN Tail(unread) : i + 1 \in DOMAIN unread /\ Tail(unread)[i] = unread[i + 1]
<1>1. unread \in Seq(TurnEvents \cup AskEvents) /\ unread # <<>>
  BY DEF TurnInv, TurnShape
<1>2. Head(unread) \in TurnEvents \cup AskEvents /\ Tail(unread) \in Seq(TurnEvents \cup AskEvents)
  BY <1>1, HeadTailProperties
<1> QED
  BY <1>1, <1>2 DEF Current

(* A worker that takes up the event before it has one.                     *)
LEMMA WorkerStarts ==
    ASSUME TurnInv, UNCHANGED Records3, UNCHANGED <<unread, elapsed, world, context>>,
           worker' \in Workers, WorkerOK', unread # <<>>
    PROVE  TurnInv'
<1>1. TurnShape'
  BY DEF TurnInv, TurnShape, Records3
<1>2. EventsOK' /\ BusyOK'
  BY DEF TurnInv, EventsOK, Records3, BusyOK
<1> QED
  BY <1>1, <1>2, RecordsKept DEF TurnInv

LEMMA WorkBegins == ASSUME TurnInv, DecideWork PROVE TurnInv'
<1> DEFINE w == WorkOf(Current)
<1>1. Current \in TurnEvents \cup AskEvents /\ 1 \in DOMAIN unread /\ Current = unread[1]
  BY TailIs DEF DecideWork, Deciding
<1>2. CASE Current.type = "spawn"
  <2>1. w = Turn
    BY <1>2 DEF WorkOf
  <2>2. worker' \in Between \/ (worker' \in Entering /\ worker'.pc = "context")
    BY <2>1 DEF DecideWork, Becomes, Between, Entering, Works
  <2>3. worker' \in Workers /\ WorkerOK'
    BY <2>2 DEF Workers, WorkerOK, At, InFlight, Between
  <2> QED
    BY <2>3, WorkerStarts DEF DecideWork, Deciding, outside, Records3
<1>3. CASE Current.type # "spawn"
  <2>1. Current.type = "granted" /\ Current \in AskEvents
    BY <1>1, <1>3 DEF DecideWork, CommissionsWork, TurnEvents, AskEvents
  <2>2. PICK a \in Asks : a = Current.about /\ tip[a] # "none"
    BY <1>1, <2>1 DEF AskEvents, TurnInv, EventsOK
  <2>3. a.round \in Rounds /\ a.call \in Calls /\ a = Tool(a.round, a.call)
    BY AsksAreTools
  <2>4. w = [kind |-> "resume", round |-> a.round, call |-> a.call]
    BY <1>3, <2>2, <2>3 DEF WorkOf, Tool
  <2>5. w \in Works /\ w # Turn /\ w.round = a.round /\ w.call = a.call
    BY <2>3, <2>4 DEF Works, Turn
  <2>6. worker' = [pc |-> "complete"] \/ worker' = [pc |-> "resume", work |-> w]
    BY <2>5 DEF DecideWork, Becomes
  <2>7. worker' \in Workers
    BY <2>5, <2>6 DEF Workers, Between, Entering
  <2>8. tip' = tip
    BY DEF DecideWork
  <2>9. WorkerOK'
    BY <2>2, <2>3, <2>5, <2>6, <2>8 DEF WorkerOK, At, InFlight, Approved
  <2> QED
    BY <2>7, <2>9, WorkerStarts DEF DecideWork, Deciding, outside, Records3
<1> QED
  BY <1>2, <1>3

LEMMA StepCompletes == ASSUME TurnInv, CompleteStep PROVE TurnInv'
<1>1. worker' \in Between /\ worker'.pc = "loop"
  BY DEF CompleteStep, Becomes, Loop, Between
<1>2. worker' \in Workers /\ WorkerOK' /\ BusyOK'
  BY <1>1 DEF Workers, WorkerOK, BusyOK, Resting, At, InFlight
<1>3. unread # <<>>
  BY DEF TurnInv, BusyOK, Resting, CompleteStep, At
<1>4. UNCHANGED Records3 /\ unread' = Tail(unread) /\ UNCHANGED <<elapsed, world, context>>
  BY DEF CompleteStep, records, outside, Records3
<1>5. TurnShape'
  BY <1>2, <1>3, <1>4, TailIs DEF TurnInv, TurnShape, Records3
<1>6. EventsOK'
  BY <1>3, <1>4, TailIs DEF TurnInv, EventsOK, Records3
<1> QED
  BY <1>2, <1>4, <1>5, <1>6, RecordsKept DEF TurnInv
-----------------------------------------------------------------------------
(* The context of a turn, and what a worker does between two calls.        *)

LEMMA EnteringIs ==
    ASSUME TurnShape, At("context") \/ At("resume") \/ At("model") \/ At("tools") \/ InFlight
    PROVE  worker.work \in Works
  BY WorkerIs DEF TurnShape, At, InFlight, Entering, Asking, Calling, Modelling

LEMMA FirstRoundIs ==
    ASSUME TurnAssumption, NEW p \in Presentations, NEW work \in Works
    PROVE  /\ Round(work, 0, [context |-> p, messages |-> <<>>]) \in Asking
           /\ Round(work, 0, [context |-> p, messages |-> <<>>]).pc = "model"
           /\ Round(work, 0, [context |-> p, messages |-> <<>>]).request.context = p
<1>1. [context |-> p, messages |-> <<>>] \in Requests
  BY DEF Requests
<1> QED
  BY <1>1 DEF Round, Asking, TurnAssumption

LEMMA AskingIsQuiet ==
    ASSUME worker' \in Asking
    PROVE  worker' \in Workers /\ WorkerOK' /\ worker'.pc = "model"
  BY DEF Workers, Asking, WorkerOK, At, InFlight

LEMMA PreparesTurn ==
    ASSUME TurnAssumption, TurnInv,
           ReuseContext \/ PrepareContext \/ PreparationFails \/ RouteChanged
    PROVE  TurnInv'
<1>1. /\ UNCHANGED Records3 /\ UNCHANGED <<unread, elapsed, world>> /\ At("context")
      /\ context' \in Presentations \cup {"none", "failed"}
  BY DEF ReuseContext, PrepareContext, PreparationFails, RouteChanged, records, outside, Records3,
         TurnInv, TurnShape
<1>2. worker.pc \notin Resting
  BY <1>1 DEF At, Resting
<1>3. worker.work \in Works
  BY <1>1, EnteringIs DEF TurnInv
<1>4. Turn \in Works /\ "failed" \in Statuses
  BY DEF Works, Statuses
<1>5. CASE PreparationFails \/ RouteChanged \/ (ReuseContext /\ context = "failed")
  <2>1. Fails(Turn, "failed")
    BY <1>5 DEF PreparationFails, RouteChanged, ReuseContext
  <2> QED
    BY <1>1, <1>2, <1>4, <2>1, FailsIsEnding, EndsQuietly
<1>6. CASE PrepareContext \/ (ReuseContext /\ context # "failed")
  <2>1. PICK p \in Presentations : Becomes(FirstRound(p))
    BY <1>6 DEF PrepareContext, ReuseContext, Reusable, TurnInv, TurnShape
  <2>2. worker' \in Asking
    BY <1>3, <2>1, FirstRoundIs DEF Becomes, FirstRound
  <2> QED
    BY <1>1, <1>2, <2>2, AskingIsQuiet, WorkerMoves
<1> QED
  BY <1>5, <1>6

LEMMA UnchangedIs ==
    ASSUME TurnInv, Unchanged, UNCHANGED children
    PROVE  /\ UNCHANGED Records3 /\ UNCHANGED <<unread, elapsed, world>>
           /\ context' \in Presentations \cup {"none", "failed"}
  BY DEF Unchanged, Records3, outside, TurnInv, TurnShape

LEMMA StopsQuietly ==
    ASSUME TurnAssumption, TurnInv, Unchanged, UNCHANGED children, NEW status \in Statuses,
           At("resume") \/ At("model") \/ At("tools") \/ InFlight,
           \/ Fails(worker.work, status)
           \/ Finishes(worker.work)
           \/ Ends(worker.work, status, <<>>)
    PROVE  TurnInv'
<1>1. worker.work \in Works /\ worker.pc \notin Resting
  BY EnteringIs DEF TurnInv, Resting, At, InFlight
<1>2. <<>> \in Reports
  BY DEF Reports
<1>3. worker' \in Ending /\ worker'.pc = "end"
  BY <1>1, <1>2, FailsIsEnding, FinishesIsEnding, EndsIsEnding
<1> QED
  BY <1>1, <1>3, UnchangedIs, EndsQuietly

LEMMA Stops ==
    ASSUME TurnAssumption, TurnInv,
           \/ ModelChanged \/ StopAtModel \/ TooManyRounds \/ StopAtTool \/ GrantIsGone
           \/ AlreadySuspended
    PROVE  TurnInv'
<1>1. Unchanged /\ UNCHANGED children
  BY DEF ModelChanged, StopAtModel, TooManyRounds, StopAtTool, GrantIsGone, AlreadySuspended
<1>2. At("resume") \/ At("model") \/ At("tools")
  BY DEF ModelChanged, StopAtModel, TooManyRounds, StopAtTool, GrantIsGone, AlreadySuspended,
         ModelDue, Policed, InTools, Suspending, Resuming
<1>3. \E status \in Statuses :
         Fails(worker.work, status) \/ Ends(worker.work, status, <<>>)
  BY DEF ModelChanged, StopAtModel, TooManyRounds, StopAtTool, GrantIsGone, AlreadySuspended,
         StopsAt, Statuses
<1> QED
  BY <1>1, <1>2, <1>3, StopsQuietly

(* A round that goes on: the calls of the model's answer, or the next call. *)
LEMMA AnsweredRound ==
    ASSUME TurnAssumption, worker \in Asking \cup Modelling, worker.round \in Rounds,
           NEW calls \in Seq(Calls), calls # <<>>, Answers(calls)
    PROVE  /\ worker' \in Calling /\ worker'.pc = "tools"
           /\ worker'.request.context = worker.request.context
<1> DEFINE q == [worker.request EXCEPT !.messages = Append(@, [calls |-> calls])]
<1>1. worker.request \in Requests /\ worker.work \in Works
  BY DEF Asking, Modelling
<1>2. [calls |-> calls] \in [calls : Seq(Calls)] \cup [results : Seq(Calls)]
  OBVIOUS
<1>3. Append(worker.request.messages, [calls |-> calls])
          \in Seq([calls : Seq(Calls)] \cup [results : Seq(Calls)])
  BY <1>1, <1>2, AppendProperties DEF Requests
<1>4. q \in Requests /\ q.context = worker.request.context
  BY <1>1, <1>3 DEF Requests
<1>5. worker' = [pc |-> "tools", work |-> worker.work, round |-> worker.round, request |-> q,
                 calls |-> calls, index |-> 1, results |-> <<>>]
  BY DEF Answers, Becomes
<1> HIDE DEF q
<1> QED
  BY <1>1, <1>4, <1>5 DEF Calling

LEMMA NextCall ==
    ASSUME NEW w \in Calling, w.index <= Len(w.calls)
    PROVE  /\ Took(w) \in Calling /\ Took(w).pc = w.pc
           /\ Took(w).request = w.request
           /\ [Took(w) EXCEPT !.pc = "tools"] \in Calling
           /\ [Took(w) EXCEPT !.pc = "tools"].pc = "tools"
           /\ [Took(w) EXCEPT !.pc = "tools"].request = w.request
<1>1. w.calls[w.index] \in Calls /\ w.results \in Seq(Calls) /\ w.index + 1 \in Nat \ {0}
  BY DEF Calling
<1>2. Append(w.results, w.calls[w.index]) \in Seq(Calls)
  BY <1>1, AppendProperties
<1> QED
  BY <1>1, <1>2 DEF Took, Calling

LEMMA CallingIsQuiet ==
    ASSUME worker' \in Calling, worker'.pc = "tools"
    PROVE  worker' \in Workers /\ WorkerOK'
  BY DEF Workers, WorkerOK, At, InFlight

LEMMA GoesOn ==
    ASSUME TurnInv, Unchanged, UNCHANGED children, worker.pc \notin Resting,
           worker' \in Asking \/ (worker' \in Calling /\ worker'.pc = "tools")
    PROVE  TurnInv'
  BY UnchangedIs, WorkerMoves, AskingIsQuiet, CallingIsQuiet

LEMMA ModelReused == ASSUME TurnAssumption, TurnInv, ReuseModel PROVE TurnInv'
<1>1. worker \in Asking /\ InModel /\ worker.round \in Rounds
  BY WorkerIs, SlotIsOne DEF ReuseModel, ModelDue, TurnInv, TurnShape
<1>2. children[Slot].answer \in Seq(Calls)
  BY DEF ReuseModel, Completed, TurnInv, TurnShape, Children
<1>3. CASE children[Slot].answer = <<>>
  BY <1>3, StopsQuietly DEF ReuseModel, Answers, ModelDue, Statuses
<1>4. CASE children[Slot].answer # <<>>
  <2>1. Answers(children[Slot].answer) /\ worker.pc \notin Resting
    BY DEF ReuseModel, ModelDue, At, Resting
  <2>2. worker' \in Calling /\ worker'.pc = "tools"
    BY <1>1, <1>2, <1>4, <2>1, AnsweredRound
  <2> QED
    BY <2>1, <2>2, GoesOn DEF ReuseModel
<1> QED
  BY <1>3, <1>4

LEMMA ToolReused == ASSUME TurnAssumption, TurnInv, ReuseTool PROVE TurnInv'
<1>1. worker \in Calling /\ At("tools") /\ worker.index <= Len(worker.calls)
  BY WorkerIs DEF ReuseTool, Policed, InTools, TurnInv, TurnShape
<1> QED
  BY <1>1, NextCall, GoesOn DEF ReuseTool, At, Resting, Becomes

LEMMA NextRoundBegins == ASSUME TurnAssumption, TurnInv, NextRound PROVE TurnInv'
<1> DEFINE q == [worker.request EXCEPT !.messages = Append(@, [results |-> worker.results])]
<1>1. worker \in Calling /\ worker.pc \notin Resting
  BY WorkerIs DEF NextRound, TurnInv, TurnShape, At, Resting
<1>2. worker.request \in Requests /\ worker.results \in Seq(Calls) /\ worker.work \in Works
      /\ worker.round + 1 \in 0 .. MaxRounds
  BY <1>1 DEF Calling, Rounds, TurnAssumption
<1>3. [results |-> worker.results] \in [calls : Seq(Calls)] \cup [results : Seq(Calls)]
  BY <1>2
<1>4. Append(worker.request.messages, [results |-> worker.results])
          \in Seq([calls : Seq(Calls)] \cup [results : Seq(Calls)])
  BY <1>2, <1>3, AppendProperties DEF Requests
<1>5. q \in Requests
  BY <1>2, <1>4 DEF Requests
<1>6. worker' \in Asking
  BY <1>2, <1>5 DEF NextRound, Becomes, Round, Asking
<1> QED
  BY <1>1, <1>6, GoesOn DEF NextRound

(* A resumption takes the turn up where it was suspended.                  *)
LEMMA ResumedIs ==
    ASSUME TurnInv, Resuming
    PROVE  /\ Approved \in Asks /\ Approved \in DOMAIN children
           /\ Approved.call \in DOMAIN suspended /\ Suspended \in Suspensions
           /\ Resumed \in Calling /\ Resumed.pc = "tools" /\ Resumed.request = Suspended.request
           /\ Resumed.index <= Len(Resumed.calls)
           /\ Resumed.round = Approved.round /\ Resumed.calls[Resumed.index] = Approved.call
<1>1. worker.work \in Works /\ Approved \in Asks /\ tip[Approved] # "none"
  BY EnteringIs DEF TurnInv, Resuming, WorkerOK
<1>2. /\ Approved \in DOMAIN children /\ Approved.call \in DOMAIN suspended
      /\ suspended[Approved.call].round = Approved.round
  BY <1>1 DEF TurnInv, SuspensionsOK
<1> DEFINE s == suspended[Approved.call]
<1>3. s \in Suspensions /\ s.index <= Len(s.calls) /\ s.calls[s.index] = Approved.call
  BY <1>2 DEF TurnInv, SuspensionsOK, TurnShape
<1>4. Suspended = s
  BY DEF Suspended
<1>5. Resumed = [pc |-> "tools", work |-> worker.work, round |-> s.round, request |-> s.request,
                 calls |-> s.calls, index |-> s.index, results |-> <<>>]
  BY <1>4 DEF Resumed
<1>6. Resumed \in Calling
  BY <1>1, <1>3, <1>5 DEF Calling, Suspensions
<1> QED
  BY <1>1, <1>2, <1>3, <1>4, <1>5, <1>6
LEMMA ResumptionReused == ASSUME TurnInv, ResumeCompleted PROVE TurnInv'
<1>1. Resumed \in Calling /\ Resumed.index <= Len(Resumed.calls) /\ Resumed.pc = "tools"
  BY ResumedIs DEF ResumeCompleted
<1> QED
  BY <1>1, NextCall, GoesOn DEF ResumeCompleted, Resuming, At, Resting, Becomes
-----------------------------------------------------------------------------
(* The records of the children.  A child that is started goes into flight  *)
(* only if it did not act, and what it answers is recorded once.           *)

(* What no step does to the records: remove one, or take back a start.     *)
ChildrenGrow ==
    /\ DOMAIN children \subseteq DOMAIN children' /\ DOMAIN children' \subseteq Slots
    /\ children' \in [DOMAIN children' -> Children]
    /\ \A s \in DOMAIN children : children[s].started => children'[s].started

LEMMA ChildrenMove ==
    ASSUME TurnInv, ChildrenGrow, UNCHANGED <<tip, suspended, acted, unread, elapsed, world>>,
           context' \in Presentations \cup {"none", "failed"},
           SpentOK', worker' \in Workers, WorkerOK', worker.pc \notin Resting
    PROVE  TurnInv'
<1>1. TurnShape'
  BY DEF TurnInv, TurnShape, ChildrenGrow
<1>2. EventsOK' /\ BusyOK'
  BY DEF TurnInv, EventsOK, BusyOK
<1>3. SuspensionsOK'
  BY DEF TurnInv, SuspensionsOK, ChildrenGrow
<1>4. ActedOK'
  BY DEF TurnInv, ActedOK, ChildrenGrow
<1> QED
  BY <1>1, <1>2, <1>3, <1>4 DEF TurnInv

LEMMA Prepares2 ==
    ASSUME TurnInv, NEW s \in Slots, NEW request \in Requests, Prepares(s, request),
           At("model") \/ At("tools")
    PROVE  TurnInv'
<1>1. Child(request) \in Children /\ ~Child(request).started /\ Child(request).ends = {}
  BY DEF Child, Children
<1>2. /\ DOMAIN children' = DOMAIN children \cup {s}
      /\ \A x \in DOMAIN children : children'[x] = children[x]
      /\ children'[s] = Child(request)
      /\ children' = [x \in DOMAIN children' |-> children'[x]]
  BY DEF Prepares
<1>3. \A x \in DOMAIN children : children[x] \in Children
  BY DEF TurnInv, TurnShape
<1>4. \A x \in DOMAIN children' : children'[x] \in Children
  BY <1>1, <1>2, <1>3
<1>5. children' \in [DOMAIN children' -> Children]
  BY <1>2, <1>4
<1>6. ChildrenGrow
  BY <1>2, <1>5 DEF ChildrenGrow, TurnInv, TurnShape
<1>7. UNCHANGED <<tip, suspended, acted, unread, elapsed, world, context, worker>>
  BY DEF Prepares, outside
<1>8. SpentOK'
  BY <1>1, <1>2, <1>7 DEF SpentOK, TurnInv
<1>9. worker' \in Workers /\ WorkerOK' /\ worker.pc \notin Resting
  BY <1>7 DEF WorkerOK, At, InFlight, TurnInv, TurnShape, Resting
<1>10. context' \in Presentations \cup {"none", "failed"}
  BY <1>7 DEF TurnInv, TurnShape
<1> QED
  BY <1>6, <1>7, <1>8, <1>9, <1>10, ChildrenMove

LEMMA ChildPrepared == ASSUME TurnAssumption, TurnInv, PrepareModel \/ PrepareTool PROVE TurnInv'
<1>1. Slot \in Slots
  BY SlotIsOne DEF PrepareModel, PrepareTool, TurnInv
<1>2. CASE PrepareModel
  <2>1. worker \in Asking
    BY <1>2, WorkerIs DEF PrepareModel, ModelDue, TurnInv, TurnShape
  <2>2. worker.request \in Requests
    BY <2>1 DEF Asking
  <2> QED
    BY <1>1, <1>2, <2>2, Prepares2 DEF PrepareModel, ModelDue
<1>3. CASE PrepareTool
  <2>1. ToolRequest \in Requests
    BY DEF ToolRequest, Requests
  <2> QED
    BY <1>1, <1>3, <2>1, Prepares2 DEF PrepareTool, InTools
<1> QED
  BY <1>2, <1>3

(* One record is changed.                                                  *)
LEMMA RecordChanges ==
    ASSUME TurnInv, NEW s, NEW c,
           s \in DOMAIN children => c \in Children /\ (children[s].started => c.started),
           children' = [children EXCEPT ![s] = c]
    PROVE  ChildrenGrow /\ DOMAIN children' = DOMAIN children
  BY DEF ChildrenGrow, TurnInv, TurnShape

LEMMA ChildStarted == ASSUME TurnAssumption, TurnInv, StartModel \/ StartTool PROVE TurnInv'
<1> DEFINE s == Slot
<1>1. At("model") \/ At("tools")
  BY DEF StartModel, StartTool, ModelDue, Policed, InTools
<1>0. \/ ModelDue /\ InModel /\ worker \in Asking /\ worker.round \in Rounds
      \/ /\ InTools /\ ~InModel /\ worker \in Calling /\ Policy[worker.calls[worker.index]] = "allow"
         /\ worker.index <= Len(worker.calls)
  <2>1. CASE StartModel
    BY <2>1, WorkerIs, SlotIsOne DEF StartModel, ModelDue, TurnInv, TurnShape
  <2>2. CASE StartTool
    BY <2>2, WorkerIs DEF StartTool, Policed, InTools, TurnInv, TurnShape
  <2> QED
    BY <2>1, <2>2
<1>2. s \in Slots /\ s \notin Asks
  BY <1>0, SlotIsOne DEF TurnInv
<1>3. s \in DOMAIN children /\ ~children[s].started
  BY DEF StartModel, StartTool, Starts, Prepared, Interrupted
<1>4. children[s] \in Children
  BY <1>3 DEF TurnInv, TurnShape
<1>5. PICK c : c = [children[s] EXCEPT !.started = TRUE]
  OBVIOUS
<1>6. c \in Children /\ c.started
  BY <1>4, <1>5 DEF Children
<1>7. children' = [children EXCEPT ![s] = c]
  BY <1>5 DEF StartModel, StartTool, Starts
<1>8. ChildrenGrow /\ DOMAIN children' = DOMAIN children
  BY <1>6, <1>7, RecordChanges
<1>9. UNCHANGED <<tip, suspended, acted, unread, elapsed, world, context>>
  BY DEF StartModel, StartTool, Unchanged, outside
<1>10. SpentOK'
  BY <1>2, <1>7, <1>8, <1>9 DEF SpentOK, TurnInv
<1>11. worker \in Asking \cup Calling /\ (worker \in Asking => InModel /\ worker.round \in Rounds)
       /\ (worker \notin Asking => ~InModel /\ worker \in Calling /\ worker.index <= Len(worker.calls))
  BY <1>0 DEF InModel, Asking, Calling
<1>12. worker' = [worker EXCEPT !.pc = "call"]
  BY DEF StartModel, StartTool, Starts
<1>13. /\ worker' \in Modelling \cup Calling /\ worker'.pc = "call" /\ worker'.round = worker.round
       /\ DOMAIN worker' = DOMAIN worker
       /\ ~InModel => worker'.calls = worker.calls /\ worker'.index = worker.index
  BY <1>11, <1>12 DEF Asking, Modelling, Calling, InModel
<1>14. Slot' = Slot /\ InModel' = InModel
  BY <1>13 DEF Slot, InModel
<1>15. \A i \in DOMAIN acted : acted[i] # s
  BY <1>3 DEF TurnInv, ActedOK
<1>16. WorkerOK'
  BY <1>2, <1>3, <1>6, <1>7, <1>8, <1>9, <1>11, <1>13, <1>14, <1>15 DEF WorkerOK, At, InFlight
<1> QED
  BY <1>1, <1>8, <1>9, <1>10, <1>13, <1>16, ChildrenMove DEF Workers, Resting, At, TurnInv, TurnShape
(* An outcome is recorded of a child whose grant, if any, was spent.       *)
LEMMA OutcomeRecorded ==
    ASSUME TurnAssumption, TurnInv, NEW s \in DOMAIN children, s \in Asks => tip[s] = "consumed",
           NEW c \in Children, children[s].started => c.started,
           children' = [children EXCEPT ![s] = c],
           UNCHANGED <<tip, suspended, acted, unread, elapsed, world, context>>,
           worker.pc \notin Resting, worker' \in Workers, WorkerOK'
    PROVE  TurnInv'
<1>1. ChildrenGrow /\ DOMAIN children' = DOMAIN children
  BY RecordChanges
<1>2. SpentOK'
  BY <1>1 DEF SpentOK, TurnInv
<1>3. context' \in Presentations \cup {"none", "failed"}
  BY DEF TurnInv, TurnShape
<1> QED
  BY <1>1, <1>2, <1>3, ChildrenMove

LEMMA ToolDenied == ASSUME TurnAssumption, TurnInv, DenyTool PROVE TurnInv'
<1>1. Slot \in DOMAIN children /\ At("tools") /\ Slot \notin Asks
  BY SlotIsOne DEF DenyTool, Policed, InTools, TurnInv
<1>2. PICK c : c = [children[Slot] EXCEPT !.ends = @ \cup {"completed"}]
  OBVIOUS
<1>3. children[Slot] \in Children
  BY <1>1 DEF TurnInv, TurnShape
<1>4. c \in Children /\ c.started = children[Slot].started
  BY <1>2, <1>3 DEF Children, Statuses
<1>5. children' = [children EXCEPT ![Slot] = c]
  BY <1>2 DEF DenyTool
<1>6. worker.work \in Works /\ worker.pc \notin Resting
  BY <1>1, EnteringIs DEF TurnInv, At, Resting
<1>7. worker' \in Workers /\ WorkerOK'
  BY <1>6, FinishesIsEnding, EndingIsQuiet DEF DenyTool
<1>8. UNCHANGED <<tip, suspended, acted, unread, elapsed, world, context>>
  BY DEF DenyTool, Unchanged, outside
<1> QED
  BY <1>1, <1>4, <1>5, <1>6, <1>7, <1>8, OutcomeRecorded

LEMMA ResumptionStops == ASSUME TurnAssumption, TurnInv, ResumeInterrupted PROVE TurnInv'
<1>1. /\ Approved \in DOMAIN children /\ At("resume") /\ Approved \in Asks
      /\ children[Approved].started
  BY ResumedIs DEF ResumeInterrupted, Resuming, Interrupted
<1>2. PICK c : c = [children[Approved] EXCEPT !.ends = @ \cup {"unknown"}]
  OBVIOUS
<1>3. children[Approved] \in Children
  BY <1>1 DEF TurnInv, TurnShape
<1>4. c \in Children /\ c.started = children[Approved].started
  BY <1>2, <1>3 DEF Children, Statuses
<1>5. children' = [children EXCEPT ![Approved] = c]
  BY <1>2 DEF ResumeInterrupted
<1>6. worker.work \in Works /\ worker.pc \notin Resting /\ "unknown" \in Statuses
  BY <1>1, EnteringIs DEF TurnInv, At, Resting, Statuses
<1>7. worker' \in Workers /\ WorkerOK'
  BY <1>6, FailsIsEnding, EndingIsQuiet DEF ResumeInterrupted
<1>8. UNCHANGED <<tip, suspended, acted, unread, elapsed, world, context>>
  BY DEF ResumeInterrupted, Unchanged, outside
<1>9. tip[Approved] = "consumed"
  BY <1>1 DEF SpentOK, TurnInv
<1> QED
  BY <1>1, <1>4, <1>5, <1>6, <1>7, <1>8, <1>9, OutcomeRecorded

(* The end of a call in flight.                                            *)
LEMMA InFlightIs ==
    ASSUME TurnAssumption, TurnInv, InFlight
    PROVE  /\ Slot \in DOMAIN children /\ (Slot \in Asks => tip[Slot] = "consumed")
           /\ children[Slot] \in Children /\ children[Slot].started
           /\ worker.work \in Works /\ worker.pc \notin Resting
           /\ InModel => worker \in Modelling
           /\ ~InModel => worker \in Calling /\ worker.index <= Len(worker.calls)
  BY EnteringIs, WorkerIs DEF TurnInv, TurnShape, WorkerOK, InFlight, Resting

LEMMA CallEnds ==
    ASSUME TurnAssumption, TurnInv, InFlight, NEW status \in Statuses, NEW answer \in Seq(Calls),
           Records(status, answer),
           UNCHANGED <<tip, suspended, acted, unread, elapsed, world, context>>,
           worker' \in Workers, WorkerOK'
    PROVE  TurnInv'
<1>1. PICK c : c = [children[Slot] EXCEPT !.ends = @ \cup {status}, !.answer = answer]
  OBVIOUS
<1>2. c \in Children /\ c.started
  BY <1>1, InFlightIs DEF Children
<1>3. children' = [children EXCEPT ![Slot] = c]
  BY <1>1 DEF Records
<1> QED
  BY <1>2, <1>3, InFlightIs, OutcomeRecorded

LEMMA CallRefused == ASSUME TurnAssumption, TurnInv, Refused \/ Lost PROVE TurnInv'
<1>1. PICK status \in Statuses : Records(status, <<>>) /\ Fails(worker.work, status)
  BY DEF Refused, Lost, Statuses
<1>2. InFlight
  BY DEF Refused, Lost, InFlight, At
<1>3. worker' \in Workers /\ WorkerOK'
  BY <1>1, <1>2, InFlightIs, FailsIsEnding, EndingIsQuiet
<1>4. UNCHANGED <<tip, suspended, acted, unread, elapsed, world, context>>
  BY DEF Refused, Lost, outside
<1>5. <<>> \in Seq(Calls)
  OBVIOUS
<1> QED
  BY <1>1, <1>2, <1>3, <1>4, <1>5, CallEnds

LEMMA CallAnswered == ASSUME TurnAssumption, TurnInv, Answered PROVE TurnInv'
<1>1. InFlight /\ "completed" \in Statuses
  BY DEF Answered, InFlight, At, Statuses
<1>2. UNCHANGED <<tip, suspended, acted, unread, elapsed, world, context>>
  BY DEF Answered, Unchanged, outside
<1>3. CASE InModel
  <2>1. PICK calls \in Responses : Records("completed", calls) /\ Answers(calls)
    BY <1>3 DEF Answered
  <2>2. calls \in Seq(Calls) /\ worker \in Modelling /\ worker.round \in Rounds
    BY <1>1, <1>3, InFlightIs DEF TurnAssumption, Modelling
  <2>3. worker' \in Workers /\ WorkerOK'
    <3>1. CASE calls = <<>>
      BY <1>1, <2>1, <3>1, InFlightIs, FinishesIsEnding, EndingIsQuiet DEF Answers
    <3>2. CASE calls # <<>>
      BY <2>1, <2>2, <3>2, AnsweredRound, CallingIsQuiet
    <3> QED
      BY <3>1, <3>2
  <2> QED
    BY <1>1, <1>2, <2>1, <2>2, <2>3, CallEnds
<1>4. CASE ~InModel
  <2>1. Records("completed", <<>>) /\ worker' = [Took(worker) EXCEPT !.pc = "tools"]
    BY <1>4 DEF Answered, Becomes
  <2>2. worker \in Calling /\ worker.index <= Len(worker.calls)
    BY <1>1, <1>4, InFlightIs
  <2>3. worker' \in Workers /\ WorkerOK'
    BY <2>1, <2>2, NextCall, CallingIsQuiet
  <2>4. <<>> \in Seq(Calls)
    OBVIOUS
  <2> QED
    BY <1>1, <1>2, <2>1, <2>3, <2>4, CallEnds
<1> QED
  BY <1>3, <1>4

LEMMA CallActs == ASSUME TurnAssumption, TurnInv, Act PROVE TurnInv'
<1>1. InFlight /\ At("call")
  BY DEF Act, InFlight, At
<1>2. Slot \in Slots /\ worker \in Modelling \cup Calling
  BY <1>1, SlotIsOne, InFlightIs DEF TurnInv
<1>3. worker' = [worker EXCEPT !.pc = "acted"]
  BY DEF Act
<1>4. /\ worker' \in Modelling \cup Calling /\ worker'.pc = "acted" /\ worker'.round = worker.round
      /\ DOMAIN worker' = DOMAIN worker
      /\ ~InModel => worker'.calls = worker.calls /\ worker'.index = worker.index
  BY <1>2, <1>3 DEF Modelling, Calling, InModel
<1>5. Slot' = Slot /\ InModel' = InModel
  BY <1>4 DEF Slot, InModel
<1>6. UNCHANGED <<tip, suspended, children, unread, elapsed, world, context>>
  BY DEF Act, records
<1>7. acted \in Seq(Slots)
  BY DEF TurnInv, TurnShape
<1>8. PICK s : s = Slot
  OBVIOUS
<1>9. acted' = Append(acted, s) /\ s \in Slots
  BY <1>2, <1>8 DEF Act
<1>10. /\ acted' \in Seq(Slots) /\ DOMAIN acted' = 1 .. Len(acted) + 1 /\ acted'[Len(acted) + 1] = s
       /\ \A i \in DOMAIN acted : acted'[i] = acted[i] /\ i \in 1 .. Len(acted)
  BY <1>7, <1>9, AppendProperties
<1>11. s \in DOMAIN children /\ children[s].started /\ \A i \in DOMAIN acted : acted[i] # s
  BY <1>1, <1>8, InFlightIs DEF TurnInv, WorkerOK
<1>12. ActedOK'
  <2>1. DOMAIN acted = 1 .. Len(acted) /\ Len(acted) \in Nat
    BY <1>7
  <2> QED
    BY <1>6, <1>10, <1>11, <2>1 DEF TurnInv, ActedOK
<1>13. WorkerOK'
  BY <1>1, <1>4, <1>5, <1>6 DEF TurnInv, WorkerOK, At, InFlight
<1>14. TurnShape'
  BY <1>4, <1>6, <1>10 DEF TurnInv, TurnShape, Workers
<1>15. EventsOK' /\ BusyOK' /\ SuspensionsOK' /\ SpentOK'
  BY <1>1, <1>6 DEF TurnInv, EventsOK, BusyOK, SuspensionsOK, SpentOK, At, Resting
<1> QED
  BY <1>12, <1>13, <1>14, <1>15 DEF TurnInv
-----------------------------------------------------------------------------
(* What is appended to the log.                                            *)

LEMMA NothingAppended ==
    ASSUME TurnInv, Appended(<<>>)
    PROVE  UNCHANGED <<unread, tip>>
  BY DEF Appended, TurnInv, TurnShape

LEMMA OneAppended ==
    ASSUME TurnInv, NEW e \in TurnEvents \cup AskEvents, Appended(<<e>>), elapsed \subseteq elapsed',
           e.type = "granted" => tip[e.about] # "none", e.type = "tick" => e.about \in elapsed'
    PROVE  /\ Grows /\ tip' = Folded(tip, e)
           /\ unread' \in Seq(TurnEvents \cup AskEvents) /\ unread' # <<>>
           /\ EventsOK'
<1>1. unread \in Seq(TurnEvents \cup AskEvents) /\ <<e>> \in Seq(TurnEvents \cup AskEvents)
      /\ tip \in [Asks -> Standings]
  BY DEF TurnInv, TurnShape
<1>2. unread' = unread \o <<e>> /\ tip' = Folded(tip, e)
  BY DEF Appended
<1>3. Grows
  BY <1>1, <1>2, FoldedGrows
<1>4. /\ unread' \in Seq(TurnEvents \cup AskEvents) /\ unread' # <<>>
      /\ \A i \in DOMAIN unread' :
            \/ i \in DOMAIN unread /\ unread'[i] = unread[i]
            \/ unread'[i] = e
  BY <1>1, <1>2, ConcatProperties
<1>5. \A i \in DOMAIN unread : unread[i] \in TurnEvents \cup AskEvents
  BY <1>1
<1>6. ASSUME NEW i \in DOMAIN unread'
      PROVE  /\ unread'[i].type = "granted" => tip'[unread'[i].about] # "none"
             /\ unread'[i].type = "tick" => unread'[i].about \in elapsed'
  <2>1. CASE unread'[i] = e
    BY <1>3, <2>1 DEF Grows, TurnEvents, AskEvents
  <2>2. CASE i \in DOMAIN unread /\ unread'[i] = unread[i]
    BY <1>3, <1>5, <2>2 DEF Grows, TurnEvents, AskEvents, TurnInv, EventsOK
  <2> QED
    BY <1>4, <2>1, <2>2
<1> QED
  BY <1>2, <1>3, <1>4, <1>6 DEF EventsOK

(* Without a request nothing becomes an authorization.                     *)
LEMMA NotRequested ==
    ASSUME tip \in [Asks -> Standings], NEW e \in TurnEvents \cup AskEvents, tip' = Folded(tip, e),
           e.type # "requested"
    PROVE  \A a \in Asks : tip'[a] # "none" => tip[a] # "none"
<1>1. CASE e.about \in Asks /\ Matches(e.type, tip[e.about])
  <2>1. tip' = [tip EXCEPT ![e.about] = Standing(e.type)] /\ tip[e.about] # "none"
    BY <1>1 DEF Folded, Matches, Live
  <2> QED
    BY <2>1
<1>2. CASE ~(e.about \in Asks /\ Matches(e.type, tip[e.about]))
  BY <1>2 DEF Folded
<1> QED
  BY <1>1, <1>2

LEMMA TipMoves ==
    ASSUME TurnInv, NEW e \in TurnEvents \cup AskEvents, Appended(<<e>>), e.type # "requested",
           e.type = "granted" => tip[e.about] # "none", e.type = "tick" => e.about \in elapsed,
           UNCHANGED <<children, suspended, acted, elapsed, world, context>>,
           worker' \in Workers, WorkerOK'
    PROVE  TurnInv'
<1>1. Grows /\ tip' = Folded(tip, e) /\ EventsOK' /\ unread' \in Seq(TurnEvents \cup AskEvents)
      /\ unread' # <<>>
  BY OneAppended
<1>2. tip \in [Asks -> Standings]
  BY DEF TurnInv, TurnShape
<1>3. \A a \in Asks : tip'[a] # "none" => tip[a] # "none"
  BY <1>1, <1>2, NotRequested
<1>4. TurnShape'
  BY <1>1 DEF TurnInv, TurnShape, Grows
<1>5. BusyOK' /\ SuspensionsOK' /\ ActedOK' /\ SpentOK'
  BY <1>1, <1>3 DEF TurnInv, BusyOK, SuspensionsOK, ActedOK, SpentOK, Grows
<1> QED
  BY <1>1, <1>4, <1>5 DEF TurnInv

LEMMA EventIsAsk ==
    ASSUME NEW a \in Asks,
           NEW type \in {"requested", "granted", "denied", "expired", "consumed", "tick"}
    PROVE  /\ Event(type, a) \in AskEvents
           /\ Event(type, a).type = type /\ Event(type, a).about = a
  BY DEF Event, AskEvents

LEMMA Decisions == ASSUME TurnInv, NEW a \in Asks, Grant(a) \/ Deny(a) PROVE TurnInv'
<1>1. PICK type \in {"granted", "denied", "expired"} : Appended(<<Event(type, a)>>)
  BY DEF Grant, Deny, DecisionBy
<1>2. /\ tip[a] = "pending" /\ Listening /\ worker' = worker
      /\ UNCHANGED <<children, suspended, acted, elapsed, world, context>>
  BY DEF Grant, Deny, DecisionBy, records, outside
<1>3. worker' \in Workers /\ WorkerOK'
  BY <1>2 DEF TurnInv, TurnShape, WorkerOK, Listening, At, InFlight
<1> QED
  BY <1>1, <1>2, <1>3, EventIsAsk, TipMoves

LEMMA Ticks == ASSUME TurnInv, NEW a \in Asks, Tick(a) PROVE TurnInv'
<1>1. Appended(<<Event("tick", a)>>) /\ a \in elapsed
  BY DEF Tick
<1>2. At("loop") /\ worker' = worker /\ UNCHANGED <<children, suspended, acted, elapsed, world, context>>
  BY DEF Tick, records, outside
<1>3. worker' \in Workers /\ WorkerOK'
  BY <1>2 DEF TurnInv, TurnShape, WorkerOK, At, InFlight
<1> QED
  BY <1>1, <1>2, <1>3, EventIsAsk, TipMoves

LEMMA GrantExpires == ASSUME TurnInv, ExpireGrant PROVE TurnInv'
<1>1. Approved \in Asks /\ At("resume")
  BY ResumedIs DEF ExpireGrant, Unconsumed, Resuming
<1>2. PICK a \in Asks : a = Approved
  BY <1>1
<1>3. Appended(<<Event("expired", a)>>) /\ UNCHANGED <<children, suspended, acted, elapsed, world, context>>
  BY <1>2 DEF ExpireGrant, records, outside
<1>4. worker' \in Workers /\ WorkerOK'
  <2>1. worker.work \in Works /\ "failed" \in Statuses
    BY <1>1, EnteringIs DEF TurnInv, Statuses
  <2> QED
    BY <2>1, FailsIsEnding, EndingIsQuiet DEF ExpireGrant
<1> QED
  BY <1>3, <1>4, EventIsAsk, TipMoves

LEMMA WorkFinishes == ASSUME TurnInv, FinishWork PROVE TurnInv'
<1>1. worker \in Ending
  BY WorkerIs DEF FinishWork, TurnInv, TurnShape
<1>2. worker' \in Between /\ UNCHANGED <<children, suspended, acted, elapsed, world, context>>
  BY DEF FinishWork, Becomes, Stopped, Between, outside
<1>3. worker' \in Workers /\ WorkerOK'
  BY <1>2 DEF Workers, Between, WorkerOK, At, InFlight
<1>4. CASE worker.events = <<>>
  <2>1. UNCHANGED <<unread, tip>>
    BY <1>4, NothingAppended DEF FinishWork
  <2>2. unread # <<>>
    BY DEF TurnInv, BusyOK, Resting, FinishWork, At
  <2> QED
    BY <1>2, <1>3, <2>1, <2>2, WorkerStarts DEF Records3
<1>5. CASE worker.events # <<>>
  <2>1. PICK e \in TurnEvents : worker.events = <<e>>
    BY <1>1, <1>5 DEF Ending, Reports
  <2>2. Appended(<<e>>) /\ e.type \notin {"requested", "granted", "tick"}
    BY <2>1 DEF FinishWork, TurnEvents
  <2> QED
    BY <1>2, <1>3, <2>2, TipMoves
<1> QED
  BY <1>4, <1>5

LEMMA ControlDecided == ASSUME TurnInv, DecideControl PROVE TurnInv'
<1>1. /\ Current \in TurnEvents \cup AskEvents /\ Current = unread[1] /\ 1 \in DOMAIN unread
      /\ Tail(unread) \in Seq(TurnEvents \cup AskEvents)
      /\ \A i \in DOMAIN Tail(unread) : i + 1 \in DOMAIN unread /\ Tail(unread)[i] = unread[i + 1]
  BY TailIs DEF DecideControl, Deciding
<1>2. At("loop") /\ UNCHANGED <<children, suspended, acted, elapsed, world, context, worker>>
  BY DEF DecideControl, Deciding, records, outside
<1>3. worker' \in Workers /\ WorkerOK' /\ BusyOK'
  BY <1>2 DEF TurnInv, TurnShape, WorkerOK, BusyOK, Resting, At, InFlight
<1>4. CASE Emitted(Current) = <<>>
  <2>1. tip' = tip /\ unread' = Tail(unread)
    BY <1>1, <1>4, ConcatEmptySeq DEF DecideControl
  <2>2. TurnShape' /\ EventsOK'
    BY <1>1, <1>2, <1>3, <2>1 DEF TurnInv, TurnShape, EventsOK
  <2> QED
    BY <1>2, <1>3, <2>1, <2>2, RecordsKept DEF TurnInv, Records3
<1>5. CASE Emitted(Current) # <<>>
  <2>1. Current.type = "tick" /\ Current \in AskEvents
    BY <1>1, <1>5 DEF Emitted, TurnEvents, AskEvents
  <2>2. PICK e : e = Event("expired", Current.about)
    OBVIOUS
  <2>3. Emitted(Current) = <<e>>
    BY <1>5, <2>2 DEF Emitted
  <2>4. e \in AskEvents /\ e.type = "expired" /\ e.about = Current.about
    BY <2>1, <2>2, EventIsAsk DEF AskEvents
  <2>5. tip' = Folded(tip, e) /\ unread' = Tail(unread) \o <<e>>
    BY <2>3 DEF DecideControl
  <2>6. tip \in [Asks -> Standings]
    BY DEF TurnInv, TurnShape
  <2>7. Grows /\ \A a \in Asks : tip'[a] # "none" => tip[a] # "none"
    BY <2>4, <2>5, <2>6, FoldedGrows, NotRequested
  <2>8. /\ unread' \in Seq(TurnEvents \cup AskEvents)
        /\ \A i \in DOMAIN unread' :
              \/ i \in DOMAIN Tail(unread) /\ unread'[i] = Tail(unread)[i]
              \/ unread'[i] = e
    BY <1>1, <2>4, <2>5, ConcatProperties
  <2>9. ASSUME NEW i \in DOMAIN unread'
        PROVE  /\ unread'[i].type = "granted" => tip'[unread'[i].about] # "none"
               /\ unread'[i].type = "tick" => unread'[i].about \in elapsed'
    <3>1. CASE unread'[i] = e
      BY <2>4, <3>1
    <3>2. CASE i \in DOMAIN Tail(unread) /\ unread'[i] = Tail(unread)[i]
      <4>1. PICK k \in DOMAIN unread : unread'[i] = unread[k]
        BY <1>1, <3>2
      <4>2. unread[k] \in TurnEvents \cup AskEvents
        BY DEF TurnInv, TurnShape
      <4> QED
        BY <1>2, <2>7, <4>1, <4>2 DEF Grows, TurnEvents, AskEvents, TurnInv, EventsOK
    <3> QED
      BY <2>8, <3>1, <3>2
  <2>10. EventsOK'
    BY <2>9 DEF EventsOK
  <2>11. TurnShape'
    BY <1>2, <1>3, <2>7, <2>8 DEF TurnInv, TurnShape, Grows
  <2>12. SuspensionsOK' /\ ActedOK' /\ SpentOK'
    BY <1>2, <2>7 DEF TurnInv, SuspensionsOK, ActedOK, SpentOK, Grows
  <2> QED
    BY <1>3, <2>10, <2>11, <2>12 DEF TurnInv
<1> QED
  BY <1>4, <1>5

LEMMA TimePasses ==
    ASSUME TurnInv, (\E a \in Asks : Elapse(a)) \/ WorldChanges
    PROVE  TurnInv'
<1>1. /\ UNCHANGED <<tip, children, suspended, acted, unread, context, worker>>
      /\ elapsed \subseteq elapsed' /\ elapsed' \subseteq Asks /\ world' \in Presentations
  BY DEF Elapse, WorldChanges, records, TurnInv, TurnShape
<1>2. TurnShape' /\ EventsOK' /\ BusyOK'
  BY <1>1 DEF TurnInv, TurnShape, EventsOK, BusyOK
<1>3. Slot' = Slot /\ Approved' = Approved /\ InModel' = InModel /\ InFlight' = InFlight
  BY <1>1 DEF Slot, Approved, InModel, InFlight
<1>4. WorkerOK'
  BY <1>1, <1>3 DEF TurnInv, WorkerOK, At
<1> QED
  BY <1>1, <1>2, <1>4, RecordsKept DEF TurnInv, Records3
(* A suspension is on record, with the request for approval, before its    *)
(* turn's work ends.                                                       *)
LEMMA TurnSuspends == ASSUME TurnAssumption, TurnInv, Suspend PROVE TurnInv'
<1>1. /\ Slot \in Slots /\ ~InModel /\ worker \in Calling /\ Call \in Calls
      /\ worker.round \in Rounds /\ Slot = Tool(worker.round, Call)
      /\ Slot \in DOMAIN children /\ Policy[Call] = "ask" /\ worker.index <= Len(worker.calls)
      /\ At("tools")
  <2>1. InTools /\ Policy[Call] = "ask" /\ Slot \in DOMAIN children /\ At("tools")
    BY DEF Suspend, Suspending, Policed, InTools, Call
  <2>2. ~InModel /\ worker.index <= Len(worker.calls)
    BY <2>1, WorkerIs DEF TurnInv, TurnShape, InTools
  <2> QED
    BY <2>1, <2>2, SlotIsOne DEF TurnInv, Call
<1>2. PICK a : a = Slot
  OBVIOUS
<1>3. PICK c : c = Call
  OBVIOUS
<1>4. PICK s : s = Suspension
  OBVIOUS
<1>5. a \in Asks /\ a.call = c /\ a.round = worker.round /\ a \in DOMAIN children /\ c \in Calls
  BY <1>1, <1>2, <1>3, ToolSlots
<1>6. s \in Suspensions /\ s.round = a.round /\ s.index <= Len(s.calls) /\ s.calls[s.index] = c
  BY <1>1, <1>3, <1>4, <1>5 DEF Suspension, Suspensions, Calling, Call
<1>7. c \notin DOMAIN suspended
  BY <1>3 DEF Suspend
<1>8. /\ DOMAIN suspended' = DOMAIN suspended \cup {c} /\ suspended'[c] = s
      /\ \A x \in DOMAIN suspended : suspended'[x] = suspended[x]
      /\ suspended' = [x \in DOMAIN suspended' |-> suspended'[x]]
  BY <1>3, <1>4, <1>7 DEF Suspend
<1>9. /\ UNCHANGED <<children, acted, elapsed, world, context>>
      /\ Appended(<<Event("requested", a)>>) /\ Ends(worker.work, "completed", <<>>)
  BY <1>2 DEF Suspend, outside
<1>10. worker' \in Workers /\ WorkerOK'
  <2>1. worker.work \in Works /\ "completed" \in Statuses /\ <<>> \in Reports
    BY <1>1 DEF Calling, Statuses, Reports
  <2> QED
    BY <1>9, <2>1, EndsIsEnding, EndingIsQuiet
<1>11. /\ Grows /\ tip' = Folded(tip, Event("requested", a)) /\ EventsOK'
       /\ unread' \in Seq(TurnEvents \cup AskEvents) /\ unread' # <<>>
  BY <1>5, <1>9, EventIsAsk, OneAppended
<1>12. tip \in [Asks -> Standings]
  BY DEF TurnInv, TurnShape
<1>13. \A b \in Asks : tip'[b] # "none" => tip[b] # "none" \/ b = a
  BY <1>5, <1>11, <1>12, EventIsAsk DEF Folded
<1>14. suspended' \in [DOMAIN suspended' -> Suspensions] /\ DOMAIN suspended' \subseteq Calls
  BY <1>5, <1>6, <1>8 DEF TurnInv, TurnShape
<1>15. TurnShape'
  BY <1>9, <1>10, <1>11, <1>14 DEF TurnInv, TurnShape, Grows
<1>16. SuspensionsOK'
  <2>1. ASSUME NEW x \in DOMAIN suspended'
        PROVE  suspended'[x].index <= Len(suspended'[x].calls)
               /\ suspended'[x].calls[suspended'[x].index] = x
    BY <1>6, <1>8 DEF TurnInv, SuspensionsOK
  <2>2. ASSUME NEW b \in Asks, tip'[b] # "none"
        PROVE  b \in DOMAIN children' /\ b.call \in DOMAIN suspended'
               /\ suspended'[b.call].round = b.round
    BY <1>5, <1>6, <1>8, <1>9, <1>13, <2>2 DEF TurnInv, SuspensionsOK
  <2> QED
    BY <2>1, <2>2 DEF SuspensionsOK
<1>17. BusyOK' /\ ActedOK' /\ SpentOK'
  BY <1>9, <1>11 DEF TurnInv, BusyOK, ActedOK, SpentOK, Grows
<1> QED
  BY <1>10, <1>11, <1>15, <1>16, <1>17 DEF TurnInv

(* A grant is spent with the start of its call on record; the call did not *)
(* act, since nothing of it is on record while its grant is unspent.       *)
LEMMA GrantConsumed == ASSUME TurnAssumption, TurnInv, ConsumeGrant PROVE TurnInv'
<1>1. PICK a \in Asks : a = Approved
  BY ResumedIs DEF ConsumeGrant, Unconsumed
<1>2. PICK w : w = Resumed
  OBVIOUS
<1>3. /\ a \in DOMAIN children /\ w \in Calling /\ w.index <= Len(w.calls)
      /\ w.round = a.round /\ w.calls[w.index] = a.call
  BY <1>1, <1>2, ResumedIs DEF ConsumeGrant, Unconsumed
<1>4. tip[a] = "granted" /\ Appended(<<Event("consumed", a)>>) /\ At("resume")
      /\ worker' = [w EXCEPT !.pc = "call"]
      /\ children' = [children EXCEPT ![a].started = TRUE]
      /\ UNCHANGED <<suspended, acted, elapsed, world, context>>
  BY <1>1, <1>2 DEF ConsumeGrant, Unconsumed, Resuming, Becomes, outside
<1>5. PICK c : c = [children[a] EXCEPT !.started = TRUE]
  OBVIOUS
<1>6. ~children[a].started
  BY <1>3, <1>4 DEF TurnInv, SpentOK
<1>7. c \in Children /\ c.started
  BY ZenonT(30), <1>3, <1>5 DEF TurnInv, TurnShape, Children
<1>8. children' = [children EXCEPT ![a] = c]
  BY <1>4, <1>5
<1>9. ChildrenGrow /\ DOMAIN children' = DOMAIN children
  BY <1>7, <1>8, RecordChanges
<1>10. /\ Grows /\ tip' = Folded(tip, Event("consumed", a)) /\ EventsOK'
       /\ unread' \in Seq(TurnEvents \cup AskEvents) /\ unread' # <<>>
  BY <1>4, EventIsAsk, OneAppended
<1>11. tip \in [Asks -> Standings]
  BY DEF TurnInv, TurnShape
<1>12. tip' = [tip EXCEPT ![a] = "consumed"]
  <2>1. Matches("consumed", tip[a]) /\ Standing("consumed") = "consumed"
    BY <1>4 DEF Matches, Standing
  <2>2. PICK e : e = Event("consumed", a)
    OBVIOUS
  <2>3. e.type = "consumed" /\ e.about = a /\ tip' = Folded(tip, e)
    BY <1>10, <2>2, EventIsAsk
  <2> QED
    BY <2>1, <2>3 DEF Folded
<1>13. a = Tool(a.round, a.call)
  BY AsksAreTools
<1>14. /\ worker' \in Calling /\ worker'.pc = "call" /\ worker'.round = a.round
       /\ worker'.index <= Len(worker'.calls) /\ worker'.calls[worker'.index] = a.call
  BY <1>3, <1>4 DEF Calling
<1>15. Slot' = a /\ ~InModel'
  BY <1>13, <1>14 DEF Slot, InModel, Calling
<1>16. \A i \in DOMAIN acted : acted[i] # a
  BY <1>6 DEF TurnInv, ActedOK
<1>17. WorkerOK'
  BY <1>3, <1>4, <1>7, <1>8, <1>9, <1>11, <1>12, <1>14, <1>15, <1>16 DEF WorkerOK, At, InFlight
<1>18. SpentOK'
  BY <1>8, <1>9, <1>11, <1>12 DEF TurnInv, SpentOK
<1>19. SuspensionsOK'
  BY <1>4, <1>9, <1>11, <1>12 DEF TurnInv, SuspensionsOK
<1>20. TurnShape'
  BY <1>4, <1>9, <1>10, <1>14 DEF TurnInv, TurnShape, Grows, ChildrenGrow, Workers
<1>21. BusyOK' /\ ActedOK'
  BY <1>4, <1>9, <1>10 DEF TurnInv, BusyOK, ActedOK, ChildrenGrow
<1> QED
  BY <1>10, <1>17, <1>18, <1>19, <1>20, <1>21 DEF TurnInv

-----------------------------------------------------------------------------
LEMMA TurnInitial == ASSUME TurnAssumption, TurnInit PROVE TurnInv
<1>1. TurnShape
  <2>1. Event("spawn", Turn) \in TurnEvents
    BY DEF Event, TurnEvents
  <2> QED
    BY <2>1 DEF TurnInit, TurnShape, Nothing, Down, Workers, Between, Standings
<1>2. worker.pc = "down" /\ tip = [a \in Asks |-> "none"] /\ acted = <<>>
      /\ DOMAIN children = {} /\ DOMAIN suspended = {}
      /\ unread = <<Event("spawn", Turn)>>
  BY DEF TurnInit, Down, Nothing
<1>3. EventsOK
  BY <1>2 DEF EventsOK, Event
<1> QED
  BY <1>1, <1>2, <1>3
     DEF TurnInv, BusyOK, Resting, SuspensionsOK, ActedOK, SpentOK, WorkerOK, At, InFlight

LEMMA TurnStutters == ASSUME TurnInv, UNCHANGED turnVars PROVE TurnInv'
<1>1. UNCHANGED <<tip, children, suspended, acted, unread, context, worker, elapsed, world>>
  BY DEF turnVars, records, outside
<1>2. TurnShape' /\ EventsOK' /\ BusyOK'
  BY <1>1 DEF TurnInv, TurnShape, EventsOK, BusyOK
<1>3. Slot' = Slot /\ Approved' = Approved /\ InModel' = InModel /\ InFlight' = InFlight
  BY <1>1 DEF Slot, Approved, InModel, InFlight
<1>4. WorkerOK'
  BY <1>1, <1>3 DEF TurnInv, WorkerOK, At
<1> QED
  BY <1>1, <1>2, <1>4, RecordsKept DEF TurnInv, Records3

LEMMA TurnStep == ASSUME TurnAssumption, TurnInv, [TurnNext]_turnVars PROVE TurnInv'
<1>1. CASE Worker
  <2>1. CASE Open \/ Decide \/ FinishWork \/ CompleteStep
    BY <2>1, Opens, ControlDecided, WorkBegins, WorkFinishes, StepCompletes DEF Decide
  <2>2. CASE PrepareTurn \/ ModelRound
    BY <2>2, PreparesTurn, ChildPrepared, ChildStarted, Stops, ModelReused DEF PrepareTurn, ModelRound
  <2>3. CASE ToolRound
    BY <2>3, ChildPrepared, ToolReused, ChildStarted, Stops, ToolDenied, NextRoundBegins, TurnSuspends
       DEF ToolRound
  <2>4. CASE ResumeAuthorization
    BY <2>4, Stops, ResumptionReused, ResumptionStops, GrantExpires, GrantConsumed
       DEF ResumeAuthorization
  <2> QED
    BY <1>1, <2>1, <2>2, <2>3, <2>4 DEF Worker
<1>2. CASE Outside
  BY <1>2, CallActs, CallAnswered DEF Outside
<1>3. CASE Timers \/ People
  BY <1>3, Ticks, TimePasses, Decisions DEF Timers, People
<1>4. CASE Faults
  BY <1>4, PreparesTurn, CallRefused, TimePasses, Crashes DEF Faults
<1>5. CASE UNCHANGED turnVars
  BY <1>5, TurnStutters
<1> QED
  BY <1>1, <1>2, <1>3, <1>4, <1>5 DEF TurnNext

(* TurnInv holds in every reachable state.                                 *)
THEOREM TurnsAreOrderly == TurnSpec => []TurnInv
<1>1. TurnInit => TurnInv
  BY TurnAssumption, TurnInitial
<1>2. TurnInv /\ [TurnNext]_turnVars => TurnInv'
  BY TurnAssumption, TurnStep
<1> QED
  BY <1>1, <1>2, PTL DEF TurnSpec

(* No model call and no tool call of a turn reaches the outside twice,     *)
(* whatever dies and whoever takes over, approved calls included.          *)
THEOREM NoCallRunsTwice == TurnSpec => []NothingRunsTwice
<1>1. TurnInv => NothingRunsTwice
  BY DEF TurnInv, ActedOK, NothingRunsTwice
<1> QED
  BY <1>1, TurnsAreOrderly, PTL
-----------------------------------------------------------------------------
(* The frozen context.  What a step adds takes its presentation from the   *)
(* worker's request, and that from the committed context or from where the *)
(* turn was suspended.                                                     *)
FromWorker(request) == InRound /\ request.context = worker.request.context

SuspendedFrozen ==
    \A c \in DOMAIN suspended' :
        \/ c \in DOMAIN suspended /\ suspended'[c] = suspended[c]
        \/ FromWorker(suspended'[c].request)
ChildrenFrozen ==
    \A s \in DOMAIN children' : s.kind = "model" =>
        \/ s \in DOMAIN children /\ children'[s].request = children[s].request
        \/ FromWorker(children'[s].request)
WorkerFrozen ==
    InRound' =>
        \/ FromWorker(worker'.request)
        \/ Resuming /\ Approved.call \in DOMAIN suspended
           /\ worker'.request = suspended[Approved.call].request
        \/ worker'.request.context = context /\ context # "none"
        \/ ~barrier

LEMMA FrozenFrame ==
    ASSUME FrozenInv, UNCHANGED <<barrier, context>>, SuspendedFrozen, ChildrenFrozen, WorkerFrozen
    PROVE  FrozenInv'
<1> SUFFICES ASSUME barrier PROVE FrozenInv'
  BY DEF FrozenInv
<1>1. InRound => worker.request.context = context /\ context # "none"
  BY DEF FrozenInv
<1>2. \A c \in DOMAIN suspended : suspended[c].request.context = context /\ context # "none"
  BY DEF FrozenInv
<1>3. \A s \in DOMAIN children :
         s.kind = "model" => children[s].request.context = context /\ context # "none"
  BY DEF FrozenInv
<1>4. InRound' => worker'.request.context = context /\ context # "none"
  BY <1>1, <1>2 DEF WorkerFrozen, FromWorker
<1>5. \A c \in DOMAIN suspended' : suspended'[c].request.context = context /\ context # "none"
  BY <1>1, <1>2 DEF SuspendedFrozen, FromWorker
<1>6. \A s \in DOMAIN children' :
         s.kind = "model" => children'[s].request.context = context /\ context # "none"
  BY <1>1, <1>3 DEF ChildrenFrozen, FromWorker
<1> QED
  BY <1>4, <1>5, <1>6 DEF FrozenInv

LEMMA RecordsFrozen ==
    ASSUME UNCHANGED <<children, suspended>>
    PROVE  SuspendedFrozen /\ ChildrenFrozen
  BY DEF SuspendedFrozen, ChildrenFrozen

(* One record changes, and not in what was asked for.                      *)
LEMMA RequestFrozen ==
    ASSUME TurnInv, NEW s, NEW c,
           children' = [children EXCEPT ![s] = c],
           s \in DOMAIN children => c.request = children[s].request
    PROVE  ChildrenFrozen
  BY DEF ChildrenFrozen, TurnInv, TurnShape

LEMMA NobodyInRound ==
    ASSUME worker' \in Between \cup Ending \cup Entering
    PROVE  WorkerFrozen /\ ~InRound'
  BY DEF WorkerFrozen, InRound, Between, Ending, Entering

LEMMA SameRound ==
    ASSUME worker' = worker
    PROVE  WorkerFrozen
  BY DEF WorkerFrozen, FromWorker, InRound

(* The first context of a run with the barrier: nothing holds one yet.     *)
LEMMA ContextFrozen ==
    ASSUME TurnAssumption, TurnInv, FrozenInv, PrepareTurn \/ PreparationFails \/ RouteChanged
    PROVE  FrozenInv'
<1>1. UNCHANGED <<children, suspended, barrier>> /\ At("context") /\ worker.work \in Works
  BY EnteringIs DEF PrepareTurn, ReuseContext, PrepareContext, PreparationFails, RouteChanged, records,
     outside, TurnInv
<1>2. Turn \in Works /\ "failed" \in Statuses
  BY DEF Works, Statuses
<1>3. CASE PreparationFails \/ RouteChanged \/ (ReuseContext /\ context = "failed")
  <2>1. worker' \in Ending
    BY <1>2, <1>3, FailsIsEnding DEF PreparationFails, RouteChanged, ReuseContext
  <2>2. CASE context' = context
    BY <1>1, <2>1, <2>2, NobodyInRound, RecordsFrozen, FrozenFrame
  <2>3. CASE context' # context
    <3>1. ~barrier \/ context = "none"
      BY <1>3, <2>3 DEF PreparationFails, RouteChanged, ReuseContext, records, Reusable
    <3> QED
      BY <1>1, <2>1, <3>1, NobodyInRound DEF FrozenInv
  <2> QED
    BY <2>2, <2>3
<1>4. CASE PrepareContext
  <2>1. worker' = FirstRound(world) /\ world \in Presentations
    BY <1>4 DEF PrepareContext, Becomes, TurnInv, TurnShape
  <2>2. worker'.request.context = world
    BY <1>1, <2>1, FirstRoundIs DEF FirstRound
  <2>3. barrier => context = "none" /\ context' = world /\ world # "none"
    BY <1>4, <2>1 DEF PrepareContext, Reusable, TurnAssumption
  <2> QED
    BY <1>1, <2>2, <2>3 DEF FrozenInv
<1>5. CASE ReuseContext /\ context # "failed"
  <2>1. worker' = FirstRound(context) /\ context \in Presentations /\ context' = context
    BY <1>5 DEF ReuseContext, Reusable, Becomes, TurnInv, TurnShape, records
  <2>2. worker'.request.context = context /\ context # "none"
    BY <1>1, <1>5, <2>1, FirstRoundIs DEF FirstRound, ReuseContext, Reusable
  <2>3. WorkerFrozen
    BY <2>2 DEF WorkerFrozen
  <2> QED
    BY <1>1, <2>1, <2>3, RecordsFrozen, FrozenFrame
<1> QED
  BY <1>3, <1>4, <1>5 DEF PrepareTurn

LEMMA StopsFrozen ==
    ASSUME TurnAssumption, TurnInv, FrozenInv,
           \/ ModelChanged \/ StopAtModel \/ TooManyRounds \/ StopAtTool \/ GrantIsGone
           \/ AlreadySuspended \/ ExpireGrant
    PROVE  FrozenInv'
<1>1. UNCHANGED <<children, suspended, barrier, context>>
  BY DEF ModelChanged, StopAtModel, TooManyRounds, StopAtTool, GrantIsGone, AlreadySuspended,
         ExpireGrant, Unchanged, records
<1>2. At("resume") \/ At("model") \/ At("tools")
  BY DEF ModelChanged, StopAtModel, TooManyRounds, StopAtTool, GrantIsGone, AlreadySuspended,
         ModelDue, Policed, InTools, Suspending, Resuming, ExpireGrant, Unconsumed
<1>3. \E status \in Statuses :
         Fails(worker.work, status) \/ Ends(worker.work, status, <<>>)
  BY DEF ModelChanged, StopAtModel, TooManyRounds, StopAtTool, GrantIsGone, AlreadySuspended,
         StopsAt, Statuses, ExpireGrant
<1>4. worker.work \in Works /\ <<>> \in Reports
  BY <1>2, EnteringIs DEF TurnInv, Reports
<1>5. worker' \in Ending
  BY <1>3, <1>4, FailsIsEnding, EndsIsEnding
<1> QED
  BY <1>1, <1>5, NobodyInRound, RecordsFrozen, FrozenFrame

LEMMA BetweenFrozen ==
    ASSUME TurnInv, FrozenInv, Open \/ Crash \/ DecideWork \/ FinishWork \/ CompleteStep
    PROVE  FrozenInv'
<1>1. UNCHANGED <<children, suspended, barrier, context>>
  BY DEF Open, Crash, DecideWork, FinishWork, CompleteStep, records
<1>2. ~InRound'
  BY DEF Open, Crash, DecideWork, FinishWork, CompleteStep, Becomes, Loop, Down, Stopped, InRound
<1> QED
  BY <1>1, <1>2, RecordsFrozen, FrozenFrame DEF WorkerFrozen

LEMMA OthersFrozen ==
    ASSUME TurnInv, FrozenInv, DecideControl \/ Timers \/ People \/ WorldChanges \/ UNCHANGED turnVars
    PROVE  FrozenInv'
<1>1. UNCHANGED <<children, suspended, barrier, context, worker>>
  BY DEF DecideControl, Timers, People, WorldChanges, Tick, Elapse, Grant, Deny, DecisionBy, turnVars,
         records
<1> QED
  BY <1>1, SameRound, RecordsFrozen, FrozenFrame

LEMMA PreparedFrozen ==
    ASSUME TurnAssumption, TurnInv, FrozenInv, PrepareModel \/ PrepareTool
    PROVE  FrozenInv'
<1>1. UNCHANGED <<suspended, barrier, context, worker>>
  BY DEF PrepareModel, PrepareTool, Prepares, outside
<1>2. PICK s, request : s = Slot /\ Prepares(s, request)
                        /\ (s.kind = "model" => request = worker.request /\ InRound)
  <2>1. CASE PrepareModel
    BY <2>1 DEF PrepareModel, ModelDue, InRound, At
  <2>2. CASE PrepareTool
    <3>1. InTools /\ ~InModel
      BY <2>2, WorkerIs DEF PrepareTool, InTools, TurnInv, TurnShape
    <3>2. Slot.kind = "tool"
      BY <3>1, SlotIsOne, ToolSlots DEF TurnInv
    <3> QED
      BY <2>2, <3>2 DEF PrepareTool
  <2> QED
    BY <2>1, <2>2
<1>3. ChildrenFrozen
  <2>1. /\ DOMAIN children' = DOMAIN children \cup {s}
        /\ \A x \in DOMAIN children : children'[x] = children[x]
        /\ children'[s] = Child(request)
    BY <1>2 DEF Prepares
  <2>2. Child(request).request = request
    BY DEF Child
  <2> QED
    BY <1>2, <2>1, <2>2 DEF ChildrenFrozen, FromWorker
<1> QED
  BY <1>1, <1>3, SameRound, FrozenFrame DEF SuspendedFrozen

LEMMA StartedFrozen ==
    ASSUME TurnAssumption, TurnInv, FrozenInv, StartModel \/ StartTool
    PROVE  FrozenInv'
<1>1. UNCHANGED <<suspended, barrier, context>>
  BY DEF StartModel, StartTool, Unchanged
<1>2. PICK s : s = Slot
  OBVIOUS
<1>3. PICK c : c = [children[s] EXCEPT !.started = TRUE]
  OBVIOUS
<1>4. s \in DOMAIN children /\ children' = [children EXCEPT ![s] = c]
  BY <1>2, <1>3 DEF StartModel, StartTool, Starts, Prepared
<1>5. c.request = children[s].request
  BY <1>3, <1>4 DEF TurnInv, TurnShape, Children
<1>6. ChildrenFrozen
  BY <1>4, <1>5, RequestFrozen
<1>7. At("model") \/ At("tools")
  BY DEF StartModel, StartTool, ModelDue, Policed, InTools
<1>8. worker' = [worker EXCEPT !.pc = "call"] /\ worker \in Asking \cup Calling
  BY <1>7, WorkerIs DEF StartModel, StartTool, Starts, TurnInv, TurnShape
<1>9. FromWorker(worker'.request)
  BY <1>7, <1>8 DEF FromWorker, InRound, At, Asking, Calling
<1> QED
  BY <1>1, <1>6, <1>9, FrozenFrame DEF SuspendedFrozen, WorkerFrozen

LEMMA RoundFrozen ==
    ASSUME TurnAssumption, TurnInv, FrozenInv, ReuseModel \/ ReuseTool \/ NextRound \/ ResumeCompleted
    PROVE  FrozenInv'
<1>1. UNCHANGED <<children, suspended, barrier, context>>
  BY DEF ReuseModel, ReuseTool, NextRound, ResumeCompleted, Unchanged
<1>2. CASE ReuseModel
  <2>1. worker \in Asking /\ InModel /\ worker.round \in Rounds /\ InRound /\ worker.work \in Works
    BY <1>2, WorkerIs, SlotIsOne, EnteringIs DEF ReuseModel, ModelDue, TurnInv, TurnShape, InRound, At
  <2>2. children[Slot].answer \in Seq(Calls) /\ Answers(children[Slot].answer)
    BY <1>2 DEF ReuseModel, Completed, TurnInv, TurnShape, Children
  <2>3. CASE children[Slot].answer = <<>>
    BY <1>1, <2>1, <2>2, <2>3, FinishesIsEnding, NobodyInRound, RecordsFrozen, FrozenFrame DEF Answers
  <2>4. CASE children[Slot].answer # <<>>
    BY <1>1, <2>1, <2>2, <2>4, AnsweredRound, RecordsFrozen, FrozenFrame DEF WorkerFrozen, FromWorker
  <2> QED
    BY <2>3, <2>4
<1>3. CASE ReuseTool
  <2>1. worker \in Calling /\ worker.index <= Len(worker.calls) /\ InRound
    BY <1>3, WorkerIs DEF ReuseTool, Policed, InTools, TurnInv, TurnShape, InRound, At
  <2>2. FromWorker(worker'.request)
    BY <1>3, <2>1, NextCall DEF ReuseTool, Becomes, FromWorker
  <2> QED
    BY <1>1, <2>2, RecordsFrozen, FrozenFrame DEF WorkerFrozen
<1>4. CASE NextRound
  <2>1. worker \in Calling /\ InRound
    BY <1>4, WorkerIs DEF NextRound, TurnInv, TurnShape, InRound, At
  <2>2. worker'.request = [worker.request EXCEPT !.messages = Append(@, [results |-> worker.results])]
    BY <1>4 DEF NextRound, Becomes, Round
  <2>3. worker.request \in Requests
    BY <2>1 DEF Calling
  <2>4. FromWorker(worker'.request)
    BY <2>1, <2>2, <2>3 DEF FromWorker, Requests
  <2> QED
    BY <1>1, <2>4, RecordsFrozen, FrozenFrame DEF WorkerFrozen
<1>5. CASE ResumeCompleted
  <2>1. /\ Resumed \in Calling /\ Resumed.index <= Len(Resumed.calls)
        /\ Resumed.request = suspended[Approved.call].request
        /\ Approved.call \in DOMAIN suspended /\ Resuming
    BY <1>5, ResumedIs DEF ResumeCompleted, Suspended
  <2>2. worker'.request = suspended[Approved.call].request
    BY <1>5, <2>1, NextCall DEF ResumeCompleted, Becomes
  <2> QED
    BY <1>1, <2>1, <2>2, RecordsFrozen, FrozenFrame DEF WorkerFrozen
<1> QED
  BY <1>2, <1>3, <1>4, <1>5

LEMMA ConsumedFrozen ==
    ASSUME TurnInv, FrozenInv, ConsumeGrant
    PROVE  FrozenInv'
<1>1. UNCHANGED <<suspended, barrier, context>>
  BY DEF ConsumeGrant
<1>2. PICK a : a = Approved
  OBVIOUS
<1>3. PICK c : c = [children[a] EXCEPT !.started = TRUE]
  OBVIOUS
<1>4. a \in DOMAIN children /\ children' = [children EXCEPT ![a] = c]
  BY <1>2, <1>3, ResumedIs DEF ConsumeGrant, Unconsumed
<1>5. c.request = children[a].request
  BY <1>3, <1>4 DEF TurnInv, TurnShape, Children
<1>6. ChildrenFrozen
  BY <1>4, <1>5, RequestFrozen
<1>7. /\ Resumed \in Calling /\ Resumed.request = suspended[Approved.call].request
      /\ Approved.call \in DOMAIN suspended /\ Resuming
  BY ResumedIs DEF ConsumeGrant, Unconsumed, Suspended
<1>8. worker'.request = suspended[Approved.call].request
  BY <1>7 DEF ConsumeGrant, Becomes, Calling
<1> QED
  BY <1>1, <1>6, <1>7, <1>8, FrozenFrame DEF SuspendedFrozen, WorkerFrozen

LEMMA SuspendFrozen ==
    ASSUME TurnInv, FrozenInv, Suspend
    PROVE  FrozenInv'
<1>1. UNCHANGED <<children, barrier, context>>
  BY DEF Suspend
<1>2. worker \in Calling /\ InRound
  BY WorkerIs DEF Suspend, Suspending, Policed, InTools, TurnInv, TurnShape, InRound, At
<1>3. PICK s : s = Suspension
  OBVIOUS
<1>4. s.request = worker.request
  BY <1>3 DEF Suspension
<1>5. PICK c : c = Call
  OBVIOUS
<1>6. /\ DOMAIN suspended' = DOMAIN suspended \cup {c} /\ suspended'[c] = s
      /\ \A x \in DOMAIN suspended : suspended'[x] = suspended[x]
  BY <1>3, <1>5 DEF Suspend
<1>7. SuspendedFrozen
  BY <1>2, <1>4, <1>6 DEF SuspendedFrozen, FromWorker
<1>8. worker' \in Ending
  <2>1. worker.work \in Works /\ "completed" \in Statuses /\ <<>> \in Reports
    BY <1>2 DEF Calling, Statuses, Reports
  <2> QED
    BY <2>1, EndsIsEnding DEF Suspend
<1> QED
  BY <1>1, <1>7, <1>8, NobodyInRound, FrozenFrame DEF ChildrenFrozen

LEMMA OutcomeFrozen ==
    ASSUME TurnAssumption, TurnInv, FrozenInv,
           Act \/ Answered \/ Refused \/ Lost \/ DenyTool \/ ResumeInterrupted
    PROVE  FrozenInv'
<1>1. UNCHANGED <<suspended, barrier, context>>
  BY DEF Act, Answered, Refused, Lost, DenyTool, ResumeInterrupted, Unchanged, records
<1>2. CASE Act
  <2>1. InFlight
    BY <1>2 DEF Act, InFlight, At
  <2>2. worker \in Modelling \cup Calling /\ InRound
    BY <2>1, InFlightIs DEF InRound, InFlight
  <2>3. FromWorker(worker'.request)
    BY <1>2, <2>2 DEF Act, FromWorker, Modelling, Calling
  <2>4. children' = children
    BY <1>2 DEF Act, records
  <2> QED
    BY <1>1, <2>3, <2>4, RecordsFrozen, FrozenFrame DEF WorkerFrozen
<1>3. CASE Answered \/ Refused \/ Lost
  <2>1. InFlight
    BY <1>3 DEF Answered, Refused, Lost, InFlight, At
  <2>2. PICK status, answer : Records(status, answer)
    BY <1>3 DEF Answered, Refused, Lost
  <2>3. PICK s : s = Slot
    OBVIOUS
  <2>4. PICK c : c = [children[s] EXCEPT !.ends = @ \cup {status}, !.answer = answer]
    OBVIOUS
  <2>5. children' = [children EXCEPT ![s] = c] /\ c.request = children[s].request
    BY <2>1, <2>2, <2>3, <2>4, InFlightIs DEF Records, Children
  <2>6. ChildrenFrozen
    BY <2>5, RequestFrozen
  <2>7. WorkerFrozen
    <3>1. InRound /\ worker.work \in Works
      BY <2>1, InFlightIs DEF InRound, InFlight
    <3>2. CASE Refused \/ Lost
      BY <3>1, <3>2, FailsIsEnding, NobodyInRound DEF Refused, Lost, Statuses
    <3>3. CASE Answered /\ InModel
      <4>1. PICK calls \in Responses : Answers(calls)
        BY <3>3 DEF Answered
      <4>2. calls \in Seq(Calls) /\ worker \in Modelling /\ worker.round \in Rounds
        BY <2>1, <3>3, InFlightIs DEF TurnAssumption, Modelling
      <4>3. CASE calls = <<>>
        BY <3>1, <4>1, <4>3, FinishesIsEnding, NobodyInRound DEF Answers
      <4>4. CASE calls # <<>>
        BY <3>1, <4>1, <4>2, <4>4, AnsweredRound DEF WorkerFrozen, FromWorker
      <4> QED
        BY <4>3, <4>4
    <3>4. CASE Answered /\ ~InModel
      <4>1. worker' = [Took(worker) EXCEPT !.pc = "tools"]
        BY <3>4 DEF Answered, Becomes
      <4>2. worker \in Calling /\ worker.index <= Len(worker.calls)
        BY <2>1, <3>4, InFlightIs
      <4> QED
        BY <3>1, <4>1, <4>2, NextCall DEF WorkerFrozen, FromWorker
    <3> QED
      BY <1>3, <3>2, <3>3, <3>4
  <2> QED
    BY <1>1, <2>6, <2>7, FrozenFrame DEF SuspendedFrozen
<1>4. CASE DenyTool \/ ResumeInterrupted
  <2>1. PICK s, status : /\ s \in DOMAIN children
                         /\ children' = [children EXCEPT ![s].ends = @ \cup {status}]
    <3>1. CASE DenyTool
      BY <3>1 DEF DenyTool
    <3>2. CASE ResumeInterrupted
      BY <3>2 DEF ResumeInterrupted, Interrupted, Prepared
    <3> QED
      BY <1>4, <3>1, <3>2
  <2>2. PICK c : c = [children[s] EXCEPT !.ends = @ \cup {status}]
    OBVIOUS
  <2>3. children' = [children EXCEPT ![s] = c] /\ c.request = children[s].request
    BY <2>1, <2>2 DEF TurnInv, TurnShape, Children
  <2>4. worker.work \in Works /\ "unknown" \in Statuses
    BY <1>4, EnteringIs DEF TurnInv, DenyTool, ResumeInterrupted, Policed, InTools, Resuming, Statuses
  <2>5. worker' \in Ending
    BY <1>4, <2>4, FinishesIsEnding, FailsIsEnding DEF DenyTool, ResumeInterrupted
  <2> QED
    BY <1>1, <2>3, <2>5, RequestFrozen, NobodyInRound, FrozenFrame DEF SuspendedFrozen
<1> QED
  BY <1>2, <1>3, <1>4

LEMMA FrozenStep ==
    ASSUME TurnAssumption, TurnInv, FrozenInv, [TurnNext]_turnVars
    PROVE  FrozenInv'
<1>1. CASE Worker
  <2>1. CASE Open \/ Decide \/ FinishWork \/ CompleteStep \/ PrepareTurn
    BY <2>1, BetweenFrozen, OthersFrozen, ContextFrozen DEF Decide
  <2>2. CASE ModelRound
    BY <2>2, PreparedFrozen, StopsFrozen, StartedFrozen, RoundFrozen DEF ModelRound
  <2>3. CASE ToolRound
    BY <2>3, PreparedFrozen, RoundFrozen, StartedFrozen, StopsFrozen, OutcomeFrozen, SuspendFrozen
       DEF ToolRound
  <2>4. CASE ResumeAuthorization
    BY <2>4, StopsFrozen, RoundFrozen, OutcomeFrozen, ConsumedFrozen DEF ResumeAuthorization
  <2> QED
    BY <1>1, <2>1, <2>2, <2>3, <2>4 DEF Worker
<1>2. CASE Outside \/ Faults
  BY <1>2, OutcomeFrozen, ContextFrozen, OthersFrozen, BetweenFrozen DEF Outside, Faults
<1>3. CASE Timers \/ People \/ UNCHANGED turnVars
  BY <1>3, OthersFrozen
<1> QED
  BY <1>1, <1>2, <1>3 DEF TurnNext

(* With the barrier every model call of a turn is made on the presentation *)
(* that was committed, whoever makes it and however the world changed.     *)
THEOREM ContextsAreFrozen == TurnSpec => []ContextIsFrozen
<1>1. TurnInit => FrozenInv
  BY DEF TurnInit, FrozenInv, InRound, Down, Nothing
<1>2. TurnInv /\ FrozenInv /\ [TurnNext]_turnVars => FrozenInv'
  BY TurnAssumption, FrozenStep
<1>3. FrozenInv => ContextIsFrozen
  BY DEF FrozenInv, ContextIsFrozen
<1> QED
  BY <1>1, <1>2, <1>3, TurnsAreOrderly, PTL DEF TurnSpec
-----------------------------------------------------------------------------
(* The contract of an authorization.  An event that is appended moves its  *)
(* authorization as the contract allows, or not at all.                    *)
HasActed(a) == \E i \in DOMAIN acted : acted[i] = a

LEMMA ContractSees ==
    ASSUME UNCHANGED <<tip, elapsed, acted>>
    PROVE  UNCHANGED Grants!grantVars
  BY DEF Grants!grantVars

LEMMA EventMoves ==
    ASSUME tip \in [Asks -> Standings], NEW e \in TurnEvents \cup AskEvents, tip' = Folded(tip, e),
           UNCHANGED <<elapsed, acted>>,
           e.type \in {"granted", "denied", "consumed"} => e.about \notin elapsed,
           e.type = "expired" => e.about \in elapsed
    PROVE  [Grants!GrantNext]_(Grants!grantVars)
<1>1. CASE e.about \in Asks /\ Matches(e.type, tip[e.about])
  <2>1. PICK a \in Asks : a = e.about
    BY <1>1
  <2>2. tip' = [tip EXCEPT ![a] = Standing(e.type)]
    BY <1>1, <2>1 DEF Folded
  <2>3. UNCHANGED <<elapsed, {x \in Asks : \E i \in DOMAIN acted : acted[i] = x}>>
    OBVIOUS
  <2>4. e.type \in {"requested", "granted", "denied", "expired", "consumed"}
    BY <1>1 DEF Matches
  <2>5. Grants!Request(a) \/ Grants!Grant(a) \/ Grants!Deny(a) \/ Grants!Expire(a) \/ Grants!Consume(a)
    <3>1. CASE e.type = "requested"
      BY <1>1, <2>1, <2>2, <2>3, <3>1 DEF Matches, Standing, Grants!Request, Grants!Moves
    <3>2. CASE e.type = "granted"
      BY <1>1, <2>1, <2>2, <2>3, <3>2 DEF Matches, Standing, Grants!Grant, Grants!Moves
    <3>3. CASE e.type = "denied"
      BY <1>1, <2>1, <2>2, <2>3, <3>3 DEF Matches, Standing, Grants!Deny, Grants!Moves
    <3>4. CASE e.type = "expired"
      BY <1>1, <2>1, <2>2, <2>3, <3>4 DEF Matches, Live, Standing, Grants!Expire, Grants!Moves
    <3>5. CASE e.type = "consumed"
      BY <1>1, <2>1, <2>2, <2>3, <3>5 DEF Matches, Standing, Grants!Consume, Grants!Moves
    <3> QED
      BY <2>4, <3>1, <3>2, <3>3, <3>4, <3>5
  <2> QED
    BY <2>5 DEF Grants!GrantNext
<1>2. CASE ~(e.about \in Asks /\ Matches(e.type, tip[e.about]))
  BY <1>2, ContractSees DEF Folded
<1> QED
  BY <1>1, <1>2

LEMMA GrantsAppended ==
    ASSUME TurnInv, NEW e \in TurnEvents \cup AskEvents, Appended(<<e>>), UNCHANGED <<elapsed, acted>>,
           e.type \in {"granted", "denied", "consumed"} => e.about \notin elapsed,
           e.type = "expired" => e.about \in elapsed
    PROVE  [Grants!GrantNext]_(Grants!grantVars)
<1>1. tip' = Folded(tip, e) /\ tip \in [Asks -> Standings]
  BY DEF Appended, TurnInv, TurnShape
<1> QED
  BY <1>1, EventMoves

LEMMA GrantsActed == ASSUME TurnAssumption, TurnInv, Act PROVE [Grants!GrantNext]_(Grants!grantVars)
<1> DEFINE done == {a \in Asks : \E i \in DOMAIN acted : acted[i] = a}
<1>1. InFlight /\ At("call") /\ UNCHANGED <<tip, elapsed>>
  BY DEF Act, InFlight, At
<1>2. PICK s : s = Slot
  OBVIOUS
<1>3. acted' = Append(acted, s) /\ acted \in Seq(Slots) /\ s \in Slots
  BY <1>1, <1>2, SlotIsOne DEF Act, TurnInv, TurnShape
<1>4. /\ DOMAIN acted' = 1 .. Len(acted) + 1 /\ DOMAIN acted = 1 .. Len(acted)
      /\ \A i \in 1 .. Len(acted) : acted'[i] = acted[i]
      /\ acted'[Len(acted) + 1] = s /\ Len(acted) \in Nat
  BY <1>3, AppendProperties
<1>5. \A a \in Asks : HasActed(a)' <=> HasActed(a) \/ a = s
  BY <1>4 DEF HasActed
<1>6. (s \in Asks => tip[s] = "consumed") /\ ~HasActed(s)
  BY <1>1, <1>2, InFlightIs DEF TurnInv, WorkerOK, HasActed
<1>7. done = {a \in Asks : HasActed(a)} /\ done' = {a \in Asks : HasActed(a)'}
  BY DEF HasActed
<1>8. CASE s \in Asks
  <2>1. done' = done \cup {s} /\ s \notin done
    BY <1>5, <1>6, <1>7, <1>8
  <2>2. Grants!Happen(s)
    BY <1>1, <1>6, <1>8, <2>1 DEF Grants!Happen
  <2> QED
    BY <1>8, <2>2 DEF Grants!GrantNext
<1>9. CASE s \notin Asks
  <2>1. done' = done
    BY <1>5, <1>7, <1>9
  <2> QED
    BY <1>1, <2>1 DEF Grants!grantVars
<1> QED
  BY <1>8, <1>9

LEMMA GrantsElapse ==
    ASSUME NEW a \in Asks, Elapse(a)
    PROVE  [Grants!GrantNext]_(Grants!grantVars)
<1>1. Grants!TimePasses(a)
  BY DEF Elapse, Grants!TimePasses
<1> QED
  BY <1>1 DEF Grants!GrantNext

LEMMA GrantsDecided ==
    ASSUME TurnInv, DecideControl
    PROVE  [Grants!GrantNext]_(Grants!grantVars)
<1>1. /\ Current \in TurnEvents \cup AskEvents /\ Current = unread[1] /\ 1 \in DOMAIN unread
      /\ UNCHANGED <<elapsed, acted>>
  BY TailIs DEF DecideControl, Deciding, outside
<1>2. CASE Emitted(Current) = <<>>
  BY <1>1, <1>2, ContractSees DEF DecideControl
<1>3. CASE Emitted(Current) # <<>>
  <2>1. Current.type = "tick" /\ Current \in AskEvents
    BY <1>1, <1>3 DEF Emitted, TurnEvents, AskEvents
  <2>2. PICK e : e = Event("expired", Current.about)
    OBVIOUS
  <2>3. e \in AskEvents /\ e.type = "expired" /\ e.about \in elapsed
    BY <1>1, <2>1, <2>2, EventIsAsk DEF AskEvents, TurnInv, EventsOK
  <2>4. tip' = Folded(tip, e) /\ tip \in [Asks -> Standings]
    BY <1>3, <2>2 DEF Emitted, DecideControl, TurnInv, TurnShape
  <2> QED
    BY <1>1, <2>3, <2>4, EventMoves
<1> QED
  BY <1>2, <1>3

LEMMA GrantsRecorded ==
    ASSUME TurnAssumption, TurnInv, Suspend \/ ExpireGrant \/ ConsumeGrant \/ FinishWork
    PROVE  [Grants!GrantNext]_(Grants!grantVars)
<1>1. UNCHANGED <<elapsed, acted>>
  BY DEF Suspend, ExpireGrant, ConsumeGrant, FinishWork, outside
<1>2. CASE FinishWork
  <2>1. worker \in Ending
    BY <1>2, WorkerIs DEF FinishWork, TurnInv, TurnShape
  <2>2. CASE worker.events = <<>>
    BY <1>1, <1>2, <2>2, NothingAppended, ContractSees DEF FinishWork
  <2>3. CASE worker.events # <<>>
    <3>1. PICK e \in TurnEvents : worker.events = <<e>>
      BY <2>1, <2>3 DEF Ending, Reports
    <3> QED
      BY <1>1, <1>2, <3>1, GrantsAppended DEF FinishWork, TurnEvents
  <2> QED
    BY <2>2, <2>3
<1>3. CASE Suspend
  <2>1. ~InModel /\ InTools /\ Policy[worker.calls[worker.index]] = "ask"
    BY <1>3, WorkerIs DEF Suspend, Suspending, Policed, InTools, TurnInv, TurnShape
  <2>2. Slot \in Asks
    BY <2>1, SlotIsOne, ToolSlots DEF TurnInv
  <2>3. PICK a \in Asks : a = Slot
    BY <2>2
  <2>4. Appended(<<Event("requested", a)>>)
    BY <1>3, <2>3 DEF Suspend
  <2> QED
    BY <1>1, <2>4, EventIsAsk, GrantsAppended
<1>4. CASE ExpireGrant \/ ConsumeGrant
  <2>1. PICK a \in Asks : a = Approved
    BY <1>4, ResumedIs DEF ExpireGrant, ConsumeGrant, Unconsumed
  <2>2. CASE ExpireGrant
    <3>1. Appended(<<Event("expired", a)>>) /\ a \in elapsed
      BY <2>1, <2>2 DEF ExpireGrant, TooLate
    <3> QED
      BY <1>1, <3>1, EventIsAsk, GrantsAppended
  <2>3. CASE ConsumeGrant
    <3>1. Appended(<<Event("consumed", a)>>) /\ a \notin elapsed
      BY <2>1, <2>3 DEF ConsumeGrant, TooLate
    <3> QED
      BY <1>1, <3>1, EventIsAsk, GrantsAppended
  <2> QED
    BY <1>4, <2>2, <2>3
<1> QED
  BY <1>2, <1>3, <1>4

LEMMA GrantsByOthers ==
    ASSUME TurnInv, NEW a \in Asks, Grant(a) \/ Deny(a) \/ Tick(a)
    PROVE  [Grants!GrantNext]_(Grants!grantVars)
<1>1. UNCHANGED <<elapsed, acted>>
  BY DEF Grant, Deny, Tick, DecisionBy, outside
<1>2. CASE Tick(a)
  BY <1>1, <1>2, EventIsAsk, GrantsAppended DEF Tick
<1>3. CASE Grant(a) \/ Deny(a)
  <2>1. PICK type \in {"granted", "denied"} :
            Appended(<<Event(IF a \in elapsed THEN "expired" ELSE type, a)>>)
    BY <1>3 DEF Grant, Deny, DecisionBy
  <2>2. CASE a \in elapsed
    BY <1>1, <2>1, <2>2, EventIsAsk, GrantsAppended
  <2>3. CASE a \notin elapsed
    BY <1>1, <2>1, <2>3, EventIsAsk, GrantsAppended
  <2> QED
    BY <2>2, <2>3
<1> QED
  BY <1>2, <1>3

LEMMA GrantsUnseen ==
    ASSUME \/ Open \/ DecideWork \/ CompleteStep \/ PrepareTurn \/ ModelRound
           \/ PrepareTool \/ ReuseTool \/ StartTool \/ StopAtTool \/ DenyTool \/ NextRound
           \/ AlreadySuspended \/ GrantIsGone \/ ResumeCompleted \/ ResumeInterrupted
           \/ Answered \/ Faults \/ UNCHANGED turnVars
    PROVE  UNCHANGED Grants!grantVars
<1>1. CASE Open \/ DecideWork \/ CompleteStep \/ PrepareTurn \/ UNCHANGED turnVars
  BY <1>1, ContractSees DEF Open, DecideWork, CompleteStep, PrepareTurn, ReuseContext, PrepareContext,
                            turnVars, outside
<1>2. CASE ModelRound \/ PrepareTool \/ ReuseTool \/ StartTool \/ StopAtTool \/ DenyTool \/ NextRound
           \/ AlreadySuspended \/ GrantIsGone \/ ResumeCompleted \/ ResumeInterrupted \/ Answered
  <2>1. Unchanged \/ \E s, request : Prepares(s, request)
    BY <1>2 DEF ModelRound, PrepareModel, ModelChanged, StartModel, StopAtModel, TooManyRounds,
                ReuseModel, PrepareTool, ReuseTool, StartTool, StopAtTool, DenyTool, NextRound,
                AlreadySuspended, GrantIsGone, ResumeCompleted, ResumeInterrupted, Answered
  <2> QED
    BY <2>1, ContractSees DEF Unchanged, Prepares, outside
<1>3. CASE Faults
  BY <1>3, ContractSees DEF Faults, PreparationFails, RouteChanged, Refused, Lost, WorldChanges, Crash,
                            outside
<1> QED
  BY <1>1, <1>2, <1>3

LEMMA GrantStep ==
    ASSUME TurnAssumption, TurnInv, [TurnNext]_turnVars
    PROVE  [Grants!GrantNext]_(Grants!grantVars)
<1>1. CASE Worker
  BY <1>1, GrantsUnseen, GrantsDecided, GrantsRecorded
     DEF Worker, Decide, ToolRound, ResumeAuthorization
<1>2. CASE Outside \/ Faults \/ UNCHANGED turnVars
  BY <1>2, GrantsUnseen, GrantsActed DEF Outside
<1>3. CASE Timers \/ People
  BY <1>3, GrantsElapse, GrantsByOthers DEF Timers, People
<1> QED
  BY <1>1, <1>2, <1>3 DEF TurnNext

(* A native turn implements the contract of ActionGrant: an authorization  *)
(* is decided once and in time, a grant is spent at most once and in time, *)
(* and its call acts once and only on a spent grant.                       *)
THEOREM TurnsImplementGrants == TurnSpec => ImplementsGrant
<1>1. TurnInit => Grants!GrantInit
  BY DEF TurnInit, Grants!GrantInit
<1>2. TurnInv /\ [TurnNext]_turnVars => [Grants!GrantNext]_(Grants!grantVars)
  BY TurnAssumption, GrantStep
<1> QED
  BY <1>1, <1>2, TurnsAreOrderly, PTL DEF TurnSpec, ImplementsGrant, Grants!GrantSpec

-----------------------------------------------------------------------------
(* What a turn is shown of its past.                                       *)

(* A turn appends the result of a call right behind the call               *)
(* (Executor.FinishTurn); other members' events are not among these.       *)
ResultsFollowCalls ==
    \A l \in Logs :
        /\ Len(l) \in Nat /\ DOMAIN l = 1 .. Len(l)
        /\ \A i \in DOMAIN l :
              l[i].type = "result" /\ l[i].call # NoCall =>
                  i # 1 /\ l[i - 1].type = "call" /\ l[i - 1].call = l[i].call

(* The elements of a set of positions up to one, and the n-th of them.     *)
UpTo(s, i) == {k \in s : k <= i}
Nth(s, n) == CHOOSE i \in s : Cardinality(UpTo(s, i)) = n

Shown(l) == {i \in DOMAIN l : l[i].type # "done" /\ ~(l[i].type = "response" /\ Native(l, i))}

LEMMA ProjectIs ==
    ASSUME NEW l
    PROVE  Project(l) = [n \in 1 .. Cardinality(Shown(l)) |-> ItemOf(l[Nth(Shown(l), n)])]
BY DEF Project, Shown, Nth, UpTo

LEMMA LeastOf ==
    ASSUME NEW S, S \subseteq Nat, S # {}
    PROVE  \E i \in S : \A j \in S : i <= j
<1> DEFINE Before == OpToRel(<, Nat)
<1>1. Before = {ss \in Nat \X Nat : ss[1] < ss[2]}
  BY Zenon DEF OpToRel
<1>2. IsWellFoundedOn(Before, Nat)
  BY NatLessThanWellFounded
<1> HIDE DEF Before
<1>3. PICK least \in S : \A k \in S : ~(<<k, least>> \in Before)
  BY <1>2, WFMin
<1>4. ASSUME NEW k \in S PROVE least <= k
  <2>1. k \in Nat /\ least \in Nat /\ <<k, least>> \in Nat \X Nat
    BY <1>3
  <2>2. ~(k < least)
    BY <1>1, <1>3, <2>1
  <2> QED
    BY <2>1, <2>2
<1> QED
  BY <1>3, <1>4

LEMMA MinimumOf == ASSUME NEW S, S \subseteq Nat, S # {} PROVE Min(S) \in S /\ \A k \in S : Min(S) <= k
<1>1. PICK least \in S : \A k \in S : least <= k
  BY LeastOf
<1> QED
  BY <1>1 DEF Min

LEMMA MaximumOf ==
    ASSUME NEW b \in Nat, NEW S, S \subseteq 1 .. b, S # {}
    PROVE  Max(S) \in S
<1> DEFINE T == {b - s : s \in S}
<1>1. T \subseteq Nat /\ T # {}
  <2>1. ASSUME NEW s \in S PROVE b - s \in Nat /\ b - s \in T
    OBVIOUS
  <2> QED
    BY <2>1
<1> HIDE DEF T
<1>2. PICK d \in T : \A k \in T : d <= k
  BY <1>1, LeastOf
<1>3. PICK s \in S : d = b - s
  BY <1>2 DEF T
<1>4. ASSUME NEW k \in S PROVE s >= k
  <2>1. b - k \in T
    BY DEF T
  <2>2. b - s <= b - k /\ s \in Nat /\ k \in Nat
    BY <1>2, <1>3, <2>1
  <2> QED
    BY <2>2
<1> QED
  BY <1>4 DEF Max

(* Counting along a set of positions: it goes up by one at each of them.   *)
Counted(b, s) ==
    /\ \A i : IsFiniteSet(UpTo(s, i)) /\ Cardinality(UpTo(s, i)) \in Nat
    /\ \A i \in s : Cardinality(UpTo(s, i)) = Cardinality(UpTo(s, i - 1)) + 1
    /\ \A i \in 1 .. b : i \notin s => UpTo(s, i) = UpTo(s, i - 1)
    /\ \A i, j \in 0 .. b : i <= j => Cardinality(UpTo(s, i)) <= Cardinality(UpTo(s, j))
    /\ UpTo(s, b) = s /\ UpTo(s, 0) = {}

LEMMA Counts ==
    ASSUME NEW b \in Nat, NEW s, s \subseteq 1 .. b
    PROVE  Counted(b, s)
<1>1. IsFiniteSet(s)
  <2>1. IsFiniteSet(1 .. b)
    BY FS_Interval
  <2> QED
    BY <2>1, FS_Subset
<1>2. ASSUME NEW i PROVE IsFiniteSet(UpTo(s, i)) /\ Cardinality(UpTo(s, i)) \in Nat
  <2>1. UpTo(s, i) \in SUBSET s
    BY DEF UpTo
  <2>2. IsFiniteSet(UpTo(s, i))
    BY <1>1, <2>1, FS_Subset
  <2> QED
    BY <2>2, FS_CardinalityType
<1>7. \A k \in s : k \in Nat /\ k <= b /\ ~(k <= 0)
  OBVIOUS
<1>3. ASSUME NEW i \in s PROVE Cardinality(UpTo(s, i)) = Cardinality(UpTo(s, i - 1)) + 1
  <2>1. UpTo(s, i) = UpTo(s, i - 1) \cup {i} /\ i \notin UpTo(s, i - 1)
    <3>1. \A k \in s : (k <= i <=> k <= i - 1 \/ k = i)
      BY <1>7
    <3>2. ~(i <= i - 1)
      BY <1>7
    <3> QED
      BY <3>1, <3>2 DEF UpTo
  <2>2. IsFiniteSet(UpTo(s, i - 1))
    BY <1>2
  <2> QED
    BY <2>1, <2>2, FS_AddElement
<1>4. ASSUME NEW i \in 1 .. b, i \notin s PROVE UpTo(s, i) = UpTo(s, i - 1)
  <2>1. \A k \in s : (k <= i <=> k <= i - 1)
    BY <1>4, <1>7
  <2> QED
    BY <2>1 DEF UpTo
<1>5. ASSUME NEW i \in 0 .. b, NEW j \in 0 .. b, i <= j
      PROVE  Cardinality(UpTo(s, i)) <= Cardinality(UpTo(s, j))
  <2>1. UpTo(s, i) \in SUBSET UpTo(s, j)
    <3>1. \A k \in s : k <= i => k <= j
      BY <1>5, <1>7
    <3> QED
      BY <3>1 DEF UpTo
  <2> QED
    BY <1>2, <2>1, FS_Subset
<1>6. UpTo(s, b) = s /\ UpTo(s, 0) = {}
  BY <1>7 DEF UpTo
<1> QED
  BY <1>2, <1>3, <1>4, <1>5, <1>6 DEF Counted

LEMMA NthIs ==
    ASSUME NEW b \in Nat, NEW s, s \subseteq 1 .. b, NEW i \in s
    PROVE  Nth(s, Cardinality(UpTo(s, i))) = i
<1>9. Counted(b, s)
  BY Counts
<1>0. /\ \A j \in s : Cardinality(UpTo(s, j)) = Cardinality(UpTo(s, j - 1)) + 1
      /\ \A j, k \in 0 .. b : j <= k => Cardinality(UpTo(s, j)) <= Cardinality(UpTo(s, k))
      /\ \A j : Cardinality(UpTo(s, j)) \in Nat
  BY <1>9 DEF Counted
<1>1. ASSUME NEW j \in s, NEW k \in s, j < k PROVE Cardinality(UpTo(s, j)) # Cardinality(UpTo(s, k))
  <2>1. j \in 0 .. b /\ k - 1 \in 0 .. b /\ j <= k - 1
    BY <1>1
  <2>2. Cardinality(UpTo(s, j)) <= Cardinality(UpTo(s, k - 1))
    BY <1>0, <2>1
  <2>3. Cardinality(UpTo(s, k)) = Cardinality(UpTo(s, k - 1)) + 1
    BY <1>0
  <2>4. Cardinality(UpTo(s, j)) \in Nat /\ Cardinality(UpTo(s, k - 1)) \in Nat
    BY <1>0
  <2> QED
    BY <2>2, <2>3, <2>4
<1>2. ASSUME NEW j \in s, Cardinality(UpTo(s, j)) = Cardinality(UpTo(s, i)) PROVE j = i
  <2>1. j \in Nat /\ i \in Nat
    OBVIOUS
  <2> QED
    BY <1>1, <1>2, <2>1
<1> QED
  BY <1>2 DEF Nth

LEMMA NthShows ==
    ASSUME NEW b \in Nat, NEW s, s \subseteq 1 .. b, NEW n \in 1 .. Cardinality(s)
    PROVE  Nth(s, n) \in s /\ Cardinality(UpTo(s, Nth(s, n))) = n
<1> DEFINE T == {i \in 1 .. b : n <= Cardinality(UpTo(s, i))}
<1>9. Counted(b, s)
  BY Counts
<1>0. /\ \A j \in s : Cardinality(UpTo(s, j)) = Cardinality(UpTo(s, j - 1)) + 1
      /\ \A j \in 1 .. b : j \notin s => UpTo(s, j) = UpTo(s, j - 1)
      /\ \A j : Cardinality(UpTo(s, j)) \in Nat
  BY <1>9 DEF Counted
<1>1. UpTo(s, b) = s /\ UpTo(s, 0) = {} /\ Cardinality({}) = 0 /\ n \in Nat \ {0} /\ Cardinality(s) \in Nat
  <2>1. UpTo(s, b) = s /\ UpTo(s, 0) = {} /\ Cardinality(UpTo(s, b)) \in Nat
    BY <1>9 DEF Counted
  <2> QED
    BY <2>1, FS_EmptySet
<1>2. b \in T
  <2>1. b # 0
    BY <1>1
  <2> QED
    BY <1>1, <2>1
<1>3. PICK i \in T : \A j \in T : i <= j
  <2>1. T \subseteq Nat
    OBVIOUS
  <2> HIDE DEF T
  <2> QED
    BY <1>2, <2>1, LeastOf
<1>4. i \in 1 .. b /\ n <= Cardinality(UpTo(s, i))
  BY <1>3
<1>5. Cardinality(UpTo(s, i - 1)) < n
  <2>1. CASE i = 1
    BY <1>1, <2>1
  <2>2. CASE i # 1
    <3>1. i - 1 \in 1 .. b /\ i - 1 < i
      BY <1>4, <2>2
    <3>2. i - 1 \notin T
      BY <1>3, <1>4, <3>1
    <3>3. Cardinality(UpTo(s, i - 1)) \in Nat
      BY <1>0
    <3> QED
      BY <1>1, <3>1, <3>2, <3>3
  <2> QED
    BY <2>1, <2>2
<1>6. i \in s /\ Cardinality(UpTo(s, i)) = n
  <2>1. Cardinality(UpTo(s, i)) \in Nat /\ Cardinality(UpTo(s, i - 1)) \in Nat
    BY <1>0
  <2>2. i \in s
    <3>1. SUFFICES ASSUME i \notin s PROVE FALSE
      OBVIOUS
    <3>2. UpTo(s, i) = UpTo(s, i - 1)
      BY <1>0, <1>4, <3>1
    <3> QED
      BY <1>1, <1>4, <1>5, <2>1, <3>2
  <2>3. Cardinality(UpTo(s, i)) = Cardinality(UpTo(s, i - 1)) + 1
    BY <1>0, <2>2
  <2> QED
    BY <1>1, <1>4, <1>5, <2>1, <2>2, <2>3
<1> QED
  BY <1>6 DEF Nth

(* What is shown of a log that has every call before its result has every  *)
(* call before its result.                                                 *)
Paired(s) ==
    /\ Len(s) \in Nat /\ DOMAIN s = 1 .. Len(s)
    /\ \A i \in DOMAIN s :
          s[i].kind = "tool_result" /\ s[i].call # NoCall =>
              i # 1 /\ s[i - 1].kind = "tool_call" /\ s[i - 1].call = s[i].call

LEMMA KindsAre ==
    ASSUME NEW e
    PROVE  /\ ItemOf(e).kind = KindOf(e.type) /\ ItemOf(e).type = e.type /\ ItemOf(e).call = e.call
           /\ e.type \in EventTypes /\ KindOf(e.type) = "tool_result" => e.type \in {"result", "done"}
           /\ e.type = "call" => KindOf(e.type) = "tool_call"
<1>1. e.type \in EventTypes /\ KindOf(e.type) = "tool_result" => e.type \in {"result", "done"}
  BY DEF EventTypes, KindOf
<1>2. e.type = "call" => KindOf(e.type) = "tool_call"
  BY DEF KindOf
<1> QED
  BY <1>1, <1>2 DEF ItemOf

LEMMA ProjectPairs ==
    ASSUME ResultsFollowCalls, NEW l \in Logs
    PROVE  Paired(Project(l)) /\ \A i \in DOMAIN Project(l) : Project(l)[i].type \in EventTypes
<1> DEFINE s == Shown(l)
           b == Len(l)
           p == Project(l)
<1>1. /\ b \in Nat /\ DOMAIN l = 1 .. b /\ s \subseteq 1 .. b
      /\ \A i \in 1 .. b : l[i].type \in EventTypes
      /\ \A i \in 1 .. b : l[i].type = "result" /\ l[i].call # NoCall =>
            i # 1 /\ l[i - 1].type = "call" /\ l[i - 1].call = l[i].call
      /\ \A i \in s : l[i].type # "done"
      /\ \A i \in 1 .. b : l[i].type = "call" => i \in s
  BY PreparationAssumption DEF ResultsFollowCalls, Shown
<1>2. p = [n \in 1 .. Cardinality(s) |-> ItemOf(l[Nth(s, n)])]
  BY ProjectIs
<1> HIDE DEF s, b, p
<1>3. Counted(b, s)
  BY <1>1, Counts
<1>4. Cardinality(s) \in Nat /\ Len(p) = Cardinality(s) /\ DOMAIN p = 1 .. Cardinality(s)
  <2>1. Cardinality(UpTo(s, b)) \in Nat /\ UpTo(s, b) = s
    BY <1>3 DEF Counted
  <2> QED
    BY <1>2, <2>1
<1>5. ASSUME NEW n \in 1 .. Cardinality(s)
      PROVE  /\ Nth(s, n) \in s /\ Cardinality(UpTo(s, Nth(s, n))) = n /\ p[n] = ItemOf(l[Nth(s, n)])
  <2>1. Nth(s, n) \in s /\ Cardinality(UpTo(s, Nth(s, n))) = n
    BY <1>1, NthShows
  <2> QED
    BY <1>2, <2>1
<1>6. ASSUME NEW n \in 1 .. Cardinality(s), p[n].kind = "tool_result", p[n].call # NoCall
      PROVE  n # 1 /\ p[n - 1].kind = "tool_call" /\ p[n - 1].call = p[n].call
  <2> DEFINE i == Nth(s, n)
             h == i - 1
  <2>1. i \in s /\ Cardinality(UpTo(s, i)) = n /\ p[n] = ItemOf(l[i])
    BY <1>5
  <2> HIDE DEF i
  <2>2. i \in 1 .. b /\ l[i].type = "result" /\ p[n].call = l[i].call
    <3>1. i \in 1 .. b /\ l[i].type \in EventTypes /\ l[i].type # "done"
      BY <1>1, <2>1
    <3>2. KindOf(l[i].type) = "tool_result" /\ p[n].call = l[i].call
      BY <1>6, <2>1, KindsAre
    <3>3. l[i].type \in {"result", "done"}
      BY <3>1, <3>2, KindsAre
    <3> QED
      BY <3>1, <3>2, <3>3
  <2>3. i # 1 /\ l[h].type = "call" /\ l[h].call = l[i].call
    BY <1>1, <1>6, <2>2
  <2>4. h \in 1 .. b
    BY <1>1, <2>2, <2>3
  <2>5. Cardinality(UpTo(s, i)) = Cardinality(UpTo(s, h)) + 1
    BY <1>3, <2>1 DEF Counted
  <2> HIDE DEF h
  <2>6. h \in s
    BY <1>1, <2>3, <2>4
  <2>7. Nth(s, Cardinality(UpTo(s, h))) = h
    BY <1>1, <2>6, NthIs
  <2>8. Cardinality(UpTo(s, h)) \in Nat /\ Cardinality(UpTo(s, h)) # 0
    <3>1. IsFiniteSet(UpTo(s, h)) /\ Cardinality(UpTo(s, h)) \in Nat
      BY <1>3 DEF Counted
    <3>2. h \in UpTo(s, h)
      BY <2>4, <2>6 DEF UpTo
    <3> QED
      BY <3>1, <3>2, FS_EmptySet
  <2> DEFINE m == Cardinality(UpTo(s, h))
  <2>9. m \in Nat /\ m # 0 /\ n = m + 1 /\ Nth(s, m) = h
    BY <2>1, <2>5, <2>7, <2>8
  <2> HIDE DEF m
  <2>10. m \in 1 .. Cardinality(s) /\ n - 1 = m /\ n # 1
    BY <1>4, <2>9
  <2>11. p[m] = ItemOf(l[h])
    BY <1>5, <2>9, <2>10
  <2>12. p[m].kind = "tool_call" /\ p[m].call = l[h].call
    BY <2>3, <2>11, KindsAre
  <2> QED
    BY <2>2, <2>3, <2>10, <2>12
<1>7. ASSUME NEW n \in 1 .. Cardinality(s) PROVE p[n].type \in EventTypes
  <2>1. Nth(s, n) \in s /\ p[n] = ItemOf(l[Nth(s, n)])
    BY <1>5
  <2>2. l[Nth(s, n)].type \in EventTypes
    BY <1>1, <2>1
  <2> QED
    BY <2>1, <2>2, KindsAre
<1>8. Paired(p) /\ \A i \in DOMAIN p : p[i].type \in EventTypes
  BY <1>4, <1>6, <1>7 DEF Paired
<1> QED
  BY <1>8 DEF p

(* A window lies in the history, and does not begin with a result whose    *)
(* call it leaves behind.                                                  *)
LEMMA SuffixIs == ASSUME Paired(items), NEW budget PROVE LongestSuffix(budget) \in 0 .. Len(items)
<1> DEFINE spent == [c \in 0 .. Len(items) |-> Spent(c)]
           S == {at \in 0 .. Len(items) : \A c \in (at + 1) .. Len(items) : spent[c] = 0 \/ spent[c - 1] <= budget}
<1>1. LongestSuffix(budget) = Min(S)
  BY DEF LongestSuffix
<1>2. Len(items) \in S
  <2>1. Len(items) \in Nat
    BY DEF Paired
  <2>2. \A c \in (Len(items) + 1) .. Len(items) : FALSE
    BY <2>1
  <2> QED
    BY <2>1, <2>2
<1>3. S \subseteq Nat /\ S \subseteq 0 .. Len(items)
  BY DEF Paired
<1> HIDE DEF S
<1>4. Min(S) \in S
  BY <1>2, <1>3, MinimumOf
<1> QED
  BY <1>1, <1>3, <1>4

LEMMA WindowPairs ==
    ASSUME Paired(items), NEW budget
    PROVE  LET at == VerbatimWindow(budget)
           IN /\ at \in 0 .. Len(items)
              /\ \A i \in (at + 1) .. Len(items) : items[i].kind = "tool_result" /\ items[i].call # NoCall =>
                    i - 1 \in (at + 1) .. Len(items) /\ items[i - 1].kind = "tool_call"
                    /\ items[i - 1].call = items[i].call
<1> DEFINE n == Len(items)
           a == LongestSuffix(budget)
           back == /\ 0 < a /\ a < n
                   /\ items[a + 1].kind = "tool_result" /\ items[a + 1].call # NoCall
                   /\ CallsBefore(a) # {}
           at == VerbatimWindow(budget)
<1>1. n \in Nat /\ a \in 0 .. n /\ a \in Nat /\ DOMAIN items = 1 .. n
  <2>1. a \in 0 .. n
    BY SuffixIs
  <2> QED
    BY <2>1 DEF Paired
<1>2. /\ back => at = Max(CallsBefore(a)) - 1
      /\ ~back => at = a
  BY DEF VerbatimWindow
<1>3. back => Max(CallsBefore(a)) \in 1 .. a /\ items[Max(CallsBefore(a))].kind = "tool_call"
  <2>1. CallsBefore(a) \subseteq 1 .. a
    BY DEF CallsBefore
  <2> HIDE DEF a
  <2>2. CallsBefore(a) # {} => Max(CallsBefore(a)) \in CallsBefore(a)
    BY <1>1, <2>1, MaximumOf
  <2> QED
    BY <2>1, <2>2 DEF CallsBefore
<1> HIDE DEF a, at, n
<1>4. at \in 0 .. n /\ at \in Nat /\ (back => items[at + 1].kind = "tool_call")
  <2>1. CASE back
    <3> DEFINE x == Max(CallsBefore(a))
    <3>1. x \in 1 .. a /\ at = x - 1 /\ items[x].kind = "tool_call"
      BY <1>2, <1>3, <2>1
    <3> HIDE DEF x, back
    <3>2. at + 1 = x /\ at \in 0 .. n
      BY <1>1, <3>1
    <3> QED
      BY <1>1, <3>1, <3>2
  <2>2. CASE ~back
    BY <1>1, <1>2, <2>2
  <2> QED
    BY <2>1, <2>2
<1>5. ASSUME NEW i \in (at + 1) .. n, items[i].kind = "tool_result", items[i].call # NoCall
      PROVE  /\ i - 1 \in (at + 1) .. n /\ items[i - 1].kind = "tool_call" /\ items[i - 1].call = items[i].call
  <2>1. i \in 1 .. n /\ i # 1 /\ items[i - 1].kind = "tool_call" /\ items[i - 1].call = items[i].call
    <3>1. i \in 1 .. n
      BY <1>1, <1>4
    <3> QED
      BY <1>1, <1>5, <3>1 DEF Paired
  <2>2. i # at + 1
    <3>1. SUFFICES ASSUME i = at + 1 PROVE FALSE
      OBVIOUS
    <3>2. ~back
      BY <1>4, <1>5, <3>1
    <3>3. at = a /\ i = a + 1 /\ 0 < a /\ a < n
      BY <1>1, <1>2, <2>1, <3>1, <3>2
    <3>4. i - 1 = a /\ a \in 1 .. a
      BY <1>1, <3>3
    <3>5. a \in CallsBefore(a)
      BY <2>1, <3>3, <3>4 DEF CallsBefore
    <3> QED
      BY <1>5, <3>2, <3>3, <3>5
  <2> QED
    BY <1>1, <1>4, <2>1, <2>2
<1> QED
  BY <1>4, <1>5 DEF at, n

LEMMA SharesAreWhole ==
    ASSUME NEW a \in Nat, NEW b \in Nat, b # 0, b <= a
    PROVE  a \div b \in Nat \ {0}
OBVIOUS

HistoryOK ==
    /\ Paired(items) /\ \A i \in DOMAIN items : items[i].type \in EventTypes
    /\ limit \in Nat

LEMMA WindowsPass ==
    ASSUME HistoryOK, NEW budget, NEW at, at = VerbatimWindow(budget), Citable(at)
    PROVE  Verified(at)
<1> DEFINE n == Len(items)
           cited == Cited(at)
<1>1. /\ n \in Nat /\ DOMAIN items = 1 .. n /\ at \in 0 .. n
      /\ \A i \in (at + 1) .. n : items[i].kind = "tool_result" /\ items[i].call # NoCall =>
            i - 1 \in (at + 1) .. n /\ items[i - 1].kind = "tool_call" /\ items[i - 1].call = items[i].call
  <2>1. Paired(items)
    BY DEF HistoryOK
  <2> QED
    BY <2>1, WindowPairs DEF Paired
<1>2. Anchors \subseteq 1 .. n
  BY <1>1 DEF Anchors
<1>3. cited \subseteq 1 .. n /\ IsFiniteSet(cited) /\ Cardinality(cited) \in Nat /\ Cardinality(cited) <= SummaryBudget
  <2>1. IsFiniteSet(1 .. n)
    BY <1>1, FS_Interval
  <2>2. cited \in SUBSET (1 .. n)
    BY <1>2 DEF Cited
  <2>3. IsFiniteSet(cited)
    BY <2>1, <2>2, FS_Subset
  <2> QED
    BY <2>2, <2>3, FS_CardinalityType DEF Citable
<1>4. SummaryBudget \in Nat
  BY DEF SummaryBudget, HistoryOK
<1> HIDE DEF n, cited
<1>5. ASSUME NEW i \in cited PROVE Excerpt(i, cited) > 0
  <2>1. Cardinality(cited) # 0
    BY <1>3, <1>5, FS_EmptySet
  <2>2. Share(cited) \in Nat \ {0}
    BY <1>3, <1>4, <2>1, SharesAreWhole DEF Share
  <2>3. Text[items[i].type] \in Nat \ {0}
    BY <1>1, <1>3, PreparationAssumption DEF HistoryOK
  <2> DEFINE S == {Text[items[i].type], Share(cited)}
  <2>4. S \subseteq Nat \ {0} /\ S \subseteq Nat /\ S # {}
    BY <2>2, <2>3
  <2> HIDE DEF S
  <2>5. Min(S) \in S
    BY <2>4, MinimumOf
  <2>6. Excerpt(i, cited) = Min(S)
    BY DEF Excerpt, S
  <2>7. \A x \in S : x > 0
    BY <2>4
  <2> QED
    BY <2>5, <2>6, <2>7
<1>6. Anchors \subseteq cited \cup (at + 1) .. n
  <2>1. ASSUME NEW i \in Anchors, i \notin cited PROVE i \in (at + 1) .. n
    <3>1. i \in 1 .. n /\ ~(i <= at)
      BY <1>2, <2>1 DEF Cited, cited
    <3> QED
      BY <1>1, <3>1
  <2> QED
    BY <2>1
<1>7. ASSUME NEW i \in (at + 1) .. n, items[i].kind = "tool_result", items[i].call # NoCall
      PROVE  \E j \in (at + 1) .. n : items[j].kind = "tool_call" /\ items[j].call = items[i].call
  BY <1>1, <1>7
<1> QED
  BY <1>5, <1>6, <1>7 DEF Verified, cited, n

(* What is weighed would pass.                                             *)
SelectionInv ==
    /\ HistoryOK /\ phase # "unverified"
    /\ phase = "weighing" => Verified(cut)

(* In a run whose turns append every result right behind its call no       *)
(* history makes the preparation of a context fail at the gate: what the   *)
(* generator selects cites every anchor it leaves behind with an excerpt   *)
(* that says something, and shows no result without its call               *)
(* (verbatimWindow, Extractive.Compact, Verify).                           *)
THEOREM SelectionsAreSound == ASSUME ResultsFollowCalls PROVE PrepSpec => []SelectionsPass
<1>1. PrepInit => SelectionInv
  <2> SUFFICES ASSUME PrepInit PROVE SelectionInv
    OBVIOUS
  <2>1. PICK l \in Logs : items = Project(l)
    BY DEF PrepInit
  <2>2. Paired(items) /\ \A i \in DOMAIN items : items[i].type \in EventTypes
    BY <2>1, ProjectPairs
  <2>3. limit \in Nat
    BY PreparationAssumption DEF PrepInit
  <2> QED
    BY <2>2, <2>3 DEF PrepInit, SelectionInv, HistoryOK
<1>2. SelectionInv /\ [PrepNext]_prepVars => SelectionInv'
  <2> SUFFICES ASSUME SelectionInv, [PrepNext]_prepVars PROVE SelectionInv'
    OBVIOUS
  <2>1. ASSUME UNCHANGED <<items, limit>> PROVE HistoryOK'
    <3>1. HistoryOK
      BY DEF SelectionInv
    <3> QED
      BY <2>1, <3>1 DEF HistoryOK, Paired
  <2>2. CASE Measure
    <3>1. phase' \notin {"unverified", "weighing"}
      BY <2>2 DEF Measure
    <3> QED
      BY <2>1, <2>2, <3>1 DEF Measure, SelectionInv
  <2>3. ASSUME NEW c, c = cut', Verified(c), UNCHANGED <<items, limit>> PROVE Verified(cut)'
    <3>1. Anchors' = Anchors /\ SummaryBudget' = SummaryBudget
      BY <2>3 DEF Anchors, SummaryBudget
    <3>2. Cited(cut)' = Cited(c)
      BY <2>3, <3>1 DEF Cited
    <3>3. Share(Cited(cut))' = Share(Cited(c))
      BY <3>1, <3>2 DEF Share
    <3>4. ASSUME NEW i PROVE Excerpt(i, Cited(cut))' = Excerpt(i, Cited(c))
      BY <2>3, <3>3 DEF Excerpt
    <3> QED
      BY <2>3, <3>1, <3>2, <3>4 DEF Verified
  <2>4. CASE Select
    <3>1. UNCHANGED <<items, limit>> /\ phase' # "unverified"
      BY <2>4 DEF Select
    <3>2. ASSUME phase' = "weighing" PROVE Verified(cut)'
      <4>1. PICK c : c = cut'
        OBVIOUS
      <4>2. c = VerbatimWindow(verbatim) /\ Citable(c) /\ HistoryOK
        BY <2>4, <3>2, <4>1 DEF Select, SelectionInv
      <4>3. Verified(c)
        BY <4>2, WindowsPass
      <4> QED
        BY <2>3, <3>1, <4>1, <4>3
    <3> QED
      BY <2>1, <3>1, <3>2 DEF SelectionInv
  <2>8. CASE Present
    BY <2>1, <2>8 DEF Present, SelectionInv
  <2>5. CASE Floor
    BY <2>1, <2>5 DEF Floor, SelectionInv
  <2>6. CASE Shrink
    BY <2>1, <2>6 DEF Shrink, SelectionInv
  <2>7. CASE UNCHANGED prepVars
    <3>1. UNCHANGED <<items, limit>> /\ phase' = phase /\ cut' = cut
      BY <2>7 DEF prepVars
    <3>2. phase = "weighing" => Verified(cut)'
      BY <2>3, <3>1 DEF SelectionInv
    <3> QED
      BY <2>1, <3>1, <3>2 DEF SelectionInv
  <2> QED
    BY <2>2, <2>4, <2>5, <2>6, <2>7, <2>8 DEF PrepNext
<1>3. SelectionInv => SelectionsPass
  BY DEF SelectionInv, SelectionsPass
<1> QED
  BY <1>1, <1>2, <1>3, PTL DEF PrepSpec
=============================================================================
