------------------------- MODULE DurableStepProofs -------------------------
(***************************************************************************)
(* Proofs about durable execution, for any reducer, number of workers,     *)
(* crashes and claims: that it never repeats an effect that cannot be      *)
(* repeated, that recovery reads the truth, and that it implements Effects.*)
(*                                                                         *)
(* The first argument.  A call of such an effect is a licence to act: it   *)
(* is handed out once, when its start is recorded, and passes from the     *)
(* goroutine to the orphan it leaves or to the act itself.  NeverRepeated  *)
(* needs that at most one of them exists (OneLicence); that no second is   *)
(* handed out needs that what is about to be launched has no start on      *)
(* record (Queued), of which the worker's lists say nothing but the order  *)
(* they were read in: an effect is in them once because its place in the   *)
(* reducer's list is.                                                      *)
(***************************************************************************)
EXTENDS DurableStepProperties, SequenceTheorems, WellFoundedInduction, TLAPS

Work == [source : Nat, index : Nat, kind : Kinds]

LogRecord ==
    [type : {"event"}, kind : Events]
        \cup [type : {"prepared", "started"}, work : Work]
        \cup [type : {"finished"}, work : Work, status : {"completed", "failed", "unknown"}]
        \cup [type : {"completed"}, source : Nat]

(* The shape of the state, as far as the argument needs it.                *)
ShapeOK ==
    /\ log \in Seq(LogRecord)
    /\ DOMAIN calls \subseteq Work
    /\ worker.pc = "prepare" => worker.source \in Records("event")
    /\ worker.pc = "control" => worker \in [pc : {"control"}, source : Nat, left : Seq(Work)]
    /\ worker.pc \in {"classify", "launch"} =>
          worker \in [pc : {"classify", "launch"}, source : Nat, left : Seq(Work), todo : Seq(Work)]
    /\ worker.pc = "finish" =>
          worker \in [pc : {"finish"}, source : Nat, startErr : BOOLEAN, ambiguous : BOOLEAN, left : Seq(Work)]
    /\ worker.pc = "complete" => worker \in [pc : {"complete"}, source : Nat]

Sorted(s) == \A i, k \in DOMAIN s : i < k => s[i].index < s[k].index

FreshTools(s) == \A i \in DOMAIN s : s[i].kind = "tool" => ~Started(s[i])

(* What the worker has read or is about to launch.                         *)
Queued ==
    /\ worker.pc \in {"control", "classify", "launch"} => Sorted(worker.left)
    /\ worker.pc = "classify" =>
          /\ Sorted(worker.todo) /\ FreshTools(worker.todo)
          /\ \A i \in DOMAIN worker.todo, k \in DOMAIN worker.left :
                worker.todo[i].index < worker.left[k].index
    /\ worker.pc = "launch" => FreshTools(worker.left)

Tokens(w) == {a \in performed \cup orphans : a[1] = w}

(* At most one of goroutine, orphan and act, and none before the start.    *)
OneLicence ==
    \A w : w.kind = "tool" =>
        /\ ~Started(w) => w \notin DOMAIN calls /\ Tokens(w) = {}
        /\ w \in DOMAIN calls /\ calls[w] = "running" => Tokens(w) = {}
        /\ \A a, b \in Tokens(w) : a = b

StepInv == ShapeOK /\ Queued /\ OneLicence

-----------------------------------------------------------------------------
(* Records are only added.                                                 *)

LEMMA Appending ==
    ASSUME log \in Seq(LogRecord), NEW recs \in Seq(LogRecord), Appended(recs)
    PROVE  /\ log' \in Seq(LogRecord)
           /\ \A w : Started(w)' <=>
                \/ Started(w)
                \/ \E i \in DOMAIN recs : recs[i].type = "started" /\ recs[i].work = w
<1>1. log' = log \o recs
  BY DEF Appended
<1>2. log' \in Seq(LogRecord) /\ Len(log') = Len(log) + Len(recs)
  BY <1>1
<1>3. \A i \in 1..Len(log) : log'[i] = log[i]
  BY <1>1
<1>4. \A i \in 1..Len(recs) : log'[Len(log) + i] = recs[i]
  BY <1>1
<1>5. ASSUME NEW w, Started(w)
      PROVE  Started(w)'
  BY <1>2, <1>3, <1>5 DEF Started, Records
<1>6. ASSUME NEW w, NEW i \in DOMAIN recs, recs[i].type = "started", recs[i].work = w
      PROVE  Started(w)'
  <2>0. Len(log) \in Nat /\ Len(recs) \in Nat /\ i \in 1..Len(recs)
    BY <1>6
  <2>1. Len(log) + i \in 1..Len(log') /\ log'[Len(log) + i] = recs[i]
    BY <1>2, <1>4, <2>0
  <2>2. DOMAIN log' = 1..Len(log')
    BY <1>2
  <2> QED
    BY <1>6, <2>1, <2>2 DEF Started, Records
<1>7. ASSUME NEW w, Started(w)', ~Started(w)
      PROVE  \E i \in DOMAIN recs : recs[i].type = "started" /\ recs[i].work = w
  <2>1. PICK i \in DOMAIN log' : log'[i].type = "started" /\ log'[i].work = w
    BY <1>7 DEF Started, Records
  <2>2. i \notin 1..Len(log)
    BY <1>3, <1>7, <2>1 DEF Started, Records
  <2>3. i - Len(log) \in 1..Len(recs) /\ recs[i - Len(log)] = log'[i]
    BY <1>2, <1>4, <2>1, <2>2
  <2> QED
    BY <2>1, <2>3
<1> QED
  BY <1>2, <1>5, <1>6, <1>7

(* An append without a start leaves what was started as it was.            *)
LEMMA NothingStarts ==
    ASSUME log \in Seq(LogRecord), NEW recs \in Seq(LogRecord), Appended(recs),
           \A i \in DOMAIN recs : recs[i].type # "started"
    PROVE  log' \in Seq(LogRecord) /\ \A w : Started(w)' <=> Started(w)
  BY Appending

LEMMA StartedKept == UNCHANGED log => \A w : Started(w)' <=> Started(w)
  BY DEF Started, Records

(* The effects of an event, in the reducer's order.                        *)
LEMMA ListIsSorted ==
    ASSUME log \in Seq(LogRecord), NEW seq \in Records("event")
    PROVE  /\ List(seq) \in Seq(Work)
           /\ Sorted(List(seq))
<1>1. seq \in DOMAIN log /\ log[seq].type = "event" /\ seq \in Nat
  BY DEF Records
<1>2. log[seq] \in [type : {"event"}, kind : Events]
  BY <1>1 DEF LogRecord
<1>3. Decides[log[seq].kind] \in Seq(Kinds)
  BY <1>2, StepAssumption
<1> DEFINE fx == Decides[log[seq].kind]
<1>4. \A i \in 1..Len(fx) : [source |-> seq, index |-> i, kind |-> fx[i]] \in Work
  BY <1>1, <1>3 DEF Work
<1>5. List(seq) = [i \in 1..Len(fx) |-> [source |-> seq, index |-> i, kind |-> fx[i]]]
  BY DEF List
<1>6. Len(fx) \in Nat /\ \A i \in 1..Len(fx) : i \in Nat
  BY <1>3
<1>7. List(seq) \in [1..Len(fx) -> Work]
  BY <1>4, <1>5
<1>8. List(seq) \in Seq(Work)
  BY <1>6, <1>7, SeqDef
<1>9. DOMAIN List(seq) = 1..Len(fx)
  BY <1>5
<1>10. ASSUME NEW i \in 1..Len(fx)
       PROVE  List(seq)[i].index = i
  <2>1. List(seq)[i] = [source |-> seq, index |-> i, kind |-> fx[i]]
    BY <1>5, <1>10
  <2> QED
    BY <2>1
<1>11. Sorted(List(seq))
  BY <1>6, <1>9, <1>10 DEF Sorted
<1> QED
  BY <1>8, <1>11

(* What is left of a list after its head.                                  *)
LEMMA Tails ==
    ASSUME NEW s \in Seq(Work), s # <<>>
    PROVE  /\ Head(s) \in Work /\ Tail(s) \in Seq(Work)
           /\ Head(s) = s[1] /\ 1 \in DOMAIN s
           /\ \A i \in DOMAIN Tail(s) : i + 1 \in DOMAIN s /\ Tail(s)[i] = s[i + 1] /\ 1 < i + 1
<1>1. Len(s) \in Nat /\ Len(s) > 0 /\ DOMAIN s = 1..Len(s)
  OBVIOUS
<1>2. Tail(s) \in Seq(Work) /\ Len(Tail(s)) = Len(s) - 1 /\ Head(s) = s[1] /\ Head(s) \in Work
  BY <1>1
<1>3. \A i \in 1..Len(Tail(s)) : Tail(s)[i] = s[i + 1]
  BY <1>1, <1>2
<1>4. DOMAIN Tail(s) = 1..Len(Tail(s))
  BY <1>2
<1> QED
  BY <1>1, <1>2, <1>3, <1>4

LEMMA SortedTail ==
    ASSUME NEW s \in Seq(Work), s # <<>>, Sorted(s)
    PROVE  /\ Sorted(Tail(s))
           /\ \A i \in DOMAIN Tail(s) : Head(s).index < Tail(s)[i].index
<1>1. DOMAIN Tail(s) \subseteq Nat
  BY Tails
<1>2. ASSUME NEW i \in DOMAIN Tail(s), NEW k \in DOMAIN Tail(s), i < k
      PROVE  Tail(s)[i].index < Tail(s)[k].index
  <2>1. i + 1 < k + 1
    BY <1>1, <1>2
  <2> QED
    BY <2>1, Tails DEF Sorted
<1>3. \A i \in DOMAIN Tail(s) : Head(s).index < Tail(s)[i].index
  BY Tails DEF Sorted
<1> QED
  BY <1>2, <1>3 DEF Sorted

(* No new licence: the calls in progress and the acts are as before.       *)
LEMMA LicenceKept ==
    ASSUME OneLicence, UNCHANGED world, \A w : Started(w)' <=> Started(w),
           \A w \in DOMAIN calls' :
               w \in DOMAIN calls /\ (calls'[w] = "running" => calls[w] = "running")
    PROVE  OneLicence'
<1>1. \A w : Tokens(w)' = Tokens(w)
  BY DEF Tokens, world
<1>2. ASSUME NEW w, w.kind = "tool"
      PROVE  /\ ~Started(w)' => w \notin DOMAIN calls' /\ Tokens(w)' = {}
             /\ w \in DOMAIN calls' /\ calls'[w] = "running" => Tokens(w)' = {}
             /\ \A a, b \in Tokens(w)' : a = b
  BY <1>1, <1>2 DEF OneLicence
<1> QED
  BY <1>2 DEF OneLicence

(* The worker stays where it is.                                           *)
LEMMA WorkerKept ==
    ASSUME ShapeOK, Queued, UNCHANGED <<log, worker>>, DOMAIN calls' \subseteq Work
    PROVE  ShapeOK' /\ Queued'
<1>1. \A w : Started(w)' <=> Started(w)
  BY StartedKept
<1>2. Records("event")' = Records("event")
  BY DEF Records
<1>3. ShapeOK'
  BY <1>2 DEF ShapeOK
<1>4. \A s : FreshTools(s)' <=> FreshTools(s)
  BY <1>1 DEF FreshTools
<1>5. Queued'
  BY <1>4 DEF Queued
<1> QED
  BY <1>3, <1>5

(* An append without a start, whatever the worker does next.               *)
LEMMA Quietly ==
    ASSUME StepInv, NEW recs \in Seq(LogRecord), Appended(recs),
           \A i \in DOMAIN recs : recs[i].type # "started",
           UNCHANGED <<calls, world>>
    PROVE  /\ log' \in Seq(LogRecord) /\ DOMAIN calls' \subseteq Work
           /\ OneLicence'
           /\ \A s : FreshTools(s)' <=> FreshTools(s)
<1>1. log' \in Seq(LogRecord) /\ \A w : Started(w)' <=> Started(w)
  BY NothingStarts DEF StepInv, ShapeOK
<1>2. DOMAIN calls' \subseteq Work
  BY DEF StepInv, ShapeOK
<1>3. OneLicence'
  BY <1>1, LicenceKept DEF StepInv
<1>4. \A s : FreshTools(s)' <=> FreshTools(s)
  BY <1>1 DEF FreshTools
<1> QED
  BY <1>1, <1>2, <1>3, <1>4

(* The worker moves and nothing else does.                                 *)
LEMMA Moving ==
    ASSUME StepInv, UNCHANGED <<log, calls, world>>
    PROVE  /\ log' \in Seq(LogRecord) /\ DOMAIN calls' \subseteq Work
           /\ OneLicence'
           /\ \A s : FreshTools(s)' <=> FreshTools(s)
<1>1. \A w : Started(w)' <=> Started(w)
  BY StartedKept
<1>2. OneLicence'
  BY <1>1, LicenceKept DEF StepInv
<1>3. \A s : FreshTools(s)' <=> FreshTools(s)
  BY <1>1 DEF FreshTools
<1> QED
  BY <1>2, <1>3 DEF StepInv, ShapeOK

Resting == {"down", "refused", "unknown", "read", "idle", "checkpoint"}

(* A worker with an empty desk.                                            *)
LEMMA Rests ==
    ASSUME log' \in Seq(LogRecord), DOMAIN calls' \subseteq Work, OneLicence',
           worker'.pc \in Resting
    PROVE  StepInv'
<1>1. ShapeOK' /\ Queued'
  BY DEF ShapeOK, Queued, Resting
<1> QED
  BY <1>1 DEF StepInv

LEMMA OpenKeeps == ASSUME StepInv, Open PROVE StepInv'
<1>1. worker'.pc \in Resting
  BY DEF Open, Becomes, Resting
<1> QED
  BY <1>1, Moving, Rests DEF Open

LEMMA ReadKeeps == ASSUME StepInv, Read PROVE StepInv'
<1>1. CASE \E seq \in NextAfter(worker.cursor) : Becomes([pc |-> "prepare", source |-> seq])
  <2>1. worker'.pc = "prepare" /\ worker'.source \in Records("event")
    BY <1>1 DEF Becomes, NextAfter
  <2>2. Records("event")' = Records("event")
    BY DEF Records, Read
  <2>3. ShapeOK' /\ Queued'
    BY <2>1, <2>2, Moving DEF ShapeOK, Queued, Read
  <2> QED
    BY <2>3, Moving DEF StepInv, Read
<1>2. CASE Becomes([pc |-> "idle", cursor |-> worker.cursor])
  <2>1. worker'.pc \in Resting
    BY <1>2 DEF Becomes, Resting
  <2> QED
    BY <2>1, Moving, Rests DEF Read
<1> QED
  BY <1>1, <1>2 DEF Read

LEMMA PrepareKeeps == ASSUME StepInv, PrepareStep PROVE StepInv'
<1> DEFINE works == List(worker.source)
           recs == IF Prepared(worker.source) THEN <<>>
                   ELSE [i \in DOMAIN works |-> Prepare(works[i])]
<1>1. log \in Seq(LogRecord) /\ worker.source \in Records("event") /\ worker.source \in Nat
  BY DEF StepInv, ShapeOK, PrepareStep, At, Records
<1>2. works \in Seq(Work) /\ Sorted(works)
  BY <1>1, ListIsSorted
<1>3. Len(works) \in Nat /\ DOMAIN works = 1..Len(works)
      /\ \A i \in 1..Len(works) : works[i] \in Work
  BY <1>2
<1>4. recs \in Seq(LogRecord) /\ \A i \in DOMAIN recs : recs[i].type # "started"
  <2>1. CASE Prepared(worker.source)
    BY <2>1
  <2>2. CASE ~Prepared(worker.source)
    <3>1. recs = [i \in 1..Len(works) |-> Prepare(works[i])]
      BY <2>2, <1>3
    <3>2. \A i \in 1..Len(works) : Prepare(works[i]) \in LogRecord
      BY <1>3 DEF Prepare, LogRecord
    <3>3. recs \in [1..Len(works) -> LogRecord]
      BY <3>1, <3>2
    <3>4. recs \in Seq(LogRecord)
      BY <1>3, <3>3, SeqDef
    <3>5. \A i \in DOMAIN recs : recs[i].type # "started"
      BY <3>1 DEF Prepare
    <3> QED
      BY <3>4, <3>5
  <2> QED
    BY <2>1, <2>2
<1>5. Appended(recs) /\ UNCHANGED <<calls, world>>
  BY DEF PrepareStep
<1>6. worker' = [pc |-> "control", source |-> worker.source, left |-> works]
  BY DEF PrepareStep, Becomes
<1> HIDE DEF works, recs
<1>7. worker' \in [pc : {"control"}, source : Nat, left : Seq(Work)]
      /\ worker'.pc = "control" /\ worker'.left = works
  BY <1>1, <1>2, <1>6
<1>8. ShapeOK' /\ Queued'
  BY <1>2, <1>4, <1>5, <1>7, Quietly DEF ShapeOK, Queued
<1> QED
  BY <1>4, <1>5, <1>8, Quietly DEF StepInv

(* Events followed by an outcome are not a start.                          *)
LEMMA NoStartAmong ==
    ASSUME NEW events \in Seq(LogRecord), \A i \in DOMAIN events : events[i].type # "started",
           NEW end \in LogRecord, end.type # "started"
    PROVE  /\ events \o <<end>> \in Seq(LogRecord)
           /\ \A i \in DOMAIN (events \o <<end>>) : (events \o <<end>>)[i].type # "started"
<1> DEFINE last == <<end>>
           both == events \o last
<1>1. last \in Seq(LogRecord) /\ Len(last) = 1 /\ last[1] = end
  OBVIOUS
<1>2. Len(events) \in Nat /\ DOMAIN events = 1..Len(events)
  OBVIOUS
<1> HIDE DEF last
<1>3. /\ both \in Seq(LogRecord) /\ DOMAIN both = 1..(Len(events) + 1)
      /\ \A i \in 1..(Len(events) + 1) :
            both[i] = IF i <= Len(events) THEN events[i] ELSE last[i - Len(events)]
  BY SMTT(30), <1>1, <1>2, ConcatProperties
<1>4. ASSUME NEW i \in DOMAIN both
      PROVE  both[i].type # "started"
  <2>1. CASE i <= Len(events)
    BY <1>2, <1>3, <1>4, <2>1
  <2>2. CASE ~(i <= Len(events))
    <3>1. i - Len(events) = 1
      BY <1>2, <1>3, <1>4, <2>2
    <3> QED
      BY <1>1, <1>3, <1>4, <2>2, <3>1
  <2> QED
    BY <2>1, <2>2
<1> QED
  BY <1>3, <1>4 DEF last

(* Control effects.                                                        *)
LEMMA InControlFacts ==
    ASSUME StepInv, InControl
    PROVE  /\ worker \in [pc : {"control"}, source : Nat, left : Seq(Work)]
           /\ Sorted(worker.left) /\ worker.left # <<>>
           /\ Current \in Work /\ Tail(worker.left) \in Seq(Work) /\ Sorted(Tail(worker.left))
  BY Tails, SortedTail DEF StepInv, ShapeOK, Queued, InControl, At, Current

LEMMA ControlOnward ==
    ASSUME StepInv, InControl, Onward, log' \in Seq(LogRecord), DOMAIN calls' \subseteq Work
    PROVE  ShapeOK' /\ Queued'
<1>1. /\ worker' = [worker EXCEPT !.left = Tail(worker.left)]
      /\ Tail(worker.left) \in Seq(Work) /\ Sorted(Tail(worker.left))
      /\ worker \in [pc : {"control"}, source : Nat, left : Seq(Work)]
  BY InControlFacts DEF Onward
<1> DEFINE rest == Tail(worker.left)
<1> HIDE DEF rest
<1>2. worker' \in [pc : {"control"}, source : Nat, left : Seq(Work)]
      /\ worker'.pc = "control" /\ worker'.left = rest
  BY <1>1 DEF rest
<1> QED
  BY <1>1, <1>2 DEF ShapeOK, Queued, rest

LEMMA SkipControlKeeps == ASSUME StepInv, SkipControl PROVE StepInv'
  BY Moving, ControlOnward DEF SkipControl, StepInv

LEMMA RunControlKeeps == ASSUME StepInv, RunControl PROVE StepInv'
<1>1. Current \in Work
  BY InControlFacts DEF RunControl
<1>2. Event("emit") \in LogRecord /\ Finish(Current, "completed") \in LogRecord
  BY <1>1, StepAssumption DEF Event, Finish, LogRecord, Kinds, ControlKinds
<1> DEFINE events == IF Current.kind = "emit" THEN <<Event("emit")>> ELSE <<>>
           end == Finish(Current, "completed")
<1>3. events \in Seq(LogRecord) /\ \A i \in DOMAIN events : events[i].type # "started"
  BY <1>2 DEF Event
<1>4. end \in LogRecord /\ end.type # "started"
  BY <1>2 DEF Finish
<1>5. Appended(events \o <<end>>) /\ UNCHANGED <<calls, world>> /\ InControl /\ Onward
  BY DEF RunControl
<1> HIDE DEF events, end
<1>6. /\ events \o <<end>> \in Seq(LogRecord)
      /\ \A i \in DOMAIN (events \o <<end>>) : (events \o <<end>>)[i].type # "started"
  BY <1>3, <1>4, NoStartAmong
<1>7. log' \in Seq(LogRecord) /\ DOMAIN calls' \subseteq Work /\ OneLicence'
  BY <1>5, <1>6, Quietly
<1> QED
  BY <1>5, <1>7, ControlOnward DEF StepInv

LEMMA TimerFailsKeeps == ASSUME StepInv, TimerFails PROVE StepInv'
<1>1. Current \in Work
  BY InControlFacts DEF TimerFails
<1>2. Finish(Current, "failed") \in LogRecord
  BY <1>1 DEF Finish, LogRecord
<1>3. <<Finish(Current, "failed")>> \in Seq(LogRecord)
      /\ \A i \in DOMAIN <<Finish(Current, "failed")>> :
            <<Finish(Current, "failed")>>[i].type # "started"
  BY <1>2 DEF Finish
<1>4. worker'.pc \in Resting
  BY DEF TimerFails, StopsRecoverably, Becomes, Down, Resting
<1> QED
  BY <1>3, <1>4, Quietly, Rests DEF TimerFails

LEMMA ControlDoneKeeps == ASSUME StepInv, ControlDone PROVE StepInv'
<1>1. worker \in [pc : {"control"}, source : Nat, left : Seq(Work)] /\ Sorted(worker.left)
  BY DEF StepInv, ShapeOK, Queued, ControlDone, At
<1>2. worker' = [pc |-> "classify", source |-> worker.source,
                 left |-> worker.left, todo |-> <<>>]
  BY DEF ControlDone, Becomes
<1>3. /\ worker' \in [pc : {"classify", "launch"}, source : Nat, left : Seq(Work), todo : Seq(Work)]
      /\ worker'.pc = "classify" /\ worker'.left = worker.left /\ worker'.todo = <<>>
  BY <1>1, <1>2
<1>4. ShapeOK' /\ Queued'
  BY <1>1, <1>3, Moving DEF ShapeOK, Queued, Sorted, FreshTools, ControlDone
<1> QED
  BY <1>4, Moving DEF StepInv, ControlDone

(* Classification.                                                         *)
Desk == [pc : {"classify", "launch"}, source : Nat, left : Seq(Work), todo : Seq(Work)]

LEMMA ClassifyingFacts ==
    ASSUME StepInv, Classifying
    PROVE  /\ worker \in Desk /\ worker.pc = "classify" /\ worker.left # <<>>
           /\ worker.left \in Seq(Work) /\ worker.todo \in Seq(Work)
           /\ Current \in Work /\ Tail(worker.left) \in Seq(Work)
           /\ Sorted(worker.left) /\ Sorted(Tail(worker.left))
           /\ Sorted(worker.todo) /\ FreshTools(worker.todo)
           /\ \A i \in DOMAIN worker.todo, k \in DOMAIN worker.left :
                 worker.todo[i].index < worker.left[k].index
<1>1. worker \in Desk /\ worker.pc = "classify" /\ worker.left # <<>>
  BY DEF StepInv, ShapeOK, Classifying, At, Desk
<1>2. worker.left \in Seq(Work) /\ worker.todo \in Seq(Work)
  BY <1>1 DEF Desk
<1>3. Sorted(worker.left)
  BY <1>1 DEF StepInv, Queued
<1>4. /\ Sorted(worker.todo) /\ FreshTools(worker.todo)
      /\ \A i \in DOMAIN worker.todo, k \in DOMAIN worker.left :
            worker.todo[i].index < worker.left[k].index
  BY <1>1 DEF StepInv, Queued
<1>5. Current \in Work /\ Tail(worker.left) \in Seq(Work) /\ Sorted(Tail(worker.left))
  BY <1>1, <1>2, <1>3, Tails, SortedTail DEF Current
<1> QED
  BY <1>1, <1>2, <1>3, <1>4, <1>5

LEMMA ClassifyOnward ==
    ASSUME StepInv, Classifying, Onward, log' \in Seq(LogRecord), DOMAIN calls' \subseteq Work,
           \A s : FreshTools(s)' <=> FreshTools(s)
    PROVE  ShapeOK' /\ Queued'
<1> DEFINE rest == Tail(worker.left)
           todo == worker.todo
<1>1. /\ worker \in Desk /\ worker.pc = "classify" /\ rest \in Seq(Work) /\ todo \in Seq(Work)
      /\ Sorted(rest) /\ Sorted(todo) /\ FreshTools(todo)
  BY ClassifyingFacts
<1>2. \A i \in DOMAIN todo, k \in DOMAIN rest : todo[i].index < rest[k].index
  BY ClassifyingFacts, Tails
<1>3. worker' = [worker EXCEPT !.left = rest]
  BY DEF Onward
<1>4. worker.todo = todo
  OBVIOUS
<1> HIDE DEF rest, todo
<1>5. worker' \in Desk /\ worker'.pc = "classify" /\ worker'.left = rest /\ worker'.todo = todo
  BY <1>1, <1>3, <1>4 DEF Desk
<1>6. FreshTools(worker.todo)'
  <2>1. \A s : s = worker'.todo => (FreshTools(s)' <=> FreshTools(worker.todo)')
    BY DEF FreshTools
  <2> QED
    BY <1>1, <1>5, <2>1
<1>7. ShapeOK'
  BY <1>5 DEF ShapeOK, Desk
<1>8. Queued'
  BY <1>1, <1>2, <1>5, <1>6 DEF Queued
<1> QED
  BY <1>7, <1>8

LEMMA SkipFinishedKeeps == ASSUME StepInv, SkipFinished PROVE StepInv'
  BY Moving, ClassifyOnward DEF SkipFinished, StepInv

LEMMA FinishFromReceiptKeeps == ASSUME StepInv, FinishFromReceipt PROVE StepInv'
<1> DEFINE e == Event(Current.kind)
           end == Finish(Current, "completed")
<1>1. Current \in Work /\ Current.kind \in Events
  BY ClassifyingFacts, StepAssumption DEF FinishFromReceipt, Work
<1>2. e \in LogRecord /\ end \in LogRecord /\ e.type # "started" /\ end.type # "started"
  BY <1>1 DEF Event, Finish, LogRecord
<1>3. Appended(<<e, end>>) /\ UNCHANGED <<calls, world>> /\ Classifying /\ Onward
  BY DEF FinishFromReceipt
<1> HIDE DEF e, end
<1>4. <<e, end>> \in Seq(LogRecord) /\ \A i \in DOMAIN <<e, end>> : <<e, end>>[i].type # "started"
  BY <1>2
<1> QED
  BY <1>3, <1>4, Quietly, ClassifyOnward DEF StepInv

LEMMA FinishUnknownKeeps == ASSUME StepInv, FinishUnknown PROVE StepInv'
<1> DEFINE end == Finish(Current, "unknown")
<1>1. Current \in Work
  BY ClassifyingFacts DEF FinishUnknown
<1>2. end \in LogRecord /\ end.type # "started"
  BY <1>1 DEF Finish, LogRecord
<1>3. Appended(<<end>>) /\ UNCHANGED <<calls, world>>
  BY DEF FinishUnknown
<1> HIDE DEF end
<1>4. <<end>> \in Seq(LogRecord) /\ \A i \in DOMAIN <<end>> : <<end>>[i].type # "started"
  BY <1>2
<1>5. worker'.pc \in Resting
  BY DEF FinishUnknown, StopsUnknown, Becomes, Resting
<1> QED
  BY <1>3, <1>4, <1>5, Quietly, Rests

LEMMA ClassifiedKeeps == ASSUME StepInv, Classified PROVE StepInv'
<1>1. /\ worker \in Desk /\ worker.pc = "classify"
      /\ Sorted(worker.todo) /\ FreshTools(worker.todo)
  BY DEF StepInv, ShapeOK, Queued, Classified, At, Desk
<1>2. worker' = [pc |-> "launch", source |-> worker.source, left |-> worker.todo,
                 todo |-> worker.todo]
  BY DEF Classified, Becomes
<1>3. worker' \in Desk /\ worker'.pc = "launch" /\ worker'.left = worker.todo
  BY <1>1, <1>2 DEF Desk
<1>4. ShapeOK' /\ Queued'
  BY <1>1, <1>3, Moving DEF ShapeOK, Queued, Classified, Desk
<1> QED
  BY <1>4, Moving DEF StepInv, Classified

(* Only what never started, or may be repeated, is put on the list.        *)
LEMMA WillRunKeeps == ASSUME StepInv, WillRun PROVE StepInv'
<1> DEFINE rest == Tail(worker.left)
           todo == worker.todo
           cur == Current
           longer == Append(todo, cur)
<1>1. /\ worker \in Desk /\ worker.pc = "classify" /\ rest \in Seq(Work) /\ todo \in Seq(Work)
      /\ Sorted(rest) /\ Sorted(todo) /\ FreshTools(todo) /\ cur \in Work
  BY ClassifyingFacts DEF WillRun
<1>2. /\ \A i \in DOMAIN todo : todo[i].index < cur.index
      /\ \A i \in DOMAIN todo, k \in DOMAIN rest : todo[i].index < rest[k].index
      /\ \A k \in DOMAIN rest : cur.index < rest[k].index
  BY ClassifyingFacts, Tails, SortedTail DEF WillRun, Current
<1>3. cur.kind = "tool" => ~Started(cur)
  BY DEF WillRun, MayRun
<1>4. worker' = [worker EXCEPT !.left = rest, !.todo = longer] /\ UNCHANGED <<log, calls, world>>
  BY DEF WillRun
<1>5. worker.left # <<>> /\ worker.todo = todo
  BY DEF WillRun, Classifying
<1> HIDE DEF rest, todo, cur
<1>6. Len(todo) \in Nat /\ DOMAIN todo = 1..Len(todo)
  BY <1>1
<1>7. /\ longer \in Seq(Work) /\ DOMAIN longer = 1..(Len(todo) + 1)
      /\ \A i \in 1..Len(todo) : longer[i] = todo[i]
      /\ longer[Len(todo) + 1] = cur
  BY <1>1, <1>6
<1> HIDE DEF longer
<1>8. \A i \in DOMAIN longer : i \in DOMAIN todo \/ i = Len(todo) + 1
  BY <1>6, <1>7
<1>9. FreshTools(longer)
  BY <1>1, <1>3, <1>6, <1>7, <1>8 DEF FreshTools
<1>10. Sorted(longer)
  <2>1. SUFFICES ASSUME NEW i \in DOMAIN longer, NEW k \in DOMAIN longer, i < k
                 PROVE  longer[i].index < longer[k].index
    BY DEF Sorted
  <2>2. i \in DOMAIN todo
    BY <1>6, <1>7, <2>1
  <2> QED
    BY <1>1, <1>2, <1>6, <1>7, <1>8, <2>1, <2>2 DEF Sorted
<1>11. \A i \in DOMAIN longer, k \in DOMAIN rest : longer[i].index < rest[k].index
  BY <1>2, <1>6, <1>7, <1>8
<1>12. worker' \in Desk /\ worker'.pc = "classify" /\ worker'.left = rest /\ worker'.todo = longer
  BY <1>1, <1>4, <1>7 DEF Desk
<1>13. /\ log' \in Seq(LogRecord) /\ DOMAIN calls' \subseteq Work /\ OneLicence'
       /\ \A s : FreshTools(s)' <=> FreshTools(s)
  BY <1>4, Moving
<1>14. FreshTools(worker.todo)'
  <2>1. \A s : s = worker'.todo => (FreshTools(s)' <=> FreshTools(worker.todo)')
    BY DEF FreshTools
  <2> QED
    BY <1>9, <1>12, <1>13, <2>1
<1>15. ShapeOK'
  BY <1>12, <1>13 DEF ShapeOK, Desk
<1>16. Queued'
  BY <1>1, <1>10, <1>11, <1>12, <1>14 DEF Queued
<1> QED
  BY <1>13, <1>15, <1>16 DEF StepInv

(* Launching.                                                              *)
LEMMA LaunchingFacts ==
    ASSUME StepInv, Launching
    PROVE  /\ worker \in Desk /\ worker.pc = "launch" /\ worker.left # <<>>
           /\ worker.left \in Seq(Work) /\ worker.todo \in Seq(Work)
           /\ Current \in Work /\ Tail(worker.left) \in Seq(Work)
           /\ Sorted(worker.left) /\ FreshTools(worker.left)
<1>1. worker \in Desk /\ worker.pc = "launch" /\ worker.left # <<>>
  BY DEF StepInv, ShapeOK, Launching, At, Desk
<1>2. worker.left \in Seq(Work) /\ worker.todo \in Seq(Work)
  BY <1>1 DEF Desk
<1>3. Sorted(worker.left) /\ FreshTools(worker.left)
  BY <1>1 DEF StepInv, Queued
<1>4. Current \in Work /\ Tail(worker.left) \in Seq(Work)
  BY <1>1, <1>2, Tails DEF Current
<1> QED
  BY <1>1, <1>2, <1>3, <1>4

LEMMA RegisterKeeps == ASSUME StepInv, Register PROVE StepInv'
<1>1. UNCHANGED <<log, worker, calls, world>>
  BY DEF Register, memory
<1>2. DOMAIN calls' \subseteq Work
  BY <1>1 DEF StepInv, ShapeOK
<1> QED
  BY <1>1, <1>2, Moving, WorkerKept DEF StepInv

LEMMA JoiningKeeps ==
    ASSUME StepInv, worker \in Desk, UNCHANGED <<log, calls, world>>,
           NEW startErr \in BOOLEAN, Joining(startErr)
    PROVE  StepInv'
<1> DEFINE todo == worker.todo
           n == Len(todo) - Len(worker.left)
           joined == SubSeq(todo, 1, n)
<1>1. todo \in Seq(Work) /\ Len(todo) \in Nat /\ Len(worker.left) \in Nat
  BY DEF Desk
<1>2. n \in Int /\ \A i \in 1..n : i \in 1..Len(todo)
  BY <1>1
<1> HIDE DEF n
<1>3. \A i \in 1..n : todo[i] \in Work
  <2>1. \A s : s \in Seq(Work) => \A i \in 1..Len(s) : s[i] \in Work
    OBVIOUS
  <2> QED
    BY <1>1, <1>2, <2>1
<1>4. joined \in Seq(Work)
  BY <1>2, <1>3, SubSeqProperties
<1>5. worker' = [pc |-> "finish", source |-> worker.source, startErr |-> startErr,
                 ambiguous |-> FALSE, left |-> joined]
  BY DEF Joining, Becomes, n
<1> HIDE DEF joined
<1>6. worker' \in [pc : {"finish"}, source : Nat, startErr : BOOLEAN, ambiguous : BOOLEAN, left : Seq(Work)]
      /\ worker'.pc = "finish"
  BY <1>4, <1>5 DEF Desk
<1>7. ShapeOK' /\ Queued'
  BY <1>6, Moving DEF ShapeOK, Queued
<1> QED
  BY <1>7, Moving DEF StepInv

LEMMA LaunchFailsKeeps == ASSUME StepInv, LaunchFails PROVE StepInv'
  BY LaunchingFacts, JoiningKeeps DEF LaunchFails

LEMMA LaunchedKeeps == ASSUME StepInv, Launched PROVE StepInv'
  BY JoiningKeeps DEF Launched, StepInv, ShapeOK, At, Desk

(* The one step that hands out a licence.                                  *)
LEMMA LaunchKeeps == ASSUME StepInv, Launch PROVE StepInv'
<1> DEFINE cur == Current
           rest == Tail(worker.left)
           recs == IF Continues(cur) THEN <<>> ELSE <<Start(cur)>>
<1>1. /\ worker \in Desk /\ worker.pc = "launch" /\ rest \in Seq(Work) /\ cur \in Work
      /\ Sorted(worker.left) /\ FreshTools(worker.left)
      /\ worker.left # <<>> /\ worker.left \in Seq(Work)
  BY LaunchingFacts DEF Launch
<1>2. /\ Sorted(rest) /\ FreshTools(rest)
      /\ \A i \in DOMAIN rest : cur.index < rest[i].index
  BY <1>1, Tails, SortedTail DEF FreshTools, Current
<1>3. cur.kind = "tool" => ~Started(cur) /\ ~Continues(cur)
  BY <1>1, Tails DEF FreshTools, Current, Continues
<1>4. recs \in Seq(LogRecord) /\ \A i \in DOMAIN recs : recs[i].work = cur
  <2>1. Start(cur) \in LogRecord /\ Start(cur).work = cur
    BY <1>1 DEF Start, LogRecord
  <2> QED
    BY <2>1
<1>5. ~Continues(cur) => \E i \in DOMAIN recs : recs[i].type = "started" /\ recs[i].work = cur
  BY <1>1 DEF Start
<1>6. /\ Appended(recs) /\ UNCHANGED world
      /\ calls' = [w \in DOMAIN calls \cup {cur} |-> IF w = cur THEN "running" ELSE calls[w]]
      /\ worker' = [worker EXCEPT !.left = rest]
  BY DEF Launch, Onward
<1> HIDE DEF recs, cur, rest
<1>7. /\ log' \in Seq(LogRecord)
      /\ \A w : w # cur => (Started(w)' <=> Started(w))
      /\ \A w : w = cur /\ w.kind = "tool" => Started(w)'
      /\ \A w : Started(w) => Started(w)'
  BY <1>3, <1>4, <1>5, <1>6, Appending DEF StepInv, ShapeOK
<1>8. DOMAIN calls' = DOMAIN calls \cup {cur} /\ DOMAIN calls' \subseteq Work
  BY <1>1, <1>6 DEF StepInv, ShapeOK
<1>9. worker' \in Desk /\ worker'.pc = "launch" /\ worker'.left = rest
  BY <1>1, <1>6 DEF Desk
<1>10. Len(rest) \in Nat /\ DOMAIN rest = 1..Len(rest) /\ \A i \in DOMAIN rest : rest[i] \in Work
  BY <1>1
<1>11. \A i \in DOMAIN rest : rest[i] # cur
  BY <1>1, <1>2, <1>10 DEF Work
<1>12. FreshTools(worker.left)'
  BY <1>2, <1>7, <1>9, <1>11 DEF FreshTools
<1>13. ShapeOK'
  BY <1>7, <1>8, <1>9 DEF ShapeOK, Desk
<1>14. Queued'
  BY <1>2, <1>9, <1>12 DEF Queued
<1>15. \A w : Tokens(w)' = Tokens(w)
  BY <1>6 DEF Tokens, world
<1>16. ASSUME NEW w, w.kind = "tool"
       PROVE  /\ ~Started(w)' => w \notin DOMAIN calls' /\ Tokens(w)' = {}
              /\ w \in DOMAIN calls' /\ calls'[w] = "running" => Tokens(w)' = {}
              /\ \A a, b \in Tokens(w)' : a = b
  <2>1. CASE w = cur
    <3>1. Started(w)' /\ Tokens(w) = {}
      BY <1>3, <1>7, <1>16, <2>1 DEF StepInv, OneLicence
    <3> QED
      BY <1>15, <3>1
  <2>2. CASE w # cur
    <3>1. (Started(w)' <=> Started(w)) /\ (w \in DOMAIN calls' <=> w \in DOMAIN calls)
      BY <1>7, <1>8, <2>2
    <3>2. w \in DOMAIN calls => calls'[w] = calls[w]
      BY <1>6, <2>2
    <3> QED
      BY <1>15, <1>16, <3>1, <3>2 DEF StepInv, OneLicence
  <2> QED
    BY <2>1, <2>2
<1>17. OneLicence'
  BY <1>16 DEF OneLicence
<1> QED
  BY <1>13, <1>14, <1>17 DEF StepInv

-----------------------------------------------------------------------------
(* Goroutines.  A licence is passed on, never copied.                      *)
LEMMA ReturnsKeeps ==
    ASSUME StepInv, UNCHANGED <<log, worker>>, NEW u, u \in DOMAIN calls,
           NEW how, Returns(u, how)
    PROVE  /\ ShapeOK' /\ Queued'
           /\ DOMAIN calls' = DOMAIN calls /\ calls'[u] = how
           /\ \A w \in DOMAIN calls : w # u => calls'[w] = calls[w]
<1>1. calls' = [calls EXCEPT ![u] = how]
  BY DEF Returns
<1>2. DOMAIN calls' = DOMAIN calls /\ \A w \in DOMAIN calls : w # u => calls'[w] = calls[w]
  BY <1>1
<1>3. calls'[u] = how
  BY <1>1
<1>4. ShapeOK' /\ Queued'
  BY <1>2, WorkerKept DEF StepInv, ShapeOK
<1> QED
  BY <1>2, <1>3, <1>4

(* The licence of one effect u becomes the token of its act or orphan.     *)
LEMMA LicencePassed ==
    ASSUME OneLicence, UNCHANGED log, NEW u, u \in DOMAIN calls, NEW n,
           calls[u] = "running",
           \A w : w # u => Tokens(w)' = Tokens(w),
           Tokens(u)' \subseteq Tokens(u) \cup {<<u, n>>},
           \A w \in DOMAIN calls' : w \in DOMAIN calls /\ (w # u => calls'[w] = calls[w]),
           u \in DOMAIN calls' => calls'[u] # "running"
    PROVE  OneLicence'
  BY StartedKept DEF OneLicence

LEMMA PerformKeeps == ASSUME StepInv, NEW u \in DOMAIN calls, Perform(u) PROVE StepInv'
<1>1. UNCHANGED <<log, worker, orphans>> /\ calls[u] = "running" /\ Returns(u, "acted")
      /\ performed' = performed \cup {<<u, attempt>>}
  BY DEF Perform
<1>2. Tokens(u)' \subseteq Tokens(u) \cup {<<u, attempt>>}
  BY <1>1 DEF Tokens
<1>3. \A w : w # u => Tokens(w)' = Tokens(w)
  BY <1>1 DEF Tokens
<1>4. ShapeOK' /\ Queued' /\ DOMAIN calls' = DOMAIN calls /\ calls'[u] = "acted"
      /\ \A w \in DOMAIN calls : w # u => calls'[w] = calls[w]
  BY <1>1, ReturnsKeeps
<1>5. OneLicence'
  BY <1>1, <1>2, <1>3, <1>4, LicencePassed DEF StepInv
<1> QED
  BY <1>4, <1>5 DEF StepInv

LEMMA AnswerKeeps == ASSUME StepInv, NEW u \in DOMAIN calls, Answer(u) PROVE StepInv'
<1>1. UNCHANGED <<log, worker, world>> /\ Returns(u, "ok")
  BY DEF Answer
<1>2. ShapeOK' /\ Queued' /\ DOMAIN calls' = DOMAIN calls /\ calls'[u] = "ok"
      /\ \A w \in DOMAIN calls : w # u => calls'[w] = calls[w]
  BY <1>1, ReturnsKeeps
<1> QED
  BY <1>1, <1>2, StartedKept, LicenceKept DEF StepInv

LEMMA RefuseKeeps == ASSUME StepInv, NEW u \in DOMAIN calls, Refuse(u) PROVE StepInv'
<1>1. UNCHANGED <<log, worker, world>> /\ Returns(u, "refused")
  BY DEF Refuse
<1>2. ShapeOK' /\ Queued' /\ DOMAIN calls' = DOMAIN calls /\ calls'[u] = "refused"
      /\ \A w \in DOMAIN calls : w # u => calls'[w] = calls[w]
  BY <1>1, ReturnsKeeps
<1> QED
  BY <1>1, <1>2, StartedKept, LicenceKept DEF StepInv

LEMMA LoseKeeps == ASSUME StepInv, NEW u \in DOMAIN calls, Lose(u) PROVE StepInv'
<1>1. UNCHANGED <<log, worker, performed>> /\ Returns(u, "lost")
      /\ orphans' = orphans \cup Outstanding({u})
  BY DEF Lose
<1>2. Outstanding({u}) = IF calls[u] = "running" /\ Acting(u) THEN {<<u, attempt>>} ELSE {}
  BY DEF Outstanding
<1>3. ShapeOK' /\ Queued' /\ DOMAIN calls' = DOMAIN calls /\ calls'[u] = "lost"
      /\ \A w \in DOMAIN calls : w # u => calls'[w] = calls[w]
  BY <1>1, ReturnsKeeps
<1>4. CASE calls[u] = "running"
  <2>1. Tokens(u)' \subseteq Tokens(u) \cup {<<u, attempt>>}
    BY <1>1, <1>2 DEF Tokens
  <2>2. \A w : w # u => Tokens(w)' = Tokens(w)
    BY <1>1, <1>2 DEF Tokens
  <2>3. OneLicence'
    BY <1>1, <1>3, <1>4, <2>1, <2>2, LicencePassed DEF StepInv
  <2> QED
    BY <1>3, <2>3 DEF StepInv
<1>5. CASE calls[u] # "running"
  <2>1. UNCHANGED world
    BY <1>1, <1>2, <1>5 DEF world
  <2> QED
    BY <1>1, <1>3, <2>1, StartedKept, LicenceKept DEF StepInv
<1> QED
  BY <1>4, <1>5

LEMMA OrphanActsKeeps ==
    ASSUME StepInv, NEW w, NEW n, OrphanActs(w, n)
    PROVE  StepInv'
<1>1. UNCHANGED <<log, worker, calls>> /\ performed' \cup orphans' = performed \cup orphans
  BY DEF OrphanActs, memory
<1>2. \A v : Tokens(v)' = Tokens(v)
  BY <1>1 DEF Tokens
<1>3. OneLicence'
  BY <1>1, <1>2, StartedKept DEF OneLicence, StepInv
<1>4. DOMAIN calls' \subseteq Work
  BY <1>1 DEF StepInv, ShapeOK
<1> QED
  BY <1>1, <1>3, <1>4, WorkerKept DEF StepInv

LEMMA CrashKeeps == ASSUME StepInv, Crash PROVE StepInv'
<1>1. UNCHANGED <<log, performed>> /\ orphans' = orphans \cup Outstanding(DOMAIN calls)
      /\ DOMAIN calls' = {} /\ worker'.pc \in Resting
  BY DEF Crash, NoCalls, Becomes, Down, Resting
<1>2. ASSUME NEW w, w.kind = "tool"
      PROVE  /\ ~Started(w)' => Tokens(w)' = {}
             /\ \A a, b \in Tokens(w)' : a = b
  <2>1. Tokens(w)' = Tokens(w) \cup {a \in Outstanding(DOMAIN calls) : a[1] = w}
    BY <1>1 DEF Tokens
  <2>2. \A a \in Outstanding(DOMAIN calls) : a[1] = w =>
            a = <<w, attempt>> /\ w \in DOMAIN calls /\ calls[w] = "running"
    BY DEF Outstanding
  <2>3. Started(w)' <=> Started(w)
    BY <1>1, StartedKept
  <2> QED
    BY <1>2, <2>1, <2>2, <2>3 DEF StepInv, OneLicence
<1>3. OneLicence'
  BY <1>1, <1>2 DEF OneLicence
<1>4. log' \in Seq(LogRecord) /\ DOMAIN calls' \subseteq Work
  BY <1>1 DEF StepInv, ShapeOK
<1> QED
  BY <1>1, <1>3, <1>4, Rests

-----------------------------------------------------------------------------
(* The outcomes and the end of a step.                                     *)
LEMMA FinishCallKeeps == ASSUME StepInv, FinishCall PROVE StepInv'
<1> DEFINE rest == Tail(worker.left)
           lost == worker.ambiguous \/ calls[Current] = "lost"
           events == EventsOf(Current, calls[Current])
           end == Finish(Current, StatusOf(calls[Current]))
           Room == [pc : {"finish"}, source : Nat, startErr : BOOLEAN, ambiguous : BOOLEAN, left : Seq(Work)]
<1>1. worker \in Room /\ worker.left \in Seq(Work) /\ worker.left # <<>>
  BY DEF StepInv, ShapeOK, FinishCall, At
<1>2. Current \in Work /\ Current.kind \in Events /\ rest \in Seq(Work)
  BY <1>1, Tails, StepAssumption DEF Current, Work
<1>3. Event(Current.kind) \in LogRecord /\ Event("agent.failed") \in LogRecord
  BY <1>2, StepAssumption DEF Event, LogRecord
<1>4. events \in Seq(LogRecord) /\ \A i \in DOMAIN events : events[i].type # "started"
  BY <1>3 DEF EventsOf, Event
<1>5. end \in LogRecord /\ end.type # "started"
  BY <1>2 DEF Finish, StatusOf, LogRecord
<1>6. /\ Appended(events \o <<end>>) /\ UNCHANGED <<calls, world>>
      /\ worker' = [worker EXCEPT !.left = rest, !.ambiguous = lost]
  BY DEF FinishCall
<1>7. lost \in BOOLEAN
  BY <1>1
<1> HIDE DEF events, end, rest, lost
<1>8. worker' \in Room /\ worker'.pc = "finish"
  BY <1>1, <1>2, <1>6, <1>7
<1>9. /\ events \o <<end>> \in Seq(LogRecord)
      /\ \A i \in DOMAIN (events \o <<end>>) : (events \o <<end>>)[i].type # "started"
  BY <1>4, <1>5, NoStartAmong
<1>10. log' \in Seq(LogRecord) /\ DOMAIN calls' \subseteq Work /\ OneLicence'
  BY <1>6, <1>9, Quietly
<1>11. ShapeOK' /\ Queued'
  BY <1>8, <1>10 DEF ShapeOK, Queued
<1> QED
  BY <1>10, <1>11 DEF StepInv

LEMMA EndCallsKeeps == ASSUME StepInv, EndCalls PROVE StepInv'
<1>1. UNCHANGED <<log, world>> /\ DOMAIN calls' = {}
  BY DEF EndCalls, NoCalls
<1>2. OneLicence'
  BY <1>1, StartedKept, LicenceKept DEF StepInv
<1>3. log' \in Seq(LogRecord) /\ DOMAIN calls' \subseteq Work
  BY <1>1 DEF StepInv, ShapeOK
<1>4. CASE worker' = [pc |-> "complete", source |-> worker.source]
  <2>1. worker.source \in Nat
    BY DEF StepInv, ShapeOK, EndCalls, At
  <2>2. worker' \in [pc : {"complete"}, source : Nat] /\ worker'.pc = "complete"
    BY <1>4, <2>1
  <2>3. ShapeOK' /\ Queued'
    BY <1>3, <2>2 DEF ShapeOK, Queued
  <2> QED
    BY <1>2, <2>3 DEF StepInv
<1>5. CASE worker'.pc \in Resting
  BY <1>2, <1>3, <1>5, Rests
<1> QED
  BY <1>4, <1>5 DEF EndCalls, StopsUnknown, StopsRecoverably, Becomes, Down, Resting

LEMMA EndStepKeeps == ASSUME StepInv, EndStep PROVE StepInv'
<1> DEFINE end == CompleteStep(worker.source)
<1>1. end \in LogRecord /\ end.type # "started"
  BY DEF StepInv, ShapeOK, EndStep, At, CompleteStep, LogRecord
<1>2. Appended(<<end>>) /\ UNCHANGED <<calls, world>>
  BY DEF EndStep
<1> HIDE DEF end
<1>3. <<end>> \in Seq(LogRecord) /\ \A i \in DOMAIN <<end>> : <<end>>[i].type # "started"
  BY <1>1
<1>4. worker'.pc \in Resting
  BY DEF EndStep, Goes, At, Resting, StepInv, ShapeOK
<1> QED
  BY <1>2, <1>3, <1>4, Quietly, Rests

LEMMA CheckpointKeeps == ASSUME StepInv, Checkpoint PROVE StepInv'
<1>1. worker'.pc \in Resting
  BY DEF Checkpoint, StopsRecoverably, Becomes, Down, Resting
<1> QED
  BY <1>1, Moving, Rests DEF Checkpoint

-----------------------------------------------------------------------------
LEMMA StepInvInit == StepInit => StepInv
<1> SUFFICES ASSUME StepInit PROVE StepInv
  OBVIOUS
<1> DEFINE first == [type |-> "event", kind |-> "run.started"]
<1>1. first \in LogRecord /\ first.type = "event"
  BY StepAssumption DEF LogRecord
<1>2. log = <<first>>
  BY DEF StepInit
<1>3. DOMAIN calls = {} /\ performed = {} /\ orphans = {} /\ worker.pc = "down"
  BY DEF StepInit, NoCalls, Down
<1>4. ShapeOK /\ Queued
  BY <1>1, <1>2, <1>3 DEF ShapeOK, Queued
<1>5. OneLicence
  BY <1>3 DEF OneLicence, Tokens
<1> QED
  BY <1>4, <1>5 DEF StepInv

LEMMA StepInvStep == StepInv /\ [StepNext]_stepVars => StepInv'
<1> SUFFICES ASSUME StepInv, [StepNext]_stepVars PROVE StepInv'
  OBVIOUS
<1>1. CASE WorkerNext
  BY <1>1, OpenKeeps, ReadKeeps, PrepareKeeps, SkipControlKeeps, RunControlKeeps,
     ControlDoneKeeps, SkipFinishedKeeps, FinishFromReceiptKeeps, WillRunKeeps,
     FinishUnknownKeeps, ClassifiedKeeps, RegisterKeeps, LaunchKeeps, LaunchFailsKeeps,
     LaunchedKeeps, FinishCallKeeps, EndCallsKeeps, EndStepKeeps, CheckpointKeeps
  DEF WorkerNext
<1>2. ASSUME NEW w \in DOMAIN calls, CallNext(w)
      PROVE  StepInv'
  BY <1>2, PerformKeeps, AnswerKeeps, RefuseKeeps, LoseKeeps DEF CallNext
<1>3. ASSUME NEW o \in orphans, OrphanActs(o[1], o[2])
      PROVE  StepInv'
  BY <1>3, OrphanActsKeeps
<1>4. CASE TimerFails
  BY <1>4, TimerFailsKeeps
<1>5. CASE Crash
  BY <1>5, CrashKeeps
<1>6. CASE UNCHANGED stepVars
  <2>1. UNCHANGED <<log, worker, calls, world>>
    BY <1>6 DEF stepVars, memory
  <2>2. DOMAIN calls' \subseteq Work
    BY <2>1 DEF StepInv, ShapeOK
  <2> QED
    BY <2>1, <2>2, Moving, WorkerKept DEF StepInv
<1> QED
  BY <1>1, <1>2, <1>3, <1>4, <1>5, <1>6 DEF StepNext

(* The invariant on which the next theorem rests: whatever is handed to a  *)
(* goroutine of Runner.RunStep was not, and what may act is one thing.     *)
THEOREM LicencesAreKept == StepSpec => []StepInv
<1>1. StepInit => StepInv
  BY StepInvInit
<1>2. StepInv /\ [StepNext]_stepVars => StepInv'
  BY StepInvStep
<1> QED
  BY <1>1, <1>2, PTL DEF StepSpec

(* An effect that is not idempotent acts on the world at most once, for    *)
(* every reducer, every number of workers, crashes and lost calls, with    *)
(* and without a claim (internal/exec, ErrUnknownWork: "Retrying could     *)
(* duplicate paid or mutating work").                                      *)
THEOREM WorkIsNeverRepeated == StepSpec => []NeverRepeated
<1>1. StepInv => NeverRepeated
  BY DEF StepInv, OneLicence, NeverRepeated, Tokens
<1> QED
  BY <1>1, LicencesAreKept, PTL

-----------------------------------------------------------------------------
(***************************************************************************)
(* The second argument.  The records of a log are the history of the steps *)
(* one after the other: every event up to the cursor has its step          *)
(* completed with known outcomes, at most the next one has a manifest, and *)
(* whatever started or ended is in a manifest (LogOK).  A worker past the  *)
(* manifest holds, of the effects of its event, every one that has no      *)
(* outcome yet (DeskOK); a call that is going on, or was lost with its     *)
(* worker, has not been answered for (CallsOK, WorldOK).                   *)
(***************************************************************************)

Prepped(w) == \E i \in Records("prepared") : log[i].work = w
Known(w) == \E i \in Records("finished") : log[i].work = w /\ log[i].status # "unknown"
Acted(w) == \E a \in performed : a[1] = w
Elements(s) == {s[i] : i \in DOMAIN s}

(* A prepared effect is in the manifest of its event, whole, which is the  *)
(* manifest of a completed step or of the one in progress.                 *)
Whole(w) ==
    /\ w.source \in Records("event") /\ w \in Works(w.source)
    /\ \A v \in Works(w.source) : Prepped(v)
    /\ w.source <= Cursor \/ w.source \in NextAfter(Cursor)

(* The log of a run.                                                       *)
LogOK ==
    /\ Accepted
    /\ \A i \in Records("prepared") : Whole(log[i].work)
    /\ Cursor \in 0..Len(log)
    /\ \A i \in Records("completed") : log[i].source \in Records("event") /\ log[i].source <= Cursor
    /\ \A seq \in Records("event") : seq <= Cursor => Complete(seq) /\ \A w \in Works(seq) : Known(w)

(* What the worker knows is true, and what it holds is all that is left.   *)
InStep == {"control", "classify", "launch", "finish", "complete"}

Untouched(s) == \A i \in DOMAIN s : ~Finished(s[i])

Handed == Len(worker.todo) - Len(worker.left)      \* effects launched

DeskOK ==
    /\ worker.pc \in {"read", "idle"} => worker.cursor = Cursor
    /\ worker.pc = "idle" => NextAfter(Cursor) = {}
    /\ worker.pc = "checkpoint" => worker.source = Cursor
    /\ worker.pc \in InStep \cup {"prepare"} => worker.source \in NextAfter(Cursor)
    /\ worker.pc \in InStep => \A w \in Works(worker.source) : Prepped(w)
    /\ worker.pc \in InStep \ {"complete"} => Elements(worker.left) \subseteq Works(worker.source)
    /\ worker.pc = "control" =>
          \A w \in Works(worker.source) : Finished(w) \/ w \in Elements(worker.left)
    /\ worker.pc \in {"classify", "launch"} =>
          /\ Elements(worker.todo) \subseteq Works(worker.source)
          /\ Sorted(worker.todo) /\ Untouched(worker.todo)
          /\ \A w \in Works(worker.source) :
                \/ Finished(w) \/ w \in Elements(worker.todo)
                \/ worker.pc = "classify" /\ w \in Elements(worker.left)
    /\ worker.pc = "launch" =>
          /\ Handed \in Nat
          /\ \A i \in DOMAIN worker.left :
                Handed + i \in DOMAIN worker.todo /\ worker.left[i] = worker.todo[Handed + i]
          /\ DOMAIN calls = {worker.todo[i] : i \in 1..Handed}
    /\ worker.pc = "finish" =>
          /\ Sorted(worker.left) /\ Untouched(worker.left)
          /\ Elements(worker.left) \subseteq DOMAIN calls
          /\ worker.startErr \/ \A w \in Works(worker.source) :
                                    Finished(w) \/ w \in Elements(worker.left)
    /\ worker.pc = "complete" => \A w \in Works(worker.source) : Finished(w)

(* An unknown outcome stops the run.                                       *)
HaltOK ==
    /\ worker.pc = "unknown" => Unknown # {}
    /\ worker.pc = "finish" => (worker.ambiguous <=> Unknown # {})
    /\ worker.pc \in {"read", "idle", "prepare", "checkpoint"} \cup (InStep \ {"finish"}) => Unknown = {}

(* The calls of the worker.                                                *)
CallsOK ==
    /\ worker.pc \notin {"launch", "finish"} => DOMAIN calls = {}
    /\ worker.pc # "down" => attempt \in 1..MaxAttempts
    /\ attempt \in 0..MaxAttempts
    /\ \A w \in DOMAIN calls :
          /\ calls[w] \in {"running", "acted", "ok", "refused", "lost"}
          /\ Prepped(w)
          /\ calls[w] = "running" => ~Finished(w)
          /\ Acting(w) /\ calls[w] \in {"acted", "ok"} => Acted(w)
          /\ w.kind = "tool" /\ calls[w] \in {"running", "refused"} => Tokens(w) = {}

(* The world, and what the store holds of it.                              *)
WorldOK ==
    /\ \A a \in performed \cup orphans :
          /\ a = <<a[1], a[2]>> /\ a[2] \in 1..MaxAttempts
          /\ Prepped(a[1]) /\ Acting(a[1])
    /\ \A a \in orphans :
          a[1].kind = "tool" =>
              /\ ~Acted(a[1])
              /\ \A i \in Records("finished") : log[i].work = a[1] => log[i].status = "unknown"
    /\ \A w \in receipts : Acted(w)

RecordInv == LogOK /\ DeskOK /\ HaltOK /\ CallsOK /\ WorldOK
-----------------------------------------------------------------------------
(* The log grows.                                                          *)

LEMMA Growth ==
    ASSUME log \in Seq(LogRecord), NEW recs \in Seq(LogRecord), Appended(recs)
    PROVE  /\ log' \in Seq(LogRecord) /\ Len(log) \in Nat /\ DOMAIN log = 1..Len(log)
           /\ \A i \in DOMAIN log : i \in DOMAIN log' /\ log'[i] = log[i]
           /\ \A i \in DOMAIN log' :
                 i \in DOMAIN log \/ \E k \in DOMAIN recs : k \in Nat /\ k > 0 /\ i = Len(log) + k /\ log'[i] = recs[k]
           /\ \A k \in DOMAIN recs : Len(log) + k \in DOMAIN log' /\ log'[Len(log) + k] = recs[k]
<1>1. log' = log \o recs
  BY DEF Appended
<1>2. /\ log' \in Seq(LogRecord) /\ Len(log') = Len(log) + Len(recs)
      /\ \A i \in 1..Len(log) : log'[i] = log[i]
      /\ \A i \in 1..Len(recs) : log'[Len(log) + i] = recs[i]
  BY <1>1
<1>3. /\ Len(log) \in Nat /\ Len(recs) \in Nat
      /\ DOMAIN log = 1..Len(log) /\ DOMAIN recs = 1..Len(recs) /\ DOMAIN log' = 1..Len(log')
  BY <1>2
<1>4. ASSUME NEW i \in DOMAIN log', i \notin DOMAIN log
      PROVE  \E k \in DOMAIN recs : k \in Nat /\ k > 0 /\ i = Len(log) + k /\ log'[i] = recs[k]
  <2>1. i - Len(log) \in 1..Len(recs) /\ i = Len(log) + (i - Len(log))
    BY <1>2, <1>3, <1>4
  <2>2. log'[Len(log) + (i - Len(log))] = recs[i - Len(log)]
    BY <1>2, <2>1
  <2> QED
    BY <1>3, <2>1, <2>2
<1> QED
  BY <1>2, <1>3, <1>4

(* Events keep their places, and the next event after a position stays so. *)
LEMMA EventsGrow ==
    ASSUME log \in Seq(LogRecord), NEW recs \in Seq(LogRecord), Appended(recs)
    PROVE  /\ \A seq \in Records("event") :
                 seq \in Records("event")' /\ List(seq)' = List(seq) /\ Works(seq)' = Works(seq)
           /\ \A seq \in Records("event")' : seq \in Records("event") \/ seq > Len(log)
           /\ \A c : \A seq \in NextAfter(c) : seq \in NextAfter(c)'
<1>1. ASSUME NEW seq \in Records("event")
      PROVE  seq \in Records("event")' /\ log'[seq] = log[seq] /\ seq \in Nat /\ seq <= Len(log)
  BY <1>1, Growth DEF Records
<1>2. ASSUME NEW seq \in Records("event")
      PROVE  List(seq)' = List(seq) /\ Works(seq)' = Works(seq)
  BY <1>1, <1>2 DEF List, Works
<1>3. ASSUME NEW seq \in Records("event")'
      PROVE  seq \in Nat /\ (seq \in Records("event") \/ seq > Len(log))
  <2>1. CASE seq \in DOMAIN log
    BY <2>1, <1>3, Growth DEF Records
  <2>2. CASE seq \notin DOMAIN log
    <3>1. seq \in DOMAIN log'
      BY <1>3 DEF Records
    <3>2. PICK k \in DOMAIN recs : k \in Nat /\ k > 0 /\ seq = Len(log) + k
      BY <2>2, <3>1, Growth
    <3> QED
      BY <3>2, Growth
  <2> QED
    BY <2>1, <2>2
<1>4. ASSUME NEW c, NEW seq \in NextAfter(c)
      PROVE  seq \in NextAfter(c)'
  <2>1. seq \in Records("event") /\ seq > c /\ \A k \in Records("event") : k > c => seq <= k
    BY <1>4 DEF NextAfter
  <2>2. ASSUME NEW k \in Records("event")', k > c
        PROVE  seq <= k
    BY <1>1, <1>3, <2>1, <2>2, Growth
  <2> QED
    BY <1>1, <2>1, <2>2 DEF NextAfter
<1> QED
  BY <1>1, <1>2, <1>3, <1>4

(* The cursor is the greatest source completed.                            *)
Sources == {log[k].source : k \in Records("completed")}

LEMMA CursorIs ==
    ASSUME log \in Seq(LogRecord)
    PROVE  Cursor = Maximum(Sources)
<1>1. {k \in Records("completed") : k < Len(log) + 1} = Records("completed")
  BY DEF Records
<1> QED
  BY <1>1 DEF Cursor, CompletedBefore, Sources

LEMMA CursorIsNext ==
    ASSUME log' \in Seq(LogRecord)
    PROVE  Cursor' = Maximum(Sources')
<1> DEFINE all == {log[k].source : k \in {k \in Records("completed") : k < Len(log) + 1}}
<1>1. {k \in Records("completed") : k < Len(log) + 1}' = Records("completed")'
  BY DEF Records
<1>2. all' = Sources'
  BY <1>1 DEF Sources
<1> HIDE DEF all
<1>3. Cursor' = Maximum(all')
  BY DEF Cursor, CompletedBefore, all, Maximum
<1> QED
  BY <1>2, <1>3

LEMMA MaximumIs ==
    ASSUME NEW S \in SUBSET Nat, NEW m \in S, \A x \in S : x <= m
    PROVE  Maximum(S) = m
<1>1. S # {} /\ m \in Nat
  OBVIOUS
<1>2. \E x \in S : \A y \in S : y <= x
  OBVIOUS
<1> DEFINE top == CHOOSE x \in S : \A y \in S : y <= x
<1>3. top \in S /\ \A y \in S : y <= top
  BY <1>2
<1> HIDE DEF top
<1>4. top = m
  BY <1>3
<1> QED
  BY <1>1, <1>4 DEF Maximum, top
LEMMA Longer ==
    ASSUME log \in Seq(LogRecord), NEW recs \in Seq(LogRecord), Appended(recs)
    PROVE  0..Len(log) \subseteq 0..Len(log')
  BY DEF Appended

(* Events, starts and the outcome of one effect.                           *)
Harmless(recs, w, s) ==
    \A i \in DOMAIN recs :
        \/ recs[i].type = "event"
        \/ recs[i].type = "started" /\ Prepped(recs[i].work)
        \/ /\ recs[i].type = "finished" /\ recs[i].work = w /\ recs[i].status = s
           /\ Prepped(w) /\ ~Finished(w)

(* An append of events, starts and at most one outcome of a prepared       *)
(* effect that had none.                                                   *)
LEMMA Plainly ==
    ASSUME log \in Seq(LogRecord), LogOK, NEW recs \in Seq(LogRecord), Appended(recs),
           NEW w, NEW s,
           Harmless(recs, w, s)
    PROVE  /\ LogOK' /\ Cursor' = Cursor
           /\ \A seq \in NextAfter(Cursor) : seq \in NextAfter(Cursor)'
           /\ \A seq \in Records("event") : Works(seq)' = Works(seq)
           /\ \A v : Prepped(v)' <=> Prepped(v)
           /\ \A i \in Records("finished") : i \in Records("finished")' /\ log'[i] = log[i]
           /\ \A i \in Records("finished")' :
                 \/ i \in Records("finished") /\ log'[i] = log[i]
                 \/ /\ log'[i].work = w /\ log'[i].status = s /\ Prepped(w) /\ ~Finished(w)
                    /\ \E k \in DOMAIN recs : recs[k].type = "finished"
           /\ \A seq : Prepared(seq)' <=> Prepared(seq)
           /\ \A seq : Complete(seq)' <=> Complete(seq)
<1> DEFINE Old(i) == i \in DOMAIN log /\ i \in DOMAIN log' /\ log'[i] = log[i]
<1>1. /\ \A i \in DOMAIN log : Old(i) /\ i \in Nat /\ i <= Len(log)
      /\ \A i \in DOMAIN log' : i \in Nat /\ (Old(i) \/ i > Len(log))
  BY Growth
<1>2. ASSUME NEW i \in DOMAIN log', ~Old(i)
      PROVE  \/ log'[i].type = "event"
             \/ log'[i].type = "started" /\ Prepped(log'[i].work)
             \/ /\ log'[i].type = "finished" /\ log'[i].work = w /\ log'[i].status = s
                /\ Prepped(w) /\ ~Finished(w)
                /\ \E k \in DOMAIN recs : recs[k].type = "finished"
  <2>1. PICK k \in DOMAIN recs : log'[i] = recs[k]
    BY <1>1, <1>2, Growth
  <2> QED
    BY <2>1 DEF Harmless
<1>3. /\ \A i : i \in Records("prepared")' <=> i \in Records("prepared")
      /\ \A i : i \in Records("completed")' <=> i \in Records("completed")
      /\ \A i \in Records("prepared") \cup Records("completed") : log'[i] = log[i]
  BY <1>1, <1>2 DEF Records
<1>4. /\ \A i \in Records("finished") : i \in Records("finished")' /\ log'[i] = log[i]
      /\ \A i \in Records("finished")' :
            \/ i \in Records("finished") /\ log'[i] = log[i]
            \/ /\ log'[i].work = w /\ log'[i].status = s /\ Prepped(w) /\ ~Finished(w)
               /\ \E k \in DOMAIN recs : recs[k].type = "finished"
  BY <1>1, <1>2 DEF Records
<1>5. \A v : Prepped(v)' <=> Prepped(v)
  BY <1>3 DEF Prepped
<1>6. /\ \A seq : Prepared(seq)' <=> Prepared(seq)
      /\ \A seq : Complete(seq)' <=> Complete(seq)
  BY <1>3 DEF Prepared, Complete
<1>7. log' \in Seq(LogRecord) /\ Sources' = Sources
  BY <1>3, Growth DEF Sources
<1>8. Cursor' = Cursor
  BY <1>7, CursorIs, CursorIsNext DEF Maximum
<1>9. ASSUME NEW i
      PROVE  CompletedBefore(i)' = CompletedBefore(i)
  <2> DEFINE before == {log[k].source : k \in {k \in Records("completed") : k < i}}
  <2>1. before' = before
    BY <1>3
  <2> HIDE DEF before
  <2>2. CompletedBefore(i) = Maximum(before) /\ CompletedBefore(i)' = Maximum(before')
    BY DEF CompletedBefore, before, Maximum
  <2> QED
    BY <2>1, <2>2
<1>10. /\ \A c : \A seq \in NextAfter(c) : seq \in NextAfter(c)'
       /\ \A seq \in Records("event") : seq \in Records("event")' /\ Works(seq)' = Works(seq)
       /\ \A seq \in Records("event")' : seq \in Records("event") \/ seq > Len(log)
  BY EventsGrow
<1>11. \A seq \in NextAfter(Cursor) : seq \in NextAfter(Cursor)'
  <2>1. ASSUME NEW seq \in NextAfter(Cursor)
        PROVE  seq \in NextAfter(Cursor)'
    <3> DEFINE c == Cursor
    <3>1. seq \in {i \in Records("event")' : i > c /\ \A k \in Records("event")' : k > c => i <= k}
      BY <1>10, <2>1 DEF NextAfter
    <3> QED
      BY <1>8, <3>1 DEF NextAfter
  <2> QED
    BY <2>1
<1>12. Accepted'
  <2>1. ASSUME NEW i \in Records("started")' \cup Records("finished")'
        PROVE  \E k \in Records("prepared")' : k < i /\ log'[k].work = log'[i].work
    <3>1. CASE Old(i)
      <4>1. i \in Records("started") \cup Records("finished")
        BY <2>1, <3>1 DEF Records
      <4>2. PICK k \in Records("prepared") : k < i /\ log[k].work = log[i].work
        BY <4>1 DEF LogOK, Accepted
      <4> QED
        BY <1>3, <3>1, <4>2
    <3>2. CASE ~Old(i)
      <4>1. i \in DOMAIN log' /\ i > Len(log) /\ i \in Nat
        BY <1>1, <2>1, <3>2 DEF Records
      <4>2. Prepped(log'[i].work)
        BY <1>2, <2>1, <3>2, <4>1 DEF Records
      <4>3. PICK k \in Records("prepared") : log[k].work = log'[i].work
        BY <4>2 DEF Prepped
      <4>4. k \in Nat /\ k <= Len(log) /\ Len(log) \in Nat
        BY <1>1, <4>3, Growth DEF Records
      <4> QED
        BY <1>3, <4>1, <4>3, <4>4
    <3> QED
      BY <3>1, <3>2
  <2>2. ASSUME NEW i \in Records("finished")', NEW k \in Records("finished")',
               log'[i].work = log'[k].work
        PROVE  log'[i].status = log'[k].status
    <3>1. CASE i \in Records("finished") /\ k \in Records("finished")
      BY <1>4, <2>2, <3>1 DEF LogOK, Accepted
    <3>2. CASE i \notin Records("finished") /\ k \notin Records("finished")
      BY <1>4, <2>2, <3>2
    <3>3. CASE i \in Records("finished") /\ k \notin Records("finished")
      BY <1>4, <2>2, <3>3 DEF Finished
    <3>4. CASE i \notin Records("finished") /\ k \in Records("finished")
      BY <1>4, <2>2, <3>4 DEF Finished
    <3> QED
      BY <3>1, <3>2, <3>3, <3>4
  <2>3. ASSUME NEW i \in Records("completed")'
        PROVE  log'[i].source \in NextAfter(CompletedBefore(i))'
    <3>1. log[i].source \in NextAfter(CompletedBefore(i)) /\ log'[i] = log[i]
      BY <1>3, <2>3 DEF LogOK, Accepted
    <3> DEFINE c == CompletedBefore(i)
    <3>2. log[i].source \in {j \in Records("event")' : j > c /\ \A k \in Records("event")' : k > c => j <= k}
      BY <1>10, <3>1 DEF NextAfter
    <3> QED
      BY <1>9, <3>1, <3>2 DEF NextAfter
  <2> QED
    BY <2>1, <2>2, <2>3 DEF Accepted
<1>13. ASSUME NEW i \in Records("prepared")'
       PROVE  Whole(log[i].work)'
  <2>0. PICK w0 : w0 = log[i].work
    OBVIOUS
  <2>1. i \in Records("prepared") /\ log'[i].work = w0 /\ Whole(w0)
    BY <1>3, <1>13, <2>0 DEF LogOK
  <2>2. w0.source \in Records("event")' /\ Works(w0.source)' = Works(w0.source)
    BY <1>10, <2>1 DEF Whole
  <2>3. w0.source <= Cursor' \/ w0.source \in NextAfter(Cursor)'
    BY <1>8, <1>11, <2>1 DEF Whole
  <2> QED
    BY <1>5, <2>1, <2>2, <2>3 DEF Whole
<1>14. ASSUME NEW i \in Records("completed")'
       PROVE  log'[i].source \in Records("event")' /\ log'[i].source <= Cursor'
  BY <1>3, <1>8, <1>10, <1>14 DEF LogOK
<1>15. \A v : Known(v) => Known(v)'
  BY <1>4 DEF Known
<1>16. ASSUME NEW seq \in Records("event")', seq <= Cursor'
       PROVE  Complete(seq)' /\ \A v \in Works(seq)' : Known(v)'
  <2>1. CASE seq \in Records("event")
    BY <1>6, <1>8, <1>10, <1>15, <1>16, <2>1 DEF LogOK
  <2>2. CASE seq > Len(log)
    <3>1. Cursor \in Nat /\ Cursor <= Len(log)
      BY Growth DEF LogOK
    <3> QED
      BY <1>8, <1>16, <2>2, <3>1, Growth DEF Records
  <2> QED
    BY <1>10, <2>1, <2>2
<1>17. LogOK'
  <2>1. Cursor' \in 0..Len(log)'
    BY <1>8, Longer DEF LogOK
  <2> QED
    BY <1>12, <1>13, <1>14, <1>16, <2>1 DEF LogOK
<1> QED
  BY <1>4, <1>5, <1>6, <1>8, <1>10, <1>11, <1>17
(* Nothing is written.                                                     *)
LEMMA Still ==
    ASSUME UNCHANGED log
    PROVE  /\ LogOK => LogOK'
           /\ Cursor' = Cursor
           /\ NextAfter(Cursor)' = NextAfter(Cursor)
           /\ Records("event")' = Records("event") /\ Records("finished")' = Records("finished")
           /\ \A seq : Works(seq)' = Works(seq)
           /\ \A v : Prepped(v)' <=> Prepped(v)
           /\ \A v : Finished(v)' <=> Finished(v)
           /\ Unknown' = Unknown
           /\ \A seq : Prepared(seq)' <=> Prepared(seq)
           /\ \A seq : Complete(seq)' <=> Complete(seq)
<1>1. \A t : Records(t)' = Records(t)
  BY DEF Records
<1>2. ASSUME NEW i
      PROVE  CompletedBefore(i)' = CompletedBefore(i)
  <2> DEFINE before == {log[k].source : k \in {k \in Records("completed") : k < i}}
  <2>1. before' = before
    BY <1>1
  <2>2. CompletedBefore(i) = Maximum(before) /\ CompletedBefore(i)' = Maximum(before')
    BY DEF CompletedBefore, Maximum
  <2> QED
    BY <2>1, <2>2
<1>3. Cursor' = Cursor
  <2> DEFINE all == {log[k].source : k \in {k \in Records("completed") : k < Len(log) + 1}}
  <2>1. all' = all
    BY <1>1
  <2>2. Cursor = Maximum(all) /\ Cursor' = Maximum(all')
    BY DEF Cursor, CompletedBefore, Maximum
  <2> QED
    BY <2>1, <2>2
<1>4. \A c : NextAfter(c)' = NextAfter(c)
  BY <1>1 DEF NextAfter
<1>5. NextAfter(Cursor)' = NextAfter(Cursor)
  BY <1>1, <1>3 DEF NextAfter
<1>6. \A seq : Works(seq)' = Works(seq)
  BY DEF Works, List
<1>7. /\ \A v : Prepped(v)' <=> Prepped(v)
      /\ \A v : Finished(v)' <=> Finished(v)
      /\ \A v : Known(v)' <=> Known(v)
      /\ \A seq : Prepared(seq)' <=> Prepared(seq)
      /\ \A seq : Complete(seq)' <=> Complete(seq)
      /\ Unknown' = Unknown
  BY <1>1 DEF Prepped, Finished, Known, Prepared, Complete, Unknown
<1>8. ASSUME LogOK PROVE LogOK'
  <2>1. Accepted'
    <3>1. \A i \in Records("completed") : log[i].source \in NextAfter(CompletedBefore(i))'
      BY <1>1, <1>2, <1>8 DEF LogOK, Accepted, NextAfter
    <3> QED
      BY <1>1, <1>8, <3>1 DEF LogOK, Accepted
  <2>2. \A v : Whole(v) => Whole(v)'
    BY <1>1, <1>3, <1>5, <1>6, <1>7 DEF Whole
  <2> QED
    BY <1>1, <1>3, <1>6, <1>7, <1>8, <2>1, <2>2 DEF LogOK
<1> QED
  BY <1>1, <1>3, <1>5, <1>6, <1>7, <1>8

(* Events followed by one record.                                          *)
LEMMA Among ==
    ASSUME NEW events \in Seq(LogRecord), \A i \in DOMAIN events : events[i].type = "event",
           NEW end \in LogRecord
    PROVE  /\ events \o <<end>> \in Seq(LogRecord)
           /\ \A i \in DOMAIN (events \o <<end>>) :
                 (events \o <<end>>)[i].type = "event" \/ (events \o <<end>>)[i] = end
           /\ \E i \in DOMAIN (events \o <<end>>) : (events \o <<end>>)[i] = end
<1> DEFINE last == <<end>>
           both == events \o last
<1>1. last \in Seq(LogRecord) /\ Len(last) = 1 /\ last[1] = end
  OBVIOUS
<1>2. Len(events) \in Nat /\ DOMAIN events = 1..Len(events)
  OBVIOUS
<1> HIDE DEF last
<1>3. /\ both \in Seq(LogRecord) /\ DOMAIN both = 1..(Len(events) + 1)
      /\ \A i \in 1..(Len(events) + 1) :
            both[i] = IF i <= Len(events) THEN events[i] ELSE last[i - Len(events)]
  <2>1. both \in Seq(LogRecord) /\ Len(both) = Len(events) + 1
    BY <1>1, ConcatProperties
  <2> QED
    BY <1>1, <1>2, <2>1, ConcatProperties
<1>4. ASSUME NEW i \in DOMAIN both
      PROVE  both[i].type = "event" \/ both[i] = end
  <2>1. CASE i <= Len(events)
    BY <1>2, <1>3, <1>4, <2>1
  <2>2. CASE ~(i <= Len(events))
    <3>1. i - Len(events) = 1
      BY <1>2, <1>3, <1>4, <2>2
    <3> QED
      BY <1>1, <1>3, <1>4, <2>2, <3>1
  <2> QED
    BY <2>1, <2>2
<1>5. both[Len(events) + 1] = end /\ Len(events) + 1 \in DOMAIN both
  <2>1. Len(events) + 1 \in DOMAIN both /\ ~(Len(events) + 1 <= Len(events))
        /\ Len(events) + 1 - Len(events) = 1
    BY <1>2, <1>3
  <2> QED
    BY <1>1, <1>3, <2>1
<1> QED
  BY <1>3, <1>4, <1>5 DEF last

(* Events and the outcome of an effect.                                    *)
Ends(recs, w, s) ==
    /\ recs \in Seq(LogRecord)
    /\ \A i \in DOMAIN recs : recs[i].type = "event" \/ recs[i] = Finish(w, s)
    /\ \E i \in DOMAIN recs : recs[i] = Finish(w, s)

OnlyEvents(recs) == recs \in Seq(LogRecord) /\ \A i \in DOMAIN recs : recs[i].type = "event"

LEMMA EndsIs ==
    ASSUME NEW w \in Work, NEW s \in {"completed", "failed", "unknown"},
           NEW events, OnlyEvents(events),
           NEW recs, recs = events \o <<Finish(w, s)>>
    PROVE  Ends(recs, w, s)
<1>1. PICK end \in LogRecord : end = Finish(w, s)
  BY DEF Finish, LogRecord
<1>2. recs = events \o <<end>>
  BY <1>1
<1> QED
  BY <1>1, <1>2, Among DEF Ends, OnlyEvents

LEMMA SomeEvents ==
    /\ OnlyEvents(<<>>)
    /\ \A kind \in Events : OnlyEvents(<<Event(kind)>>)
<1>1. ASSUME NEW kind \in Events
      PROVE  OnlyEvents(<<Event(kind)>>)
  <2>1. PICK e : e = Event(kind)
    OBVIOUS
  <2>2. e \in LogRecord /\ e.type = "event"
    BY <2>1 DEF Event, LogRecord
  <2>3. OnlyEvents(<<e>>)
    BY <2>2 DEF OnlyEvents
  <2> QED
    BY <2>1, <2>3
<1> QED
  BY <1>1 DEF OnlyEvents

(* A prepared effect is decided.                                           *)
LEMMA Ending ==
    ASSUME log \in Seq(LogRecord), LogOK, NEW w \in Work, Prepped(w), ~Finished(w),
           NEW s \in {"completed", "failed", "unknown"},
           NEW recs, Ends(recs, w, s), Appended(recs)
    PROVE  /\ LogOK' /\ Cursor' = Cursor
           /\ \A seq \in NextAfter(Cursor) : seq \in NextAfter(Cursor)'
           /\ \A seq \in Records("event") : Works(seq)' = Works(seq)
           /\ \A v : Prepped(v)' <=> Prepped(v)
           /\ \A v : Finished(v)' <=> Finished(v) \/ v = w
           /\ s # "unknown" => Unknown' = Unknown
           /\ s = "unknown" => Unknown' # {}
           /\ \A i \in Records("finished") : i \in Records("finished")' /\ log'[i] = log[i]
           /\ \A i \in Records("finished")' :
                 \/ i \in Records("finished") /\ log'[i] = log[i]
                 \/ log'[i].work = w /\ log'[i].status = s
           /\ \E i \in Records("finished")' : log'[i].work = w /\ log'[i].status = s
           /\ \A seq : Prepared(seq)' <=> Prepared(seq)
           /\ \A seq : Complete(seq)' <=> Complete(seq)
<1>1. PICK end : end = Finish(w, s)
  OBVIOUS
<1>2. /\ recs \in Seq(LogRecord)
      /\ \A i \in DOMAIN recs : recs[i].type = "event" \/ recs[i] = end
      /\ \E i \in DOMAIN recs : recs[i] = end
  BY <1>1 DEF Ends
<1>3. end.type = "finished" /\ end.work = w /\ end.status = s
  BY <1>1 DEF Finish
<1>0. Harmless(recs, w, s)
  BY <1>2, <1>3 DEF Harmless
<1>4. /\ LogOK' /\ Cursor' = Cursor
      /\ \A seq \in NextAfter(Cursor) : seq \in NextAfter(Cursor)'
      /\ \A seq \in Records("event") : Works(seq)' = Works(seq)
      /\ \A v : Prepped(v)' <=> Prepped(v)
      /\ \A i \in Records("finished") : i \in Records("finished")' /\ log'[i] = log[i]
      /\ \A i \in Records("finished")' :
            \/ i \in Records("finished") /\ log'[i] = log[i]
            \/ log'[i].work = w /\ log'[i].status = s
      /\ \A seq : Prepared(seq)' <=> Prepared(seq)
      /\ \A seq : Complete(seq)' <=> Complete(seq)
  BY <1>0, <1>2, Plainly
<1>5. \E i \in Records("finished")' : log'[i].work = w /\ log'[i].status = s
  <2>1. PICK k \in DOMAIN recs : recs[k] = end
    BY <1>2
  <2>2. Len(log) + k \in DOMAIN log' /\ log'[Len(log) + k] = end
    BY <1>2, <2>1, Growth
  <2> QED
    BY <1>3, <2>2 DEF Records
<1>6. \A v : Finished(v)' <=> Finished(v) \/ v = w
  BY <1>4, <1>5 DEF Finished
<1>7. s # "unknown" => Unknown' = Unknown
  BY <1>4 DEF Unknown
<1>8. s = "unknown" => Unknown' # {}
  BY <1>5 DEF Unknown
<1> QED
  BY <1>4, <1>5, <1>6, <1>7, <1>8
(* An effect is started.                                                   *)
LEMMA Starting ==
    ASSUME log \in Seq(LogRecord), LogOK, NEW w \in Work, Prepped(w),
           NEW recs, recs = <<>> \/ recs = <<Start(w)>>, Appended(recs)
    PROVE  /\ LogOK' /\ Cursor' = Cursor
           /\ \A seq \in NextAfter(Cursor) : seq \in NextAfter(Cursor)'
           /\ \A seq \in Records("event") : Works(seq)' = Works(seq)
           /\ \A v : Prepped(v)' <=> Prepped(v)
           /\ \A v : Finished(v)' <=> Finished(v)
           /\ Unknown' = Unknown
           /\ \A i \in Records("finished") : i \in Records("finished")' /\ log'[i] = log[i]
           /\ \A i \in Records("finished")' : i \in Records("finished") /\ log'[i] = log[i]
           /\ \A seq : Prepared(seq)' <=> Prepared(seq)
           /\ \A seq : Complete(seq)' <=> Complete(seq)
<1>1. Start(w) \in LogRecord /\ Start(w).type = "started" /\ Start(w).work = w
  BY DEF Start, LogRecord
<1>2. recs \in Seq(LogRecord) /\ \A i \in DOMAIN recs : recs[i] = Start(w)
  <2>1. PICK start : start = Start(w)
    OBVIOUS
  <2>2. CASE recs = <<>>
    BY <2>2
  <2>3. CASE recs = <<start>>
    BY <1>1, <2>1, <2>3
  <2> QED
    BY <2>1, <2>2, <2>3
<1>3. Harmless(recs, w, "unknown")
  BY <1>1, <1>2 DEF Harmless
<1>4. /\ LogOK' /\ Cursor' = Cursor
      /\ \A seq \in NextAfter(Cursor) : seq \in NextAfter(Cursor)'
      /\ \A seq \in Records("event") : Works(seq)' = Works(seq)
      /\ \A v : Prepped(v)' <=> Prepped(v)
      /\ \A i \in Records("finished") : i \in Records("finished")' /\ log'[i] = log[i]
      /\ \A i \in Records("finished")' :
            \/ i \in Records("finished") /\ log'[i] = log[i]
            \/ \E k \in DOMAIN recs : recs[k].type = "finished"
      /\ \A seq : Prepared(seq)' <=> Prepared(seq)
      /\ \A seq : Complete(seq)' <=> Complete(seq)
  BY <1>2, <1>3, Plainly
<1>5. \A i \in Records("finished")' : i \in Records("finished") /\ log'[i] = log[i]
  BY <1>1, <1>2, <1>4
<1>6. (\A v : Finished(v)' <=> Finished(v)) /\ Unknown' = Unknown
  BY <1>4, <1>5 DEF Finished, Unknown
<1> QED
  BY <1>4, <1>5, <1>6

(* The manifest of the next event.                                         *)
LEMMA Manifesting ==
    ASSUME log \in Seq(LogRecord), LogOK, NEW seq \in NextAfter(Cursor), ~Prepared(seq),
           Appended([i \in DOMAIN List(seq) |-> Prepare(List(seq)[i])])
    PROVE  /\ LogOK' /\ Cursor' = Cursor
           /\ \A c \in NextAfter(Cursor) : c \in NextAfter(Cursor)'
           /\ Records("event")' = Records("event")
           /\ \A c \in Records("event") : Works(c)' = Works(c)
           /\ \A v : Prepped(v)' <=> Prepped(v) \/ v \in Works(seq)
           /\ \A v : Finished(v)' <=> Finished(v)
           /\ Unknown' = Unknown
           /\ \A i \in Records("finished") : i \in Records("finished")' /\ log'[i] = log[i]
           /\ \A i \in Records("finished")' : i \in Records("finished") /\ log'[i] = log[i]
           /\ \A c : Prepared(c)' <=> Prepared(c) \/ (c = seq /\ Works(seq) # {})
           /\ \A c : Complete(c)' <=> Complete(c)
<1> DEFINE Old(i) == i \in DOMAIN log /\ i \in DOMAIN log' /\ log'[i] = log[i]
<1>0. PICK works : works = List(seq)
  OBVIOUS
<1>1. PICK recs : recs = [i \in DOMAIN works |-> Prepare(works[i])]
  OBVIOUS
<1>2. /\ seq \in Records("event") /\ seq > Cursor /\ seq \in Nat
      /\ \A k \in Records("event") : k > Cursor => seq <= k
  BY DEF NextAfter, Records
<1>3. works \in Seq(Work) /\ Works(seq) = Elements(works) /\ \A i \in DOMAIN works : works[i].source = seq
  BY <1>0, <1>2, ListIsSorted DEF Works, Elements, List
<1>4. /\ recs \in Seq(LogRecord) /\ DOMAIN recs = DOMAIN works
      /\ \A i \in DOMAIN recs : recs[i].type = "prepared" /\ recs[i].work = works[i]
  <2>1. Len(works) \in Nat /\ DOMAIN works = 1..Len(works) /\ \A i \in 1..Len(works) : works[i] \in Work
    BY <1>3
  <2>2. \A i \in 1..Len(works) : Prepare(works[i]) \in LogRecord
    BY <2>1 DEF Prepare, LogRecord
  <2>3. recs \in [1..Len(works) -> LogRecord]
    BY <1>1, <2>1, <2>2
  <2>4. recs \in Seq(LogRecord)
    BY <2>1, <2>3, SeqDef
  <2>5. \A i \in DOMAIN recs : recs[i].type = "prepared" /\ recs[i].work = works[i]
    BY <1>1, <2>1 DEF Prepare
  <2> QED
    BY <1>1, <2>4, <2>5
<1>5. Appended(recs)
  BY <1>0, <1>1
<1>6. /\ \A i \in DOMAIN log : Old(i) /\ i \in Nat /\ i <= Len(log)
      /\ \A i \in DOMAIN log' : i \in Nat /\ (Old(i) \/ i > Len(log))
  BY <1>4, <1>5, Growth
<1>7. ASSUME NEW i \in DOMAIN log', ~Old(i)
      PROVE  log'[i].type = "prepared" /\ log'[i].work \in Works(seq) /\ log'[i].work.source = seq
  <2>1. PICK k \in DOMAIN recs : log'[i] = recs[k]
    BY <1>4, <1>5, <1>6, <1>7, Growth
  <2> QED
    BY <1>3, <1>4, <2>1 DEF Elements
<1>8. /\ \A t \in {"event", "started", "finished", "completed"} : \A i : i \in Records(t)' <=> i \in Records(t)
      /\ \A t, i : i \in Records(t) => i \in Records(t)' /\ log'[i] = log[i]
      /\ \A i : i \in Records("prepared")' =>
            i \in Records("prepared") \/ (log'[i].work \in Works(seq) /\ log'[i].work.source = seq)
  BY <1>6, <1>7 DEF Records
<1>9. \A v : Prepped(v)' <=> Prepped(v) \/ v \in Works(seq)
  <2>1. ASSUME NEW v \in Works(seq)
        PROVE  Prepped(v)'
    <3>1. PICK k \in DOMAIN recs : v = works[k]
      BY <1>3, <1>4 DEF Elements
    <3>2. Len(log) + k \in DOMAIN log' /\ log'[Len(log) + k] = recs[k]
      BY <1>4, <1>5, Growth
    <3> QED
      BY <1>4, <3>1, <3>2 DEF Prepped, Records
  <2> QED
    BY <1>8, <2>1 DEF Prepped
<1>10. \A c : Prepared(c)' <=> Prepared(c) \/ (c = seq /\ Works(seq) # {})
  <2>1. ASSUME Works(seq) # {}
        PROVE  Prepared(seq)'
    <3>1. PICK v \in Works(seq) : v.source = seq
      BY <1>3, <2>1 DEF Elements
    <3> QED
      BY <1>9, <3>1 DEF Prepped, Prepared
  <2> QED
    BY <1>8, <2>1 DEF Prepared
<1>11. /\ \A v : Finished(v)' <=> Finished(v)
       /\ \A v : Known(v)' <=> Known(v)
       /\ Unknown' = Unknown
       /\ \A c : Complete(c)' <=> Complete(c)
  BY <1>8 DEF Finished, Known, Unknown, Complete
<1>12. log' \in Seq(LogRecord) /\ Sources' = Sources
  BY <1>4, <1>5, <1>8, Growth DEF Sources
<1>13. Cursor' = Cursor
  BY <1>12, CursorIs, CursorIsNext DEF Maximum
<1>14. ASSUME NEW i
       PROVE  CompletedBefore(i)' = CompletedBefore(i)
  <2> DEFINE before == {log[k].source : k \in {k \in Records("completed") : k < i}}
  <2>1. before' = before
    BY <1>8
  <2>2. CompletedBefore(i) = Maximum(before) /\ CompletedBefore(i)' = Maximum(before')
    BY DEF CompletedBefore, Maximum
  <2> QED
    BY <2>1, <2>2
<1>15. Records("event")' = Records("event")
  BY <1>8
<1>16. \A c \in Records("event") : Works(c)' = Works(c)
  BY <1>4, <1>5, EventsGrow
<1>17. NextAfter(Cursor)' = NextAfter(Cursor)
  BY <1>13, <1>15 DEF NextAfter
<1>18. Accepted'
  <2>1. ASSUME NEW i \in Records("started")' \cup Records("finished")'
        PROVE  \E k \in Records("prepared")' : k < i /\ log'[k].work = log'[i].work
    BY <1>8, <2>1 DEF LogOK, Accepted
  <2>2. ASSUME NEW i \in Records("finished")', NEW k \in Records("finished")',
               log'[i].work = log'[k].work
        PROVE  log'[i].status = log'[k].status
    BY <1>8, <2>2 DEF LogOK, Accepted
  <2>3. ASSUME NEW i \in Records("completed")'
        PROVE  log'[i].source \in NextAfter(CompletedBefore(i))'
    BY <1>8, <1>14, <1>15, <2>3 DEF LogOK, Accepted, NextAfter
  <2> QED
    BY <2>1, <2>2, <2>3 DEF Accepted
<1>19. ASSUME NEW v, Whole(v)
       PROVE  Whole(v)'
  BY <1>9, <1>13, <1>15, <1>16, <1>17, <1>19 DEF Whole
<1>20. ASSUME NEW v \in Works(seq)
       PROVE  Whole(v)'
  <2>1. v.source = seq
    BY <1>3, <1>20 DEF Elements
  <2> QED
    BY <1>2, <1>9, <1>15, <1>16, <1>17, <1>20, <2>1 DEF Whole
<1>21. ASSUME NEW i \in Records("prepared")'
       PROVE  Whole(log[i].work)'
  BY <1>8, <1>19, <1>20, <1>21 DEF LogOK
<1>22. Cursor' \in 0..Len(log)'
  BY <1>4, <1>5, <1>13, Longer DEF LogOK
<1>23. LogOK'
  BY <1>8, <1>11, <1>13, <1>15, <1>16, <1>18, <1>21, <1>22 DEF LogOK
<1> QED
  BY <1>8, <1>9, <1>10, <1>11, <1>13, <1>15, <1>16, <1>17, <1>23
(* The completion of the step in progress.                                 *)
LEMMA Completing ==
    ASSUME log \in Seq(LogRecord), LogOK, NEW seq \in NextAfter(Cursor),
           \A w \in Works(seq) : Finished(w), Unknown = {},
           Appended(<<CompleteStep(seq)>>)
    PROVE  /\ LogOK' /\ Cursor' = seq
           /\ Records("event")' = Records("event")
           /\ \A c \in Records("event") : Works(c)' = Works(c)
           /\ \A v : Prepped(v)' <=> Prepped(v)
           /\ \A v : Finished(v)' <=> Finished(v)
           /\ Unknown' = Unknown
           /\ \A i \in Records("finished") : i \in Records("finished")' /\ log'[i] = log[i]
           /\ \A i \in Records("finished")' : i \in Records("finished") /\ log'[i] = log[i]
           /\ \A c : Prepared(c)' <=> Prepared(c)
           /\ \A c : Complete(c)' <=> Complete(c) \/ c = seq
           /\ ~Complete(seq)
<1> DEFINE Old(i) == i \in DOMAIN log /\ i \in DOMAIN log' /\ log'[i] = log[i]
           last == Len(log) + 1
<1>1. PICK end : end = CompleteStep(seq)
  OBVIOUS
<1>2. /\ seq \in Records("event") /\ seq > Cursor /\ seq \in 1..Len(log)
      /\ \A k \in Records("event") : k > Cursor => seq <= k
  BY DEF NextAfter, Records
<1>3. end \in LogRecord /\ end.type = "completed" /\ end.source = seq
  BY <1>1, <1>2 DEF CompleteStep, LogRecord
<1>4. PICK recs : recs = <<end>>
  OBVIOUS
<1>5. recs \in Seq(LogRecord) /\ DOMAIN recs = {1} /\ recs[1] = end
  BY <1>3, <1>4
<1>6. Appended(recs)
  BY <1>1, <1>4
<1>7. /\ log' \in Seq(LogRecord) /\ Len(log) \in Nat
      /\ \A i \in DOMAIN log : Old(i) /\ i \in Nat /\ i <= Len(log)
      /\ \A i \in DOMAIN log' : i \in Nat /\ (Old(i) \/ i = last)
      /\ last \in DOMAIN log' /\ log'[last] = end
  BY <1>5, <1>6, Growth
<1>8. /\ \A t \in {"event", "prepared", "started", "finished"} : \A i : i \in Records(t)' <=> i \in Records(t)
      /\ \A t, i : i \in Records(t) => i \in Records(t)' /\ log'[i] = log[i]
      /\ \A i : i \in Records("completed")' <=> i \in Records("completed") \/ i = last
      /\ \A t : Records(t) \subseteq 1..Len(log)
  BY <1>3, <1>7 DEF Records
<1>9. /\ \A v : Prepped(v)' <=> Prepped(v)
      /\ \A v : Finished(v)' <=> Finished(v)
      /\ \A v : Known(v)' <=> Known(v)
      /\ Unknown' = Unknown
      /\ \A c : Prepared(c)' <=> Prepared(c)
  BY <1>8 DEF Prepped, Finished, Known, Unknown, Prepared
<1>10. \A c : Complete(c)' <=> Complete(c) \/ c = seq
  BY <1>3, <1>7, <1>8 DEF Complete
<1>11. ~Complete(seq)
  BY <1>2, <1>7 DEF Complete, LogOK
<1>12. Cursor' = seq
  <2>1. Sources' = Sources \cup {seq}
    BY <1>3, <1>7, <1>8 DEF Sources
  <2>2. Sources \subseteq Nat /\ \A x \in Sources : x <= Cursor
    BY <1>8 DEF Sources, LogOK, Records
  <2>3. seq \in Nat /\ \A x \in Sources \cup {seq} : x <= seq
    BY <1>2, <2>2 DEF LogOK
  <2>4. Maximum(Sources \cup {seq}) = seq
    BY <2>2, <2>3, MaximumIs
  <2> QED
    BY <1>7, <2>1, <2>4, CursorIsNext
<1>13. ASSUME NEW i \in 1..last
       PROVE  CompletedBefore(i)' = CompletedBefore(i)
  <2> DEFINE before == {log[k].source : k \in {k \in Records("completed") : k < i}}
  <2>1. before' = before
    BY <1>7, <1>8
  <2>2. CompletedBefore(i) = Maximum(before) /\ CompletedBefore(i)' = Maximum(before')
    BY DEF CompletedBefore, Maximum
  <2> QED
    BY <2>1, <2>2
<1>14. Records("event")' = Records("event")
  BY <1>8
<1>15. \A c \in Records("event") : Works(c)' = Works(c)
  BY <1>5, <1>6, EventsGrow
<1>16. Accepted'
  <2>1. ASSUME NEW i \in Records("started")' \cup Records("finished")'
        PROVE  \E k \in Records("prepared")' : k < i /\ log'[k].work = log'[i].work
    BY <1>8, <2>1 DEF LogOK, Accepted
  <2>2. ASSUME NEW i \in Records("finished")', NEW k \in Records("finished")',
               log'[i].work = log'[k].work
        PROVE  log'[i].status = log'[k].status
    BY <1>8, <2>2 DEF LogOK, Accepted
  <2>3. ASSUME NEW i \in Records("completed")'
        PROVE  log'[i].source \in NextAfter(CompletedBefore(i))'
    <3>1. i \in 1..last
      BY <1>7, <1>8, <2>3
    <3>2. NextAfter(CompletedBefore(i))' = NextAfter(CompletedBefore(i))
      BY <1>13, <1>14, <3>1 DEF NextAfter
    <3>3. CASE i \in Records("completed")
      BY <1>8, <3>2, <3>3 DEF LogOK, Accepted
    <3>4. CASE i = last
      BY <1>3, <1>7, <3>2, <3>4 DEF Cursor
    <3> QED
      BY <1>8, <2>3, <3>3, <3>4
  <2> QED
    BY <2>1, <2>2, <2>3 DEF Accepted
<1>17. ASSUME NEW v, Whole(v)
       PROVE  Whole(v)'
  <2>1. v.source <= Cursor'
    <3>1. CASE v.source <= Cursor
      BY <1>2, <1>12, <3>1, <1>17 DEF LogOK, Whole, Records
    <3>2. CASE v.source \in NextAfter(Cursor)
      <4>1. v.source \in Records("event") /\ v.source > Cursor /\ v.source <= seq /\ seq <= v.source
        BY <1>2, <3>2 DEF NextAfter
      <4> QED
        BY <1>12, <4>1
    <3> QED
      BY <1>17, <3>1, <3>2 DEF Whole
  <2> QED
    BY <1>9, <1>14, <1>15, <1>17, <2>1 DEF Whole
<1>18. ASSUME NEW i \in Records("prepared")'
       PROVE  Whole(log[i].work)'
  BY <1>8, <1>17, <1>18 DEF LogOK
<1>19. Cursor' \in 0..Len(log)'
  <2>1. Len(log)' = Len(log) + 1
    BY <1>4, <1>6 DEF Appended
  <2> QED
    BY <1>2, <1>7, <1>12, <2>1
<1>20. ASSUME NEW i \in Records("completed")'
       PROVE  log'[i].source \in Records("event")' /\ log'[i].source <= Cursor'
  <2>1. CASE i \in Records("completed")
    <3>1. log[i].source \in Records("event") /\ log[i].source <= Cursor /\ log'[i] = log[i]
      BY <1>8, <2>1 DEF LogOK
    <3>2. log[i].source \in Nat /\ Cursor \in Nat
      BY <1>8, <3>1 DEF LogOK
    <3> QED
      BY <1>2, <1>12, <1>14, <3>1, <3>2
  <2>2. CASE i = last
    BY <1>2, <1>3, <1>7, <1>12, <1>14, <2>2
  <2> QED
    BY <1>8, <1>20, <2>1, <2>2
<1>21. ASSUME NEW c \in Records("event")', c <= Cursor'
       PROVE  Complete(c)' /\ \A w \in Works(c)' : Known(w)'
  <2>1. c \in Records("event") /\ c <= seq /\ c \in Nat /\ Cursor \in Nat
    BY <1>8, <1>12, <1>14, <1>21 DEF LogOK
  <2>2. CASE c <= Cursor
    BY <1>9, <1>10, <1>15, <2>1, <2>2 DEF LogOK
  <2>3. CASE c > Cursor
    <3>1. c = seq
      BY <1>2, <2>1, <2>3
    <3>2. \A w \in Works(seq) : Known(w)
      BY DEF Finished, Known, Unknown
    <3> QED
      BY <1>2, <1>9, <1>10, <1>15, <3>1, <3>2
  <2> QED
    BY <2>1, <2>2, <2>3
<1>22. LogOK'
  BY <1>16, <1>18, <1>19, <1>20, <1>21 DEF LogOK
<1> QED
  BY <1>8, <1>9, <1>10, <1>11, <1>12, <1>14, <1>15, <1>22
-----------------------------------------------------------------------------
(* What a step leaves alone.                                               *)

(* New outcomes contradict no call that may still act.                     *)
LEMMA WorldKept ==
    ASSUME WorldOK, UNCHANGED <<performed, orphans, receipts>>,
           \A v : Prepped(v) => Prepped(v)',
           \A i \in Records("finished")' :
              \/ i \in Records("finished") /\ log'[i] = log[i]
              \/ log'[i].status = "unknown"
              \/ log'[i].work.kind # "tool"
              \/ Acted(log'[i].work)
              \/ Tokens(log'[i].work) = {}
    PROVE  WorldOK'
<1>1. \A v : Acted(v)' <=> Acted(v)
  BY DEF Acted
<1>2. ASSUME NEW a \in orphans, a[1].kind = "tool", NEW i \in Records("finished")', log'[i].work = a[1]
      PROVE  log'[i].status = "unknown"
  <2>1. ~Acted(a[1]) /\ Tokens(a[1]) # {}
    BY <1>2 DEF WorldOK, Tokens
  <2> QED
    BY <1>2, <2>1 DEF WorldOK
<1> QED
  BY <1>1, <1>2 DEF WorldOK

LEMMA CallsKept ==
    ASSUME CallsOK, UNCHANGED <<performed, orphans, calls, attempt>>,
           \A v : Prepped(v) => Prepped(v)',
           \A v \in DOMAIN calls : calls[v] = "running" => (Finished(v)' => Finished(v)),
           worker'.pc \notin {"launch", "finish"} => DOMAIN calls = {},
           worker.pc # "down" \/ worker'.pc = "down"
    PROVE  CallsOK'
<1>1. \A v : (Acted(v)' <=> Acted(v)) /\ Tokens(v)' = Tokens(v)
  BY DEF Acted, Tokens
<1> QED
  BY <1>1 DEF CallsOK

(* Only the worker moves.                                                  *)
LEMMA OnlyWorker ==
    ASSUME RecordInv, UNCHANGED <<log, calls, world, receipts, attempt>>,
           worker'.pc \notin {"launch", "finish"} => DOMAIN calls = {},
           worker.pc # "down" \/ worker'.pc = "down",
           DeskOK', HaltOK'
    PROVE  RecordInv'
<1>1. LogOK' /\ (\A v : Prepped(v)' <=> Prepped(v)) /\ (\A v : Finished(v)' <=> Finished(v))
      /\ Records("finished")' = Records("finished")
  BY Still DEF RecordInv
<1>2. WorldOK'
  BY <1>1, WorldKept DEF RecordInv, world
<1>3. CallsOK'
  BY <1>1, CallsKept DEF RecordInv, world
<1> QED
  BY <1>1, <1>2, <1>3 DEF RecordInv

LEMMA NothingOnDesk ==
    ASSUME worker'.pc \in {"down", "refused", "unknown"}
    PROVE  DeskOK'
  BY DEF DeskOK, InStep

LEMMA HeadAndTail ==
    ASSUME NEW s \in Seq(Work), s # <<>>
    PROVE  /\ Head(s) \in Elements(s) /\ Elements(Tail(s)) \subseteq Elements(s)
           /\ \A v \in Elements(s) : v = Head(s) \/ v \in Elements(Tail(s))
<1>1. /\ Head(s) = s[1] /\ 1 \in DOMAIN s
      /\ \A i \in DOMAIN Tail(s) : i + 1 \in DOMAIN s /\ Tail(s)[i] = s[i + 1]
  BY Tails
<1>2. ASSUME NEW i \in DOMAIN s, i # 1
      PROVE  s[i] \in Elements(Tail(s))
  <2>1. i \in 1..Len(s) /\ Len(s) \in Nat /\ Len(Tail(s)) = Len(s) - 1 /\ Tail(s) \in Seq(Work)
    BY <1>2
  <2>2. i - 1 \in DOMAIN Tail(s) /\ i = (i - 1) + 1
    BY <1>2, <2>1
  <2>3. Tail(s)[i - 1] = s[i]
    BY <1>1, <2>2
  <2> QED
    BY <2>2, <2>3 DEF Elements
<1> QED
  BY <1>1, <1>2 DEF Elements

-----------------------------------------------------------------------------
(* Opening, reading and the manifest.                                      *)

LEMMA OpenRecords == ASSUME StepInv, RecordInv, Open PROVE RecordInv'
<1>1. /\ UNCHANGED <<log, calls, world, receipts>> /\ attempt' = attempt + 1
      /\ worker.pc = "down" /\ attempt < MaxAttempts
  BY DEF Open, At, store
<1>2. /\ LogOK' /\ Cursor' = Cursor /\ Unknown' = Unknown
      /\ (\A v : Prepped(v)' <=> Prepped(v)) /\ (\A v : Finished(v)' <=> Finished(v))
      /\ Records("finished")' = Records("finished")
  BY <1>1, Still DEF RecordInv
<1>3. \/ worker'.pc = "refused"
      \/ worker'.pc = "unknown" /\ Unknown # {}
      \/ worker'.pc = "read" /\ worker'.cursor = Cursor /\ Unknown = {}
  BY DEF Open, Becomes
<1>4. DeskOK' /\ HaltOK'
  BY <1>2, <1>3 DEF DeskOK, HaltOK, InStep
<1>5. WorldOK'
  BY <1>1, <1>2, WorldKept DEF RecordInv, world
<1>6. attempt' \in 1..MaxAttempts
  BY <1>1, StepAssumption DEF RecordInv, CallsOK
<1>7. DOMAIN calls' = {}
  BY <1>1 DEF RecordInv, CallsOK
<1>8. CallsOK'
  BY <1>6, <1>7 DEF CallsOK
<1> QED
  BY <1>2, <1>4, <1>5, <1>8 DEF RecordInv

LEMMA ReadRecords == ASSUME StepInv, RecordInv, Read PROVE RecordInv'
<1>1. /\ UNCHANGED <<log, calls, world, receipts, attempt>> /\ worker.pc = "read"
  BY DEF Read, At, store
<1>2. worker.cursor = Cursor /\ DOMAIN calls = {} /\ Unknown = {}
  BY <1>1 DEF RecordInv, DeskOK, CallsOK, HaltOK
<1>3. Cursor' = Cursor /\ NextAfter(Cursor)' = NextAfter(Cursor) /\ Unknown' = Unknown
  BY <1>1, Still
<1>4. \/ worker'.pc = "prepare" /\ worker'.source \in NextAfter(Cursor)
      \/ worker'.pc = "idle" /\ worker'.cursor = Cursor /\ NextAfter(Cursor) = {}
  BY <1>2 DEF Read, Becomes
<1>5. DeskOK' /\ HaltOK'
  BY <1>2, <1>3, <1>4 DEF DeskOK, HaltOK, InStep
<1> QED
  BY <1>1, <1>2, <1>4, <1>5, OnlyWorker

LEMMA PrepareRecords == ASSUME StepInv, RecordInv, PrepareStep PROVE RecordInv'
<1>0. PICK seq : seq = worker.source
  OBVIOUS
<1>1. /\ log \in Seq(LogRecord) /\ LogOK /\ worker.pc = "prepare" /\ seq \in NextAfter(Cursor)
      /\ DOMAIN calls = {} /\ Unknown = {} /\ UNCHANGED <<calls, world, receipts, attempt>>
  BY <1>0 DEF StepInv, ShapeOK, RecordInv, DeskOK, CallsOK, HaltOK, PrepareStep, At, store
<1>2. seq \in Records("event")
  BY <1>1 DEF NextAfter
<1>3. /\ worker'.pc = "control" /\ worker'.source = seq /\ worker'.left = List(seq)
  BY <1>0 DEF PrepareStep, Becomes
<1>4. /\ LogOK' /\ Cursor' = Cursor
      /\ \A c \in NextAfter(Cursor) : c \in NextAfter(Cursor)'
      /\ Works(seq)' = Works(seq)
      /\ \A v : Prepped(v) => Prepped(v)'
      /\ \A v \in Works(seq) : Prepped(v)'
      /\ \A v : Finished(v)' <=> Finished(v)
      /\ Unknown' = Unknown
      /\ \A i \in Records("finished")' : i \in Records("finished") /\ log'[i] = log[i]
  <2>1. CASE Prepared(seq)
    <3>1. log' = log
      BY <1>0, <1>1, <2>1, ConcatEmptySeq DEF PrepareStep, Appended
    <3>2. PICK i \in Records("prepared") : log[i].work.source = seq
      BY <2>1 DEF Prepared
    <3>3. \A v \in Works(seq) : Prepped(v)
      BY <1>1, <3>2 DEF LogOK, Whole
    <3> QED
      BY <1>1, <3>1, <3>3, Still
  <2>2. CASE ~Prepared(seq)
    <3>1. Appended([i \in DOMAIN List(seq) |-> Prepare(List(seq)[i])])
      BY <1>0, <2>2 DEF PrepareStep
    <3> QED
      BY <1>1, <1>2, <2>2, <3>1, Manifesting
  <2> QED
    BY <2>1, <2>2
<1>5. Elements(List(seq)) = Works(seq)
  BY DEF Elements, Works
<1>6. PICK works : works = List(seq)
  OBVIOUS
<1>7. /\ worker'.left = works /\ Elements(works) = Works(seq)
      /\ worker'.source \in NextAfter(Cursor)'
  BY <1>1, <1>3, <1>4, <1>5, <1>6
<1>8. DeskOK'
  <2>1. Works(worker.source)' = Works(seq)'
    BY <1>3 DEF Works, List
  <2>2. Elements(worker.left)' = Elements(works)
    BY <1>7 DEF Elements
  <2> QED
    BY <1>3, <1>4, <1>7, <2>1, <2>2 DEF DeskOK, InStep
<1>9. HaltOK'
  BY <1>1, <1>3, <1>4 DEF HaltOK, InStep
<1>10. WorldOK'
  BY <1>1, <1>4, WorldKept DEF RecordInv, world
<1>11. CallsOK'
  BY <1>1, <1>3, <1>4, CallsKept DEF RecordInv, world
<1> QED
  BY <1>4, <1>8, <1>9, <1>10, <1>11 DEF RecordInv
-----------------------------------------------------------------------------
(* Control effects.                                                        *)

(* The worker stays at its step.                                           *)
LEMMA SameStep ==
    ASSUME worker.source \in NextAfter(Cursor), worker'.source = worker.source,
           \A c \in NextAfter(Cursor) : c \in NextAfter(Cursor)',
           \A c \in Records("event") : Works(c)' = Works(c)
    PROVE  /\ worker'.source \in NextAfter(Cursor)'
           /\ Works(worker.source)' = Works(worker.source)
<1>1. PICK seq : seq = worker.source
  OBVIOUS
<1>2. Works(worker.source)' = Works(seq)' /\ Works(worker.source) = Works(seq)
  BY <1>1 DEF Works, List
<1>3. seq \in Records("event")
  BY <1>1 DEF NextAfter
<1> QED
  BY <1>1, <1>2, <1>3

(* An effect the worker holds is in the manifest.                          *)
LEMMA HeldIsPrepped ==
    ASSUME RecordInv, worker.pc \in InStep
    PROVE  /\ worker.source \in NextAfter(Cursor) /\ worker.source \in Records("event")
           /\ \A v \in Works(worker.source) : Prepped(v)
  BY DEF RecordInv, DeskOK, NextAfter

(* The head of the list has its outcome.                                   *)
LEMMA ControlMoves ==
    ASSUME StepInv, RecordInv, InControl, Onward,
           Cursor' = Cursor, Unknown' = Unknown,
           \A c \in NextAfter(Cursor) : c \in NextAfter(Cursor)',
           \A c \in Records("event") : Works(c)' = Works(c),
           \A v : Prepped(v)' <=> Prepped(v),
           \A v : Finished(v)' <=> Finished(v) \/ v = Current
    PROVE  /\ DeskOK' /\ HaltOK' /\ worker'.pc = "control" /\ DOMAIN calls = {}
<1>1. PICK rest \in Seq(Work) : rest = Tail(worker.left)
  BY InControlFacts
<1>2. /\ worker.pc = "control" /\ worker.left \in Seq(Work) /\ worker.left # <<>>
      /\ worker \in [pc : {"control"}, source : Nat, left : Seq(Work)]
  BY InControlFacts DEF InControl, At
<1>3. worker' = [worker EXCEPT !.left = rest]
  BY <1>1 DEF Onward
<1>4. worker'.pc = "control" /\ worker'.source = worker.source /\ worker'.left = rest
  BY <1>2, <1>3
<1>5. /\ worker'.source \in NextAfter(Cursor)'
      /\ Works(worker.source)' = Works(worker.source)
  BY <1>2, <1>4, SameStep, HeldIsPrepped DEF InStep
<1>6. /\ Elements(rest) \subseteq Elements(worker.left)
      /\ \A v \in Elements(worker.left) : v = Current \/ v \in Elements(rest)
  BY <1>1, <1>2, HeadAndTail DEF Current
<1>7. Elements(worker.left)' = Elements(rest)
  BY <1>4 DEF Elements
<1>8. DeskOK'
  BY <1>2, <1>4, <1>5, <1>6, <1>7, HeldIsPrepped DEF DeskOK, InStep, RecordInv
<1>9. HaltOK'
  BY <1>2, <1>4 DEF HaltOK, InStep, RecordInv
<1> QED
  BY <1>2, <1>4, <1>8, <1>9 DEF RecordInv, CallsOK

LEMMA InControlIs ==
    ASSUME StepInv, RecordInv, InControl
    PROVE  /\ worker.pc = "control" /\ DOMAIN calls = {} /\ Unknown = {}
           /\ Current \in Works(worker.source) /\ Prepped(Current)
           /\ Current \in Work /\ Current.kind \in ControlKinds
<1>1. /\ worker.pc = "control" /\ worker.left \in Seq(Work) /\ worker.left # <<>>
      /\ Current.kind \in ControlKinds
  BY InControlFacts DEF InControl, At
<1>2. Current \in Elements(worker.left) /\ Current \in Work
  BY <1>1, HeadAndTail, Tails DEF Current
<1> QED
  BY <1>1, <1>2 DEF RecordInv, DeskOK, CallsOK, HaltOK, InStep

LEMMA SkipControlRecords == ASSUME StepInv, RecordInv, SkipControl PROVE RecordInv'
<1>1. UNCHANGED <<log, calls, world, receipts, attempt>> /\ InControl /\ Onward /\ Finished(Current)
  BY DEF SkipControl, store
<1>2. /\ Cursor' = Cursor /\ NextAfter(Cursor)' = NextAfter(Cursor) /\ Unknown' = Unknown
      /\ (\A c : Works(c)' = Works(c))
      /\ (\A v : Prepped(v)' <=> Prepped(v)) /\ (\A v : Finished(v)' <=> Finished(v))
  BY <1>1, Still
<1>3. DeskOK' /\ HaltOK' /\ worker'.pc = "control" /\ DOMAIN calls = {}
  BY <1>1, <1>2, ControlMoves
<1>4. worker.pc = "control"
  BY <1>1 DEF InControl, At
<1> QED
  BY <1>1, <1>3, <1>4, OnlyWorker

LEMMA RunControlRecords == ASSUME StepInv, RecordInv, RunControl PROVE RecordInv'
<1>1. PICK w : w = Current
  OBVIOUS
<1>2. PICK events : events = IF w.kind = "emit" THEN <<Event("emit")>> ELSE <<>>
  OBVIOUS
<1>2a. PICK recs : recs = events \o <<Finish(w, "completed")>>
  OBVIOUS
<1>3. /\ log \in Seq(LogRecord) /\ LogOK /\ InControl /\ Onward /\ ~Finished(w)
      /\ UNCHANGED <<calls, world, receipts, attempt>>
      /\ Appended(recs)
  BY <1>1, <1>2, <1>2a DEF RunControl, StepInv, ShapeOK, RecordInv, store
<1>4. /\ w \in Work /\ Prepped(w) /\ w.kind \in ControlKinds
      /\ worker.pc = "control" /\ DOMAIN calls = {}
  BY <1>1, <1>3, InControlIs
<1>5. Ends(recs, w, "completed")
  <2>1. "emit" \in Events
    BY StepAssumption DEF Kinds, ControlKinds
  <2>2. OnlyEvents(events)
    BY <1>2, <2>1, SomeEvents
  <2> QED
    BY <1>4, <1>2a, <2>2, EndsIs
<1>6. /\ LogOK' /\ Cursor' = Cursor /\ Unknown' = Unknown
      /\ \A c \in NextAfter(Cursor) : c \in NextAfter(Cursor)'
      /\ \A c \in Records("event") : Works(c)' = Works(c)
      /\ \A v : Prepped(v)' <=> Prepped(v)
      /\ \A v : Finished(v)' <=> Finished(v) \/ v = w
      /\ \A i \in Records("finished")' :
            \/ i \in Records("finished") /\ log'[i] = log[i]
            \/ log'[i].work = w
  BY <1>3, <1>4, <1>5, Ending
<1>7. DeskOK' /\ HaltOK' /\ worker'.pc = "control"
  BY <1>1, <1>3, <1>6, ControlMoves
<1>8. WorldOK'
  BY <1>3, <1>4, <1>6, WorldKept DEF RecordInv, world, ControlKinds
<1>9. CallsOK'
  BY <1>3, <1>4, <1>6, <1>7, CallsKept DEF RecordInv, world
<1> QED
  BY <1>6, <1>7, <1>8, <1>9 DEF RecordInv

LEMMA TimerFailsRecords == ASSUME StepInv, RecordInv, TimerFails PROVE RecordInv'
<1>1. PICK w : w = Current
  OBVIOUS
<1>2. PICK recs : recs = <<Finish(w, "failed")>>
  OBVIOUS
<1>3. /\ log \in Seq(LogRecord) /\ LogOK /\ InControl /\ ~Finished(w) /\ worker'.pc = "down"
      /\ UNCHANGED <<calls, world, receipts, attempt>>
      /\ Appended(recs)
  BY <1>1, <1>2 DEF TimerFails, StepInv, ShapeOK, RecordInv, StopsRecoverably, Becomes, Down, store
<1>4. w \in Work /\ Prepped(w) /\ w.kind \in ControlKinds /\ DOMAIN calls = {}
  BY <1>1, <1>3, InControlIs
<1>5. Ends(recs, w, "failed")
  <2>1. PICK end \in LogRecord : end = Finish(w, "failed")
    BY <1>4 DEF Finish, LogRecord
  <2>2. recs = <<end>>
    BY <1>2, <2>1
  <2> QED
    BY <2>1, <2>2 DEF Ends
<1>6. /\ LogOK'
      /\ \A v : Prepped(v)' <=> Prepped(v)
      /\ \A i \in Records("finished")' :
            \/ i \in Records("finished") /\ log'[i] = log[i]
            \/ log'[i].work = w
  BY <1>3, <1>4, <1>5, Ending
<1>7. DeskOK' /\ HaltOK'
  BY <1>3, NothingOnDesk DEF HaltOK, InStep
<1>8. WorldOK'
  BY <1>3, <1>4, <1>6, WorldKept DEF RecordInv, world, ControlKinds
<1>9. CallsOK'
  BY <1>3, <1>4, <1>6, <1>7, CallsKept DEF RecordInv, world
<1> QED
  BY <1>6, <1>7, <1>8, <1>9 DEF RecordInv

LEMMA ControlDoneRecords == ASSUME StepInv, RecordInv, ControlDone PROVE RecordInv'
<1>1. /\ UNCHANGED <<log, calls, world, receipts, attempt>> /\ worker.pc = "control"
      /\ worker'.pc = "classify" /\ worker'.source = worker.source
      /\ worker'.left = worker.left /\ worker'.todo = <<>>
  BY DEF ControlDone, Becomes, At, store
<1>2. /\ Cursor' = Cursor /\ NextAfter(Cursor)' = NextAfter(Cursor) /\ Unknown' = Unknown
      /\ (\A c : Works(c)' = Works(c))
      /\ (\A v : Prepped(v)' <=> Prepped(v)) /\ (\A v : Finished(v)' <=> Finished(v))
  BY <1>1, Still
<1>3. worker.source \in NextAfter(Cursor) /\ worker'.source \in NextAfter(Cursor)'
      /\ Works(worker.source)' = Works(worker.source)
  BY <1>1, <1>2, SameStep, HeldIsPrepped DEF InStep
<1>4. Elements(worker.left)' = Elements(worker.left) /\ DOMAIN worker'.todo = {}
      /\ Elements(worker.todo)' = {}
  BY <1>1 DEF Elements
<1>5. DeskOK'
  BY <1>1, <1>2, <1>3, <1>4 DEF RecordInv, DeskOK, InStep, Sorted, Untouched
<1>6. HaltOK' /\ DOMAIN calls = {}
  BY <1>1, <1>2 DEF RecordInv, HaltOK, InStep, CallsOK
<1> QED
  BY <1>1, <1>5, <1>6, OnlyWorker
-----------------------------------------------------------------------------
(* The judgement of the independent effects.                               *)

ClassifyDesk == [pc : {"classify", "launch"}, source : Nat, left : Seq(Work), todo : Seq(Work)]

LEMMA ClassifyingIs ==
    ASSUME StepInv, RecordInv, Classifying
    PROVE  /\ worker.pc = "classify" /\ worker \in ClassifyDesk
           /\ worker.left \in Seq(Work) /\ worker.left # <<>> /\ worker.todo \in Seq(Work)
           /\ DOMAIN calls = {} /\ Unknown = {}
           /\ Current \in Works(worker.source) /\ Prepped(Current) /\ Current \in Work
           /\ Tail(worker.left) \in Seq(Work)
           /\ Elements(Tail(worker.left)) \subseteq Elements(worker.left)
           /\ \A v \in Elements(worker.left) : v = Current \/ v \in Elements(Tail(worker.left))
           /\ \A i \in DOMAIN worker.todo : worker.todo[i] # Current
<1>1. worker.pc = "classify" /\ worker.left # <<>>
  BY DEF Classifying, At
<1>2. worker \in ClassifyDesk
  BY <1>1 DEF StepInv, ShapeOK, ClassifyDesk
<1>3. worker.left \in Seq(Work) /\ worker.todo \in Seq(Work)
  BY <1>2 DEF ClassifyDesk
<1>4. /\ Current \in Elements(worker.left) /\ Current \in Work /\ Tail(worker.left) \in Seq(Work)
      /\ Elements(Tail(worker.left)) \subseteq Elements(worker.left)
      /\ \A v \in Elements(worker.left) : v = Current \/ v \in Elements(Tail(worker.left))
  BY <1>1, <1>3, HeadAndTail, Tails DEF Current
<1>5. DOMAIN calls = {} /\ Unknown = {} /\ Current \in Works(worker.source) /\ Prepped(Current)
  BY <1>1, <1>4 DEF RecordInv, DeskOK, CallsOK, HaltOK, InStep
<1>6. ASSUME NEW i \in DOMAIN worker.todo
      PROVE  worker.todo[i] # Current
  <2>1. 1 \in DOMAIN worker.left /\ Current = worker.left[1] /\ Current \in Work
    BY <1>1, <1>3, Tails DEF Current
  <2>2. worker.todo[i].index < Current.index
    BY <1>1, <2>1 DEF StepInv, Queued
  <2>3. Current.index \in Nat
    BY <2>1 DEF Work
  <2> QED
    BY <2>2, <2>3
<1> QED
  BY <1>1, <1>2, <1>3, <1>4, <1>5, <1>6

(* The head of the list has an outcome.                                    *)
LEMMA ClassifyMoves ==
    ASSUME StepInv, RecordInv, Classifying, Onward,
           Cursor' = Cursor, Unknown' = Unknown,
           \A c \in NextAfter(Cursor) : c \in NextAfter(Cursor)',
           \A c \in Records("event") : Works(c)' = Works(c),
           \A v : Prepped(v)' <=> Prepped(v),
           \A v : Finished(v)' <=> Finished(v) \/ v = Current
    PROVE  /\ DeskOK' /\ HaltOK' /\ worker'.pc = "classify" /\ DOMAIN calls = {}
<1>1. PICK rest \in Seq(Work) : rest = Tail(worker.left)
  BY ClassifyingIs
<1>2. worker' = [worker EXCEPT !.left = rest]
  BY <1>1 DEF Onward
<1>3. /\ worker'.pc = "classify" /\ worker'.source = worker.source /\ worker'.left = rest
      /\ worker'.todo = worker.todo
  BY <1>2, ClassifyingIs DEF ClassifyDesk
<1>4. /\ worker.source \in NextAfter(Cursor) /\ worker'.source \in NextAfter(Cursor)'
      /\ Works(worker.source)' = Works(worker.source)
  BY <1>3, SameStep, HeldIsPrepped, ClassifyingIs DEF InStep
<1>5. Elements(worker.left)' = Elements(rest) /\ Elements(worker.todo)' = Elements(worker.todo)
  BY <1>3 DEF Elements
<1>6. Untouched(worker.todo)' /\ Sorted(worker.todo)'
  BY <1>3, ClassifyingIs DEF Untouched, Sorted, RecordInv, DeskOK
<1>7. /\ Elements(rest) \subseteq Works(worker.source)
      /\ Elements(worker.todo) \subseteq Works(worker.source)
      /\ \A v \in Works(worker.source) :
            Finished(v)' \/ v \in Elements(worker.todo) \/ v \in Elements(rest)
      /\ \A v \in Works(worker.source) : Prepped(v)'
  BY <1>1, ClassifyingIs DEF RecordInv, DeskOK, InStep
<1>8. DeskOK'
  BY <1>3, <1>4, <1>5, <1>6, <1>7 DEF DeskOK, InStep
<1>9. HaltOK'
  BY <1>3, ClassifyingIs DEF HaltOK, InStep, RecordInv
<1> QED
  BY <1>3, <1>8, <1>9, ClassifyingIs

LEMMA SkipFinishedRecords == ASSUME StepInv, RecordInv, SkipFinished PROVE RecordInv'
<1>1. UNCHANGED <<log, calls, world, receipts, attempt>> /\ Classifying /\ Onward /\ Finished(Current)
  BY DEF SkipFinished, store
<1>2. /\ Cursor' = Cursor /\ NextAfter(Cursor)' = NextAfter(Cursor) /\ Unknown' = Unknown
      /\ (\A c : Works(c)' = Works(c))
      /\ (\A v : Prepped(v)' <=> Prepped(v)) /\ (\A v : Finished(v)' <=> Finished(v))
  BY <1>1, Still
<1>3. DeskOK' /\ HaltOK' /\ worker'.pc = "classify" /\ DOMAIN calls = {}
  BY <1>1, <1>2, ClassifyMoves
<1>4. worker.pc = "classify"
  BY <1>1 DEF Classifying, At
<1> QED
  BY <1>1, <1>3, <1>4, OnlyWorker

(* The event of an outcome, and the outcome.                               *)
LEMMA EventThenEnd ==
    ASSUME NEW w \in Work, NEW recs, recs = <<Event(w.kind), Finish(w, "completed")>>
    PROVE  Ends(recs, w, "completed")
<1>1. w.kind \in Events
  BY StepAssumption DEF Work
<1>2. PICK e : e = Event(w.kind)
  OBVIOUS
<1>3. e \in LogRecord /\ e.type = "event"
  BY <1>1, <1>2 DEF Event, LogRecord
<1>4. PICK end \in LogRecord : end = Finish(w, "completed")
  BY DEF Finish, LogRecord
<1>5. recs = <<e, end>>
  BY <1>2, <1>4
<1>6. DOMAIN recs = 1..2 /\ recs[1] = e /\ recs[2] = end
  BY <1>5
<1>7. recs \in Seq(LogRecord)
  BY <1>3, <1>4, <1>5
<1>8. \A i \in 1..2 : i = 1 \/ i = 2
  OBVIOUS
<1> QED
  BY <1>3, <1>4, <1>6, <1>7, <1>8 DEF Ends

LEMMA FinishFromReceiptRecords == ASSUME StepInv, RecordInv, FinishFromReceipt PROVE RecordInv'
<1>1. PICK w : w = Current
  OBVIOUS
<1>2. PICK recs : recs = <<Event(w.kind), Finish(w, "completed")>>
  OBVIOUS
<1>4. /\ log \in Seq(LogRecord) /\ LogOK /\ Classifying /\ Onward /\ ~Finished(w) /\ w \in receipts
      /\ UNCHANGED <<calls, world, receipts, attempt>> /\ Appended(recs)
  BY <1>1, <1>2 DEF FinishFromReceipt, Interrupted, StepInv, ShapeOK, RecordInv, store
<1>5. /\ w \in Work /\ Prepped(w) /\ worker.pc = "classify" /\ DOMAIN calls = {}
  BY <1>1, <1>4, ClassifyingIs
<1>6. Ends(recs, w, "completed")
  BY <1>2, <1>5, EventThenEnd
<1>8. /\ LogOK' /\ Cursor' = Cursor /\ Unknown' = Unknown
      /\ \A c \in NextAfter(Cursor) : c \in NextAfter(Cursor)'
      /\ \A c \in Records("event") : Works(c)' = Works(c)
      /\ \A v : Prepped(v)' <=> Prepped(v)
      /\ \A v : Finished(v)' <=> Finished(v) \/ v = w
      /\ \A i \in Records("finished")' :
            \/ i \in Records("finished") /\ log'[i] = log[i]
            \/ log'[i].work = w
  BY <1>4, <1>5, <1>6, Ending
<1>9. DeskOK' /\ HaltOK' /\ worker'.pc = "classify"
  BY <1>1, <1>4, <1>8, ClassifyMoves
<1>10. WorldOK'
  <2>1. Acted(w)
    BY <1>4 DEF RecordInv, WorldOK
  <2> QED
    BY <1>4, <1>8, <2>1, WorldKept DEF RecordInv, world
<1>11. CallsOK'
  BY <1>4, <1>5, <1>8, <1>9, CallsKept DEF RecordInv, world
<1> QED
  BY <1>8, <1>9, <1>10, <1>11 DEF RecordInv

LEMMA FinishUnknownRecords == ASSUME StepInv, RecordInv, FinishUnknown PROVE RecordInv'
<1>1. PICK w : w = Current
  OBVIOUS
<1>2. PICK recs : recs = <<Finish(w, "unknown")>>
  OBVIOUS
<1>3. /\ log \in Seq(LogRecord) /\ LogOK /\ Classifying /\ ~Finished(w) /\ worker'.pc = "unknown"
      /\ UNCHANGED <<calls, world, receipts, attempt>>
      /\ Appended(recs)
  BY <1>1, <1>2 DEF FinishUnknown, StepInv, ShapeOK, RecordInv, StopsUnknown, Becomes, store
<1>4. w \in Work /\ Prepped(w) /\ DOMAIN calls = {} /\ worker.pc = "classify"
  BY <1>1, <1>3, ClassifyingIs
<1>5. Ends(recs, w, "unknown")
  <2>1. PICK end \in LogRecord : end = Finish(w, "unknown")
    BY <1>4 DEF Finish, LogRecord
  <2>2. recs = <<end>>
    BY <1>2, <2>1
  <2> QED
    BY <2>1, <2>2 DEF Ends
<1>6. /\ LogOK' /\ Unknown' # {}
      /\ \A v : Prepped(v)' <=> Prepped(v)
      /\ \A i \in Records("finished")' :
            \/ i \in Records("finished") /\ log'[i] = log[i]
            \/ log'[i].status = "unknown"
  BY <1>3, <1>4, <1>5, Ending
<1>7. DeskOK' /\ HaltOK'
  BY <1>3, <1>6, NothingOnDesk DEF HaltOK, InStep
<1>8. WorldOK'
  BY <1>3, <1>6, WorldKept DEF RecordInv, world
<1>9. CallsOK'
  BY <1>3, <1>4, <1>6, CallsKept DEF RecordInv, world
<1> QED
  BY <1>6, <1>7, <1>8, <1>9 DEF RecordInv

LEMMA WillRunRecords == ASSUME StepInv, StepInv', RecordInv, WillRun PROVE RecordInv'
<1>1. UNCHANGED <<log, calls, world, receipts, attempt>> /\ Classifying /\ ~Finished(Current)
  BY DEF WillRun, store
<1>2. PICK rest \in Seq(Work) : rest = Tail(worker.left)
  BY <1>1, ClassifyingIs
<1>3. PICK w \in Work : w = Current
  BY <1>1, ClassifyingIs
<1>4. PICK more \in Seq(Work) : more = Append(worker.todo, w)
  <2>1. worker.todo \in Seq(Work)
    BY <1>1, ClassifyingIs
  <2>2. Append(worker.todo, w) \in Seq(Work)
    BY <2>1, AppendProperties
  <2> QED
    BY <2>2
<1>5. worker' = [worker EXCEPT !.left = rest, !.todo = more]
  BY <1>2, <1>3, <1>4 DEF WillRun
<1>6. /\ worker'.pc = "classify" /\ worker'.source = worker.source /\ worker'.left = rest
      /\ worker'.todo = more
  BY <1>1, <1>5, ClassifyingIs DEF ClassifyDesk
<1>7. /\ Cursor' = Cursor /\ NextAfter(Cursor)' = NextAfter(Cursor) /\ Unknown' = Unknown
      /\ (\A c : Works(c)' = Works(c))
      /\ (\A v : Prepped(v)' <=> Prepped(v)) /\ (\A v : Finished(v)' <=> Finished(v))
  BY <1>1, Still
<1>8. /\ worker.source \in NextAfter(Cursor) /\ worker'.source \in NextAfter(Cursor)'
      /\ Works(worker.source)' = Works(worker.source)
  BY <1>1, <1>6, <1>7, SameStep, HeldIsPrepped, ClassifyingIs DEF InStep
<1>9. /\ \A i \in DOMAIN more : more[i] = w \/ (i \in DOMAIN worker.todo /\ more[i] = worker.todo[i])
      /\ \A v \in Elements(worker.todo) \cup {w} : v \in Elements(more)
  <2>1. PICK todo \in Seq(Work) : todo = worker.todo
    BY <1>1, ClassifyingIs
  <2>2. /\ Len(more) = Len(todo) + 1 /\ Len(todo) \in Nat /\ DOMAIN more = 1..Len(more)
        /\ DOMAIN todo = 1..Len(todo)
        /\ more[Len(todo) + 1] = w /\ \A i \in 1..Len(todo) : more[i] = todo[i]
    BY <1>4, <2>1
  <2> QED
    BY <2>1, <2>2 DEF Elements
<1>10. Elements(worker.left)' = Elements(rest) /\ Elements(worker.todo)' = Elements(more)
  BY <1>6 DEF Elements
<1>11. Sorted(worker.todo)'
  BY <1>6 DEF StepInv, Queued
<1>12. Untouched(worker.todo)'
  BY <1>1, <1>3, <1>6, <1>7, <1>9, ClassifyingIs DEF Untouched, RecordInv, DeskOK
<1>13. /\ Elements(rest) \subseteq Works(worker.source)
       /\ Elements(more) \subseteq Works(worker.source)
       /\ \A v \in Works(worker.source) :
             Finished(v)' \/ v \in Elements(more) \/ v \in Elements(rest)
       /\ \A v \in Works(worker.source) : Prepped(v)'
  <2>1. Elements(more) \subseteq Elements(worker.todo) \cup {w}
    BY <1>9 DEF Elements
  <2> QED
    BY <1>1, <1>2, <1>3, <1>7, <1>9, <2>1, ClassifyingIs DEF RecordInv, DeskOK, InStep
<1>14. DeskOK'
  BY <1>6, <1>8, <1>10, <1>11, <1>12, <1>13 DEF DeskOK, InStep
<1>15. HaltOK' /\ DOMAIN calls = {} /\ worker.pc = "classify"
  BY <1>1, <1>6, <1>7, ClassifyingIs DEF HaltOK, InStep, RecordInv
<1> QED
  BY <1>1, <1>14, <1>15, OnlyWorker

LEMMA ClassifiedRecords == ASSUME StepInv, RecordInv, Classified PROVE RecordInv'
<1>1. /\ UNCHANGED <<log, calls, world, receipts, attempt>>
      /\ worker.pc = "classify" /\ worker.left = <<>>
      /\ worker'.pc = "launch" /\ worker'.source = worker.source
      /\ worker'.left = worker.todo /\ worker'.todo = worker.todo
  BY DEF Classified, Becomes, At, store
<1>2. /\ Cursor' = Cursor /\ NextAfter(Cursor)' = NextAfter(Cursor) /\ Unknown' = Unknown
      /\ (\A c : Works(c)' = Works(c))
      /\ (\A v : Prepped(v)' <=> Prepped(v)) /\ (\A v : Finished(v)' <=> Finished(v))
  BY <1>1, Still
<1>3. /\ worker.source \in NextAfter(Cursor) /\ worker'.source \in NextAfter(Cursor)'
      /\ Works(worker.source)' = Works(worker.source)
  BY <1>1, <1>2, SameStep, HeldIsPrepped DEF InStep
<1>4. DOMAIN calls = {} /\ Unknown = {}
  BY <1>1 DEF RecordInv, CallsOK, HaltOK, InStep
<1>5. worker.todo \in Seq(Work)
  BY <1>1 DEF StepInv, ShapeOK
<1>6. /\ Elements(worker.left)' = Elements(worker.todo) /\ Elements(worker.todo)' = Elements(worker.todo)
      /\ Elements(worker.left) = {}
  BY <1>1 DEF Elements
<1>7. Sorted(worker.todo)' /\ Untouched(worker.todo)'
  BY <1>1, <1>2 DEF RecordInv, DeskOK, Sorted, Untouched
<1>8. /\ Handed' = 0
      /\ \A i \in DOMAIN worker'.left : 0 + i \in DOMAIN worker'.todo /\ worker'.left[i] = worker'.todo[0 + i]
      /\ DOMAIN calls' = {worker'.todo[i] : i \in 1..0}
  BY <1>1, <1>4, <1>5 DEF Handed
<1>9. DeskOK'
  BY <1>1, <1>2, <1>3, <1>6, <1>7, <1>8 DEF RecordInv, DeskOK, InStep
<1>10. HaltOK'
  BY <1>1, <1>2, <1>4 DEF HaltOK, InStep
<1> QED
  BY <1>1, <1>4, <1>9, <1>10, OnlyWorker
-----------------------------------------------------------------------------
(* The launch of the independent effects.                                  *)

LEMMA LaunchingIs ==
    ASSUME StepInv, RecordInv, At("launch")
    PROVE  /\ worker.pc = "launch" /\ worker \in ClassifyDesk
           /\ worker.left \in Seq(Work) /\ worker.todo \in Seq(Work)
           /\ worker.source \in NextAfter(Cursor) /\ worker.source \in Records("event")
           /\ Unknown = {} /\ Handed \in 0..Len(worker.todo) /\ Len(worker.left) \in Nat
           /\ DOMAIN calls = {worker.todo[i] : i \in 1..Handed}
           /\ Elements(worker.left) \subseteq Works(worker.source)
           /\ Elements(worker.todo) \subseteq Works(worker.source)
           /\ Sorted(worker.todo) /\ Untouched(worker.todo)
           /\ \A w \in Works(worker.source) : Prepped(w) /\ (Finished(w) \/ w \in Elements(worker.todo))
<1>1. worker.pc = "launch"
  BY DEF At
<1>2. worker \in ClassifyDesk
  BY <1>1 DEF StepInv, ShapeOK, ClassifyDesk
<1>3. worker.left \in Seq(Work) /\ worker.todo \in Seq(Work)
  BY <1>2 DEF ClassifyDesk
<1>4. Handed \in 0..Len(worker.todo) /\ Len(worker.left) \in Nat
  <2>1. Len(worker.left) \in Nat /\ Len(worker.todo) \in Nat
    BY <1>3
  <2>2. Handed \in Nat
    BY <1>1 DEF RecordInv, DeskOK
  <2>3. PICK all \in Nat, some \in Nat : all = Len(worker.todo) /\ some = Len(worker.left)
    BY <2>1
  <2>4. Handed = all - some
    BY <2>3 DEF Handed
  <2>5. PICK sent \in Nat : sent = Handed
    BY <2>2
  <2>6. sent = all - some
    BY <2>4, <2>5
  <2>7. sent \in 0..all
    BY <2>6
  <2> QED
    BY <2>3, <2>5, <2>7
<1> QED
  BY <1>1, <1>2, <1>3, <1>4, HeldIsPrepped DEF RecordInv, DeskOK, HaltOK, InStep

LEMMA RegisterRecords == ASSUME StepInv, RecordInv, Register PROVE RecordInv'
<1>1. UNCHANGED <<log, calls, world, receipts, attempt, worker>>
  BY DEF Register, memory
<1>2. worker.pc = "launch"
  BY DEF Register, Launching, At
<1>3. /\ Cursor' = Cursor /\ NextAfter(Cursor)' = NextAfter(Cursor) /\ Unknown' = Unknown
      /\ (\A c : Works(c)' = Works(c))
      /\ (\A v : Prepped(v)' <=> Prepped(v)) /\ (\A v : Finished(v)' <=> Finished(v))
  BY <1>1, Still
<1>4. Works(worker.source)' = Works(worker.source)
  BY <1>1 DEF Works, List
<1>5. /\ Elements(worker.left)' = Elements(worker.left) /\ Elements(worker.todo)' = Elements(worker.todo)
      /\ (Untouched(worker.todo)' <=> Untouched(worker.todo)) /\ (Sorted(worker.todo)' <=> Sorted(worker.todo))
      /\ Handed' = Handed
  BY <1>1, <1>3 DEF Elements, Untouched, Sorted, Handed
<1>6. DeskOK' /\ HaltOK'
  BY <1>1, <1>2, <1>3, <1>4, <1>5 DEF RecordInv, DeskOK, HaltOK, InStep
<1> QED
  BY <1>1, <1>2, <1>6, OnlyWorker

LEMMA LaunchRecords == ASSUME StepInv, StepInv', RecordInv, Launch PROVE RecordInv'
<1>1. /\ UNCHANGED <<world, receipts, attempt>> /\ At("launch") /\ worker.left # <<>>
      /\ log \in Seq(LogRecord) /\ LogOK
  BY DEF Launch, Launching, store, StepInv, ShapeOK, RecordInv
<1>2. PICK w \in Work : w = Current
  BY <1>1, LaunchingIs, Tails DEF Current
<1>3. PICK rest \in Seq(Work) : rest = Tail(worker.left)
  BY <1>1, LaunchingIs, Tails
<1>4. PICK recs : recs = IF Continues(w) THEN <<>> ELSE <<Start(w)>>
  OBVIOUS
<1>5. /\ worker' = [worker EXCEPT !.left = rest]
      /\ Appended(recs)
      /\ calls' = [v \in DOMAIN calls \cup {w} |-> IF v = w THEN "running" ELSE calls[v]]
  BY <1>2, <1>3, <1>4 DEF Launch, Onward
<1>6. /\ worker'.pc = "launch" /\ worker'.source = worker.source /\ worker'.left = rest
      /\ worker'.todo = worker.todo
  BY <1>1, <1>5, LaunchingIs DEF ClassifyDesk
<1>7. /\ Handed \in Nat /\ Handed + 1 \in DOMAIN worker.todo /\ w = worker.todo[Handed + 1]
      /\ w \in Elements(worker.todo) /\ w \in Works(worker.source) /\ Prepped(w) /\ ~Finished(w)
  <2>1. 1 \in DOMAIN worker.left /\ w = worker.left[1]
    BY <1>1, <1>2, LaunchingIs, Tails DEF Current
  <2>2. Handed + 1 \in DOMAIN worker.todo /\ w = worker.todo[Handed + 1] /\ Handed \in Nat
    BY <1>1, <2>1, LaunchingIs DEF RecordInv, DeskOK
  <2> QED
    BY <1>1, <2>2, LaunchingIs DEF Elements, Untouched
<1>8. /\ LogOK' /\ Cursor' = Cursor /\ Unknown' = Unknown
      /\ \A c \in NextAfter(Cursor) : c \in NextAfter(Cursor)'
      /\ \A c \in Records("event") : Works(c)' = Works(c)
      /\ \A v : Prepped(v)' <=> Prepped(v)
      /\ \A v : Finished(v)' <=> Finished(v)
      /\ \A i \in Records("finished")' : i \in Records("finished") /\ log'[i] = log[i]
  BY <1>1, <1>4, <1>5, <1>7, Starting
<1>9. /\ worker'.source \in NextAfter(Cursor)'
      /\ Works(worker.source)' = Works(worker.source)
  BY <1>1, <1>6, <1>8, SameStep, LaunchingIs
<1>10. /\ Elements(worker.left)' = Elements(rest) /\ Elements(worker.todo)' = Elements(worker.todo)
       /\ Elements(rest) \subseteq Elements(worker.left)
       /\ Untouched(worker.todo)' /\ Sorted(worker.todo)'
  <2>1. Elements(rest) \subseteq Elements(worker.left)
    BY <1>1, <1>3, LaunchingIs, HeadAndTail
  <2> QED
    BY ZenonT(30), <1>1, <1>6, <1>8, <2>1, LaunchingIs DEF Elements, Untouched, Sorted
<1>11. Handed' = Handed + 1
  <2>1. Len(rest) = Len(worker.left) - 1
    BY <1>1, <1>3, LaunchingIs
  <2> QED
    BY <1>1, <1>6, <2>1, LaunchingIs DEF Handed
<1>12. ASSUME NEW i \in DOMAIN rest
       PROVE  Handed' + i \in DOMAIN worker'.todo /\ rest[i] = worker'.todo[Handed' + i]
  <2>1. i + 1 \in DOMAIN worker.left /\ rest[i] = worker.left[i + 1] /\ i \in Nat
    BY <1>1, <1>3, <1>12, LaunchingIs, Tails
  <2>2. Handed + (i + 1) \in DOMAIN worker.todo /\ worker.left[i + 1] = worker.todo[Handed + (i + 1)]
    BY <1>1, <2>1, LaunchingIs DEF RecordInv, DeskOK
  <2>3. Handed' + i = Handed + (i + 1)
    BY <1>7, <1>11, <2>1
  <2> QED
    BY <1>6, <2>1, <2>2, <2>3
<1>13. DOMAIN calls' = {worker'.todo[i] : i \in 1..Handed'}
  <2>1. 1..(Handed + 1) = (1..Handed) \cup {Handed + 1}
    BY <1>7
  <2>2. DOMAIN calls' = DOMAIN calls \cup {w}
    BY <1>5
  <2>3. {worker.todo[i] : i \in (1..Handed) \cup {Handed + 1}} = {worker.todo[i] : i \in 1..Handed} \cup {w}
    BY <1>7
  <2> QED
    BY ZenonT(30), <1>1, <1>6, <1>11, <2>1, <2>2, <2>3, LaunchingIs
<1>14. DeskOK'
  <2>1. Handed' \in Nat
    BY <1>7, <1>11
  <2> QED
    BY <1>1, <1>6, <1>8, <1>9, <1>10, <1>12, <1>13, <2>1, LaunchingIs DEF DeskOK, InStep
<1>15. HaltOK'
  BY <1>1, <1>6, <1>8, LaunchingIs DEF HaltOK, InStep
<1>16. WorldOK'
  BY <1>1, <1>8, WorldKept DEF RecordInv, world
<1>17. CallsOK'
  <2>1. \A v : (Acted(v)' <=> Acted(v)) /\ Tokens(v)' = Tokens(v)
    BY <1>1 DEF Acted, Tokens, world
  <2>2. w.kind = "tool" => Tokens(w) = {}
    <3>1. calls'[w] = "running" /\ w \in DOMAIN calls'
      BY <1>5
    <3> QED
      BY <2>1, <3>1 DEF StepInv, OneLicence
  <2>3. ASSUME NEW v \in DOMAIN calls'
        PROVE  /\ calls'[v] \in {"running", "acted", "ok", "refused", "lost"}
               /\ Prepped(v)'
               /\ calls'[v] = "running" => ~Finished(v)'
               /\ Acting(v) /\ calls'[v] \in {"acted", "ok"} => Acted(v)'
               /\ v.kind = "tool" /\ calls'[v] \in {"running", "refused"} => Tokens(v)' = {}
    <3>1. CASE v = w
      BY <1>5, <1>7, <1>8, <2>1, <2>2, <3>1
    <3>2. CASE v # w
      <4>1. v \in DOMAIN calls /\ calls'[v] = calls[v]
        BY <1>5, <2>3, <3>2
      <4> QED
        BY <1>8, <2>1, <4>1 DEF RecordInv, CallsOK
    <3> QED
      BY <3>1, <3>2
  <2>4. attempt' \in 1..MaxAttempts /\ attempt' \in 0..MaxAttempts
    BY <1>1 DEF RecordInv, CallsOK, At
  <2> QED
    BY <1>6, <2>3, <2>4 DEF CallsOK, Acting
<1> QED
  BY <1>8, <1>14, <1>15, <1>16, <1>17 DEF RecordInv

(* The worker waits for what it has launched.                              *)
LEMMA JoiningRecords ==
    ASSUME StepInv, RecordInv, At("launch"), NEW startErr \in BOOLEAN, Joining(startErr),
           startErr \/ worker.left = <<>>,
           UNCHANGED <<log, calls, world, receipts, attempt>>
    PROVE  RecordInv'
<1>1. PICK todo \in Seq(Work) : todo = worker.todo
  BY LaunchingIs
<1>2. PICK n \in 0..Len(todo) : n = Handed
  BY <1>1, LaunchingIs
<1>3. PICK some : some = SubSeq(todo, 1, n)
  OBVIOUS
<1>4. /\ worker'.pc = "finish" /\ worker'.source = worker.source /\ worker'.startErr = startErr
      /\ worker'.ambiguous = FALSE /\ worker'.left = some
  BY <1>1, <1>2, <1>3 DEF Joining, Becomes, Handed
<1>5. /\ DOMAIN some = 1..n /\ \A i \in 1..n : some[i] = todo[i] /\ i \in DOMAIN todo
  BY <1>1, <1>2, <1>3
<1>6. /\ Cursor' = Cursor /\ NextAfter(Cursor)' = NextAfter(Cursor) /\ Unknown' = Unknown
      /\ (\A c : Works(c)' = Works(c))
      /\ (\A v : Prepped(v)' <=> Prepped(v)) /\ (\A v : Finished(v)' <=> Finished(v))
  BY Still
<1>7. /\ worker'.source \in NextAfter(Cursor)'
      /\ Works(worker.source)' = Works(worker.source)
  BY <1>4, <1>6, SameStep, LaunchingIs
<1>8. Elements(some) = DOMAIN calls /\ Elements(some) \subseteq Elements(todo)
  BY <1>1, <1>2, <1>5, LaunchingIs DEF Elements
<1>9. Sorted(some) /\ \A i \in DOMAIN some : ~Finished(some[i])'
  BY <1>1, <1>5, <1>6, LaunchingIs DEF Sorted, Untouched
<1>10. startErr \/ Elements(some) = Elements(todo)
  <2>1. ASSUME worker.left = <<>>
        PROVE  Elements(some) = Elements(todo)
    <3>1. n = Len(todo)
      BY <1>1, <1>2, <2>1 DEF Handed
    <3>2. DOMAIN todo = 1..n
      BY <1>1, <3>1
    <3> QED
      BY <1>5, <3>2 DEF Elements
  <2> QED
    BY <2>1
<1>11. Elements(worker.left)' = Elements(some) /\ Sorted(worker.left)' /\ Untouched(worker.left)'
  BY <1>4, <1>9 DEF Elements, Sorted, Untouched
<1>12. DOMAIN calls' = DOMAIN calls
  OBVIOUS
<1>13. DeskOK'
  BY <1>1, <1>4, <1>6, <1>7, <1>8, <1>10, <1>11, <1>12, LaunchingIs DEF DeskOK, InStep
<1>14. HaltOK'
  BY <1>4, <1>6, LaunchingIs DEF HaltOK, InStep
<1> QED
  BY <1>4, <1>13, <1>14, LaunchingIs, OnlyWorker

LEMMA LaunchFailsRecords == ASSUME StepInv, RecordInv, LaunchFails PROVE RecordInv'
  BY JoiningRecords DEF LaunchFails, Launching, store

LEMMA LaunchedRecords == ASSUME StepInv, RecordInv, Launched PROVE RecordInv'
  BY JoiningRecords DEF Launched, store
-----------------------------------------------------------------------------
(* The outcomes and the end of a step.                                     *)

Room == [pc : {"finish"}, source : Nat, startErr : BOOLEAN, ambiguous : BOOLEAN, left : Seq(Work)]

LEMMA FinishingIs ==
    ASSUME StepInv, RecordInv, At("finish")
    PROVE  /\ worker.pc = "finish" /\ worker \in Room /\ worker.left \in Seq(Work)
           /\ worker.source \in NextAfter(Cursor) /\ worker.source \in Records("event")
           /\ worker.ambiguous <=> Unknown # {}
           /\ Sorted(worker.left) /\ Untouched(worker.left)
           /\ Elements(worker.left) \subseteq DOMAIN calls
           /\ Elements(worker.left) \subseteq Works(worker.source)
           /\ \A w \in Works(worker.source) : Prepped(w)
           /\ worker.startErr \/ \A w \in Works(worker.source) : Finished(w) \/ w \in Elements(worker.left)
<1>1. worker.pc = "finish"
  BY DEF At
<1>2. worker \in Room
  BY <1>1 DEF StepInv, ShapeOK, Room
<1>3. worker.left \in Seq(Work)
  BY <1>2 DEF Room
<1> QED
  BY <1>1, <1>2, <1>3, HeldIsPrepped DEF RecordInv, DeskOK, HaltOK, InStep

LEMMA FinishCallRecords == ASSUME StepInv, RecordInv, FinishCall PROVE RecordInv'
<1>1. /\ UNCHANGED <<calls, world, receipts, attempt>> /\ At("finish") /\ worker.left # <<>>
      /\ log \in Seq(LogRecord) /\ LogOK /\ Returned
  BY DEF FinishCall, store, StepInv, ShapeOK, RecordInv
<1>2. PICK w \in Work : w = Current
  BY <1>1, FinishingIs, Tails DEF Current
<1>3. PICK rest \in Seq(Work) : rest = Tail(worker.left)
  BY <1>1, FinishingIs, Tails
<1>4. PICK how : how = calls[w]
  OBVIOUS
<1>5. PICK s : s = StatusOf(how)
  OBVIOUS
<1>6. PICK events : events = EventsOf(w, how)
  OBVIOUS
<1>7. PICK recs : recs = events \o <<Finish(w, s)>>
  OBVIOUS
<1>8. /\ w \in Elements(worker.left) /\ Elements(rest) \subseteq Elements(worker.left)
      /\ \A v \in Elements(worker.left) : v = w \/ v \in Elements(rest)
      /\ Sorted(rest) /\ \A i \in DOMAIN rest : w.index < rest[i].index
  BY <1>1, <1>2, <1>3, FinishingIs, HeadAndTail, SortedTail DEF Current
<1>9. w \in DOMAIN calls /\ ~Finished(w) /\ Prepped(w) /\ how \in {"ok", "refused", "lost"}
  BY <1>1, <1>4, <1>8, FinishingIs DEF Untouched, Elements, RecordInv, CallsOK, Returned
<1>10. /\ how = "ok" => s = "completed"
       /\ how = "refused" => s = "failed"
       /\ how = "lost" => s = "unknown"
  BY <1>5 DEF StatusOf
<1>11. Ends(recs, w, s)
  <2>1. w.kind \in Events /\ "agent.failed" \in Events
    BY <1>2, StepAssumption DEF Work
  <2>2. OnlyEvents(events)
    BY <1>6, <2>1, SomeEvents DEF EventsOf
  <2> QED
    BY <1>7, <1>9, <1>10, <2>2, EndsIs
<1>12. Appended(recs)
  BY <1>2, <1>4, <1>5, <1>6, <1>7 DEF FinishCall
<1>13. worker' = [worker EXCEPT !.left = rest, !.ambiguous = @ \/ how = "lost"]
  BY <1>2, <1>3, <1>4 DEF FinishCall
<1>14. /\ worker'.pc = "finish" /\ worker'.source = worker.source /\ worker'.left = rest
       /\ worker'.startErr = worker.startErr
       /\ worker'.ambiguous = (worker.ambiguous \/ how = "lost")
  BY <1>1, <1>13, FinishingIs DEF Room
<1>15. /\ LogOK' /\ Cursor' = Cursor
       /\ \A c \in NextAfter(Cursor) : c \in NextAfter(Cursor)'
       /\ \A c \in Records("event") : Works(c)' = Works(c)
       /\ \A v : Prepped(v)' <=> Prepped(v)
       /\ \A v : Finished(v)' <=> Finished(v) \/ v = w
       /\ s # "unknown" => Unknown' = Unknown
       /\ s = "unknown" => Unknown' # {}
       /\ \A i \in Records("finished")' :
             \/ i \in Records("finished") /\ log'[i] = log[i]
             \/ log'[i].work = w /\ log'[i].status = s
  BY <1>1, <1>9, <1>10, <1>11, <1>12, Ending
<1>16. /\ worker'.source \in NextAfter(Cursor)'
       /\ Works(worker.source)' = Works(worker.source)
  BY <1>1, <1>14, <1>15, SameStep, FinishingIs
<1>17. Elements(worker.left)' = Elements(rest) /\ Sorted(worker.left)'
  BY <1>8, <1>14 DEF Elements, Sorted
<1>18. Untouched(worker.left)'
  <2>1. ASSUME NEW i \in DOMAIN rest
        PROVE  ~Finished(rest[i])'
    <3>1. rest[i] # w
      BY <1>2, <1>8, <2>1 DEF Work
    <3>2. rest[i] \in Elements(worker.left)
      BY <1>8, <2>1 DEF Elements
    <3>3. ~Finished(rest[i])
      BY <1>1, <3>2, FinishingIs DEF Untouched, Elements
    <3> QED
      BY <1>15, <3>1, <3>3
  <2> QED
    BY <1>14, <2>1 DEF Untouched
<1>19. DeskOK'
  BY <1>1, <1>8, <1>14, <1>15, <1>16, <1>17, <1>18, FinishingIs DEF DeskOK, InStep
<1>20. HaltOK'
  <2>1. worker'.ambiguous <=> Unknown' # {}
    BY <1>1, <1>9, <1>10, <1>14, <1>15, FinishingIs
  <2> QED
    BY <1>14, <2>1 DEF HaltOK, InStep
<1>21. WorldOK'
  <2>1. \/ s = "unknown" \/ w.kind # "tool" \/ Acted(w) \/ Tokens(w) = {}
    BY <1>4, <1>9, <1>10 DEF RecordInv, CallsOK, Acting
  <2> QED
    BY <1>1, <1>15, <2>1, WorldKept DEF RecordInv, world
<1>22. CallsOK'
  BY <1>1, <1>14, <1>15, CallsKept DEF RecordInv, world, Returned, At
<1> QED
  BY <1>15, <1>19, <1>20, <1>21, <1>22 DEF RecordInv

LEMMA EndCallsRecords == ASSUME StepInv, RecordInv, EndCalls PROVE RecordInv'
<1>1. /\ UNCHANGED <<log, world, receipts, attempt>> /\ At("finish") /\ worker.left = <<>>
      /\ DOMAIN calls' = {}
  BY DEF EndCalls, store, NoCalls
<1>2. /\ LogOK' /\ Cursor' = Cursor /\ NextAfter(Cursor)' = NextAfter(Cursor) /\ Unknown' = Unknown
      /\ Records("finished")' = Records("finished")
      /\ (\A c : Works(c)' = Works(c))
      /\ (\A v : Prepped(v)' <=> Prepped(v)) /\ (\A v : Finished(v)' <=> Finished(v))
  BY <1>1, Still DEF RecordInv
<1>3. \/ worker'.pc = "unknown" /\ Unknown # {}
      \/ worker'.pc = "down"
      \/ /\ worker'.pc = "complete" /\ worker'.source = worker.source
         /\ ~worker.startErr /\ Unknown = {}
  BY <1>1, FinishingIs DEF EndCalls, StopsUnknown, StopsRecoverably, Becomes, Down
<1>4. Elements(worker.left) = {}
  BY <1>1 DEF Elements
<1>5. DeskOK'
  <2>1. CASE worker'.pc = "complete"
    <3>1. /\ worker'.source = worker.source /\ worker'.source \in NextAfter(Cursor)'
          /\ Works(worker.source)' = Works(worker.source)
      BY <1>1, <1>2, <1>3, <2>1, SameStep, FinishingIs
    <3>2. \A w \in Works(worker.source) : Prepped(w)' /\ Finished(w)'
      BY <1>1, <1>2, <1>3, <1>4, <2>1, FinishingIs
    <3> QED
      BY <2>1, <3>1, <3>2 DEF DeskOK, InStep
  <2>2. CASE worker'.pc # "complete"
    BY <1>3, <2>2, NothingOnDesk
  <2> QED
    BY <2>1, <2>2
<1>6. HaltOK'
  BY <1>2, <1>3 DEF HaltOK, InStep
<1>7. WorldOK'
  BY <1>1, <1>2, WorldKept DEF RecordInv, world
<1>8. CallsOK'
  <2>1. attempt' \in 1..MaxAttempts /\ attempt' \in 0..MaxAttempts
    BY <1>1 DEF RecordInv, CallsOK, At
  <2> QED
    BY <1>1, <2>1 DEF CallsOK
<1> QED
  BY <1>2, <1>5, <1>6, <1>7, <1>8 DEF RecordInv

LEMMA EndStepRecords == ASSUME StepInv, RecordInv, EndStep PROVE RecordInv'
<1>1. PICK seq : seq = worker.source
  OBVIOUS
<1>2. /\ UNCHANGED <<calls, world, receipts, attempt>> /\ worker.pc = "complete"
      /\ log \in Seq(LogRecord) /\ LogOK /\ Appended(<<CompleteStep(seq)>>)
  BY <1>1 DEF EndStep, store, StepInv, ShapeOK, RecordInv, At
<1>3. /\ seq \in NextAfter(Cursor) /\ (\A w \in Works(seq) : Finished(w)) /\ Unknown = {}
      /\ DOMAIN calls = {}
  BY <1>1, <1>2 DEF RecordInv, DeskOK, HaltOK, InStep, CallsOK
<1>4. worker'.pc = "checkpoint" /\ worker'.source = seq
  BY <1>1, <1>2 DEF EndStep, Goes, StepInv, ShapeOK
<1>5. /\ LogOK' /\ Cursor' = seq /\ Unknown' = Unknown
      /\ \A v : Prepped(v)' <=> Prepped(v)
      /\ \A v : Finished(v)' <=> Finished(v)
      /\ \A i \in Records("finished")' : i \in Records("finished") /\ log'[i] = log[i]
  BY <1>2, <1>3, Completing
<1>6. DeskOK' /\ HaltOK'
  BY <1>3, <1>4, <1>5 DEF DeskOK, HaltOK, InStep
<1>7. WorldOK'
  BY <1>2, <1>5, WorldKept DEF RecordInv, world
<1>8. CallsOK'
  BY <1>2, <1>3, <1>4, <1>5, CallsKept DEF RecordInv, world
<1> QED
  BY <1>5, <1>6, <1>7, <1>8 DEF RecordInv

LEMMA CheckpointRecords == ASSUME StepInv, RecordInv, Checkpoint PROVE RecordInv'
<1>1. UNCHANGED <<log, calls, world, receipts, attempt>> /\ worker.pc = "checkpoint"
  BY DEF Checkpoint, At
<1>2. worker.source = Cursor /\ Unknown = {} /\ DOMAIN calls = {}
  BY <1>1 DEF RecordInv, DeskOK, HaltOK, CallsOK
<1>3. Cursor' = Cursor /\ Unknown' = Unknown
  BY <1>1, Still
<1>4. worker'.pc = "down" \/ (worker'.pc = "read" /\ worker'.cursor = Cursor)
  BY <1>2 DEF Checkpoint, Becomes, StopsRecoverably, Down
<1>5. DeskOK' /\ HaltOK'
  BY <1>2, <1>3, <1>4 DEF DeskOK, HaltOK, InStep
<1> QED
  BY <1>1, <1>2, <1>4, <1>5, OnlyWorker
-----------------------------------------------------------------------------
(* The goroutines and the world.                                           *)

(* Log and worker stand still.                                             *)
LEMMA WorkerStays ==
    ASSUME RecordInv, UNCHANGED <<log, worker>>, DOMAIN calls' = DOMAIN calls
    PROVE  /\ LogOK' /\ DeskOK' /\ HaltOK'
           /\ Records("finished")' = Records("finished")
           /\ \A v : Prepped(v)' <=> Prepped(v)
           /\ \A v : Finished(v)' <=> Finished(v)
<1>1. /\ LogOK' /\ Cursor' = Cursor /\ NextAfter(Cursor)' = NextAfter(Cursor) /\ Unknown' = Unknown
      /\ Records("finished")' = Records("finished")
      /\ (\A c : Works(c)' = Works(c))
      /\ (\A v : Prepped(v)' <=> Prepped(v)) /\ (\A v : Finished(v)' <=> Finished(v))
  BY Still DEF RecordInv
<1>2. Works(worker.source)' = Works(worker.source)
  BY DEF Works, List
<1>3. /\ Elements(worker.left)' = Elements(worker.left) /\ Elements(worker.todo)' = Elements(worker.todo)
      /\ (Untouched(worker.todo)' <=> Untouched(worker.todo)) /\ (Sorted(worker.todo)' <=> Sorted(worker.todo))
      /\ (Untouched(worker.left)' <=> Untouched(worker.left)) /\ (Sorted(worker.left)' <=> Sorted(worker.left))
      /\ Handed' = Handed
  BY <1>1 DEF Elements, Untouched, Sorted, Handed
<1>4. DeskOK'
  BY <1>1, <1>2, <1>3 DEF RecordInv, DeskOK, InStep
<1>5. HaltOK'
  BY <1>1 DEF RecordInv, HaltOK, InStep
<1> QED
  BY <1>1, <1>4, <1>5

(* One call goes on.                                                       *)
LEMMA CallMoves ==
    ASSUME RecordInv, UNCHANGED <<log, worker, attempt>>, NEW u \in DOMAIN calls,
           NEW how \in {"acted", "ok", "refused", "lost"}, Returns(u, how),
           Acting(u) /\ how \in {"acted", "ok"} => Acted(u)',
           u.kind = "tool" /\ how = "refused" => Tokens(u)' = {},
           \A v : Acted(v) => Acted(v)',
           \A v : v # u => Tokens(v)' = Tokens(v)
    PROVE  CallsOK'
<1>1. calls' = [calls EXCEPT ![u] = how]
  BY DEF Returns
<1>2. DOMAIN calls' = DOMAIN calls /\ calls'[u] = how /\ \A v \in DOMAIN calls : v # u => calls'[v] = calls[v]
  BY <1>1
<1>3. /\ \A v : Prepped(v)' <=> Prepped(v)
      /\ \A v : Finished(v)' <=> Finished(v)
  BY Still
<1>4. ASSUME NEW v \in DOMAIN calls'
      PROVE  /\ calls'[v] \in {"running", "acted", "ok", "refused", "lost"}
             /\ Prepped(v)'
             /\ calls'[v] = "running" => ~Finished(v)'
             /\ Acting(v) /\ calls'[v] \in {"acted", "ok"} => Acted(v)'
             /\ v.kind = "tool" /\ calls'[v] \in {"running", "refused"} => Tokens(v)' = {}
  <2>1. CASE v = u
    BY <1>2, <1>3, <2>1 DEF RecordInv, CallsOK
  <2>2. CASE v # u
    BY <1>2, <1>3, <1>4, <2>2 DEF RecordInv, CallsOK
  <2> QED
    BY <2>1, <2>2
<1>5. /\ worker'.pc \notin {"launch", "finish"} => DOMAIN calls' = {}
      /\ worker'.pc # "down" => attempt' \in 1..MaxAttempts
      /\ attempt' \in 0..MaxAttempts
  BY <1>2 DEF RecordInv, CallsOK
<1> QED
  BY <1>4, <1>5 DEF CallsOK, Acting

LEMMA CallingIs ==
    ASSUME RecordInv, NEW u \in DOMAIN calls
    PROVE  /\ attempt \in 1..MaxAttempts /\ Prepped(u)
           /\ calls[u] = "running" => ~Finished(u)
           /\ u.kind = "tool" /\ calls[u] = "running" => Tokens(u) = {}
           /\ Acting(u) /\ calls[u] \in {"acted", "ok"} => Acted(u)
<1>1. worker.pc # "down"
  BY DEF RecordInv, CallsOK
<1> QED
  BY <1>1 DEF RecordInv, CallsOK

LEMMA PerformRecords == ASSUME StepInv, RecordInv, NEW u \in DOMAIN calls, Perform(u) PROVE RecordInv'
<1>1. PICK a : a = <<u, attempt>>
  OBVIOUS
<1>2. /\ UNCHANGED <<log, worker, attempt, orphans, receipts>> /\ calls[u] = "running" /\ Acting(u)
      /\ Returns(u, "acted") /\ performed' = performed \cup {a}
  BY <1>1 DEF Perform, store
<1>3. a[1] = u /\ a[2] = attempt /\ a = <<a[1], a[2]>>
  BY <1>1
<1>4. /\ \A v : Acted(v)' <=> Acted(v) \/ v = u
      /\ \A v : v # u => Tokens(v)' = Tokens(v)
  BY <1>2, <1>3 DEF Acted, Tokens
<1>5. DOMAIN calls' = DOMAIN calls
  BY <1>2 DEF Returns
<1>6. /\ LogOK' /\ DeskOK' /\ HaltOK' /\ Records("finished")' = Records("finished")
      /\ \A v : Prepped(v)' <=> Prepped(v)
  BY <1>2, <1>5, WorkerStays
<1>7. CallsOK'
  BY <1>2, <1>4, CallMoves
<1>8. WorldOK'
  <2>1. ASSUME NEW b \in performed' \cup orphans'
        PROVE  b = <<b[1], b[2]>> /\ b[2] \in 1..MaxAttempts /\ Prepped(b[1])' /\ Acting(b[1])
    <3>1. CASE b = a
      BY <1>2, <1>3, <1>6, <3>1, CallingIs
    <3>2. CASE b # a
      BY <1>2, <1>6, <2>1, <3>2 DEF RecordInv, WorldOK
    <3> QED
      BY <3>1, <3>2
  <2>2. ASSUME NEW b \in orphans', b[1].kind = "tool"
        PROVE  /\ ~Acted(b[1])'
               /\ \A i \in Records("finished")' : log'[i].work = b[1] => log'[i].status = "unknown"
    <3>1. b[1] # u
      BY <1>2, <2>2, CallingIs DEF Tokens
    <3> QED
      BY <1>2, <1>4, <1>6, <2>2, <3>1 DEF RecordInv, WorldOK
  <2>3. \A v \in receipts' : Acted(v)'
    BY <1>2, <1>4 DEF RecordInv, WorldOK
  <2> QED
    BY <2>1, <2>2, <2>3 DEF WorldOK, Acting
<1> QED
  BY <1>6, <1>7, <1>8 DEF RecordInv

LEMMA AnswerRecords == ASSUME StepInv, RecordInv, NEW u \in DOMAIN calls, Answer(u) PROVE RecordInv'
<1>1. /\ UNCHANGED <<log, worker, attempt, performed, orphans>> /\ Returns(u, "ok")
      /\ calls[u] = "acted" \/ ~Acting(u)
      /\ receipts' = receipts \/ (Acting(u) /\ receipts' = receipts \cup {u})
  BY DEF Answer, world
<1>2. \A v : (Acted(v)' <=> Acted(v)) /\ Tokens(v)' = Tokens(v)
  BY <1>1 DEF Acted, Tokens
<1>3. DOMAIN calls' = DOMAIN calls
  BY <1>1 DEF Returns
<1>4. /\ LogOK' /\ DeskOK' /\ HaltOK' /\ Records("finished")' = Records("finished")
      /\ \A v : Prepped(v)' <=> Prepped(v)
  BY <1>1, <1>3, WorkerStays
<1>5. Acting(u) => Acted(u)
  BY <1>1, CallingIs
<1>6. CallsOK'
  BY <1>1, <1>2, <1>5, CallMoves
<1>7. \A v \in receipts' : Acted(v)'
  BY <1>1, <1>2, <1>5 DEF RecordInv, WorldOK
<1>8. WorldOK'
  BY <1>1, <1>2, <1>4, <1>7 DEF RecordInv, WorldOK
<1> QED
  BY <1>4, <1>6, <1>8 DEF RecordInv

LEMMA RefuseRecords == ASSUME StepInv, RecordInv, NEW u \in DOMAIN calls, Refuse(u) PROVE RecordInv'
<1>1. /\ UNCHANGED <<log, worker, attempt, performed, orphans, receipts>> /\ Returns(u, "refused")
      /\ calls[u] = "running"
  BY DEF Refuse, world, store
<1>2. \A v : (Acted(v)' <=> Acted(v)) /\ Tokens(v)' = Tokens(v)
  BY <1>1 DEF Acted, Tokens
<1>3. DOMAIN calls' = DOMAIN calls
  BY <1>1 DEF Returns
<1>4. /\ LogOK' /\ DeskOK' /\ HaltOK' /\ Records("finished")' = Records("finished")
      /\ \A v : Prepped(v)' <=> Prepped(v)
  BY <1>1, <1>3, WorkerStays
<1>5. CallsOK'
  BY <1>1, <1>2, CallingIs, CallMoves
<1>6. WorldOK'
  BY <1>1, <1>2, <1>4 DEF RecordInv, WorldOK
<1> QED
  BY <1>4, <1>5, <1>6 DEF RecordInv

(* Calls that are left behind may still act.                               *)
LEMMA OrphansOK ==
    ASSUME RecordInv, UNCHANGED <<log, performed, receipts>>,
           NEW ws \in SUBSET DOMAIN calls, orphans' = orphans \cup Outstanding(ws)
    PROVE  WorldOK'
<1>1. \A v : Acted(v)' <=> Acted(v)
  BY DEF Acted
<1>2. /\ Records("finished")' = Records("finished")
      /\ \A v : Prepped(v)' <=> Prepped(v)
  BY Still
<1>3. ASSUME NEW a \in Outstanding(ws)
      PROVE  /\ a = <<a[1], a[2]>> /\ a[2] \in 1..MaxAttempts /\ Prepped(a[1]) /\ Acting(a[1])
             /\ ~Finished(a[1]) /\ (a[1].kind = "tool" => Tokens(a[1]) = {})
  <2>1. PICK w \in ws : a = <<w, attempt>> /\ calls[w] = "running" /\ Acting(w)
    BY <1>3 DEF Outstanding
  <2>2. a[1] = w /\ a[2] = attempt
    BY <2>1
  <2> QED
    BY <2>1, <2>2, CallingIs
<1>4. ASSUME NEW a \in performed' \cup orphans'
      PROVE  a = <<a[1], a[2]>> /\ a[2] \in 1..MaxAttempts /\ Prepped(a[1])' /\ Acting(a[1])
  BY <1>2, <1>3, <1>4 DEF RecordInv, WorldOK
<1>5. ASSUME NEW a \in orphans', a[1].kind = "tool"
      PROVE  /\ ~Acted(a[1])'
             /\ \A i \in Records("finished")' : log'[i].work = a[1] => log'[i].status = "unknown"
  <2>1. CASE a \in orphans
    BY <1>1, <1>2, <1>5, <2>1 DEF RecordInv, WorldOK
  <2>2. CASE a \in Outstanding(ws)
    <3>1. Tokens(a[1]) = {} /\ ~Finished(a[1])
      BY <1>3, <1>5, <2>2
    <3> QED
      BY <1>1, <1>2, <3>1 DEF Tokens, Acted, Finished
  <2> QED
    BY <1>5, <2>1, <2>2
<1> QED
  BY <1>1, <1>4, <1>5 DEF RecordInv, WorldOK, Acting

LEMMA LoseRecords == ASSUME StepInv, RecordInv, NEW u \in DOMAIN calls, Lose(u) PROVE RecordInv'
<1>1. /\ UNCHANGED <<log, worker, attempt, performed, receipts>> /\ Returns(u, "lost")
      /\ orphans' = orphans \cup Outstanding({u})
  BY DEF Lose, store
<1>2. \A v : (Acted(v)' <=> Acted(v)) /\ (v # u => Tokens(v)' = Tokens(v))
  BY <1>1 DEF Acted, Tokens, Outstanding
<1>3. DOMAIN calls' = DOMAIN calls
  BY <1>1 DEF Returns
<1>4. LogOK' /\ DeskOK' /\ HaltOK'
  BY <1>1, <1>3, WorkerStays
<1>5. CallsOK'
  BY <1>1, <1>2, CallMoves
<1>6. WorldOK'
  BY <1>1, OrphansOK
<1> QED
  BY <1>4, <1>5, <1>6 DEF RecordInv

LEMMA CrashRecords == ASSUME StepInv, RecordInv, Crash PROVE RecordInv'
<1>1. /\ UNCHANGED <<log, attempt, performed, receipts>> /\ DOMAIN calls' = {} /\ worker'.pc = "down"
      /\ orphans' = orphans \cup Outstanding(DOMAIN calls)
  BY DEF Crash, store, NoCalls, Becomes, Down
<1>2. LogOK'
  BY <1>1, Still DEF RecordInv
<1>3. DeskOK' /\ HaltOK'
  BY <1>1, NothingOnDesk DEF HaltOK, InStep
<1>4. CallsOK'
  BY <1>1 DEF CallsOK, RecordInv
<1>5. WorldOK'
  BY <1>1, OrphansOK
<1> QED
  BY <1>2, <1>3, <1>4, <1>5 DEF RecordInv

LEMMA OrphanActsRecords ==
    ASSUME StepInv, RecordInv, NEW o \in orphans, OrphanActs(o[1], o[2])
    PROVE  RecordInv'
<1>1. o = <<o[1], o[2]>>
  BY DEF RecordInv, WorldOK
<1>2. /\ UNCHANGED <<log, worker, calls, attempt, receipts>>
      /\ orphans' = orphans \ {o} /\ performed' = performed \cup {o}
  BY <1>1 DEF OrphanActs, memory, store
<1>3. /\ \A v : Tokens(v)' = Tokens(v)
      /\ \A v : Acted(v)' <=> Acted(v) \/ v = o[1]
  BY <1>2 DEF Tokens, Acted
<1>4. /\ LogOK' /\ DeskOK' /\ HaltOK' /\ Records("finished")' = Records("finished")
      /\ (\A v : Prepped(v)' <=> Prepped(v)) /\ (\A v : Finished(v)' <=> Finished(v))
  BY <1>2, WorkerStays
<1>5. CallsOK'
  BY <1>2, <1>3, <1>4 DEF RecordInv, CallsOK, Acting
<1>6. ASSUME NEW a \in orphans', a[1].kind = "tool"
      PROVE  /\ ~Acted(a[1])'
             /\ \A i \in Records("finished")' : log'[i].work = a[1] => log'[i].status = "unknown"
  <2>1. a \in orphans /\ a # o
    BY <1>2, <1>6
  <2>2. a[1] # o[1]
    <3>1. SUFFICES ASSUME a[1] = o[1] PROVE FALSE
      OBVIOUS
    <3>2. a \in Tokens(a[1]) /\ o \in Tokens(a[1])
      BY <2>1, <3>1 DEF Tokens
    <3> QED
      BY <1>6, <2>1, <3>2 DEF StepInv, OneLicence
  <2> QED
    BY <1>2, <1>3, <1>4, <1>6, <2>1, <2>2 DEF RecordInv, WorldOK
<1>7. /\ \A a \in performed' \cup orphans' :
            a = <<a[1], a[2]>> /\ a[2] \in 1..MaxAttempts /\ Prepped(a[1])' /\ Acting(a[1])
      /\ \A v \in receipts' : Acted(v)'
  BY <1>2, <1>3, <1>4 DEF RecordInv, WorldOK
<1>8. WorldOK'
  BY <1>6, <1>7 DEF WorldOK, Acting
<1> QED
  BY <1>4, <1>5, <1>8 DEF RecordInv
-----------------------------------------------------------------------------
LEMMA RecordInvInit == StepInit => RecordInv
<1> SUFFICES ASSUME StepInit PROVE RecordInv
  OBVIOUS
<1>1. log = <<Event("run.started")>>
  BY DEF StepInit, Event
<1>2. PICK first : first = Event("run.started")
  OBVIOUS
<1>3. first.type = "event" /\ log = <<first>> /\ DOMAIN log = {1} /\ log[1] = first /\ Len(log) = 1
  BY <1>1, <1>2 DEF Event
<1>4. /\ Records("prepared") = {} /\ Records("started") = {} /\ Records("finished") = {}
      /\ Records("completed") = {} /\ Records("event") = {1}
  BY <1>3 DEF Records
<1>5. log \in Seq(LogRecord)
  BY StepInvInit DEF StepInv, ShapeOK
<1>6. Cursor = 0
  BY <1>4, <1>5, CursorIs DEF Sources, Maximum
<1>7. LogOK
  BY <1>3, <1>4, <1>6 DEF LogOK, Accepted
<1>8. worker.pc = "down" /\ DOMAIN calls = {} /\ performed = {} /\ orphans = {} /\ receipts = {} /\ attempt = 0
  BY DEF StepInit, Down, NoCalls
<1>9. DeskOK /\ HaltOK /\ CallsOK /\ WorldOK
  BY <1>8, StepAssumption DEF DeskOK, HaltOK, CallsOK, WorldOK, InStep
<1> QED
  BY <1>7, <1>9 DEF RecordInv

LEMMA RecordInvStep == StepInv /\ StepInv' /\ RecordInv /\ [StepNext]_stepVars => RecordInv'
<1> SUFFICES ASSUME StepInv, StepInv', RecordInv, [StepNext]_stepVars PROVE RecordInv'
  OBVIOUS
<1>1. CASE WorkerNext
  BY <1>1, OpenRecords, ReadRecords, PrepareRecords, SkipControlRecords, RunControlRecords,
     ControlDoneRecords, SkipFinishedRecords, FinishFromReceiptRecords, WillRunRecords,
     FinishUnknownRecords, ClassifiedRecords, RegisterRecords, LaunchRecords, LaunchFailsRecords,
     LaunchedRecords, FinishCallRecords, EndCallsRecords, EndStepRecords, CheckpointRecords
  DEF WorkerNext
<1>2. ASSUME NEW w \in DOMAIN calls, CallNext(w)
      PROVE  RecordInv'
  BY <1>2, PerformRecords, AnswerRecords, RefuseRecords, LoseRecords DEF CallNext
<1>3. ASSUME NEW o \in orphans, OrphanActs(o[1], o[2])
      PROVE  RecordInv'
  BY <1>3, OrphanActsRecords
<1>4. CASE TimerFails
  BY <1>4, TimerFailsRecords
<1>5. CASE Crash
  BY <1>5, CrashRecords
<1>6. CASE UNCHANGED stepVars
  <2>1. UNCHANGED <<log, worker, calls, performed, orphans, receipts, attempt>>
    BY <1>6 DEF stepVars, memory, world, store
  <2>2. LogOK' /\ DeskOK' /\ HaltOK' /\ (\A v : Prepped(v)' <=> Prepped(v))
        /\ (\A v : Finished(v)' <=> Finished(v)) /\ Records("finished")' = Records("finished")
    BY <2>1, WorkerStays
  <2>3. \A v : (Acted(v)' <=> Acted(v)) /\ Tokens(v)' = Tokens(v)
    BY <2>1 DEF Acted, Tokens
  <2>4. CallsOK' /\ WorldOK'
    BY <2>1, <2>2, <2>3 DEF RecordInv, CallsOK, WorldOK
  <2> QED
    BY <2>2, <2>4 DEF RecordInv
<1> QED
  BY <1>1, <1>2, <1>3, <1>4, <1>5, <1>6 DEF StepNext

(* The invariant on which the next theorems rest: what the records of a    *)
(* run, its worker, its calls and the world owe each other at every step   *)
(* of Loop.run and RunStep.                                                *)
THEOREM RecordsAgree == StepSpec => [](StepInv /\ RecordInv)
<1>1. StepInit => StepInv /\ RecordInv
  BY StepInvInit, RecordInvInit
<1>2. StepInv /\ RecordInv /\ [StepNext]_stepVars => StepInv' /\ RecordInv'
  BY StepInvStep, RecordInvStep
<1> QED
  BY <1>1, <1>2, PTL DEF StepSpec
-----------------------------------------------------------------------------
(* What recovery answers.                                                  *)

(* An event after a position has a first one after it.                     *)
LEMMA FirstOfThem ==
    ASSUME log \in Seq(LogRecord), NEW c, NEW seq \in Records("event"), seq > c
    PROVE  NextAfter(c) # {}
<1> DEFINE later == {k \in Records("event") : k > c}
           Before == OpToRel(<, Nat)
<1>1. later \subseteq Nat /\ seq \in later
  BY DEF Records
<1>2. Before = {ss \in Nat \X Nat : ss[1] < ss[2]}
  BY Zenon DEF OpToRel
<1>3. IsWellFoundedOn(Before, Nat)
  BY NatLessThanWellFounded
<1> HIDE DEF later, Before
<1>4. PICK first \in later : \A k \in later : ~(<<k, first>> \in Before)
  BY <1>1, <1>3, WFMin
<1>5. ASSUME NEW k \in later
      PROVE  first <= k
  <2>1. k \in Nat /\ first \in Nat /\ <<k, first>> \in Nat \X Nat
    BY <1>1, <1>4, <1>5
  <2>2. ~(k < first)
    BY <1>2, <1>4, <1>5, <2>1
  <2> QED
    BY <2>1, <2>2
<1>6. first \in NextAfter(c)
  BY <1>4, <1>5 DEF NextAfter, later
<1> QED
  BY <1>6

(* What Recover reads from any log a crash can leave is true: it accepts   *)
(* the log, each step behind its cursor has known outcomes, an idle run    *)
(* has nothing left to decide, and a run stopped for an unknown outcome    *)
(* has one (internal/exec, Recover and Loop.run).                          *)
THEOREM RecoveryTellsTheTruth == StepSpec => []RecoveryIsTrue
<1>1. ASSUME StepInv, RecordInv
      PROVE  RecoveryIsTrue
  <2>1. Accepted /\ \A seq \in Records("event") : seq <= Cursor => \A w \in Works(seq) : Known(w)
    BY <1>1 DEF RecordInv, LogOK
  <2>2. ASSUME At("idle"), NEW seq \in Records("event")
        PROVE  seq <= Cursor
    <3>1. NextAfter(Cursor) = {} /\ log \in Seq(LogRecord)
      BY <1>1, <2>2 DEF At, RecordInv, DeskOK, StepInv, ShapeOK
    <3>2. ~(seq > Cursor)
      BY <3>1, FirstOfThem
    <3>3. seq \in Nat /\ Cursor \in Nat
      BY <1>1 DEF Records, RecordInv, LogOK, StepInv, ShapeOK
    <3> QED
      BY <3>2, <3>3
  <2>3. At("unknown") => Unknown # {}
    BY <1>1 DEF At, RecordInv, HaltOK
  <2> QED
    BY <2>1, <2>2, <2>3 DEF RecoveryIsTrue, Known
<1> QED
  BY <1>1, RecordsAgree, PTL
-----------------------------------------------------------------------------
(* Durable execution implements Effects.                                   *)

Begun == {[step |-> seq, works |-> Works(seq)] : seq \in Steps("prepared")}
Outcomes == {<<log[i].work, log[i].status>> : i \in Records("finished")}

LEMMA WhatTheContractSees ==
    /\ Contract!effectVars = <<Begun, performed, Outcomes, Steps("completed")>>
    /\ \A w : Contract!Acted(w) <=> Acted(w)
  BY DEF Contract!effectVars, Contract!Acted, Acted, Begun, Outcomes

(* The effects of a prepared event are those of its manifest.              *)
LEMMA StepsAre ==
    ASSUME LogOK
    PROVE  /\ \A seq : seq \in Steps("prepared") <=> Prepared(seq)
           /\ \A seq : seq \in Steps("completed") <=> Complete(seq) /\ Works(seq) # {}
<1>1. ASSUME NEW seq, Prepared(seq)
      PROVE  seq \in Records("event") /\ Works(seq) # {}
  <2>1. PICK i \in Records("prepared") : log[i].work.source = seq
    BY <1>1 DEF Prepared
  <2> QED
    BY <2>1 DEF LogOK, Whole
<1>2. ASSUME NEW seq, Complete(seq)
      PROVE  seq \in Records("event")
  BY <1>2 DEF Complete, LogOK
<1> QED
  BY <1>1, <1>2 DEF Steps

LEMMA CommissionedIs ==
    ASSUME LogOK
    PROVE  \A w : w \in Contract!Commissioned <=> Prepped(w)
<1>1. Contract!Commissioned = UNION {step.works : step \in Begun}
  BY DEF Contract!Commissioned, Begun
<1>2. \A w : w \in Contract!Commissioned <=> \E seq \in Steps("prepared") : w \in Works(seq)
  <2>1. ASSUME NEW w \in Contract!Commissioned
        PROVE  \E seq \in Steps("prepared") : w \in Works(seq)
    <3>1. PICK step \in Begun : w \in step.works
      BY <1>1, <2>1
    <3>2. PICK seq \in Steps("prepared") : step = [step |-> seq, works |-> Works(seq)]
      BY <3>1 DEF Begun
    <3> QED
      BY <3>1, <3>2
  <2>2. ASSUME NEW w, NEW seq \in Steps("prepared"), w \in Works(seq)
        PROVE  w \in Contract!Commissioned
    <3>1. PICK step : step = [step |-> seq, works |-> Works(seq)]
      OBVIOUS
    <3>2. step \in Begun /\ w \in step.works
      BY <2>2, <3>1 DEF Begun
    <3> QED
      BY <1>1, <3>2
  <2> QED
    BY <2>1, <2>2
<1>3. ASSUME NEW w, NEW seq \in Steps("prepared"), w \in Works(seq)
      PROVE  Prepped(w)
  <2>1. PICK i \in Records("prepared") : log[i].work.source = seq
    BY StepsAre DEF Prepared
  <2> QED
    BY <1>3, <2>1 DEF LogOK, Whole
<1>4. ASSUME NEW w, Prepped(w)
      PROVE  \E seq \in Steps("prepared") : w \in Works(seq)
  <2>1. PICK i \in Records("prepared") : log[i].work = w
    BY <1>4 DEF Prepped
  <2>2. w \in Works(w.source) /\ Prepared(w.source)
    BY <2>1 DEF LogOK, Whole, Prepared
  <2> QED
    BY <2>2, StepsAre
<1> QED
  BY <1>2, <1>3, <1>4

LEMMA SettledIs ==
    ASSUME log \in Seq(LogRecord)
    PROVE  /\ \A w : Contract!Settled(w) <=> Finished(w)
           /\ \A w : <<w, "unknown">> \in Outcomes <=> w \in Unknown
<1>1. \A i \in Records("finished") : log[i].status \in {"completed", "failed", "unknown"}
  <2>1. ASSUME NEW i \in Records("finished")
        PROVE  log[i].status \in {"completed", "failed", "unknown"}
    <3>1. log[i] \in LogRecord /\ log[i].type = "finished"
      BY DEF Records
    <3> QED
      BY <3>1 DEF LogRecord
  <2> QED
    BY <2>1
<1>2. \A w, s : <<w, s>> \in Outcomes <=>
            \E i \in Records("finished") : log[i].work = w /\ log[i].status = s
  BY DEF Outcomes
<1>3. \A w : Contract!Settled(w) <=> \E s \in {"completed", "failed", "unknown"} : <<w, s>> \in Outcomes
  BY DEF Contract!Settled, Outcomes
<1>4. ASSUME NEW w
      PROVE  Contract!Settled(w) <=> Finished(w)
  <2>1. ASSUME NEW s \in {"completed", "failed", "unknown"}, <<w, s>> \in Outcomes
        PROVE  Finished(w)
    BY <1>2, <2>1 DEF Finished
  <2>2. ASSUME NEW i \in Records("finished"), log[i].work = w
        PROVE  \E s \in {"completed", "failed", "unknown"} : <<w, s>> \in Outcomes
    <3>1. PICK s \in {"completed", "failed", "unknown"} : s = log[i].status
      BY <1>1
    <3>2. <<w, s>> \in Outcomes
      BY <1>2, <2>2, <3>1
    <3> QED
      BY <3>2
  <2> QED
    BY <1>3, <2>1, <2>2 DEF Finished
<1>5. ASSUME NEW w
      PROVE  <<w, "unknown">> \in Outcomes <=> w \in Unknown
  BY <1>2 DEF Unknown
<1> QED
  BY <1>4, <1>5

(* The steps are as they were.                                             *)
LEMMA StepsKept ==
    ASSUME LogOK, LogOK',
           \A seq \in Records("event") : Works(seq)' = Works(seq),
           \A seq : Prepared(seq)' <=> Prepared(seq),
           \A seq : Complete(seq)' <=> Complete(seq)
    PROVE  Begun' = Begun /\ Steps("completed")' = Steps("completed")
<1>1. \A seq : Prepared(seq)' => seq \in Records("event")' /\ Works(seq)' # {}
  <2>1. ASSUME NEW seq, Prepared(seq)'
        PROVE  seq \in Records("event")' /\ Works(seq)' # {}
    <3>1. PICK i \in Records("prepared")' : log'[i].work.source = seq
      BY <2>1 DEF Prepared
    <3>2. PICK w : w = log'[i].work
      OBVIOUS
    <3>3. Whole(w)' /\ w.source = seq
      BY <3>1, <3>2 DEF LogOK
    <3> QED
      BY <3>3 DEF Whole
  <2> QED
    BY <2>1
<1>2. \A seq : Complete(seq)' => seq \in Records("event")'
  BY DEF Complete, LogOK
<1>3. /\ \A seq \in Steps("prepared") : seq \in Records("event")
      /\ \A seq : Complete(seq) => seq \in Records("event")
  BY DEF Complete, LogOK, Steps
<1>4. Steps("prepared")' = Steps("prepared")
  <2>1. \A seq : seq \in Steps("prepared")' <=> Prepared(seq)'
    BY <1>1 DEF Steps
  <2> QED
    BY <2>1, StepsAre
<1>5. Steps("completed")' = Steps("completed")
  <2>1. \A seq : seq \in Steps("completed")' <=> Complete(seq)' /\ Works(seq)' # {}
    BY <1>2 DEF Steps
  <2> QED
    BY <1>3, <2>1, StepsAre
<1>6. Begun' = Begun
  BY <1>3, <1>4 DEF Begun
<1> QED
  BY <1>5, <1>6
(* One step more is prepared.                                              *)
LEMMA OneStepMore ==
    ASSUME LogOK, LogOK', NEW seq \in Records("event"), Works(seq) # {},
           \A c \in Records("event") : Works(c)' = Works(c),
           \A c : Prepared(c)' <=> Prepared(c) \/ c = seq,
           \A c : Complete(c)' <=> Complete(c),
           Records("event")' = Records("event")
    PROVE  /\ Begun' = Begun \cup {[step |-> seq, works |-> Works(seq)]}
           /\ Steps("completed")' = Steps("completed")
<1>1. /\ \A c \in Steps("prepared") : c \in Records("event")
      /\ \A c : Complete(c) => c \in Records("event")
  BY DEF Complete, LogOK, Steps
<1>2. Steps("prepared")' = Steps("prepared") \cup {seq}
  <2>1. \A c : c \in Steps("prepared")' <=> c \in Records("event") /\ Works(c) # {} /\ Prepared(c)'
    BY DEF Steps
  <2> QED
    BY <1>1, <2>1, StepsAre DEF Steps
<1>3. Steps("completed")' = Steps("completed")
  <2>1. \A c : c \in Steps("completed")' <=> c \in Records("event") /\ Works(c) # {} /\ Complete(c)'
    BY DEF Steps
  <2> QED
    BY <1>1, <2>1, StepsAre
<1>4. Begun' = Begun \cup {[step |-> seq, works |-> Works(seq)]}
  BY <1>1, <1>2 DEF Begun
<1> QED
  BY <1>3, <1>4

(* Nothing happens there.                                                  *)
LEMMA NothingHappens ==
    ASSUME LogOK, UNCHANGED <<log, performed>>
    PROVE  UNCHANGED Contract!effectVars
<1>1. Begun' = Begun /\ Steps("completed")' = Steps("completed")
  BY Still, StepsKept
<1>2. Outcomes' = Outcomes
  BY Still DEF Outcomes
<1> QED
  BY <1>1, <1>2 DEF Contract!effectVars, Begun, Outcomes

(* A prepared effect without an outcome gets one.                          *)
LEMMA Settling ==
    ASSUME log \in Seq(LogRecord), LogOK, NEW w \in Work, Prepped(w), ~Finished(w),
           NEW s \in {"completed", "failed", "unknown"},
           NEW recs, Ends(recs, w, s), Appended(recs), UNCHANGED performed,
           s = "completed" /\ Acting(w) => Acted(w),
           s = "failed" => ~Acted(w) \/ w.kind = "keyed"
    PROVE  Contract!EffectsNext
<1>1. /\ LogOK'
      /\ \A seq \in Records("event") : Works(seq)' = Works(seq)
      /\ \A i \in Records("finished") : i \in Records("finished")' /\ log'[i] = log[i]
      /\ \A i \in Records("finished")' :
            \/ i \in Records("finished") /\ log'[i] = log[i]
            \/ log'[i].work = w /\ log'[i].status = s
      /\ \E i \in Records("finished")' : log'[i].work = w /\ log'[i].status = s
      /\ \A seq : Prepared(seq)' <=> Prepared(seq)
      /\ \A seq : Complete(seq)' <=> Complete(seq)
  BY Ending
<1>2. Begun' = Begun /\ Steps("completed")' = Steps("completed")
  BY <1>1, StepsKept
<1>3. Outcomes' = Outcomes \cup {<<w, s>>}
  <2>1. ASSUME NEW o \in Outcomes
        PROVE  o \in Outcomes'
    BY <1>1, <2>1 DEF Outcomes
  <2>2. ASSUME NEW o \in Outcomes'
        PROVE  o \in Outcomes \cup {<<w, s>>}
    BY <1>1, <2>2 DEF Outcomes
  <2>3. <<w, s>> \in Outcomes'
    BY <1>1 DEF Outcomes
  <2> QED
    BY <2>1, <2>2, <2>3
<1>4. w \in Contract!Commissioned /\ ~Contract!Settled(w)
  BY CommissionedIs, SettledIs
<1>5. Contract!Acted(w) <=> Acted(w)
  BY WhatTheContractSees
<1>6. Contract!Settle(w, s)
  BY <1>2, <1>3, <1>4, <1>5 DEF Contract!Settle, Begun, Outcomes
<1> QED
  BY <1>4, <1>6 DEF Contract!EffectsNext

(* Where an effect comes from.                                             *)
LEMMA WorksOf == ASSUME NEW seq, NEW w \in Works(seq) PROVE w.source = seq
<1>1. PICK fx : fx = Decides[log[seq].kind]
  OBVIOUS
<1>2. List(seq) = [i \in 1..Len(fx) |-> [source |-> seq, index |-> i, kind |-> fx[i]]]
  BY <1>1 DEF List
<1>3. PICK i \in 1..Len(fx) : w = List(seq)[i]
  BY <1>2 DEF Works
<1> QED
  BY <1>2, <1>3

LEMMA PrepareImplements ==
    ASSUME StepInv, RecordInv, PrepareStep
    PROVE  Contract!EffectsNext \/ UNCHANGED Contract!effectVars
<1>1. PICK seq : seq = worker.source
  OBVIOUS
<1>2. /\ log \in Seq(LogRecord) /\ LogOK /\ seq \in NextAfter(Cursor)
      /\ UNCHANGED performed
  BY <1>1 DEF StepInv, ShapeOK, RecordInv, DeskOK, PrepareStep, At, world
<1>3. CASE Prepared(seq)
  <2>1. log' = log
    BY <1>1, <1>2, <1>3, ConcatEmptySeq DEF PrepareStep, Appended
  <2> QED
    BY <1>2, <2>1, NothingHappens
<1>4. CASE ~Prepared(seq)
  <2>1. Appended([i \in DOMAIN List(seq) |-> Prepare(List(seq)[i])])
    BY <1>1, <1>4 DEF PrepareStep
  <2>2. /\ LogOK'
        /\ \A c \in Records("event") : Works(c)' = Works(c)
        /\ Records("event")' = Records("event")
        /\ \A i \in Records("finished") : i \in Records("finished")' /\ log'[i] = log[i]
        /\ \A i \in Records("finished")' : i \in Records("finished") /\ log'[i] = log[i]
        /\ \A c : Prepared(c)' <=> Prepared(c) \/ (c = seq /\ Works(seq) # {})
        /\ \A c : Complete(c)' <=> Complete(c)
    BY <1>2, <1>4, <2>1, Manifesting
  <2>3. Outcomes' = Outcomes
    BY <2>2 DEF Outcomes
  <2>4. CASE Works(seq) = {}
    <3>1. Begun' = Begun /\ Steps("completed")' = Steps("completed")
      BY <1>2, <2>2, <2>4, StepsKept
    <3> QED
      BY <1>2, <2>3, <3>1 DEF Contract!effectVars, Begun, Outcomes
  <2>5. CASE Works(seq) # {}
    <3>1. PICK new : new = [step |-> seq, works |-> Works(seq)]
      OBVIOUS
    <3>2. Begun' = Begun \cup {new} /\ Steps("completed")' = Steps("completed")
      BY <1>2, <2>2, <2>5, <3>1, OneStepMore DEF NextAfter
    <3>3. new.works \cap Contract!Commissioned = {}
      <4>1. ASSUME NEW w \in Works(seq), Prepped(w)
            PROVE  FALSE
        <5>1. w.source = seq
          BY <4>1, WorksOf
        <5>2. PICK i \in Records("prepared") : log[i].work = w
          BY <4>1 DEF Prepped
        <5> QED
          BY <1>4, <5>1, <5>2 DEF Prepared
      <4> QED
        BY <1>2, <3>1, <4>1, CommissionedIs
    <3>4. ASSUME NEW old \in Begun
          PROVE  old.step \in Steps("completed") /\ old.step < new.step
      <4>1. PICK c \in Steps("prepared") : old = [step |-> c, works |-> Works(c)]
        BY <3>4 DEF Begun
      <4>2. PICK i \in Records("prepared") : log[i].work.source = c
        BY <1>2, StepsAre DEF Prepared
      <4>3. c \in Records("event") /\ (c <= Cursor \/ c \in NextAfter(Cursor)) /\ Works(c) # {}
        BY <1>2, <4>2 DEF LogOK, Whole
      <4>4. c # seq
        BY <1>2, <1>4, StepsAre
      <4>5. c <= Cursor /\ seq > Cursor /\ c \in Nat /\ seq \in Nat /\ Cursor \in Nat
        BY <1>2, <4>3, <4>4 DEF NextAfter, Records, LogOK
      <4>6. Complete(c)
        BY <1>2, <4>3, <4>5 DEF LogOK
      <4>7. c \in Steps("completed") /\ c < seq
        BY <1>2, <4>3, <4>5, <4>6, StepsAre
      <4> QED
        BY <3>1, <4>1, <4>7
    <3>5. Contract!Commission
      BY <1>2, <2>3, <3>2, <3>3, <3>4 DEF Contract!Commission, Begun, Outcomes
    <3> QED
      BY <3>5 DEF Contract!EffectsNext
  <2> QED
    BY <2>4, <2>5
<1> QED
  BY <1>3, <1>4
LEMMA RunControlImplements == ASSUME StepInv, RecordInv, RunControl PROVE Contract!EffectsNext
<1>1. PICK w : w = Current
  OBVIOUS
<1>2. PICK events : events = IF w.kind = "emit" THEN <<Event("emit")>> ELSE <<>>
  OBVIOUS
<1>3. PICK recs : recs = events \o <<Finish(w, "completed")>>
  OBVIOUS
<1>4. /\ log \in Seq(LogRecord) /\ LogOK /\ InControl /\ ~Finished(w)
      /\ UNCHANGED performed /\ Appended(recs)
  BY <1>1, <1>2, <1>3 DEF RunControl, StepInv, ShapeOK, RecordInv, world
<1>5. w \in Work /\ Prepped(w) /\ ~Acting(w)
  BY <1>1, <1>4, InControlIs DEF Acting, ControlKinds
<1>6. Ends(recs, w, "completed")
  <2>1. "emit" \in Events
    BY StepAssumption DEF Kinds, ControlKinds
  <2>2. OnlyEvents(events)
    BY <1>2, <2>1, SomeEvents
  <2> QED
    BY <1>3, <1>5, <2>2, EndsIs
<1> QED
  BY <1>4, <1>5, <1>6, Settling

(* The only outcome of one append.                                         *)
LEMMA EndsAlone ==
    ASSUME NEW w \in Work, NEW s \in {"completed", "failed", "unknown"}
    PROVE  Ends(<<Finish(w, s)>>, w, s)
<1>1. PICK end \in LogRecord : end = Finish(w, s)
  BY DEF Finish, LogRecord
<1>2. PICK recs : recs = <<end>>
  OBVIOUS
<1>3. Ends(recs, w, s)
  BY <1>1, <1>2 DEF Ends
<1> QED
  BY <1>1, <1>2, <1>3

LEMMA TimerFailsImplements == ASSUME StepInv, RecordInv, TimerFails PROVE Contract!EffectsNext
<1>1. PICK w : w = Current
  OBVIOUS
<1>2. PICK recs : recs = <<Finish(w, "failed")>>
  OBVIOUS
<1>3. /\ log \in Seq(LogRecord) /\ LogOK /\ InControl /\ ~Finished(w)
      /\ UNCHANGED performed /\ Appended(recs)
  BY <1>1, <1>2 DEF TimerFails, StepInv, ShapeOK, RecordInv, world
<1>4. w \in Work /\ Prepped(w) /\ ~Acting(w)
  BY <1>1, <1>3, InControlIs DEF Acting, ControlKinds
<1>5. Ends(recs, w, "failed")
  BY <1>2, <1>4, EndsAlone
<1>6. ~Acted(w)
  BY <1>4 DEF RecordInv, WorldOK, Acted
<1> QED
  BY <1>3, <1>4, <1>5, <1>6, Settling

LEMMA FinishFromReceiptImplements ==
    ASSUME StepInv, RecordInv, FinishFromReceipt
    PROVE  Contract!EffectsNext
<1>1. PICK w : w = Current
  OBVIOUS
<1>2. PICK recs : recs = <<Event(w.kind), Finish(w, "completed")>>
  OBVIOUS
<1>3. /\ log \in Seq(LogRecord) /\ LogOK /\ Classifying /\ ~Finished(w) /\ w \in receipts
      /\ UNCHANGED performed /\ Appended(recs)
  BY <1>1, <1>2 DEF FinishFromReceipt, Interrupted, StepInv, ShapeOK, RecordInv, world
<1>4. w \in Work /\ Prepped(w)
  BY <1>1, <1>3, ClassifyingIs
<1>5. Ends(recs, w, "completed")
  BY <1>2, <1>4, EventThenEnd
<1>6. Acted(w)
  BY <1>3 DEF RecordInv, WorldOK
<1> QED
  BY <1>3, <1>4, <1>5, <1>6, Settling

LEMMA FinishUnknownImplements ==
    ASSUME StepInv, RecordInv, FinishUnknown
    PROVE  Contract!EffectsNext
<1>1. PICK w : w = Current
  OBVIOUS
<1>2. PICK recs : recs = <<Finish(w, "unknown")>>
  OBVIOUS
<1>3. /\ log \in Seq(LogRecord) /\ LogOK /\ Classifying /\ ~Finished(w)
      /\ UNCHANGED performed /\ Appended(recs)
  BY <1>1, <1>2 DEF FinishUnknown, StepInv, ShapeOK, RecordInv, world
<1>4. w \in Work /\ Prepped(w)
  BY <1>1, <1>3, ClassifyingIs
<1>5. Ends(recs, w, "unknown")
  BY <1>2, <1>4, EndsAlone
<1> QED
  BY <1>3, <1>4, <1>5, Settling

LEMMA LaunchImplements ==
    ASSUME StepInv, RecordInv, Launch
    PROVE  UNCHANGED Contract!effectVars
<1>1. /\ At("launch") /\ worker.left # <<>> /\ log \in Seq(LogRecord) /\ LogOK
      /\ UNCHANGED performed
  BY DEF Launch, Launching, StepInv, ShapeOK, RecordInv, world
<1>2. PICK w \in Work : w = Current
  BY <1>1, LaunchingIs, Tails DEF Current
<1>3. Prepped(w)
  <2>1. w \in Elements(worker.left)
    BY <1>1, <1>2, LaunchingIs, HeadAndTail DEF Current
  <2> QED
    BY <1>1, <2>1, LaunchingIs
<1>4. PICK recs : recs = IF Continues(w) THEN <<>> ELSE <<Start(w)>>
  OBVIOUS
<1>5. Appended(recs)
  BY <1>2, <1>4 DEF Launch
<1>6. /\ LogOK'
      /\ \A c \in Records("event") : Works(c)' = Works(c)
      /\ \A i \in Records("finished") : i \in Records("finished")' /\ log'[i] = log[i]
      /\ \A i \in Records("finished")' : i \in Records("finished") /\ log'[i] = log[i]
      /\ \A seq : Prepared(seq)' <=> Prepared(seq)
      /\ \A seq : Complete(seq)' <=> Complete(seq)
  BY <1>1, <1>3, <1>4, <1>5, Starting
<1>7. Begun' = Begun /\ Steps("completed")' = Steps("completed")
  BY <1>1, <1>6, StepsKept
<1>8. Outcomes' = Outcomes
  BY <1>6 DEF Outcomes
<1> QED
  BY <1>1, <1>7, <1>8 DEF Contract!effectVars, Begun, Outcomes

LEMMA FinishCallImplements == ASSUME StepInv, RecordInv, FinishCall PROVE Contract!EffectsNext
<1>1. /\ At("finish") /\ worker.left # <<>> /\ Returned
      /\ log \in Seq(LogRecord) /\ LogOK /\ UNCHANGED performed
  BY DEF FinishCall, StepInv, ShapeOK, RecordInv, world
<1>2. PICK w \in Work : w = Current
  BY <1>1, FinishingIs, Tails DEF Current
<1>3. PICK how : how = calls[w]
  OBVIOUS
<1>4. PICK s : s = StatusOf(how)
  OBVIOUS
<1>5. PICK events : events = EventsOf(w, how)
  OBVIOUS
<1>6. PICK recs : recs = events \o <<Finish(w, s)>>
  OBVIOUS
<1>7. Appended(recs)
  BY <1>2, <1>3, <1>4, <1>5, <1>6 DEF FinishCall
<1>8. w \in Elements(worker.left)
  BY <1>1, <1>2, FinishingIs, HeadAndTail DEF Current
<1>9. w \in DOMAIN calls /\ ~Finished(w) /\ Prepped(w) /\ how \in {"ok", "refused", "lost"}
  BY <1>1, <1>3, <1>8, FinishingIs DEF Untouched, Elements, RecordInv, CallsOK, Returned
<1>10. /\ how = "ok" => s = "completed"
       /\ how = "refused" => s = "failed"
       /\ how = "lost" => s = "unknown"
  BY <1>4 DEF StatusOf
<1>11. Ends(recs, w, s)
  <2>1. w.kind \in Events /\ "agent.failed" \in Events
    BY <1>2, StepAssumption DEF Work
  <2>2. OnlyEvents(events)
    BY <1>5, <2>1, SomeEvents DEF EventsOf
  <2> QED
    BY <1>6, <1>9, <1>10, <2>2, EndsIs
<1>12. s = "completed" /\ Acting(w) => Acted(w)
  BY <1>3, <1>9, <1>10 DEF RecordInv, CallsOK
<1>13. s = "failed" => ~Acted(w) \/ w.kind = "keyed"
  <2>1. CASE w.kind = "tool"
    BY <1>3, <1>9, <1>10, <2>1 DEF RecordInv, CallsOK, Tokens, Acted
  <2>2. CASE ~Acting(w)
    BY <2>2 DEF RecordInv, WorldOK, Acted
  <2> QED
    BY <2>1, <2>2 DEF Acting
<1> QED
  BY <1>1, <1>7, <1>9, <1>10, <1>11, <1>12, <1>13, Settling

LEMMA EndStepImplements ==
    ASSUME StepInv, RecordInv, EndStep
    PROVE  Contract!EffectsNext \/ UNCHANGED Contract!effectVars
<1>1. PICK seq : seq = worker.source
  OBVIOUS
<1>2. /\ worker.pc = "complete" /\ log \in Seq(LogRecord) /\ LogOK /\ UNCHANGED performed
      /\ Appended(<<CompleteStep(seq)>>)
  BY <1>1 DEF EndStep, StepInv, ShapeOK, RecordInv, At, world
<1>3. /\ seq \in NextAfter(Cursor) /\ (\A w \in Works(seq) : Prepped(w) /\ Finished(w))
      /\ Unknown = {} /\ seq \in Records("event")
  BY <1>1, <1>2 DEF RecordInv, DeskOK, HaltOK, InStep, NextAfter
<1>4. /\ LogOK' /\ Records("event")' = Records("event")
      /\ \A c \in Records("event") : Works(c)' = Works(c)
      /\ \A i \in Records("finished") : i \in Records("finished")' /\ log'[i] = log[i]
      /\ \A i \in Records("finished")' : i \in Records("finished") /\ log'[i] = log[i]
      /\ \A c : Prepared(c)' <=> Prepared(c)
      /\ \A c : Complete(c)' <=> Complete(c) \/ c = seq
      /\ ~Complete(seq)
  BY <1>2, <1>3, Completing
<1>5. Outcomes' = Outcomes
  BY <1>4 DEF Outcomes
<1>6. /\ \A c \in Steps("prepared") : c \in Records("event")
      /\ \A c : Complete(c) => c \in Records("event")
  BY <1>2 DEF Complete, LogOK, Steps
<1>7. Begun' = Begun
  <2>1. Steps("prepared")' = Steps("prepared")
    BY <1>4 DEF Steps
  <2> QED
    BY <1>4, <1>6, <2>1 DEF Begun
<1>8. \A c : c \in Steps("completed")' <=> c \in Records("event") /\ Works(c) # {} /\ Complete(c)'
  BY <1>4 DEF Steps
<1>9. CASE Works(seq) = {}
  <2>1. Steps("completed")' = Steps("completed")
    BY <1>2, <1>4, <1>6, <1>8, <1>9, StepsAre
  <2> QED
    BY <1>2, <1>5, <1>7, <2>1 DEF Contract!effectVars, Begun, Outcomes
<1>10. CASE Works(seq) # {}
  <2>1. Steps("completed")' = Steps("completed") \cup {seq}
    BY <1>2, <1>3, <1>4, <1>6, <1>8, <1>10, StepsAre
  <2>2. PICK step : step = [step |-> seq, works |-> Works(seq)]
    OBVIOUS
  <2>3. step.step = seq /\ step.works = Works(seq)
    BY <2>2
  <2>4. step \in Begun
    <3>1. PICK w \in Works(seq) : Prepped(w)
      BY <1>3, <1>10
    <3>2. w.source = seq
      BY <3>1, WorksOf
    <3>3. PICK i \in Records("prepared") : log[i].work = w
      BY <3>1 DEF Prepped
    <3>4. Prepared(seq)
      BY <3>2, <3>3 DEF Prepared
    <3>5. seq \in Steps("prepared")
      BY <1>2, <3>4, StepsAre
    <3> QED
      BY <2>2, <3>5 DEF Begun
  <2>5. step.step \notin Steps("completed")
    BY <1>2, <1>4, <2>3, StepsAre
  <2>6. \A w \in step.works : Contract!Settled(w) /\ <<w, "unknown">> \notin Outcomes
    BY <1>2, <1>3, <2>3, SettledIs
  <2>7. Contract!Close
    BY <1>2, <1>5, <1>7, <2>1, <2>3, <2>4, <2>5, <2>6 DEF Contract!Close, Begun, Outcomes
  <2> QED
    BY <2>7 DEF Contract!EffectsNext
<1> QED
  BY <1>9, <1>10
LEMMA PerformImplements ==
    ASSUME StepInv, RecordInv, NEW u \in DOMAIN calls, Perform(u)
    PROVE  Contract!EffectsNext
<1>1. /\ log \in Seq(LogRecord) /\ LogOK /\ UNCHANGED log
      /\ calls[u] = "running" /\ Acting(u) /\ performed' = performed \cup {<<u, attempt>>}
  BY DEF StepInv, ShapeOK, RecordInv, Perform
<1>2. /\ attempt \in 1..MaxAttempts /\ Prepped(u) /\ ~Finished(u)
      /\ u.kind = "tool" => ~Acted(u)
  BY <1>1, CallingIs DEF Tokens, Acted
<1>3. u \in Contract!Commissioned /\ ~Contract!Settled(u) /\ (Contract!Acted(u) <=> Acted(u))
  BY <1>1, <1>2, CommissionedIs, SettledIs, WhatTheContractSees
<1>4. Begun' = Begun /\ Steps("completed")' = Steps("completed") /\ Outcomes' = Outcomes
  BY <1>1, Still, StepsKept DEF Outcomes
<1>5. Contract!Act(u, attempt)
  BY <1>1, <1>2, <1>3, <1>4 DEF Contract!Act, Begun, Outcomes, Acting
<1> QED
  BY <1>2, <1>3, <1>5 DEF Contract!EffectsNext

LEMMA OrphanActsImplements ==
    ASSUME StepInv, RecordInv, NEW o \in orphans, OrphanActs(o[1], o[2])
    PROVE  Contract!EffectsNext
<1>1. /\ log \in Seq(LogRecord) /\ LogOK /\ UNCHANGED log
      /\ performed' = performed \cup {<<o[1], o[2]>>}
  BY DEF StepInv, ShapeOK, RecordInv, OrphanActs
<1>2. /\ o[2] \in 1..MaxAttempts /\ Prepped(o[1]) /\ Acting(o[1])
      /\ o[1].kind = "tool" => ~Acted(o[1])
      /\ o[1].kind = "tool" =>
            \A i \in Records("finished") : log[i].work = o[1] => log[i].status = "unknown"
  BY DEF RecordInv, WorldOK
<1>3. o[1] \in Contract!Commissioned /\ (Contract!Acted(o[1]) <=> Acted(o[1]))
  BY <1>1, <1>2, CommissionedIs, WhatTheContractSees
<1>4. o[1].kind = "tool" => ~Contract!Settled(o[1]) \/ <<o[1], "unknown">> \in Outcomes
  <2>1. o[1].kind = "tool" /\ Finished(o[1]) => o[1] \in Unknown
    BY <1>2 DEF Finished, Unknown
  <2> QED
    BY <1>1, <2>1, SettledIs
<1>5. Begun' = Begun /\ Steps("completed")' = Steps("completed") /\ Outcomes' = Outcomes
  BY <1>1, Still, StepsKept DEF Outcomes
<1>6. Contract!Act(o[1], o[2])
  BY <1>1, <1>2, <1>3, <1>4, <1>5 DEF Contract!Act, Begun, Outcomes, Acting
<1> QED
  BY <1>2, <1>3, <1>6 DEF Contract!EffectsNext

LEMMA EffectsInitial == StepInit => Contract!EffectsInit
<1> SUFFICES ASSUME StepInit PROVE Contract!EffectsInit
  OBVIOUS
<1>1. PICK first : first = Event("run.started")
  OBVIOUS
<1>2. first.type = "event" /\ log = <<first>> /\ DOMAIN log = {1} /\ log[1] = first
  BY <1>1 DEF StepInit, Event
<1>3. Records("prepared") = {} /\ Records("finished") = {} /\ Records("completed") = {}
  BY <1>2 DEF Records
<1>4. Steps("prepared") = {} /\ Steps("completed") = {} /\ Outcomes = {} /\ Begun = {}
  BY <1>3 DEF Steps, Prepared, Complete, Outcomes, Begun
<1>5. performed = {}
  BY DEF StepInit
<1> QED
  BY <1>4, <1>5 DEF Contract!EffectsInit, Begun, Outcomes

LEMMA EffectsStep ==
    StepInv /\ RecordInv /\ [StepNext]_stepVars => [Contract!EffectsNext]_(Contract!effectVars)
<1> SUFFICES ASSUME StepInv, RecordInv, [StepNext]_stepVars
             PROVE  Contract!EffectsNext \/ UNCHANGED Contract!effectVars
  OBVIOUS
<1>1. LogOK
  BY DEF RecordInv
<1>2. ASSUME \/ Open \/ Read \/ SkipControl \/ ControlDone
             \/ SkipFinished \/ WillRun \/ Classified
             \/ Register \/ LaunchFails \/ Launched \/ EndCalls \/ Checkpoint
      PROVE  UNCHANGED Contract!effectVars
  <2>1. UNCHANGED <<log, performed>>
    BY <1>2 DEF Open, Read, SkipControl, ControlDone, SkipFinished, WillRun, Classified,
                Register, LaunchFails, Launched, EndCalls, Checkpoint, world
  <2> QED
    BY <1>1, <2>1, NothingHappens
<1>3. CASE WorkerNext
  BY <1>2, <1>3, PrepareImplements, RunControlImplements, FinishFromReceiptImplements,
     FinishUnknownImplements, LaunchImplements, FinishCallImplements, EndStepImplements
  DEF WorkerNext
<1>4. ASSUME NEW w \in DOMAIN calls, CallNext(w)
      PROVE  Contract!EffectsNext \/ UNCHANGED Contract!effectVars
  <2>1. CASE Answer(w) \/ Refuse(w) \/ Lose(w)
    <3>1. UNCHANGED <<log, performed>>
      BY <2>1 DEF Answer, Refuse, Lose, world
    <3> QED
      BY <1>1, <3>1, NothingHappens
  <2> QED
    BY <1>4, <2>1, PerformImplements DEF CallNext
<1>5. ASSUME NEW o \in orphans, OrphanActs(o[1], o[2])
      PROVE  Contract!EffectsNext
  BY <1>5, OrphanActsImplements
<1>6. CASE TimerFails
  BY <1>6, TimerFailsImplements
<1>7. CASE Crash \/ UNCHANGED stepVars
  <2>1. UNCHANGED <<log, performed>>
    BY <1>7 DEF Crash, stepVars, world
  <2> QED
    BY <1>1, <2>1, NothingHappens
<1> QED
  BY <1>3, <1>4, <1>5, <1>6, <1>7 DEF StepNext

(* What Loop.run and RunStep do with their records, through crashes, lost  *)
(* calls and other workers, is what Effects promises: an effect acts only  *)
(* after its manifest and before its outcome is known, one that cannot be  *)
(* repeated acts once, outcomes are decided once and honestly, and a step  *)
(* is closed, with known outcomes, before the next is begun.               *)
THEOREM ExecutionImplementsEffects == StepSpec => ImplementsEffects
<1>1. StepInit => Contract!EffectsInit
  BY EffectsInitial
<1>2. StepInv /\ RecordInv /\ [StepNext]_stepVars => [Contract!EffectsNext]_(Contract!effectVars)
  BY EffectsStep
<1> QED
  BY <1>1, <1>2, RecordsAgree, PTL DEF StepSpec, ImplementsEffects, Contract!EffectsSpec
=============================================================================
