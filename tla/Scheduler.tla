------------------------------ MODULE Scheduler -----------------------------
(***************************************************************************)
(* The trigger schedulers of arxi: `arxi trigger run` processes that share *)
(* one trigger directory and one coordination store.                       *)
(*                                                                         *)
(* A process lists the trigger records, decides which nominal slots are    *)
(* due (trigger.Due), settles each slot against the coordination store     *)
(* (Scheduler.tickDurable, admitSlot), publishes and claims the admitted   *)
(* job (selfRunner.startRun) and writes the record back (recordFiring).    *)
(* The claimed job is driven by a resident worker that heartbeats and      *)
(* finalizes it.  A process may die between any two of these calls; the    *)
(* next one starts by resuming what the store says was accepted            *)
(* (RecoverAccepted).                                                      *)
(*                                                                         *)
(* The store is module JobStore, whose actions are the calls made here.    *)
(* Every call names the revision it read.  A call made right after the     *)
(* view it compares with is one step that either sees the current state or *)
(* is Refused: the store is shared with every job of the directory, so     *)
(* another commit may always come between.  A call that continues a chain  *)
(* of revisions succeeds only while the process is in "fresh".             *)
(*                                                                         *)
(* Abstractions.  A nominal slot is the tick of the clock it falls on, the *)
(* occurrence of trigger t at slot s is <<t, s>>, and a scheduled job is   *)
(* named by its occurrence.  Event triggers and subprocess actions never   *)
(* reach the store.                                                        *)
(***************************************************************************)
EXTENDS JobStore

CONSTANTS
    Triggers,       \* trigger names
    Slots,          \* nominal instants of the schedule
    Schedulers,     \* scheduler processes, one per owner identity
    Overlaps,       \* overlap policies a trigger may be configured with
    MissedPolicies, \* on-missed policies a trigger may be configured with
    FirstCursors,   \* cursors a trigger may start with: 0 once it fired, or Never
    RunOutcomes,    \* outcomes a run may end with
    Budget,         \* the budget of a trigger: its ceiling and its reservation
    MissedCap,      \* owed slots one decision looks at
    MaxFaults      \* bound: processes that die, runs that cannot be started, records
                    \* that cannot be written

Never == -1

ASSUME ScheduleAssumption ==
    /\ FirstCursors \subseteq {Never, 0}
    /\ Slots \subseteq Nat \ {0}
    /\ Occurrences = Triggers \X Slots
    /\ \A o \in Occurrences : JobFor[o] = o
    /\ SubmissionKeys = Occurrences
    /\ Overlaps \subseteq {"skip", "queue", "parallel", "cancel-previous"}
    /\ MissedPolicies \subseteq {"skip", "run-once", "run-all"}
    /\ RunOutcomes \subseteq Outcomes
    /\ Budget \in Ceilings \cap Amounts
    /\ MissedCap \in Nat \ {0} /\ MaxFaults \in Nat

VARIABLES
    records,        \* trigger -> its record in the trigger directory
    ticks,          \* process -> the pass it is making
    fresh,          \* processes whose last revision is still the store's
    executions,     \* process -> jobs in its in-memory execution registry
    workers,        \* process -> job -> attempt its resident worker holds, 0 for none
    published,      \* jobs whose run directory is published
    faults         \* bound: how many of these faults happened

processVars == <<ticks, fresh, executions, workers, faults>>
schedulerVars == <<storeVars, processVars, records, published>>

Idle == [pc |-> "idle"]
Down == [pc |-> "down"]

SchedulerInit ==
    /\ StoreInit
    /\ records \in [Triggers -> [cursor : FirstCursors,
                                 overlap : Overlaps, onMissed : MissedPolicies]]
    /\ ticks = [p \in Schedulers |-> Down]
    /\ fresh = {}
    /\ executions = [p \in Schedulers |-> {}]
    /\ workers = [p \in Schedulers |-> [j \in Jobs |-> 0]]
    /\ published = {}
    /\ faults = 0

-----------------------------------------------------------------------------
(* trigger.Due: the slots to run and the slots to pass over.  A trigger    *)
(* that never fired runs once, at the latest slot due, whatever its policy.*)

NothingDue == [run |-> {}, skip |-> {}]

OwedSlots(r, at) ==
    LET due == {s \in Slots : r.cursor < s /\ s <= at}
    IN {s \in due : Cardinality({u \in due : u < s}) < MissedCap}

Due(r, at) ==
    LET owed == OwedSlots(r, at)
    IN IF owed = {} THEN NothingDue
       ELSE IF r.cursor = Never THEN [run |-> {Max(owed)}, skip |-> {}]
       ELSE CASE r.onMissed = "run-all"  -> [run |-> owed, skip |-> {}]
              [] r.onMissed = "run-once" -> [run |-> {Max(owed)}, skip |-> owed \ {Max(owed)}]
              [] OTHER -> IF Cardinality(owed) = 1 THEN [run |-> owed, skip |-> {}]
                                                   ELSE [run |-> {}, skip |-> owed]

(* activeJobs: admitted occurrences of the trigger whose job is not over.  *)
ActiveJobs_InProcess(p, t) ==
    {j \in executions[p] : j[1] = t /\ jobs[j].state \notin JobTerminal}

ActiveJobs(p, t) ==
    {o \in Occurrences : /\ o[1] = t
                         /\ occurrences[o] = "admitted"
                         /\ jobs[o].state \notin JobTerminal}

-----------------------------------------------------------------------------
(* The pass of one process.                                                *)

Goes(p, tick) == ticks' = [ticks EXCEPT ![p] = tick]

(* After a commit no other process holds the current revision; the one that*)
(* committed is kept in "fresh" only where a chain of calls goes on.       *)
CommittedBy(p) == fresh' = {p}
OthersStale    == fresh' = {}
ChainEnds(p)   == fresh' = fresh \ {p}

(* The slot being settled, and the pass once it is settled or given up: an *)
(* error leaves the loop over the slots.                                   *)
Current(p)  == <<ticks[p].trigger, Min(ticks[p].run)>>
NextSlot(p) == [ticks[p] EXCEPT !.pc = "visit", !.run = @ \ {Min(@)}]
Attended(p) == [NextSlot(p) EXCEPT !.attended = TRUE]
GivenUp(p)  == [ticks[p] EXCEPT !.pc = "visit", !.run = {}]

UnchangedStore == UNCHANGED storeVars

(* Tick: reap what ended, list the records and visit them one by one.  Due *)
(* depends on the listed record and the instant of the tick alone, so it   *)
(* is decided here; a record with nothing due is not visited.              *)
BeginTick(p) ==
    LET due == {t \in Triggers : Due(records[t], now) # NothingDue}
    IN /\ ticks[p].pc = "idle" /\ due # {}
       /\ Goes(p, [pc |-> "list", left |-> due, seen |-> [t \in due |-> records[t]],
                   due |-> [t \in due |-> Due(records[t], now)]])
       /\ executions' = [executions EXCEPT ![p] = {j \in @ : workers[p][j] # 0}]
       /\ UNCHANGED <<storeVars, fresh, workers, faults, records, published>>

Visit(p) ==
    /\ ticks[p].pc = "list"
    /\ \E t \in ticks[p].left :
          LET d == ticks[p].due[t]
          IN /\ Goes(p, [pc |-> "visit", left |-> ticks[p].left \ {t},
                         seen |-> ticks[p].seen, due |-> ticks[p].due,
                         trigger |-> t, run |-> d.run, skip |-> d.skip, attended |-> FALSE])
             /\ fresh' = IF d.skip = {} THEN fresh ELSE fresh \cup {p}
    /\ UNCHANGED <<storeVars, executions, workers, faults, records, published>>

(* A slot passed over is recorded as skipped, at the revision the pass     *)
(* started from or the one the previous record returned.  An occurrence    *)
(* that is already admitted, or was skipped for the same reason, is        *)
(* answered as done; anything else ends the loop.                          *)
PassOver(p) ==
    LET s == Min(ticks[p].skip)
        o == <<ticks[p].trigger, s>>
        passed == [ticks[p] EXCEPT !.skip = @ \ {s}, !.attended = TRUE]
    IN /\ ticks[p].pc = "visit" /\ ticks[p].skip # {}
       /\ \/ /\ p \in fresh
             /\ RecordOccurrence(o, "skipped")
             /\ IF passed.skip = {} THEN OthersStale ELSE CommittedBy(p)
             /\ Goes(p, passed)
          \/ /\ p \in fresh /\ occurrences[o] \in {"admitted", "skipped"}
             /\ UnchangedStore
             /\ Goes(p, passed)
             /\ IF passed.skip = {} THEN ChainEnds(p) ELSE UNCHANGED fresh
          \/ /\ p \notin fresh \/ occurrences[o] \notin {"none", "admitted"}
             /\ UnchangedStore
             /\ Goes(p, [ticks[p] EXCEPT !.skip = {}])
             /\ ChainEnds(p)
       /\ UNCHANGED <<executions, workers, faults, records, published>>

Settling(p) == ticks[p].pc = "visit" /\ ticks[p].skip = {} /\ ticks[p].run # {}

(* admitSlot, an occurrence already decided: an admitted one is started    *)
(* and counts as attended whatever comes of that.                          *)
ObserveSlot(p) ==
    /\ Settling(p)
    /\ \/ /\ occurrences[Current(p)] = "admitted"
          /\ Goes(p, [ticks[p] EXCEPT !.pc = "start", !.attended = TRUE])
       \/ /\ occurrences[Current(p)] = "skipped"
          /\ Goes(p, Attended(p))
    /\ UNCHANGED <<storeVars, fresh, executions, workers, faults, records, published>>

Undecided(p) == Settling(p) /\ occurrences[Current(p)] \notin {"admitted", "skipped"}

Busy(p) == ActiveJobs(p, ticks[p].trigger) # {}
PolicyOf(p) == ticks[p].seen[ticks[p].trigger].overlap

SkipSlot(p) ==
    /\ Undecided(p) /\ Busy(p) /\ PolicyOf(p) = "skip"
    /\ RecordOccurrence(Current(p), "skipped")
    /\ OthersStale
    /\ Goes(p, Attended(p))
    /\ UNCHANGED <<executions, workers, faults, records, published>>

QueueSlot(p) ==
    /\ Undecided(p) /\ Busy(p) /\ PolicyOf(p) = "queue"
    /\ \/ RecordOccurrence(Current(p), "pending") /\ OthersStale
       \/ occurrences[Current(p)] = "pending" /\ UnchangedStore /\ UNCHANGED fresh
    /\ Goes(p, NextSlot(p))
    /\ UNCHANGED <<executions, workers, faults, records, published>>

(* cancel-previous: the intent is recorded for every active job, and only  *)
(* then the slot is admitted, in one chain of revisions.                   *)
ToCancel(p) ==
    IF PolicyOf(p) = "cancel-previous"
    THEN {j \in ActiveJobs(p, ticks[p].trigger) : ~jobs[j].cancelled} ELSE {}

CancelActive(p) ==
    /\ \/ Undecided(p)
       \/ ticks[p].pc = "replace" /\ p \in fresh
    /\ \E j \in ToCancel(p) : Cancel(j)
    /\ CommittedBy(p)
    /\ Goes(p, [ticks[p] EXCEPT !.pc = "replace"])
    /\ UNCHANGED <<executions, workers, faults, records, published>>

AdmitSlot(p) ==
    /\ Undecided(p) \/ (ticks[p].pc = "replace" /\ p \in fresh)
    /\ Busy(p) => PolicyOf(p) \in {"parallel", "cancel-previous"}
    /\ ToCancel(p) = {}
    /\ Admit(Current(p), Budget, Budget)
    /\ OthersStale
    /\ Goes(p, [ticks[p] EXCEPT !.pc = "start"])
    /\ UNCHANGED <<executions, workers, faults, records, published>>

(* A settlement the store refuses, for its revision or for its content (an *)
(* exhausted window, an occurrence that is already over): the error ends   *)
(* the loop over the slots.                                                *)
Refused(p) ==
    /\ Undecided(p) \/ ticks[p].pc = "replace"
    /\ Goes(p, GivenUp(p))
    /\ ChainEnds(p)
    /\ UNCHANGED <<storeVars, executions, workers, faults, records, published>>

-----------------------------------------------------------------------------
(* startAccepted: bind the submission, publish the run, claim the job and  *)
(* open its worker.  A job the process already runs is left alone.         *)

AlreadyRunning(p) ==
    /\ ticks[p].pc = "start" /\ Current(p) \in executions[p]
    /\ Goes(p, Attended(p))
    /\ UNCHANGED <<storeVars, fresh, executions, workers, faults, records, published>>

BindJob(p) ==
    /\ ticks[p].pc = "start" /\ Current(p) \notin executions[p]
    /\ \/ /\ \E d \in Digests : BindSubmission(Current(p), d, Current(p))
          /\ OthersStale
       \/ /\ submissions[Current(p)].bound
          /\ UnchangedStore
          /\ UNCHANGED fresh
    /\ Goes(p, [ticks[p] EXCEPT !.pc = "publish"])
    /\ UNCHANGED <<executions, workers, faults, records, published>>

PublishJob(p) ==
    /\ ticks[p].pc = "publish"
    /\ published' = published \cup {Current(p)}
    /\ Goes(p, [ticks[p] EXCEPT !.pc = "claim"])
    /\ UNCHANGED <<storeVars, fresh, executions, workers, faults, records>>

(* The run directory has one writer: while another process still drives    *)
(* the run, opening it fails after the claim was granted.                  *)
RunIsOpen(p, j) == \E q \in Schedulers : workers[q][j] # 0

Employ(p, j) ==
    /\ workers' = [workers EXCEPT ![p][j] = jobs'[j].attempt]
    /\ executions' = [executions EXCEPT ![p] = @ \cup {j}]

ClaimJob(p) ==
    LET j == Current(p)
    IN /\ ticks[p].pc = "claim"
       /\ Claim(j)
       /\ OthersStale
       /\ \/ /\ ~RunIsOpen(p, j)
             /\ Employ(p, j)
             /\ Goes(p, Attended(p))
          \/ /\ RunIsOpen(p, j)
             /\ Goes(p, GivenUp(p))
             /\ UNCHANGED <<executions, workers>>
       /\ UNCHANGED <<faults, records, published>>

(* A start that fails ends the loop too; a slot that was admitted just now *)
(* does not count as attended.                                             *)
StartFails(p) ==
    /\ ticks[p].pc \in {"start", "publish", "claim"}
    /\ \/ faults < MaxFaults /\ faults' = faults + 1
       \/ ticks[p].pc = "claim" /\ ~Claimable(Current(p)) /\ UNCHANGED faults
    /\ Goes(p, GivenUp(p))
    /\ UNCHANGED <<storeVars, fresh, executions, workers, records, published>>

(* recordFiring: the whole record listed at the start of the tick is       *)
(* written back, its cursor at the latest slot of the decision.            *)
CursorOf(p) ==
    LET d == ticks[p].due[ticks[p].trigger] IN Max(d.run \cup d.skip)

Decided(p) == ticks[p].pc = "visit" /\ ticks[p].skip = {} /\ ticks[p].run = {}

NextTrigger(p) ==
    Goes(p, IF ticks[p].left = {} THEN Idle
            ELSE [pc |-> "list", left |-> ticks[p].left, seen |-> ticks[p].seen,
                  due |-> ticks[p].due])

RecordFiring(p) ==
    LET t == ticks[p].trigger
    IN /\ Decided(p) /\ ticks[p].attended
       /\ records' = [records EXCEPT ![t] = [ticks[p].seen[t] EXCEPT !.cursor = CursorOf(p)]]
       /\ NextTrigger(p)
       /\ UNCHANGED <<storeVars, fresh, executions, workers, faults, published>>

(* Nothing was attended, or the record could not be written.               *)
LeaveRecord(p) ==
    /\ Decided(p)
    /\ ticks[p].attended => faults < MaxFaults
    /\ faults' = IF ticks[p].attended THEN faults + 1 ELSE faults
    /\ NextTrigger(p)
    /\ UNCHANGED <<storeVars, fresh, executions, workers, records, published>>

-----------------------------------------------------------------------------
(* Resident workers.                                                       *)

WorkerHeartbeat(p, j) ==
    /\ workers[p][j] # 0
    /\ Heartbeat(j, workers[p][j], workers[p][j])
    /\ OthersStale
    /\ UNCHANGED <<ticks, executions, workers, faults, records, published>>

(* A worker ends without an outcome when a heartbeat or the finalization   *)
(* is refused; its claim is left to run out.                               *)
WorkerStops(p, j) ==
    /\ workers[p][j] # 0
    /\ workers' = [workers EXCEPT ![p][j] = 0]
    /\ UNCHANGED <<storeVars, ticks, fresh, executions, faults, records, published>>

WorkerFinishes(p, j) ==
    /\ workers[p][j] # 0
    /\ Finalize(j, workers[p][j], workers[p][j])
    /\ occurrences'[j] # "admitted" /\ jobs'[j].state \in RunOutcomes
    /\ workers' = [workers EXCEPT ![p][j] = 0]
    /\ OthersStale
    /\ UNCHANGED <<ticks, executions, faults, records, published>>

-----------------------------------------------------------------------------
(* Processes come and go.  RecoverAccepted runs once, before the first     *)
(* tick: it resumes the published jobs whose lease is not running.         *)

Recoverable_Unpublished(j) ==
    /\ occurrences[j] = "admitted" /\ jobs[j].state \notin JobTerminal
    /\ claims[j] # NoClaim => ~LeaseRuns(j)

Recoverable(j) ==
    /\ occurrences[j] = "admitted" /\ jobs[j].state \notin JobTerminal
    /\ claims[j] # NoClaim => ~LeaseRuns(j)
    /\ j \in published

Resuming(p, left) ==
    Goes(p, IF left = {} THEN Idle ELSE [pc |-> "recover", left |-> left])

Boot(p) ==
    /\ ticks[p].pc = "down"
    /\ Resuming(p, {j \in Jobs : Recoverable(j)})
    /\ UNCHANGED <<storeVars, fresh, executions, workers, faults, records, published>>

Resume(p) ==
    /\ ticks[p].pc = "recover"
    /\ \E j \in ticks[p].left :
          /\ Resuming(p, ticks[p].left \ {j})
          /\ \/ Claim(j) /\ ~RunIsOpen(p, j) /\ Employ(p, j) /\ OthersStale
             \/ /\ ~Claimable(j)
                /\ UnchangedStore
                /\ UNCHANGED <<fresh, executions, workers>>
    /\ UNCHANGED <<faults, records, published>>

(* A resumption that fails for another reason than a conflict ends the     *)
(* process.                                                                *)
RecoveryFails(p) ==
    /\ ticks[p].pc = "recover"
    /\ \E j \in ticks[p].left : Claim(j) /\ RunIsOpen(p, j)
    /\ Goes(p, Down)
    /\ executions' = [executions EXCEPT ![p] = {}]
    /\ workers' = [workers EXCEPT ![p] = [j \in Jobs |-> 0]]
    /\ OthersStale
    /\ UNCHANGED <<faults, records, published>>

Crash(p) ==
    /\ ticks[p].pc # "down" /\ faults < MaxFaults
    /\ Goes(p, Down)
    /\ executions' = [executions EXCEPT ![p] = {}]
    /\ workers' = [workers EXCEPT ![p] = [j \in Jobs |-> 0]]
    /\ fresh' = fresh \ {p}
    /\ faults' = faults + 1
    /\ UNCHANGED <<storeVars, records, published>>

(* A job outside the model commits to the store.                           *)
OtherCommit ==
    /\ fresh # {}
    /\ OthersStale
    /\ UNCHANGED <<storeVars, ticks, executions, workers, faults, records, published>>

TimePasses == Tick /\ UNCHANGED <<processVars, records, published>>

-----------------------------------------------------------------------------
PassNext(p) ==
    \/ BeginTick(p) \/ Visit(p)
    \/ PassOver(p) \/ ObserveSlot(p) \/ SkipSlot(p) \/ QueueSlot(p)
    \/ CancelActive(p) \/ AdmitSlot(p) \/ Refused(p)
    \/ AlreadyRunning(p) \/ BindJob(p) \/ PublishJob(p) \/ ClaimJob(p)
    \/ StartFails(p)
    \/ RecordFiring(p) \/ LeaveRecord(p)

WorkerNext(p, j) ==
    WorkerHeartbeat(p, j) \/ WorkerStops(p, j) \/ WorkerFinishes(p, j)

ProcessNext(p) ==
    \/ Boot(p) \/ Resume(p) \/ RecoveryFails(p) \/ Crash(p)

SchedulerNext ==
    \/ \E p \in Schedulers : PassNext(p) \/ ProcessNext(p)
    \/ \E p \in Schedulers, j \in Jobs : WorkerNext(p, j)
    \/ OtherCommit
    \/ TimePasses

(* A process keeps ticking, a worker in the end finishes its run, and a    *)
(* slot that can be settled again and again is not refused forever.        *)
Settles(p) ==
    \/ PassOver(p) /\ p \in fresh
    \/ SkipSlot(p) \/ CancelActive(p) \/ AdmitSlot(p)

Fairness ==
    /\ \A p \in Schedulers :
          /\ WF_schedulerVars(Boot(p) \/ Resume(p) \/ PassNext(p))
          /\ SF_schedulerVars(Settles(p))
          /\ WF_schedulerVars(\E j \in Jobs : WorkerFinishes(p, j))
    /\ WF_schedulerVars(TimePasses)

SchedulerSpec == SchedulerInit /\ [][SchedulerNext]_schedulerVars
FairSpec == SchedulerSpec /\ Fairness
=============================================================================
