-------------------------------- MODULE Host --------------------------------
(***************************************************************************)
(* One job of the public host (host/v1) between the processes that serve   *)
(* it: submission, the claim of an attempt and the recovery of a job whose *)
(* owner is gone (backend.go), the resident worker with its commands, wake *)
(* tokens, heartbeat and close (storage_worker.go), and the filesystem     *)
(* storage and coordination ports that cmd/arxi gives it.                  *)
(*                                                                         *)
(* The job's log is a sequence of entries.  Those of type start, ask,      *)
(* answer, cancel and end are what the run loop decides, in order; "step"  *)
(* says that the next of them was carried out, "work" that the external    *)
(* call of it was dispatched, "lost" that nobody knows what became of the  *)
(* call.  The coordination store is reduced to the job's claim, state,     *)
(* intent to cancel and checkpoint (JobStore has the whole of it).         *)
(***************************************************************************)
EXTENDS Naturals, Sequences, FiniteSets

CONSTANTS
    Hosts,          \* the host processes
    Answers,        \* commands that answer the job's question
    Cancels,        \* commands that cancel the job
    MaxWorkers,     \* bound: workers that append or are installed
    MaxAsks,        \* bound: questions the job asks
    MaxMishaps      \* bound: processes killed or closed, and leases that run out under a live worker

ASSUME HostAssumption ==
    /\ MaxWorkers \in Nat \ {0} /\ {MaxAsks, MaxMishaps} \subseteq Nat
    /\ Answers \cap Cancels = {} /\ "none" \notin Answers \cup Cancels

VARIABLES
    log,            \* the confirmed records of the job
    locker,         \* the worker whose writer is open, or 0
    claim,          \* the lease: the worker it was granted to, and whether it runs
    coord,          \* the job's state in the coordination store
    cancelRequested, \* the intent recorded there
    ckpt,           \* the worker whose attempt wrote the checkpoint, or 0
    workers,        \* worker |-> its state
    submitting,     \* the host in the middle of Submit, or "nobody"
    resident,       \* host |-> the worker in its table, or 0
    closed,         \* host |-> Close was called
    cmds,           \* command |-> its state
    mishaps         \* how many there were

hostVars == <<log, locker, claim, coord, cancelRequested, ckpt, workers, submitting, resident, closed, cmds, mishaps>>

Workers  == 1 .. MaxWorkers
Commands == Answers \cup Cancels
NoClaim  == [worker |-> 0, live |-> FALSE]

Unborn == [pc |-> "unborn", host |-> "nobody", fresh |-> FALSE, rev |-> 0, out |-> "none",
           queue |-> <<>>, wake |-> FALSE, stop |-> FALSE, helper |-> FALSE, boundary |-> FALSE, late |-> FALSE]

Gone(w) == [Unborn EXCEPT !.pc = "gone", !.host = workers[w].host]

HostInit ==
    /\ log = <<>> /\ locker = 0 /\ claim = NoClaim /\ coord = "none"
    /\ cancelRequested = FALSE /\ ckpt = 0
    /\ workers = [w \in Workers |-> Unborn] /\ submitting = "nobody"
    /\ resident = [h \in Hosts |-> 0] /\ closed = [h \in Hosts |-> FALSE]
    /\ cmds = [c \in Commands |-> [pc |-> "new", host |-> "nobody", worker |-> 0, reply |-> "none"]]
    /\ mishaps = 0

-----------------------------------------------------------------------------
(* The log and what the loop reads in it.                                  *)

Sources == {"start", "ask", "answer", "cancel", "end"}

Entry(type, w) == [type |-> type, by |-> w, cmd |-> "none"]
Of(type)       == {i \in DOMAIN log : log[i].type = type}

(* The sources up to a position of the log, and how many there are.        *)
SourcesTo(n) == {i \in 1 .. n : log[i].type \in Sources}
Rank(n)      == Cardinality(SourcesTo(n))
Decided      == SourcesTo(Len(log))
Steps        == Cardinality(Of("step"))
Ended        == Of("cancel") \cup Of("end") # {}
HasProgress  == Of("step") \cup Of("work") # {}
Unread       == Rank(Len(log)) > Steps
Next1        == log[CHOOSE i \in Decided : Rank(i) = Steps + 1].type
Asked        == Cardinality(Of("ask")) > Cardinality(Of("answer"))

(* The status of the loop's state, folded up to its cursor.                *)
EndsTaken == {i \in Of("cancel") \cup Of("end") : Rank(i) <= Steps}

Status_Succeeded == IF EndsTaken = {} THEN "running" ELSE "succeeded"

Status ==
    IF EndsTaken = {} THEN "running"
    ELSE IF \E i \in EndsTaken \cap Of("cancel") : \A j \in EndsTaken : i <= j
    THEN "cancelled" ELSE "succeeded"

(* The call of the next source was dispatched before, by this worker or by *)
(* one before it, and its result is not in the log.                        *)
Since(type) == \E i \in Of(type) : \A j \in Of("step") : j < i
Dispatched_Never == FALSE
Dispatched  == Since("work")

(* The coordination store: a live lease of an open job, and its renewal.   *)
Claimed(w) == claim = [worker |-> w, live |-> TRUE]
Open       == coord \in {"accepted", "running"}

(* The writer takes a batch from a worker with a valid claim that knows    *)
(* the log's revision.                                                     *)
Accepts(w) == Claimed(w) /\ workers[w].rev = Len(log)

(* The number of the next worker: numbers grow as attempts do.             *)
Free(w) == \A v \in w .. MaxWorkers : workers[v].pc = "unborn"
Spare   == {w \in Workers : Free(w) /\ \A v \in 1 .. w - 1 : ~Free(v)}

Alive(w)     == workers[w].pc \notin {"unborn", "gone"}
Installed(w) == workers[w].pc \in {"top", "pass", "call", "stepped", "ended", "after", "idle"}

-----------------------------------------------------------------------------
(* Submission and recovery.                                                *)

(* Submit, as far as the accepted job: it is registered and created.       *)
Submit(h) ==
    /\ log = <<>> /\ ~closed[h]
    /\ coord' = "accepted" /\ log' = <<Entry("start", 0)>> /\ submitting' = h
    /\ UNCHANGED <<locker, claim, cancelRequested, ckpt, workers, resident, closed, cmds, mishaps>>

Grant(w, h, fresh) ==
    /\ claim' = [worker |-> w, live |-> TRUE] /\ coord' = "running"
    /\ workers' = [workers EXCEPT ![w] = [Unborn EXCEPT !.pc = "claimed", !.host = h, !.fresh = fresh]]

(* The claim of the submitter, refused when somebody was faster.           *)
SubmitClaims(h) ==
    /\ submitting = h /\ submitting' = "nobody"
    /\ \/ ~claim.live /\ Open /\ \E w \in Spare : Grant(w, h, TRUE)
       \/ (claim.live \/ ~Open) /\ UNCHANGED <<claim, coord, workers>>
    /\ UNCHANGED <<log, locker, cancelRequested, ckpt, resident, closed, cmds, mishaps>>

(* recoverLoop and Wait: whoever finds a job that did not end and has no   *)
(* worker here tries to take it over.                                      *)
RecoverClaims(h) ==
    /\ log # <<>> /\ ~Ended /\ Open /\ ~closed[h] /\ resident[h] = 0 /\ ~claim.live
    /\ \E w \in Spare : Grant(w, h, FALSE)
    /\ UNCHANGED <<log, locker, cancelRequested, ckpt, submitting, resident, closed, cmds, mishaps>>

(* claimWorker gave up: the writer is closed, the claim stays taken.       *)
GivesUp(w) ==
    /\ locker' = IF locker = w THEN 0 ELSE locker
    /\ IF \E i \in DOMAIN log : log[i].by = w
       THEN workers' = [workers EXCEPT ![w] = Gone(w)] /\ UNCHANGED claim
       ELSE /\ workers' = [workers EXCEPT ![w] = Unborn]
            /\ claim' = IF claim.worker = w THEN [claim EXCEPT !.worker = 0] ELSE claim

OpenClaimedWriter(w) ==
    /\ workers[w].pc = "claimed"
    /\ \/ /\ locker = 0 /\ locker' = w
          /\ workers' = [workers EXCEPT ![w].pc = "opened"] /\ UNCHANGED claim
       \/ locker # 0 /\ GivesUp(w)
    /\ UNCHANGED <<log, coord, cancelRequested, ckpt, submitting, resident, closed, cmds, mishaps>>

(* The worker a submission starts knows its one event; a recovered one is  *)
(* built from the log, which must show progress, and puts a recorded       *)
(* intent to cancel into it first.                                         *)
LoadsFresh(w) ==
    /\ workers[w].pc = "opened" /\ workers[w].fresh
    /\ workers' = [workers EXCEPT ![w].pc = "loaded", ![w].fresh = FALSE, ![w].rev = 1]
    /\ UNCHANGED <<log, locker, claim, coord, cancelRequested, ckpt, submitting, resident, closed, cmds, mishaps>>

Loads(w) ==
    LET cancels == cancelRequested /\ ~Ended IN
    /\ workers[w].pc = "opened" /\ ~workers[w].fresh
    /\ \/ (~HasProgress \/ (cancels /\ ~Claimed(w))) /\ GivesUp(w) /\ UNCHANGED log
       \/ /\ HasProgress /\ (cancels => Claimed(w))
          /\ log' = IF cancels THEN Append(log, Entry("cancel", w)) ELSE log
          /\ workers' = [workers EXCEPT ![w].pc = "loaded", ![w].rev = Len(log')]
          /\ UNCHANGED <<locker, claim>>
    /\ UNCHANGED <<coord, cancelRequested, ckpt, submitting, resident, closed, cmds, mishaps>>

Installs(w) ==
    LET h == workers[w].host IN
    /\ workers[w].pc = "loaded"
    /\ \/ /\ ~closed[h] /\ resident[h] = 0
          /\ resident' = [resident EXCEPT ![h] = w]
          /\ workers' = [workers EXCEPT ![w].pc = "top"] /\ UNCHANGED <<locker, claim>>
       \/ (closed[h] \/ resident[h] # 0) /\ GivesUp(w) /\ UNCHANGED resident
    /\ UNCHANGED <<log, coord, cancelRequested, ckpt, submitting, closed, cmds, mishaps>>

-----------------------------------------------------------------------------
(* The resident worker: run, drainCommands, RunUntilBoundary.              *)

(* applyCommand: the events a command would append to the log as it is.    *)
Wanted(c) ==
    IF Ended THEN "none"
    ELSE IF c \in Cancels THEN "cancel"
    ELSE IF Asked THEN "answer" ELSE "none"

(* A command is judged and appended between two passes of the loop.  It    *)
(* moves the revision of the worker's record, and leaves the revision the  *)
(* loop's own log appends with where it was.                               *)
Drains_Unrefused(w) ==
    LET c  == Head(workers[w].queue)
        ok == Wanted(c) # "none"
    IN /\ workers[w].pc \in {"top", "after"} /\ workers[w].queue # <<>>
       /\ log' = IF ok /\ Claimed(w) THEN Append(log, [Entry(Wanted(c), w) EXCEPT !.cmd = c]) ELSE log
       /\ cmds' = [cmds EXCEPT ![c].reply = IF ok THEN "ok" ELSE "refused"]
       /\ workers' = [workers EXCEPT ![w].queue = Tail(@)]
       /\ UNCHANGED <<locker, claim, coord, cancelRequested, ckpt, submitting, resident, closed, mishaps>>

Drains(w) ==
    LET c  == Head(workers[w].queue)
        ok == Wanted(c) # "none" /\ Claimed(w)
    IN /\ workers[w].pc \in {"top", "after"} /\ workers[w].queue # <<>>
       /\ log' = IF ok THEN Append(log, [Entry(Wanted(c), w) EXCEPT !.cmd = c]) ELSE log
       /\ cmds' = [cmds EXCEPT ![c].reply = IF ok THEN "ok" ELSE "refused"]
       /\ workers' = [workers EXCEPT ![w].queue = Tail(@)]
       /\ UNCHANGED <<locker, claim, coord, cancelRequested, ckpt, submitting, resident, closed, mishaps>>

Moves(w, pc) ==
    /\ workers' = [workers EXCEPT ![w].pc = pc, ![w].out = "none"]
    /\ UNCHANGED <<log, locker, claim, coord, cancelRequested, ckpt, submitting, resident, closed, cmds, mishaps>>

(* A pass begins with a goroutine that turns a wake token or the stop into *)
(* the pass's boundary.                                                    *)
Begins(w) ==
    /\ workers[w].pc = "top" /\ workers[w].queue = <<>>
    /\ IF workers[w].stop THEN Moves(w, "closing")
       ELSE /\ workers' = [workers EXCEPT ![w].pc = "pass", ![w].helper = TRUE, ![w].boundary = FALSE]
            /\ UNCHANGED <<log, locker, claim, coord, cancelRequested, ckpt, submitting, resident, closed, cmds, mishaps>>

Helper(w) ==
    /\ workers[w].pc \in {"pass", "call", "stepped"} /\ workers[w].helper
    /\ workers[w].wake \/ workers[w].stop
    /\ workers' = [workers EXCEPT ![w].helper = FALSE, ![w].boundary = TRUE,
                                  ![w].wake = @ /\ workers[w].stop]
    /\ UNCHANGED <<log, locker, claim, coord, cancelRequested, ckpt, submitting, resident, closed, cmds, mishaps>>

(* The goroutine of a pass that is over, if it had not reached its select  *)
(* when the pass ended: it leaves, or takes the wake token of another.     *)
LateHelper(w) ==
    /\ Alive(w) /\ workers[w].late
    /\ \/ workers' = [workers EXCEPT ![w].late = FALSE]
       \/ workers[w].wake /\ workers' = [workers EXCEPT ![w].late = FALSE, ![w].wake = FALSE]
    /\ UNCHANGED <<log, locker, claim, coord, cancelRequested, ckpt, submitting, resident, closed, cmds, mishaps>>

(* The pass returns and lets its goroutine go.                             *)
Returns(w, out) ==
    \E late \in {workers[w].late, workers[w].late \/ workers[w].helper} :
        workers' = [workers EXCEPT ![w].pc = "ended", ![w].out = out, ![w].helper = FALSE,
                                   ![w].boundary = FALSE, ![w].late = late]

Fails(w, out) ==
    /\ Returns(w, out)
    /\ UNCHANGED <<log, ckpt>>

(* One step is in the log with what it brought about.                      *)
Carries(w, brought) ==
    /\ IF ~Accepts(w) THEN Fails(w, "error")
       ELSE /\ log' = log \o brought \o <<Entry("step", w)>>
            /\ workers' = [workers EXCEPT ![w].pc = "stepped", ![w].rev = Len(log')]
            /\ UNCHANGED ckpt

InPass(w) ==
    /\ workers[w].pc = "pass"
    /\ UNCHANGED <<locker, claim, coord, cancelRequested, submitting, resident, closed, cmds, mishaps>>

Stops(w) == InPass(w) /\ workers[w].boundary /\ Fails(w, "woken")

Terminates(w) == InPass(w) /\ ~workers[w].boundary /\ Status # "running" /\ Fails(w, "terminal")

Idles(w) == InPass(w) /\ ~workers[w].boundary /\ Status = "running" /\ ~Unread /\ Fails(w, "idle")

Works(w) == InPass(w) /\ ~workers[w].boundary /\ Status = "running" /\ Unread

(* checkpoint after every step: the store takes it from the attempt that   *)
(* wrote the one before.                                                   *)
Checkpoints(w) ==
    /\ workers[w].pc = "stepped"
    /\ IF Claimed(w) /\ ckpt \in {0, w}
       THEN ckpt' = w /\ workers' = [workers EXCEPT ![w].pc = "pass"] /\ UNCHANGED log
       ELSE Fails(w, "error")
    /\ UNCHANGED <<locker, claim, coord, cancelRequested, submitting, resident, closed, cmds, mishaps>>

(* An event without an external call.                                      *)
Plain(w) == Works(w) /\ Next1 \notin {"start", "answer"} /\ Carries(w, <<>>)

(* A call that was dispatched and has no result is not dispatched again.   *)
Unknown(w) ==
    /\ Works(w) /\ Dispatched
    /\ IF Since("lost") THEN Fails(w, "unknown")
       ELSE IF ~Accepts(w) THEN Fails(w, "error")
       ELSE log' = Append(log, Entry("lost", w)) /\ Returns(w, "unknown") /\ UNCHANGED ckpt

Dispatches(w) ==
    /\ Works(w) /\ Next1 \in {"start", "answer"} /\ ~Dispatched
    /\ IF ~Accepts(w) THEN Fails(w, "error")
       ELSE /\ log' = Append(log, Entry("work", w))
            /\ workers' = [workers EXCEPT ![w].pc = "call", ![w].rev = Len(log')]
            /\ UNCHANGED ckpt

(* The call ended: the member asked, or submitted and the run is over.     *)
CallReturns(w) ==
    /\ workers[w].pc = "call"
    /\ \E type \in {"ask", "end"} :
          /\ type = "ask" => Cardinality(Of("ask")) < MaxAsks
          /\ Carries(w, <<Entry(type, w)>>)
    /\ UNCHANGED <<locker, claim, coord, cancelRequested, submitting, resident, closed, cmds, mishaps>>

(* complete, after a terminal pass or an unknown outcome.                  *)
Completes(w) ==
    LET ends == workers[w].out \in {"terminal", "unknown"} /\ Claimed(w) /\ Open
    IN /\ workers[w].pc = "ended"
       /\ coord' = IF ~ends THEN coord ELSE IF workers[w].out = "unknown" THEN "unknown" ELSE Status
       /\ claim' = IF ends THEN NoClaim ELSE claim
       /\ workers' = [workers EXCEPT ![w].pc = "after"]
       /\ UNCHANGED <<log, locker, cancelRequested, ckpt, submitting, resident, closed, cmds, mishaps>>

(* The commands are drained: stop, go on, or wait for a wake token.        *)
GoesOn(w) ==
    LET x == workers[w] IN
    /\ x.pc = "after" /\ x.queue = <<>>
    /\ Moves(w, IF x.stop \/ x.out \in {"error", "unknown", "terminal"} THEN "closing"
                ELSE IF x.out = "idle" THEN "idle" ELSE "top")

Wakes(w) ==
    /\ workers[w].pc = "idle" /\ (workers[w].wake \/ workers[w].stop)
    /\ \/ workers[w].stop /\ Moves(w, "closing")
       \/ /\ workers[w].wake
          /\ workers' = [workers EXCEPT ![w].pc = "top", ![w].wake = FALSE]
          /\ UNCHANGED <<log, locker, claim, coord, cancelRequested, ckpt, submitting, resident, closed, cmds, mishaps>>

(* The writer is closed first, then the host forgets the worker.           *)
ClosesWriter_Kept(w) ==
    /\ workers[w].pc = "closing"
    /\ workers' = [workers EXCEPT ![w] = [Gone(w) EXCEPT !.pc = "closed"]]
    /\ UNCHANGED <<log, locker, claim, coord, cancelRequested, ckpt, submitting, resident, closed, cmds, mishaps>>

ClosesWriter(w) ==
    /\ workers[w].pc = "closing" /\ locker' = 0
    /\ workers' = [workers EXCEPT ![w] = [Gone(w) EXCEPT !.pc = "closed"]]
    /\ UNCHANGED <<log, claim, coord, cancelRequested, ckpt, submitting, resident, closed, cmds, mishaps>>

Leaves(w) ==
    LET h == workers[w].host IN
    /\ workers[w].pc = "closed"
    /\ resident' = IF resident[h] = w THEN [resident EXCEPT ![h] = 0] ELSE resident
    /\ workers' = [workers EXCEPT ![w] = Gone(w)]
    /\ UNCHANGED <<log, locker, claim, coord, cancelRequested, ckpt, submitting, closed, cmds, mishaps>>

Stopped(w) == [workers[w] EXCEPT !.stop = TRUE, !.wake = TRUE]

(* renew: a heartbeat of a claim that is not the worker's any more stops   *)
(* it; the call in flight goes on.                                         *)
Heartbeat(w) ==
    /\ Installed(w) /\ ~Claimed(w) /\ ~workers[w].stop
    /\ workers' = [workers EXCEPT ![w] = Stopped(w)]
    /\ UNCHANGED <<log, locker, claim, coord, cancelRequested, ckpt, submitting, resident, closed, cmds, mishaps>>

-----------------------------------------------------------------------------
(* The callers of Cancel, Approve, Reject and Answer.                      *)

(* Cancel records the intent in the coordination store first.              *)
Intends(c, h) ==
    /\ c \in Cancels /\ cmds[c].pc = "new" /\ log # <<>>
    /\ cancelRequested' = TRUE
    /\ cmds' = [cmds EXCEPT ![c].pc = "intent", ![c].host = h]
    /\ UNCHANGED <<log, locker, claim, coord, ckpt, workers, submitting, resident, closed, mishaps>>

(* mutate: the resident worker of this host gets the command; without one  *)
(* the intent to cancel is all there is, and an answer is refused.         *)
Routes(c, h) ==
    LET w == resident[h] IN
    /\ \/ c \in Answers /\ cmds[c].pc = "new" /\ Asked
       \/ cmds[c].pc = "intent" /\ cmds[c].host = h
    /\ IF w = 0
       THEN /\ cmds' = [cmds EXCEPT ![c].pc = IF c \in Cancels THEN "recorded" ELSE "refused"]
            /\ UNCHANGED workers
       ELSE /\ cmds' = [cmds EXCEPT ![c].pc = "waiting", ![c].host = h, ![c].worker = w]
            /\ workers' = [workers EXCEPT ![w].queue = Append(@, c), ![w].wake = TRUE]
    /\ UNCHANGED <<log, locker, claim, coord, cancelRequested, ckpt, submitting, resident, closed, mishaps>>

(* The caller hears the reply, or that the worker is done, whichever its   *)
(* select takes.                                                           *)
Hears(c) ==
    /\ cmds[c].pc = "waiting"
    /\ \/ cmds[c].reply # "none" /\ cmds' = [cmds EXCEPT ![c].pc = cmds[c].reply]
       \/ workers[cmds[c].worker].pc = "gone" /\ cmds' = [cmds EXCEPT ![c].pc = "refused"]
    /\ UNCHANGED <<log, locker, claim, coord, cancelRequested, ckpt, workers, submitting, resident, closed, mishaps>>

-----------------------------------------------------------------------------
(* The world: leases run out, hosts are closed or killed and start again.  *)

(* Nobody renews the lease.                                                *)
Forsaken == claim.worker \in {0} \cup {w \in Workers : workers[w].pc \in {"unborn", "closed", "gone"}}

Lapses ==
    /\ claim.live /\ (Forsaken \/ mishaps < MaxMishaps)
    /\ claim' = [claim EXCEPT !.live = FALSE]
    /\ mishaps' = IF Forsaken THEN mishaps ELSE mishaps + 1
    /\ UNCHANGED <<log, locker, coord, cancelRequested, ckpt, workers, submitting, resident, closed, cmds>>

Close(h) ==
    /\ ~closed[h] /\ mishaps < MaxMishaps /\ submitting # h
    /\ closed' = [closed EXCEPT ![h] = TRUE]
    /\ workers' = [w \in Workers |-> IF resident[h] = w THEN Stopped(w) ELSE workers[w]]
    /\ mishaps' = mishaps + 1
    /\ UNCHANGED <<log, locker, claim, coord, cancelRequested, ckpt, submitting, resident, cmds>>

Restarts(h) ==
    /\ closed[h] /\ \A w \in Workers : workers[w].host = h => ~Alive(w)
    /\ closed' = [closed EXCEPT ![h] = FALSE]
    /\ UNCHANGED <<log, locker, claim, coord, cancelRequested, ckpt, workers, submitting, resident, cmds, mishaps>>

Crash(h) ==
    LET lost == {w \in Workers : workers[w].host = h /\ Alive(w)} IN
    /\ mishaps < MaxMishaps
    /\ workers' = [w \in Workers |-> IF w \in lost THEN Gone(w) ELSE workers[w]]
    /\ locker' = IF locker \in lost THEN 0 ELSE locker
    /\ resident' = [resident EXCEPT ![h] = 0] /\ closed' = [closed EXCEPT ![h] = FALSE]
    /\ submitting' = IF submitting = h THEN "nobody" ELSE submitting
    /\ cmds' = [c \in Commands |-> IF cmds[c].host = h /\ cmds[c].pc \in {"intent", "waiting"}
                                   THEN [cmds[c] EXCEPT !.pc = "gaveup"] ELSE cmds[c]]
    /\ mishaps' = mishaps + 1
    /\ UNCHANGED <<log, claim, coord, cancelRequested, ckpt>>

-----------------------------------------------------------------------------
WorkerNext(w) ==
    \/ OpenClaimedWriter(w) \/ LoadsFresh(w) \/ Loads(w) \/ Installs(w)
    \/ Drains(w) \/ Begins(w) \/ Helper(w) \/ LateHelper(w)
    \/ Stops(w) \/ Terminates(w) \/ Idles(w) \/ Plain(w) \/ Unknown(w) \/ Dispatches(w) \/ CallReturns(w) \/ Checkpoints(w)
    \/ Completes(w) \/ GoesOn(w) \/ Wakes(w) \/ ClosesWriter(w) \/ Leaves(w) \/ Heartbeat(w)

HostNext ==
    \/ \E w \in Workers : WorkerNext(w)
    \/ \E h \in Hosts : Submit(h) \/ SubmitClaims(h) \/ RecoverClaims(h) \/ Close(h) \/ Restarts(h) \/ Crash(h)
    \/ \E c \in Commands, h \in Hosts : Intends(c, h) \/ Routes(c, h)
    \/ \E c \in Commands : Hears(c)
    \/ Lapses

HostSpec == HostInit /\ [][HostNext]_hostVars

(* Threads are scheduled, heartbeats and retries repeat on their timers, a *)
(* lease nobody renews runs out; nobody needs to call, close or be killed. *)
Fairness ==
    /\ \A w \in Workers :
          /\ WF_hostVars(OpenClaimedWriter(w)) /\ WF_hostVars(LoadsFresh(w)) /\ WF_hostVars(Loads(w))
          /\ WF_hostVars(Installs(w)) /\ WF_hostVars(Drains(w)) /\ WF_hostVars(Begins(w))
          /\ WF_hostVars(Helper(w)) /\ WF_hostVars(LateHelper(w)) /\ WF_hostVars(Heartbeat(w))
          /\ WF_hostVars(Stops(w) \/ Terminates(w) \/ Idles(w) \/ Plain(w) \/ Unknown(w) \/ Dispatches(w) \/ CallReturns(w) \/ Checkpoints(w))
          /\ WF_hostVars(Completes(w)) /\ WF_hostVars(GoesOn(w)) /\ WF_hostVars(Wakes(w))
          /\ WF_hostVars(ClosesWriter(w)) /\ WF_hostVars(Leaves(w))
    /\ \A h \in Hosts : WF_hostVars(SubmitClaims(h)) /\ WF_hostVars(RecoverClaims(h)) /\ WF_hostVars(Restarts(h))
    /\ \A c \in Commands : WF_hostVars(\E h \in Hosts : Routes(c, h)) /\ WF_hostVars(Hears(c))
    /\ WF_hostVars(Forsaken /\ Lapses)

FairHostSpec == HostSpec /\ Fairness
=============================================================================
