---------------------------- MODULE Submission ----------------------------
(* A job from its submission to the end of its run: Intake, and the        *)
(* Supervisor whose worker runs it in the process that holds the log       *)
(* (SubmitPrepared: publishPrepared, then LaunchAt and OpenAt).            *)
EXTENDS Intake, Supervisor

vars == <<intakeVars, supVars>>

Init == IntakeInit /\ SupInit

(* A verified workspace is the last thing restore asks for before the      *)
(* worker's loop begins.                                                   *)
Prepares(s) ==
    /\ Settles(s)
    /\ IF role[s] = "worker" THEN WorkerStarts ELSE UNCHANGED supVars

PassReturns(s) ==
    /\ at[s] = "running"
    /\ \/ PassEnds("terminal") /\ \E how \in {"succeeded", "failed"} : RunEnds(s, how)
       \/ ended = "no" /\ (PassEnds("idle") \/ PassEnds("blocked")) /\ UNCHANGED intakeVars
       \/ PassEnds("woken") /\ UNCHANGED intakeVars

(* Between a pass and its publication the workspace of a run that          *)
(* succeeded is released.                                                  *)
Releases(s) == worker = "passed" /\ watcher = "gone" /\ stoppedBy = "terminal" /\ BeginRelease(s) /\ UNCHANGED supVars
Released(s) == Disown(s) /\ Settle
Publishes(s) == at[s] = "running" /\ ~(stoppedBy = "terminal" /\ Releasable) /\ Settle /\ UNCHANGED intakeVars

Exits(s) == RunStops(s) /\ WorkerEnds

WorkerWorks == WorkerStep /\ UNCHANGED intakeVars
Watches     == Watch /\ UNCHANGED intakeVars
Closes      == CloseWorker /\ UNCHANGED intakeVars

CallerStep(c) == (Signal(c) \/ SignalLate(c) \/ Return(c)) /\ UNCHANGED intakeVars
Commands(c)   == Send(c) /\ UNCHANGED intakeVars

(* Callers are goroutines of the process: they die with it.                *)
Dies(s) ==
    /\ Kill(s)
    /\ IF role[s] = "worker" THEN Reset /\ call' = [c \in Callers |-> "idle"] ELSE UNCHANGED supVars

Blackout == Power /\ Reset /\ call' = [c \in Callers |-> "idle"]

SubmitterStep(s) == Step(s) /\ UNCHANGED supVars
WorkerStepOf(s)  == Prepares(s) \/ Releases(s) \/ Released(s) \/ Publishes(s) \/ Exits(s)

Acts ==
    \/ \E s \in Submitters :
          \/ (Submit(s) \/ Fails(s)) /\ UNCHANGED supVars
          \/ SubmitterStep(s) \/ WorkerStepOf(s) \/ PassReturns(s) \/ Dies(s)
    \/ WorkerWorks \/ Watches \/ Closes \/ Blackout
    \/ \E c \in Callers : Commands(c) \/ CallerStep(c)

(* A job is followed until its directory is swept: whoever works on in it  *)
(* then has nothing to do with what is made in its place.                  *)
Swept == swept /\ UNCHANGED vars

Next == (~swept /\ Acts) \/ Swept

(* What the process goes on to do by itself to publish the job and to run  *)
(* it: a scheduler's tick submits again what it has not seen accepted.     *)
Proceeds(s) == (Submit(s) /\ UNCHANGED supVars) \/ SubmitterStep(s) \/ Prepares(s)

(* A process that runs goes on.  This is weak fairness of Proceeds, with   *)
(* its enabling condition spelt out.                                       *)
Waits(s) ==
    \/ at[s] \in {"running", "disown"}
    \/ at[s] = "idle" /\ \A r \in MayAsk[s] : r \in Keyed /\ bound \notin {None, r}

IntakeFairness == \A s \in Submitters : []<>Waits(s) \/ []<><<Proceeds(s)>>_vars

(* So do its goroutines, and a pass that was asked to stop does.           *)
WorkerFairness ==
    /\ WF_vars(\E s \in Submitters : WorkerStepOf(s) \/ (boundary /\ PassReturns(s)))
    /\ WF_vars(WorkerWorks) /\ WF_vars(Watches)
    /\ \A c \in Callers : WF_vars(CallerStep(c))

Spec == Init /\ [][Next]_vars

FairSpec == Spec /\ (<>swept \/ IntakeFairness)

FairWorkerSpec == Spec /\ (<>swept \/ (IntakeFairness /\ WorkerFairness))
=============================================================================
