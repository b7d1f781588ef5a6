----------------------- MODULE DurableStepProperties ------------------------
(* What a run's log and the world owe each other, across crashes.          *)
EXTENDS DurableStep

(* An effect that is not idempotent acts on the world at most once,        *)
(* whichever workers carry it out and wherever they die (exec.go on        *)
(* ErrUnknownWork: "Retrying could duplicate paid or mutating work").      *)
NeverRepeated ==
    \A a, b \in performed : a[1] = b[1] /\ a[1].kind = "tool" => a = b

(* Every log a crash can leave is one Recover accepts, and what it answers *)
(* is true: each step behind the cursor has known outcomes for all its     *)
(* effects, and a run that is idle has no event left undecided.            *)
RecoveryIsTrue ==
    /\ Accepted
    /\ \A seq \in Records("event") :
          seq <= Cursor =>
              \A w \in Works(seq) :
                  \E i \in Records("finished") : log[i].work = w /\ log[i].status # "unknown"
    /\ At("idle") => \A seq \in Records("event") : seq <= Cursor
    /\ At("unknown") => Unknown # {}

(* A run without a claim comes to rest however its workers die: everything *)
(* decided is carried out, or an outcome is unknown and the run says so.   *)
RunsEnd == ~coordinated => []<>(worker.pc \in {"idle", "unknown"})

(* The same for a run under a claim of the coordination store.             *)
ClaimedRunsEnd == coordinated => []<>(worker.pc \in {"idle", "unknown"})

(* An effect recorded as failed did not act (exec.go on ErrNotDispatched:  *)
(* "an effect failure known to have happened before any external action    *)
(* began").                                                                *)
FailedDidNotAct ==
    \A i \in Records("finished") :
        log[i].status = "failed" => \A a \in performed : a[1] # log[i].work

(* Durable execution implements Effects.  A step without effects has no    *)
(* record there.                                                           *)
Steps(type) == {seq \in Records("event") :
                    /\ Works(seq) # {}
                    /\ IF type = "prepared" THEN Prepared(seq) ELSE Complete(seq)}

Contract == INSTANCE Effects WITH
    Attempts <- 1..MaxAttempts,
    External <- Acting,
    Repeatable <- LAMBDA w : w.kind = "keyed",
    commissioned <- {[step |-> seq, works |-> Works(seq)] : seq \in Steps("prepared")},
    acts <- performed,
    outcomes <- {<<log[i].work, log[i].status>> : i \in Records("finished")},
    closed <- Steps("completed")

ImplementsEffects == Contract!EffectsSpec
=============================================================================
