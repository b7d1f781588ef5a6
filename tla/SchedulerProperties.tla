------------------------ MODULE SchedulerProperties ------------------------
(* What the schedulers of one trigger directory promise together.          *)
EXTENDS Scheduler

Running(t) ==
    {o \in Occurrences : /\ o[1] = t /\ occurrences[o] = "admitted"
                         /\ jobs[o].state \notin JobTerminal}

(* The overlap a trigger declares is kept, whichever processes admit its   *)
(* slots and whoever died in between: under skip and queue it never has    *)
(* two jobs at once, and under cancel-previous the store holds the intent  *)
(* to cancel every job but the last one, durable before the replacement is *)
(* admitted (admitSlot, activeJobs; Scheduler.executions: "Missing entries *)
(* after restart do not change overlap decisions").                        *)
OverlapIsAsDeclared ==
    \A t \in Triggers : \A o, u \in Running(t) :
        \/ o = u
        \/ records[t].overlap = "parallel"
        \/ records[t].overlap = "cancel-previous" /\ (jobs[o].cancelled \/ jobs[u].cancelled)

(* A job is claimed only once its run is there to be driven: admitted,     *)
(* bound to its own key and published, across the death of a process       *)
(* between any two of these steps (startRun, RecoverAccepted).             *)
ClaimedRunsExist ==
    \A o \in Occurrences :
        jobs[o].attempt # 0 =>
            /\ occurrences[o] \in {"admitted", "completed", "unknown"}
            /\ submissions[o].bound /\ submissions[o].job = o
            /\ o \in published

(* A slot that has come due is in the end run or passed over: the cursor   *)
(* of its trigger reaches it ("ticking late does not LOSE a firing, it     *)
(* delays it").                                                            *)
DueSlotsArePassed ==
    \A t \in Triggers, s \in Slots : now >= s ~> records[t].cursor >= s

(* A queued slot whose trigger has nothing left running is run or dropped  *)
(* (overlap.go on queue: "Under `queue` the slot stays unattended and      *)
(* comes back").                                                           *)
QueuedSlotsAreTaken ==
    \A t \in Triggers, s \in Slots :
        occurrences[<<t, s>>] = "pending" /\ Running(t) = {}
            ~> occurrences[<<t, s>>] # "pending" \/ Running(t) # {}

(* A slot the cursor of a trigger that fires passed was acted on: it has a *)
(* decision, and a job that was admitted for it has a run.  Read with      *)
(* FirstCursors = {0}: a first firing takes the latest slot only.          *)
PassedSlotsWereActedOn ==
    \A t \in Triggers, s \in Slots :
        s <= records[t].cursor =>
            /\ occurrences[<<t, s>>] \notin {"none", "pending"}
            /\ occurrences[<<t, s>>] = "admitted" => <<t, s>> \in published
=============================================================================
