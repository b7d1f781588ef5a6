--------------------------- MODULE HostProperties ---------------------------
(* What the hosts promise together about one job, over Host.               *)
EXTENDS Host

Kinds == Sources \cup {"step", "work", "lost"}
At(type) == {i \in DOMAIN log : log[i].type = type}

(* The shape of the state.                                                 *)
HostTypeOK ==
    /\ \A i \in DOMAIN log : log[i].type \in Kinds /\ log[i].by \in 0 .. MaxWorkers
    /\ locker \in 0 .. MaxWorkers /\ claim.worker \in 0 .. MaxWorkers
    /\ coord \in {"none", "accepted", "running", "succeeded", "cancelled", "unknown"}
    /\ \A h \in Hosts : resident[h] \in 0 .. MaxWorkers

(* No two processes have an external call of the job in flight, and no     *)
(* call is dispatched a second time: a worker whose lease ran out keeps    *)
(* the log's writer until its call is over (renew, applyCommand).          *)
OneCallInFlight ==
    /\ Cardinality({w \in Workers : workers[w].pc = "call"}) <= 1
    /\ Cardinality(At("work")) <= Cardinality(At("start") \cup At("answer"))

(* A decision that was reported as taken is in the log, and every question *)
(* is answered at most once, whoever asks which host (decide, command).    *)
DecisionsLandOnce ==
    /\ \A c \in Commands : cmds[c].pc = "ok" => \E i \in DOMAIN log : log[i].cmd = c
    /\ \A i, j \in DOMAIN log : log[i].cmd = log[j].cmd /\ i # j => log[i].cmd = "none"
    /\ Cardinality(At("answer")) <= Cardinality(At("ask"))

(* The store calls a job succeeded or cancelled only if that is the first  *)
(* end in its log, whatever was appended while the end was on its way, and *)
(* unknown only if a call was lost (complete, Status).                     *)
StoreAgrees ==
    LET First(type) == \E i \in At(type) : \A j \in At("end") \cup At("cancel") : i <= j
    IN /\ coord = "succeeded" => First("end")
       /\ coord = "cancelled" => First("cancel")
       /\ coord = "unknown"   => At("lost") # {}

WorkersLeft == workers[MaxWorkers].pc \in {"unborn", "claimed", "opened", "loaded"}

(* What the log holds is decided in the end, by its worker or by one that  *)
(* takes over (ADR-0015: "approve/reject/answer change the run exactly as  *)
(* the CLI does").                                                         *)
EventsAreTaken ==
    \A n \in 1 .. 7 :
        HasProgress /\ Rank(Len(log)) >= n ~> Steps >= n \/ Ended \/ ~Open \/ ~WorkersLeft

(* A job that once made progress and has lost its owner gets another one,  *)
(* whatever claims were taken in vain in between (recoverLoop,             *)
(* claimWorker).                                                           *)
JobsAreTakenOver ==
    HasProgress /\ Forsaken ~>
        (\E w \in Workers : Installed(w)) \/ Ended \/ ~Open \/ ~WorkersLeft

(* An accepted job is carried out by somebody (ADR-0010: "An accepted job  *)
(* can be resumed by a replacement worker after lease expiry").            *)
AcceptedJobsStart == log # <<>> ~> HasProgress \/ Ended \/ ~WorkersLeft

(* An intent to cancel that was recorded reaches the log, unless the job   *)
(* is over (CoordinationCancellationV1).                                   *)
CancelReachesTheLog == cancelRequested /\ HasProgress ~> Ended \/ ~Open \/ ~WorkersLeft

(* A replacement worker that puts the recorded cancellation into the log   *)
(* dispatches nothing (CoordinationCancellationV1: "lets a replacement     *)
(* worker consume it before dispatch").                                    *)
RecoveredCancelStopsDispatch ==
    \A i \in At("cancel"), j \in At("work") : log[i].cmd = "none" => j < i

(* A command that was taken is answered (TestStoragePortPreserves...:      *)
(* "cancel did not reach safe boundary").                                  *)
CommandsAreAnswered == \A c \in Commands : cmds[c].pc = "waiting" ~> cmds[c].pc # "waiting"

(* A refused command left no trace.                                        *)
RefusedLeavesNoTrace == \A c \in Commands : cmds[c].pc = "refused" => \A i \in DOMAIN log : log[i].cmd # c

(* When the log of a job is over, the store hears of it.                   *)
StoreHearsTheEnd == Ended ~> ~Open \/ ~WorkersLeft
=============================================================================
