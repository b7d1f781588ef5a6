------------------------ MODULE SubmissionProperties ------------------------
(* What the intake of a job and the worker of its run promise.             *)
EXTENDS Submission

(* The shape of the state.                                                 *)
SubmissionTypeOK ==
    /\ bound \in Requests \cup {None} /\ there \in BOOLEAN /\ registered \in BOOLEAN
    /\ files \in [Files -> Requests \cup {None, "empty"}] /\ kept \subseteq Files \cup {"dir"}
    /\ home.of \in Requests \cup {None} /\ home.partial \in Submitters \cup {None, "mixed"}
    /\ home.phase \in {"none", "prepared", "started", "finished", "broken"}
    /\ home.root \in {"none", "partial", "full", "hollow"} /\ home.marker \in {"none", "whole", "torn"}
    /\ asks \in [Submitters -> Requests \cup {None}] /\ lock \in Submitters \cup {None}
    /\ role \in [Submitters -> {"none", "owner", "worker"}]
    /\ ended \in {"no", "succeeded", "failed"}
    /\ \A i \in DOMAIN commands : commands[i] \in Callers
    /\ told \subseteq Requests \X {"published", "adopted"}
    /\ crowded \in BOOLEAN /\ swept \in BOOLEAN

(* A job whose publication was acknowledged keeps the directory that       *)
(* carries exactly its request, whatever other submissions of it, kills    *)
(* and losses of power follow, unless a submission that had been preparing *)
(* in it next to another gave up and removed it (acceptance.go:            *)
(* recoverableUnpublished asks nobody, and the deferred RemoveAll neither; *)
(* the order of writes and syncs in publishPrepared).                      *)
PublishedStays == ~swept => \A r \in Requests : <<r, "published">> \in told => Whole(r)

(* The same without the exception (acceptance.go: "After confirmation, the *)
(* job is retained even when lifecycle handoff fails").                    *)
AcceptedIsRetained == \A r \in Requests : <<r, "published">> \in told => Whole(r)

(* The same of a job acknowledged because another had published it.        *)
AdoptedStays == \A r \in Requests : <<r, "adopted">> \in told => Whole(r)

(* Until it ends a run is worked on by one process, over the files its     *)
(* submission named and in a workspace that was filled before its marker   *)
(* was written, never in one a dead process left half made (restore,       *)
(* Provision, writeMarker).                                                *)
WorkersAreAtHome ==
    \A s \in Submitters : at[s] = "running" /\ ended = "no" =>
        /\ lock = s /\ Whole(asks[s])
        /\ home.root \in {"full", "hollow"} /\ home.marker = "whole"

(* The workspace a run works in holds the source's files: a loss of power  *)
(* does not leave it empty (copyTrackedTree, verifySnapshot).              *)
WorkspaceIsTheSource == \A s \in Submitters : at[s] = "running" /\ ended = "no" => home.root = "full"

(* A refused submission that removes the directory leaves no worktree in   *)
(* the source repository that it had made or verified itself               *)
(* (AbortPreparation: "releases only exactly recorded,                     *)
(* provisioner-verified ownership").                                       *)
RefusalsLeaveNothing ==
    [][\A s \in Submitters : at[s] = "remove" /\ session[s] /\ ~there' => ~registered']_vars

(* What reconcileUnpublished refuses: a marker whose workspace is not      *)
(* there, with nothing half made of it or with a marker cut short.         *)
Orphaned == home.root = "none" /\ home.marker # "none" /\ (home.partial # None => home.marker = "torn")

(* A preparation that a dead process left half made is resumed when its    *)
(* occurrence is submitted again: in the end its copy is finished and the  *)
(* publication begins, or the directory is removed, unless only a marker   *)
(* is left of the copy (reconcileUnpublished: "refuse orphaned workspace   *)
(* ownership metadata without a published workspace") or two prepared at   *)
(* once.                                                                   *)
HalfPrepared == there /\ Unpublished /\ mode = "copy" /\ home.of \in Keyed

PreparationIsResumed == HalfPrepared ~> ~HalfPrepared \/ Orphaned \/ crowded

(* The same without the exceptions (PreparedSubmission.Prepare: "must be   *)
(* durably restartable because a crash may leave its side effects          *)
(* behind").                                                               *)
PreparationIsRestartable == HalfPrepared ~> ~HalfPrepared

(* A worker sleeps only when there is nothing to do: no command is queued  *)
(* whose caller has left its token, and none it executed waits for a pass  *)
(* to read what it appended (run: "<-wakeDone", the second drain).         *)
NothingSleeps ==
    worker = "wait" =>
        /\ ~unread \/ wake \/ stop
        /\ commands # <<>> => wake \/ stop \/ \E c \in Callers : call[c] = "sent"

(* A command is answered, by its result or because the worker is gone,     *)
(* whatever the worker was doing and however it ended (Handle.Command).    *)
CommandsReturn == \A c \in Callers : call[c] # "idle" ~> call[c] = "idle"

(* Whoever's job is bound to a key is published in the end.                *)
BoundJobsArePublished == bound # None ~> \E h \in {"published", "adopted"} : <<bound, h>> \in told
=============================================================================
