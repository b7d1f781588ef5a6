------------------------------ MODULE Intake ------------------------------
(* How one job comes to be a run: processes that submit it, with the same  *)
(* request or with another, make its directory, prepare its workspace in   *)
(* it, write the frozen blueprint, the effective configuration and         *)
(* run.started, and then run it (internal/app/acceptance.go,               *)
(* internal/runconfig, internal/workspacefs, cmd/arxi/runtime.go,          *)
(* cmd/arxi/scheduler.go).  The directory is removed in one step, a        *)
(* preparation whose directory is gone fails, though MkdirAll may make     *)
(* parts of it again, and validation and the freezing of the workspace     *)
(* contract are left out: a request is one that passed them.               *)
EXTENDS Naturals, FiniteSets

CONSTANTS Submitters,  \* processes that submit the job
          Requests,    \* what they may submit under its name
          MayAsk,      \* the requests each submitter may come with
          Keyed,       \* the requests that carry the occurrence's idempotency key
          Modes,       \* layouts of the member's workspace: "copy", "worktree"
          FailPoints,  \* steps that may fail
          Mishaps,     \* "fail", "kill", "power"
          MaxMishaps,
          None

ASSUME IntakeAssumption ==
    /\ MayAsk \in [Submitters -> SUBSET Requests] /\ Keyed \subseteq Requests
    /\ Modes \subseteq {"copy", "worktree"}
    /\ MaxMishaps \in Nat /\ None \notin Requests \cup Submitters

VARIABLES
    bound,      \* the request the key is bound to
    there,      \* the job's directory is there
    files,      \* whose blueprint.snapshot.yaml, effective-config and run.started it holds
    kept,       \* what of it survives a loss of power: names, and "dir" itself
    home,       \* the workspace and the journal of its preparation, inside the directory
    mode,       \* its layout
    registered, \* the source repository counts the worktree as its own
    lock,       \* who has the run's log open for writing
    asks,       \* the request of each submitter
    at,         \* where each submitter stands
    role,       \* "owner" of the directory until it is accepted, "worker" of the run
    knows,      \* what Prepare read of the journal
    session,    \* the submitter's Manager has verified the workspace
    ended,      \* how run.result says the run ended, "no" before it
    told,       \* requests acknowledged as accepted, and how
    crowded,    \* history: two have prepared at once
    swept,      \* history: one of them removed it under another, or after its acceptance
    mishaps

intakeVars == <<bound, there, files, kept, home, mode, registered, lock, asks, at, role, knows, session, ended, told, crowded, swept, mishaps>>

Files == {"snapshot", "config", "log"}
Blank == [f \in Files |-> None]
Bare  == [phase |-> "none", of |-> None, partial |-> None, root |-> "none", marker |-> "none"]

IntakeInit ==
    /\ bound = None /\ there = FALSE /\ files = Blank /\ kept = {}
    /\ home = Bare /\ mode \in Modes /\ registered = FALSE /\ lock = None
    /\ asks = [s \in Submitters |-> None]
    /\ at = [s \in Submitters |-> "idle"] /\ role = [s \in Submitters |-> "none"]
    /\ knows = [s \in Submitters |-> "none"]
    /\ session = [s \in Submitters |-> FALSE]
    /\ ended = "no" /\ told = {} /\ crowded = FALSE /\ swept = FALSE /\ mishaps = 0

Whole(r)    == there /\ \A f \in Files : files[f] = r
Consistent  == there /\ \E r \in Requests : Whole(r)
Unpublished == files = Blank

(* Who has taken the directory on and is not through with it.              *)
Preparing(s) == role[s] # "worker" /\ at[s] \notin {"idle", "mkdir", "launch"}

Others(s) == {p \in Submitters \ {s} : Preparing(p)}

(* An idle submitter has forgotten what it asked for, read and verified.   *)
To(s, pc) ==
    /\ at' = [at EXCEPT ![s] = pc]
    /\ asks' = [asks EXCEPT ![s] = IF pc = "idle" THEN None ELSE @]
    /\ knows' = [knows EXCEPT ![s] = IF pc \in {"idle", "abort"} THEN "none" ELSE @]
    /\ session' = [session EXCEPT ![s] = @ /\ pc # "idle"]

(* An error: an owner takes its preparation back and removes the directory *)
(* (the deferred cleanup), whoever else just returns it.                   *)
GivesUp(s) ==
    /\ To(s, IF role[s] = "owner" THEN "abort" ELSE "idle")
    /\ role' = [role EXCEPT ![s] = IF @ = "owner" THEN @ ELSE "none"]
    /\ lock' = IF lock = s THEN None ELSE lock

-----------------------------------------------------------------------------
(* A submission whose key is bound to another request is refused.          *)
Submit(s) ==
    /\ at[s] = "idle"
    /\ \E r \in MayAsk[s] :
          /\ r \in Keyed => bound \in {None, r}
          /\ bound' = IF r \in Keyed THEN r ELSE bound
          /\ asks' = [asks EXCEPT ![s] = r]
    /\ at' = [at EXCEPT ![s] = "mkdir"]
    /\ UNCHANGED <<session, there, files, kept, home, mode, registered, lock, role, knows, ended, told, crowded, swept, mishaps>>

MakeDir(s) ==
    /\ at[s] = "mkdir" /\ ~there
    /\ there' = TRUE
    /\ role' = [role EXCEPT ![s] = "owner"]
    /\ crowded' = (crowded \/ Others(s) # {})
    /\ To(s, "journal")
    /\ UNCHANGED <<bound, files, kept, home, mode, registered, lock, ended, told, swept, mishaps>>

(* A directory that holds exactly what was asked for is taken as accepted. *)
Adopt(s) ==
    /\ at[s] = "mkdir" /\ Whole(asks[s])
    /\ told' = told \cup {<<asks[s], "adopted">>}
    /\ To(s, "launch")
    /\ UNCHANGED <<bound, there, files, kept, home, mode, registered, lock, role, ended, crowded, swept, mishaps>>

(* One in which nothing was published yet is prepared again, whoever else  *)
(* is preparing in it.                                                     *)
TakeOver(s) ==
    /\ at[s] = "mkdir" /\ there /\ Unpublished
    /\ crowded' = (crowded \/ Others(s) # {})
    /\ To(s, "journal")
    /\ UNCHANGED <<bound, there, files, kept, home, mode, registered, lock, role, ended, told, swept, mishaps>>

Conflict(s) ==
    /\ at[s] = "mkdir" /\ there /\ ~Whole(asks[s]) /\ ~Unpublished
    /\ To(s, "idle")
    /\ UNCHANGED <<bound, there, files, kept, home, mode, registered, lock, role, ended, told, crowded, swept, mishaps>>

-----------------------------------------------------------------------------
(* Prepare reads its journal once, and goes on from the phase it finds.    *)
Journal(s) ==
    /\ at[s] = "journal" /\ there /\ home.of \in {None, asks[s]} /\ home.phase # "broken"
    /\ knows' = [knows EXCEPT ![s] = IF home.phase = "none" THEN "prepared" ELSE home.phase]
    /\ at' = [at EXCEPT ![s] = IF home.phase = "none" THEN "prepared" ELSE "provision"]
    /\ UNCHANGED <<asks, session, bound, there, files, kept, home, mode, registered, lock, role, ended, told, crowded, swept, mishaps>>

Before == [prepared |-> "none", started |-> "prepared", finished |-> "started"]

(* A record that does not follow the last one breaks the journal.          *)
AppendRecord(s) ==
    /\ at[s] \in DOMAIN Before /\ there
    /\ home' = [home EXCEPT !.of = asks[s],
           !.phase = IF @ = Before[at[s]] /\ home.of \in {None, asks[s]} THEN at[s] ELSE "broken"]
    /\ To(s, CASE at[s] = "prepared" -> "provision"
              [] at[s] = "started"  -> "finished"
              [] at[s] = "finished" -> "snapshot")
    /\ role' = [role EXCEPT ![s] = IF at[s] = "finished" THEN "owner" ELSE @]
    /\ UNCHANGED <<bound, there, files, kept, mode, registered, lock, ended, told, crowded, swept, mishaps>>

(* Manager.Provision: a workspace that is there must carry its marker, and *)
(* a copy the names of the tree.                                           *)
Verifies == home.root \in (IF mode = "copy" THEN {"full", "hollow"} ELSE {"partial", "full", "hollow"}) /\ home.marker = "whole"

(* A workspace is journalled as far as it is not; a preparation that has   *)
(* all of it is over.                                                      *)
Provisioned(s) ==
    LET pc == IF role[s] = "worker" THEN "running"
              ELSE CASE knows[s] = "prepared" -> "started"
                     [] knows[s] = "started"  -> "finished"
                     [] OTHER                 -> "snapshot"
    IN  /\ at' = [at EXCEPT ![s] = pc]
        /\ role' = [role EXCEPT ![s] = IF pc = "snapshot" THEN "owner" ELSE @]
        /\ session' = [session EXCEPT ![s] = TRUE]
        /\ knows' = [knows EXCEPT ![s] = "none"]
        /\ UNCHANGED asks

Provision(s) ==
    /\ at[s] = "provision" /\ there /\ (session[s] \/ Verifies)
    /\ Provisioned(s)
    /\ UNCHANGED <<bound, there, files, kept, home, mode, registered, lock, ended, told, crowded, swept, mishaps>>

(* Mutant: a copy that is there is refused, as in a preparation that was   *)
(* never left half made.                                                   *)
Clearable_Clean == home.partial = None /\ home.marker = "none"

(* reconcileUnpublished: what a dead process left half made is removed,    *)
(* and its marker after it.                                                *)
Clearable == IF home.partial = None THEN home.marker = "none" ELSE home.marker # "torn"

BeginCopy(s) ==
    /\ at[s] = "provision" /\ ~session[s] /\ there /\ home.root = "none"
    /\ IF mode = "worktree" THEN To(s, "add") /\ UNCHANGED home
       ELSE /\ Clearable
            /\ home' = [home EXCEPT !.partial = IF @ = None THEN s ELSE None]
            /\ To(s, IF home.partial = None THEN "copy"
                     ELSE IF home.marker = "none" THEN "mkcopy" ELSE "unmark")
    /\ UNCHANGED <<bound, there, files, kept, mode, registered, lock, role, ended, told, crowded, swept, mishaps>>

Unmark(s) ==
    /\ at[s] = "unmark" /\ there
    /\ home' = [home EXCEPT !.marker = "none"]
    /\ To(s, "mkcopy")
    /\ UNCHANGED <<bound, there, files, kept, mode, registered, lock, role, ended, told, crowded, swept, mishaps>>

MakeCopy(s) ==
    /\ at[s] = "mkcopy" /\ there /\ home.partial = None
    /\ home' = [home EXCEPT !.partial = s]
    /\ To(s, "copy")
    /\ UNCHANGED <<bound, there, files, kept, mode, registered, lock, role, ended, told, crowded, swept, mishaps>>

(* A worktree that another has added meanwhile is taken as it is.          *)
AddTree(s) ==
    /\ at[s] = "add" /\ there /\ (home.root # "none" \/ ~registered)
    /\ home' = [home EXCEPT !.root = IF @ = "none" THEN "partial" ELSE @]
    /\ registered' = TRUE
    /\ To(s, IF home.root = "none" THEN "copy" ELSE "mark")
    /\ UNCHANGED <<bound, there, files, kept, mode, lock, role, ended, told, crowded, swept, mishaps>>

(* A copy that another has taken away is made again from where it stood,   *)
(* and one that another has made again gets the rest of it.                *)
Copied(s) ==
    /\ at[s] = "copy" /\ there /\ (mode = "copy" \/ home.root # "none")
    /\ home' = IF mode = "worktree" THEN [home EXCEPT !.root = "full"]
               ELSE [home EXCEPT !.partial = IF @ = s THEN s ELSE "mixed"]
    /\ To(s, "mark")
    /\ UNCHANGED <<bound, there, files, kept, mode, registered, lock, role, ended, told, crowded, swept, mishaps>>

Mark(s) ==
    /\ at[s] = "mark" /\ there /\ home.marker = "none"
    /\ home' = [home EXCEPT !.marker = "whole"]
    /\ IF mode = "copy" THEN To(s, "rename") /\ UNCHANGED role ELSE Provisioned(s)
    /\ UNCHANGED <<bound, there, files, kept, mode, registered, lock, ended, told, crowded, swept, mishaps>>

(* A workspace that is there already will do, if it can be verified.       *)
Rename(s) ==
    /\ at[s] = "rename" /\ there
    /\ \/ /\ home.root = "none" /\ home.partial # None
          /\ \E root \in IF home.partial = s THEN {"full"} ELSE {"full", "partial"} :
                home' = [home EXCEPT !.partial = None, !.root = root]
       \/ home.root # "none" /\ Verifies /\ UNCHANGED home
    /\ Provisioned(s)
    /\ UNCHANGED <<bound, there, files, kept, mode, registered, lock, ended, told, crowded, swept, mishaps>>

-----------------------------------------------------------------------------
(* publishPrepared: each file is created exclusively.                      *)
Publish(s, pc, f, next) ==
    /\ at[s] = pc /\ there /\ files[f] = None
    /\ files' = [files EXCEPT ![f] = asks[s]]
    /\ To(s, next)
    /\ UNCHANGED <<bound, there, kept, home, mode, registered, lock, role, ended, told, crowded, swept, mishaps>>

WriteSnapshot(s) == Publish(s, "snapshot", "snapshot", "sync")
WriteConfig(s)   == Publish(s, "config", "config", "open")

Named == {f \in Files : files[f] # None}

SyncDir(s) ==
    /\ at[s] \in {"sync", "syncdir"} /\ there
    /\ kept' = kept \cup Named
    /\ To(s, IF at[s] = "sync" THEN "config" ELSE "syncparent")
    /\ UNCHANGED <<bound, there, files, home, mode, registered, lock, role, ended, told, crowded, swept, mishaps>>

(* The configuration is read back before the log is opened.                *)
OpenLog(s) ==
    /\ at[s] = "open" /\ there /\ files["config"] = asks[s] /\ lock = None
    /\ lock' = s
    /\ files' = [files EXCEPT !["log"] = IF @ = None THEN "empty" ELSE @]
    /\ To(s, "append")
    /\ UNCHANGED <<bound, there, kept, home, mode, registered, role, ended, told, crowded, swept, mishaps>>

(* A writer whose directory was replaced writes to the file it opened.     *)
AppendStarted(s) ==
    /\ at[s] = "append" /\ there
    /\ files' = IF lock = s THEN [files EXCEPT !["log"] = asks[s]] ELSE files
    /\ To(s, "close")
    /\ UNCHANGED <<bound, there, kept, home, mode, registered, lock, role, ended, told, crowded, swept, mishaps>>

CloseLog(s) ==
    /\ at[s] = "close"
    /\ lock' = IF lock = s THEN None ELSE lock
    /\ To(s, "syncdir")
    /\ UNCHANGED <<bound, there, files, kept, home, mode, registered, role, ended, told, crowded, swept, mishaps>>

(* Mutant: accepted before the parent directory is synced.                 *)
Accept_Unsynced(s) ==
    /\ at[s] = "syncparent"
    /\ role' = [role EXCEPT ![s] = "none"]
    /\ told' = told \cup {<<asks[s], "published">>}
    /\ To(s, "launch")
    /\ UNCHANGED <<bound, there, files, kept, home, mode, registered, lock, ended, crowded, swept, mishaps>>

Accept(s) ==
    /\ at[s] = "syncparent"
    /\ kept' = IF there THEN kept \cup {"dir"} ELSE kept
    /\ role' = [role EXCEPT ![s] = "none"]
    /\ told' = told \cup {<<asks[s], "published">>}
    /\ To(s, "launch")
    /\ UNCHANGED <<bound, there, files, home, mode, registered, lock, ended, crowded, swept, mishaps>>

(* What another has published, locked or removed, or a dead process left,  *)
(* makes a step an error.                                                  *)
Refuses(s) ==
    \/ at[s] \in {"journal", "prepared", "provision", "unmark", "mkcopy", "add", "copy", "mark", "rename",
                  "started", "finished", "snapshot", "sync", "config", "open", "append", "syncdir"} /\ ~there
    \/ at[s] = "journal" /\ (home.of \notin {None, asks[s]} \/ home.phase = "broken")
    \/ at[s] = "provision" /\ ~session[s] /\ ~Verifies
          /\ (home.root # "none" \/ (mode = "copy" /\ ~Clearable))
    \/ at[s] = "mkcopy" /\ home.partial # None
    \/ at[s] = "add" /\ home.root = "none" /\ registered
    \/ at[s] = "copy" /\ mode = "worktree" /\ home.root = "none"
    \/ at[s] = "mark" /\ home.marker # "none"
    \/ at[s] = "rename" /\ (IF home.root = "none" THEN home.partial = None ELSE ~Verifies)
    \/ at[s] \in {"snapshot", "config"} /\ files[at[s]] # None
    \/ at[s] = "open" /\ (files["config"] # asks[s] \/ lock # None)

(* An error while copying takes the copy away, one while renaming it also  *)
(* the marker, unless a marked workspace is there that lacks a name.       *)
Dropped(s) ==
    CASE at[s] \in {"copy", "mark"} /\ mode = "copy" -> [home EXCEPT !.partial = None]
      [] at[s] = "copy" /\ mode = "worktree" -> [home EXCEPT !.root = "none"]
      [] at[s] = "rename" -> [home EXCEPT !.partial = None,
                                !.marker = IF home.root # "none" /\ @ = "whole" THEN @ ELSE "none"]
      [] OTHER -> home

Refused(s) ==
    /\ Refuses(s)
    /\ GivesUp(s)
    /\ home' = Dropped(s)
    /\ UNCHANGED <<bound, there, files, kept, mode, registered, ended, told, crowded, swept, mishaps>>

-----------------------------------------------------------------------------
(* Supervisor.restore: the log is locked, the files are checked against    *)
(* run.started, and the executor verifies the workspace or makes it again. *)
Launch(s) ==
    /\ at[s] = "launch" /\ Consistent /\ lock = None
    /\ lock' = s
    /\ role' = [role EXCEPT ![s] = "worker"]
    /\ To(s, "provision")
    /\ UNCHANGED <<bound, there, files, kept, home, mode, registered, ended, told, crowded, swept, mishaps>>

LaunchRefused(s) ==
    /\ at[s] = "launch" /\ ~(Consistent /\ lock = None)
    /\ To(s, "idle")
    /\ UNCHANGED <<bound, there, files, kept, home, mode, registered, lock, role, ended, told, crowded, swept, mishaps>>

(* run.result is in the log.                                               *)
RunEnds(s, how) ==
    /\ at[s] = "running" /\ ended \in {"no", how}
    /\ ended' = how
    /\ UNCHANGED <<asks, bound, there, files, kept, home, mode, registered, lock, at, role, knows, session, told, crowded, swept, mishaps>>

(* The worker of a run that succeeded releases its workspace.              *)
Releasable == ended = "succeeded" /\ (home.root # "none" \/ home.marker # "none")

BeginRelease(s) ==
    /\ at[s] = "running" /\ Releasable
    /\ To(s, "release")
    /\ UNCHANGED <<bound, there, files, kept, home, mode, registered, lock, role, ended, told, crowded, swept, mishaps>>

(* The worker is gone, and its lock with it.                               *)
RunStops(s) ==
    /\ at[s] = "running"
    /\ GivesUp(s)
    /\ UNCHANGED <<bound, there, files, kept, home, mode, registered, ended, told, crowded, swept, mishaps>>

(* Manager.Release: the workspace first, its marker after it.              *)
ReleaseRoot ==
    /\ home' = [home EXCEPT !.root = IF home.marker = "whole" THEN "none" ELSE @]
    /\ registered' = (registered /\ ~(home.marker = "whole" /\ home.root # "none"))

Release(s) ==
    /\ at[s] = "release"
    /\ ReleaseRoot
    /\ To(s, "disown")
    /\ UNCHANGED <<bound, there, files, kept, mode, lock, role, ended, told, crowded, swept, mishaps>>

Disown(s) ==
    /\ at[s] = "disown"
    /\ home' = [home EXCEPT !.marker = IF home.root = "none" THEN "none" ELSE @]
    /\ To(s, "running")
    /\ UNCHANGED <<bound, there, files, kept, mode, registered, lock, role, ended, told, crowded, swept, mishaps>>

-----------------------------------------------------------------------------

(* AbortPreparation releases what the journal says was started.            *)
Recorded(s) == home.of = asks[s] /\ home.phase \in {"started", "finished"}

Abort(s) ==
    /\ at[s] = "abort"
    /\ IF Recorded(s) THEN ReleaseRoot ELSE UNCHANGED <<home, registered>>
    /\ To(s, "remove")
    /\ UNCHANGED <<bound, there, files, kept, mode, lock, role, ended, told, crowded, swept, mishaps>>

(* The deferred RemoveAll asks nobody who else is in the directory.        *)
Displaces(s) == crowded /\ (Others(s) # {} \/ \E r \in Requests : <<r, "published">> \in told)

RemoveDir(s) ==
    /\ at[s] = "remove"
    /\ there' = FALSE /\ files' = Blank /\ kept' = {} /\ home' = Bare /\ lock' = None /\ ended' = "no"
    /\ role' = [role EXCEPT ![s] = "none"]
    /\ To(s, "idle")
    /\ swept' = (swept \/ Displaces(s))
    /\ UNCHANGED <<bound, mode, registered, told, crowded, mishaps>>

(* A step fails; a marker that cannot be written is left as it is.         *)
Fails(s) ==
    /\ "fail" \in Mishaps /\ mishaps < MaxMishaps /\ mishaps' = mishaps + 1
    /\ at[s] \in FailPoints /\ ~Refuses(s)
    /\ home' = [Dropped(s) EXCEPT !.marker = IF at[s] = "mark" THEN "torn" ELSE @]
    /\ registered' = (registered /\ at[s] # "copy")
    /\ GivesUp(s)
    /\ UNCHANGED <<bound, there, files, kept, mode, ended, told, crowded, swept>>

(* A process dies, and the lock it holds with it.                          *)
Kill(s) ==
    /\ "kill" \in Mishaps /\ mishaps < MaxMishaps /\ mishaps' = mishaps + 1
    /\ at[s] # "idle"
    /\ To(s, "idle") /\ role' = [role EXCEPT ![s] = "none"]
    /\ lock' = IF lock = s THEN None ELSE lock
    /\ UNCHANGED <<bound, there, files, kept, home, mode, registered, ended, told, crowded, swept>>

(* Every process dies with the machine; what was not synced may be gone,   *)
(* and a workspace may be left without its contents.                       *)
Power ==
    /\ "power" \in Mishaps /\ mishaps < MaxMishaps /\ mishaps' = mishaps + 1
    /\ \/ "dir" \notin kept /\ there' = FALSE /\ files' = Blank /\ kept' = {} /\ home' = Bare /\ ended' = "no"
       \/ /\ \E gone \in SUBSET (Named \ kept) :
                files' = [f \in Files |-> IF f \in gone THEN None ELSE files[f]]
          /\ home' \in {home, [home EXCEPT !.root = IF @ = "full" THEN "hollow" ELSE @]}
          /\ UNCHANGED <<there, kept, ended>>
    /\ at' = [s \in Submitters |-> "idle"] /\ role' = [s \in Submitters |-> "none"]
    /\ asks' = [s \in Submitters |-> None] /\ session' = [s \in Submitters |-> FALSE]
    /\ knows' = [s \in Submitters |-> "none"] /\ lock' = None
    /\ UNCHANGED <<bound, mode, registered, told, crowded, swept>>

(* What a submitter does by itself, but for running the run.               *)
Step(s) ==
    \/ MakeDir(s) \/ Adopt(s) \/ TakeOver(s) \/ Conflict(s)
    \/ Journal(s) \/ AppendRecord(s) \/ BeginCopy(s) \/ Unmark(s) \/ MakeCopy(s) \/ AddTree(s) \/ Copied(s)
    \/ WriteSnapshot(s) \/ SyncDir(s) \/ WriteConfig(s) \/ OpenLog(s)
    \/ AppendStarted(s) \/ CloseLog(s) \/ Accept(s) \/ Refused(s)
    \/ Launch(s) \/ LaunchRefused(s) \/ Release(s)
    \/ Abort(s) \/ RemoveDir(s)

(* The steps that may end the verification of the workspace.               *)
Settles(s) == Provision(s) \/ Mark(s) \/ Rename(s)
=============================================================================
