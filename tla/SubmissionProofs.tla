-------------------------- MODULE SubmissionProofs --------------------------
(***************************************************************************)
(* Proofs about Submission, for any submitters, requests, callers and any  *)
(* number of mishaps.                                                      *)
(***************************************************************************)
EXTENDS SubmissionProperties, TLAPS

(* The worker.  A pass reads what was appended before it began, and the    *)
(* worker rests only behind a pass after which it executed nothing.  While *)
(* it rests no watcher is left that could take a token meant for it.       *)
SleepInv ==
    /\ DOMAIN call = Callers
    /\ worker \in {"redrain", "wait"} => watcher = "gone"
    /\ worker \in {"pass", "passed", "wait"} => ~unread
    /\ worker = "redrain" /\ unread => drained
    /\ worker = "wait" /\ commands # <<>> =>
          wake \/ stop \/ \E c \in Callers : call[c] = "sent"

-----------------------------------------------------------------------------
(* The intake.  The stages of a preparation, from taking the directory on  *)
(* to the acceptance or to its removal, and those of a worker.             *)
Stages ==
    {"journal", "prepared", "provision", "unmark", "mkcopy", "add", "copy", "mark", "rename",
     "started", "finished", "snapshot", "sync", "config", "open", "append", "close", "syncdir",
     "syncparent", "abort", "remove"}
Working ==
    {"provision", "unmark", "mkcopy", "add", "copy", "mark", "rename", "running", "release",
     "disown"}

(* The files a preparation has written when it reaches a stage, and those  *)
(* that are synced by then.                                                *)
Written(s) ==
    CASE at[s] \in {"sync", "config"} -> {"snapshot"}
      [] at[s] \in {"open", "append"} -> {"snapshot", "config"}
      [] at[s] \in {"close", "syncdir", "syncparent"} -> Files
      [] OTHER -> {}

SubmitterOK(s) ==
    /\ at[s] \in {"idle", "mkdir", "launch"} \cup Stages \cup Working
    /\ at[s] \in {"idle", "mkdir", "launch"} => role[s] = "none"
    /\ role[s] = "worker" => at[s] \in Working
    /\ at[s] \in Working => at[s] \in Stages \/ role[s] = "worker"
    /\ at[s] # "idle" => asks[s] \in Requests
    /\ Preparing(s) => there
    /\ at[s] \in {"append", "close"} => lock = s
    /\ \A f \in Written(s) : files[f] = asks[s]
    /\ at[s] = "syncparent" => Files \subseteq kept

IntakeShape ==
    /\ DOMAIN at = Submitters /\ DOMAIN asks = Submitters /\ DOMAIN role = Submitters
    /\ DOMAIN files = Files

(* However many prepare at once, only one of them publishes.               *)
OneWriter == \A s, p \in Submitters : Written(s) # {} /\ Written(p) # {} => s = p

SharesAreCrowded == \A s, p \in Submitters : Preparing(s) /\ Preparing(p) /\ s # p => crowded

(* Who still prepares when a request is published came next to the one     *)
(* that published it, and has written nothing.                             *)
Published(r) == <<r, "published">> \in told

PublishedIsKept ==
    \A r \in Requests : Published(r) =>
        /\ Whole(r) /\ Files \cup {"dir"} \subseteq kept
        /\ \A s \in Submitters : Preparing(s) => crowded /\ Written(s) = {}

Intact ==
    /\ IntakeShape /\ OneWriter /\ SharesAreCrowded /\ PublishedIsKept
    /\ \A s \in Submitters : SubmitterOK(s)

IntakeInv == swept \/ Intact
-----------------------------------------------------------------------------
(* What a step does to the worker.                                         *)
WorkerDies == Reset /\ DOMAIN call' = Callers

LEMMA WorkerCases ==
    ASSUME Acts
    PROVE  \/ UNCHANGED supVars
           \/ WorkerStarts \/ WorkerDies
           \/ \E c \in Callers : Send(c) \/ Signal(c) \/ SignalLate(c) \/ Return(c)
           \/ CloseWorker \/ WorkerStep \/ Watch \/ Settle
           \/ \E how : PassEnds(how)
<1>1. ASSUME NEW s \in Submitters, WorkerStepOf(s) \/ PassReturns(s) \/ Dies(s)
      PROVE  \/ UNCHANGED supVars \/ WorkerStarts \/ WorkerDies \/ Settle
             \/ \E how : PassEnds(how)
  <2>1. CASE Prepares(s)
    BY <2>1 DEF Prepares
  <2>2. CASE Releases(s) \/ Released(s) \/ Publishes(s)
    BY <2>2 DEF Releases, Released, Publishes
  <2>3. CASE Exits(s) \/ Dies(s)
    BY <2>3 DEF Exits, Dies, WorkerEnds, WorkerDies, Closed
  <2>4. CASE PassReturns(s)
    BY <2>4 DEF PassReturns
  <2> QED
    BY <1>1, <2>1, <2>2, <2>3, <2>4 DEF WorkerStepOf
<1>2. ASSUME Blackout PROVE WorkerDies
  BY <1>2 DEF Blackout, WorkerDies
<1> QED
  BY <1>1, <1>2 DEF Acts, SubmitterStep, WorkerWorks, Watches, Closes, Commands, CallerStep

LEMMA SleepStep == SleepInv /\ [Next]_vars => SleepInv'
<1> SUFFICES ASSUME SleepInv, [Next]_vars PROVE SleepInv'
  OBVIOUS
<1> USE DEF SleepInv
<1>1. CASE UNCHANGED supVars
  BY <1>1 DEF supVars
<1>2. CASE WorkerStarts
  BY <1>2 DEF WorkerStarts
<1>3. CASE WorkerDies
  BY <1>3 DEF WorkerDies, Reset
<1>4. ASSUME NEW c \in Callers, Send(c) PROVE SleepInv'
  BY <1>4 DEF Send
<1>5. ASSUME NEW c \in Callers, Signal(c) \/ SignalLate(c) PROVE SleepInv'
  BY <1>5 DEF Signal, SignalLate
<1>6. ASSUME NEW c \in Callers, Return(c) PROVE SleepInv'
  <2>1. \A d \in Callers : call[d] = "sent" => call'[d] = "sent"
    BY <1>6 DEF Return
  <2> QED
    BY <1>6, <2>1 DEF Return
<1>7. CASE CloseWorker
  BY <1>7 DEF CloseWorker
<1>8. CASE WorkerStep
  <2>1. CASE Top
    BY <2>1 DEF Top
  <2>2. CASE Execute
    BY <2>2 DEF Execute
  <2>3. CASE BeginPass
    BY <2>3 DEF BeginPass
  <2>4. CASE AfterPass
    BY <2>4 DEF AfterPass
  <2>5. CASE Wait
    BY <2>5 DEF Wait
  <2>6. CASE RejectPending
    BY <2>6 DEF RejectPending
  <2> QED
    BY <1>8, <2>1, <2>2, <2>3, <2>4, <2>5, <2>6 DEF WorkerStep
<1>9. CASE Watch
  BY <1>9 DEF Watch
<1>10. CASE Settle
  BY <1>10 DEF Settle
<1>11. ASSUME NEW how, PassEnds(how) PROVE SleepInv'
  BY <1>11 DEF PassEnds
<1> QED
  BY <1>1, <1>2, <1>3, <1>4, <1>5, <1>6, <1>7, <1>8, <1>9, <1>10, <1>11, WorkerCases
     DEF Next, Swept, vars, supVars

(* A worker sleeps only when there is nothing to do, whatever the intake   *)
(* of its run does in the meantime.                                        *)
THEOREM NoCommandIsSleptOn == Spec => []NothingSleeps
<1>1. Init => SleepInv
  BY DEF Init, SupInit, SleepInv
<1>2. SleepInv => NothingSleeps
  BY DEF SleepInv, NothingSleeps
<1> QED
  BY <1>1, <1>2, SleepStep, PTL DEF Spec
-----------------------------------------------------------------------------
(* What a step of the intake does to its submitter, and that it leaves the *)
(* others what they were.                                                  *)
Moves(s, pc) ==
    /\ IntakeShape'
    /\ at'[s] = pc /\ asks'[s] = (IF pc = "idle" THEN None ELSE asks[s])
    /\ \A q \in Submitters : q # s => at'[q] = at[q] /\ asks'[q] = asks[q]

LEMMA ToMoves ==
    ASSUME IntakeShape, NEW s \in Submitters, NEW pc, To(s, pc),
           DOMAIN role' = Submitters, DOMAIN files' = Files
    PROVE  Moves(s, pc)
  BY DEF IntakeShape, To, Moves

(* Nobody but s has begun to publish, and nothing was published.           *)
Sole(s) ==
    /\ \A q \in Submitters : q # s => Written(q) = {}
    /\ \A r \in Requests : ~Published(r)

LEMMA IntakeFrame ==
    ASSUME Intact, NEW s \in Submitters, NEW pc, Moves(s, pc), SubmitterOK(s)',
           \A q \in Submitters : q # s => role'[q] = role[q],
           \A r \in Requests : Published(r)' => Published(r),
           there => there', kept \subseteq kept', crowded => crowded',
           \A q \in Submitters : q # s /\ lock = q => lock' = q,
           files' = files \/ Sole(s),
           Written(s)' # {} => Sole(s),
           Preparing(s)' =>
              \/ Preparing(s)
              \/ /\ crowded' \/ \A q \in Submitters : ~Preparing(q)
                 /\ \A r \in Requests : ~Published(r)
    PROVE  Intact'
<1>1. ASSUME NEW q \in Submitters, q # s
      PROVE  at'[q] = at[q] /\ asks'[q] = asks[q] /\ role'[q] = role[q] /\ SubmitterOK(q)
  BY <1>1 DEF Intact, Moves
<1>2. IntakeShape'
  BY DEF Moves
<1>3. ASSUME NEW q \in Submitters, q # s
      PROVE  (Preparing(q)' <=> Preparing(q)) /\ Written(q)' = Written(q)
  BY <1>1, <1>3 DEF Preparing, Written
<1>4. ASSUME NEW q \in Submitters, q # s PROVE SubmitterOK(q)'
  <2>1. \A f \in Written(q) : files'[f] = files[f]
    BY <1>4 DEF Sole
  <2> QED
    BY <1>1, <1>3, <1>4, <2>1 DEF SubmitterOK
<1>5. OneWriter'
  BY <1>3 DEF Intact, OneWriter, Sole
<1>6. SharesAreCrowded'
  BY <1>3 DEF Intact, SharesAreCrowded
<1>7. ASSUME NEW r \in Requests, Published(r)'
      PROVE  /\ Whole(r)' /\ Files \cup {"dir"} \subseteq kept'
             /\ \A q \in Submitters : Preparing(q)' => crowded' /\ Written(q)' = {}
  <2>1. /\ Published(r) /\ Whole(r) /\ Files \cup {"dir"} \subseteq kept
        /\ \A q \in Submitters : Preparing(q) => crowded /\ Written(q) = {}
    BY <1>7 DEF Intact, PublishedIsKept
  <2>2. ~Sole(s)
    BY <2>1 DEF Sole
  <2> QED
    BY <1>3, <2>1, <2>2 DEF Whole
<1> QED
  BY <1>2, <1>4, <1>5, <1>6, <1>7 DEF Intact, PublishedIsKept

LEMMA NothingPublished ==
    ASSUME Intact, ~there \/ files["snapshot"] = None
    PROVE  \A r \in Requests : ~Published(r)
<1> SUFFICES ASSUME NEW r \in Requests, Published(r) PROVE FALSE
  OBVIOUS
<1>1. there /\ files["snapshot"] = r
  BY DEF Intact, PublishedIsKept, Whole, Files
<1> QED
  BY <1>1, IntakeAssumption

LEMMA OneBegins ==
    ASSUME Intact, NEW s \in Submitters, Written(s) # {} \/ files["snapshot"] = None
    PROVE  Sole(s)
<1>1. ASSUME NEW q \in Submitters, Written(q) # {}
      PROVE  files["snapshot"] \in Requests /\ Preparing(q)
  <2>1. SubmitterOK(q) /\ "snapshot" \in Written(q)
        /\ at[q] \in {"sync", "config", "open", "append", "close", "syncdir", "syncparent"}
    BY <1>1 DEF Intact, Written, Files
  <2> QED
    BY <2>1 DEF SubmitterOK, Preparing, Working
<1>2. CASE Written(s) # {}
  BY <1>1, <1>2 DEF Sole, Intact, OneWriter, PublishedIsKept
<1>3. CASE files["snapshot"] = None
  BY <1>1, <1>3, NothingPublished, IntakeAssumption DEF Sole
<1> QED
  BY <1>2, <1>3

(* Taking a directory on.                                                  *)
LEMMA ArrivalsKeep ==
    ASSUME Intact, NEW s \in Submitters,
           \/ Submit(s) \/ MakeDir(s) \/ Adopt(s) \/ TakeOver(s) \/ Conflict(s)
    PROVE  Intact'
<1>0. IntakeShape /\ SubmitterOK(s) /\ at[s] \in {"idle", "mkdir"} /\ role[s] = "none"
  BY DEF Intact, SubmitterOK, Submit, MakeDir, Adopt, TakeOver, Conflict
<1>1. ~Preparing(s) /\ Written(s) = {}
  BY <1>0 DEF Preparing, Written
<1>2. CASE Submit(s)
  <2>1. asks'[s] \in Requests /\ at'[s] = "mkdir" /\ role' = role
        /\ UNCHANGED <<files, kept, there, lock, told, crowded>>
        /\ IntakeShape' /\ \A q \in Submitters : q # s => at'[q] = at[q] /\ asks'[q] = asks[q]
    BY <1>0, <1>2, IntakeAssumption DEF IntakeShape, Submit
  <2>2. SubmitterOK(s)' /\ ~Preparing(s)' /\ Written(s)' = {}
    BY <1>0, <2>1 DEF SubmitterOK, Preparing, Stages, Working, Written
  <2>3. ASSUME NEW q \in Submitters, q # s
        PROVE  SubmitterOK(q)' /\ (Preparing(q)' <=> Preparing(q)) /\ Written(q)' = Written(q)
    BY <2>1, <2>3 DEF Intact, SubmitterOK, Preparing, Written
  <2>4. OneWriter' /\ SharesAreCrowded'
    BY <2>1, <2>2, <2>3 DEF Intact, OneWriter, SharesAreCrowded
  <2>5. PublishedIsKept'
    BY <2>1, <2>2, <2>3 DEF Intact, PublishedIsKept, Whole, Published
  <2> QED
    BY <2>1, <2>2, <2>3, <2>4, <2>5 DEF Intact
<1>3. CASE MakeDir(s)
  <2>1. /\ Moves(s, "journal") /\ at[s] = "mkdir" /\ there' /\ ~there /\ role'[s] = "owner"
        /\ UNCHANGED <<files, kept, lock, told>> /\ (crowded => crowded')
        /\ \A q \in Submitters : q # s => role'[q] = role[q]
    BY <1>0, <1>3, ToMoves DEF MakeDir, IntakeShape
  <2>2. SubmitterOK(s)' /\ Written(s)' = {}
    BY <1>0, <2>1 DEF Moves, SubmitterOK, Stages, Working, Written
  <2>3. \A q \in Submitters : ~Preparing(q)
    BY <2>1 DEF Intact, SubmitterOK
  <2>4. \A r \in Requests : ~Published(r)
    BY <2>1, NothingPublished
  <2>5. \A r \in Requests : Published(r)' => Published(r)
    BY <2>1 DEF Published
  <2> QED
    BY <2>1, <2>2, <2>3, <2>4, <2>5, IntakeFrame
<1>4. CASE Adopt(s)
  <2>1. /\ Moves(s, "launch") /\ at[s] = "mkdir"
        /\ told' = told \cup {<<asks[s], "adopted">>}
        /\ UNCHANGED <<there, files, kept, lock, role, crowded>>
    BY <1>0, <1>4, ToMoves DEF Adopt, IntakeShape
  <2>2. SubmitterOK(s)' /\ ~Preparing(s)' /\ Written(s)' = {}
    BY <1>0, <2>1 DEF Moves, SubmitterOK, Preparing, Stages, Working, Written
  <2>3. \A r \in Requests : Published(r)' => Published(r)
    BY <2>1 DEF Published
  <2> QED
    BY <2>1, <2>2, <2>3, IntakeFrame
<1>5. CASE TakeOver(s)
  <2>1. /\ Moves(s, "journal") /\ at[s] = "mkdir" /\ there /\ files["snapshot"] = None
        /\ UNCHANGED <<there, files, kept, lock, role, told>>
        /\ crowded' = (crowded \/ Others(s) # {})
    BY <1>0, <1>5, ToMoves DEF TakeOver, IntakeShape, Unpublished, Blank, Files
  <2>2. SubmitterOK(s)' /\ Written(s)' = {}
    BY <1>0, <2>1 DEF Moves, SubmitterOK, Stages, Working, Written
  <2>3. crowded' \/ \A q \in Submitters : ~Preparing(q)
    BY <1>1, <2>1 DEF Others
  <2>4. \A r \in Requests : ~Published(r)
    BY <2>1, NothingPublished
  <2>5. \A r \in Requests : Published(r)' => Published(r)
    BY <2>1 DEF Published
  <2> QED
    BY <2>1, <2>2, <2>3, <2>4, <2>5, IntakeFrame
<1>6. CASE Conflict(s)
  <2>1. /\ Moves(s, "idle")
        /\ UNCHANGED <<there, files, kept, lock, role, told, crowded>>
    BY <1>0, <1>6, ToMoves DEF Conflict, IntakeShape
  <2>2. SubmitterOK(s)' /\ ~Preparing(s)' /\ Written(s)' = {}
    BY <1>0, <2>1 DEF Moves, SubmitterOK, Preparing, Stages, Working, Written
  <2> QED
    BY <2>1, <2>2, IntakeFrame DEF Published
<1> QED
  BY <1>2, <1>3, <1>4, <1>5, <1>6

(* Preparing the workspace, as the owner of the directory, as who takes it *)
(* over, or as a worker that makes it again.                               *)
LEMMA WorkspaceStepsKeep ==
    ASSUME Intact, NEW s \in Submitters,
           \/ Journal(s) \/ AppendRecord(s) \/ BeginCopy(s) \/ Unmark(s) \/ MakeCopy(s)
           \/ AddTree(s) \/ Copied(s)
    PROVE  Intact'
<1>0. IntakeShape /\ SubmitterOK(s) /\ there
      /\ at[s] \in {"journal", "prepared", "started", "finished", "provision", "unmark",
                    "mkcopy", "add", "copy"}
  BY DEF Intact, Journal, AppendRecord, Before, BeginCopy, Unmark, MakeCopy, AddTree, Copied
<1>1. UNCHANGED <<files, kept, there, lock, told, crowded>>
  BY DEF Journal, AppendRecord, BeginCopy, Unmark, MakeCopy, AddTree, Copied
<1>2. CASE Journal(s) \/ AppendRecord(s)
  <2>1. PICK pc \in {"prepared", "provision", "finished", "snapshot"} : Moves(s, pc)
    <3>1. CASE Journal(s)
      BY <1>0, <3>1 DEF Journal, Moves, IntakeShape
    <3>2. CASE AppendRecord(s)
      <4>1. DOMAIN role' = Submitters /\ \E pc \in {"provision", "finished", "snapshot"} : To(s, pc)
        BY <1>0, <3>2 DEF AppendRecord, Before, IntakeShape
      <4> QED
        BY <1>0, <1>1, <4>1, ToMoves DEF IntakeShape
    <3> QED
      BY <1>2, <3>1, <3>2
  <2>2. /\ \A q \in Submitters : q # s => role'[q] = role[q]
        /\ role'[s] \in {"owner", role[s]}
    BY <1>0, <1>2 DEF Journal, AppendRecord, IntakeShape
  <2>3. Preparing(s)
    BY <1>0, <1>2 DEF Journal, AppendRecord, Before, SubmitterOK, Preparing, Stages, Working
  <2>4. SubmitterOK(s)' /\ Written(s)' = {}
    BY <1>0, <1>1, <2>1, <2>2, <2>3 DEF Moves, SubmitterOK, Preparing, Stages, Working, Written
  <2> QED
    BY <1>1, <2>1, <2>2, <2>3, <2>4, IntakeFrame DEF Published
<1>3. CASE BeginCopy(s) \/ Unmark(s) \/ MakeCopy(s) \/ AddTree(s) \/ Copied(s)
  <2>1. PICK pc \in {"unmark", "mkcopy", "add", "copy", "mark"} : To(s, pc)
    BY <1>3 DEF BeginCopy, Unmark, MakeCopy, AddTree, Copied
  <2>2. role' = role
    BY <1>3 DEF BeginCopy, Unmark, MakeCopy, AddTree, Copied
  <2>3. Moves(s, pc)
    BY <1>0, <1>1, <2>1, <2>2, ToMoves DEF IntakeShape
  <2>4. at[s] \in Stages /\ at'[s] \in Stages /\ at'[s] \in Working
    BY <1>0, <2>3 DEF Moves, Stages, Working
  <2>5. SubmitterOK(s)' /\ (Preparing(s)' => Preparing(s)) /\ Written(s)' = {}
    BY <1>0, <1>1, <2>1, <2>2, <2>3, <2>4 DEF Moves, SubmitterOK, Preparing, Written, Stages
  <2> QED
    BY <1>1, <2>2, <2>3, <2>5, IntakeFrame DEF Published
<1> QED
  BY <1>2, <1>3

LEMMA SettlingKeeps ==
    ASSUME Intact, NEW s \in Submitters, Settles(s)
    PROVE  Intact'
<1>0. IntakeShape /\ SubmitterOK(s) /\ there /\ at[s] \in {"provision", "mark", "rename"}
  BY DEF Intact, Settles, Provision, Mark, Rename
<1>1. UNCHANGED <<files, kept, there, lock, told, crowded>>
  BY DEF Settles, Provision, Mark, Rename
<1>2. Provisioned(s) \/ (To(s, "rename") /\ role' = role)
  BY DEF Settles, Provision, Mark, Rename
<1>3. PICK pc : /\ Moves(s, pc)
                /\ pc \in IF role[s] = "worker" THEN {"running", "rename"}
                          ELSE {"started", "finished", "snapshot", "rename"}
                /\ role'[s] = (IF pc = "snapshot" THEN "owner" ELSE role[s])
                /\ \A q \in Submitters : q # s => role'[q] = role[q]
  <2>1. CASE To(s, "rename") /\ role' = role
    BY <1>0, <1>1, <2>1, ToMoves DEF IntakeShape
  <2>2. CASE Provisioned(s)
    <3>1. \E pc \in {"running", "started", "finished", "snapshot"} :
            /\ at' = [at EXCEPT ![s] = pc] /\ asks' = asks
            /\ role' = [role EXCEPT ![s] = IF pc = "snapshot" THEN "owner" ELSE @]
            /\ role[s] = "worker" <=> pc = "running"
      <4>1. CASE role[s] = "worker"
        BY <2>2, <4>1 DEF Provisioned
      <4>2. CASE role[s] # "worker" /\ knows[s] = "prepared"
        BY <2>2, <4>2 DEF Provisioned
      <4>3. CASE role[s] # "worker" /\ knows[s] = "started"
        BY <2>2, <4>3 DEF Provisioned
      <4>4. CASE role[s] # "worker" /\ knows[s] \notin {"prepared", "started"}
        BY <2>2, <4>4 DEF Provisioned
      <4> QED
        BY <4>1, <4>2, <4>3, <4>4
    <3> QED
      BY <1>0, <1>1, <3>1 DEF Moves, IntakeShape
  <2> QED
    BY <1>2, <2>1, <2>2
<1>4. at[s] \in Stages
  BY <1>0 DEF Stages
<1>5. Preparing(s)' => Preparing(s)
  BY <1>0, <1>3 DEF Preparing
<1>6. SubmitterOK(s)' /\ Written(s)' = {}
  BY <1>0, <1>1, <1>3, <1>5 DEF Moves, SubmitterOK, Stages, Working, Written
<1> QED
  BY <1>1, <1>3, <1>5, <1>6, IntakeFrame DEF Published

(* Publishing.                                                             *)
LEMMA PublishingKeeps ==
    ASSUME Intact, NEW s \in Submitters,
           \/ WriteSnapshot(s) \/ SyncDir(s) \/ WriteConfig(s) \/ OpenLog(s)
           \/ AppendStarted(s) \/ CloseLog(s)
    PROVE  Intact'
<1>0. IntakeShape /\ SubmitterOK(s)
      /\ at[s] \in {"snapshot", "sync", "syncdir", "config", "open", "append", "close"}
  BY DEF Intact, WriteSnapshot, WriteConfig, Publish, SyncDir, OpenLog, AppendStarted, CloseLog
<1>1. /\ Preparing(s) /\ there /\ role[s] # "worker" /\ asks[s] # None /\ asks[s] \in Requests
      /\ Sole(s)
  <2>1. Written(s) # {} \/ files["snapshot"] = None
    BY <1>0 DEF Written, Files, WriteSnapshot, Publish, SyncDir, WriteConfig, OpenLog,
                AppendStarted, CloseLog
  <2> QED
    BY <1>0, <2>1, OneBegins, IntakeAssumption DEF SubmitterOK, Preparing, Stages, Working
<1>2. /\ UNCHANGED <<there, role, told, crowded>> /\ DOMAIN files' = Files /\ kept \subseteq kept'
      /\ \A q \in Submitters : q # s /\ lock = q => lock' = q
  BY <1>0, IntakeAssumption
     DEF WriteSnapshot, WriteConfig, Publish, SyncDir, OpenLog, AppendStarted, CloseLog,
         IntakeShape
<1>3. ASSUME NEW pc, Moves(s, pc), SubmitterOK(s)' PROVE Intact'
  BY <1>1, <1>2, <1>3, IntakeFrame DEF Published
<1>4. \A pc : To(s, pc) => Moves(s, pc)
  BY <1>0, <1>2, ToMoves DEF IntakeShape
<1> USE DEF Moves, SubmitterOK, Preparing, Stages, Working, Written, Files
<1>5. CASE WriteSnapshot(s)
  <2>1. Moves(s, "sync") /\ files'["snapshot"] = asks[s]
    BY <1>0, <1>4, <1>5 DEF WriteSnapshot, Publish, IntakeShape
  <2> QED
    BY <1>1, <1>2, <1>3, <2>1
<1>6. CASE WriteConfig(s)
  <2>1. Moves(s, "open") /\ files'["snapshot"] = files["snapshot"] /\ at[s] = "config"
        /\ files'["config"] = asks[s]
    BY <1>0, <1>4, <1>6 DEF WriteConfig, Publish, IntakeShape
  <2> QED
    BY <1>0, <1>1, <1>2, <1>3, <2>1
<1>7. CASE SyncDir(s)
  <2>1. CASE at[s] = "sync"
    <3>1. Moves(s, "config") /\ files' = files
      BY <1>4, <1>7, <2>1 DEF SyncDir
    <3> QED
      BY <1>0, <1>1, <1>2, <1>3, <2>1, <3>1
  <2>2. CASE at[s] = "syncdir"
    <3>1. Moves(s, "syncparent") /\ files' = files /\ kept' = kept \cup Named
      BY <1>4, <1>7, <2>2 DEF SyncDir
    <3>2. \A f \in Files : files[f] = asks[s]
      BY <1>0, <2>2
    <3>3. Files \subseteq kept'
      BY <1>1, <3>1, <3>2 DEF Named
    <3> QED
      BY <1>1, <1>2, <1>3, <3>1, <3>2, <3>3
  <2> QED
    BY <1>7, <2>1, <2>2 DEF SyncDir
<1>8. CASE OpenLog(s)
  <2>1. /\ Moves(s, "append") /\ lock' = s /\ at[s] = "open"
        /\ files'["snapshot"] = files["snapshot"] /\ files'["config"] = files["config"]
    BY <1>0, <1>4, <1>8 DEF OpenLog, IntakeShape
  <2> QED
    BY <1>0, <1>1, <1>2, <1>3, <2>1
<1>9. CASE AppendStarted(s)
  <2>1. /\ Moves(s, "close") /\ lock' = lock /\ at[s] = "append" /\ lock = s
        /\ files' = [files EXCEPT !["log"] = asks[s]]
    BY <1>0, <1>4, <1>9 DEF AppendStarted
  <2>2. \A f \in Files : files'[f] = asks[s]
    BY <1>0, <2>1 DEF IntakeShape
  <2> QED
    BY <1>1, <1>2, <1>3, <2>1, <2>2
<1>10. CASE CloseLog(s)
  <2>1. Moves(s, "syncdir") /\ files' = files /\ at[s] = "close"
    BY <1>4, <1>10 DEF CloseLog
  <2> QED
    BY <1>0, <1>1, <1>2, <1>3, <2>1
<1> QED
  BY <1>5, <1>6, <1>7, <1>8, <1>9, <1>10

LEMMA AcceptingKeeps ==
    ASSUME Intact, NEW s \in Submitters, Accept(s)
    PROVE  Intact'
<1>0. IntakeShape /\ SubmitterOK(s) /\ at[s] = "syncparent"
  BY DEF Intact, Accept
<1>1. Preparing(s) /\ there /\ asks[s] \in Requests /\ Written(s) = Files /\ Files # {}
  BY <1>0 DEF SubmitterOK, Preparing, Stages, Working, Written, Files
<1>2. /\ Moves(s, "launch") /\ UNCHANGED <<there, files, lock, crowded>>
      /\ kept' = kept \cup {"dir"} /\ told' = told \cup {<<asks[s], "published">>}
      /\ role'[s] = "none" /\ \A q \in Submitters : q # s => role'[q] = role[q]
  BY <1>0, <1>1, ToMoves DEF Accept, IntakeShape
<1>3. Whole(asks[s]) /\ Files \subseteq kept
  BY <1>0, <1>1 DEF SubmitterOK, Whole
<1>4. SubmitterOK(s)' /\ ~Preparing(s)' /\ Written(s)' = {}
  BY <1>0, <1>2 DEF Moves, SubmitterOK, Preparing, Stages, Working, Written
<1>5. ASSUME NEW q \in Submitters, q # s
      PROVE  /\ SubmitterOK(q)' /\ Written(q)' = {} /\ (Preparing(q)' <=> Preparing(q))
             /\ Preparing(q) => crowded
  <2>1. /\ at'[q] = at[q] /\ asks'[q] = asks[q] /\ role'[q] = role[q] /\ SubmitterOK(q)
        /\ Written(q) = {} /\ (Preparing(q) => crowded)
    BY <1>1, <1>2, <1>5, OneBegins DEF Intact, Moves, Sole, SharesAreCrowded
  <2>2. (Preparing(q)' <=> Preparing(q)) /\ Written(q)' = {}
    BY <2>1 DEF Preparing, Written
  <2>3. SubmitterOK(q)'
    BY <1>2, <2>1, <2>2 DEF SubmitterOK
  <2> QED
    BY <2>1, <2>2, <2>3
<1>6. \A r \in Requests : Published(r)' => r = asks[s]
  BY <1>1, <1>2, OneBegins DEF Sole, Published
<1>7. PublishedIsKept'
  BY <1>2, <1>3, <1>4, <1>5, <1>6 DEF PublishedIsKept, Whole
<1>8. OneWriter' /\ SharesAreCrowded'
  BY <1>2, <1>4, <1>5 DEF OneWriter, SharesAreCrowded
<1> QED
  BY <1>2, <1>4, <1>5, <1>7, <1>8 DEF Intact, Moves

(* The worker of the run.                                                  *)
LEMMA WorkerStepsKeep ==
    ASSUME Intact, NEW s \in Submitters,
           Launch(s) \/ LaunchRefused(s) \/ Release(s) \/ BeginRelease(s) \/ Disown(s)
    PROVE  Intact'
<1>0. IntakeShape /\ SubmitterOK(s) /\ at[s] \in {"launch", "running", "release", "disown"}
  BY DEF Intact, Launch, LaunchRefused, Release, BeginRelease, Disown
<1>1. /\ UNCHANGED <<files, kept, there, told, crowded>>
      /\ \A q \in Submitters : q # s /\ lock = q => lock' = q
      /\ \A q \in Submitters : q # s => role'[q] = role[q]
      /\ DOMAIN role' = Submitters
  BY <1>0, IntakeAssumption
     DEF Launch, LaunchRefused, Release, BeginRelease, Disown, IntakeShape
<1>2. \A pc : To(s, pc) => Moves(s, pc)
  BY <1>0, <1>1, ToMoves DEF IntakeShape
<1>3. at[s] # "launch" => role[s] = "worker"
  BY <1>0 DEF SubmitterOK, Stages, Working
<1>4. PICK pc \in {"provision", "idle", "disown", "release", "running"} :
        /\ Moves(s, pc)
        /\ pc # "idle" => role'[s] = "worker"
        /\ pc = "idle" => role'[s] = "none"
  <2>1. CASE Launch(s)
    BY <1>0, <1>2, <2>1 DEF Launch, IntakeShape
  <2>2. CASE LaunchRefused(s)
    BY <1>0, <1>2, <2>2 DEF LaunchRefused, SubmitterOK
  <2>3. CASE Release(s) \/ BeginRelease(s) \/ Disown(s)
    BY <1>2, <1>3, <2>3 DEF Release, BeginRelease, Disown
  <2> QED
    BY <2>1, <2>2, <2>3
<1>5. SubmitterOK(s)' /\ ~Preparing(s)' /\ Written(s)' = {}
  BY <1>0, <1>4 DEF Moves, SubmitterOK, Preparing, Stages, Working, Written
<1> QED
  BY <1>1, <1>4, <1>5, IntakeFrame DEF Published

(* Giving up, by an error of its own or of the file system, by a kill, or  *)
(* because the run is over.                                                *)
LEMMA GivingUpKeeps ==
    ASSUME Intact, NEW s \in Submitters, GivesUp(s),
           UNCHANGED <<files, kept, there, told, crowded>>
    PROVE  Intact'
<1>0. IntakeShape /\ SubmitterOK(s)
  BY DEF Intact
<1>1. /\ \A q \in Submitters : q # s /\ lock = q => lock' = q
      /\ \A q \in Submitters : q # s => role'[q] = role[q]
      /\ role'[s] = (IF role[s] = "owner" THEN "owner" ELSE "none")
      /\ DOMAIN role' = Submitters
  BY <1>0, IntakeAssumption DEF GivesUp, IntakeShape
<1>2. Moves(s, IF role[s] = "owner" THEN "abort" ELSE "idle")
  BY <1>0, <1>1, ToMoves DEF GivesUp, IntakeShape
<1>3. CASE role[s] = "owner"
  <2>1. Preparing(s) /\ there /\ at[s] # "idle"
    BY <1>0, <1>3 DEF SubmitterOK, Preparing, Stages, Working
  <2>2. SubmitterOK(s)' /\ Written(s)' = {}
    BY <1>0, <1>1, <1>2, <1>3, <2>1 DEF Moves, SubmitterOK, Stages, Working, Written
  <2> QED
    BY <1>1, <1>2, <2>1, <2>2, IntakeFrame DEF Published
<1>4. CASE role[s] # "owner"
  <2>1. SubmitterOK(s)' /\ ~Preparing(s)' /\ Written(s)' = {}
    BY <1>0, <1>1, <1>2, <1>4 DEF Moves, SubmitterOK, Preparing, Stages, Working, Written
  <2> QED
    BY <1>1, <1>2, <2>1, IntakeFrame DEF Published
<1> QED
  BY <1>3, <1>4

LEMMA EndingsKeep ==
    ASSUME Intact, NEW s \in Submitters, Abort(s) \/ Kill(s)
    PROVE  Intact'
<1>0. IntakeShape /\ SubmitterOK(s)
  BY DEF Intact
<1>1. CASE Abort(s)
  <2>1. /\ Moves(s, "remove") /\ at[s] = "abort"
        /\ UNCHANGED <<files, kept, there, lock, role, told, crowded>>
    BY <1>0, <1>1, ToMoves DEF Abort, IntakeShape
  <2>2. Preparing(s)
    BY <1>0, <2>1 DEF SubmitterOK, Preparing, Stages, Working
  <2>3. SubmitterOK(s)' /\ Written(s)' = {}
    BY <1>0, <2>1, <2>2 DEF Moves, SubmitterOK, Preparing, Stages, Working, Written
  <2> QED
    BY <2>1, <2>2, <2>3, IntakeFrame DEF Published
<1>2. CASE Kill(s)
  <2>1. /\ Moves(s, "idle") /\ UNCHANGED <<files, kept, there, told, crowded>> /\ role'[s] = "none"
        /\ \A q \in Submitters : q # s => role'[q] = role[q]
        /\ \A q \in Submitters : q # s /\ lock = q => lock' = q
    BY <1>0, <1>2, ToMoves DEF Kill, IntakeShape
  <2>2. SubmitterOK(s)' /\ ~Preparing(s)' /\ Written(s)' = {}
    BY <2>1 DEF Moves, SubmitterOK, Preparing, Stages, Working, Written
  <2> QED
    BY <2>1, <2>2, IntakeFrame DEF Published
<1> QED
  BY <1>1, <1>2

(* The directory goes.  Whoever removes it prepares in it: that nobody     *)
(* else does and that nothing is published is what an unswept job means.   *)
LEMMA RemovingKeeps ==
    ASSUME Intact, NEW s \in Submitters, RemoveDir(s), ~swept'
    PROVE  Intact'
<1>1. IntakeShape /\ SubmitterOK(s) /\ at[s] = "remove" /\ ~Displaces(s)
  BY DEF Intact, RemoveDir
<1>2. /\ Moves(s, "idle") /\ told' = told /\ role'[s] = "none"
      /\ \A q \in Submitters : q # s => role'[q] = role[q]
  BY <1>1, ToMoves DEF RemoveDir, IntakeShape, Blank
<1>3. Preparing(s)
  BY <1>1 DEF SubmitterOK, Preparing, Stages, Working
<1>4. SubmitterOK(s)' /\ Written(s)' = {} /\ ~Preparing(s)'
  BY <1>2 DEF Moves, SubmitterOK, Preparing, Stages, Working, Written
<1>5. \A r \in Requests : ~Published(r)'
  BY <1>1, <1>2, <1>3 DEF Displaces, Published, Intact, PublishedIsKept
<1>6. ASSUME NEW q \in Submitters, q # s
      PROVE  SubmitterOK(q)' /\ Written(q)' = {} /\ ~Preparing(q)'
  <2>1. /\ at'[q] = at[q] /\ asks'[q] = asks[q] /\ role'[q] = role[q]
        /\ SubmitterOK(q) /\ ~Preparing(q)
    BY <1>1, <1>2, <1>3, <1>6 DEF Intact, Moves, SharesAreCrowded, Displaces, Others
  <2>2. ~Preparing(q)' /\ Written(q)' = {} /\ at[q] \notin {"append", "close", "syncparent"}
    BY <2>1 DEF SubmitterOK, Preparing, Written, Stages, Working
  <2> QED
    BY <2>1, <2>2 DEF SubmitterOK
<1> QED
  BY <1>2, <1>4, <1>5, <1>6 DEF Intact, OneWriter, SharesAreCrowded, PublishedIsKept, Moves

LEMMA LosingPowerKeeps ==
    ASSUME Intact, Power
    PROVE  Intact'
<1>1. /\ IntakeShape' /\ told' = told
      /\ \A s \in Submitters : at'[s] = "idle" /\ role'[s] = "none"
  BY DEF Intact, IntakeShape, Power, Blank
<1>2. \A s \in Submitters : SubmitterOK(s)' /\ ~Preparing(s)' /\ Written(s)' = {}
  BY <1>1 DEF SubmitterOK, Preparing, Stages, Working, Written
<1>3. ASSUME NEW r \in Requests, Published(r)
      PROVE  Whole(r)' /\ Files \cup {"dir"} \subseteq kept'
  <2>1. there /\ (\A f \in Files : files[f] = r) /\ Files \cup {"dir"} \subseteq kept
    BY <1>3 DEF Intact, PublishedIsKept, Whole
  <2>2. PICK gone \in SUBSET (Named \ kept) :
          /\ files' = [f \in Files |-> IF f \in gone THEN None ELSE files[f]]
          /\ UNCHANGED <<there, kept>>
    BY <2>1 DEF Power
  <2> QED
    BY <2>1, <2>2 DEF Whole
<1> QED
  BY <1>1, <1>2, <1>3
     DEF Intact, OneWriter, SharesAreCrowded, PublishedIsKept, Published

(* A step that none of these variables notices.                            *)
LEMMA IntakeStutters ==
    ASSUME Intact, UNCHANGED <<at, asks, role, files, kept, there, lock, told, crowded>>
    PROVE  Intact'
  BY DEF Intact, IntakeShape, OneWriter, SharesAreCrowded, PublishedIsKept, SubmitterOK,
         Preparing, Written, Published, Whole

LEMMA IntakeStep ==
    ASSUME Intact, Acts, ~swept'
    PROVE  Intact'
<1>1. ASSUME UNCHANGED intakeVars PROVE Intact'
  BY <1>1, IntakeStutters DEF intakeVars
<1>2. ASSUME NEW s \in Submitters, Refused(s) \/ Fails(s) \/ RunStops(s) PROVE Intact'
  BY <1>2, GivingUpKeeps DEF Refused, Fails, RunStops
<1>3. ASSUME NEW s \in Submitters, Step(s) PROVE Intact'
  BY <1>2, <1>3, ArrivalsKeep, WorkspaceStepsKeep, PublishingKeeps, AcceptingKeeps,
     WorkerStepsKeep, EndingsKeep, RemovingKeeps DEF Step
<1>4. ASSUME NEW s \in Submitters, WorkerStepOf(s) PROVE Intact'
  <2>1. CASE Prepares(s)
    BY <2>1, SettlingKeeps DEF Prepares
  <2>2. CASE Releases(s) \/ Released(s)
    BY <2>2, WorkerStepsKeep DEF Releases, Released
  <2>3. CASE Publishes(s)
    BY <1>1, <2>3 DEF Publishes
  <2>4. CASE Exits(s)
    BY <1>2, <2>4 DEF Exits
  <2> QED
    BY <1>4, <2>1, <2>2, <2>3, <2>4 DEF WorkerStepOf
<1>5. ASSUME NEW s \in Submitters, PassReturns(s) PROVE Intact'
  <2>1. ASSUME NEW how, RunEnds(s, how) PROVE Intact'
    BY <2>1, IntakeStutters DEF RunEnds
  <2> QED
    BY <1>1, <1>5, <2>1 DEF PassReturns
<1>6. ASSUME NEW s \in Submitters, Dies(s) PROVE Intact'
  BY <1>6, EndingsKeep DEF Dies
<1>7. ASSUME NEW s \in Submitters, Submit(s) PROVE Intact'
  BY <1>7, ArrivalsKeep
<1>8. ASSUME Blackout PROVE Intact'
  BY <1>8, LosingPowerKeeps DEF Blackout
<1> QED
  BY <1>1, <1>2, <1>3, <1>4, <1>5, <1>6, <1>7, <1>8
     DEF Acts, SubmitterStep, WorkerWorks, Watches, Closes, Commands, CallerStep

(* Once the job is swept it stays so.                                      *)
LEMMA SweptIsTheEnd == swept /\ [Next]_vars => swept'
  BY DEF Next, Swept, vars, intakeVars

(* A job whose publication was acknowledged keeps what was published,      *)
(* however many processes submit it at once and whatever fails, until one  *)
(* of two that were preparing in its directory removes that directory.     *)
THEOREM PublicationsStay == Spec => []PublishedStays
<1>1. Init => IntakeInv
  <2> SUFFICES ASSUME Init PROVE Intact
    BY DEF IntakeInv
  <2>1. /\ IntakeShape /\ told = {}
        /\ \A s \in Submitters : at[s] = "idle" /\ role[s] = "none"
    BY DEF Init, IntakeInit, IntakeShape, Blank
  <2>2. \A s \in Submitters : SubmitterOK(s) /\ ~Preparing(s) /\ Written(s) = {}
    BY <2>1 DEF SubmitterOK, Preparing, Stages, Working, Written
  <2> QED
    BY <2>1, <2>2
       DEF Intact, OneWriter, SharesAreCrowded, PublishedIsKept, Published
<1>2. IntakeInv /\ [Next]_vars => IntakeInv'
  <2> SUFFICES ASSUME Intact, [Next]_vars, ~swept' PROVE Intact'
    BY SweptIsTheEnd DEF IntakeInv
  <2>1. CASE Acts
    BY <2>1, IntakeStep
  <2>2. CASE UNCHANGED vars
    BY <2>2, IntakeStutters DEF vars, intakeVars
  <2> QED
    BY <2>1, <2>2 DEF Next, Swept
<1>3. IntakeInv => PublishedStays
  BY DEF IntakeInv, Intact, PublishedIsKept, PublishedStays, Published
<1> QED
  BY <1>1, <1>2, <1>3, PTL DEF Spec
=============================================================================
