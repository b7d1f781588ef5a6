------------------------------ MODULE LogStore ------------------------------
(***************************************************************************)
(* The event log of one run (internal/logstore): a file of records, a      *)
(* marker file that brackets every batch, a lock file that names the one   *)
(* writer, and readers that take no lock.                                  *)
(*                                                                         *)
(* Processes open the log, append batches and close it; each may be killed *)
(* between any two system calls, the machine may lose power, and a system  *)
(* call of an append may fail.  A process identity is one life: a restart  *)
(* is another process.                                                     *)
(*                                                                         *)
(* A line of the file is two cells, its beginning and its newline, so that *)
(* torn lines and lines glued together exist; offsets count cells.  What a *)
(* power loss may leave of a file that was not yet synced is the set of    *)
(* contents in lossLog and lossMarker; a sync makes it a singleton.        *)
(*                                                                         *)
(* An operator named Op_Defect is operator Op with a bug such code could   *)
(* have; no action uses it.                                                *)
(***************************************************************************)
EXTENDS Naturals, Sequences, FiniteSets, SequencesExt, FiniteSetsExt

CONSTANTS
    Procs,          \* processes, one life each
    Nobody,         \* the holder of a free lock
    BatchSizes,     \* records an append may carry
    KeepsWriting,   \* whether a caller appends again after a failed append
    MaxAppends,     \* bound: appends begun
    MaxKills,       \* bound: processes killed
    MaxLosses,      \* bound: power losses
    MaxFaults,      \* bound: failing system calls
    MaxCloses,      \* bound: orderly closes
    MaxReads        \* bound: lock-free reads

ASSUME ProcsAssumption == IsFiniteSet(Procs) /\ Nobody \notin Procs

ASSUME BoundsAssumption ==
    /\ BatchSizes \subseteq Nat \ {0}
    /\ KeepsWriting \in BOOLEAN
    /\ {MaxAppends, MaxKills, MaxLosses, MaxFaults, MaxCloses, MaxReads} \subseteq Nat

VARIABLES
    entry,      \* the inode the lock path names, 0 when it names none
    held,       \* inode -> the process holding its lock, if any
    fd,         \* process -> the inode of its lock file
    pc,         \* process -> the next system call of it
    head, size, \* process -> Store.head and Store.size
    todo,       \* process -> the records of the append it is performing
    written,    \* process -> how many cells of them are in the file
    log, lossLog,
    marker, lossMarker,
    confirmed,  \* the records a writer was told are durable
    reader,     \* the lock-free reader: where it is, what it captured, and
                \* whether a rollback went on since it did
    served,     \* the complete lines the last lock-free read returned, and
                \* whether a rollback went on during it
    used        \* how often each bounded event happened

lockVars  == <<entry, held, fd>>
storeVars == <<head, size, todo, written>>
fileVars  == <<log, lossLog, marker, lossMarker>>
readVars  == <<reader, served>>
vars == <<lockVars, pc, storeVars, fileVars, confirmed, readVars, used>>

Inodes == 1 .. Cardinality(Procs)

Absent == [kind |-> "absent"]
Empty  == [kind |-> "empty"]
At(n)  == [kind |-> "at", offset |-> n]

Init ==
    /\ entry = 0
    /\ held = [i \in Inodes |-> Nobody]
    /\ fd = [p \in Procs |-> 0]
    /\ pc = [p \in Procs |-> "new"]
    /\ head = [p \in Procs |-> 0]
    /\ size = [p \in Procs |-> 0]
    /\ todo = [p \in Procs |-> <<>>]
    /\ written = [p \in Procs |-> 0]
    /\ log = <<>> /\ lossLog = {<<>>}
    /\ marker = Absent /\ lossMarker = {Absent}
    /\ confirmed = <<>>
    /\ reader = [at |-> "idle", raw |-> <<>>, undone |-> FALSE]
    /\ served = [lines |-> <<>>, undone |-> FALSE]
    /\ used = [appends |-> 0, kills |-> 0, losses |-> 0, faults |-> 0, closes |-> 0, reads |-> 0]

Spend(what, bound) ==
    /\ used[what] < bound
    /\ used' = [used EXCEPT ![what] = @ + 1]

Go(p, from, to) == pc[p] = from /\ pc' = [pc EXCEPT ![p] = to]

-----------------------------------------------------------------------------
(* Cells, lines and records.                                               *)

Begin(r) == [rec |-> r, end |-> FALSE]
End(r)   == [rec |-> r, end |-> TRUE]

Prefix(l, n) == SubSeq(l, 1, IF n < Len(l) THEN n ELSE Len(l))

CompleteEnd(l) == Max({0} \cup {i \in DOMAIN l : l[i].end})
Whole(l) == Prefix(l, CompleteEnd(l))

Records(l) == [i \in 1 .. Len(l) \div 2 |-> l[2 * i].rec]

(* Every complete line is one record and sequence numbers run 1, 2, 3, ... *)
Readable(l) ==
    \A i \in 1 .. CompleteEnd(l) :
        IF i % 2 = 1 THEN ~l[i].end
                     ELSE l[i].end /\ l[i - 1].rec = l[i].rec /\ l[i].rec.seq = i \div 2

(* The file after the rollback a marker asks for.                          *)
Rolled(l, m) == IF m.kind = "at" THEN Prefix(l, m.offset) ELSE l

Batch(p, k) ==
    [i \in 1 .. k |-> [seq |-> head[p] + i, batch |-> used.appends + 1, of |-> k]]

Cells(records) ==
    [i \in 1 .. 2 * Len(records) |->
        IF i % 2 = 1 THEN Begin(records[(i + 1) \div 2]) ELSE End(records[i \div 2])]

-----------------------------------------------------------------------------
(* Open: take the lock, undo a batch in flight, drop a torn tail, validate. *)

OpenLockFile(p) ==
    LET fresh == 1 + Max({0} \cup {fd[q] : q \in Procs})
        inode == IF entry = 0 THEN fresh ELSE entry
    IN /\ Go(p, "new", "locking")
       /\ entry' = inode
       /\ fd' = [fd EXCEPT ![p] = inode]
       /\ UNCHANGED <<held, storeVars, fileVars, confirmed, readVars, used>>

Flock(p) ==
    /\ Go(p, "locking", "recovering")
    /\ held[fd[p]] = Nobody
    /\ held' = [held EXCEPT ![fd[p]] = p]
    /\ UNCHANGED <<entry, fd, storeVars, fileVars, confirmed, readVars, used>>

FlockRefused(p) ==
    /\ Go(p, "locking", "gone")
    /\ held[fd[p]] # Nobody
    /\ UNCHANGED <<lockVars, storeVars, fileVars, confirmed, readVars, used>>

SetLog(l) == log' = l /\ lossLog' = {l}

(* rollbackPending: a marker that cannot be read leaves the boundary       *)
(* unknown and Open refuses.                                               *)
RefuseMarker(p) ==
    /\ marker = Empty
    /\ Go(p, "recovering", "refused")
    /\ UNCHANGED <<lockVars, storeVars, fileVars, confirmed, readVars, used>>

NothingPending(p) ==
    /\ marker = Absent
    /\ Go(p, "recovering", "scanning")
    /\ UNCHANGED <<lockVars, storeVars, fileVars, confirmed, readVars, used>>

TruncateBatch(p) ==
    /\ Go(p, "recovering", "truncated")
    /\ marker.kind = "at"
    /\ SetLog(Rolled(log, marker))
    /\ reader' = [reader EXCEPT !.undone = @ \/ reader.at = "captured"]
    /\ UNCHANGED <<lockVars, storeVars, marker, lossMarker, confirmed, served, used>>

RemoveMarker(p, from, to) ==
    /\ Go(p, from, to)
    /\ marker' = Absent
    /\ lossMarker' = lossMarker \cup {Absent}
    /\ UNCHANGED <<lockVars, storeVars, log, lossLog, confirmed, readVars, used>>

SyncMarker(p, from, to) ==
    /\ Go(p, from, to)
    /\ lossMarker' = {marker}
    /\ UNCHANGED <<lockVars, storeVars, log, lossLog, marker, confirmed, readVars, used>>

(* recoverAndScan refuses a log that is damaged before its tail; else it   *)
(* cuts a torn tail off, syncing the file only then, and the directory sync*)
(* ends Open: from here on this process builds on what it read.            *)
Scan(p) ==
    LET sound == Readable(log)
        kept == Whole(log)
    IN /\ Go(p, "scanning", IF sound THEN "open" ELSE "refused")
       /\ log' = IF sound THEN kept ELSE log
       /\ lossLog' = IF log' = log THEN lossLog ELSE {log'}
       /\ lossMarker' = IF sound THEN {marker} ELSE lossMarker
       /\ head' = IF sound THEN [head EXCEPT ![p] = Len(kept) \div 2] ELSE head
       /\ size' = IF sound THEN [size EXCEPT ![p] = Len(kept)] ELSE size
       /\ confirmed' = IF sound THEN Records(kept) ELSE confirmed
       /\ UNCHANGED <<lockVars, todo, written, marker, readVars, used>>

-----------------------------------------------------------------------------
(* Append: marker, batch, removal of the marker, each made durable before  *)
(* the next begins.                                                        *)

BeginAppend(p, k) ==
    /\ Go(p, "open", "marking")
    /\ Spend("appends", MaxAppends)
    /\ todo' = [todo EXCEPT ![p] = Batch(p, k)]
    /\ written' = [written EXCEPT ![p] = 0]
    /\ marker' = Empty
    /\ lossMarker' = lossMarker \cup {Empty}
    /\ UNCHANGED <<lockVars, head, size, log, lossLog, confirmed, readVars>>

WriteMarker(p) ==
    /\ Go(p, "marking", "marked")
    /\ marker' = At(size[p])
    /\ lossMarker' = lossMarker \cup {At(size[p])}
    /\ UNCHANGED <<lockVars, storeVars, log, lossLog, confirmed, readVars, used>>

MarkDurable(p) == SyncMarker(p, "marked", "writing")

(* The file is opened O_APPEND: the batch lands behind whatever is there.  *)
WriteCell(p) ==
    LET n == written[p] + 1
        cells == Cells(todo[p])
    IN /\ Go(p, "writing", IF n = Len(cells) THEN "written" ELSE "writing")
       /\ log' = Append(log, cells[n])
       /\ lossLog' = lossLog \cup {log'}
       /\ written' = [written EXCEPT ![p] = n]
       /\ UNCHANGED <<lockVars, head, size, todo, marker, lossMarker, confirmed, readVars, used>>

SyncLog_Skipped(p) ==
    /\ Go(p, "written", "synced")
    /\ UNCHANGED <<lockVars, storeVars, fileVars, confirmed, readVars, used>>

SyncLog(p) ==
    /\ Go(p, "written", "synced")
    /\ SetLog(log)
    /\ UNCHANGED <<lockVars, storeVars, marker, lossMarker, confirmed, readVars, used>>

ClearMarker(p) == RemoveMarker(p, "synced", "cleared")

Acknowledge_Unsynced(p) ==
    /\ Go(p, "cleared", "open")
    /\ head' = [head EXCEPT ![p] = @ + Len(todo[p])]
    /\ size' = [size EXCEPT ![p] = @ + 2 * Len(todo[p])]
    /\ confirmed' = confirmed \o todo[p]
    /\ todo' = [todo EXCEPT ![p] = <<>>]
    /\ UNCHANGED <<lockVars, written, fileVars, readVars, used>>

Acknowledge_HeadKept(p) ==
    /\ Go(p, "cleared", "open")
    /\ lossMarker' = {marker}
    /\ size' = [size EXCEPT ![p] = @ + 2 * Len(todo[p])]
    /\ confirmed' = confirmed \o todo[p]
    /\ todo' = [todo EXCEPT ![p] = <<>>]
    /\ UNCHANGED <<lockVars, head, written, log, lossLog, marker, readVars, used>>

Acknowledge(p) ==
    /\ Go(p, "cleared", "open")
    /\ lossMarker' = {marker}
    /\ head' = [head EXCEPT ![p] = @ + Len(todo[p])]
    /\ size' = [size EXCEPT ![p] = @ + 2 * Len(todo[p])]
    /\ confirmed' = confirmed \o todo[p]
    /\ todo' = [todo EXCEPT ![p] = <<>>]
    /\ UNCHANGED <<lockVars, written, log, lossLog, marker, readVars, used>>

(* A failing call ends the append with an error and leaves everything as   *)
(* it is: the next Open is to undo it.                                     *)
Appending == {"marking", "marked", "writing", "written", "synced", "cleared"}

Fault(p) ==
    /\ pc[p] \in Appending
    /\ Spend("faults", MaxFaults)
    /\ pc' = [pc EXCEPT ![p] = IF KeepsWriting THEN "open" ELSE "failed"]
    /\ todo' = [todo EXCEPT ![p] = <<>>]
    /\ UNCHANGED <<lockVars, head, size, written, fileVars, confirmed, readVars>>

-----------------------------------------------------------------------------
(* Close, and Open when it refuses: the lock is released first and the     *)
(* lock file removed by name after it.                                     *)
Unlock(p) ==
    /\ \/ pc[p] = "open" /\ Spend("closes", MaxCloses)
       \/ pc[p] \in {"failed", "refused"} /\ UNCHANGED used
    /\ pc' = [pc EXCEPT ![p] = "unlocked"]
    /\ held' = [held EXCEPT ![fd[p]] = Nobody]
    /\ UNCHANGED <<entry, fd, storeVars, fileVars, confirmed, readVars>>

Unlink(p) ==
    /\ Go(p, "unlocked", "gone")
    /\ entry' = 0
    /\ UNCHANGED <<held, fd, storeVars, fileVars, confirmed, readVars, used>>

Release(S) ==
    /\ pc' = [q \in Procs |-> IF q \in S /\ pc[q] # "new" THEN "gone" ELSE pc[q]]
    /\ held' = [i \in Inodes |-> IF held[i] \in S THEN Nobody ELSE held[i]]
    /\ UNCHANGED <<entry, fd, storeVars, confirmed>>

(* The operating system releases the locks of a dead process.              *)
Kill(p) ==
    /\ pc[p] \notin {"new", "gone"}
    /\ Spend("kills", MaxKills)
    /\ Release({p})
    /\ UNCHANGED <<fileVars, readVars>>

PowerLoss ==
    /\ Spend("losses", MaxLosses)
    /\ Release(Procs)
    /\ \E l \in lossLog : SetLog(l)
    /\ \E m \in lossMarker : marker' = m /\ lossMarker' = {m}
    /\ reader' = [at |-> "idle", raw |-> <<>>, undone |-> FALSE]
    /\ UNCHANGED served

-----------------------------------------------------------------------------
(* ReadConfirmed: the marker, the file, the marker again; the second       *)
(* marker decides how much of the captured file is confirmed.              *)
ReadRefused(from) ==
    /\ reader.at = from
    /\ marker = Empty
    /\ reader' = [reader EXCEPT !.at = "refused"]
    /\ UNCHANGED <<lockVars, pc, storeVars, fileVars, confirmed, served, used>>

ReadMarker ==
    /\ reader.at = "idle"
    /\ marker # Empty
    /\ Spend("reads", MaxReads)
    /\ reader' = [reader EXCEPT !.at = "marked"]
    /\ UNCHANGED <<lockVars, pc, storeVars, fileVars, confirmed, served>>

ReadLog ==
    /\ reader.at = "marked"
    /\ reader' = [at |-> "captured", raw |-> log, undone |-> FALSE]
    /\ UNCHANGED <<lockVars, pc, storeVars, fileVars, confirmed, served, used>>

Served_MarkerIgnored(raw) == Whole(raw)

Served(raw) == Whole(Rolled(raw, marker))

ReadMarkerAgain ==
    /\ reader.at = "captured"
    /\ marker # Empty
    /\ served' = [lines |-> Served(reader.raw), undone |-> reader.undone]
    /\ reader' = [reader EXCEPT !.at = "idle", !.raw = <<>>]
    /\ UNCHANGED <<lockVars, pc, storeVars, fileVars, confirmed, used>>

-----------------------------------------------------------------------------
OpenNext(p) ==
    \/ OpenLockFile(p) \/ Flock(p) \/ FlockRefused(p)
    \/ RefuseMarker(p) \/ NothingPending(p) \/ TruncateBatch(p)
    \/ RemoveMarker(p, "truncated", "removed")
    \/ SyncMarker(p, "removed", "scanning")
    \/ Scan(p)

AppendNext(p) ==
    \/ \E k \in BatchSizes : BeginAppend(p, k)
    \/ WriteMarker(p) \/ MarkDurable(p) \/ WriteCell(p) \/ SyncLog(p)
    \/ ClearMarker(p) \/ Acknowledge(p) \/ Fault(p)

ReadNext ==
    \/ ReadRefused("idle") \/ ReadRefused("captured")
    \/ ReadMarker \/ ReadLog \/ ReadMarkerAgain

Next ==
    \/ \E p \in Procs : OpenNext(p) \/ AppendNext(p) \/ Unlock(p) \/ Unlink(p) \/ Kill(p)
    \/ PowerLoss
    \/ ReadNext

Spec == Init /\ [][Next]_vars
=============================================================================
