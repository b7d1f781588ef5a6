------------------------- MODULE LogStoreProperties -------------------------
(* What internal/logstore promises of the log of a run, over LogStore.     *)
EXTENDS LogStore

Writing == {"recovering", "truncated", "removed", "scanning", "open"} \cup Appending

Record == [seq : Nat, batch : 1 .. MaxAppends, of : BatchSizes]
Cell   == [rec : Record, end : BOOLEAN]
Marker == {Absent, Empty} \cup [kind : {"at"}, offset : Nat]

(* The shape of the state; a store's size and head describe the same       *)
(* records, and it holds a batch exactly while it appends.                 *)
LogTypeOK ==
    /\ entry \in Inodes \cup {0}
    /\ \A i \in Inodes : held[i] \in Procs \cup {Nobody}
    /\ \A i \in Inodes : held[i] # Nobody => fd[held[i]] = i
    /\ \A p \in Procs : pc[p] \in Writing \cup {"new", "locking", "refused", "failed", "unlocked", "gone"}
    /\ \A p \in Procs : size[p] = 2 * head[p]
    /\ \A p \in Procs : pc[p] \notin {"gone"} => (todo[p] # <<>> <=> pc[p] \in Appending)
    /\ \A i \in DOMAIN log : log[i] \in Cell
    /\ \A i \in DOMAIN confirmed : confirmed[i] \in Record
    /\ marker \in Marker /\ lossMarker \subseteq Marker

(* What the disk may hold from now on: what it holds, and everything a     *)
(* power loss can leave of it.                                             *)
Disks == {<<log, marker>>} \cup (lossLog \X lossMarker)

Recovered(disk) == Records(Whole(Rolled(disk[1], disk[2])))

(* A record whose append returned, or that a later writer built on, is in  *)
(* the log after any crash (logstore.clearPending: "losing an acknowledged *)
(* write [...] is the one thing this package must never do").              *)
ConfirmedSurvives ==
    \A disk \in Disks : IsPrefix(confirmed, Recovered(disk))

(* The log never holds a glued line, a gap or a repeated sequence number   *)
(* behind its rollback point, whatever crashed or failed before            *)
(* (recoverAndScan refuses such a log for good).                           *)
NeverCorrupt ==
    \A disk \in Disks : Readable(Rolled(disk[1], disk[2]))

(* The log implements the append-only log of whole batches.                *)
Abstract == INSTANCE AtomicLog WITH visible <- Records(Whole(Rolled(log, marker)))
ImplementsAtomicLog == Abstract!Spec

(* What a lock-free read returned stays in the log, whoever is killed or   *)
(* fails and whoever cleans up, unless an Open undid a batch between the   *)
(* capture of the file and the second look at the marker, or the power     *)
(* failed before what was read was durable (readConfirmed).                *)
ServedStays == used.losses > 0 \/ served.undone \/ IsPrefix(served.lines, Whole(Rolled(log, marker)))

-----------------------------------------------------------------------------
(* At most one process is past the writer lock (ADR-0002, "written by a    *)
(* single writer"; docs/PROMPT-log-store.md section 2).                    *)
SingleWriter == Cardinality({p \in Procs : pc[p] \in Writing}) <= 1

(* A hard kill never costs more than the batch in flight: the next Open    *)
(* cleans up and goes on (recoverAndScan, appendLocked).                   *)
OpenAlwaysRecovers == \A p \in Procs : pc[p] # "refused"

(* A read never returns a byte that a rollback takes back (ReadConfirmed,  *)
(* "without exposing a byte covered by pending.commit").                   *)
ServedIsConfirmed == IsPrefix(served.lines, Whole(Rolled(log, marker)))

(* A follower that reads while a batch is being appended is not told the   *)
(* log is corrupt (pending_race_test.go).                                  *)
FollowersAreNotRefused == reader.at # "refused"
=============================================================================
