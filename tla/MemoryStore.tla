----------------------------- MODULE MemoryStore ----------------------------
(***************************************************************************)
(* The memory store (internal/memorystore): versions of records as files   *)
(* that are never rewritten, written by processes that share nothing but   *)
(* the directory.                                                          *)
(*                                                                         *)
(* A version names what it replaces, and the current versions of a record, *)
(* its heads, are those nothing replaces.  A writer that read a head takes *)
(* a claim on it, a file created exclusively, before it writes the version *)
(* that replaces it.  The first version of a record has nothing to claim.  *)
(*                                                                         *)
(* Abstractions.  A version is its content: its ID is the digest, so what  *)
(* is written twice is one file.  Bodies and the dimensions of retrieval   *)
(* (scope, sensitivity, purpose and so on) are left out; a writer always   *)
(* has the same thing to say, under its own origin.  Listing the directory *)
(* and reading its files is one step.  Removing a file and making that     *)
(* durable is one step.  Versions come from this code only: none is        *)
(* imported or edited.                                                     *)
(***************************************************************************)
EXTENDS Naturals, FiniteSets

CONSTANTS
    Records,        \* the record IDs
    Ephemeral,      \* records whose retention lets a sweep collect them
    Writers,        \* the processes
    Origins,        \* whom a version can come from
    OriginOf,       \* writer -> the origin it writes under
    Mishaps,        \* what can go wrong
    MaxMishaps,     \* bound: how much of it does, each kind once
    MaxVersions     \* bound: version files

Failures == {"claim", "create", "write", "sync", "release"}

ASSUME MemoryAssumption ==
    /\ Ephemeral \subseteq Records
    /\ OriginOf \in [Writers -> Origins]
    /\ Mishaps \subseteq Failures \cup {"crash", "power"}
    /\ MaxMishaps \in Nat /\ MaxVersions \in Nat

VARIABLES
    versions,       \* version file -> "torn" or "whole"
    claims,         \* version -> the successor its claim file names, if written
    unsynced,       \* files whose directory entry may not outlast a power loss
    dirty,          \* files whose content may not
    writers,        \* what every process is doing
    told,           \* versions acknowledged as <<version, "written" or "found">>
    mishaps,        \* what went wrong so far
    givenBack       \* history: what claims given back still stood for

files == <<versions, claims, unsynced, dirty>>
memoryVars == <<files, writers, told, mishaps, givenBack>>

Idle == [pc |-> "idle"]

MemoryInit ==
    /\ versions = [v \in {} |-> "whole"]
    /\ claims = [v \in {} |-> {}]
    /\ unsynced = {} /\ dirty = {}
    /\ writers = [p \in Writers |-> Idle]
    /\ told = {}
    /\ mishaps = {} /\ givenBack = {}

-----------------------------------------------------------------------------
(* Reading.                                                                *)

(* A version; "replaces" is empty for a first version, "retires" unless a  *)
(* fork was resolved.                                                      *)
Version(r, old, retired, kind, deleted, p) ==
    [record |-> r, replaces |-> old, retires |-> retired, kind |-> kind,
     deleted |-> deleted, origin |-> OriginOf[p]]

(* Versions: one file that does not decode fails the reading of them all.  *)
Readable == \A v \in DOMAIN versions : versions[v] = "whole"

Superseded == UNION {v.replaces : v \in DOMAIN versions}
Retired == UNION {v.retires : v \in DOMAIN versions}
Heads(r) == {v \in DOMAIN versions : v.record = r} \ (Superseded \cup Retired)
IsTip(t, r) == Heads(r) = {t}
Forked(r) == Cardinality(Heads(r)) > 1

(* What Retrieve presents of a record to a caller allowed to see it.       *)
Presented(r) ==
    {t \in Heads(r) : Readable /\ IsTip(t, r) /\ ~t.deleted /\ t.kind = "approved"}

-----------------------------------------------------------------------------
(* Put.  A version that replaces another starts with the claim, a first    *)
(* version with the file.  "rest" is what a sweep still has to expire.     *)

At(p, pc) == writers[p].pc = pc
Becomes(p, w) == writers' = [writers EXCEPT ![p] = w]
Goes(p, pc) == Becomes(p, [writers[p] EXCEPT !.pc = pc])

Put(p, v, rest) ==
    /\ v \in DOMAIN versions \/ Cardinality(DOMAIN versions) < MaxVersions
    /\ Becomes(p, [pc |-> IF v.replaces = {} THEN "create" ELSE "claim",
                   version |-> v, mine |-> FALSE, rest |-> rest])

Returns(p) ==
    Becomes(p, IF writers[p].rest = {} THEN Idle
               ELSE [pc |-> "sweep", rest |-> writers[p].rest])
Refused(p) == Becomes(p, Idle)

Replacing(p) == writers[p].version.replaces
NameOfClaim(v) == [kind |-> "claim", of |-> v]
NameOfVersion(v) == [kind |-> "version", of |-> v]

(* The verbs.  A refusal reads and changes nothing, so it is no step.      *)
Begin(p, r, kind) ==
    LET v == Version(r, {}, {}, kind, FALSE, p)
    IN /\ At(p, "idle") /\ Readable
       /\ \A w \in DOMAIN versions : w.record = r => w = v
       /\ Put(p, v, {})
       /\ UNCHANGED <<files, told, mishaps, givenBack>>

Correct_Tombstones(p, r) ==
    /\ At(p, "idle") /\ Readable
    /\ \E t \in Heads(r) :
          /\ IsTip(t, r)
          /\ Put(p, Version(r, {t}, {}, t.kind, FALSE, p), {})
    /\ UNCHANGED <<files, told, mishaps, givenBack>>
Correct(p, r) ==
    /\ At(p, "idle") /\ Readable
    /\ \E t \in Heads(r) :
          /\ IsTip(t, r) /\ ~t.deleted
          /\ Put(p, Version(r, {t}, {}, t.kind, FALSE, p), {})
    /\ UNCHANGED <<files, told, mishaps, givenBack>>

(* A tombstone has no body, and Validate refuses a live version without.   *)
Promote(p, r) ==
    /\ At(p, "idle") /\ Readable
    /\ \E t \in Heads(r) :
          /\ IsTip(t, r) /\ t.kind = "candidate" /\ ~t.deleted
          /\ Put(p, Version(r, {t}, {}, "approved", FALSE, p), {})
    /\ UNCHANGED <<files, told, mishaps, givenBack>>

(* Deletes the record r, for a caller or for a sweep with more to do.  A   *)
(* tombstone that is there already is the answer.                          *)
DeleteTip(p, r, rest) ==
    \E t \in Heads(r) :
        /\ IsTip(t, r)
        /\ IF t.deleted
           THEN /\ told' = told \cup {<<t, "found">>}
                /\ Becomes(p, IF rest = {} THEN Idle ELSE [pc |-> "sweep", rest |-> rest])
           ELSE /\ Put(p, Version(r, {t}, {}, t.kind, TRUE, p), rest)
                /\ UNCHANGED told

Delete(p, r) ==
    /\ At(p, "idle") /\ Readable
    /\ DeleteTip(p, r, {})
    /\ UNCHANGED <<files, mishaps, givenBack>>

Expire(p) ==
    LET live == {r \in Ephemeral : \E t \in Heads(r) : IsTip(t, r) /\ ~t.deleted}
    IN /\ At(p, "idle") /\ Readable /\ live # {}
       /\ Becomes(p, [pc |-> "sweep", rest |-> live])
       /\ UNCHANGED <<files, told, mishaps, givenBack>>

(* A record of a sweep that can no longer be deleted ends it.              *)
Sweep(p) ==
    /\ At(p, "sweep")
    /\ \E r \in writers[p].rest :
          IF Readable /\ Cardinality(Heads(r)) = 1
          THEN DeleteTip(p, r, writers[p].rest \ {r})
          ELSE Refused(p) /\ UNCHANGED told
    /\ UNCHANGED <<files, mishaps, givenBack>>

(* An operator keeps one head of a fork and retires the others.            *)
Resolve(p, r) ==
    /\ At(p, "idle") /\ Readable /\ Forked(r)
    /\ \E keep \in Heads(r) :
          Put(p, Version(r, {keep}, Heads(r) \ {keep}, keep.kind, keep.deleted, p), {})
    /\ UNCHANGED <<files, told, mishaps, givenBack>>

-----------------------------------------------------------------------------
(* claimSupersession.                                                      *)

TakeClaim(p, old) ==
    /\ claims' = [v \in DOMAIN claims \cup {old} |-> IF v = old THEN {} ELSE claims[v]]
    /\ unsynced' = unsynced \cup {NameOfClaim(old)}
    /\ dirty' = dirty \cup {NameOfClaim(old)}
    /\ Becomes(p, [writers[p] EXCEPT !.pc = "writeClaim", !.mine = TRUE])

(* Whether the claim on a version is there to be taken.                    *)
Unclaimed_Unfulfilled(old) ==
    \A v \in {old} \cap DOMAIN claims : claims[v] \cap DOMAIN versions = {}
Unclaimed(old) == old \notin DOMAIN claims

Claim(p) ==
    /\ At(p, "claim")
    /\ \E old \in Replacing(p) :
          \/ Unclaimed(old) /\ TakeClaim(p, old)
          \/ /\ ~Unclaimed(old)
             /\ IF claims[old] = {writers[p].version} THEN Goes(p, "create") ELSE Refused(p)
             /\ UNCHANGED <<claims, unsynced, dirty>>
    /\ UNCHANGED <<versions, told, mishaps, givenBack>>

WriteClaim(p) ==
    /\ At(p, "writeClaim")
    /\ claims' = [v \in DOMAIN claims |->
                     IF v \in Replacing(p) THEN {writers[p].version} ELSE claims[v]]
    /\ Goes(p, "syncClaim")
    /\ UNCHANGED <<versions, unsynced, dirty, told, mishaps, givenBack>>

(* The file, then the directory and with it every entry.                   *)
SyncClaim(p) ==
    /\ At(p, "syncClaim")
    /\ dirty' = dirty \ {NameOfClaim(v) : v \in Replacing(p)}
    /\ unsynced' = {}
    /\ Goes(p, "create")
    /\ UNCHANGED <<versions, claims, told, mishaps, givenBack>>

(* The version file, created exclusively.  The one that is there already   *)
(* is read and compared, and is the answer if it is whole, synced or not.  *)
Create(p) ==
    LET v == writers[p].version
    IN /\ At(p, "create")
       /\ IF v \notin DOMAIN versions
          THEN /\ versions' = [w \in DOMAIN versions \cup {v} |->
                                  IF w = v THEN "torn" ELSE versions[w]]
               /\ unsynced' = unsynced \cup {NameOfVersion(v)}
               /\ dirty' = dirty \cup {NameOfVersion(v)}
               /\ Goes(p, "write") /\ UNCHANGED told
          ELSE /\ IF versions[v] = "whole"
                  THEN Returns(p) /\ told' = told \cup {<<v, "found">>}
                  ELSE Goes(p, "rollback") /\ UNCHANGED told
               /\ UNCHANGED <<versions, unsynced, dirty>>
       /\ UNCHANGED <<claims, mishaps, givenBack>>

Write(p) ==
    /\ At(p, "write")
    /\ versions' = [versions EXCEPT ![writers[p].version] = "whole"]
    /\ Goes(p, "sync")
    /\ UNCHANGED <<claims, unsynced, dirty, told, mishaps, givenBack>>

Sync_FileOnly(p) ==
    /\ At(p, "sync")
    /\ dirty' = dirty \ {NameOfVersion(writers[p].version)}
    /\ told' = told \cup {<<writers[p].version, "written">>}
    /\ Returns(p)
    /\ UNCHANGED <<versions, claims, unsynced, mishaps, givenBack>>
Sync(p) ==
    /\ At(p, "sync")
    /\ dirty' = dirty \ {NameOfVersion(writers[p].version)}
    /\ unsynced' = {}
    /\ told' = told \cup {<<writers[p].version, "written">>}
    /\ Returns(p)
    /\ UNCHANGED <<versions, claims, mishaps, givenBack>>

(* releaseClaimAfterFailedWrite: a claim is released by its creator only.  *)
Mine(p) == writers[p].mine

Without(old) ==
    /\ claims' = [v \in DOMAIN claims \ old |-> claims[v]]
    /\ dirty' = dirty \ {NameOfClaim(v) : v \in old}
    /\ unsynced' = {}

(* Another writer of the same version goes on behind the claim p took, or  *)
(* was told that it wrote it.                                              *)
InUse(p) ==
    \/ <<writers[p].version, "written">> \in told
    \/ \E q \in Writers \ {p} :
          writers[q].pc \in {"create", "write", "sync"} /\ writers[q].version = writers[p].version
StandsFor(p) ==
    {x \in {"file"} : writers[p].version \in DOMAIN versions}
        \cup {x \in {"shared"} : InUse(p)}

Rollback(p) ==
    /\ At(p, "rollback")
    /\ IF Mine(p)
       THEN Without(Replacing(p)) /\ givenBack' = givenBack \cup StandsFor(p)
       ELSE UNCHANGED <<claims, unsynced, dirty, givenBack>>
    /\ Refused(p)
    /\ UNCHANGED <<versions, told, mishaps>>

(* ReleaseClaim, by an operator who made sure that no writer is at work.   *)
(* A claim whose successor has a file, whatever is in it, stays.           *)
Quiet == \A p \in Writers : At(p, "idle")

ReleaseClaim(old) ==
    /\ Quiet
    /\ old \in DOMAIN claims /\ claims[old] \cap DOMAIN versions = {}
    /\ Without({old})
    /\ UNCHANGED <<versions, writers, told, mishaps, givenBack>>

-----------------------------------------------------------------------------
(* Mishaps: a call that fails, the death of a process, a loss of power.    *)
Happens(kind) ==
    /\ kind \in Mishaps \ mishaps /\ Cardinality(mishaps) < MaxMishaps
    /\ mishaps' = mishaps \cup {kind}

FailedAt(pc) ==
    CASE pc \in {"writeClaim", "syncClaim"} -> "claim"
      [] pc = "create" -> "create"
      [] pc = "write" -> "write"
      [] pc = "sync" -> "sync"
      [] pc = "rollback" -> "release"
      [] OTHER -> "none"

(* A claim that could not be written is left where it is; a version that   *)
(* could not is left, and its claim goes back.                             *)
Fail(p) ==
    /\ Happens(FailedAt(writers[p].pc))
    /\ IF writers[p].pc \in {"writeClaim", "syncClaim", "rollback"}
       THEN Refused(p) ELSE Goes(p, "rollback")
    /\ UNCHANGED <<files, told, givenBack>>

Crash(p) ==
    /\ ~At(p, "idle")
    /\ Happens("crash")
    /\ Becomes(p, Idle)
    /\ UNCHANGED <<files, told, givenBack>>

(* What was not synced is lost or not, file by file; a file whose content  *)
(* is lost is empty.                                                       *)
PowerLoss ==
    /\ Happens("power")
    /\ \E gone \in SUBSET unsynced : \E emptied \in SUBSET (dirty \ gone) :
          /\ versions' =
                [v \in {v \in DOMAIN versions : NameOfVersion(v) \notin gone} |->
                    IF NameOfVersion(v) \in emptied THEN "torn" ELSE versions[v]]
          /\ claims' =
                [v \in {v \in DOMAIN claims : NameOfClaim(v) \notin gone} |->
                    IF NameOfClaim(v) \in emptied THEN {} ELSE claims[v]]
    /\ unsynced' = {} /\ dirty' = {}
    /\ writers' = [p \in Writers |-> Idle]
    /\ UNCHANGED <<told, givenBack>>

-----------------------------------------------------------------------------
WriterNext(p) ==
    \/ \E r \in Records :
          \/ \E kind \in {"approved", "candidate"} : Begin(p, r, kind)
          \/ Correct(p, r) \/ Promote(p, r) \/ Delete(p, r) \/ Resolve(p, r)
    \/ Expire(p) \/ Sweep(p)
    \/ Claim(p) \/ WriteClaim(p) \/ SyncClaim(p)
    \/ Create(p) \/ Write(p) \/ Sync(p) \/ Rollback(p)
    \/ Fail(p) \/ Crash(p)

MemoryNext ==
    \/ \E p \in Writers : WriterNext(p)
    \/ \E old \in DOMAIN claims : ReleaseClaim(old)
    \/ PowerLoss

MemorySpec == MemoryInit /\ [][MemoryNext]_memoryVars
=============================================================================
