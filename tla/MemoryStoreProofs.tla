------------------------- MODULE MemoryStoreProofs --------------------------
(***************************************************************************)
(* Proofs about MemoryStore, for any records, writers, origins and any     *)
(* number of versions and mishaps.                                         *)
(***************************************************************************)
EXTENDS MemoryStoreProperties, TLAPS

USE DEF files

(* The stages of Put, where a writer holds the version it writes.          *)
Stages == {"claim", "writeClaim", "syncClaim", "create", "write", "sync", "rollback"}
Busy(p) == writers[p].pc \in Stages
Ours(p) == writers[p].version

(* What the steps below need of types: a writer outside Put holds nothing, *)
(* one inside holds a version that replaces one version, or none when there*)
(* is nothing to claim.                                                    *)
StageOK(p) ==
    /\ writers[p].pc \in Stages \cup {"idle", "sweep"}
    /\ Busy(p) =>
          /\ writers[p] = [pc |-> writers[p].pc, version |-> Ours(p),
                           mine |-> writers[p].mine, rest |-> writers[p].rest]
          /\ Ours(p).replaces = {} \/ \E old \in Ours(p).replaces : Ours(p).replaces = {old}
          /\ writers[p].mine \in BOOLEAN
          /\ writers[p].pc = "claim" => ~writers[p].mine
          /\ writers[p].pc \in {"writeClaim", "syncClaim"} => writers[p].mine

MemoryShape ==
    /\ writers = [p \in Writers |-> writers[p]]
    /\ versions = [v \in DOMAIN versions |-> versions[v]]
    /\ claims = [v \in DOMAIN claims |-> claims[v]]
    /\ \A p \in Writers : StageOK(p)

(* A version file is complete and beyond any loss from the moment its      *)
(* writer is told, and whole from its writing on; one that was found stays *)
(* until power is lost.                                                    *)
Lasting ==
    /\ \A v : Owed(v) => v \in DOMAIN versions /\ versions[v] = "whole"
    /\ \A v : Wrote(v) => NameOfVersion(v) \notin unsynced \cup dirty
    /\ \A p \in Writers :
          /\ At(p, "write") => Ours(p) \in DOMAIN versions
          /\ At(p, "sync") => Ours(p) \in DOMAIN versions /\ versions[Ours(p)] = "whole"

-----------------------------------------------------------------------------
(* The writer p took the claim on old and has not given it back.           *)
Holds(p, old) == Busy(p) /\ writers[p].mine /\ old \in Replacing(p)
(* The claim on old names v.                                               *)
Names(old, v) == old \in DOMAIN claims /\ claims[old] = {v}
(* The version v replaces old for good: its file cannot be lost, and no    *)
(* writer that saw old as current is left.                                 *)
Settled(v, old) ==
    /\ v \in DOMAIN versions /\ NameOfVersion(v) \notin unsynced
    /\ \A q \in Writers : Busy(q) => old \notin Replacing(q)
Replaced(v, old) == Names(old, v) \/ Settled(v, old)

(* Beyond its claim: the claim file, if there was one to take, names the   *)
(* version p writes.                                                       *)
Beyond(p) ==
    \/ writers[p].pc \in {"syncClaim", "create", "write", "sync"}
    \/ At(p, "rollback") /\ writers[p].mine
(* A claim has one holder; who passed it is named by it.                   *)
HolderOK(p) ==
    \A old \in Replacing(p) :
        /\ writers[p].mine =>
              /\ old \in DOMAIN claims
              /\ \A q \in Writers : Holds(q, old) => p = q
        /\ At(p, "writeClaim") => claims[old] = {}
        /\ Beyond(p) => Names(old, Ours(p))
OneHolder == \A p \in Writers : Busy(p) => HolderOK(p)

(* Until a claim is given back whose version file stays, what exists       *)
(* replaces alone.                                                         *)
WrittenOnce ==
    "file" \in givenBack \/
        /\ OneSuccessor
        /\ \A v \in DOMAIN versions : \A old \in v.replaces : Replaced(v, old)

(* In any case what its writer was told of replaces alone.                 *)
ToldOnce ==
    /\ \A v, w : Wrote(v) /\ Wrote(w) /\ v.replaces \cap w.replaces # {} => v = w
    /\ \A v : Wrote(v) => \A old \in v.replaces : Replaced(v, old)

MemoryInv == MemoryShape /\ Lasting
Exclusion == OneHolder /\ WrittenOnce /\ ToldOnce
(* All of it until a claim is given back that another writer relies on.    *)
ExclusionInv == MemoryInv /\ ("shared" \in givenBack \/ Exclusion)

-----------------------------------------------------------------------------
(* The steps.  Those that begin a verb or go on with a sweep read the      *)
(* directory and change one writer only, or answer with a tombstone that   *)
(* is there; Reads says what they leave the writer with.                   *)
Fresh(v) ==
    \/ v.replaces = {} /\ v.retires = {}
    \/ \E t \in Heads(v.record) :
          /\ v.replaces = {t} /\ v.retires \subseteq Heads(v.record)
          /\ t.deleted => v.deleted

Puts(p, v, rest) ==
    Becomes(p, [pc |-> IF v.replaces = {} THEN "create" ELSE "claim",
                version |-> v, mine |-> FALSE, rest |-> rest])

Finds ==
    \E v \in DOMAIN versions : versions[v] = "whole" /\ told' = told \cup {<<v, "found">>}

Reads(p) ==
    /\ UNCHANGED <<files, mishaps, givenBack>>
    /\ told' = told \/ Finds
    /\ \/ \E w : w.pc \in {"idle", "sweep"} /\ Becomes(p, w)
       \/ \E v, rest : Fresh(v) /\ Puts(p, v, rest)

LEMMA DeletingReads ==
    ASSUME NEW p \in Writers, NEW r, NEW rest, Readable, DeleteTip(p, r, rest),
           UNCHANGED <<files, mishaps, givenBack>>
    PROVE  Reads(p)
<1>1. PICK t \in Heads(r) :
        IF t.deleted
        THEN /\ told' = told \cup {<<t, "found">>}
             /\ Becomes(p, IF rest = {} THEN Idle ELSE [pc |-> "sweep", rest |-> rest])
        ELSE Put(p, Version(r, {t}, {}, t.kind, TRUE, p), rest) /\ UNCHANGED told
  BY DEF DeleteTip
<1>2. CASE t.deleted
  <2> DEFINE w == IF rest = {} THEN Idle ELSE [pc |-> "sweep", rest |-> rest]
  <2>1. w.pc \in {"idle", "sweep"} /\ Becomes(p, w)
    BY <1>1, <1>2 DEF Idle
  <2>2. Finds
    BY <1>1, <1>2 DEF Finds, Readable, Heads
  <2> QED
    BY <2>1, <2>2 DEF Reads
<1>3. CASE ~t.deleted
  <2> DEFINE v == Version(r, {t}, {}, t.kind, TRUE, p)
  <2>1. Fresh(v)
    BY DEF Fresh, Version
  <2>2. Puts(p, v, rest)
    BY <1>1, <1>3 DEF Put, Puts
  <2> QED
    BY <1>1, <1>3, <2>1, <2>2 DEF Reads
<1> QED
  BY <1>2, <1>3

LEMMA VerbsRead ==
    ASSUME NEW p \in Writers, NEW r,
           \/ \E kind \in {"approved", "candidate"} : Begin(p, r, kind)
           \/ Correct(p, r) \/ Promote(p, r) \/ Delete(p, r) \/ Resolve(p, r)
    PROVE  Reads(p)
<1>1. ASSUME NEW kind, Begin(p, r, kind) PROVE Reads(p)
  <2> DEFINE v == Version(r, {}, {}, kind, FALSE, p)
  <2>1. Fresh(v)
    BY DEF Fresh, Version
  <2>2. Puts(p, v, {}) /\ UNCHANGED <<files, told, mishaps, givenBack>>
    BY <1>1 DEF Begin, Put, Puts
  <2> QED
    BY <2>1, <2>2 DEF Reads
<1>2. ASSUME Correct(p, r) PROVE Reads(p)
  <2>1. PICK t \in Heads(r) : ~t.deleted /\ Put(p, Version(r, {t}, {}, t.kind, FALSE, p), {})
    BY <1>2 DEF Correct
  <2> DEFINE v == Version(r, {t}, {}, t.kind, FALSE, p)
  <2>2. Fresh(v)
    BY <2>1 DEF Fresh, Version
  <2>3. Puts(p, v, {}) /\ UNCHANGED <<files, told, mishaps, givenBack>>
    BY <1>2, <2>1 DEF Correct, Put, Puts
  <2> QED
    BY <2>2, <2>3 DEF Reads
<1>3. ASSUME Promote(p, r) PROVE Reads(p)
  <2>1. PICK t \in Heads(r) : ~t.deleted /\ Put(p, Version(r, {t}, {}, "approved", FALSE, p), {})
    BY <1>3 DEF Promote
  <2> DEFINE v == Version(r, {t}, {}, "approved", FALSE, p)
  <2>2. Fresh(v)
    BY <2>1 DEF Fresh, Version
  <2>3. Puts(p, v, {}) /\ UNCHANGED <<files, told, mishaps, givenBack>>
    BY <1>3, <2>1 DEF Promote, Put, Puts
  <2> QED
    BY <2>2, <2>3 DEF Reads
<1>4. ASSUME Delete(p, r) PROVE Reads(p)
  BY <1>4, DeletingReads DEF Delete
<1>5. ASSUME Resolve(p, r) PROVE Reads(p)
  <2>1. PICK t \in Heads(r) :
          Put(p, Version(r, {t}, Heads(r) \ {t}, t.kind, t.deleted, p), {})
    BY <1>5 DEF Resolve
  <2> DEFINE v == Version(r, {t}, Heads(r) \ {t}, t.kind, t.deleted, p)
  <2>2. Fresh(v)
    BY <2>1 DEF Fresh, Version
  <2>3. Puts(p, v, {}) /\ UNCHANGED <<files, told, mishaps, givenBack>>
    BY <1>5, <2>1 DEF Resolve, Put, Puts
  <2> QED
    BY <2>2, <2>3 DEF Reads
<1> QED
  BY <1>1, <1>2, <1>3, <1>4, <1>5

LEMMA SweepsRead ==
    ASSUME NEW p \in Writers, Expire(p) \/ Sweep(p)
    PROVE  Reads(p)
<1>1. ASSUME Expire(p) PROVE Reads(p)
  <2>1. PICK live : /\ UNCHANGED <<files, told, mishaps, givenBack>>
                    /\ Becomes(p, [pc |-> "sweep", rest |-> live])
    BY <1>1 DEF Expire
  <2> QED
    BY <2>1 DEF Reads
<1>2. ASSUME Sweep(p) PROVE Reads(p)
  <2>1. /\ UNCHANGED <<files, mishaps, givenBack>>
        /\ \E r : \/ Readable /\ DeleteTip(p, r, writers[p].rest \ {r})
                  \/ Refused(p) /\ UNCHANGED told
    BY <1>2 DEF Sweep
  <2>2. ASSUME Refused(p), UNCHANGED told PROVE Reads(p)
    BY <2>1, <2>2 DEF Refused, Reads, Idle
  <2> QED
    BY <2>1, <2>2, DeletingReads
<1> QED
  BY <1>1, <1>2

LEMMA MemoryCases ==
    ASSUME MemoryNext
    PROVE  \/ \E p \in Writers : Reads(p)
           \/ \E p \in Writers : Claim(p)
           \/ \E p \in Writers : WriteClaim(p)
           \/ \E p \in Writers : SyncClaim(p)
           \/ \E p \in Writers : Create(p)
           \/ \E p \in Writers : Write(p)
           \/ \E p \in Writers : Sync(p)
           \/ \E p \in Writers : Rollback(p)
           \/ \E p \in Writers : Fail(p)
           \/ \E p \in Writers : Crash(p)
           \/ \E old \in DOMAIN claims : ReleaseClaim(old)
           \/ PowerLoss
  BY VerbsRead, SweepsRead DEF MemoryNext, WriterNext
-----------------------------------------------------------------------------
(* What a step does to the writers.                                        *)
LEMMA OneMoves ==
    ASSUME MemoryShape, NEW p \in Writers, NEW w, Becomes(p, w)
    PROVE  /\ writers' = [q \in Writers |-> writers'[q]]
           /\ writers'[p] = w
           /\ \A q \in Writers : q # p => writers'[q] = writers[q]
  BY DEF MemoryShape, Becomes

LEMMA Rests ==
    ASSUME MemoryShape, NEW p \in Writers, Returns(p) \/ Refused(p)
    PROVE  \E w : w.pc \in {"idle", "sweep"} /\ Becomes(p, w)
<1>1. CASE Refused(p)
  BY <1>1 DEF Refused, Idle
<1>2. CASE Returns(p)
  <2> DEFINE w == IF writers[p].rest = {} THEN Idle
                  ELSE [pc |-> "sweep", rest |-> writers[p].rest]
  <2>1. w.pc \in {"idle", "sweep"}
    BY DEF Idle
  <2> QED
    BY <1>2, <2>1 DEF Returns
<1> QED
  BY <1>1, <1>2

LEMMA Resting ==
    ASSUME MemoryShape, NEW p \in Writers, Returns(p) \/ Refused(p)
    PROVE  /\ writers' = [q \in Writers |-> writers'[q]]
           /\ writers'[p].pc \in {"idle", "sweep"} /\ ~Busy(p)'
           /\ \A q \in Writers : q # p => writers'[q] = writers[q]
<1>1. PICK w : w.pc \in {"idle", "sweep"} /\ Becomes(p, w)
  BY Rests
<1> QED
  BY <1>1, OneMoves DEF Busy, Stages

LEMMA Reading ==
    ASSUME MemoryShape, NEW p \in Writers, Reads(p)
    PROVE  /\ UNCHANGED <<files, mishaps, givenBack>>
           /\ told' = told \/ Finds
           /\ writers' = [q \in Writers |-> writers'[q]]
           /\ \A q \in Writers : q # p => writers'[q] = writers[q]
           /\ \/ writers'[p].pc \in {"idle", "sweep"} /\ ~Busy(p)'
              \/ /\ Fresh(Ours(p)') /\ Busy(p)' /\ ~writers'[p].mine
                 /\ writers'[p].pc = IF Ours(p)'.replaces = {} THEN "create" ELSE "claim"
<1>1. ASSUME NEW w, w.pc \in {"idle", "sweep"}, Becomes(p, w)
      PROVE  /\ writers' = [q \in Writers |-> writers'[q]]
             /\ \A q \in Writers : q # p => writers'[q] = writers[q]
             /\ writers'[p].pc \in {"idle", "sweep"} /\ ~Busy(p)'
  BY <1>1, OneMoves DEF Busy, Stages
<1>2. ASSUME NEW v, NEW rest, Fresh(v), Puts(p, v, rest)
      PROVE  /\ writers' = [q \in Writers |-> writers'[q]]
             /\ \A q \in Writers : q # p => writers'[q] = writers[q]
             /\ Fresh(Ours(p)') /\ Busy(p)' /\ ~writers'[p].mine
             /\ writers'[p].pc = IF Ours(p)'.replaces = {} THEN "create" ELSE "claim"
  <2>1. /\ writers' = [q \in Writers |-> writers'[q]]
        /\ \A q \in Writers : q # p => writers'[q] = writers[q]
        /\ writers'[p] = [pc |-> IF v.replaces = {} THEN "create" ELSE "claim",
                          version |-> v, mine |-> FALSE, rest |-> rest]
    BY <1>2, OneMoves DEF Puts
  <2>2. /\ Ours(p)' = v /\ ~writers'[p].mine
        /\ writers'[p].pc = IF v.replaces = {} THEN "create" ELSE "claim"
    BY <2>1 DEF Ours
  <2> QED
    BY <1>2, <2>1, <2>2 DEF Busy, Stages
<1> QED
  BY <1>1, <1>2 DEF Reads

LEMMA Goings ==
    ASSUME MemoryShape, NEW p \in Writers, Busy(p), NEW pc, Goes(p, pc)
    PROVE  /\ writers' = [q \in Writers |-> writers'[q]]
           /\ writers'[p].pc = pc /\ Ours(p)' = Ours(p)
           /\ writers'[p].mine = writers[p].mine
           /\ writers'[p] = [pc |-> writers'[p].pc, version |-> Ours(p)',
                             mine |-> writers'[p].mine, rest |-> writers'[p].rest]
           /\ \A q \in Writers : q # p => writers'[q] = writers[q]
<1>1. writers[p] = [pc |-> writers[p].pc, version |-> Ours(p),
                    mine |-> writers[p].mine, rest |-> writers[p].rest]
  BY DEF MemoryShape, StageOK
<1>2. [writers[p] EXCEPT !.pc = pc]
        = [pc |-> pc, version |-> Ours(p), mine |-> writers[p].mine, rest |-> writers[p].rest]
  BY <1>1
<1>3. /\ writers' = [q \in Writers |-> writers'[q]]
      /\ writers'[p] = [pc |-> pc, version |-> Ours(p),
                        mine |-> writers[p].mine, rest |-> writers[p].rest]
      /\ \A q \in Writers : q # p => writers'[q] = writers[q]
  BY <1>2 DEF MemoryShape, Goes, Becomes
<1> QED
  BY <1>3 DEF Ours

LEMMA Leaving ==
    ASSUME MemoryShape, NEW p \in Writers, Busy(p),
           Returns(p) \/ Refused(p) \/ Goes(p, "rollback")
    PROVE  /\ writers'[p].pc \in {"idle", "sweep", "rollback"}
           /\ \A q \in Writers : q # p => writers'[q] = writers[q]
<1>1. CASE Goes(p, "rollback")
  BY <1>1, Goings
<1>2. CASE Returns(p) \/ Refused(p)
  BY <1>2, Resting
<1> QED
  BY <1>1, <1>2

LEMMA Holding ==
    ASSUME NEW t, NEW w,
           t = [pc |-> t.pc, version |-> t.version, mine |-> t.mine, rest |-> t.rest],
           w = [t EXCEPT !.pc = "writeClaim", !.mine = TRUE]
    PROVE  /\ w.pc = "writeClaim" /\ w.version = t.version /\ w.mine = TRUE
           /\ w = [pc |-> w.pc, version |-> w.version, mine |-> w.mine, rest |-> w.rest]
  OBVIOUS

LEMMA Takings ==
    ASSUME MemoryShape, NEW p \in Writers, Busy(p), NEW old, TakeClaim(p, old)
    PROVE  /\ writers' = [q \in Writers |-> writers'[q]]
           /\ writers'[p].pc = "writeClaim" /\ Ours(p)' = Ours(p) /\ writers'[p].mine
           /\ writers'[p] = [pc |-> writers'[p].pc, version |-> Ours(p)',
                             mine |-> writers'[p].mine, rest |-> writers'[p].rest]
           /\ writers'[p].mine \in BOOLEAN
           /\ \A q \in Writers : q # p => writers'[q] = writers[q]
<1>1. writers[p] = [pc |-> writers[p].pc, version |-> Ours(p),
                    mine |-> writers[p].mine, rest |-> writers[p].rest]
  BY DEF MemoryShape, StageOK
<1>0. PICK w : w = [writers[p] EXCEPT !.pc = "writeClaim", !.mine = TRUE]
  OBVIOUS
<1>2. /\ w.pc = "writeClaim" /\ w.version = Ours(p) /\ w.mine = TRUE
      /\ w = [pc |-> w.pc, version |-> w.version, mine |-> w.mine, rest |-> w.rest]
  BY <1>0, <1>1, Holding, Zenon DEF Ours
<1>3. Becomes(p, w)
  BY <1>0 DEF TakeClaim
<1>4. writers' = [q \in Writers |-> writers'[q]] /\ writers'[p] = w
  BY <1>3, OneMoves
<1> QED
  BY <1>2, <1>3, <1>4, OneMoves DEF Ours

(* The shape is kept when one writer rests or goes on, or all are gone.    *)
FilesOK ==
    /\ versions = [v \in DOMAIN versions |-> versions[v]]
    /\ claims = [v \in DOMAIN claims |-> claims[v]]

LEMMA RestKeepsShape ==
    ASSUME MemoryShape, FilesOK', NEW p \in Writers, NEW w, Becomes(p, w),
           w.pc \in {"idle", "sweep"}
    PROVE  MemoryShape'
<1>1. StageOK(p)'
  BY OneMoves DEF StageOK, Busy, Stages
<1>2. ASSUME NEW q \in Writers, q # p PROVE StageOK(q)'
  BY <1>2, OneMoves DEF MemoryShape, StageOK, Busy, Ours
<1> QED
  BY <1>1, <1>2, OneMoves DEF MemoryShape, FilesOK

LEMMA GoingKeepsShape ==
    ASSUME MemoryShape, FilesOK', NEW p \in Writers, Busy(p), NEW pc, Goes(p, pc),
           pc \in {"syncClaim"} => writers[p].mine,
           pc \in {"syncClaim", "create", "write", "sync", "rollback"}
    PROVE  MemoryShape'
<1>0. /\ writers' = [q \in Writers |-> writers'[q]]
      /\ writers'[p].pc = pc /\ Ours(p)' = Ours(p)
      /\ writers'[p].mine = writers[p].mine
      /\ writers'[p] = [pc |-> writers'[p].pc, version |-> Ours(p)',
                        mine |-> writers'[p].mine, rest |-> writers'[p].rest]
      /\ \A q \in Writers : q # p => writers'[q] = writers[q]
  BY Goings
<1>1. StageOK(p)'
  BY <1>0 DEF MemoryShape, StageOK, Busy, Ours, Stages
<1>2. ASSUME NEW q \in Writers, q # p PROVE StageOK(q)'
  BY <1>0, <1>2 DEF MemoryShape, StageOK, Busy, Ours
<1> QED
  BY <1>0, <1>1, <1>2 DEF MemoryShape, FilesOK

LEMMA ShapeInit == MemoryInit => MemoryShape
<1> SUFFICES ASSUME MemoryInit PROVE MemoryShape
  OBVIOUS
<1>1. \A p \in Writers : writers[p].pc = "idle"
  BY DEF MemoryInit, Idle
<1> QED
  BY <1>1 DEF MemoryInit, MemoryShape, StageOK, Busy, Stages

(* What is told grows by what its writer synced, or by what is there.      *)
Tells ==
    /\ \A v : Wrote(v)' => Wrote(v)
    /\ \A v : Owed(v)' => Owed(v) \/ (v \in DOMAIN versions /\ versions[v] = "whole")

LEMMA TellsNothing ==
    ASSUME told' = told, mishaps \subseteq mishaps'
    PROVE  Tells
  BY DEF Tells, Owed, Wrote, Happened

LEMMA TellsFound ==
    ASSUME Finds, mishaps' = mishaps
    PROVE  Tells
<1>1. PICK v \in DOMAIN versions : versions[v] = "whole" /\ told' = told \cup {<<v, "found">>}
  BY DEF Finds
<1>2. \A w : <<w, "written">> # <<v, "found">>
  OBVIOUS
<1>3. \A w : <<w, "found">> = <<v, "found">> => w = v
  OBVIOUS
<1> QED
  BY <1>1, <1>2, <1>3 DEF Tells, Owed, Wrote, Happened

(* Where a failure can strike, and where it leads.                         *)
LEMMA Failing ==
    ASSUME MemoryShape, NEW p \in Writers, Fail(p)
    PROVE  /\ UNCHANGED <<files, told, givenBack>>
           /\ mishaps \subseteq mishaps'
           /\ \/ writers[p].pc \in {"writeClaim", "syncClaim", "rollback"} /\ Refused(p)
              \/ writers[p].pc \in {"create", "write", "sync"} /\ Goes(p, "rollback")
<1>1. FailedAt(writers[p].pc) \in Mishaps
  BY DEF Fail, Happens
<1>2. "none" \notin Mishaps
  BY MemoryAssumption DEF Failures
<1>3. writers[p].pc \in {"writeClaim", "syncClaim", "rollback", "create", "write", "sync"}
  BY <1>1, <1>2 DEF FailedAt
<1>4. /\ UNCHANGED <<files, told, givenBack>>
      /\ mishaps' = mishaps \cup {FailedAt(writers[p].pc)}
      /\ IF writers[p].pc \in {"writeClaim", "syncClaim", "rollback"}
         THEN Refused(p) ELSE Goes(p, "rollback")
  BY DEF Fail, Happens
<1> QED
  BY <1>3, <1>4

LEMMA ShapeStep == MemoryShape /\ [MemoryNext]_memoryVars => MemoryShape'
<1> SUFFICES ASSUME MemoryShape, [MemoryNext]_memoryVars PROVE MemoryShape'
  OBVIOUS
<1> USE DEF At
<1>1. ASSUME NEW p \in Writers, Reads(p) PROVE MemoryShape'
  <2>0. FilesOK'
    BY <1>1 DEF Reads, FilesOK, MemoryShape
  <2>1. ASSUME NEW w, w.pc \in {"idle", "sweep"}, Becomes(p, w) PROVE MemoryShape'
    BY <2>0, <2>1, RestKeepsShape
  <2>2. ASSUME NEW v, NEW rest, Fresh(v), Puts(p, v, rest) PROVE MemoryShape'
    <3> DEFINE w == [pc |-> IF v.replaces = {} THEN "create" ELSE "claim",
                     version |-> v, mine |-> FALSE, rest |-> rest]
    <3>0. Becomes(p, w)
      BY <2>2 DEF Puts
    <3>1. writers'[p] = w /\ writers' = [q \in Writers |-> writers'[q]]
      BY <3>0, OneMoves
    <3>2. StageOK(p)'
      BY <2>2, <3>1 DEF StageOK, Busy, Ours, Stages, Fresh
    <3>3. ASSUME NEW q \in Writers, q # p PROVE StageOK(q)'
      BY <3>0, <3>3, OneMoves DEF MemoryShape, StageOK, Busy, Ours
    <3> QED
      BY <2>0, <3>1, <3>2, <3>3 DEF MemoryShape, FilesOK
  <2> QED
    BY <1>1, <2>1, <2>2 DEF Reads
<1>2. ASSUME NEW p \in Writers, Claim(p) PROVE MemoryShape'
  <2>0. PICK old \in Replacing(p) :
          \/ TakeClaim(p, old)
          \/ (Goes(p, "create") \/ Refused(p)) /\ UNCHANGED <<claims, unsynced, dirty>>
    BY <1>2 DEF Claim
  <2>1. Busy(p) /\ UNCHANGED versions
    BY <1>2 DEF Claim, Busy, Stages
  <2>2. CASE TakeClaim(p, old)
    <3>1. FilesOK'
      BY <2>1, <2>2 DEF TakeClaim, FilesOK, MemoryShape
    <3>0. \A q \in Writers : q # p => writers'[q] = writers[q]
      BY <2>1, <2>2, Takings
    <3>2. StageOK(p)'
      BY <2>1, <2>2, Takings DEF MemoryShape, StageOK, Busy, Stages
    <3>3. ASSUME NEW q \in Writers, q # p PROVE StageOK(q)'
      BY <3>0, <3>3 DEF MemoryShape, StageOK, Busy, Ours
    <3> QED
      BY <2>1, <2>2, <3>1, <3>2, <3>3, Takings DEF MemoryShape, FilesOK
  <2>3. CASE (Goes(p, "create") \/ Refused(p)) /\ UNCHANGED <<claims, unsynced, dirty>>
    BY <2>1, <2>3, GoingKeepsShape, RestKeepsShape, Rests DEF FilesOK, MemoryShape
  <2> QED
    BY <2>0, <2>2, <2>3
<1>3. ASSUME NEW p \in Writers, WriteClaim(p) PROVE MemoryShape'
  <2>1. Busy(p) /\ FilesOK' /\ Goes(p, "syncClaim") /\ writers[p].mine
    BY <1>3 DEF WriteClaim, Busy, Stages, FilesOK, MemoryShape, StageOK
  <2> QED
    BY <2>1, GoingKeepsShape
<1>4. ASSUME NEW p \in Writers, SyncClaim(p) PROVE MemoryShape'
  <2>1. Busy(p) /\ FilesOK' /\ Goes(p, "create")
    BY <1>4 DEF SyncClaim, Busy, Stages, FilesOK, MemoryShape
  <2> QED
    BY <2>1, GoingKeepsShape
<1>5. ASSUME NEW p \in Writers, Create(p) PROVE MemoryShape'
  <2>1. Busy(p) /\ FilesOK'
    BY <1>5 DEF Create, Busy, Stages, FilesOK, MemoryShape
  <2>2. Goes(p, "write") \/ Goes(p, "rollback") \/ Returns(p)
    BY <1>5 DEF Create
  <2> QED
    BY <2>1, <2>2, GoingKeepsShape, RestKeepsShape, Rests
<1>6. ASSUME NEW p \in Writers, Write(p) PROVE MemoryShape'
  <2>1. Busy(p) /\ FilesOK' /\ Goes(p, "sync")
    BY <1>6 DEF Write, Busy, Stages, FilesOK, MemoryShape
  <2> QED
    BY <2>1, GoingKeepsShape
<1>7. ASSUME NEW p \in Writers, Sync(p) \/ Rollback(p) \/ Crash(p) PROVE MemoryShape'
  <2>1. FilesOK'
    BY <1>7 DEF Sync, Rollback, Crash, Without, FilesOK, MemoryShape
  <2>2. Returns(p) \/ Refused(p)
    BY <1>7 DEF Sync, Rollback, Crash, Refused
  <2> QED
    BY <2>1, <2>2, RestKeepsShape, Rests
<1>8. ASSUME NEW p \in Writers, Fail(p) PROVE MemoryShape'
  <2>1. FilesOK'
    BY <1>8, Failing DEF FilesOK, MemoryShape
  <2>2. Refused(p) \/ (Busy(p) /\ Goes(p, "rollback"))
    BY <1>8, Failing DEF Busy, Stages
  <2> QED
    BY <2>1, <2>2, GoingKeepsShape, RestKeepsShape, Rests
<1>9. ASSUME NEW old, ReleaseClaim(old) PROVE MemoryShape'
  BY <1>9 DEF ReleaseClaim, Without, MemoryShape, StageOK, Busy, Ours
<1>10. ASSUME PowerLoss PROVE MemoryShape'
  <2>1. FilesOK' /\ writers' = [p \in Writers |-> Idle]
    BY <1>10 DEF PowerLoss, FilesOK
  <2> QED
    BY <2>1 DEF MemoryShape, FilesOK, StageOK, Busy, Stages, Idle
<1>11. ASSUME UNCHANGED memoryVars PROVE MemoryShape'
  BY <1>11 DEF memoryVars, MemoryShape, StageOK, Busy, Ours
<1> QED
  BY <1>1, <1>2, <1>3, <1>4, <1>5, <1>6, <1>7, <1>8, <1>9, <1>10, <1>11, MemoryCases
-----------------------------------------------------------------------------
(* What was acknowledged lasts.  Most steps leave the files of versions    *)
(* alone and bring nobody to the stages that Lasting speaks of.            *)
SameVersions ==
    /\ \A v \in DOMAIN versions :
          /\ v \in DOMAIN versions'
          /\ versions[v] = "whole" => versions'[v] = "whole"
    /\ \A v \in DOMAIN versions :
          NameOfVersion(v) \in unsynced' \cup dirty' => NameOfVersion(v) \in unsynced \cup dirty

LEMMA LastingSteps ==
    ASSUME Lasting, SameVersions, Tells
    PROVE  /\ \A v : Owed(v)' => v \in DOMAIN versions' /\ versions'[v] = "whole"
           /\ \A v : Wrote(v)' => NameOfVersion(v) \notin unsynced' \cup dirty'
<1>0. \A v : Wrote(v) => Owed(v)
  BY DEF Owed
<1>1. ASSUME NEW v
      PROVE  /\ Owed(v)' => v \in DOMAIN versions' /\ versions'[v] = "whole"
             /\ Wrote(v)' => NameOfVersion(v) \notin unsynced' \cup dirty'
  <2>1. Owed(v)' => v \in DOMAIN versions /\ versions[v] = "whole"
    BY DEF Lasting, Tells
  <2>2. Wrote(v)' => v \in DOMAIN versions /\ NameOfVersion(v) \notin unsynced \cup dirty
    BY <1>0 DEF Lasting, Tells
  <2> QED
    BY <2>1, <2>2 DEF SameVersions
<1> QED
  BY <1>1

LEMMA LastingFrame ==
    ASSUME Lasting, SameVersions, Tells,
           \A q \in Writers : writers'[q].pc \in {"write", "sync"} => writers'[q] = writers[q]
    PROVE  Lasting'
<1>1. ASSUME NEW q \in Writers
      PROVE  /\ At(q, "write")' => Ours(q)' \in DOMAIN versions'
             /\ At(q, "sync")' => Ours(q)' \in DOMAIN versions' /\ versions'[Ours(q)'] = "whole"
  BY DEF Lasting, SameVersions, At, Ours
<1> QED
  BY <1>1, LastingSteps DEF Lasting

LEMMA LastingInit == MemoryInit => Lasting
<1> SUFFICES ASSUME MemoryInit PROVE Lasting
  OBVIOUS
<1>1. \A p \in Writers : writers[p].pc = "idle"
  BY DEF MemoryInit, Idle
<1> QED
  BY <1>1 DEF MemoryInit, Lasting, At, Owed, Wrote

LEMMA LastingStep == MemoryInv /\ [MemoryNext]_memoryVars => Lasting'
<1> SUFFICES ASSUME MemoryInv, [MemoryNext]_memoryVars PROVE Lasting'
  OBVIOUS
<1>0. MemoryShape /\ Lasting
  BY DEF MemoryInv
<1>1. ASSUME NEW p \in Writers, Reads(p) PROVE Lasting'
  <2>1. SameVersions /\ Tells
    BY <1>1, TellsNothing, TellsFound DEF Reads, SameVersions
  <2>2. /\ writers'[p].pc \notin {"write", "sync"}
        /\ \A q \in Writers : q # p => writers'[q] = writers[q]
    BY <1>0, <1>1, Reading
  <2> QED
    BY <1>0, <2>1, <2>2, LastingFrame
<1>2. ASSUME NEW p \in Writers, Claim(p) PROVE Lasting'
  <2>0. PICK old \in Replacing(p) :
          \/ TakeClaim(p, old)
          \/ (Goes(p, "create") \/ Refused(p)) /\ UNCHANGED <<claims, unsynced, dirty>>
    BY <1>2 DEF Claim
  <2>1. Busy(p) /\ UNCHANGED versions /\ Tells
    BY <1>2, TellsNothing DEF Claim, Busy, Stages, At
  <2>2. SameVersions
    BY <2>0, <2>1 DEF SameVersions, TakeClaim, NameOfVersion, NameOfClaim
  <2>3. CASE TakeClaim(p, old)
    <3>1. /\ writers'[p].pc = "writeClaim"
          /\ \A q \in Writers : q # p => writers'[q] = writers[q]
      BY <1>0, <2>1, <2>3, Takings
    <3> QED
      BY <1>0, <2>1, <2>2, <3>1, LastingFrame
  <2>4. CASE Goes(p, "create")
    <3>1. writers'[p].pc = "create" /\ \A q \in Writers : q # p => writers'[q] = writers[q]
      BY <1>0, <2>1, <2>4, Goings
    <3> QED
      BY <1>0, <2>1, <2>2, <3>1, LastingFrame
  <2>5. CASE Refused(p)
    BY <1>0, <2>1, <2>2, <2>5, LastingFrame, Resting
  <2> QED
    BY <2>0, <2>3, <2>4, <2>5
<1>3. ASSUME NEW p \in Writers, WriteClaim(p) \/ SyncClaim(p) PROVE Lasting'
  <2>1. /\ Busy(p) /\ UNCHANGED versions /\ Tells /\ SameVersions
        /\ \E pc \in {"syncClaim", "create"} : Goes(p, pc)
    BY <1>3, TellsNothing DEF WriteClaim, SyncClaim, At, Busy, Stages, SameVersions
  <2>2. writers'[p].pc \in {"syncClaim", "create"}
        /\ \A q \in Writers : q # p => writers'[q] = writers[q]
    BY <1>0, <2>1, Goings
  <2> QED
    BY <1>0, <2>1, <2>2, LastingFrame
<1>4. ASSUME NEW p \in Writers, Create(p) PROVE Lasting'
  <2>1. Busy(p) /\ mishaps' = mishaps
    BY <1>4 DEF Create, At, Busy, Stages
  <2>2. SameVersions
    BY <1>4 DEF Create, SameVersions, NameOfVersion
  <2>3. CASE Ours(p) \notin DOMAIN versions
    <3>1. Goes(p, "write") /\ Ours(p) \in DOMAIN versions' /\ told' = told
      BY <1>4, <2>3 DEF Create, Ours
    <3>2. /\ writers'[p].pc = "write" /\ Ours(p)' = Ours(p)
          /\ \A q \in Writers : q # p => writers'[q] = writers[q]
      BY <1>0, <2>1, <3>1, Goings DEF Ours
    <3>3. Tells
      BY <2>1, <3>1, TellsNothing
    <3> QED
      BY <1>0, <2>2, <3>1, <3>2, <3>3, LastingSteps DEF Lasting, SameVersions, At, Ours
  <2>4. CASE Ours(p) \in DOMAIN versions
    <3>1. /\ Goes(p, "rollback") \/ Returns(p)
          /\ told' = told \/ Finds
      BY <1>4, <2>4 DEF Create, Ours, Finds
    <3>2. /\ writers'[p].pc \notin {"write", "sync"}
          /\ \A q \in Writers : q # p => writers'[q] = writers[q]
      BY <1>0, <2>1, <3>1, Leaving
    <3>3. Tells
      BY <2>1, <3>1, TellsNothing, TellsFound
    <3> QED
      BY <1>0, <2>2, <3>2, <3>3, LastingFrame
  <2> QED
    BY <2>3, <2>4
<1>5. ASSUME NEW p \in Writers, Write(p) PROVE Lasting'
  <2>1. /\ Busy(p) /\ At(p, "write") /\ Goes(p, "sync")
        /\ UNCHANGED <<claims, unsynced, dirty, told, mishaps>>
        /\ versions' = [versions EXCEPT ![Ours(p)] = "whole"]
    BY <1>5 DEF Write, At, Busy, Stages, Ours
  <2>2. Ours(p) \in DOMAIN versions
    BY <1>0, <2>1 DEF Lasting
  <2>3. SameVersions /\ Ours(p) \in DOMAIN versions' /\ versions'[Ours(p)] = "whole"
    BY <2>1, <2>2 DEF SameVersions
  <2>4. /\ writers'[p].pc = "sync" /\ Ours(p)' = Ours(p)
        /\ \A q \in Writers : q # p => writers'[q] = writers[q]
    BY <1>0, <2>1, Goings DEF Ours
  <2>5. Tells
    BY <2>1, TellsNothing
  <2> QED
    BY <1>0, <2>3, <2>4, <2>5, LastingSteps DEF Lasting, SameVersions, At, Ours
<1>6. ASSUME NEW p \in Writers, Sync(p) PROVE Lasting'
  <2>1. /\ At(p, "sync") /\ Returns(p) /\ UNCHANGED <<versions, claims>>
        /\ dirty' = dirty \ {NameOfVersion(Ours(p))} /\ unsynced' = {}
        /\ told' = told \cup {<<Ours(p), "written">>} /\ mishaps' = mishaps
    BY <1>6 DEF Sync, Ours
  <2>2. Ours(p) \in DOMAIN versions /\ versions[Ours(p)] = "whole"
    BY <1>0, <2>1 DEF Lasting
  <2>3. /\ writers'[p].pc \notin {"write", "sync"}
        /\ \A q \in Writers : q # p => writers'[q] = writers[q]
    BY <1>0, <2>1, Resting
  <2>4. ASSUME NEW v
        PROVE  /\ Wrote(v)' => Wrote(v) \/ v = Ours(p)
               /\ Owed(v)' => Owed(v) \/ v = Ours(p)
    BY <2>1 DEF Wrote, Owed, Happened
  <2>5. \A v : Owed(v)' => v \in DOMAIN versions' /\ versions'[v] = "whole"
    BY <1>0, <2>1, <2>2, <2>4 DEF Lasting
  <2>6. \A v : Wrote(v)' => NameOfVersion(v) \notin unsynced' \cup dirty'
    BY <1>0, <2>1, <2>4 DEF Lasting
  <2> QED
    BY <1>0, <2>1, <2>3, <2>5, <2>6 DEF Lasting, At, Ours
<1>7. ASSUME NEW p \in Writers, Rollback(p) \/ Crash(p) PROVE Lasting'
  <2>1. SameVersions /\ Tells /\ Refused(p)
    BY <1>7, TellsNothing DEF Rollback, Crash, Without, SameVersions, Refused, Happens
  <2> QED
    BY <1>0, <2>1, LastingFrame, Resting
<1>8. ASSUME NEW p \in Writers, Fail(p) PROVE Lasting'
  <2>1. /\ SameVersions /\ Tells
        /\ Busy(p) /\ (Refused(p) \/ Goes(p, "rollback"))
    BY <1>0, <1>8, Failing, TellsNothing DEF SameVersions, Busy, Stages
  <2>2. /\ writers'[p].pc \notin {"write", "sync"}
        /\ \A q \in Writers : q # p => writers'[q] = writers[q]
    BY <1>0, <2>1, Leaving
  <2> QED
    BY <1>0, <2>1, <2>2, LastingFrame
<1>9. ASSUME NEW old, ReleaseClaim(old) PROVE Lasting'
  <2>1. SameVersions /\ Tells /\ writers' = writers
    BY <1>9, TellsNothing DEF ReleaseClaim, Without, SameVersions
  <2> QED
    BY <1>0, <2>1, LastingFrame
<1>10. ASSUME PowerLoss PROVE Lasting'
  <2>1. PICK gone \in SUBSET unsynced : \E emptied \in SUBSET (dirty \ gone) :
          versions' = [v \in {v \in DOMAIN versions : NameOfVersion(v) \notin gone} |->
                          IF NameOfVersion(v) \in emptied THEN "torn" ELSE versions[v]]
    BY <1>10 DEF PowerLoss
  <2>2. \A v : Wrote(v) => v \in DOMAIN versions' /\ versions'[v] = "whole"
    BY <1>0, <2>1 DEF Lasting, Owed
  <2>3. /\ unsynced' = {} /\ dirty' = {} /\ told' = told
        /\ \A q \in Writers : writers'[q].pc = "idle"
    BY <1>10 DEF PowerLoss, Idle
  <2>4. Happened({"power"})'
    BY <1>10 DEF PowerLoss, Happens, Happened
  <2>5. \A v : Owed(v)' => Wrote(v)
    BY <2>3, <2>4 DEF Owed, Wrote
  <2> QED
    BY <2>2, <2>3, <2>5 DEF Lasting, At
<1>11. ASSUME UNCHANGED memoryVars PROVE Lasting'
  BY <1>0, <1>11 DEF memoryVars, Lasting, At, Ours, Owed, Wrote, Happened
<1> QED
  BY <1>1, <1>2, <1>3, <1>4, <1>5, <1>6, <1>7, <1>8, <1>9, <1>10, <1>11, MemoryCases

LEMMA Kept == MemorySpec => []MemoryInv
<1>1. MemoryInit => MemoryInv
  BY ShapeInit, LastingInit DEF MemoryInv
<1>2. MemoryInv /\ [MemoryNext]_memoryVars => MemoryInv'
  BY ShapeStep, LastingStep DEF MemoryInv
<1> QED
  BY <1>1, <1>2, PTL DEF MemorySpec

(* A version its writer was told it wrote is there, and whole, whatever    *)
(* dies afterwards, and one that was found until power is lost.            *)
THEOREM WrittenIsKept == MemorySpec => []WrittenSurvives
<1>1. MemoryInv => WrittenSurvives
  BY DEF MemoryInv, Lasting, WrittenSurvives
<1> QED
  BY <1>1, Kept, PTL
-----------------------------------------------------------------------------
(* Corrections exclude each other.  A writer that goes on without touching *)
(* claims or creating a file keeps the invariant; the steps that do are    *)
(* taken one by one.                                                       *)
GoesOn(q) ==
    /\ Busy(q) /\ Ours(q)' = Ours(q) /\ writers'[q].mine = writers[q].mine
    /\ At(q, "writeClaim")' => At(q, "writeClaim")
    /\ Beyond(q)' => Beyond(q) \/ \A old \in Replacing(q) : Names(old, Ours(q))

LEMMA ExclusionFrame ==
    ASSUME Exclusion, claims' = claims, DOMAIN versions' = DOMAIN versions,
           unsynced' \subseteq unsynced, \A v : Wrote(v)' => Wrote(v), givenBack' = givenBack,
           \A q \in Writers : Busy(q)' => GoesOn(q)
    PROVE  Exclusion'
<1>1. \A old, v : Replaced(v, old) => Replaced(v, old)'
  BY DEF Replaced, Names, Settled, NameOfVersion, GoesOn, Replacing, Ours
<1>2. OneHolder'
  <2> SUFFICES ASSUME NEW q \in Writers, Busy(q)' PROVE HolderOK(q)'
    BY DEF OneHolder
  <2>1. HolderOK(q) /\ GoesOn(q) /\ Replacing(q)' = Replacing(q)
    BY DEF Exclusion, OneHolder, GoesOn, Replacing, Ours
  <2>2. \A r \in Writers : \A old : Holds(r, old)' => Holds(r, old)
    BY DEF Holds, GoesOn, Replacing, Ours
  <2> QED
    BY <2>1, <2>2 DEF HolderOK, GoesOn, Names
<1>3. WrittenOnce'
  BY <1>1 DEF Exclusion, WrittenOnce, OneSuccessor
<1>4. ToldOnce'
  BY <1>1 DEF Exclusion, ToldOnce
<1> QED
  BY <1>2, <1>3, <1>4 DEF Exclusion

LEMMA StayPut ==
    ASSUME NEW q, Busy(q), writers'[q] = writers[q]
    PROVE  GoesOn(q)
  BY DEF GoesOn, Busy, Ours, At, Beyond

LEMMA ReadingExcludes ==
    ASSUME MemoryInv, Exclusion, NEW p \in Writers, Reads(p)
    PROVE  Exclusion'
<1>0. MemoryShape /\ Lasting /\ Exclusion
  BY DEF MemoryInv
<1>1. /\ UNCHANGED <<files, givenBack>> /\ \A v : Wrote(v)' => Wrote(v)
      /\ \A q \in Writers : q # p => writers'[q] = writers[q]
  BY <1>0, Reading, TellsNothing, TellsFound DEF Tells
<1>2. CASE ~Busy(p)'
  <2>1. \A q \in Writers : Busy(q)' => GoesOn(q)
    BY <1>1, <1>2, StayPut DEF Busy
  <2> QED
    BY <1>0, <1>1, <2>1, ExclusionFrame
<1>3. CASE Busy(p)'
  <2>1. /\ Fresh(Ours(p)') /\ ~writers'[p].mine
        /\ writers'[p].pc = IF Ours(p)'.replaces = {} THEN "create" ELSE "claim"
    BY <1>0, <1>3, Reading DEF Busy, Stages
  <2>2. ASSUME NEW v \in DOMAIN versions, NEW old \in v.replaces PROVE old \notin Replacing(p)'
    BY <2>1 DEF Fresh, Heads, Superseded, Replacing, Ours
  <2>3. ASSUME NEW v \in DOMAIN versions, NEW old \in v.replaces, Replaced(v, old)
        PROVE  Replaced(v, old)'
    <3>1. CASE Names(old, v)
      BY <1>1, <3>1 DEF Replaced, Names
    <3>2. CASE Settled(v, old)
      <4>1. \A q \in Writers : Busy(q)' => old \notin Replacing(q)'
        BY <1>1, <2>2, <2>3, <3>2 DEF Settled, Busy, Replacing
      <4> QED
        BY <1>1, <3>2, <4>1 DEF Settled, Replaced, NameOfVersion
    <3> QED
      BY <2>3, <3>1, <3>2 DEF Replaced
  <2>4. OneHolder'
    <3>1. \A q \in Writers : \A old : Holds(q, old)' => Holds(q, old) /\ q # p
      BY <1>1, <2>1 DEF Holds, Busy, Replacing
    <3>2. HolderOK(p)'
      BY <2>1, <3>1 DEF HolderOK, Beyond, At, Replacing, Ours
    <3>3. ASSUME NEW q \in Writers, q # p, Busy(q)' PROVE HolderOK(q)'
      <4>1. writers'[q] = writers[q] /\ HolderOK(q)
        BY <1>0, <1>1, <3>3 DEF Exclusion, OneHolder, Busy
      <4> QED
        BY <1>1, <3>1, <4>1 DEF HolderOK, Replacing, At, Beyond, Names, Ours
    <3> QED
      BY <3>2, <3>3 DEF OneHolder
  <2>5. WrittenOnce'
    BY <1>0, <1>1, <2>3 DEF Exclusion, WrittenOnce, OneSuccessor
  <2>6. ToldOnce'
    <3>1. ASSUME NEW v, Wrote(v), NEW old \in v.replaces PROVE Replaced(v, old)'
      <4>1. v \in DOMAIN versions /\ Replaced(v, old)
        BY <1>0, <3>1 DEF Lasting, Owed, Exclusion, ToldOnce
      <4> QED
        BY <2>3, <4>1
    <3> QED
      BY <1>0, <1>1, <3>1 DEF Exclusion, ToldOnce
  <2> QED
    BY <2>4, <2>5, <2>6 DEF Exclusion
<1> QED
  BY <1>2, <1>3

LEMMA TakingExcludes ==
    ASSUME MemoryInv, Exclusion, NEW p \in Writers, At(p, "claim"), NEW old \in Replacing(p),
           Unclaimed(old), TakeClaim(p, old), UNCHANGED <<versions, told, givenBack>>
    PROVE  Exclusion'
<1>0. MemoryShape /\ Lasting /\ Exclusion /\ Busy(p)
  BY DEF MemoryInv, Busy, Stages, At
<1>1. /\ writers'[p].pc = "writeClaim" /\ Ours(p)' = Ours(p) /\ writers'[p].mine
      /\ \A q \in Writers : q # p => writers'[q] = writers[q]
  BY <1>0, Takings
<1>2. Replacing(p) = {old}
  BY <1>0 DEF MemoryShape, StageOK, Ours, Replacing
<1>3. /\ claims' = [v \in DOMAIN claims \cup {old} |-> IF v = old THEN {} ELSE claims[v]]
      /\ old \notin DOMAIN claims
      /\ unsynced' = unsynced \cup {NameOfClaim(old)}
  BY DEF TakeClaim, Unclaimed
<1>4. \A q \in Writers : /\ Busy(q)' <=> Busy(q)
                         /\ Replacing(q)' = Replacing(q) /\ Ours(q)' = Ours(q)
  BY <1>0, <1>1 DEF Busy, Stages, Replacing, Ours
<1>5. \A o, v : Names(o, v) => Names(o, v)' /\ o # old
  BY <1>3 DEF Names
<1>6. \A o, v : Replaced(v, o) => Replaced(v, o)'
  BY <1>3, <1>4, <1>5 DEF Replaced, Settled, NameOfVersion, NameOfClaim
<1>7. OneHolder'
  <2>1. HolderOK(p)'
    <3>1. ASSUME NEW q \in Writers, Holds(q, old)', q # p PROVE FALSE
      <4>1. Busy(q) /\ writers[q].mine /\ old \in Replacing(q)
        BY <1>1, <1>4, <3>1 DEF Holds
      <4> QED
        BY <1>0, <1>3, <4>1 DEF Exclusion, OneHolder, HolderOK
    <3> QED
      BY <1>1, <1>2, <1>3, <1>4, <3>1 DEF HolderOK, Beyond, At
  <2>2. ASSUME NEW q \in Writers, q # p, Busy(q)' PROVE HolderOK(q)'
    <3>1. writers'[q] = writers[q] /\ HolderOK(q) /\ Busy(q)
      BY <1>0, <1>1, <2>2 DEF Exclusion, OneHolder, Busy
    <3>2. ASSUME writers[q].mine, NEW o \in Replacing(q)
          PROVE  /\ o \in DOMAIN claims /\ o # old /\ o \in DOMAIN claims'
                 /\ claims'[o] = claims[o]
                 /\ \A r \in Writers : Holds(r, o)' => q = r
      <4>1. o \in DOMAIN claims /\ o # old /\ claims'[o] = claims[o] /\ o \in DOMAIN claims'
        BY <1>3, <3>1, <3>2 DEF HolderOK
      <4>2. \A r \in Writers : Holds(r, o)' => Holds(r, o)
        BY <1>1, <1>2, <1>4, <4>1 DEF Holds
      <4> QED
        BY <3>1, <3>2, <4>1, <4>2 DEF HolderOK
    <3>3. At(q, "writeClaim") => writers[q].mine
      BY <1>0, <3>1 DEF MemoryShape, StageOK, At
    <3>4. Replacing(q)' = Replacing(q) /\ Ours(q)' = Ours(q) /\ (Beyond(q)' => Beyond(q))
          /\ (At(q, "writeClaim")' => At(q, "writeClaim"))
      BY <3>1 DEF Replacing, Ours, Beyond, At
    <3> QED
      BY <1>5, <3>1, <3>2, <3>3, <3>4 DEF HolderOK
  <2> QED
    BY <2>1, <2>2 DEF OneHolder
<1>8. WrittenOnce'
  BY <1>0, <1>6 DEF Exclusion, WrittenOnce, OneSuccessor
<1>9. ToldOnce'
  BY <1>0, <1>6 DEF Exclusion, ToldOnce, Wrote
<1> QED
  BY <1>7, <1>8, <1>9 DEF Exclusion

LEMMA ClaimExcludes ==
    ASSUME MemoryInv, Exclusion, NEW p \in Writers, Claim(p)
    PROVE  Exclusion'
<1>0. MemoryShape /\ Lasting /\ Exclusion /\ Busy(p)
  BY DEF MemoryInv, Busy, Stages, At, Claim
<1>1. PICK old \in Replacing(p) :
        \/ Unclaimed(old) /\ TakeClaim(p, old)
        \/ /\ ~Unclaimed(old)
           /\ IF claims[old] = {writers[p].version} THEN Goes(p, "create") ELSE Refused(p)
           /\ UNCHANGED <<claims, unsynced, dirty>>
  BY DEF Claim
<1>2. At(p, "claim") /\ UNCHANGED <<versions, told, givenBack>>
  BY DEF Claim
<1>3. CASE Unclaimed(old) /\ TakeClaim(p, old)
  BY <1>2, <1>3, TakingExcludes
<1>4. CASE ~Unclaimed(old) /\ claims[old] = {Ours(p)} /\ Goes(p, "create")
           /\ UNCHANGED <<claims, unsynced, dirty>>
  <2>1. Replacing(p) = {old} /\ ~writers[p].mine
    BY <1>0, <1>2 DEF MemoryShape, StageOK, Ours, Replacing, At
  <2>2. GoesOn(p) /\ \A q \in Writers : q # p => writers'[q] = writers[q]
    <3>1. /\ writers'[p].pc = "create" /\ Ours(p)' = Ours(p)
          /\ writers'[p].mine = writers[p].mine
          /\ \A q \in Writers : q # p => writers'[q] = writers[q]
      BY <1>0, <1>4, Goings
    <3> QED
      BY <1>0, <1>4, <2>1, <3>1 DEF GoesOn, At, Beyond, Names, Unclaimed
  <2>3. \A q \in Writers : Busy(q)' => GoesOn(q)
    BY <2>2, StayPut DEF Busy
  <2> QED
    BY <1>0, <1>2, <1>4, <2>3, ExclusionFrame DEF Wrote
<1>5. CASE Refused(p) /\ UNCHANGED <<claims, unsynced, dirty>>
  <2>1. \A q \in Writers : Busy(q)' => GoesOn(q)
    <3>1. ~Busy(p)' /\ \A q \in Writers : q # p => writers'[q] = writers[q]
      BY <1>0, <1>5, Resting
    <3> QED
      BY <3>1, StayPut DEF Busy
  <2> QED
    BY <1>0, <1>2, <1>5, <2>1, ExclusionFrame DEF Wrote
<1> QED
  BY <1>1, <1>3, <1>4, <1>5 DEF Ours

LEMMA WritingTheClaimExcludes ==
    ASSUME MemoryInv, Exclusion, NEW p \in Writers, WriteClaim(p)
    PROVE  Exclusion'
<1>0. MemoryShape /\ Exclusion /\ Busy(p)
  BY DEF MemoryInv, Busy, Stages, At, WriteClaim
<1>1. /\ At(p, "writeClaim") /\ Goes(p, "syncClaim")
      /\ UNCHANGED <<versions, unsynced, dirty, told, givenBack>>
      /\ claims' = [v \in DOMAIN claims |->
                       IF v \in Replacing(p) THEN {Ours(p)} ELSE claims[v]]
  BY DEF WriteClaim, Ours
<1>2. /\ writers'[p].pc = "syncClaim" /\ Ours(p)' = Ours(p)
      /\ writers'[p].mine = writers[p].mine
      /\ \A q \in Writers : q # p => writers'[q] = writers[q]
  BY <1>0, <1>1, Goings
<1>3. writers[p].mine /\ HolderOK(p)
  BY <1>0, <1>1 DEF MemoryShape, StageOK, At, Exclusion, OneHolder
<1>4. \A q \in Writers : /\ Busy(q)' <=> Busy(q)
                         /\ Replacing(q)' = Replacing(q) /\ Ours(q)' = Ours(q)
                         /\ writers'[q].mine = writers[q].mine
  BY <1>0, <1>2 DEF Busy, Stages, Replacing, Ours
<1>5. \A o, v : Names(o, v) => Names(o, v)' /\ o \notin Replacing(p)
  <2>1. \A o \in Replacing(p) : o \in DOMAIN claims /\ claims[o] = {}
    BY <1>1, <1>3 DEF HolderOK
  <2> QED
    BY <1>1, <2>1 DEF Names
<1>6. \A o, v : Replaced(v, o) => Replaced(v, o)'
  BY <1>1, <1>4, <1>5 DEF Replaced, Settled, NameOfVersion
<1>7. OneHolder'
  <2>1. \A q \in Writers : \A o : Holds(q, o)' <=> Holds(q, o)
    BY <1>4 DEF Holds
  <2>2. HolderOK(p)'
    BY <1>1, <1>2, <1>3, <1>4, <2>1 DEF HolderOK, Names, At
  <2>3. ASSUME NEW q \in Writers, q # p, Busy(q)' PROVE HolderOK(q)'
    <3>1. writers'[q] = writers[q] /\ HolderOK(q) /\ Busy(q)
      BY <1>0, <1>2, <2>3 DEF Exclusion, OneHolder, Busy
    <3>2. /\ Beyond(q)' => Beyond(q)
          /\ At(q, "writeClaim")' => At(q, "writeClaim") /\ writers[q].mine
      BY <1>0, <3>1 DEF Beyond, At, MemoryShape, StageOK
    <3>3. ASSUME NEW o \in Replacing(q), writers[q].mine
          PROVE  o \in DOMAIN claims /\ o \notin Replacing(p) /\ claims'[o] = claims[o]
      <4>1. o \in DOMAIN claims /\ (Holds(p, o) => q = p)
        BY <3>1, <3>3 DEF HolderOK
      <4> QED
        BY <1>0, <1>1, <1>3, <2>3, <4>1 DEF Holds
    <3> QED
      BY <1>1, <1>4, <1>5, <2>1, <3>1, <3>2, <3>3 DEF HolderOK
  <2> QED
    BY <2>2, <2>3 DEF OneHolder
<1>8. WrittenOnce'
  BY <1>0, <1>1, <1>6 DEF Exclusion, WrittenOnce, OneSuccessor
<1>9. ToldOnce'
  BY <1>0, <1>1, <1>6 DEF Exclusion, ToldOnce, Wrote
<1> QED
  BY <1>7, <1>8, <1>9 DEF Exclusion

LEMMA PlainStepsExclude ==
    ASSUME MemoryInv, Exclusion, NEW p \in Writers, SyncClaim(p) \/ Write(p) \/ Crash(p)
    PROVE  Exclusion'
<1>0. MemoryShape /\ Lasting /\ Exclusion
  BY DEF MemoryInv
<1>1. CASE SyncClaim(p)
  <2>1. /\ Busy(p) /\ At(p, "syncClaim") /\ Goes(p, "create") /\ unsynced' = {}
        /\ UNCHANGED <<versions, claims, told, givenBack>>
    BY <1>1 DEF SyncClaim, Busy, Stages, At
  <2>2. /\ writers'[p].pc = "create" /\ Ours(p)' = Ours(p)
        /\ writers'[p].mine = writers[p].mine
        /\ \A q \in Writers : q # p => writers'[q] = writers[q]
    BY <1>0, <2>1, Goings
  <2>3. GoesOn(p)
    BY <2>1, <2>2 DEF GoesOn, Beyond, At
  <2>4. \A q \in Writers : Busy(q)' => GoesOn(q)
    BY <2>2, <2>3, StayPut DEF Busy
  <2> QED
    BY <1>0, <2>1, <2>4, ExclusionFrame DEF Wrote
<1>2. CASE Write(p)
  <2>1. /\ Busy(p) /\ At(p, "write") /\ Goes(p, "sync")
        /\ DOMAIN versions' = DOMAIN versions
        /\ UNCHANGED <<claims, unsynced, told, givenBack>>
    BY <1>2 DEF Write, Busy, Stages, At
  <2>2. /\ writers'[p].pc = "sync" /\ Ours(p)' = Ours(p)
        /\ writers'[p].mine = writers[p].mine
        /\ \A q \in Writers : q # p => writers'[q] = writers[q]
    BY <1>0, <2>1, Goings
  <2>3. GoesOn(p)
    BY <2>1, <2>2 DEF GoesOn, Beyond, At
  <2>4. \A q \in Writers : Busy(q)' => GoesOn(q)
    BY <2>2, <2>3, StayPut DEF Busy
  <2> QED
    BY <1>0, <2>1, <2>4, ExclusionFrame DEF Wrote
<1>3. CASE Crash(p)
  <2>1. Refused(p) /\ UNCHANGED <<files, told, givenBack>>
    BY <1>3 DEF Crash, Refused
  <2>2. ~Busy(p)' /\ \A q \in Writers : q # p => writers'[q] = writers[q]
    BY <1>0, <2>1, Resting
  <2>3. \A q \in Writers : Busy(q)' => GoesOn(q)
    BY <2>2, StayPut DEF Busy
  <2> QED
    BY <1>0, <2>1, <2>3, ExclusionFrame DEF Wrote
<1> QED
  BY <1>1, <1>2, <1>3

LEMMA FailingExcludes ==
    ASSUME MemoryInv, Exclusion, NEW p \in Writers, Fail(p)
    PROVE  Exclusion'
<1>0. MemoryShape /\ Exclusion
  BY DEF MemoryInv
<1>1. /\ UNCHANGED <<files, told, givenBack>>
      /\ \/ writers[p].pc \in {"writeClaim", "syncClaim", "rollback"} /\ Refused(p)
         \/ writers[p].pc \in {"create", "write", "sync"} /\ Goes(p, "rollback")
  BY <1>0, Failing
<1>2. Busy(p)
  BY <1>1 DEF Busy, Stages
<1>3. \A q \in Writers : Busy(q)' => GoesOn(q)
  <2>1. CASE Refused(p)
    <3>1. ~Busy(p)' /\ \A q \in Writers : q # p => writers'[q] = writers[q]
      BY <1>0, <2>1, Resting
    <3> QED
      BY <3>1, StayPut DEF Busy
  <2>2. CASE Goes(p, "rollback") /\ writers[p].pc \in {"create", "write", "sync"}
    <3>1. /\ writers'[p].pc = "rollback" /\ Ours(p)' = Ours(p)
          /\ writers'[p].mine = writers[p].mine
          /\ \A q \in Writers : q # p => writers'[q] = writers[q]
      BY <1>0, <1>2, <2>2, Goings
    <3>2. GoesOn(p)
      BY <1>2, <2>2, <3>1 DEF GoesOn, Beyond, At
    <3> QED
      BY <3>1, <3>2, StayPut DEF Busy
  <2> QED
    BY <1>1, <2>1, <2>2
<1> QED
  BY <1>0, <1>1, <1>3, ExclusionFrame DEF Wrote

LEMMA CreatingExcludes ==
    ASSUME MemoryInv, Exclusion, NEW p \in Writers, Create(p)
    PROVE  Exclusion'
<1>0. MemoryShape /\ Lasting /\ Exclusion /\ Busy(p) /\ At(p, "create")
  BY DEF MemoryInv, Busy, Stages, At, Create
<1> DEFINE v == Ours(p)
<1>1. CASE v \in DOMAIN versions
  <2>1. /\ Returns(p) \/ Goes(p, "rollback")
        /\ UNCHANGED <<versions, claims, unsynced, givenBack>>
        /\ \A w : Wrote(w)' => Wrote(w)
    <3>1. /\ Returns(p) \/ Goes(p, "rollback")
          /\ UNCHANGED <<versions, claims, unsynced, givenBack, mishaps>>
          /\ told' = told \/ Finds
      BY <1>1 DEF Create, Ours, Finds
    <3> QED
      BY <3>1, TellsNothing, TellsFound DEF Tells
  <2>2. \A q \in Writers : Busy(q)' => GoesOn(q)
    <3>1. CASE Returns(p)
      <4>1. ~Busy(p)' /\ \A q \in Writers : q # p => writers'[q] = writers[q]
        BY <1>0, <3>1, Resting
      <4> QED
        BY <4>1, StayPut DEF Busy
    <3>2. CASE Goes(p, "rollback")
      <4>1. /\ writers'[p].pc = "rollback" /\ Ours(p)' = Ours(p)
            /\ writers'[p].mine = writers[p].mine
            /\ \A q \in Writers : q # p => writers'[q] = writers[q]
        BY <1>0, <3>2, Goings
      <4>2. GoesOn(p)
        BY <1>0, <4>1 DEF GoesOn, Beyond, At
      <4> QED
        BY <4>1, <4>2, StayPut DEF Busy
    <3> QED
      BY <2>1, <3>1, <3>2
  <2> QED
    BY <1>0, <2>1, <2>2, ExclusionFrame
<1>2. CASE v \notin DOMAIN versions
  <2>1. /\ DOMAIN versions' = DOMAIN versions \cup {v}
        /\ unsynced' = unsynced \cup {NameOfVersion(v)}
        /\ UNCHANGED <<claims, told, givenBack>> /\ Goes(p, "write")
    BY <1>2 DEF Create, Ours
  <2>2. /\ writers'[p].pc = "write" /\ Ours(p)' = Ours(p)
        /\ writers'[p].mine = writers[p].mine
        /\ \A q \in Writers : q # p => writers'[q] = writers[q]
    BY <1>0, <2>1, Goings
  <2>3. \A q \in Writers : /\ Busy(q)' <=> Busy(q)
                           /\ Replacing(q)' = Replacing(q) /\ Ours(q)' = Ours(q)
                           /\ writers'[q].mine = writers[q].mine
                           /\ (Beyond(q)' => Beyond(q))
                           /\ (At(q, "writeClaim")' => At(q, "writeClaim"))
    BY <1>0, <2>2 DEF Busy, Stages, Replacing, Ours, Beyond, At
  <2>4. \A o \in v.replaces : Names(o, v)
    BY <1>0 DEF Exclusion, OneHolder, HolderOK, Beyond, At, Replacing, Ours
  <2>5. ASSUME NEW w \in DOMAIN versions, NEW o, Replaced(w, o) PROVE Replaced(w, o)'
    <3>1. CASE Names(o, w)
      BY <2>1, <3>1 DEF Names, Replaced
    <3>2. CASE Settled(w, o)
      <4>1. NameOfVersion(w) # NameOfVersion(v)
        BY <1>2, <2>5 DEF NameOfVersion
      <4> QED
        BY <2>1, <2>3, <3>2, <4>1 DEF Settled, Replaced, NameOfVersion
    <3> QED
      BY <2>5, <3>1, <3>2 DEF Replaced
  <2>6. OneHolder'
    <3>1. \A q \in Writers : \A o : Holds(q, o)' <=> Holds(q, o)
      BY <2>3 DEF Holds
    <3> QED
      BY <1>0, <2>1, <2>3, <3>1 DEF Exclusion, OneHolder, HolderOK, Names
  <2>7. WrittenOnce'
    <3> SUFFICES ASSUME "file" \notin givenBack PROVE WrittenOnce'
      BY <2>1 DEF WrittenOnce
    <3>1. /\ OneSuccessor
          /\ \A w \in DOMAIN versions : \A o \in w.replaces : Replaced(w, o)
      BY <1>0 DEF Exclusion, WrittenOnce
    <3>2. ASSUME NEW w \in DOMAIN versions, NEW o \in v.replaces, o \in w.replaces
          PROVE  w = v
      <4>1. Replaced(w, o) /\ Names(o, v)
        BY <2>4, <3>1, <3>2
      <4>2. ~Settled(w, o)
        BY <1>0, <3>2 DEF Settled, Replacing, Ours
      <4> QED
        BY <4>1, <4>2 DEF Replaced, Names
    <3>3. OneSuccessor'
      BY <2>1, <3>1, <3>2 DEF OneSuccessor
    <3>4. \A w \in DOMAIN versions' : \A o \in w.replaces : Replaced(w, o)'
      <4>1. \A o \in v.replaces : Replaced(v, o)'
        BY <2>1, <2>2, <2>4 DEF Replaced, Names
      <4> QED
        BY <2>1, <2>2, <2>5, <3>1, <4>1
    <3> QED
      BY <3>3, <3>4 DEF WrittenOnce
  <2>8. ToldOnce'
    <3>1. \A w : Wrote(w)' => Wrote(w) /\ w \in DOMAIN versions
      BY <1>0, <2>1 DEF Lasting, Owed, Wrote
    <3> QED
      BY <1>0, <2>5, <3>1 DEF Exclusion, ToldOnce
  <2> QED
    BY <2>6, <2>7, <2>8 DEF Exclusion
<1> QED
  BY <1>1, <1>2

LEMMA SyncingExcludes ==
    ASSUME MemoryInv, Exclusion, NEW p \in Writers, Sync(p)
    PROVE  Exclusion'
<1>0. MemoryShape /\ Lasting /\ Exclusion /\ Busy(p) /\ At(p, "sync")
  BY DEF MemoryInv, Busy, Stages, At, Sync
<1> DEFINE v == Ours(p)
<1>1. /\ told' = told \cup {<<v, "written">>} /\ unsynced' = {} /\ Returns(p)
      /\ UNCHANGED <<versions, claims, givenBack>>
  BY DEF Sync, Ours
<1>2. ~Busy(p)' /\ \A q \in Writers : q # p => writers'[q] = writers[q]
  BY <1>0, <1>1, Resting
<1>3. \A q \in Writers : Busy(q)' => Busy(q) /\ q # p /\ Ours(q)' = Ours(q)
                                     /\ writers'[q] = writers[q]
                                     /\ Replacing(q)' = Replacing(q)
  BY <1>2 DEF Busy, Ours, Replacing
<1>4. \A o, w : Replaced(w, o) => Replaced(w, o)'
  BY <1>1, <1>3 DEF Replaced, Names, Settled
<1>5. OneHolder'
  <2>1. \A q \in Writers : \A o : Holds(q, o)' => Holds(q, o)
    BY <1>3 DEF Holds
  <2> QED
    BY <1>0, <1>1, <1>3, <2>1 DEF Exclusion, OneHolder, HolderOK, Names, Beyond, At
<1>6. WrittenOnce'
  BY <1>0, <1>1, <1>4 DEF Exclusion, WrittenOnce, OneSuccessor
<1>7. ToldOnce'
  <2>1. \A o \in v.replaces : Names(o, v)
    BY <1>0 DEF Exclusion, OneHolder, HolderOK, Beyond, At, Replacing, Ours
  <2>2. ASSUME NEW w, Wrote(w), NEW o \in v.replaces, o \in w.replaces
        PROVE  w = v
    <3>1. Replaced(w, o) /\ Names(o, v)
      BY <1>0, <2>1, <2>2 DEF Exclusion, ToldOnce
    <3>2. ~Settled(w, o)
      BY <1>0, <2>2 DEF Settled, Replacing, Ours
    <3> QED
      BY <3>1, <3>2 DEF Replaced, Names
  <2>3. \A w : Wrote(w)' => Wrote(w) \/ w = v
    BY <1>1 DEF Wrote
  <2>4. \A w, x : Wrote(w)' /\ Wrote(x)' /\ w.replaces \cap x.replaces # {} => w = x
    BY <1>0, <2>2, <2>3 DEF Exclusion, ToldOnce
  <2>5. PICK x : x = v
    OBVIOUS
  <2>6. \A o \in x.replaces : Replaced(x, o)'
    BY <1>4, <2>1, <2>5 DEF Replaced
  <2>7. \A w : Wrote(w)' => \A o \in w.replaces : Replaced(w, o)'
    BY <1>0, <1>4, <2>3, <2>5, <2>6 DEF Exclusion, ToldOnce
  <2> QED
    BY <2>4, <2>7 DEF ToldOnce
<1> QED
  BY <1>5, <1>6, <1>7 DEF Exclusion

LEMMA RollingBackExcludes ==
    ASSUME MemoryInv, Exclusion, NEW p \in Writers, Rollback(p)
    PROVE  "shared" \in givenBack' \/ Exclusion'
<1>0. MemoryShape /\ Lasting /\ Exclusion /\ Busy(p) /\ At(p, "rollback")
  BY DEF MemoryInv, Busy, Stages, At, Rollback
<1>1. Refused(p) /\ UNCHANGED <<versions, told>>
  BY DEF Rollback
<1>2. ~Busy(p)' /\ \A q \in Writers : q # p => writers'[q] = writers[q]
  BY <1>0, <1>1, Resting
<1>3. CASE ~Mine(p)
  <2>1. UNCHANGED <<claims, unsynced, givenBack>>
    BY <1>3 DEF Rollback
  <2>2. \A q \in Writers : Busy(q)' => GoesOn(q)
    BY <1>2, StayPut DEF Busy
  <2> QED
    BY <1>0, <1>1, <2>1, <2>2, ExclusionFrame DEF Wrote
<1>4. CASE Mine(p)
  <2> SUFFICES ASSUME "shared" \notin givenBack' PROVE Exclusion'
    OBVIOUS
  <2>0. /\ Ours(p) \in DOMAIN versions => "file" \in givenBack'
        /\ "file" \in givenBack => "file" \in givenBack'
        /\ ~InUse(p)
    BY <1>4 DEF Rollback, StandsFor, Ours
  <2>1. /\ claims' = [v \in DOMAIN claims \ Replacing(p) |-> claims[v]] /\ unsynced' = {}
        /\ writers[p].mine
    BY <1>4 DEF Rollback, Without, Mine
  <2>2. \A q \in Writers : Busy(q)' => Busy(q) /\ q # p /\ Ours(q)' = Ours(q)
                                       /\ writers'[q] = writers[q]
                                       /\ Replacing(q)' = Replacing(q)
    BY <1>2 DEF Busy, Ours, Replacing
  <2>3. \A o \in Replacing(p) : Names(o, Ours(p)) /\ \A q \in Writers : Holds(q, o) => p = q
    BY <1>0, <2>1 DEF Exclusion, OneHolder, HolderOK, Beyond
  <2>4. ASSUME NEW w, NEW o, Replaced(w, o), w # Ours(p) PROVE Replaced(w, o)'
    <3>1. CASE Names(o, w)
      <4>1. o \notin Replacing(p)
        BY <2>3, <2>4, <3>1 DEF Names
      <4> QED
        BY <2>1, <3>1, <4>1 DEF Names, Replaced
    <3>2. CASE Settled(w, o)
      BY <1>1, <2>1, <2>2, <3>2 DEF Settled, Replaced
    <3> QED
      BY <2>4, <3>1, <3>2 DEF Replaced
  <2>5. OneHolder'
    <3> SUFFICES ASSUME NEW q \in Writers, Busy(q)' PROVE HolderOK(q)'
      BY DEF OneHolder
    <3>1. /\ HolderOK(q) /\ Busy(q) /\ q # p /\ Ours(q)' = Ours(q)
          /\ writers'[q] = writers[q] /\ Replacing(q)' = Replacing(q)
      BY <1>0, <2>2 DEF Exclusion, OneHolder
    <3>2. \A r \in Writers : \A o : Holds(r, o)' => Holds(r, o)
      BY <2>2 DEF Holds
    <3>3. ASSUME NEW o \in Replacing(q), writers[q].mine PROVE o \notin Replacing(p)
      BY <2>3, <3>1, <3>3 DEF Holds
    <3>4. ASSUME NEW o \in Replacing(q), Beyond(q) PROVE o \notin Replacing(p)
      <4>1. Names(o, Ours(q))
        BY <3>1, <3>4 DEF HolderOK
      <4>2. Ours(q) # Ours(p)
        <5>1. CASE writers[q].mine
          BY <2>3, <3>1, <3>4, <4>1, <5>1 DEF Holds, Names, Replacing, Ours
        <5>2. CASE ~writers[q].mine
          <6>1. writers[q].pc \in {"create", "write", "sync"}
            BY <1>0, <3>1, <3>4, <5>2 DEF Beyond, MemoryShape, StageOK
          <6> QED
            BY <2>0, <3>1, <6>1 DEF InUse, Ours
        <5> QED
          BY <5>1, <5>2
      <4> QED
        BY <2>3, <4>1, <4>2 DEF Names
    <3>5. At(q, "writeClaim") => writers[q].mine
      BY <1>0, <3>1 DEF MemoryShape, StageOK, At
    <3> QED
      BY <2>1, <3>1, <3>2, <3>3, <3>4, <3>5 DEF HolderOK, Names, Beyond, At
  <2>6. WrittenOnce'
    <3> SUFFICES ASSUME "file" \notin givenBack' PROVE WrittenOnce'
      BY DEF WrittenOnce
    <3>1. /\ OneSuccessor
          /\ \A w \in DOMAIN versions : \A o \in w.replaces : Replaced(w, o)
      BY <1>0, <2>0 DEF Exclusion, WrittenOnce
    <3> QED
      BY <1>1, <2>0, <2>4, <3>1 DEF WrittenOnce, OneSuccessor
  <2>7. ToldOnce'
    <3>1. \A w : Wrote(w)' => Wrote(w) /\ w # Ours(p)
      BY <1>1, <2>0 DEF Wrote, InUse, Ours
    <3> QED
      BY <1>0, <2>4, <3>1 DEF Exclusion, ToldOnce
  <2> QED
    BY <2>5, <2>6, <2>7 DEF Exclusion
<1> QED
  BY <1>3, <1>4

LEMMA ReleasingExcludes ==
    ASSUME MemoryInv, Exclusion, NEW old, ReleaseClaim(old)
    PROVE  Exclusion'
<1>0. Lasting /\ Exclusion
  BY DEF MemoryInv
<1>1. /\ \A q \in Writers : ~Busy(q) /\ ~Busy(q)'
      /\ claims[old] \cap DOMAIN versions = {} /\ unsynced' = {}
      /\ claims' = [v \in DOMAIN claims \ {old} |-> claims[v]]
      /\ UNCHANGED <<versions, told, givenBack>>
  BY DEF ReleaseClaim, Quiet, At, Busy, Stages, Without
<1>2. ASSUME NEW v \in DOMAIN versions, NEW o, Replaced(v, o) PROVE Replaced(v, o)'
  <2>1. CASE Names(o, v)
    BY <1>1, <1>2, <2>1 DEF Names, Replaced
  <2>2. CASE Settled(v, o)
    BY <1>1, <2>2 DEF Settled, Replaced
  <2> QED
    BY <1>2, <2>1, <2>2 DEF Replaced
<1>3. OneHolder'
  BY <1>1 DEF OneHolder
<1>4. WrittenOnce'
  BY <1>0, <1>1, <1>2 DEF Exclusion, WrittenOnce, OneSuccessor
<1>5. ToldOnce'
  <2>1. \A v : Wrote(v)' => Wrote(v) /\ v \in DOMAIN versions
    BY <1>0, <1>1 DEF Lasting, Owed, Wrote
  <2> QED
    BY <1>0, <1>2, <2>1 DEF Exclusion, ToldOnce
<1> QED
  BY <1>3, <1>4, <1>5 DEF Exclusion

LEMMA LosingPowerExcludes ==
    ASSUME Exclusion, Lasting', PowerLoss
    PROVE  Exclusion'
<1>1. /\ \A q \in Writers : ~Busy(q)'
      /\ DOMAIN versions' \subseteq DOMAIN versions
      /\ unsynced' = {} /\ told' = told /\ givenBack' = givenBack
  BY DEF PowerLoss, Busy, Idle, Stages
<1>2. \A v \in DOMAIN versions' : \A o : Replaced(v, o)'
  BY <1>1 DEF Replaced, Settled
<1>3. OneHolder'
  BY <1>1 DEF OneHolder
<1>4. WrittenOnce'
  BY <1>1, <1>2 DEF Exclusion, WrittenOnce, OneSuccessor
<1>5. ToldOnce'
  <2>1. \A v : Wrote(v)' => Wrote(v) /\ v \in DOMAIN versions'
    BY <1>1 DEF Lasting, Owed, Wrote
  <2> QED
    BY <1>2, <2>1 DEF Exclusion, ToldOnce
<1> QED
  BY <1>3, <1>4, <1>5 DEF Exclusion

LEMMA ExclusionInit == MemoryInit => Exclusion
<1> SUFFICES ASSUME MemoryInit PROVE Exclusion
  OBVIOUS
<1>1. \A p \in Writers : ~Busy(p)
  BY DEF MemoryInit, Idle, Busy, Stages
<1>2. DOMAIN versions = {} /\ told = {}
  BY DEF MemoryInit
<1> QED
  BY <1>1, <1>2 DEF Exclusion, OneHolder, WrittenOnce, OneSuccessor, ToldOnce, Wrote

LEMMA GivenBackGrows == [MemoryNext]_memoryVars => givenBack \subseteq givenBack'
<1> SUFFICES ASSUME [MemoryNext]_memoryVars PROVE givenBack \subseteq givenBack'
  OBVIOUS
<1>1. ASSUME MemoryNext PROVE givenBack \subseteq givenBack'
  BY <1>1, MemoryCases DEF Reads, Claim, WriteClaim, SyncClaim, Create, Write, Sync, Rollback,
     Fail, Crash, ReleaseClaim, PowerLoss
<1> QED
  BY <1>1 DEF memoryVars

LEMMA ExclusionStep == ExclusionInv /\ [MemoryNext]_memoryVars => ExclusionInv'
<1> SUFFICES ASSUME ExclusionInv, [MemoryNext]_memoryVars PROVE ExclusionInv'
  OBVIOUS
<1>0. MemoryInv /\ MemoryInv'
  BY ShapeStep, LastingStep DEF ExclusionInv, MemoryInv
<1> SUFFICES ASSUME "shared" \notin givenBack' PROVE Exclusion'
  BY <1>0 DEF ExclusionInv
<1>1. MemoryInv /\ Exclusion
  BY <1>0, GivenBackGrows DEF ExclusionInv
<1>2. ASSUME UNCHANGED memoryVars PROVE Exclusion'
  <2>1. \A q \in Writers : Busy(q)' => GoesOn(q)
    BY <1>2, StayPut DEF memoryVars, Busy
  <2> QED
    BY <1>1, <1>2, <2>1, ExclusionFrame DEF memoryVars, Wrote
<1>3. ASSUME PowerLoss PROVE Exclusion'
  BY <1>0, <1>1, <1>3, LosingPowerExcludes DEF MemoryInv
<1> QED
  BY <1>1, <1>2, <1>3, MemoryCases, ReadingExcludes, ClaimExcludes, WritingTheClaimExcludes,
     PlainStepsExclude, FailingExcludes, CreatingExcludes, SyncingExcludes,
     RollingBackExcludes, ReleasingExcludes

(* Of the writers that read one version one replaces it, unless a claim    *)
(* was given back for a version whose file stays, or while another writer  *)
(* of the same version relied on it; but for the latter two are never both *)
(* told that they wrote.                                                   *)
THEOREM CorrectionsExclude == MemorySpec => []CorrectionsAreExclusive
<1>1. MemoryInit => ExclusionInv
  BY ShapeInit, LastingInit, ExclusionInit DEF ExclusionInv, MemoryInv
<1>2. ExclusionInv /\ [MemoryNext]_memoryVars => ExclusionInv'
  BY ExclusionStep
<1>3. ExclusionInv => CorrectionsAreExclusive
  BY DEF ExclusionInv, Exclusion, WrittenOnce, ToldOnce, CorrectionsAreExclusive
<1> QED
  BY <1>1, <1>2, <1>3, PTL DEF MemorySpec
-----------------------------------------------------------------------------
(* A deletion stays.  That needs the past: the versions there are name     *)
(* others, some of which a loss of power may have taken and a writer may   *)
(* write again.  S stands for all versions anybody ever meant to write; an *)
(* identity is a digest, so no version came to be named before it was.     *)
Refs(v) == v.replaces \cup v.retires

History(S) ==
    /\ DOMAIN versions \subseteq S
    /\ \A p \in Writers : Busy(p) => Ours(p) \in S
    /\ \A v \in S :
          /\ Refs(v) \subseteq S
          /\ \A d \in Refs(v) : d.record = v.record
          /\ \A d \in v.replaces : d.deleted => v.deleted
    /\ \A D \in SUBSET S : D # {} => \E d \in D : \A e \in D : d \notin Refs(e)

HasHistory == \E S : History(S)

(* Only reading begins a version, and only versions begun are written.     *)
Continues ==
    /\ \A v \in DOMAIN versions' :
          v \in DOMAIN versions \/ \E p \in Writers : Busy(p) /\ Ours(p) = v
    /\ \A q \in Writers : Busy(q)' => Busy(q) /\ Ours(q)' = Ours(q)

LEMMA ContinuesKeepsHistory == HasHistory /\ Continues => HasHistory'
<1> SUFFICES ASSUME NEW S, History(S), Continues PROVE History(S)'
  BY DEF HasHistory
<1>1. DOMAIN versions' \subseteq S /\ \A q \in Writers : Busy(q)' => Ours(q)' \in S
  BY DEF History, Continues
<1> QED
  BY <1>1 DEF History

LEMMA StepsContinue ==
    ASSUME MemoryShape, MemoryNext, \A p \in Writers : ~Reads(p)
    PROVE  Continues
<1> DEFINE Others(p) == \A q \in Writers : q # p => writers'[q] = writers[q]
           Same(p) == Busy(p)' => Busy(p) /\ Ours(p)' = Ours(p)
           Old == DOMAIN versions' \subseteq DOMAIN versions
<1>1. ASSUME NEW p \in Writers, Others(p), Same(p),
             Old \/ (Busy(p) /\ DOMAIN versions' = DOMAIN versions \cup {Ours(p)})
      PROVE  Continues
  BY <1>1 DEF Continues, Busy, Ours
<1>2. ASSUME NEW p \in Writers, Busy(p), NEW pc, Goes(p, pc) PROVE Others(p) /\ Same(p)
  BY <1>2, Goings
<1>3. ASSUME NEW p \in Writers, Refused(p) \/ Returns(p) PROVE Others(p) /\ Same(p)
  BY <1>3, Resting
<1>4. ASSUME NEW p \in Writers, Claim(p) PROVE Continues
  <2>1. PICK old : TakeClaim(p, old) \/ Goes(p, "create") \/ Refused(p)
    BY <1>4 DEF Claim
  <2>2. Busy(p) /\ Old
    BY <1>4 DEF Claim, Busy, Stages, At
  <2>3. Others(p) /\ Same(p)
    BY <1>2, <1>3, <2>1, <2>2, Takings
  <2> QED
    BY <1>1, <2>2, <2>3
<1>5. ASSUME NEW p \in Writers, WriteClaim(p) \/ SyncClaim(p) \/ Write(p) PROVE Continues
  <2>1. Busy(p) /\ Old /\ \E pc : Goes(p, pc)
    BY <1>5 DEF WriteClaim, SyncClaim, Write, Busy, Stages, At
  <2> QED
    BY <1>1, <1>2, <2>1
<1>6. ASSUME NEW p \in Writers, Create(p) PROVE Continues
  <2>1. Busy(p) /\ (Old \/ DOMAIN versions' = DOMAIN versions \cup {Ours(p)})
    BY <1>6 DEF Create, Busy, Stages, At, Ours
  <2>2. Goes(p, "write") \/ Goes(p, "rollback") \/ Returns(p)
    BY <1>6 DEF Create
  <2>3. Others(p) /\ Same(p)
    BY <1>2, <1>3, <2>1, <2>2
  <2> QED
    BY <1>1, <2>1, <2>3
<1>7. ASSUME NEW p \in Writers, Sync(p) \/ Rollback(p) \/ Crash(p) PROVE Continues
  <2>1. Old /\ (Refused(p) \/ Returns(p))
    BY <1>7 DEF Sync, Rollback, Crash, Refused
  <2> QED
    BY <1>1, <1>3, <2>1
<1>8. ASSUME NEW p \in Writers, Fail(p) PROVE Continues
  <2>1. Old /\ Busy(p) /\ (Refused(p) \/ Goes(p, "rollback"))
    BY <1>8, Failing DEF Busy, Stages, At
  <2>2. Others(p) /\ Same(p)
    BY <1>2, <1>3, <2>1
  <2> QED
    BY <1>1, <2>1, <2>2
<1>9. ASSUME NEW old, ReleaseClaim(old) PROVE Continues
  BY <1>9 DEF ReleaseClaim, Continues, Busy, Ours
<1>10. ASSUME PowerLoss PROVE Continues
  BY <1>10 DEF PowerLoss, Continues, Busy, Stages, Idle
<1> QED
  BY <1>4, <1>5, <1>6, <1>7, <1>8, <1>9, <1>10, MemoryCases

LEMMA ReadingKeepsHistory ==
    ASSUME MemoryShape, HasHistory, NEW p \in Writers, Reads(p)
    PROVE  HasHistory'
<1>1. /\ versions' = versions
      /\ \A q \in Writers : q # p => writers'[q] = writers[q]
  BY Reading
<1>2. CASE ~Busy(p)'
  <2>1. Continues
    BY <1>1, <1>2 DEF Continues, Busy, Ours
  <2> QED
    BY <2>1, ContinuesKeepsHistory
<1>3. CASE Busy(p)'
  <2>1. PICK S : History(S)
    BY DEF HasHistory
  <2>2. PICK v : v = Ours(p)' /\ Fresh(v)
    BY <1>3, Reading DEF Busy, Stages
  <2>3. /\ Refs(v) \subseteq DOMAIN versions
        /\ \A d \in Refs(v) : d.record = v.record
        /\ \A d \in v.replaces : d.deleted => v.deleted
    BY <2>2 DEF Fresh, Heads, Refs
  <2> DEFINE T == S \cup {v}
  <2>4. \A w \in T : /\ Refs(w) \subseteq T
                     /\ \A d \in Refs(w) : d.record = w.record
                     /\ \A d \in w.replaces : d.deleted => w.deleted
    BY <2>1, <2>3 DEF History
  <2>5. ASSUME NEW D \in SUBSET T, D # {} PROVE \E d \in D : \A e \in D : d \notin Refs(e)
    <3>1. CASE v \in D /\ v \notin S
      <4>1. \A e \in D : v \notin Refs(e)
        BY <2>1, <2>3, <2>5, <3>1 DEF History
      <4> QED
        BY <3>1, <4>1
    <3>2. CASE v \notin D \/ v \in S
      <4>1. D \in SUBSET S
        BY <2>5, <3>2
      <4> QED
        BY <2>1, <2>5, <4>1 DEF History
    <3> QED
      BY <3>1, <3>2
  <2>6. DOMAIN versions' \subseteq T /\ \A q \in Writers : Busy(q)' => Ours(q)' \in T
    BY <1>1, <2>1, <2>2 DEF History, Busy, Ours
  <2>7. History(T)'
    BY <2>4, <2>5, <2>6 DEF History
  <2> QED
    BY <2>7 DEF HasHistory
<1> QED
  BY <1>2, <1>3

LEMMA HistoryInit == MemoryInit => HasHistory
<1> SUFFICES ASSUME MemoryInit PROVE History({})
  BY DEF HasHistory
<1>1. DOMAIN versions = {} /\ \A p \in Writers : ~Busy(p)
  BY DEF MemoryInit, Idle, Busy, Stages
<1> QED
  BY <1>1 DEF History

LEMMA HistoryStep == MemoryInv /\ HasHistory /\ [MemoryNext]_memoryVars => HasHistory'
<1> SUFFICES ASSUME MemoryInv, HasHistory, [MemoryNext]_memoryVars PROVE HasHistory'
  OBVIOUS
<1>1. MemoryShape
  BY DEF MemoryInv
<1>2. CASE MemoryNext
  BY <1>1, <1>2, StepsContinue, ContinuesKeepsHistory, ReadingKeepsHistory
<1>3. CASE UNCHANGED memoryVars
  <2>1. Continues
    BY <1>3 DEF memoryVars, Continues, Busy, Ours
  <2> QED
    BY <2>1, ContinuesKeepsHistory
<1> QED
  BY <1>2, <1>3

(* Among the tombstones of a record one is named by no tombstone, and what *)
(* replaces a tombstone is one: so it is a head, or an operator retired it.*)
LEMMA TombstonesStay ==
    ASSUME MemoryInv, HasHistory
    PROVE  DeletedStaysDeleted
<1> SUFFICES ASSUME NEW t, t.deleted, Owed(t),
                    \A d \in Retired : ~(d.record = t.record /\ d.deleted)
             PROVE  Presented(t.record) = {}
  BY DEF DeletedStaysDeleted
<1>1. PICK S : History(S)
  BY DEF HasHistory
<1> DEFINE D == {d \in DOMAIN versions : d.record = t.record /\ d.deleted}
<1>2. t \in D
  BY DEF MemoryInv, Lasting
<1>3. D \in SUBSET S
  BY <1>1 DEF History
<1>4. PICK d \in D : \A e \in D : d \notin Refs(e)
  <2>1. D # {}
    BY <1>2
  <2> HIDE DEF D
  <2> QED
    BY <1>1, <1>3, <2>1 DEF History
<1>5. d \notin Superseded
  <2> SUFFICES ASSUME NEW e \in DOMAIN versions, d \in e.replaces PROVE FALSE
    BY DEF Superseded
  <2>1. e.deleted /\ e.record = t.record
    BY <1>1, <1>4 DEF History, Refs
  <2> QED
    BY <1>4, <2>1 DEF Refs
<1>6. d \in Heads(t.record)
  BY <1>4, <1>5 DEF Heads
<1> QED
  BY <1>4, <1>6 DEF Presented, IsTip

(* A record whose deletion was confirmed is not presented again, unless an *)
(* operator retired a tombstone of it, or power was lost after a tombstone *)
(* that was found there was the answer.                                    *)
THEOREM DeletionsStay == MemorySpec => []DeletedStaysDeleted
<1>1. MemoryInit => MemoryInv /\ HasHistory
  BY ShapeInit, LastingInit, HistoryInit DEF MemoryInv
<1>2. MemoryInv /\ HasHistory /\ [MemoryNext]_memoryVars => (MemoryInv /\ HasHistory)'
  BY ShapeStep, LastingStep, HistoryStep DEF MemoryInv
<1>3. MemoryInv /\ HasHistory => DeletedStaysDeleted
  BY TombstonesStay
<1> QED
  BY <1>1, <1>2, <1>3, PTL DEF MemorySpec
=============================================================================
