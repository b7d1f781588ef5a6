------------------------ MODULE MemoryStoreProperties -----------------------
(* What the writers of one memory directory promise.                       *)
EXTENDS MemoryStore

Happened(kinds) == mishaps \cap kinds # {}

Wrote(v) == <<v, "written">> \in told
(* What was acknowledged and has to stay: a version its writer synced, and *)
(* one a repeated write or deletion found there, synced or not, as long as *)
(* no power was lost.                                                      *)
Owed(v) == Wrote(v) \/ (<<v, "found">> \in told /\ ~Happened({"power"}))
Acknowledged == {a[1] : a \in told}

(* One predecessor has one successor: of the corrections, promotions,      *)
(* deletions and resolutions that read one head, one is written            *)
(* (claimSupersession).                                                    *)
OneSuccessor ==
    \A v, w \in DOMAIN versions : v.replaces \cap w.replaces # {} => v = w

(* Whoever fails or dies and wherever, only a claim that was given back    *)
(* while it still stood for something can break that: one whose version    *)
(* file stays where a write or a sync failed, or one another writer of the *)
(* same version relies on (releaseClaimAfterFailedWrite).  As long as no   *)
(* claim another writer relies on was given back, two who replace one      *)
(* version are never both told that they wrote.                            *)
CorrectionsAreExclusive ==
    /\ givenBack = {} => OneSuccessor
    /\ "shared" \notin givenBack =>
          \A v, w \in Acknowledged :
              Wrote(v) /\ Wrote(w) /\ v.replaces \cap w.replaces # {} => v = w

(* A version its writer was told it wrote is there for good, whatever dies *)
(* afterwards (Put: sync the file, then the directory), and one that was   *)
(* acknowledged because it was found is there until power is lost.         *)
WrittenSurvives ==
    \A v \in Acknowledged : Owed(v) => v \in DOMAIN versions /\ versions[v] = "whole"

(* A record whose deletion was confirmed is never presented again, unless  *)
(* an operator, healing a fork, saw a tombstone of it and kept another     *)
(* head (Delete: "without resurrection"; Resolve), or power was lost after *)
(* a deletion was confirmed for a tombstone that was found there.          *)
DeletedStaysDeleted ==
    \A t \in Acknowledged : t.deleted /\ Owed(t) =>
        \/ Presented(t.record) = {}
        \/ \E d \in Retired : d.record = t.record /\ d.deleted

(* A write that is abandoned without a crash gives its claim back: when    *)
(* nobody writes, a claim whose successor does not exist is the work of a  *)
(* crash or of a claim file that could not be written or removed.          *)
NoClaimIsLeftBehind ==
    Quiet /\ ~Happened({"crash", "power", "claim", "release"}) =>
        \A old \in DOMAIN claims : claims[old] \cap DOMAIN versions # {}

-----------------------------------------------------------------------------
(* A crash loses at most the version being written (Store): nobody else's  *)
(* verbs fail for it.                                                      *)
CrashLosesOneVersion == Quiet /\ told # {} => Readable

(* A crash never loses a version somebody received a receipt for (Store),  *)
(* and a repeated write or deletion that succeeds is a receipt.            *)
ReceiptsAreKept ==
    \A v \in Acknowledged : v \in DOMAIN versions /\ versions[v] = "whole"

(* A claim that is given back is one no other writer can be acting on      *)
(* (releaseClaimAfterFailedWrite: O_EXCL means the creator of a claim is   *)
(* its exclusive holder).                                                  *)
ClaimsAreNotStolen == "shared" \notin givenBack

(* An abandoned write does not leave its exclusion behind (Put), if the    *)
(* process lives.                                                          *)
AbandonedWritesRelease ==
    Quiet /\ ~Happened({"crash", "power", "release"}) =>
        \A old \in DOMAIN claims : claims[old] \cap DOMAIN versions # {}
=============================================================================
