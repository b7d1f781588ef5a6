------------------------- MODULE JobStoreProperties -------------------------
(***************************************************************************)
(* What the coordination store promises, stated over JobStore for callers  *)
(* that may pass any argument at any instant.                              *)
(***************************************************************************)
EXTENDS JobStore

JobRecord == [state : JobStates, attempt : Numbers, fence : Nat, cancelled : BOOLEAN]
AttemptRecord == [fence : Nat, state : AttemptStates]
ClaimRecord == [attempt : Numbers, fence : Nat, expires : 0 .. MaxNow + Lease]
CheckpointRecord ==
    [attempt : Numbers, fence : Nat, revision : Progress, cursor : Progress]
ReservationRecord ==
    [state : {"none", "active", "settled", "unknown"}, reserved : Amounts, spent : Amounts]
DispatchRecord ==
    {NoDispatch} \cup
    [bound : {TRUE}, job : Jobs, attempt : Numbers, fence : Nat, class : WorkClasses]
ReceiptRecord ==
    {NoReceipt} \cup
    [bound : {TRUE}, job : Jobs, attempt : Numbers, fence : Nat, status : Outcomes]
SubmissionRecord == {NoSubmission} \cup [bound : {TRUE}, digest : Digests, job : Jobs]

(* The type of every variable of the store.                                *)
StoreTypeOK ==
    /\ now \in 0 .. MaxNow
    /\ jobs \in [Jobs -> JobRecord]
    /\ attempts \in [Jobs -> [1 .. MaxAttempts -> AttemptRecord]]
    /\ claims \in [Jobs -> ClaimRecord]
    /\ checkpoints \in [Jobs -> CheckpointRecord]
    /\ occurrences \in [Occurrences -> OccurrenceStates]
    /\ reservations \in [Occurrences -> ReservationRecord]
    /\ ceilings \in [Windows -> Ceilings \cup {0}]
    /\ dispatches \in [Keys -> DispatchRecord]
    /\ receipts \in [Keys -> ReceiptRecord]
    /\ submissions \in [SubmissionKeys -> SubmissionRecord]

-----------------------------------------------------------------------------
(* A job has at most one live attempt: it exists exactly while the job is  *)
(* running, it is the attempt of the current claim and it carries the      *)
(* current fence, which no earlier attempt carries (ADR-0010, "Leases and  *)
(* fencing"; state.claim, apply of attempt.claimed).                       *)
SingleLiveAttempt ==
    \A j \in Jobs :
        /\ \A n \in 1 .. MaxAttempts :
              attempts[j][n].state = "running" <=> jobs[j].state = "running" /\ n = jobs[j].attempt
        /\ claims[j].attempt = jobs[j].attempt /\ claims[j].fence = jobs[j].fence
        /\ \A n \in 1 .. MaxAttempts :
              n < jobs[j].attempt => attempts[j][n].fence < jobs[j].fence

(* A job that ended did so through exactly the outcome its last attempt    *)
(* ended with; every earlier attempt expired (state.completionRecords).    *)
OutcomeOfLastAttempt ==
    \A j \in Jobs : \A n \in 1 .. jobs[j].attempt :
        /\ n < jobs[j].attempt => attempts[j][n].state = "expired"
        /\ n = jobs[j].attempt => attempts[j][n].state = jobs[j].state

(* A receipt never outlives or contradicts its registration: it names the  *)
(* same job, attempt and fence, and that attempt was really granted        *)
(* (spec/jobs.md section 5, state.receipt).                                *)
ReceiptMatchesDispatch ==
    \A k \in Keys : receipts[k].bound =>
        LET d == dispatches[k]
            r == receipts[k]
        IN /\ d.bound
           /\ d.job = r.job /\ d.attempt = r.attempt /\ d.fence = r.fence
           /\ r.attempt \in 1 .. jobs[r.job].attempt
           /\ attempts[r.job][r.attempt].fence = r.fence

(* No window ever commits more than its ceiling, counting confirmed spend  *)
(* for settled reservations and the whole reservation for live and unknown *)
(* ones (spec/jobs.md section 7, state.admit).                             *)
MayHaveSpent(r) ==
    CASE r.state = "none" -> 0
      [] r.state = "settled" -> r.spent
      [] r.state \in {"active", "unknown"} -> r.reserved

LedgerWithinCeiling ==
    \A w \in Windows :
        MapThenSumSet(LAMBDA o : MayHaveSpent(reservations[o]),
                      {o \in Occurrences : WindowOf[o] = w}) <= ceilings[w]

(* A finished occurrence is wholly finished: its job and last attempt are  *)
(* terminal and its reservation is settled within what was reserved, or    *)
(* all three are unknown together (contract.go, Finalization).             *)
FinalizationIsWhole ==
    \A o \in Occurrences :
        LET j == JobFor[o]
            r == reservations[o]
        IN /\ occurrences[o] = "completed" =>
                /\ jobs[j].state \in JobTerminal \ {"unknown"}
                /\ r.state = "settled" /\ r.spent <= r.reserved
           /\ occurrences[o] = "unknown" =>
                jobs[j].state = "unknown" /\ r.state = "unknown"

-----------------------------------------------------------------------------
Evidence(j) ==
    <<checkpoints[j], {<<k, dispatches[k]>> : k \in {x \in Keys : dispatches[x].bound /\ dispatches[x].job = j}},
      {<<k, receipts[k]>> : k \in {x \in Keys : receipts[x].bound /\ receipts[x].job = j}}>>

(* Progress, registrations, receipts and terminal truth of a job change    *)
(* only while its lease runs on the store's own clock: a worker that is    *)
(* late by one instant commits nothing, even before a successor claims     *)
(* (spec/jobs.md section 3, ValidateActiveFence).                          *)
OnlyLiveLeaseCommits ==
    [][\A j \in Jobs :
          \/ Evidence(j)' # Evidence(j)
          \/ jobs[j].state' # jobs[j].state /\ jobs[j].state' \in JobTerminal
          \/ \E o \in Occurrences : /\ JobFor[o] = j
                                    /\ reservations[o].state = "active"
                                    /\ reservations[o].state' # "active"
          => /\ jobs[j].state = "running"
             /\ now < claims[j].expires]_storeVars

(* Terminal truth is final: no terminal job, attempt or occurrence changes *)
(* state again, and money a reservation settled or lost track of is never  *)
(* taken back (job/validation.go transitions; spec/jobs.md section 7).     *)
TerminalIsFinal ==
    [][/\ \A j \in Jobs : jobs[j].state \in JobTerminal => jobs[j].state' = jobs[j].state
       /\ \A j \in Jobs : \A n \in 1 .. MaxAttempts :
             attempts[j][n].state \in AttemptTerminal => attempts[j][n]' = attempts[j][n]
       /\ \A o \in Occurrences :
             /\ occurrences[o] \in {"skipped", "completed", "unknown"}
                   => occurrences[o]' = occurrences[o]
             /\ reservations[o].state \in {"settled", "unknown"}
                   => reservations[o]' = reservations[o]]_storeVars

(* The confirmed frontier of a job never moves backward over its lifetime, *)
(* whichever attempts report it (spec/jobs.md section 4).                  *)
FrontierNeverRegresses ==
    [][\A j \in Jobs : /\ checkpoints[j].cursor' >= checkpoints[j].cursor
                       /\ checkpoints[j].revision' >= checkpoints[j].revision]_storeVars

-----------------------------------------------------------------------------
(* What spec/jobs.md says of the holder of the current lease: an operation *)
(* is refused when job, attempt or fence differ, the attempt is terminal or*)
(* the lease ran out (section 3), and a checkpoint only when it moves      *)
(* backward (section 4).  So the holder may confirm again, under its own   *)
(* attempt, the frontier already confirmed.                                *)
HolderMayCheckpoint ==
    \A j \in Jobs :
        LET n == jobs[j].attempt
            f == jobs[j].fence
        IN Active(j, n, f) =>
              ValidCheckpoint(checkpoints[j],
                              [checkpoints[j] EXCEPT !.attempt = n, !.fence = f])

(* Idempotent work without a receipt retries with its original dispatch key*)
(* (spec/jobs.md sections 5 and 9), so the holder of the current lease may *)
(* register that key for its own attempt.                                  *)
IdempotentWorkMayRetry ==
    \A j \in Jobs, k \in Keys :
        LET n == jobs[j].attempt
            f == jobs[j].fence
            d == dispatches[k]
        IN /\ Active(j, n, f)
           /\ d.bound /\ ~receipts[k].bound
           /\ d.bound => d.job = j /\ d.class = "idempotent"
           => Registrable(k, Dispatch(j, n, f, "idempotent"))
=============================================================================
