------------------------- MODULE CoordinationProofs -------------------------
(***************************************************************************)
(* Proofs about the coordination store (JobStore), for any set of jobs,    *)
(* occurrences and keys and any bounds, and about the schedulers that      *)
(* share it (Scheduler), for any number of processes, triggers, slots,     *)
(* policies and faults.  What is proved of the store alone says nothing of *)
(* the schedulers' variables, and holds of them because every behaviour of *)
(* theirs is one of the store (SchedulersUseTheStore).                     *)
(***************************************************************************)
EXTENDS JobStoreProperties, SchedulerProperties,
        FiniteSetTheorems, WellFoundedInduction, TLAPS

USE DEF leaseVars, ledgerVars, dispatchVars

(* Every step of the store is one operation of the interface or a tick of  *)
(* its clock.  The case analysis below is over this list.                  *)
LEMMA StepCases ==
    ASSUME StoreNext
    PROVE  \/ \E j \in Jobs : RegisterJob(j)
           \/ \E j \in Jobs : Claim(j)
           \/ \E j \in Jobs : Cancel(j)
           \/ \E j \in Jobs, n, f \in Numbers : Heartbeat(j, n, f)
           \/ \E j \in Jobs, n, f \in Numbers, revision, cursor \in Progress :
                 Checkpoint(j, n, f, revision, cursor)
           \/ \E k \in Keys, j \in Jobs, n, f \in Numbers, class \in WorkClasses :
                 RegisterDispatch(k, j, n, f, class)
           \/ \E k \in Keys, j \in Jobs, n, f \in Numbers, status \in Outcomes :
                 RecordReceipt(k, j, n, f, status)
           \/ \E j \in Jobs, n, f \in Numbers, outcome \in Outcomes : Complete(j, n, f, outcome)
           \/ \E o \in Occurrences, state \in {"pending", "skipped"} : RecordOccurrence(o, state)
           \/ \E o \in Occurrences, ceiling \in Ceilings, reserved \in Amounts :
                 Admit(o, ceiling, reserved)
           \/ \E o \in Occurrences, n, f \in Numbers : Settle(o, n, f)
           \/ \E o \in Occurrences, n, f \in Numbers : Finalize(o, n, f)
           \/ \E k \in SubmissionKeys, d \in Digests, j \in Jobs : BindSubmission(k, d, j)
           \/ Tick
  BY Zenon DEF StoreNext, FencedNext, LedgerNext

LEMMA NumberFacts ==
    /\ Amounts \subseteq Nat /\ 0 \in Amounts
    /\ Ceilings \subseteq Nat \ {0}
    /\ Lease \in Nat /\ Lease # 0
    /\ MaxAttempts \in Nat /\ MaxAttempts # 0
    /\ MaxProgress \in Nat
    /\ MaxNow \in Nat
    /\ Numbers \subseteq Nat
  BY NumberAssumption DEF Numbers

(* Type correctness: the initial state.                                    *)
LEMMA TypeInit == StoreInit => StoreTypeOK
<1> SUFFICES ASSUME StoreInit PROVE StoreTypeOK
  OBVIOUS
<1> USE NumberFacts
<1>1. /\ now \in 0 .. MaxNow
      /\ jobs \in [Jobs -> JobRecord]
      /\ claims \in [Jobs -> ClaimRecord]
      /\ checkpoints \in [Jobs -> CheckpointRecord]
  BY DEF StoreInit, Numbers, Progress, JobStates, JobRecord, ClaimRecord, CheckpointRecord,
         NoClaim, NoCheckpoint
<1>2. NoAttempt \in AttemptRecord
  BY DEF NoAttempt, AttemptRecord, AttemptStates, Numbers
<1>3. attempts \in [Jobs -> [1 .. MaxAttempts -> AttemptRecord]]
  BY <1>2 DEF StoreInit
<1>4. /\ occurrences \in [Occurrences -> OccurrenceStates]
      /\ reservations \in [Occurrences -> ReservationRecord]
      /\ ceilings \in [Windows -> Ceilings \cup {0}]
  BY DEF StoreInit, NoReservation, ReservationRecord, OccurrenceStates
<1>5. /\ dispatches \in [Keys -> DispatchRecord]
      /\ receipts \in [Keys -> ReceiptRecord]
      /\ submissions \in [SubmissionKeys -> SubmissionRecord]
  BY DEF StoreInit, DispatchRecord, ReceiptRecord, SubmissionRecord
<1> QED
  BY <1>1, <1>3, <1>4, <1>5 DEF StoreTypeOK

(* Type correctness: one step, one case per operation.                     *)
LEMMA TypeStep ==
    ASSUME StoreTypeOK, [StoreNext]_storeVars
    PROVE  StoreTypeOK'
<1> USE NumberFacts
<1>t. /\ now \in 0 .. MaxNow
      /\ jobs \in [Jobs -> JobRecord]
      /\ attempts \in [Jobs -> [1 .. MaxAttempts -> AttemptRecord]]
      /\ claims \in [Jobs -> ClaimRecord]
  BY DEF StoreTypeOK
<1>o. JobFor \in [Occurrences -> Jobs]
  BY BindingAssumption
<1>0. CASE UNCHANGED storeVars
  BY <1>0 DEF storeVars, StoreTypeOK
<1>1. ASSUME NEW j \in Jobs, RegisterJob(j) PROVE StoreTypeOK'
  <2>1. jobs' \in [Jobs -> JobRecord]
    BY <1>1, <1>t DEF RegisterJob, JobRecord, JobStates
  <2> QED
    BY <1>1, <2>1 DEF RegisterJob, StoreTypeOK
<1>2. ASSUME NEW j \in Jobs, Claim(j) PROVE StoreTypeOK'
  <2> DEFINE n == jobs[j].attempt + 1
             f == jobs[j].fence + 1
  <2>1. n \in 1 .. MaxAttempts
    BY <1>2, <1>t DEF Claim, JobRecord, Numbers
  <2>2. n \in Numbers /\ f \in Nat /\ now + Lease \in 0 .. MaxNow + Lease
    BY <2>1, <1>t DEF JobRecord, Numbers
  <2>3. jobs' \in [Jobs -> JobRecord]
    BY ZenonT(30), <1>2, <1>t, <2>2 DEF Claim, JobRecord, JobStates
  <2>4. claims' \in [Jobs -> ClaimRecord]
    BY <1>2, <1>t, <2>2 DEF Claim, ClaimRecord
  <2>5. WithExpired(j) \in [1 .. MaxAttempts -> AttemptRecord]
    <3>1. attempts[j] \in [1 .. MaxAttempts -> AttemptRecord]
      BY <1>t
    <3>2. ASSUME NEW m \in 1 .. MaxAttempts
          PROVE  [attempts[j][m] EXCEPT !.state = "expired"] \in AttemptRecord
      BY <3>1 DEF AttemptRecord, AttemptStates, AttemptTerminal
    <3> QED
      BY <3>1, <3>2 DEF WithExpired
  <2>6. [fence |-> f, state |-> "running"] \in AttemptRecord
    BY <2>2 DEF AttemptRecord, AttemptStates
  <2>7. attempts' = [attempts EXCEPT
                       ![j] = [WithExpired(j) EXCEPT ![n] = [fence |-> f, state |-> "running"]]]
    BY <1>2 DEF Claim
  <2>8. attempts' \in [Jobs -> [1 .. MaxAttempts -> AttemptRecord]]
    BY <1>t, <2>5, <2>6, <2>7
  <2> QED
    BY <1>2, <2>3, <2>4, <2>8 DEF Claim, StoreTypeOK
<1>3. ASSUME NEW j \in Jobs, Cancel(j) PROVE StoreTypeOK'
  <2>1. jobs' \in [Jobs -> JobRecord]
    BY <1>3, <1>t DEF Cancel, JobRecord
  <2> QED
    BY <1>3, <2>1 DEF Cancel, StoreTypeOK
<1>4. ASSUME NEW j \in Jobs, NEW n \in Numbers, NEW f \in Numbers, Heartbeat(j, n, f)
      PROVE  StoreTypeOK'
  <2>1. now + Lease \in 0 .. MaxNow + Lease
    BY <1>t
  <2>2. claims' \in [Jobs -> ClaimRecord]
    BY <1>4, <1>t, <2>1 DEF Heartbeat, ClaimRecord
  <2> QED
    BY <1>4, <2>2 DEF Heartbeat, StoreTypeOK
<1>5. ASSUME NEW j \in Jobs, NEW n \in Numbers, NEW f \in Numbers,
             NEW revision \in Progress, NEW cursor \in Progress,
             Checkpoint(j, n, f, revision, cursor)
      PROVE  StoreTypeOK'
  <2>1. checkpoints \in [Jobs -> CheckpointRecord]
    BY DEF StoreTypeOK
  <2>2. checkpoints' \in [Jobs -> CheckpointRecord]
    BY <1>5, <2>1 DEF Checkpoint, CheckpointRecord
  <2> QED
    BY <1>5, <2>2 DEF Checkpoint, StoreTypeOK
<1>6. ASSUME NEW k \in Keys, NEW j \in Jobs, NEW n \in Numbers, NEW f \in Numbers,
             NEW class \in WorkClasses, RegisterDispatch(k, j, n, f, class)
      PROVE  StoreTypeOK'
  <2>1. dispatches \in [Keys -> DispatchRecord]
    BY DEF StoreTypeOK
  <2>2. Dispatch(j, n, f, class) \in DispatchRecord
    BY DEF Dispatch, DispatchRecord
  <2>3. dispatches' \in [Keys -> DispatchRecord]
    BY <1>6, <2>1, <2>2 DEF RegisterDispatch
  <2> QED
    BY <1>6, <2>3 DEF RegisterDispatch, StoreTypeOK
<1>7. ASSUME NEW k \in Keys, NEW j \in Jobs, NEW n \in Numbers, NEW f \in Numbers,
             NEW status \in Outcomes, RecordReceipt(k, j, n, f, status)
      PROVE  StoreTypeOK'
  <2>1. receipts \in [Keys -> ReceiptRecord]
    BY DEF StoreTypeOK
  <2>2. Receipt(j, n, f, status) \in ReceiptRecord
    BY DEF Receipt, ReceiptRecord
  <2>3. receipts' \in [Keys -> ReceiptRecord]
    BY <1>7, <2>1, <2>2 DEF RecordReceipt
  <2> QED
    BY <1>7, <2>3 DEF RecordReceipt, StoreTypeOK
<1>8. ASSUME NEW j \in Jobs, NEW n \in Numbers, NEW outcome \in Outcomes,
             Completed(j, n, outcome)
      PROVE  /\ jobs' \in [Jobs -> JobRecord]
             /\ attempts' \in [Jobs -> [1 .. MaxAttempts -> AttemptRecord]]
  <2>1. jobs' \in [Jobs -> JobRecord]
    BY <1>8, <1>t DEF Completed, JobRecord, JobStates, JobTerminal
  <2>2. outcome \in AttemptStates
    BY DEF AttemptStates, AttemptTerminal
  <2>3. [attempts[j] EXCEPT ![n].state = outcome] \in [1 .. MaxAttempts -> AttemptRecord]
    <3>1. attempts[j] \in [1 .. MaxAttempts -> AttemptRecord]
      BY <1>t
    <3>2. ASSUME NEW m \in 1 .. MaxAttempts
          PROVE  [attempts[j][m] EXCEPT !.state = outcome] \in AttemptRecord
      BY <2>2, <3>1 DEF AttemptRecord
    <3> QED
      BY <3>1, <3>2
  <2>4. attempts' = [attempts EXCEPT ![j] = [attempts[j] EXCEPT ![n].state = outcome]]
    BY <1>8 DEF Completed
  <2>5. attempts' \in [Jobs -> [1 .. MaxAttempts -> AttemptRecord]]
    BY <1>t, <2>3, <2>4
  <2> QED
    BY <2>1, <2>5
<1>9. ASSUME NEW j \in Jobs, NEW n \in Numbers, NEW f \in Numbers, NEW outcome \in Outcomes,
             Complete(j, n, f, outcome)
      PROVE  StoreTypeOK'
  <2>1. Completed(j, n, outcome)
    BY <1>9 DEF Complete
  <2> QED
    BY <1>8, <1>9, <2>1 DEF Complete, StoreTypeOK
<1>10. ASSUME NEW o \in Occurrences, NEW state \in {"pending", "skipped"},
              RecordOccurrence(o, state)
       PROVE  StoreTypeOK'
  <2>1. occurrences' \in [Occurrences -> OccurrenceStates]
    BY <1>10 DEF RecordOccurrence, StoreTypeOK, OccurrenceStates
  <2> QED
    BY <1>10, <2>1 DEF RecordOccurrence, StoreTypeOK
<1>r. reservations \in [Occurrences -> ReservationRecord]
  BY DEF StoreTypeOK
<1>11. ASSUME NEW o \in Occurrences, NEW ceiling \in Ceilings, NEW reserved \in Amounts,
              Admit(o, ceiling, reserved)
       PROVE  StoreTypeOK'
  <2>a. jobs' = jobs \/ \E j \in Jobs : jobs' = [jobs EXCEPT ![j].state = "accepted"]
    BY <1>11, <1>o DEF Admit
  <2>1. jobs' \in [Jobs -> JobRecord]
    BY <2>a, <1>t DEF JobRecord, JobStates
  <2>2. reservations' \in [Occurrences -> ReservationRecord]
    BY <1>11, <1>r DEF Admit, ReservationRecord
  <2>3. ceilings' \in [Windows -> Ceilings \cup {0}]
    BY <1>11 DEF Admit, StoreTypeOK
  <2>4. occurrences' \in [Occurrences -> OccurrenceStates]
    BY <1>11 DEF Admit, StoreTypeOK, OccurrenceStates
  <2> QED
    BY <1>11, <2>1, <2>2, <2>3, <2>4 DEF Admit, StoreTypeOK
<1>12. ASSUME NEW o \in Occurrences, NEW kind \in {"settled", "unknown"}, NEW spent \in Amounts,
              reservations' = [reservations EXCEPT ![o] = Settled(kind, @, spent)]
       PROVE  reservations' \in [Occurrences -> ReservationRecord]
  BY <1>12, <1>r DEF Settled, ReservationRecord
<1>13. ASSUME NEW o \in Occurrences, NEW n \in Numbers, NEW f \in Numbers,
              Settle(o, n, f)
       PROVE  StoreTypeOK'
  <2>1. reservations' \in [Occurrences -> ReservationRecord]
    BY <1>12, <1>13 DEF Settle
  <2> QED
    BY <1>13, <2>1 DEF Settle, StoreTypeOK
<1>14. ASSUME NEW o \in Occurrences, NEW n \in Numbers, NEW f \in Numbers,
              Finalize(o, n, f)
       PROVE  StoreTypeOK'
  <2>1. reservations' \in [Occurrences -> ReservationRecord]
    BY <1>12, <1>14 DEF Finalize, KindOf
  <2>2. /\ jobs' \in [Jobs -> JobRecord]
        /\ attempts' \in [Jobs -> [1 .. MaxAttempts -> AttemptRecord]]
    BY <1>8, <1>14, <1>o DEF Finalize
  <2>3. occurrences' \in [Occurrences -> OccurrenceStates]
    BY <1>14 DEF Finalize, StoreTypeOK, OccurrenceStates, FinalStates
  <2> QED
    BY <1>14, <2>1, <2>2, <2>3 DEF Finalize, StoreTypeOK
<1>15. ASSUME NEW k \in SubmissionKeys, NEW d \in Digests, NEW j \in Jobs,
              BindSubmission(k, d, j)
       PROVE  StoreTypeOK'
  <2>1. submissions' \in [SubmissionKeys -> SubmissionRecord]
    BY <1>15 DEF BindSubmission, Submission, SubmissionRecord, StoreTypeOK
  <2> QED
    BY <1>15, <2>1 DEF BindSubmission, StoreTypeOK
<1>16. ASSUME Tick PROVE StoreTypeOK'
  <2>1. now' \in 0 .. MaxNow
    BY <1>16, <1>t DEF Tick
  <2> QED
    BY <1>16, <2>1 DEF Tick, StoreTypeOK
<1> QED
  BY StepCases, <1>0, <1>1, <1>2, <1>3, <1>4, <1>5, <1>6, <1>7, <1>9, <1>10, <1>11, <1>13,
     <1>14, <1>15, <1>16

(* Every reachable state of the store is well typed.                       *)
THEOREM TypeCorrect == StoreSpec => []StoreTypeOK
<1>1. StoreInit => StoreTypeOK
  BY TypeInit
<1>2. StoreTypeOK /\ [StoreNext]_storeVars => StoreTypeOK'
  BY TypeStep
<1> QED
  BY <1>1, <1>2, PTL DEF StoreSpec

-----------------------------------------------------------------------------
(* Why there is one live attempt.  Neither property is inductive alone: a  *)
(* claim closes the attempt its predecessor's CLAIM names, so the claim,   *)
(* the job and the attempts have to agree on who that is, and on the fences*)
(* that were handed out.  Attempt n always carries fence n.                *)
AttemptsOf(j) ==
    \A n \in 1 .. MaxAttempts :
        /\ n < jobs[j].attempt => attempts[j][n] = [fence |-> n, state |-> "expired"]
        /\ n = jobs[j].attempt => attempts[j][n] = [fence |-> n, state |-> jobs[j].state]
        /\ n > jobs[j].attempt => attempts[j][n] = NoAttempt

LeaseOf(j) ==
    /\ jobs[j].fence = jobs[j].attempt
    /\ claims[j].attempt = jobs[j].attempt
    /\ claims[j].fence = jobs[j].attempt
    /\ jobs[j].attempt = 0 <=> jobs[j].state \in {"none", "accepted"}
    /\ AttemptsOf(j)

LeaseInv == \A j \in Jobs : LeaseOf(j)

LEMMA LeaseInit == StoreInit => LeaseInv
  BY NumberFacts DEF StoreInit, LeaseInv, LeaseOf, AttemptsOf, NoClaim, NoAttempt

(* A step that leaves the lease state alone leaves the invariant alone.    *)
LEMMA LeaseFrame ==
    ASSUME LeaseInv, UNCHANGED leaseVars
    PROVE  LeaseInv'
  BY DEF LeaseInv, LeaseOf, AttemptsOf

LEMMA LeaseFinish ==
    ASSUME StoreTypeOK, LeaseInv, NEW j \in Jobs, NEW n, NEW f, NEW outcome \in Outcomes,
           Active(j, n, f), Completed(j, n, outcome), claims' = claims
    PROVE  LeaseInv'
<1> USE NumberFacts
<1>t. /\ jobs \in [Jobs -> JobRecord]
      /\ attempts \in [Jobs -> [1 .. MaxAttempts -> AttemptRecord]]
  BY DEF StoreTypeOK
<1>1. n = jobs[j].attempt /\ n \in 1 .. MaxAttempts
  BY DEF Active
<1>2. /\ jobs'[j] = [jobs[j] EXCEPT !.state = outcome]
      /\ attempts'[j] = [attempts[j] EXCEPT ![n].state = outcome]
      /\ \A i \in Jobs \ {j} : jobs'[i] = jobs[i] /\ attempts'[i] = attempts[i]
  BY <1>t DEF Completed
<1>3. /\ jobs'[j].attempt = jobs[j].attempt /\ jobs'[j].fence = jobs[j].fence
      /\ jobs'[j].state = outcome
  BY <1>2, <1>t DEF JobRecord
<1>4. LeaseOf(j)
  BY DEF LeaseInv
<1>5. AttemptsOf(j)'
  <2>1. attempts[j] \in [1 .. MaxAttempts -> AttemptRecord]
    BY <1>t
  <2>2. attempts[j][n] = [fence |-> n, state |-> jobs[j].state]
    BY <1>1, <1>4 DEF LeaseOf, AttemptsOf
  <2>3. attempts'[j][n] = [fence |-> n, state |-> outcome]
    BY <1>1, <1>2, <2>1, <2>2 DEF AttemptRecord
  <2>4. \A m \in 1 .. MaxAttempts : m # n => attempts'[j][m] = attempts[j][m]
    BY <1>2, <2>1
  <2>5. ASSUME NEW m \in 1 .. MaxAttempts
        PROVE  /\ m < n => attempts'[j][m] = [fence |-> m, state |-> "expired"]
               /\ m > n => attempts'[j][m] = NoAttempt
    <3>1. AttemptsOf(j)
      BY <1>4 DEF LeaseOf
    <3>2. /\ m < n => attempts[j][m] = [fence |-> m, state |-> "expired"]
          /\ m > n => attempts[j][m] = NoAttempt
      BY <1>1, <3>1 DEF AttemptsOf
    <3>3. n \in Nat /\ m \in Nat
      BY <1>1
    <3>4. m < n \/ m > n => m # n
      BY <3>3
    <3> QED
      BY <2>4, <3>2, <3>4
  <2> QED
    BY <1>1, <1>3, <2>3, <2>5 DEF AttemptsOf
<1>6. LeaseOf(j)'
  BY <1>1, <1>3, <1>4, <1>5 DEF LeaseOf, Outcomes
<1>7. ASSUME NEW i \in Jobs \ {j} PROVE LeaseOf(i)'
  <2>1. LeaseOf(i)
    BY DEF LeaseInv
  <2> QED
    BY <1>2, <2>1 DEF LeaseOf, AttemptsOf
<1> QED
  BY <1>6, <1>7 DEF LeaseInv

LEMMA LeaseClaim ==
    ASSUME StoreTypeOK, LeaseInv, NEW j \in Jobs, Claim(j)
    PROVE  LeaseInv'
<1> USE NumberFacts
<1>t. /\ jobs \in [Jobs -> JobRecord]
      /\ attempts \in [Jobs -> [1 .. MaxAttempts -> AttemptRecord]]
      /\ claims \in [Jobs -> ClaimRecord]
  BY DEF StoreTypeOK
<1> DEFINE old == jobs[j].attempt
           n == old + 1
<1>1. LeaseOf(j)
  BY DEF LeaseInv
<1>2. old \in Nat /\ n \in 1 .. MaxAttempts /\ jobs[j].fence = old
  BY <1>1, <1>t DEF Claim, LeaseOf, JobRecord, Numbers
<1>3. /\ jobs'[j].attempt = n /\ jobs'[j].fence = n /\ jobs'[j].state = "running"
      /\ claims'[j].attempt = n /\ claims'[j].fence = n
      /\ \A i \in Jobs \ {j} : jobs'[i] = jobs[i] /\ claims'[i] = claims[i]
  BY <1>2, <1>t DEF Claim, JobRecord
<1>4. /\ attempts'[j] = [WithExpired(j) EXCEPT ![n] = [fence |-> n, state |-> "running"]]
      /\ \A i \in Jobs \ {j} : attempts'[i] = attempts[i]
  BY <1>2, <1>t DEF Claim
<1>5. attempts[j] \in [1 .. MaxAttempts -> AttemptRecord]
  BY <1>t
<1>6. ASSUME NEW m \in 1 .. MaxAttempts, m <= old
      PROVE  WithExpired(j)[m] = [fence |-> m, state |-> "expired"]
  <2>1. jobs[j].state = "running"
    BY <1>1, <1>2, <1>6 DEF Claim, Claimable, LeaseOf
  <2>2. old \in 1 .. MaxAttempts
    BY <1>2, <1>6
  <2>3. attempts[j][old] = [fence |-> old, state |-> "running"]
    BY <1>1, <2>1, <2>2 DEF LeaseOf, AttemptsOf
  <2>4. claims[j].attempt = old
    BY <1>1 DEF LeaseOf
  <2>5. Held(j)
    BY <2>2, <2>3, <2>4 DEF Held, AttemptTerminal, Outcomes
  <2>6. WithExpired(j) = [attempts[j] EXCEPT ![old].state = "expired"]
    BY <2>4, <2>5 DEF WithExpired
  <2>7. CASE m = old
    BY <1>5, <2>2, <2>3, <2>6, <2>7
  <2>8. CASE m < old
    <3>1. attempts[j][m] = [fence |-> m, state |-> "expired"]
      BY <1>1, <2>8 DEF LeaseOf, AttemptsOf
    <3> QED
      BY <1>2, <1>5, <2>2, <2>6, <2>8, <3>1
  <2> QED
    BY <1>2, <1>6, <2>7, <2>8
<1>7. ASSUME NEW m \in 1 .. MaxAttempts, m > n
      PROVE  WithExpired(j)[m] = NoAttempt
  <2>1. attempts[j][m] = NoAttempt
    <3>1. AttemptsOf(j)
      BY <1>1 DEF LeaseOf
    <3>2. m > jobs[j].attempt
      BY <1>2, <1>7
    <3> QED
      BY <3>1, <3>2 DEF AttemptsOf
  <2>2. claims[j].attempt # m
    BY <1>1, <1>2, <1>7 DEF LeaseOf
  <2> QED
    BY <1>5, <2>1, <2>2 DEF WithExpired
<1>8. WithExpired(j) \in [1 .. MaxAttempts -> AttemptRecord]
  <2>1. ASSUME NEW m \in 1 .. MaxAttempts
        PROVE  [attempts[j][m] EXCEPT !.state = "expired"] \in AttemptRecord
    BY <1>5 DEF AttemptRecord, AttemptStates, AttemptTerminal
  <2> QED
    BY <1>5, <2>1 DEF WithExpired
<1>9. AttemptsOf(j)'
  BY <1>2, <1>3, <1>4, <1>6, <1>7, <1>8 DEF AttemptsOf
<1>10. LeaseOf(j)'
  BY <1>2, <1>3, <1>9 DEF LeaseOf
<1>11. ASSUME NEW i \in Jobs \ {j} PROVE LeaseOf(i)'
  <2>1. LeaseOf(i)
    BY DEF LeaseInv
  <2> QED
    BY <1>3, <1>4, <2>1 DEF LeaseOf, AttemptsOf
<1> QED
  BY <1>10, <1>11 DEF LeaseInv

LEMMA JobFields ==
    ASSUME NEW r \in JobRecord
    PROVE  /\ [r EXCEPT !.cancelled = TRUE].attempt = r.attempt
           /\ [r EXCEPT !.cancelled = TRUE].fence = r.fence
           /\ [r EXCEPT !.cancelled = TRUE].state = r.state
           /\ [r EXCEPT !.state = "accepted"].attempt = r.attempt
           /\ [r EXCEPT !.state = "accepted"].fence = r.fence
           /\ [r EXCEPT !.state = "accepted"].state = "accepted"
  BY DEF JobRecord

(* An operation that only accepts a job or records an intent on it.        *)
LEMMA LeaseAccept ==
    ASSUME LeaseInv, NEW j \in Jobs, UNCHANGED <<attempts, claims>>,
           jobs \in [Jobs -> JobRecord],
           \/ jobs' = [jobs EXCEPT ![j].state = "accepted"] /\ jobs[j].state = "none"
           \/ jobs' = [jobs EXCEPT ![j].cancelled = TRUE]
           \/ jobs' = jobs
    PROVE  LeaseInv'
<1> USE NumberFacts
<1>1. ASSUME NEW i \in Jobs PROVE LeaseOf(i)'
  <2>1. LeaseOf(i)
    BY DEF LeaseInv
  <2>2. jobs[i] \in JobRecord
    OBVIOUS
  <2>3. /\ jobs'[i].attempt = jobs[i].attempt /\ jobs'[i].fence = jobs[i].fence
        /\ \/ jobs'[i].state = jobs[i].state
           \/ jobs[i].state = "none" /\ jobs'[i].state = "accepted"
    <3>1. \/ jobs'[i] = jobs[i]
          \/ jobs'[i] = [jobs[i] EXCEPT !.cancelled = TRUE]
          \/ jobs'[i] = [jobs[i] EXCEPT !.state = "accepted"] /\ jobs[i].state = "none"
      OBVIOUS
    <3>2. CASE jobs'[i] = jobs[i]
      BY <3>2
    <3>3. CASE jobs'[i] = [jobs[i] EXCEPT !.cancelled = TRUE]
      BY <2>2, <3>3, JobFields, Zenon
    <3>4. CASE jobs'[i] = [jobs[i] EXCEPT !.state = "accepted"] /\ jobs[i].state = "none"
      BY <2>2, <3>4, JobFields, Zenon
    <3> QED
      BY <3>1, <3>2, <3>3, <3>4
  <2>4. jobs'[i].state = jobs[i].state \/ jobs[i].attempt = 0
    BY <2>1, <2>3 DEF LeaseOf
  <2>5. AttemptsOf(i)'
    <3>1. AttemptsOf(i)
      BY <2>1 DEF LeaseOf
    <3>2. ASSUME NEW n \in 1 .. MaxAttempts
          PROVE  n = jobs[i].attempt => jobs'[i].state = jobs[i].state
      BY <2>4
    <3> QED
      BY <2>3, <3>1, <3>2 DEF AttemptsOf
  <2> QED
    BY <2>1, <2>3, <2>5 DEF LeaseOf
<1> QED
  BY <1>1 DEF LeaseInv

LEMMA LeaseStep ==
    ASSUME StoreTypeOK, LeaseInv, [StoreNext]_storeVars
    PROVE  LeaseInv'
<1>t. jobs \in [Jobs -> JobRecord] /\ JobFor \in [Occurrences -> Jobs]
  BY BindingAssumption DEF StoreTypeOK
<1>0. CASE UNCHANGED storeVars
  BY <1>0, LeaseFrame DEF storeVars
<1>1. ASSUME NEW j \in Jobs, RegisterJob(j) PROVE LeaseInv'
  BY <1>1, <1>t, LeaseAccept DEF RegisterJob
<1>2. ASSUME NEW j \in Jobs, Claim(j) PROVE LeaseInv'
  BY <1>2, LeaseClaim
<1>3. ASSUME NEW j \in Jobs, Cancel(j) PROVE LeaseInv'
  BY <1>3, <1>t, LeaseAccept DEF Cancel
<1>4. ASSUME NEW j \in Jobs, NEW n \in Numbers, NEW f \in Numbers, Heartbeat(j, n, f)
      PROVE  LeaseInv'
  <2>1. claims \in [Jobs -> ClaimRecord]
    BY DEF StoreTypeOK
  <2>2. \A i \in Jobs : /\ claims'[i].attempt = claims[i].attempt
                        /\ claims'[i].fence = claims[i].fence
    BY <1>4, <2>1 DEF Heartbeat, ClaimRecord
  <2> QED
    BY <1>4, <2>2 DEF Heartbeat, LeaseInv, LeaseOf, AttemptsOf
<1>5. ASSUME NEW j \in Jobs, NEW n \in Numbers, NEW f \in Numbers,
             NEW revision \in Progress, NEW cursor \in Progress,
             Checkpoint(j, n, f, revision, cursor)
      PROVE  LeaseInv'
  BY <1>5, LeaseFrame DEF Checkpoint
<1>6. ASSUME NEW k \in Keys, NEW j \in Jobs, NEW n \in Numbers, NEW f \in Numbers,
             NEW class \in WorkClasses, RegisterDispatch(k, j, n, f, class)
      PROVE  LeaseInv'
  BY <1>6, LeaseFrame DEF RegisterDispatch
<1>7. ASSUME NEW k \in Keys, NEW j \in Jobs, NEW n \in Numbers, NEW f \in Numbers,
             NEW status \in Outcomes, RecordReceipt(k, j, n, f, status)
      PROVE  LeaseInv'
  BY <1>7, LeaseFrame DEF RecordReceipt
<1>8. ASSUME NEW j \in Jobs, NEW n \in Numbers, NEW f \in Numbers, NEW outcome \in Outcomes,
             Complete(j, n, f, outcome)
      PROVE  LeaseInv'
  BY <1>8, LeaseFinish DEF Complete
<1>9. ASSUME NEW o \in Occurrences, NEW state \in {"pending", "skipped"},
             RecordOccurrence(o, state)
      PROVE  LeaseInv'
  BY <1>9, LeaseFrame DEF RecordOccurrence
<1>10. ASSUME NEW o \in Occurrences, NEW ceiling \in Ceilings, NEW reserved \in Amounts,
              Admit(o, ceiling, reserved)
       PROVE  LeaseInv'
  <2>1. JobFor[o] \in Jobs
    BY <1>t
  <2> QED
    BY <1>10, <1>t, <2>1, LeaseAccept DEF Admit
<1>11. ASSUME NEW o \in Occurrences, NEW n \in Numbers, NEW f \in Numbers,
              Settle(o, n, f)
       PROVE  LeaseInv'
  BY <1>11, LeaseFrame DEF Settle
<1>12. ASSUME NEW o \in Occurrences, NEW n \in Numbers, NEW f \in Numbers,
              Finalize(o, n, f)
       PROVE  LeaseInv'
  <2>1. JobFor[o] \in Jobs
    BY <1>t
  <2> QED
    BY <1>12, <2>1, LeaseFinish DEF Finalize
<1>13. ASSUME NEW k \in SubmissionKeys, NEW d \in Digests, NEW j \in Jobs,
              BindSubmission(k, d, j)
       PROVE  LeaseInv'
  BY <1>13, LeaseFrame DEF BindSubmission
<1>14. ASSUME Tick PROVE LeaseInv'
  BY <1>14, LeaseFrame DEF Tick
<1> QED
  BY StepCases, <1>0, <1>1, <1>2, <1>3, <1>4, <1>5, <1>6, <1>7, <1>8, <1>9, <1>10, <1>11,
     <1>12, <1>13, <1>14

LEMMA LeaseInvariant == StoreSpec => [](StoreTypeOK /\ LeaseInv)
<1>1. StoreInit => StoreTypeOK /\ LeaseInv
  BY TypeInit, LeaseInit
<1>2. (StoreTypeOK /\ LeaseInv) /\ [StoreNext]_storeVars => (StoreTypeOK /\ LeaseInv)'
  BY TypeStep, LeaseStep
<1> QED
  BY <1>1, <1>2, PTL DEF StoreSpec

(* At most one attempt of a job is live, whatever the callers do, however  *)
(* many claims are granted and whenever leases run out (state.claim).      *)
THEOREM OneLiveAttempt == StoreSpec => []SingleLiveAttempt
<1>1. StoreTypeOK /\ LeaseInv => SingleLiveAttempt
  <2> SUFFICES ASSUME StoreTypeOK, LeaseInv, NEW j \in Jobs
               PROVE  /\ \A n \in 1 .. MaxAttempts :
                            attempts[j][n].state = "running"
                              <=> jobs[j].state = "running" /\ n = jobs[j].attempt
                      /\ claims[j].attempt = jobs[j].attempt
                      /\ claims[j].fence = jobs[j].fence
                      /\ \A n \in 1 .. MaxAttempts :
                            n < jobs[j].attempt => attempts[j][n].fence < jobs[j].fence
    BY DEF SingleLiveAttempt
  <2>1. LeaseOf(j)
    BY DEF LeaseInv
  <2>2. jobs[j].attempt \in Nat
    BY NumberFacts DEF StoreTypeOK, JobRecord
  <2>3. ASSUME NEW n \in 1 .. MaxAttempts
        PROVE  /\ attempts[j][n].state = "running"
                    <=> jobs[j].state = "running" /\ n = jobs[j].attempt
               /\ n < jobs[j].attempt => attempts[j][n].fence < jobs[j].fence
    <3>1. \/ n < jobs[j].attempt /\ attempts[j][n] = [fence |-> n, state |-> "expired"]
          \/ n = jobs[j].attempt /\ attempts[j][n] = [fence |-> n, state |-> jobs[j].state]
          \/ n > jobs[j].attempt /\ attempts[j][n] = NoAttempt
      BY <2>1, <2>2, NumberFacts DEF LeaseOf, AttemptsOf
    <3> QED
      BY <2>1, <2>2, <3>1, NumberFacts DEF LeaseOf, NoAttempt
  <2> QED
    BY <2>1, <2>3 DEF LeaseOf
<1> QED
  BY <1>1, LeaseInvariant, PTL

(* A job ends with the outcome of its last attempt and every earlier       *)
(* attempt expired (state.completionRecords, state.claim).                 *)
THEOREM OutcomeIsLastAttempt == StoreSpec => []OutcomeOfLastAttempt
<1>1. StoreTypeOK /\ LeaseInv => OutcomeOfLastAttempt
  <2> SUFFICES ASSUME StoreTypeOK, LeaseInv, NEW j \in Jobs, NEW n \in 1 .. jobs[j].attempt
               PROVE  /\ n < jobs[j].attempt => attempts[j][n].state = "expired"
                      /\ n = jobs[j].attempt => attempts[j][n].state = jobs[j].state
    BY DEF OutcomeOfLastAttempt
  <2>1. AttemptsOf(j)
    BY DEF LeaseInv, LeaseOf
  <2>2. n \in 1 .. MaxAttempts
    <3>1. jobs[j].attempt \in 0 .. MaxAttempts
      BY DEF StoreTypeOK, JobRecord, Numbers
    <3> QED
      BY <3>1, NumberFacts
  <2>3. /\ n < jobs[j].attempt => attempts[j][n] = [fence |-> n, state |-> "expired"]
        /\ n = jobs[j].attempt => attempts[j][n] = [fence |-> n, state |-> jobs[j].state]
    BY <2>1, <2>2 DEF AttemptsOf
  <2> QED
    BY <2>3
<1> QED
  BY <1>1, LeaseInvariant, PTL

-----------------------------------------------------------------------------
(* Registrations and receipts.                                             *)

(* No step takes back an attempt number.                                   *)
LEMMA AttemptsGrow ==
    ASSUME StoreTypeOK, [StoreNext]_storeVars
    PROVE  \A j \in Jobs : jobs'[j].attempt >= jobs[j].attempt
<1>t. /\ jobs \in [Jobs -> JobRecord]
      /\ \A j \in Jobs : jobs[j].attempt \in Nat
  BY NumberFacts DEF StoreTypeOK, JobRecord
<1>o. \A o \in Occurrences : JobFor[o] \in Jobs
  BY BindingAssumption
<1>1. ASSUME jobs' = jobs
      PROVE  \A j \in Jobs : jobs'[j].attempt >= jobs[j].attempt
  BY <1>1, <1>t
<1>2. ASSUME NEW i \in Jobs, NEW s, jobs' = [jobs EXCEPT ![i].state = s]
      PROVE  \A j \in Jobs : jobs'[j].attempt >= jobs[j].attempt
  BY <1>2, <1>t DEF JobRecord
<1>3. ASSUME NEW i \in Jobs, Claim(i)
      PROVE  \A j \in Jobs : jobs'[j].attempt >= jobs[j].attempt
  BY <1>3, <1>t DEF Claim, JobRecord
<1>4. ASSUME NEW i \in Jobs, Cancel(i)
      PROVE  \A j \in Jobs : jobs'[j].attempt >= jobs[j].attempt
  BY <1>4, <1>t DEF Cancel, JobRecord
<1>5. ASSUME NEW i \in Jobs, NEW n, NEW outcome, Completed(i, n, outcome)
      PROVE  \A j \in Jobs : jobs'[j].attempt >= jobs[j].attempt
  BY <1>2, <1>5 DEF Completed
<1>6. ASSUME NEW o \in Occurrences, NEW n, NEW f, Finalize(o, n, f)
      PROVE  \A j \in Jobs : jobs'[j].attempt >= jobs[j].attempt
  BY <1>5, <1>6, <1>o DEF Finalize
<1>7. ASSUME NEW o \in Occurrences, NEW ceiling, NEW reserved, Admit(o, ceiling, reserved)
      PROVE  \A j \in Jobs : jobs'[j].attempt >= jobs[j].attempt
  BY <1>1, <1>2, <1>7, <1>o DEF Admit
<1>8. CASE UNCHANGED storeVars
  BY <1>1, <1>8 DEF storeVars, leaseVars
<1>9. CASE StoreNext
  <2>1. ASSUME NEW j \in Jobs, RegisterJob(j)
        PROVE  \A i \in Jobs : jobs'[i].attempt >= jobs[i].attempt
    BY <1>2, <2>1 DEF RegisterJob
  <2>2. ASSUME NEW j \in Jobs, NEW n, NEW f, NEW outcome, Complete(j, n, f, outcome)
        PROVE  \A i \in Jobs : jobs'[i].attempt >= jobs[i].attempt
    BY <1>5, <2>2 DEF Complete
  <2>3. ASSUME \/ \E j \in Jobs, n, f \in Numbers : Heartbeat(j, n, f)
               \/ \E j \in Jobs, n, f \in Numbers, revision, cursor \in Progress :
                     Checkpoint(j, n, f, revision, cursor)
               \/ \E k \in Keys, j \in Jobs, n, f \in Numbers, class \in WorkClasses :
                     RegisterDispatch(k, j, n, f, class)
               \/ \E k \in Keys, j \in Jobs, n, f \in Numbers, status \in Outcomes :
                     RecordReceipt(k, j, n, f, status)
               \/ \E o \in Occurrences, state \in {"pending", "skipped"} :
                     RecordOccurrence(o, state)
               \/ \E o \in Occurrences, n, f \in Numbers : Settle(o, n, f)
               \/ \E k \in SubmissionKeys, d \in Digests, j \in Jobs : BindSubmission(k, d, j)
               \/ Tick
        PROVE  jobs' = jobs
    BY <2>3 DEF Heartbeat, Checkpoint, RegisterDispatch, RecordReceipt, RecordOccurrence,
                Settle, BindSubmission, Tick, leaseVars
  <2> QED
    BY <1>1, <1>3, <1>4, <1>6, <1>7, <1>9, <2>1, <2>2, <2>3, StepCases
<1> QED
  BY <1>8, <1>9

(* What is true of a key in every reachable state: a registration names a  *)
(* granted attempt, whose fence is its number, and a receipt repeats the   *)
(* registration of its key.                                                *)
KeyOf(k) ==
    LET d == dispatches[k]
        r == receipts[k]
    IN /\ d.bound => /\ d.job \in Jobs
                     /\ d.attempt \in 1 .. jobs[d.job].attempt
                     /\ d.fence = d.attempt
       /\ r.bound => /\ d.bound
                     /\ d.job = r.job /\ d.attempt = r.attempt /\ d.fence = r.fence

KeyInv == \A k \in Keys : KeyOf(k)

LEMMA KeyInit == StoreInit => KeyInv
  BY DEF StoreInit, KeyInv, KeyOf, NoDispatch, NoReceipt

(* A fenced caller names an attempt that was granted.                      *)
LEMMA ActiveIsGranted ==
    ASSUME StoreTypeOK, LeaseInv, NEW j \in Jobs, NEW n \in Numbers, NEW f \in Numbers,
           Active(j, n, f)
    PROVE  n \in 1 .. jobs[j].attempt /\ f = n
<1>1. /\ n = jobs[j].attempt /\ n \in 1 .. MaxAttempts
      /\ attempts[j][n].fence = f
  BY DEF Active
<1>2. n \in Nat
  BY NumberFacts
<1>3. attempts[j][n] = [fence |-> n, state |-> jobs[j].state]
  BY <1>1 DEF LeaseInv, LeaseOf, AttemptsOf
<1> QED
  BY <1>1, <1>2, <1>3, NumberFacts

LEMMA KeyFrame ==
    ASSUME StoreTypeOK, StoreTypeOK', KeyInv, UNCHANGED dispatchVars,
           \A j \in Jobs : jobs'[j].attempt >= jobs[j].attempt
    PROVE  KeyInv'
<1>1. \A j \in Jobs : jobs[j].attempt \in Nat /\ jobs'[j].attempt \in Nat
  BY NumberFacts DEF StoreTypeOK, JobRecord
<1>2. dispatches' = dispatches /\ receipts' = receipts
  BY DEF dispatchVars
<1> SUFFICES ASSUME NEW k \in Keys PROVE KeyOf(k)'
  BY DEF KeyInv
<1>3. KeyOf(k)
  BY DEF KeyInv
<1> QED
  BY <1>1, <1>2, <1>3 DEF KeyOf

LEMMA KeyStep ==
    ASSUME StoreTypeOK, StoreTypeOK', LeaseInv, KeyInv, [StoreNext]_storeVars
    PROVE  KeyInv'
<1>g. \A j \in Jobs : jobs'[j].attempt >= jobs[j].attempt
  BY AttemptsGrow
<1>1. ASSUME UNCHANGED dispatchVars PROVE KeyInv'
  BY <1>1, <1>g, KeyFrame
<1>2. ASSUME NEW k \in Keys, NEW j \in Jobs, NEW n \in Numbers, NEW f \in Numbers,
             NEW class \in WorkClasses, RegisterDispatch(k, j, n, f, class)
      PROVE  KeyInv'
  <2>1. n \in 1 .. jobs[j].attempt /\ f = n
    BY <1>2, ActiveIsGranted DEF RegisterDispatch
  <2>2. /\ dispatches' = [dispatches EXCEPT ![k] = Dispatch(j, n, f, class)]
        /\ receipts' = receipts /\ jobs' = jobs
    BY <1>2 DEF RegisterDispatch, leaseVars
  <2>3. dispatches[k].bound => dispatches[k] = Dispatch(j, n, f, class)
    BY <1>2 DEF RegisterDispatch, Registrable
  <2>4. dispatches \in [Keys -> DispatchRecord]
    BY DEF StoreTypeOK
  <2>5. SUFFICES ASSUME NEW x \in Keys PROVE KeyOf(x)'
    BY DEF KeyInv
  <2>6. KeyOf(x)
    BY DEF KeyInv
  <2>7. CASE x # k
    BY <2>2, <2>4, <2>6, <2>7 DEF KeyOf
  <2>8. CASE x = k
    <3>1. dispatches'[k] = Dispatch(j, n, f, class)
      BY <2>2, <2>4
    <3>2. receipts[k].bound => dispatches[k] = Dispatch(j, n, f, class)
      BY <2>3, <2>6, <2>8 DEF KeyOf
    <3> QED
      BY <2>1, <2>2, <2>6, <2>8, <3>1, <3>2 DEF KeyOf, Dispatch
  <2> QED
    BY <2>7, <2>8
<1>3. ASSUME NEW k \in Keys, NEW j \in Jobs, NEW n \in Numbers, NEW f \in Numbers,
             NEW status \in Outcomes, RecordReceipt(k, j, n, f, status)
      PROVE  KeyInv'
  <2>1. /\ receipts' = [receipts EXCEPT ![k] = Receipt(j, n, f, status)]
        /\ dispatches' = dispatches /\ jobs' = jobs
        /\ dispatches[k].bound
        /\ dispatches[k].job = j /\ dispatches[k].attempt = n /\ dispatches[k].fence = f
    BY <1>3 DEF RecordReceipt, Matches, leaseVars
  <2>2. receipts \in [Keys -> ReceiptRecord]
    BY DEF StoreTypeOK
  <2>3. SUFFICES ASSUME NEW x \in Keys PROVE KeyOf(x)'
    BY DEF KeyInv
  <2>4. KeyOf(x)
    BY DEF KeyInv
  <2>5. receipts'[x] = IF x = k THEN Receipt(j, n, f, status) ELSE receipts[x]
    BY <2>1, <2>2
  <2> QED
    BY <2>1, <2>4, <2>5 DEF KeyOf, Receipt
<1>4. CASE UNCHANGED storeVars
  BY <1>1, <1>4 DEF storeVars
<1>5. CASE StoreNext
  <2>1. ASSUME \/ \E j \in Jobs : RegisterJob(j)
               \/ \E j \in Jobs : Claim(j)
               \/ \E j \in Jobs : Cancel(j)
               \/ \E j \in Jobs, n, f \in Numbers : Heartbeat(j, n, f)
               \/ \E j \in Jobs, n, f \in Numbers, revision, cursor \in Progress :
                     Checkpoint(j, n, f, revision, cursor)
               \/ \E j \in Jobs, n, f \in Numbers, outcome \in Outcomes :
                     Complete(j, n, f, outcome)
               \/ \E k \in SubmissionKeys, d \in Digests, j \in Jobs : BindSubmission(k, d, j)
               \/ Tick
        PROVE  UNCHANGED dispatchVars
    BY <2>1 DEF RegisterJob, Claim, Cancel, Heartbeat, Checkpoint, Complete, BindSubmission,
                Tick
  <2>2. ASSUME \/ \E o \in Occurrences, state \in {"pending", "skipped"} :
                     RecordOccurrence(o, state)
               \/ \E o \in Occurrences, ceiling \in Ceilings, reserved \in Amounts :
                     Admit(o, ceiling, reserved)
               \/ \E o \in Occurrences, n, f \in Numbers : Settle(o, n, f)
               \/ \E o \in Occurrences, n, f \in Numbers : Finalize(o, n, f)
        PROVE  UNCHANGED dispatchVars
    BY <2>2 DEF RecordOccurrence, Admit, Settle, Finalize
  <2> QED
    BY <1>1, <1>2, <1>3, <1>5, <2>1, <2>2, StepCases
<1> QED
  BY <1>4, <1>5

(* A receipt agrees with the registration of its key and names an attempt  *)
(* that was granted under that fence, for any callers, takeovers and       *)
(* repeated registrations (state.dispatch, state.receipt).                 *)
THEOREM ReceiptsMatch == StoreSpec => []ReceiptMatchesDispatch
<1>1. StoreInit => StoreTypeOK /\ LeaseInv /\ KeyInv
  BY TypeInit, LeaseInit, KeyInit
<1>2. (StoreTypeOK /\ LeaseInv /\ KeyInv) /\ [StoreNext]_storeVars
        => (StoreTypeOK /\ LeaseInv /\ KeyInv)'
  BY TypeStep, LeaseStep, KeyStep
<1>3. StoreTypeOK /\ LeaseInv /\ KeyInv => ReceiptMatchesDispatch
  <2> SUFFICES ASSUME StoreTypeOK, LeaseInv, KeyInv, NEW k \in Keys, receipts[k].bound
               PROVE  LET d == dispatches[k]
                          r == receipts[k]
                      IN /\ d.bound
                         /\ d.job = r.job /\ d.attempt = r.attempt /\ d.fence = r.fence
                         /\ r.attempt \in 1 .. jobs[r.job].attempt
                         /\ attempts[r.job][r.attempt].fence = r.fence
    BY DEF ReceiptMatchesDispatch
  <2> DEFINE i == receipts[k].job
             n == receipts[k].attempt
  <2>1. /\ dispatches[k].bound /\ dispatches[k].job = i /\ dispatches[k].attempt = n
        /\ dispatches[k].fence = receipts[k].fence /\ receipts[k].fence = n
        /\ i \in Jobs /\ n \in 1 .. jobs[i].attempt
    BY DEF KeyInv, KeyOf
  <2>2. jobs[i].attempt \in 0 .. MaxAttempts
    BY <2>1 DEF StoreTypeOK, JobRecord, Numbers
  <2>3. n \in 1 .. MaxAttempts
    BY <2>1, <2>2, NumberFacts
  <2>4. /\ n < jobs[i].attempt => attempts[i][n].fence = n
        /\ n = jobs[i].attempt => attempts[i][n].fence = n
    <3>1. AttemptsOf(i)
      BY <2>1 DEF LeaseInv, LeaseOf
    <3>2. /\ n < jobs[i].attempt => attempts[i][n] = [fence |-> n, state |-> "expired"]
          /\ n = jobs[i].attempt => attempts[i][n] = [fence |-> n, state |-> jobs[i].state]
      BY <2>3, <3>1 DEF AttemptsOf
    <3> QED
      BY <3>2
  <2>5. n < jobs[i].attempt \/ n = jobs[i].attempt
    <3>1. ASSUME NEW last \in 0 .. MaxAttempts, NEW x \in 1 .. last
          PROVE  x < last \/ x = last
      BY NumberFacts
    <3> HIDE DEF i, n
    <3> QED
      BY <2>1, <2>2, <3>1
  <2>6. attempts[i][n].fence = receipts[k].fence
    BY <2>1, <2>4, <2>5
  <2> QED
    BY <2>1, <2>6
<1> QED
  BY <1>1, <1>2, <1>3, PTL DEF StoreSpec

-----------------------------------------------------------------------------
(* What a step of the store may never do.                                  *)

(* The confirmed frontier.                                                 *)

Forward(j) == /\ checkpoints[j].cursor' >= checkpoints[j].cursor
              /\ checkpoints[j].revision' >= checkpoints[j].revision

LEMMA ForwardStep ==
    ASSUME StoreTypeOK, [StoreNext]_storeVars, NEW i \in Jobs
    PROVE  Forward(i)
<1>t. /\ checkpoints \in [Jobs -> CheckpointRecord]
      /\ checkpoints[i].cursor \in Nat /\ checkpoints[i].revision \in Nat
  BY NumberFacts DEF StoreTypeOK, CheckpointRecord, Progress
<1>1. ASSUME checkpoints' = checkpoints PROVE Forward(i)
  BY <1>1, <1>t DEF Forward
<1>2. ASSUME NEW j \in Jobs, NEW n \in Numbers, NEW f \in Numbers,
             NEW revision \in Progress, NEW cursor \in Progress,
             Checkpoint(j, n, f, revision, cursor)
      PROVE  Forward(i)
  <2> DEFINE value == [attempt |-> n, fence |-> f, revision |-> revision, cursor |-> cursor]
  <2>1. /\ checkpoints' = [checkpoints EXCEPT ![j] = value]
        /\ ValidCheckpoint(checkpoints[j], value)
    BY <1>2 DEF Checkpoint
  <2>2. CASE i # j
    BY <1>t, <2>1, <2>2 DEF Forward
  <2>3. CASE i = j
    <3>1. checkpoints'[i] = value
      BY <1>t, <2>1, <2>3
    <3>2. revision \in Nat /\ cursor \in Nat
      BY NumberFacts DEF Progress
    <3>3. value.revision >= checkpoints[i].revision /\ value.cursor >= checkpoints[i].cursor
      BY <2>1, <2>3, <3>2 DEF ValidCheckpoint, NoCheckpoint
    <3> QED
      BY <3>1, <3>3 DEF Forward
  <2> QED
    BY <2>2, <2>3
<1>3. CASE UNCHANGED storeVars
  BY <1>1, <1>3 DEF storeVars
<1>4. CASE StoreNext
  <2>1. ASSUME \/ \E j \in Jobs : RegisterJob(j)
               \/ \E j \in Jobs : Claim(j)
               \/ \E j \in Jobs : Cancel(j)
               \/ \E j \in Jobs, n, f \in Numbers : Heartbeat(j, n, f)
               \/ \E k \in Keys, j \in Jobs, n, f \in Numbers, class \in WorkClasses :
                     RegisterDispatch(k, j, n, f, class)
               \/ \E k \in Keys, j \in Jobs, n, f \in Numbers, status \in Outcomes :
                     RecordReceipt(k, j, n, f, status)
               \/ \E j \in Jobs, n, f \in Numbers, outcome \in Outcomes :
                     Complete(j, n, f, outcome)
               \/ \E k \in SubmissionKeys, d \in Digests, j \in Jobs : BindSubmission(k, d, j)
               \/ Tick
        PROVE  checkpoints' = checkpoints
    BY <2>1 DEF RegisterJob, Claim, Cancel, Heartbeat, RegisterDispatch, RecordReceipt,
                Complete, BindSubmission, Tick
  <2>2. ASSUME \/ \E o \in Occurrences, state \in {"pending", "skipped"} :
                     RecordOccurrence(o, state)
               \/ \E o \in Occurrences, ceiling \in Ceilings, reserved \in Amounts :
                     Admit(o, ceiling, reserved)
               \/ \E o \in Occurrences, n, f \in Numbers : Settle(o, n, f)
               \/ \E o \in Occurrences, n, f \in Numbers : Finalize(o, n, f)
        PROVE  checkpoints' = checkpoints
    BY <2>2 DEF RecordOccurrence, Admit, Settle, Finalize
  <2> QED
    BY <1>1, <1>2, <1>4, <2>1, <2>2, StepCases
<1> QED
  BY <1>3, <1>4

(* The frontier a job confirmed never moves backward, whichever attempts   *)
(* report it and however often it is taken over (job.ValidateCheckpoint).  *)
THEOREM FrontierOnlyAdvances == StoreSpec => FrontierNeverRegresses
<1>1. StoreTypeOK /\ [StoreNext]_storeVars => \A j \in Jobs : Forward(j)
  BY ForwardStep
<1>2. StoreTypeOK /\ [StoreNext]_storeVars
        => [\A j \in Jobs : /\ checkpoints[j].cursor' >= checkpoints[j].cursor
                            /\ checkpoints[j].revision' >= checkpoints[j].revision]_storeVars
  BY <1>1 DEF Forward
<1> QED
  BY <1>2, TypeCorrect, PTL DEF StoreSpec, FrontierNeverRegresses

-----------------------------------------------------------------------------
(* Terminal truth.                                                         *)

JobStays(j) ==
    /\ jobs[j].state \in JobTerminal => jobs[j].state' = jobs[j].state
    /\ \A n \in 1 .. MaxAttempts :
          attempts[j][n].state \in AttemptTerminal => attempts[j][n]' = attempts[j][n]

LedgerStays(o) ==
    /\ occurrences[o] \in {"skipped", "completed", "unknown"}
          => occurrences[o]' = occurrences[o]
    /\ reservations[o].state \in {"settled", "unknown"}
          => reservations[o]' = reservations[o]

(* Only an admitted occurrence has a reservation: without this an admission*)
(* might replace a settled one.                                            *)
LedgerInv ==
    \A o \in Occurrences :
        occurrences[o] \in {"none", "pending", "skipped"} => reservations[o].state = "none"

LEMMA LedgerInit == StoreInit => LedgerInv
  BY DEF StoreInit, LedgerInv, NoReservation

(* Ending the attempt a fenced caller names touches no other attempt, and  *)
(* that attempt and its job were still running.                            *)
LEMMA FinishStays ==
    ASSUME StoreTypeOK, LeaseInv, NEW j \in Jobs, NEW n, NEW f, NEW outcome \in Outcomes,
           Active(j, n, f), Completed(j, n, outcome), NEW i \in Jobs
    PROVE  JobStays(i)
<1>t. /\ jobs \in [Jobs -> JobRecord]
      /\ attempts \in [Jobs -> [1 .. MaxAttempts -> AttemptRecord]]
  BY DEF StoreTypeOK
<1>1. /\ n = jobs[j].attempt /\ n \in 1 .. MaxAttempts
      /\ attempts[j][n].state \notin AttemptTerminal
  BY DEF Active
<1>2. CASE i # j
  <2>1. jobs'[i] = jobs[i] /\ attempts'[i] = attempts[i]
    BY <1>t, <1>2 DEF Completed
  <2> QED
    BY <2>1 DEF JobStays
<1>3. CASE i = j
  <2>1. attempts[j][n] = [fence |-> n, state |-> jobs[j].state]
    BY <1>1 DEF LeaseInv, LeaseOf, AttemptsOf
  <2>2. jobs[j].state \notin JobTerminal
    BY <1>1, <2>1 DEF JobTerminal, AttemptTerminal
  <2>3. \A m \in 1 .. MaxAttempts : m # n => attempts'[j][m] = attempts[j][m]
    BY <1>t DEF Completed
  <2> QED
    BY <1>1, <1>3, <2>2, <2>3 DEF JobStays
<1> QED
  BY <1>2, <1>3

(* A claim closes the attempt of the lease that ran out, which was running,*)
(* and opens one that was never granted.                                   *)
LEMMA ClaimStays ==
    ASSUME StoreTypeOK, LeaseInv, NEW j \in Jobs, Claim(j), NEW i \in Jobs
    PROVE  JobStays(i)
<1>t. /\ jobs \in [Jobs -> JobRecord]
      /\ attempts \in [Jobs -> [1 .. MaxAttempts -> AttemptRecord]]
  BY DEF StoreTypeOK
<1> DEFINE n == jobs[j].attempt + 1
<1>1. CASE i # j
  <2>1. jobs'[i] = jobs[i] /\ attempts'[i] = attempts[i]
    BY <1>t, <1>1 DEF Claim
  <2> QED
    BY <2>1 DEF JobStays
<1>2. CASE i = j
  <2>1. jobs[j].state \in {"accepted", "running"}
    BY DEF Claim, Claimable
  <2>2. jobs[j].attempt \in Nat /\ n \in 1 .. MaxAttempts
    BY <1>t, NumberFacts DEF Claim, JobRecord
  <2>3. attempts[j][n] = NoAttempt
    <3>1. AttemptsOf(j)
      BY DEF LeaseInv, LeaseOf
    <3>2. n > jobs[j].attempt
      BY <2>2
    <3> QED
      BY <2>2, <3>1, <3>2 DEF AttemptsOf
  <2>4. attempts'[j] =
           [WithExpired(j) EXCEPT ![n] = [fence |-> jobs[j].fence + 1, state |-> "running"]]
    BY <1>t DEF Claim
  <2>5. ASSUME NEW m \in 1 .. MaxAttempts, attempts[j][m].state \in AttemptTerminal
        PROVE  attempts'[j][m] = attempts[j][m]
    <3>1. m # n
      BY <2>3, <2>5 DEF NoAttempt, AttemptTerminal, Outcomes
    <3>2. attempts[j] \in [1 .. MaxAttempts -> AttemptRecord]
      BY <1>t
    <3>3. attempts'[j][m] = WithExpired(j)[m]
      BY <2>4, <3>1, <3>2 DEF WithExpired
    <3>4. Held(j) => m # claims[j].attempt
      BY <2>5 DEF Held
    <3>5. WithExpired(j)[m] = attempts[j][m]
      BY <3>2, <3>4 DEF WithExpired
    <3> QED
      BY <3>3, <3>5
  <2> QED
    BY <1>2, <2>1, <2>5 DEF JobStays, JobTerminal, Outcomes
<1> QED
  BY <1>1, <1>2

(* Accepting a job that the store did not know changes no terminal state.  *)
LEMMA AcceptStays ==
    ASSUME StoreTypeOK, NEW j \in Jobs, jobs[j].state = "none",
           jobs' = [jobs EXCEPT ![j].state = "accepted"], attempts' = attempts, NEW i \in Jobs
    PROVE  JobStays(i)
  BY DEF StoreTypeOK, JobStays, JobTerminal, Outcomes

LEMMA JobFrame ==
    ASSUME jobs' = jobs, attempts' = attempts, NEW i \in Jobs
    PROVE  JobStays(i)
  BY DEF JobStays

LEMMA LedgerFrame ==
    ASSUME occurrences' = occurrences, reservations' = reservations, NEW o \in Occurrences
    PROVE  LedgerStays(o)
  BY DEF LedgerStays

(* A settlement of a reservation that is settled already repeats it.       *)
LEMMA SettleStays ==
    ASSUME StoreTypeOK, NEW o \in Occurrences, NEW kind \in {"settled", "unknown"},
           NEW spent \in Amounts, Settleable(o, kind, spent),
           reservations' = [reservations EXCEPT ![o] = Settled(kind, @, spent)],
           NEW p \in Occurrences, reservations[p].state \in {"settled", "unknown"}
    PROVE  reservations'[p] = reservations[p]
<1>1. reservations \in [Occurrences -> ReservationRecord]
  BY DEF StoreTypeOK
<1>2. CASE p # o
  BY <1>1, <1>2
<1>3. CASE p = o
  <2>1. reservations[o].state = kind /\ reservations[o].spent = spent
    BY <1>3 DEF Settleable
  <2>2. reservations'[o] = Settled(kind, reservations[o], spent)
    BY <1>1
  <2>3. Settled(kind, reservations[o], spent) = reservations[o]
    BY <1>1, <2>1 DEF Settled, ReservationRecord
  <2> QED
    BY <1>3, <2>2, <2>3
<1> QED
  BY <1>2, <1>3

LEMMA LedgerStep ==
    ASSUME StoreTypeOK, LedgerInv, [StoreNext]_storeVars
    PROVE  LedgerInv' /\ \A o \in Occurrences : LedgerStays(o)
<1>t. /\ occurrences \in [Occurrences -> OccurrenceStates]
      /\ reservations \in [Occurrences -> ReservationRecord]
  BY DEF StoreTypeOK
<1>1. ASSUME occurrences' = occurrences, reservations' = reservations
      PROVE  LedgerInv' /\ \A o \in Occurrences : LedgerStays(o)
  BY <1>1, LedgerFrame DEF LedgerInv
<1>2. ASSUME NEW o \in Occurrences, NEW state \in {"pending", "skipped"},
             RecordOccurrence(o, state)
      PROVE  LedgerInv' /\ \A p \in Occurrences : LedgerStays(p)
  <2>1. /\ occurrences[o] = "none" /\ reservations' = reservations
        /\ occurrences' = [occurrences EXCEPT ![o] = state]
    BY <1>2 DEF RecordOccurrence
  <2>2. LedgerInv'
    BY <1>t, <2>1 DEF LedgerInv
  <2>3. \A p \in Occurrences : LedgerStays(p)
    BY <1>t, <2>1 DEF LedgerStays
  <2> QED
    BY <2>2, <2>3
<1>3. ASSUME NEW o \in Occurrences, NEW ceiling \in Ceilings, NEW reserved \in Amounts,
             Admit(o, ceiling, reserved)
      PROVE  LedgerInv' /\ \A p \in Occurrences : LedgerStays(p)
  <2> DEFINE value == [state |-> "active", reserved |-> reserved, spent |-> 0]
  <2>1. /\ occurrences[o] \in {"none", "pending"}
        /\ occurrences' = [occurrences EXCEPT ![o] = "admitted"]
        /\ reservations' = [reservations EXCEPT ![o] = value]
    BY <1>3 DEF Admit
  <2>2. reservations[o].state = "none"
    BY <2>1 DEF LedgerInv
  <2>3. LedgerInv'
    BY <1>t, <2>1 DEF LedgerInv
  <2>4. \A p \in Occurrences : LedgerStays(p)
    BY <1>t, <2>1, <2>2 DEF LedgerStays
  <2> QED
    BY <2>3, <2>4
<1>4. ASSUME NEW o \in Occurrences, NEW kind \in {"settled", "unknown"}, NEW spent \in Amounts,
             Settleable(o, kind, spent), occurrences[o] \in OccurrenceStates,
             reservations' = [reservations EXCEPT ![o] = Settled(kind, @, spent)]
      PROVE  /\ occurrences[o] \notin {"none", "pending", "skipped"}
             /\ \A p \in Occurrences : p # o => reservations'[p] = reservations[p]
             /\ \A p \in Occurrences : reservations[p].state \in {"settled", "unknown"}
                                          => reservations'[p] = reservations[p]
  <2>1. reservations[o].state # "none"
    BY <1>4 DEF Settleable
  <2> QED
    BY <1>4, <1>t, <2>1, SettleStays DEF LedgerInv
<1>5. ASSUME NEW o \in Occurrences, NEW n \in Numbers, NEW f \in Numbers, Settle(o, n, f)
      PROVE  LedgerInv' /\ \A p \in Occurrences : LedgerStays(p)
  <2>1. PICK kind \in {"settled", "unknown"}, spent \in Amounts :
           /\ Settleable(o, kind, spent)
           /\ reservations' = [reservations EXCEPT ![o] = Settled(kind, @, spent)]
    BY <1>5 DEF Settle
  <2>2. occurrences' = occurrences
    BY <1>5 DEF Settle
  <2>3. /\ occurrences[o] \notin {"none", "pending", "skipped"}
        /\ \A p \in Occurrences : p # o => reservations'[p] = reservations[p]
        /\ \A p \in Occurrences : reservations[p].state \in {"settled", "unknown"}
                                     => reservations'[p] = reservations[p]
    BY <1>4, <1>t, <2>1
  <2> QED
    BY <2>2, <2>3 DEF LedgerInv, LedgerStays
<1>6. ASSUME NEW o \in Occurrences, NEW n \in Numbers, NEW f \in Numbers, Finalize(o, n, f)
      PROVE  LedgerInv' /\ \A p \in Occurrences : LedgerStays(p)
  <2>1. PICK outcome \in Outcomes, spent \in Amounts, final \in {"unknown", "completed", "admitted"} :
           /\ Settleable(o, KindOf(outcome), spent)
           /\ reservations' = [reservations EXCEPT ![o] = Settled(KindOf(outcome), @, spent)]
           /\ occurrences' = [occurrences EXCEPT ![o] = final]
    BY <1>6 DEF Finalize, FinalStates
  <2>2. occurrences[o] = "admitted"
    BY <1>6 DEF Finalize
  <2>3. KindOf(outcome) \in {"settled", "unknown"}
    BY DEF KindOf
  <2>4. /\ \A p \in Occurrences : p # o => reservations'[p] = reservations[p]
        /\ \A p \in Occurrences : reservations[p].state \in {"settled", "unknown"}
                                     => reservations'[p] = reservations[p]
    BY <1>4, <1>t, <2>1, <2>3
  <2>5. /\ occurrences'[o] = final
        /\ \A p \in Occurrences : p # o => occurrences'[p] = occurrences[p]
    BY <1>t, <2>1
  <2> QED
    BY <2>2, <2>4, <2>5 DEF LedgerInv, LedgerStays
<1>7. CASE UNCHANGED storeVars
  BY <1>1, <1>7 DEF storeVars, ledgerVars
<1>8. CASE StoreNext
  <2>1. ASSUME \/ \E j \in Jobs : RegisterJob(j)
               \/ \E j \in Jobs : Claim(j)
               \/ \E j \in Jobs : Cancel(j)
               \/ \E j \in Jobs, n, f \in Numbers : Heartbeat(j, n, f)
               \/ \E j \in Jobs, n, f \in Numbers, revision, cursor \in Progress :
                     Checkpoint(j, n, f, revision, cursor)
               \/ \E k \in Keys, j \in Jobs, n, f \in Numbers, class \in WorkClasses :
                     RegisterDispatch(k, j, n, f, class)
               \/ \E k \in Keys, j \in Jobs, n, f \in Numbers, status \in Outcomes :
                     RecordReceipt(k, j, n, f, status)
               \/ \E j \in Jobs, n, f \in Numbers, outcome \in Outcomes :
                     Complete(j, n, f, outcome)
               \/ \E k \in SubmissionKeys, d \in Digests, j \in Jobs : BindSubmission(k, d, j)
               \/ Tick
        PROVE  occurrences' = occurrences /\ reservations' = reservations
    BY <2>1 DEF RegisterJob, Claim, Cancel, Heartbeat, Checkpoint, RegisterDispatch,
                RecordReceipt, Complete, BindSubmission, Tick, ledgerVars
  <2> QED
    BY <1>1, <1>2, <1>3, <1>5, <1>6, <1>8, <2>1, StepCases
<1> QED
  BY <1>7, <1>8

LEMMA JobStep ==
    ASSUME StoreTypeOK, LeaseInv, [StoreNext]_storeVars, NEW i \in Jobs
    PROVE  JobStays(i)
<1>o. \A o \in Occurrences : JobFor[o] \in Jobs
  BY BindingAssumption
<1>1. ASSUME NEW j \in Jobs, RegisterJob(j) PROVE JobStays(i)
  BY <1>1, AcceptStays DEF RegisterJob
<1>2. ASSUME NEW j \in Jobs, Claim(j) PROVE JobStays(i)
  BY <1>2, ClaimStays
<1>3. ASSUME NEW j \in Jobs, Cancel(j) PROVE JobStays(i)
  BY <1>3 DEF Cancel, StoreTypeOK, JobStays
<1>4. ASSUME NEW j \in Jobs, NEW n \in Numbers, NEW f \in Numbers, NEW outcome \in Outcomes,
             Complete(j, n, f, outcome)
      PROVE  JobStays(i)
  BY <1>4, FinishStays DEF Complete
<1>5. ASSUME NEW o \in Occurrences, NEW ceiling \in Ceilings, NEW reserved \in Amounts,
             Admit(o, ceiling, reserved)
      PROVE  JobStays(i)
  <2>1. CASE jobs[JobFor[o]].state = "none"
    BY <1>5, <1>o, <2>1, AcceptStays DEF Admit
  <2>2. CASE jobs[JobFor[o]].state # "none"
    BY <1>5, <2>2, JobFrame DEF Admit
  <2> QED
    BY <2>1, <2>2
<1>6. ASSUME NEW o \in Occurrences, NEW n \in Numbers, NEW f \in Numbers, Finalize(o, n, f)
      PROVE  JobStays(i)
  <2>1. PICK outcome \in Outcomes : Active(JobFor[o], n, f) /\ Completed(JobFor[o], n, outcome)
    BY <1>6 DEF Finalize
  <2> QED
    BY <1>o, <2>1, FinishStays
<1>7. CASE UNCHANGED storeVars
  BY <1>7, JobFrame DEF storeVars, leaseVars
<1>8. CASE StoreNext
  <2>1. ASSUME \/ \E j \in Jobs, n, f \in Numbers : Heartbeat(j, n, f)
               \/ \E j \in Jobs, n, f \in Numbers, revision, cursor \in Progress :
                     Checkpoint(j, n, f, revision, cursor)
               \/ \E k \in Keys, j \in Jobs, n, f \in Numbers, class \in WorkClasses :
                     RegisterDispatch(k, j, n, f, class)
               \/ \E k \in Keys, j \in Jobs, n, f \in Numbers, status \in Outcomes :
                     RecordReceipt(k, j, n, f, status)
               \/ \E o \in Occurrences, state \in {"pending", "skipped"} :
                     RecordOccurrence(o, state)
               \/ \E o \in Occurrences, n, f \in Numbers : Settle(o, n, f)
               \/ \E k \in SubmissionKeys, d \in Digests, j \in Jobs : BindSubmission(k, d, j)
               \/ Tick
        PROVE  jobs' = jobs /\ attempts' = attempts
    BY <2>1 DEF Heartbeat, Checkpoint, RegisterDispatch, RecordReceipt, RecordOccurrence,
                Settle, BindSubmission, Tick, leaseVars
  <2> QED
    BY <1>1, <1>2, <1>3, <1>4, <1>5, <1>6, <1>8, <2>1, JobFrame, StepCases
<1> QED
  BY <1>7, <1>8

(* Nothing terminal changes again: jobs, attempts, occurrences, and money  *)
(* that was settled or lost track of (job/validation.go, transitions).     *)
THEOREM TerminalTruthIsFinal == StoreSpec => TerminalIsFinal
<1>1. StoreInit => StoreTypeOK /\ LeaseInv /\ LedgerInv
  BY TypeInit, LeaseInit, LedgerInit
<1>2. (StoreTypeOK /\ LeaseInv /\ LedgerInv) /\ [StoreNext]_storeVars
        => (StoreTypeOK /\ LeaseInv /\ LedgerInv)'
  BY TypeStep, LeaseStep, LedgerStep
<1>3. (StoreTypeOK /\ LeaseInv /\ LedgerInv) /\ [StoreNext]_storeVars
        => [/\ \A j \in Jobs : jobs[j].state \in JobTerminal => jobs[j].state' = jobs[j].state
            /\ \A j \in Jobs : \A n \in 1 .. MaxAttempts :
                  attempts[j][n].state \in AttemptTerminal => attempts[j][n]' = attempts[j][n]
            /\ \A o \in Occurrences :
                  /\ occurrences[o] \in {"skipped", "completed", "unknown"}
                        => occurrences[o]' = occurrences[o]
                  /\ reservations[o].state \in {"settled", "unknown"}
                        => reservations[o]' = reservations[o]]_storeVars
  BY JobStep, LedgerStep DEF JobStays, LedgerStays
<1> QED
  BY <1>1, <1>2, <1>3, PTL DEF StoreSpec, TerminalIsFinal

-----------------------------------------------------------------------------
(* A late worker.                                                          *)

Live(j) == jobs[j].state = "running" /\ now < claims[j].expires

Commits(j) ==
    \/ Evidence(j)' # Evidence(j)
    \/ jobs[j].state' # jobs[j].state /\ jobs[j].state' \in JobTerminal
    \/ \E o \in Occurrences : /\ JobFor[o] = j
                              /\ reservations[o].state = "active"
                              /\ reservations[o].state' # "active"

(* The store's check of a fence is a check of the clock too.               *)
LEMMA ActiveIsLive ==
    ASSUME StoreTypeOK, LeaseInv, NEW j \in Jobs, NEW n, NEW f, Active(j, n, f)
    PROVE  Live(j)
<1>1. /\ n = jobs[j].attempt /\ n \in 1 .. MaxAttempts
      /\ attempts[j][n].state \notin AttemptTerminal \cup {"none"}
      /\ now < claims[j].expires
  BY DEF Active, LeaseRuns
<1>2. attempts[j][n].state = jobs[j].state
  <2>1. attempts[j][n] = [fence |-> n, state |-> jobs[j].state]
    BY <1>1 DEF LeaseInv, LeaseOf, AttemptsOf
  <2> QED
    BY <2>1
<1>3. jobs[j].state # "accepted"
  <2>1. n # 0
    BY <1>1
  <2> QED
    BY <1>1, <2>1 DEF LeaseInv, LeaseOf
<1>4. jobs[j].state \in JobStates
  BY DEF StoreTypeOK, JobRecord
<1>5. jobs[j].state = "running"
  BY <1>1, <1>2, <1>3, <1>4 DEF JobStates, JobTerminal, AttemptTerminal
<1> QED
  BY <1>1, <1>5 DEF Live

(* The evidence of a job is its checkpoint and the registrations and the   *)
(* receipts that name it.                                                  *)
LEMMA EvidenceFrame ==
    ASSUME NEW j \in Jobs, checkpoints'[j] = checkpoints[j],
           \A k \in Keys : \/ dispatches'[k] = dispatches[k]
                           \/ /\ ~(dispatches[k].bound /\ dispatches[k].job = j)
                              /\ ~(dispatches'[k].bound /\ dispatches'[k].job = j),
           \A k \in Keys : \/ receipts'[k] = receipts[k]
                           \/ /\ ~(receipts[k].bound /\ receipts[k].job = j)
                              /\ ~(receipts'[k].bound /\ receipts'[k].job = j)
    PROVE  Evidence(j)' = Evidence(j)
<1> DEFINE D == {x \in Keys : dispatches[x].bound /\ dispatches[x].job = j}
           R == {x \in Keys : receipts[x].bound /\ receipts[x].job = j}
<1>1. D' = D /\ R' = R
  OBVIOUS
<1>2. /\ \A x \in D : dispatches'[x] = dispatches[x]
      /\ \A x \in R : receipts'[x] = receipts[x]
  OBVIOUS
<1>3. {<<k, dispatches'[k]>> : k \in D} = {<<k, dispatches[k]>> : k \in D}
  BY <1>2
<1>4. {<<k, receipts'[k]>> : k \in R} = {<<k, receipts[k]>> : k \in R}
  BY <1>2
<1> QED
  BY <1>1, <1>3, <1>4 DEF Evidence

LEMMA QuietFrame ==
    ASSUME NEW j \in Jobs, UNCHANGED <<checkpoints, dispatches, receipts>>,
           jobs'[j].state = jobs[j].state \/ jobs'[j].state \notin JobTerminal,
           \A o \in Occurrences : JobFor[o] = j /\ reservations[o].state = "active"
                                     => reservations'[o].state = "active"
    PROVE  ~Commits(j)
<1>1. Evidence(j)' = Evidence(j)
  BY EvidenceFrame
<1> QED
  BY <1>1 DEF Commits

LEMMA CommitStep ==
    ASSUME StoreTypeOK, LeaseInv, [StoreNext]_storeVars, NEW i \in Jobs
    PROVE  Commits(i) => Live(i)
<1>t. /\ jobs \in [Jobs -> JobRecord]
      /\ checkpoints \in [Jobs -> CheckpointRecord]
      /\ dispatches \in [Keys -> DispatchRecord]
      /\ receipts \in [Keys -> ReceiptRecord]
      /\ reservations \in [Occurrences -> ReservationRecord]
  BY DEF StoreTypeOK
<1>o. \A o \in Occurrences : JobFor[o] \in Jobs
  BY BindingAssumption
<1>1. ASSUME jobs' = jobs, reservations' = reservations,
             UNCHANGED <<checkpoints, dispatches, receipts>>
      PROVE  ~Commits(i)
  BY <1>1, QuietFrame
<1>2. ASSUME NEW j \in Jobs, NEW state \in {"accepted", "running"}, jobs[j].state # state,
             jobs' = [jobs EXCEPT ![j].state = state], reservations' = reservations,
             UNCHANGED <<checkpoints, dispatches, receipts>>
      PROVE  ~Commits(i)
  <2>1. jobs'[i].state = jobs[i].state \/ jobs'[i].state \notin JobTerminal
    BY <1>2, <1>t DEF JobTerminal, Outcomes
  <2> QED
    BY <1>2, <2>1, QuietFrame
<1>3. ASSUME NEW j \in Jobs, RegisterJob(j) PROVE ~Commits(i)
  BY <1>2, <1>3 DEF RegisterJob, ledgerVars, dispatchVars
<1>4. ASSUME NEW j \in Jobs, Claim(j) PROVE ~Commits(i)
  <2>1. jobs'[i].state = jobs[i].state \/ jobs'[i].state \notin JobTerminal
    BY <1>4, <1>t DEF Claim, JobTerminal, Outcomes
  <2> QED
    BY <1>4, <2>1, QuietFrame DEF Claim, ledgerVars, dispatchVars
<1>5. ASSUME NEW j \in Jobs, Cancel(j) PROVE ~Commits(i)
  <2>1. jobs'[i].state = jobs[i].state
    BY <1>5, <1>t DEF Cancel, JobRecord
  <2> QED
    BY <1>5, <2>1, QuietFrame DEF Cancel, ledgerVars, dispatchVars
<1>6. ASSUME NEW j \in Jobs, NEW n \in Numbers, NEW f \in Numbers,
             NEW revision \in Progress, NEW cursor \in Progress,
             Checkpoint(j, n, f, revision, cursor)
      PROVE  Commits(i) => Live(i)
  <2>1. CASE i = j
    BY <1>6, <2>1, ActiveIsLive DEF Checkpoint
  <2>2. CASE i # j
    <3>1. checkpoints'[i] = checkpoints[i]
      BY <1>6, <1>t, <2>2 DEF Checkpoint
    <3>2. Evidence(i)' = Evidence(i)
      BY <1>6, <3>1, EvidenceFrame DEF Checkpoint, dispatchVars
    <3> QED
      BY <1>6, <3>2 DEF Checkpoint, Commits, leaseVars, ledgerVars
  <2> QED
    BY <2>1, <2>2
<1>7. ASSUME NEW k \in Keys, NEW j \in Jobs, NEW n \in Numbers, NEW f \in Numbers,
             NEW class \in WorkClasses, RegisterDispatch(k, j, n, f, class)
      PROVE  Commits(i) => Live(i)
  <2>1. CASE i = j
    BY <1>7, <2>1, ActiveIsLive DEF RegisterDispatch
  <2>2. CASE i # j
    <3>1. /\ dispatches'[k] = Dispatch(j, n, f, class)
          /\ \A x \in Keys : x # k => dispatches'[x] = dispatches[x]
      BY <1>7, <1>t DEF RegisterDispatch
    <3>2. ~dispatches[k].bound \/ dispatches[k] = Dispatch(j, n, f, class)
      BY <1>7 DEF RegisterDispatch, Registrable
    <3>3. Dispatch(j, n, f, class).job # i
      BY <2>2 DEF Dispatch
    <3>4. \A x \in Keys : \/ dispatches'[x] = dispatches[x]
                          \/ /\ ~(dispatches[x].bound /\ dispatches[x].job = i)
                             /\ ~(dispatches'[x].bound /\ dispatches'[x].job = i)
      BY <3>1, <3>2, <3>3
    <3>5. Evidence(i)' = Evidence(i)
      BY <1>7, <3>4, EvidenceFrame DEF RegisterDispatch
    <3> QED
      BY <1>7, <3>5 DEF RegisterDispatch, Commits, leaseVars, ledgerVars
  <2> QED
    BY <2>1, <2>2
<1>8. ASSUME NEW k \in Keys, NEW j \in Jobs, NEW n \in Numbers, NEW f \in Numbers,
             NEW status \in Outcomes, RecordReceipt(k, j, n, f, status)
      PROVE  Commits(i) => Live(i)
  <2>1. CASE i = j
    BY <1>8, <2>1, ActiveIsLive DEF RecordReceipt
  <2>2. CASE i # j
    <3>1. /\ receipts'[k] = Receipt(j, n, f, status) /\ ~receipts[k].bound
          /\ \A x \in Keys : x # k => receipts'[x] = receipts[x]
      BY <1>8, <1>t DEF RecordReceipt
    <3>2. Receipt(j, n, f, status).job # i
      BY <2>2 DEF Receipt
    <3>3. \A x \in Keys : \/ receipts'[x] = receipts[x]
                          \/ /\ ~(receipts[x].bound /\ receipts[x].job = i)
                             /\ ~(receipts'[x].bound /\ receipts'[x].job = i)
      BY <3>1, <3>2
    <3>4. Evidence(i)' = Evidence(i)
      BY <1>8, <3>3, EvidenceFrame DEF RecordReceipt
    <3> QED
      BY <1>8, <3>4 DEF RecordReceipt, Commits, leaseVars, ledgerVars
  <2> QED
    BY <2>1, <2>2
<1>9. ASSUME NEW j \in Jobs, NEW n \in Numbers, NEW f \in Numbers, NEW outcome \in Outcomes,
             Complete(j, n, f, outcome)
      PROVE  Commits(i) => Live(i)
  <2>1. CASE i = j
    BY <1>9, <2>1, ActiveIsLive DEF Complete
  <2>2. CASE i # j
    <3>1. jobs'[i] = jobs[i]
      BY <1>9, <1>t, <2>2 DEF Complete, Completed
    <3> QED
      BY <1>9, <3>1, QuietFrame DEF Complete, ledgerVars, dispatchVars
  <2> QED
    BY <2>1, <2>2
<1>10. ASSUME NEW o \in Occurrences, NEW ceiling \in Ceilings, NEW reserved \in Amounts,
              Admit(o, ceiling, reserved)
       PROVE  ~Commits(i)
  <2>1. jobs'[i].state = jobs[i].state \/ jobs'[i].state \notin JobTerminal
    BY <1>10, <1>o, <1>t DEF Admit, JobTerminal, Outcomes
  <2>2. \A p \in Occurrences : reservations[p].state = "active"
                                  => reservations'[p].state = "active"
    BY <1>10, <1>t DEF Admit
  <2> QED
    BY <1>10, <2>1, <2>2, QuietFrame DEF Admit, dispatchVars
<1>11. ASSUME NEW o \in Occurrences, NEW n \in Numbers, NEW f \in Numbers, Settle(o, n, f)
       PROVE  Commits(i) => Live(i)
  <2>1. CASE i = JobFor[o]
    BY <1>11, <2>1, ActiveIsLive DEF Settle
  <2>2. CASE i # JobFor[o]
    <3>1. \A p \in Occurrences : JobFor[p] = i => reservations'[p] = reservations[p]
      BY <1>11, <1>t, <2>2 DEF Settle
    <3> QED
      BY <1>11, <3>1, QuietFrame DEF Settle, leaseVars, dispatchVars
  <2> QED
    BY <2>1, <2>2
<1>12. ASSUME NEW o \in Occurrences, NEW n \in Numbers, NEW f \in Numbers, Finalize(o, n, f)
       PROVE  Commits(i) => Live(i)
  <2>1. CASE i = JobFor[o]
    BY <1>12, <2>1, ActiveIsLive DEF Finalize
  <2>2. CASE i # JobFor[o]
    <3>1. \A p \in Occurrences : JobFor[p] = i => reservations'[p] = reservations[p]
      BY <1>12, <1>t, <2>2 DEF Finalize
    <3>2. jobs'[i] = jobs[i]
      BY <1>12, <1>t, <2>2 DEF Finalize, Completed
    <3> QED
      BY <1>12, <3>1, <3>2, QuietFrame DEF Finalize, dispatchVars
  <2> QED
    BY <2>1, <2>2
<1>13. CASE UNCHANGED storeVars
  BY <1>1, <1>13 DEF storeVars, leaseVars, ledgerVars, dispatchVars
<1>14. CASE StoreNext
  <2>1. ASSUME \/ \E j \in Jobs, n, f \in Numbers : Heartbeat(j, n, f)
               \/ \E o \in Occurrences, state \in {"pending", "skipped"} :
                     RecordOccurrence(o, state)
               \/ \E k \in SubmissionKeys, d \in Digests, j \in Jobs : BindSubmission(k, d, j)
               \/ Tick
        PROVE  jobs' = jobs /\ reservations' = reservations
                 /\ UNCHANGED <<checkpoints, dispatches, receipts>>
    BY <2>1 DEF Heartbeat, RecordOccurrence, BindSubmission, Tick, leaseVars, ledgerVars,
                dispatchVars
  <2> QED
    BY <1>1, <1>3, <1>4, <1>5, <1>6, <1>7, <1>8, <1>9, <1>10, <1>11, <1>12, <1>14, <2>1,
       StepCases
<1> QED
  BY <1>13, <1>14

(* Whatever a worker commits for a job, it commits while the job's lease   *)
(* runs on the store's clock, whoever else calls and however the clock     *)
(* advances (job.ValidateActiveFence).                                     *)
THEOREM LateWorkersCommitNothing == StoreSpec => OnlyLiveLeaseCommits
<1>1. (StoreTypeOK /\ LeaseInv) /\ [StoreNext]_storeVars
        => [\A j \in Jobs :
              \/ Evidence(j)' # Evidence(j)
              \/ jobs[j].state' # jobs[j].state /\ jobs[j].state' \in JobTerminal
              \/ \E o \in Occurrences : /\ JobFor[o] = j
                                        /\ reservations[o].state = "active"
                                        /\ reservations[o].state' # "active"
              => /\ jobs[j].state = "running"
                 /\ now < claims[j].expires]_storeVars
  BY CommitStep DEF Commits, Live
<1> QED
  BY <1>1, LeaseInvariant, PTL DEF StoreSpec, OnlyLiveLeaseCommits

-----------------------------------------------------------------------------
(* Whole finalizations.                                                    *)

WholeOf(o) ==
    /\ occurrences[o] = "completed" =>
         /\ jobs[JobFor[o]].state \in JobTerminal \ {"unknown"}
         /\ reservations[o].state = "settled" /\ reservations[o].spent <= reservations[o].reserved
    /\ occurrences[o] = "unknown" =>
         jobs[JobFor[o]].state = "unknown" /\ reservations[o].state = "unknown"

(* Finalize writes the three parts together.                               *)
LEMMA FinalizeWhole ==
    ASSUME StoreTypeOK, NEW o \in Occurrences, NEW n \in Numbers, NEW f \in Numbers,
           Finalize(o, n, f)
    PROVE  /\ WholeOf(o)'
           /\ \A p \in Occurrences : p # o => occurrences'[p] = occurrences[p]
<1>t. /\ jobs \in [Jobs -> JobRecord] /\ JobFor[o] \in Jobs
      /\ occurrences \in [Occurrences -> OccurrenceStates]
      /\ reservations \in [Occurrences -> ReservationRecord]
  BY BindingAssumption DEF StoreTypeOK
<1>1. PICK outcome \in Outcomes, spent \in Amounts :
         /\ Settleable(o, KindOf(outcome), spent)
         /\ reservations' = [reservations EXCEPT ![o] = Settled(KindOf(outcome), @, spent)]
         /\ Completed(JobFor[o], n, outcome)
         /\ \E final \in FinalStates(outcome) :
               occurrences' = [occurrences EXCEPT ![o] = final]
  BY DEF Finalize
<1>2. PICK final \in FinalStates(outcome) : occurrences' = [occurrences EXCEPT ![o] = final]
  BY <1>1
<1>3. jobs'[JobFor[o]].state = outcome
  BY <1>1, <1>t DEF Completed, JobRecord
<1>4. /\ reservations'[o] = Settled(KindOf(outcome), reservations[o], spent)
      /\ occurrences'[o] = final
      /\ \A p \in Occurrences : p # o => occurrences'[p] = occurrences[p]
  BY <1>1, <1>2, <1>t
<1>5. CASE outcome = "unknown"
  <2>1. KindOf(outcome) = "unknown" /\ final = "unknown"
    BY <1>5 DEF KindOf, FinalStates
  <2>2. reservations'[o].state = "unknown"
    BY <1>4, <1>t, <2>1 DEF Settled, ReservationRecord
  <2> QED
    BY <1>3, <1>4, <1>5, <2>1, <2>2 DEF WholeOf
<1>6. CASE outcome # "unknown"
  <2>1. KindOf(outcome) = "settled" /\ final \in {"completed", "admitted"}
    BY <1>6 DEF KindOf, FinalStates
  <2>2. spent <= reservations[o].reserved
    BY <1>1, <2>1 DEF Settleable
  <2>3. /\ reservations'[o].state = "settled"
        /\ reservations'[o].spent <= reservations'[o].reserved
    BY <1>4, <1>t, <2>1, <2>2 DEF Settled, ReservationRecord
  <2> QED
    BY <1>3, <1>4, <1>6, <2>1, <2>3 DEF WholeOf, JobTerminal
<1> QED
  BY <1>4, <1>5, <1>6

(* Every other step leaves a finished occurrence, its job and its money as *)
(* they are, and finishes none.                                            *)
LEMMA WholeStep ==
    ASSUME StoreTypeOK, LeaseInv, LedgerInv, [StoreNext]_storeVars, NEW p \in Occurrences, WholeOf(p)
    PROVE  WholeOf(p)'
<1>t. /\ occurrences \in [Occurrences -> OccurrenceStates]
      /\ JobFor[p] \in Jobs
  BY BindingAssumption DEF StoreTypeOK
<1>1. JobStays(JobFor[p]) /\ LedgerStays(p)
  BY <1>t, JobStep, LedgerStep
<1>2. ASSUME occurrences'[p] = occurrences[p] \/ occurrences'[p] \notin {"completed", "unknown"}
      PROVE  WholeOf(p)'
  BY <1>1, <1>2 DEF WholeOf, JobStays, LedgerStays, JobTerminal, Outcomes
<1>3. ASSUME NEW o \in Occurrences, NEW state \in {"pending", "skipped"},
             RecordOccurrence(o, state)
      PROVE  WholeOf(p)'
  BY <1>2, <1>3, <1>t DEF RecordOccurrence
<1>4. ASSUME NEW o \in Occurrences, NEW ceiling \in Ceilings, NEW reserved \in Amounts,
             Admit(o, ceiling, reserved)
      PROVE  WholeOf(p)'
  BY <1>2, <1>4, <1>t DEF Admit
<1>5. ASSUME NEW o \in Occurrences, NEW n \in Numbers, NEW f \in Numbers, Finalize(o, n, f)
      PROVE  WholeOf(p)'
  BY <1>2, <1>5, FinalizeWhole
<1>6. CASE UNCHANGED storeVars
  BY <1>2, <1>6 DEF storeVars, ledgerVars
<1>7. CASE StoreNext
  <2>1. ASSUME \/ \E j \in Jobs : RegisterJob(j)
               \/ \E j \in Jobs : Claim(j)
               \/ \E j \in Jobs : Cancel(j)
               \/ \E j \in Jobs, n, f \in Numbers : Heartbeat(j, n, f)
               \/ \E j \in Jobs, n, f \in Numbers, revision, cursor \in Progress :
                     Checkpoint(j, n, f, revision, cursor)
               \/ \E k \in Keys, j \in Jobs, n, f \in Numbers, class \in WorkClasses :
                     RegisterDispatch(k, j, n, f, class)
               \/ \E k \in Keys, j \in Jobs, n, f \in Numbers, status \in Outcomes :
                     RecordReceipt(k, j, n, f, status)
               \/ \E j \in Jobs, n, f \in Numbers, outcome \in Outcomes :
                     Complete(j, n, f, outcome)
               \/ \E o \in Occurrences, n, f \in Numbers : Settle(o, n, f)
               \/ \E k \in SubmissionKeys, d \in Digests, j \in Jobs : BindSubmission(k, d, j)
               \/ Tick
        PROVE  occurrences' = occurrences
    BY <2>1 DEF RegisterJob, Claim, Cancel, Heartbeat, Checkpoint, RegisterDispatch,
                RecordReceipt, Complete, Settle, BindSubmission, Tick, ledgerVars
  <2> QED
    BY <1>2, <1>3, <1>4, <1>5, <1>7, <2>1, StepCases
<1> QED
  BY <1>6, <1>7

(* A finished occurrence has a finished job and settled money, or all three*)
(* are unknown, in every reachable state (state.finalize).                 *)
THEOREM FinalizationsAreWhole == StoreSpec => []FinalizationIsWhole
<1> DEFINE Whole == \A o \in Occurrences : WholeOf(o)
<1>1. StoreInit => StoreTypeOK /\ LeaseInv /\ LedgerInv /\ Whole
  <2>1. StoreInit => Whole
    BY DEF StoreInit, WholeOf
  <2> QED
    BY <2>1, TypeInit, LeaseInit, LedgerInit
<1>2. (StoreTypeOK /\ LeaseInv /\ LedgerInv /\ Whole) /\ [StoreNext]_storeVars
        => (StoreTypeOK /\ LeaseInv /\ LedgerInv /\ Whole)'
  <2> SUFFICES ASSUME StoreTypeOK, LeaseInv, LedgerInv, Whole, [StoreNext]_storeVars
               PROVE  (StoreTypeOK /\ LeaseInv /\ LedgerInv /\ Whole)'
    OBVIOUS
  <2>1. StoreTypeOK' /\ LeaseInv' /\ LedgerInv'
    BY TypeStep, LeaseStep, LedgerStep
  <2>2. Whole'
    BY WholeStep
  <2> QED
    BY <2>1, <2>2
<1>3. Whole => FinalizationIsWhole
  BY DEF WholeOf, FinalizationIsWhole
<1> QED
  BY <1>1, <1>2, <1>3, PTL DEF StoreSpec

-----------------------------------------------------------------------------
(* Sums over finite sets.  First is the order in which the fold of the     *)
(* community modules takes a set apart.                                    *)
First(s) == CHOOSE x \in s : TRUE

(* f gives each subset of S the sum of what g gives its elements.          *)
Summed(f, g, S) ==
    f = [s \in SUBSET S |-> IF s = {} THEN 0 ELSE g[First(s)] + f[s \ {First(s)}]]

LEMMA LeastOf ==
    ASSUME NEW S, S \subseteq Nat, S # {}
    PROVE  \E i \in S : \A j \in S : i <= j
<1> DEFINE Before == OpToRel(<, Nat)
<1>1. Before = {ss \in Nat \X Nat : ss[1] < ss[2]}
  BY Zenon DEF OpToRel
<1>2. IsWellFoundedOn(Before, Nat)
  BY NatLessThanWellFounded
<1> HIDE DEF Before
<1>3. PICK least \in S : \A k \in S : ~(<<k, least>> \in Before)
  BY <1>2, WFMin
<1>4. ASSUME NEW k \in S PROVE least <= k
  <2>1. k \in Nat /\ least \in Nat /\ <<k, least>> \in Nat \X Nat
    BY <1>3
  <2>2. ~(k < least)
    BY <1>1, <1>3, <2>1
  <2> QED
    BY <2>1, <2>2
<1> QED
  BY <1>3, <1>4

(* Induction over the subsets of a finite set, for a set of them.          *)
LEMMA SubsetInduction ==
    ASSUME NEW S, IsFiniteSet(S), NEW P,
           \A s \in SUBSET S : (\A x \in s : s \ {x} \in P) => s \in P
    PROVE  \A s \in SUBSET S : s \in P
<1> SUFFICES ASSUME NEW b \in SUBSET S, b \notin P PROVE FALSE
  OBVIOUS
<1> DEFINE Sizes == {n \in Nat : \E s \in SUBSET S : s \notin P /\ Cardinality(s) = n}
<1>1. \A s \in SUBSET S : IsFiniteSet(s) /\ Cardinality(s) \in Nat
  BY FS_Subset, FS_CardinalityType
<1>2. PICK n \in Sizes : \A m \in Sizes : n <= m
  <2>1. Sizes \subseteq Nat /\ Cardinality(b) \in Sizes
    BY <1>1
  <2> QED
    BY <2>1, LeastOf
<1>3. PICK s \in SUBSET S : s \notin P /\ Cardinality(s) = n
  BY <1>2
<1>4. ASSUME NEW x \in s PROVE s \ {x} \in P
  <2>0. /\ Cardinality(s \ {x}) = n - 1 /\ n \in Nat
        /\ s \ {x} \in SUBSET S /\ Cardinality(s \ {x}) \in Nat
    BY <1>1, <1>3, FS_RemoveElement
  <2>1. n - 1 \in Nat /\ ~(n <= n - 1)
    BY <2>0
  <2>2. n - 1 \notin Sizes
    BY <1>2, <2>1
  <2> QED
    BY <2>0, <2>1, <2>2
<1> QED
  BY <1>3, <1>4

LEMMA SumExists ==
    ASSUME NEW S, IsFiniteSet(S), NEW g
    PROVE  \E f : Summed(f, g, S)
<1> DEFINE Small(n) == {s \in SUBSET S : Cardinality(s) <= n}
           Next(f, s) == IF s = {} THEN 0 ELSE g[First(s)] + f[s \ {First(s)}]
           Part(f, n) == f = [s \in Small(n) |-> Next(f, s)]
           Missing == {n \in Nat : ~ \E f : Part(f, n)}
<1>1. \A s \in SUBSET S : IsFiniteSet(s) /\ Cardinality(s) \in Nat
  BY FS_Subset, FS_CardinalityType
<1>2. Missing = {}
  <2> SUFFICES ASSUME Missing # {} PROVE FALSE
    OBVIOUS
  <2>1. PICK n \in Missing : \A m \in Missing : n <= m
    BY LeastOf
  <2>2. CASE n = 0
    <3> DEFINE f == [s \in Small(0) |-> 0]
    <3>1. \A s \in Small(0) : s = {}
      BY <1>1, FS_EmptySet
    <3>2. Part(f, 0)
      BY <3>1
    <3> QED
      BY <2>1, <2>2, <3>2
  <2>3. CASE n # 0
    <3>0. n \in Nat /\ n - 1 \in Nat /\ ~(n <= n - 1)
      BY <2>1, <2>3
    <3> HIDE DEF Missing
    <3>1. n - 1 \notin Missing
      BY <2>1, <3>0
    <3> USE DEF Missing
    <3>2. PICK f : Part(f, n - 1)
      BY <3>0, <3>1
    <3> DEFINE h == [s \in Small(n) |-> Next(f, s)]
    <3>3. ASSUME NEW s \in Small(n), s # {}
          PROVE  s \ {First(s)} \in Small(n - 1) /\ s \ {First(s)} \in Small(n)
      <4>1. First(s) \in s
        BY <3>3 DEF First
      <4>2. Cardinality(s \ {First(s)}) = Cardinality(s) - 1
        BY <1>1, <4>1, FS_RemoveElement
      <4> QED
        BY <1>1, <3>0, <4>2
    <3>4. ASSUME NEW s \in Small(n - 1) PROVE h[s] = f[s]
      <4>1. s \in Small(n)
        BY <1>1, <3>0
      <4>2. f[s] = Next(f, s) /\ h[s] = Next(f, s)
        BY <3>2, <4>1
      <4> QED
        BY <4>2
    <3>5. ASSUME NEW s \in Small(n) PROVE Next(f, s) = Next(h, s)
      BY <3>3, <3>4
    <3> HIDE DEF Next
    <3>6. Part(h, n)
      BY <3>5
    <3> QED
      BY <2>1, <3>6
  <2> QED
    BY <2>2, <2>3
<1>3. PICK f : Part(f, Cardinality(S))
  <2>1. Cardinality(S) \in Nat
    BY FS_CardinalityType
  <2> QED
    BY <1>2, <2>1
<1>4. Small(Cardinality(S)) = SUBSET S
  BY FS_Subset
<1> QED
  BY <1>3, <1>4 DEF Summed

LEMMA SumOf ==
    ASSUME NEW S, NEW f, NEW g, Summed(f, g, S)
    PROVE  /\ f[{}] = 0
           /\ \A s \in SUBSET S : s # {} => First(s) \in s /\ f[s] = g[First(s)] + f[s \ {First(s)}]
  BY Zenon DEF Summed, First

LEMMA SumType ==
    ASSUME NEW S, IsFiniteSet(S), NEW f, NEW g, Summed(f, g, S), \A x \in S : g[x] \in Nat
    PROVE  \A s \in SUBSET S : f[s] \in Nat
<1> DEFINE P == {s \in SUBSET S : f[s] \in Nat}
<1>1. ASSUME NEW s \in SUBSET S, \A x \in s : s \ {x} \in P PROVE s \in P
  <2>1. CASE s = {}
    BY <2>1, SumOf
  <2>2. CASE s # {}
    <3>1. First(s) \in s /\ f[s] = g[First(s)] + f[s \ {First(s)}]
      BY <2>2, SumOf
    <3>2. g[First(s)] \in Nat /\ f[s \ {First(s)}] \in Nat
      BY <1>1, <3>1
    <3> QED
      BY <3>1, <3>2
  <2> QED
    BY <2>1, <2>2
<1> HIDE DEF P
<1>2. \A s \in SUBSET S : s \in P
  BY <1>1, SubsetInduction
<1> QED
  BY <1>2 DEF P

(* Any element may be taken out first.                                     *)
LEMMA SumTake ==
    ASSUME NEW S, IsFiniteSet(S), NEW f, NEW g, Summed(f, g, S), \A x \in S : g[x] \in Nat
    PROVE  \A s \in SUBSET S : \A x \in s : f[s] = g[x] + f[s \ {x}]
<1> DEFINE P == {s \in SUBSET S : \A x \in s : f[s] = g[x] + f[s \ {x}]}
<1>1. ASSUME NEW s \in SUBSET S, \A x \in s : s \ {x} \in P PROVE s \in P
  <2> SUFFICES ASSUME NEW x \in s PROVE f[s] = g[x] + f[s \ {x}]
    OBVIOUS
  <2>1. PICK c \in s : f[s] = g[c] + f[s \ {c}]
    <3>1. First(s) \in s /\ f[s] = g[First(s)] + f[s \ {First(s)}]
      BY SumOf
    <3> QED
      BY <3>1
  <2>2. CASE x # c
    <3>1. f[s \ {c}] = g[x] + f[(s \ {c}) \ {x}]
      BY <1>1, <2>1, <2>2
    <3>2. f[s \ {x}] = g[c] + f[(s \ {x}) \ {c}]
      BY <1>1, <2>1, <2>2
    <3>3. (s \ {c}) \ {x} = (s \ {x}) \ {c}
      OBVIOUS
    <3>4. PICK r : r = (s \ {x}) \ {c}
      OBVIOUS
    <3>5. r \in SUBSET S /\ g[c] \in Nat /\ g[x] \in Nat /\ f[r] \in Nat
      BY <3>4, SumType
    <3>6. f[s] = g[c] + (g[x] + f[r]) /\ f[s \ {x}] = g[c] + f[r]
      BY <2>1, <3>1, <3>2, <3>3, <3>4
    <3> QED
      BY <3>5, <3>6
  <2> QED
    BY <2>1, <2>2
<1> HIDE DEF P
<1>2. \A s \in SUBSET S : s \in P
  BY <1>1, SubsetInduction
<1> QED
  BY <1>2 DEF P

Agree(g, k, U) == \A x \in U : g[x] = k[x]

(* Equal summands have equal sums.                                         *)
LEMMA SumSame ==
    ASSUME NEW S, NEW T, NEW U, U \subseteq S, U \subseteq T, IsFiniteSet(U),
           NEW f, NEW g, Summed(f, g, S), NEW h, NEW k, Summed(h, k, T),
           Agree(g, k, U)
    PROVE  f[U] = h[U]
<1> DEFINE P == {s \in SUBSET U : f[s] = h[s]}
<1>f. /\ f[{}] = 0
      /\ \A s \in SUBSET S : s # {} => First(s) \in s /\ f[s] = g[First(s)] + f[s \ {First(s)}]
  BY Zenon DEF Summed, First
<1>h. /\ h[{}] = 0
      /\ \A s \in SUBSET T : s # {} => First(s) \in s /\ h[s] = k[First(s)] + h[s \ {First(s)}]
  BY Zenon DEF Summed, First
<1>1. ASSUME NEW s \in SUBSET U, \A x \in s : s \ {x} \in P PROVE s \in P
  <2>1. CASE s = {}
    BY <1>f, <1>h, <2>1
  <2>2. CASE s # {}
    <3>1. s \in SUBSET S /\ s \in SUBSET T
      OBVIOUS
    <3>2. First(s) \in s /\ f[s] = g[First(s)] + f[s \ {First(s)}]
      BY <1>f, <2>2, <3>1
    <3>3. h[s] = k[First(s)] + h[s \ {First(s)}]
      BY <1>h, <2>2, <3>1
    <3> QED
      BY <1>1, <3>2, <3>3 DEF Agree
  <2> QED
    BY <2>1, <2>2
<1> HIDE DEF P
<1>2. \A s \in SUBSET U : s \in P
  BY <1>1, SubsetInduction
<1> QED
  BY <1>2 DEF P

(* Elements that count nothing may be left out.                            *)
LEMMA SumZero ==
    ASSUME NEW S, IsFiniteSet(S), NEW f, NEW g, Summed(f, g, S), \A x \in S : g[x] \in Nat,
           NEW U \in SUBSET S, \A x \in S \ U : g[x] = 0
    PROVE  f[S] = f[U]
<1> DEFINE P == {s \in SUBSET (S \ U) : f[U \cup s] = f[U]}
<1>1. ASSUME NEW s \in SUBSET (S \ U), \A x \in s : s \ {x} \in P PROVE s \in P
  <2>1. CASE s = {}
    <3>1. U \cup s = U
      BY <2>1
    <3> QED
      BY <3>1
  <2>2. CASE s # {}
    <3>1. PICK x \in s : TRUE
      BY <2>2
    <3>2. U \cup s \in SUBSET S /\ x \in U \cup s /\ (U \cup s) \ {x} = U \cup (s \ {x})
      BY <3>1
    <3>3. f[U \cup s] = g[x] + f[U \cup (s \ {x})]
      BY <3>2, SumTake
    <3>4. g[x] = 0 /\ f[U \cup (s \ {x})] = f[U] /\ f[U] \in Nat
      BY <1>1, SumType
    <3> QED
      BY <3>3, <3>4
  <2> QED
    BY <2>1, <2>2
<1> HIDE DEF P
<1>2. IsFiniteSet(S \ U)
  BY FS_Subset
<1>3. \A s \in SUBSET (S \ U) : s \in P
  BY ZenonT(30), <1>1, <1>2, SubsetInduction
<1>4. f[U \cup (S \ U)] = f[U]
  BY <1>3 DEF P
<1>5. U \cup (S \ U) = S
  OBVIOUS
<1> QED
  BY Zenon, <1>4, <1>5

-----------------------------------------------------------------------------
(* The sums of the ledger: what the entries of a window keep of its        *)
(* ceiling, with R in the place of reservations.                           *)
EntriesOf(R, w) == {o \in Occurrences : WindowOf[o] = w /\ R[o].state # "none"}
Charges(R) == [o \in Occurrences |-> CapacityOf(R[o])]
Total(R, w) == MapThenSumSet(LAMBDA o : CapacityOf(R[o]), EntriesOf(R, w))

Falling(w) == {o \in Occurrences : WindowOf[o] = w}
Spends(R) == [o \in Occurrences |-> MayHaveSpent(R[o])]
Spent(R, w) == MapThenSumSet(LAMBDA o : MayHaveSpent(R[o]), Falling(w))

LEMMA TotalIs ==
    ASSUME NEW R, NEW w, IsFiniteSet(EntriesOf(R, w))
    PROVE  \E f : Summed(f, Charges(R), EntriesOf(R, w)) /\ Total(R, w) = f[EntriesOf(R, w)]
<1> DEFINE S == EntriesOf(R, w)
           Is(f) == f = [s \in SUBSET S |-> IF s = {} THEN 0
                                            ELSE CapacityOf(R[First(s)]) + f[s \ {First(s)}]]
<1>1. Total(R, w) = (CHOOSE f : Is(f))[S]
  BY DEF Total, MapThenSumSet, MapThenFoldSet, First
<1>2. S \subseteq Occurrences
  BY DEF EntriesOf
<1> HIDE DEF S
<1>3. \A s \in SUBSET S : s # {} => Charges(R)[First(s)] = CapacityOf(R[First(s)])
  BY <1>2 DEF First, Charges
<1>4. \A f : Is(f) <=> Summed(f, Charges(R), S)
  BY <1>3 DEF Summed
<1>5. \E f : Is(f)
  BY <1>4, SumExists DEF S
<1> HIDE DEF Is
<1>6. PICK f : f = CHOOSE h : Is(h)
  OBVIOUS
<1>7. Is(f)
  BY <1>5, <1>6
<1> QED
  BY <1>1, <1>4, <1>6, <1>7 DEF S

LEMMA SpentIs ==
    ASSUME NEW R, NEW w, IsFiniteSet(Falling(w))
    PROVE  \E f : Summed(f, Spends(R), Falling(w)) /\ Spent(R, w) = f[Falling(w)]
<1> DEFINE S == Falling(w)
           Is(f) == f = [s \in SUBSET S |-> IF s = {} THEN 0
                                            ELSE MayHaveSpent(R[First(s)]) + f[s \ {First(s)}]]
<1>1. Spent(R, w) = (CHOOSE f : Is(f))[S]
  BY DEF Spent, MapThenSumSet, MapThenFoldSet, First
<1>2. S \subseteq Occurrences
  BY DEF Falling
<1> HIDE DEF S
<1>3. \A s \in SUBSET S : s # {} => Spends(R)[First(s)] = MayHaveSpent(R[First(s)])
  BY <1>2 DEF First, Spends
<1>4. \A f : Is(f) <=> Summed(f, Spends(R), S)
  BY <1>3 DEF Summed
<1>5. \E f : Is(f)
  BY <1>4, SumExists DEF S
<1> HIDE DEF Is
<1>6. PICK f : f = CHOOSE h : Is(h)
  OBVIOUS
<1>7. Is(f)
  BY <1>5, <1>6
<1> QED
  BY <1>1, <1>4, <1>6, <1>7 DEF S

LEMMA ChargeType ==
    ASSUME NEW R \in [Occurrences -> ReservationRecord], NEW o \in Occurrences
    PROVE  /\ Charges(R)[o] = CapacityOf(R[o]) /\ Charges(R)[o] \in Nat
           /\ Spends(R)[o] = IF R[o].state = "none" THEN 0 ELSE Charges(R)[o]
  BY NumberAssumption DEF Charges, Spends, CapacityOf, MayHaveSpent, ReservationRecord

LEMMA TotalType ==
    ASSUME NEW R \in [Occurrences -> ReservationRecord], NEW w, IsFiniteSet(EntriesOf(R, w))
    PROVE  Total(R, w) \in Nat
<1> DEFINE S == EntriesOf(R, w)
<1>1. PICK f : Summed(f, Charges(R), S) /\ Total(R, w) = f[S]
  BY TotalIs
<1>2. S \in SUBSET S /\ IsFiniteSet(S) /\ \A o \in S : Charges(R)[o] \in Nat
  BY ChargeType DEF EntriesOf
<1> HIDE DEF S
<1> QED
  BY <1>1, <1>2, SumType

Becomes(R, o, r, Q) == Q = [R EXCEPT ![o] = r]

(* A change of one reservation moves the total of its window by what it    *)
(* moves its own charge.                                                   *)
LEMMA TotalMoves ==
    ASSUME NEW R \in [Occurrences -> ReservationRecord], NEW o \in Occurrences,
           NEW r \in ReservationRecord, r.state # "none",
           NEW Q, Becomes(R, o, r, Q),
           NEW w, IsFiniteSet(EntriesOf(R, w))
    PROVE  /\ IsFiniteSet(EntriesOf(Q, w))
           /\ w # WindowOf[o] => Total(Q, w) = Total(R, w)
           /\ R[o].state = "none" => Total(Q, w) <= Total(R, w) + CapacityOf(r)
           /\ R[o].state # "none" /\ CapacityOf(r) <= CapacityOf(R[o])
                 => Total(Q, w) <= Total(R, w)
<1>1. Q \in [Occurrences -> ReservationRecord] /\ Q[o] = r
  BY DEF Becomes
<1>2. \A p \in Occurrences : p # o => Q[p] = R[p] /\ Charges(Q)[p] = Charges(R)[p]
  BY DEF Charges, Becomes
<1> DEFINE S == EntriesOf(R, w)
           T == EntriesOf(Q, w)
           U == S \ {o}
<1>3. /\ \A p \in S : Charges(R)[p] \in Nat
      /\ \A p \in T : Charges(Q)[p] \in Nat
  BY <1>1, ChargeType DEF EntriesOf
<1>4. /\ w # WindowOf[o] => T = S /\ o \notin S
      /\ w = WindowOf[o] => T = S \cup {o} /\ (o \in S <=> R[o].state # "none")
      /\ U = T \ {o} /\ S \subseteq Occurrences
  BY <1>1, <1>2 DEF EntriesOf
<1>5. IsFiniteSet(T) /\ IsFiniteSet(U)
  BY <1>4, FS_AddElement, FS_RemoveElement
<1>6. PICK f : Summed(f, Charges(R), S) /\ Total(R, w) = f[S]
  BY TotalIs
<1>7. PICK h : Summed(h, Charges(Q), T) /\ Total(Q, w) = h[T]
  BY <1>5, TotalIs
<1>8. CapacityOf(r) \in Nat /\ Charges(Q)[o] = CapacityOf(r) /\ Charges(R)[o] = CapacityOf(R[o])
  BY <1>1, ChargeType
<1> HIDE DEF S, T, U
<1>9. f[U] = h[U]
  <2>1. U \subseteq S /\ U \subseteq T
    BY <1>4 DEF U
  <2>2. PICK g, k : g = Charges(R) /\ k = Charges(Q)
    OBVIOUS
  <2>3. Agree(g, k, U)
    BY <1>2, <1>4, <2>2 DEF U, Agree
  <2>4. Summed(f, g, S) /\ Summed(h, k, T)
    BY <1>6, <1>7, <2>2
  <2> QED
    BY <1>5, <2>1, <2>3, <2>4, SumSame
<1>10. /\ f[U] \in Nat /\ f[S] \in Nat
       /\ o \in S => f[S] = CapacityOf(R[o]) + f[U]
  <2>1. U \in SUBSET S /\ S \in SUBSET S /\ IsFiniteSet(S) /\ U = S \ {o}
    BY DEF U, S
  <2>2. PICK g : g = Charges(R)
    OBVIOUS
  <2>3. Summed(f, g, S) /\ (\A p \in S : g[p] \in Nat) /\ g[o] = CapacityOf(R[o])
    BY <1>3, <1>6, <1>8, <2>2
  <2>4. \A s \in SUBSET S : f[s] \in Nat
    BY <2>1, <2>3, SumType
  <2>5. \A p \in S : f[S] = g[p] + f[S \ {p}]
    BY <2>1, <2>3, SumTake
  <2> QED
    BY <2>1, <2>3, <2>4, <2>5
<1>11. o \in T => h[T] = CapacityOf(r) + h[U]
  <2>1. PICK k : k = Charges(Q)
    OBVIOUS
  <2>2. Summed(h, k, T) /\ (\A p \in T : k[p] \in Nat) /\ k[o] = CapacityOf(r)
    BY <1>3, <1>7, <1>8, <2>1
  <2>3. \A p \in T : h[T] = k[p] + h[T \ {p}]
    BY <1>5, <2>2, SumTake
  <2> QED
    BY <1>4, <2>2, <2>3
<1>12. \A p : p \notin S => U = S \/ p # o
  BY DEF U
<1>13. CASE w # WindowOf[o]
  <2>1. T = S /\ U = S
    BY <1>4, <1>12, <1>13
  <2>2. Total(Q, w) = Total(R, w)
    BY <1>6, <1>7, <1>9, <2>1
  <2> QED
    BY <1>5, <1>6, <1>8, <1>10, <2>2 DEF T
<1>14. CASE w = WindowOf[o] /\ R[o].state = "none"
  <2>1. o \in T /\ U = S
    BY <1>4, <1>12, <1>14
  <2>2. Total(Q, w) = CapacityOf(r) + Total(R, w)
    BY <1>6, <1>7, <1>9, <1>11, <2>1
  <2> QED
    BY <1>5, <1>6, <1>8, <1>10, <1>14, <2>2 DEF T
<1>15. CASE w = WindowOf[o] /\ R[o].state # "none"
  <2>1. o \in T /\ o \in S
    BY <1>4, <1>15
  <2>2. Total(Q, w) = CapacityOf(r) + f[U] /\ Total(R, w) = CapacityOf(R[o]) + f[U]
    BY <1>6, <1>7, <1>9, <1>10, <1>11, <2>1
  <2>3. CapacityOf(R[o]) \in Nat
    BY ChargeType
  <2> QED
    BY <1>5, <1>8, <1>10, <1>15, <2>2, <2>3 DEF T
<1> QED
  BY <1>13, <1>14, <1>15

-----------------------------------------------------------------------------
(* No window has committed more than its ceiling; its entries are finitely *)
(* many.                                                                   *)
Within(R, C) == \A w \in Windows : IsFiniteSet(EntriesOf(R, w)) /\ Total(R, w) <= C[w]

CeilingInv == Within(reservations, ceilings)

LEMMA CeilingInit == StoreInit => CeilingInv
<1> SUFFICES ASSUME StoreInit, NEW w \in Windows
             PROVE  IsFiniteSet(EntriesOf(reservations, w)) /\ Total(reservations, w) <= ceilings[w]
  BY DEF CeilingInv, Within
<1>1. EntriesOf(reservations, w) = {} /\ ceilings[w] = 0
  BY DEF StoreInit, EntriesOf, NoReservation
<1>2. IsFiniteSet(EntriesOf(reservations, w))
  BY <1>1, FS_EmptySet
<1>3. Total(reservations, w) = 0
  <2>1. PICK f : Summed(f, Charges(reservations), {}) /\ Total(reservations, w) = f[{}]
    BY <1>1, <1>2, TotalIs
  <2> QED
    BY <2>1, SumOf
<1> QED
  BY <1>1, <1>2, <1>3

(* A settlement charges at most what the reservation kept.                 *)
LEMMA SettleCharges ==
    ASSUME StoreTypeOK, NEW o \in Occurrences, NEW kind \in {"settled", "unknown"},
           NEW spent \in Amounts, Settleable(o, kind, spent)
    PROVE  LET r == Settled(kind, reservations[o], spent)
           IN  /\ r \in ReservationRecord /\ r.state # "none" /\ reservations[o].state # "none"
               /\ CapacityOf(r) <= CapacityOf(reservations[o])
<1>1. PICK r : r = reservations[o]
  OBVIOUS
<1>2. r \in ReservationRecord
  BY <1>1 DEF StoreTypeOK
<1>3. PICK q : q = Settled(kind, r, spent)
  OBVIOUS
<1>4. /\ r.state # "none"
      /\ kind = "settled" => spent <= r.reserved
      /\ r.state = "active" \/ (r.state = kind /\ r.spent = spent)
  BY <1>1 DEF Settleable
<1>5. r.reserved \in Nat /\ spent \in Nat /\ r.spent \in Nat
  BY <1>2, NumberAssumption DEF ReservationRecord
<1>6. q \in ReservationRecord /\ q.state = kind
  BY <1>2, <1>3 DEF ReservationRecord, Settled
<1>7. q.reserved = r.reserved
  BY <1>2, <1>3 DEF ReservationRecord, Settled
<1>8. kind = "settled" => q.spent = spent
  BY <1>2, <1>3 DEF ReservationRecord, Settled
<1>9. CapacityOf(q) <= CapacityOf(r)
  BY <1>4, <1>5, <1>6, <1>7, <1>8 DEF CapacityOf
<1> QED
  BY <1>1, <1>3, <1>4, <1>6, <1>9

LEMMA CeilingSettle ==
    ASSUME StoreTypeOK, CeilingInv, NEW o \in Occurrences, NEW kind \in {"settled", "unknown"},
           NEW spent \in Amounts, Settleable(o, kind, spent),
           reservations' = [reservations EXCEPT ![o] = Settled(kind, @, spent)],
           ceilings' = ceilings
    PROVE  CeilingInv'
<1>1. PICK r : r = Settled(kind, reservations[o], spent)
  OBVIOUS
<1>2. PICK R, Q, C : R = reservations /\ Q = reservations' /\ C = ceilings
  OBVIOUS
<1>3. /\ R \in [Occurrences -> ReservationRecord] /\ Becomes(R, o, r, Q)
      /\ C \in [Windows -> Ceilings \cup {0}] /\ C = ceilings'
      /\ Q \in [Occurrences -> ReservationRecord]
  BY <1>1, <1>2, SettleCharges DEF StoreTypeOK, Becomes
<1>4. /\ r \in ReservationRecord /\ r.state # "none" /\ R[o].state # "none"
      /\ CapacityOf(r) <= CapacityOf(R[o])
  BY <1>1, <1>2, SettleCharges
<1>5. ASSUME NEW w \in Windows PROVE IsFiniteSet(EntriesOf(Q, w)) /\ Total(Q, w) <= C[w]
  <2>1. IsFiniteSet(EntriesOf(R, w)) /\ Total(R, w) <= C[w]
    BY <1>2 DEF CeilingInv, Within
  <2>2. IsFiniteSet(EntriesOf(Q, w)) /\ Total(Q, w) <= Total(R, w)
    BY <1>3, <1>4, <2>1, TotalMoves
  <2>3. Total(R, w) \in Nat /\ Total(Q, w) \in Nat /\ C[w] \in Nat
    BY <1>3, <1>4, <2>1, <2>2, TotalType, NumberAssumption
  <2> QED
    BY <2>1, <2>2, <2>3
<1> QED
  BY <1>2, <1>3, <1>5 DEF CeilingInv, Within

LEMMA CeilingAdmit ==
    ASSUME StoreTypeOK, LedgerInv, CeilingInv, NEW o \in Occurrences, NEW ceiling \in Ceilings,
           NEW reserved \in Amounts, Admit(o, ceiling, reserved)
    PROVE  CeilingInv'
<1>1. PICK r : r = [state |-> "active", reserved |-> reserved, spent |-> 0]
  OBVIOUS
<1>2. PICK R, Q, C, D : R = reservations /\ Q = reservations' /\ C = ceilings /\ D = ceilings'
  OBVIOUS
<1>0. R \in [Occurrences -> ReservationRecord] /\ Becomes(R, o, r, Q)
  BY <1>1, <1>2 DEF StoreTypeOK, Admit, Becomes
<1>3. /\ C \in [Windows -> Ceilings \cup {0}] /\ D = [C EXCEPT ![WindowOf[o]] = ceiling]
      /\ Total(R, WindowOf[o]) + reserved <= ceiling
  BY <1>1, <1>2 DEF StoreTypeOK, Admit, Committed, Entries, Total, EntriesOf
<1>4. R[o].state = "none"
  BY <1>2 DEF Admit, LedgerInv
<1>5. /\ r \in ReservationRecord /\ r.state # "none" /\ CapacityOf(r) = reserved
  BY <1>1, NumberAssumption DEF ReservationRecord, CapacityOf
<1>6. ASSUME NEW w \in Windows PROVE IsFiniteSet(EntriesOf(Q, w)) /\ Total(Q, w) <= D[w]
  <2>1. IsFiniteSet(EntriesOf(R, w)) /\ Total(R, w) <= C[w]
    BY <1>2 DEF CeilingInv, Within
  <2>2. /\ IsFiniteSet(EntriesOf(Q, w))
        /\ w # WindowOf[o] => Total(Q, w) = Total(R, w)
        /\ Total(Q, w) <= Total(R, w) + reserved
    <3>1. /\ IsFiniteSet(EntriesOf(Q, w))
          /\ w # WindowOf[o] => Total(Q, w) = Total(R, w)
          /\ R[o].state = "none" => Total(Q, w) <= Total(R, w) + CapacityOf(r)
          /\ R[o].state # "none" /\ CapacityOf(r) <= CapacityOf(R[o])
                => Total(Q, w) <= Total(R, w)
      BY <1>0, <1>5, <2>1, TotalMoves
    <3> QED
      BY <1>4, <1>5, <3>1
  <2>3. Total(R, w) \in Nat /\ Total(Q, w) \in Nat /\ reserved \in Nat /\ ceiling \in Nat
    <3>1. Q \in [Occurrences -> ReservationRecord]
      BY <1>0, <1>5 DEF Becomes
    <3> QED
      BY <1>0, <2>1, <2>2, <3>1, TotalType, NumberAssumption
  <2>4. CASE w # WindowOf[o]
    BY <1>3, <2>1, <2>2, <2>4
  <2>5. CASE w = WindowOf[o]
    <3>1. D[w] = ceiling
      BY <1>3, <2>5
    <3> QED
      BY <1>3, <2>2, <2>3, <2>5, <3>1
  <2> QED
    BY <2>4, <2>5
<1> QED
  BY <1>2, <1>6 DEF CeilingInv, Within

LEMMA CeilingStep ==
    ASSUME StoreTypeOK, LedgerInv, CeilingInv, [StoreNext]_storeVars
    PROVE  CeilingInv'
<1>2. ASSUME reservations' = reservations, ceilings' = ceilings PROVE CeilingInv'
  BY <1>2 DEF CeilingInv, Within
<1>1. CASE UNCHANGED storeVars
  BY <1>1, <1>2 DEF storeVars, ledgerVars
<1>3. ASSUME NEW o \in Occurrences, NEW n \in Numbers, NEW f \in Numbers, Settle(o, n, f)
      PROVE  CeilingInv'
  <2>1. PICK kind \in {"settled", "unknown"}, spent \in Amounts :
           /\ Settleable(o, kind, spent)
           /\ reservations' = [reservations EXCEPT ![o] = Settled(kind, @, spent)]
    BY <1>3 DEF Settle
  <2>2. ceilings' = ceilings
    BY <1>3 DEF Settle
  <2> QED
    BY <2>1, <2>2, CeilingSettle
<1>4. ASSUME NEW o \in Occurrences, NEW n \in Numbers, NEW f \in Numbers, Finalize(o, n, f)
      PROVE  CeilingInv'
  <2>1. PICK outcome \in Outcomes, spent \in Amounts :
           /\ Settleable(o, KindOf(outcome), spent)
           /\ reservations' = [reservations EXCEPT ![o] = Settled(KindOf(outcome), @, spent)]
    BY <1>4 DEF Finalize
  <2>2. KindOf(outcome) \in {"settled", "unknown"} /\ ceilings' = ceilings
    BY <1>4 DEF KindOf, Finalize
  <2> QED
    BY <2>1, <2>2, CeilingSettle
<1>5. CASE StoreNext
  <2>1. ASSUME \/ \E j \in Jobs : RegisterJob(j)
               \/ \E j \in Jobs : Claim(j)
               \/ \E j \in Jobs : Cancel(j)
               \/ \E j \in Jobs, n, f \in Numbers : Heartbeat(j, n, f)
               \/ \E j \in Jobs, n, f \in Numbers, revision, cursor \in Progress :
                     Checkpoint(j, n, f, revision, cursor)
               \/ \E k \in Keys, j \in Jobs, n, f \in Numbers, class \in WorkClasses :
                     RegisterDispatch(k, j, n, f, class)
               \/ \E k \in Keys, j \in Jobs, n, f \in Numbers, status \in Outcomes :
                     RecordReceipt(k, j, n, f, status)
               \/ \E j \in Jobs, n, f \in Numbers, outcome \in Outcomes :
                     Complete(j, n, f, outcome)
               \/ \E o \in Occurrences, state \in {"pending", "skipped"} :
                     RecordOccurrence(o, state)
               \/ \E k \in SubmissionKeys, d \in Digests, j \in Jobs : BindSubmission(k, d, j)
               \/ Tick
        PROVE  reservations' = reservations /\ ceilings' = ceilings
    BY <2>1 DEF RegisterJob, Claim, Cancel, Heartbeat, Checkpoint, RegisterDispatch,
                RecordReceipt, Complete, RecordOccurrence, BindSubmission, Tick, ledgerVars
  <2> QED
    BY <1>2, <1>3, <1>4, <1>5, <2>1, CeilingAdmit, StepCases
<1> QED
  BY <1>1, <1>5

(* No window commits more than its ceiling, whatever its callers ask for   *)
(* and in whatever order they settle, for a ledger of finitely many        *)
(* occurrences (state.admit, state.settle, state.finalize).                *)
THEOREM LedgersHoldTheirCeiling ==
    IsFiniteSet(Occurrences) => (StoreSpec => []LedgerWithinCeiling)
<1> SUFFICES ASSUME IsFiniteSet(Occurrences) PROVE StoreSpec => []LedgerWithinCeiling
  OBVIOUS
<1>1. StoreInit => StoreTypeOK /\ LedgerInv /\ CeilingInv
  BY TypeInit, LedgerInit, CeilingInit
<1>2. (StoreTypeOK /\ LedgerInv /\ CeilingInv) /\ [StoreNext]_storeVars
        => (StoreTypeOK /\ LedgerInv /\ CeilingInv)'
  BY TypeStep, LedgerStep, CeilingStep
<1>3. StoreTypeOK /\ LedgerInv /\ CeilingInv => LedgerWithinCeiling
  <2> SUFFICES ASSUME StoreTypeOK, CeilingInv, NEW w \in Windows
               PROVE  Spent(reservations, w) <= ceilings[w]
    BY DEF LedgerWithinCeiling, Spent, Falling
  <2>1. PICK R : R = reservations
    OBVIOUS
  <2>2. R \in [Occurrences -> ReservationRecord]
    BY <2>1 DEF StoreTypeOK
  <2> DEFINE S == Falling(w)
             U == EntriesOf(R, w)
  <2>3. /\ IsFiniteSet(S) /\ IsFiniteSet(U) /\ U \in SUBSET S
        /\ \A o \in S : o \in Occurrences /\ (o \in U <=> R[o].state # "none")
    BY FS_Subset DEF Falling, EntriesOf
  <2>4. PICK f : Summed(f, Spends(R), S) /\ Spent(R, w) = f[S]
    BY <2>3, SpentIs
  <2>5. PICK h : Summed(h, Charges(R), U) /\ Total(R, w) = h[U]
    BY <2>3, TotalIs
  <2> HIDE DEF S, U
  <2>6. /\ \A o \in S : Spends(R)[o] \in Nat
        /\ \A o \in S \ U : Spends(R)[o] = 0
        /\ \A o \in U : Spends(R)[o] = Charges(R)[o]
    BY <2>2, <2>3, ChargeType
  <2>7. f[S] = f[U]
    BY <2>3, <2>4, <2>6, SumZero
  <2>8. f[U] = h[U]
    <3>1. U \subseteq S /\ U \subseteq U
      BY <2>3
    <3>2. PICK g, k : g = Spends(R) /\ k = Charges(R)
      OBVIOUS
    <3>3. Summed(f, g, S) /\ Summed(h, k, U) /\ Agree(g, k, U)
      BY <2>4, <2>5, <2>6, <3>2 DEF Agree
    <3> QED
      BY <2>3, <3>1, <3>3, SumSame
  <2>9. Total(R, w) <= ceilings[w]
    BY <2>1 DEF CeilingInv, Within
  <2> QED
    BY <2>1, <2>4, <2>5, <2>7, <2>8, <2>9
<1> QED
  BY <1>1, <1>2, <1>3, PTL DEF StoreSpec

-----------------------------------------------------------------------------
(***************************************************************************)
(* The schedulers of one trigger directory.                                *)
(*                                                                         *)
(* The argument.  A process in the middle of a pass knows its triggers by  *)
(* the records it listed, whose overlap policy is still theirs, and each   *)
(* of its steps rests on what the one before has left in the store: a slot *)
(* it starts was admitted, one it publishes is bound to its job, one it    *)
(* claims is published (PassOK).  What the store holds is only ever added  *)
(* to (Grows), so the death of the process, or another one doing the same  *)
(* work, cannot take the ground away.                                      *)
(***************************************************************************)

USE DEF leaseVars, ledgerVars, dispatchVars, processVars

Granted == {"admitted", "completed", "unknown"}

RecordIs(r) == r = [cursor |-> r.cursor, overlap |-> r.overlap, onMissed |-> r.onMissed]

(* What a pass knows of a trigger it listed.                               *)
Fits(x, t) ==
    /\ t \in Triggers
    /\ RecordIs(x.seen[t]) /\ x.seen[t].overlap = records[t].overlap
    /\ x.due[t].run \subseteq Slots /\ x.due[t].skip \subseteq Slots

Lists(x) ==
    /\ x = [pc |-> "list", left |-> x.left, seen |-> x.seen, due |-> x.due]
    /\ \A t \in x.left : Fits(x, t)

SlotOf(x) == <<x.trigger, Min(x.run)>>

(* The steps of a slot, each with what the one before has left.            *)
StageOK(x, o) ==
    /\ x.pc \in {"replace", "start", "publish", "claim"} => x.run # {}
    /\ x.pc \in {"start", "publish", "claim"} => occurrences[o] \in Granted
    /\ x.pc \in {"publish", "claim"} => submissions[o].bound
    /\ x.pc = "claim" => o \in published

Visits(x) ==
    /\ x = [pc |-> x.pc, left |-> x.left, seen |-> x.seen, due |-> x.due,
            trigger |-> x.trigger, run |-> x.run, skip |-> x.skip, attended |-> x.attended]
    /\ x.pc \in {"visit", "replace", "start", "publish", "claim"}
    /\ \A t \in x.left : Fits(x, t)
    /\ Fits(x, x.trigger)
    /\ x.run \subseteq Slots /\ x.skip \subseteq Slots
    /\ StageOK(x, SlotOf(x))

TickOK(x) ==
    \/ x = Idle \/ x = Down
    \/ x = [pc |-> "recover", left |-> x.left] /\ x.left \subseteq published
    \/ Lists(x)
    \/ Visits(x)

PassOK == \A p \in Schedulers : TickOK(ticks[p])

(* What was claimed was published, and what was published was admitted and *)
(* bound to its own job.                                                   *)
PlaceOK ==
    /\ published \subseteq Occurrences
    /\ \A o \in Occurrences :
          /\ submissions[o].bound => submissions[o].job = o
          /\ o \in published => submissions[o].bound /\ occurrences[o] \in Granted
          /\ jobs[o].attempt # 0 => o \in published
    /\ \A p \in Schedulers, j \in Jobs : workers[p][j] # 0 => j \in published

ShapeOK ==
    /\ ticks = [p \in Schedulers |-> ticks[p]]
    /\ workers \in [Schedulers -> [Jobs -> Numbers]]
    /\ records = [t \in Triggers |-> records[t]]
    /\ \A t \in Triggers : RecordIs(records[t])

SchedulerInv == StoreTypeOK /\ ShapeOK /\ PlaceOK /\ PassOK

(* What a step leaves standing under everybody else's pass.                *)
Grows ==
    /\ \A o \in Occurrences :
          /\ occurrences[o] \in Granted => occurrences'[o] \in Granted
          /\ submissions[o].bound => submissions'[o] = submissions[o]
    /\ published \subseteq published'
    /\ \A t \in Triggers : records'[t].overlap = records[t].overlap

(* What a step of process p owes.                                          *)
Sound(p) ==
    /\ [StoreNext]_storeVars
    /\ Grows
    /\ ticks' = [ticks EXCEPT ![p] = ticks'[p]]
    /\ TickOK(ticks[p])'
    /\ (ShapeOK /\ PlaceOK)'

-----------------------------------------------------------------------------
LEMMA ScheduleFacts ==
    /\ Slots \subseteq Nat
    /\ Occurrences = Triggers \X Slots
    /\ Occurrences \subseteq Jobs
    /\ \A o \in Occurrences : JobFor[o] = o
    /\ SubmissionKeys = Occurrences
    /\ Budget \in Ceilings /\ Budget \in Amounts
  BY ScheduleAssumption, BindingAssumption

LEMMA LeastSlot == ASSUME NEW S, S \subseteq Nat, S # {} PROVE Min(S) \in S
<1>1. PICK least \in S : \A k \in S : least <= k
  BY LeastOf
<1> QED
  BY <1>1 DEF Min

LEMMA LatestSlot ==
    ASSUME NEW S, S \subseteq Nat, S # {}, NEW b \in Nat, \A s \in S : s <= b
    PROVE  Max(S) \in S
<1> DEFINE T == {b - s : s \in S}
<1>1. T \subseteq Nat /\ T # {}
  <2>1. ASSUME NEW s \in S PROVE b - s \in Nat /\ b - s \in T
    OBVIOUS
  <2>2. T # {}
    BY <2>1
  <2> QED
    BY <2>1, <2>2
<1> HIDE DEF T
<1>2. PICK d \in T : \A k \in T : d <= k
  BY <1>1, LeastOf
<1>3. PICK s \in S : d = b - s
  BY <1>2 DEF T
<1>4. ASSUME NEW k \in S PROVE s >= k
  <2>1. b - k \in T
    BY DEF T
  <2> QED
    BY <1>2, <1>3, <2>1
<1> QED
  BY <1>4 DEF Max

(* What a record says is due are slots.                                    *)
LEMMA DueSlots ==
    ASSUME NEW r, NEW at \in Nat
    PROVE  Due(r, at).run \subseteq Slots /\ Due(r, at).skip \subseteq Slots
<1> DEFINE owed == OwedSlots(r, at)
<1>1. owed \subseteq Slots /\ owed \subseteq Nat /\ \A s \in owed : s <= at
  BY ScheduleFacts DEF OwedSlots
<1>2. owed # {} => Max(owed) \in owed
  BY <1>1, LatestSlot
<1> HIDE DEF owed
<1>3. Due(r, at) = IF owed = {} THEN NothingDue
       ELSE IF r.cursor = Never THEN [run |-> {Max(owed)}, skip |-> {}]
       ELSE CASE r.onMissed = "run-all"  -> [run |-> owed, skip |-> {}]
              [] r.onMissed = "run-once" -> [run |-> {Max(owed)}, skip |-> owed \ {Max(owed)}]
              [] OTHER -> IF Cardinality(owed) = 1 THEN [run |-> owed, skip |-> {}]
                                                   ELSE [run |-> {}, skip |-> owed]
  BY DEF Due, owed
<1> QED
  BY <1>1, <1>2, <1>3 DEF NothingDue

LEMMA SlotIs ==
    ASSUME NEW x, Visits(x), x.run # {}
    PROVE  SlotOf(x) \in Occurrences /\ Min(x.run) \in Slots
  BY LeastSlot, ScheduleFacts DEF SlotOf, Visits, Fits

LEMMA ThisTick ==
    ASSUME SchedulerInv, NEW p \in Schedulers
    PROVE  TickOK(ticks[p]) /\ Current(p) = SlotOf(ticks[p])
  BY DEF SchedulerInv, PassOK, Current, SlotOf

(* Which of the forms of a pass it is follows from where it stands.        *)
LEMMA FormOf ==
    ASSUME NEW x, TickOK(x)
    PROVE  /\ x.pc \in {"visit", "replace", "start", "publish", "claim"} => Visits(x)
           /\ x.pc = "list" => Lists(x)
           /\ x.pc = "recover" => x.left \subseteq published
  BY DEF TickOK, Lists, Visits, Idle, Down

(* A pass that is not moved keeps its ground.                              *)
LEMMA VisitsKept ==
    ASSUME NEW x, Visits(x), Grows
    PROVE  Visits(x)'
<1>1. \A t : Fits(x, t) => Fits(x, t)'
  BY DEF Fits, Grows
<1>2. StageOK(x, SlotOf(x))'
  <2>1. CASE x.run = {}
    BY <2>1 DEF Visits, StageOK
  <2>2. CASE x.run # {}
    <3>1. SlotOf(x) \in Occurrences
      BY <2>2, SlotIs
    <3> QED
      BY <3>1 DEF Visits, StageOK, Grows, SlotOf
  <2> QED
    BY <2>1, <2>2
<1> QED
  BY <1>1, <1>2 DEF Visits

LEMMA TickKept ==
    ASSUME NEW x, TickOK(x), Grows
    PROVE  TickOK(x)'
<1>1. \A t : Fits(x, t) => Fits(x, t)'
  BY DEF Fits, Grows
<1>2. CASE Lists(x)
  BY <1>1, <1>2 DEF Lists, TickOK
<1>3. CASE Visits(x)
  BY <1>3, VisitsKept DEF TickOK
<1>4. CASE x = Idle \/ x = Down
  BY <1>4 DEF TickOK
<1>5. CASE x = [pc |-> "recover", left |-> x.left] /\ x.left \subseteq published
  BY <1>5 DEF TickOK, Grows
<1> QED
  BY <1>2, <1>3, <1>4, <1>5 DEF TickOK

LEMMA SoundKeeps ==
    ASSUME SchedulerInv, NEW p \in Schedulers, Sound(p)
    PROVE  SchedulerInv'
<1>1. StoreTypeOK'
  BY TypeStep DEF SchedulerInv, Sound
<1>2. ASSUME NEW q \in Schedulers PROVE TickOK(ticks[q])'
  <2>1. CASE q = p
    BY <2>1 DEF Sound
  <2>2. CASE q # p
    <3>1. PICK x : x = ticks[q]
      OBVIOUS
    <3>2. TickOK(x) /\ ticks'[q] = x
      BY <2>2, <3>1 DEF SchedulerInv, PassOK, Sound, ShapeOK
    <3> QED
      BY <3>2, TickKept DEF Sound
  <2> QED
    BY <2>1, <2>2
<1> QED
  BY <1>1, <1>2 DEF SchedulerInv, Sound, PassOK

(* A pass that settled something goes on as a visit of the same trigger.   *)
Turn(x, pc, run, skip, attended) ==
    [pc |-> pc, left |-> x.left, seen |-> x.seen, due |-> x.due,
     trigger |-> x.trigger, run |-> run, skip |-> skip, attended |-> attended]

LEMMA Turns ==
    ASSUME NEW x, Visits(x),
           NEW pc \in {"visit", "replace", "start", "publish", "claim"},
           NEW run \in SUBSET Slots, NEW skip \in SUBSET Slots, NEW attended,
           StageOK(Turn(x, pc, run, skip, attended), <<x.trigger, Min(run)>>)
    PROVE  TickOK(Turn(x, pc, run, skip, attended))
<1> DEFINE y == Turn(x, pc, run, skip, attended)
<1>1. /\ y.pc = pc /\ y.left = x.left /\ y.seen = x.seen /\ y.due = x.due
      /\ y.trigger = x.trigger /\ y.run = run /\ y.skip = skip /\ y.attended = attended
  BY DEF Turn
<1>2. y = [pc |-> y.pc, left |-> y.left, seen |-> y.seen, due |-> y.due,
           trigger |-> y.trigger, run |-> y.run, skip |-> y.skip, attended |-> y.attended]
  BY <1>1 DEF Turn
<1>3. StageOK(y, SlotOf(y))
  BY <1>1 DEF SlotOf
<1> HIDE DEF y
<1>4. Visits(y)
  BY <1>1, <1>2, <1>3 DEF Visits, Fits
<1> QED
  BY <1>4 DEF TickOK, y

(* The same in the state a step leads to.                                  *)
LEMMA TurnsNext ==
    ASSUME NEW x, Visits(x), Grows,
           NEW pc \in {"visit", "replace", "start", "publish", "claim"},
           NEW attended, x.run # {},
           pc \in {"start", "publish", "claim"} => occurrences'[SlotOf(x)] \in Granted,
           pc \in {"publish", "claim"} => submissions'[SlotOf(x)].bound,
           pc = "claim" => SlotOf(x) \in published'
    PROVE  TickOK(Turn(x, pc, x.run, x.skip, attended))'
<1>0. Visits(x)'
  BY VisitsKept
<1>1. PICK y : y = Turn(x, pc, x.run, x.skip, attended)
  OBVIOUS
<1>2. /\ y.pc = pc /\ y.left = x.left /\ y.seen = x.seen /\ y.due = x.due
      /\ y.trigger = x.trigger /\ y.run = x.run /\ y.skip = x.skip /\ y.attended = attended
  BY <1>1 DEF Turn
<1>3. y = [pc |-> y.pc, left |-> y.left, seen |-> y.seen, due |-> y.due,
           trigger |-> y.trigger, run |-> y.run, skip |-> y.skip, attended |-> y.attended]
  BY <1>1, <1>2 DEF Turn
<1>4. StageOK(y, SlotOf(y))'
  BY <1>2 DEF SlotOf, StageOK
<1>5. Visits(y)'
  BY <1>0, <1>2, <1>3, <1>4 DEF Visits, Fits
<1> QED
  BY <1>1, <1>5 DEF TickOK

LEMMA GoesOn ==
    ASSUME NEW x, Visits(x), NEW run \in SUBSET Slots, NEW skip \in SUBSET Slots, NEW attended
    PROVE  TickOK(Turn(x, "visit", run, skip, attended))
  BY Turns DEF StageOK, Turn

LEMMA FormPc ==
    ASSUME NEW x, Visits(x), NEW pc
    PROVE  [x EXCEPT !.pc = pc] = Turn(x, pc, x.run, x.skip, x.attended)
<1>1. PICK c, l, s, d, t, r, k, a :
         x = [pc |-> c, left |-> l, seen |-> s, due |-> d,
              trigger |-> t, run |-> r, skip |-> k, attended |-> a]
  BY DEF Visits
<1> QED
  BY <1>1 DEF Turn

LEMMA FormRun ==
    ASSUME NEW x, Visits(x), NEW pc, NEW run
    PROVE  [x EXCEPT !.pc = pc, !.run = run] = Turn(x, pc, run, x.skip, x.attended)
<1>1. PICK c, l, s, d, t, r, k, a :
         x = [pc |-> c, left |-> l, seen |-> s, due |-> d,
              trigger |-> t, run |-> r, skip |-> k, attended |-> a]
  BY DEF Visits
<1>2. PICK y : y = [x EXCEPT !.pc = pc]
  OBVIOUS
<1>3. y = [pc |-> pc, left |-> l, seen |-> s, due |-> d,
           trigger |-> t, run |-> r, skip |-> k, attended |-> a]
  BY <1>1, <1>2
<1>4. [y EXCEPT !.run = run] = [pc |-> pc, left |-> l, seen |-> s, due |-> d,
           trigger |-> t, run |-> run, skip |-> k, attended |-> a]
  BY <1>3
<1>5. [x EXCEPT !.pc = pc, !.run = run] = [y EXCEPT !.run = run]
  BY <1>2
<1> QED
  BY <1>1, <1>4, <1>5 DEF Turn

LEMMA FormSkip ==
    ASSUME NEW x, Visits(x), NEW skip
    PROVE  [x EXCEPT !.skip = skip] = Turn(x, x.pc, x.run, skip, x.attended)
<1>1. PICK c, l, s, d, t, r, k, a :
         x = [pc |-> c, left |-> l, seen |-> s, due |-> d,
              trigger |-> t, run |-> r, skip |-> k, attended |-> a]
  BY DEF Visits
<1> QED
  BY <1>1 DEF Turn

LEMMA FormDone ==
    ASSUME NEW x, NEW pc, NEW run, NEW skip, NEW attended, NEW done
    PROVE  [Turn(x, pc, run, skip, attended) EXCEPT !.attended = done]
             = Turn(x, pc, run, skip, done)
  BY DEF Turn

LEMMA NextForms ==
    ASSUME SchedulerInv, NEW p \in Schedulers, Visits(ticks[p])
    PROVE  TickOK(NextSlot(p)) /\ TickOK(Attended(p)) /\ TickOK(GivenUp(p))
<1>1. PICK x : x = ticks[p]
  OBVIOUS
<1>2. PICK rest : rest = x.run \ {Min(x.run)}
  OBVIOUS
<1>3. PICK done : done = TRUE
  OBVIOUS
<1>4. Visits(x) /\ x.run \in SUBSET Slots /\ x.skip \in SUBSET Slots /\ rest \in SUBSET Slots
  BY <1>1, <1>2 DEF Visits
<1>5. /\ TickOK(Turn(x, "visit", rest, x.skip, x.attended))
      /\ TickOK(Turn(x, "visit", rest, x.skip, done))
      /\ TickOK(Turn(x, "visit", {}, x.skip, x.attended))
  BY <1>4, GoesOn
<1>6. NextSlot(p) = Turn(x, "visit", rest, x.skip, x.attended)
  BY <1>1, <1>2, <1>4, FormRun DEF NextSlot
<1>7. Attended(p) = Turn(x, "visit", rest, x.skip, done)
  <2>1. [NextSlot(p) EXCEPT !.attended = done] = Turn(x, "visit", rest, x.skip, done)
    BY <1>6, FormDone
  <2>2. Attended(p) = [NextSlot(p) EXCEPT !.attended = done]
    BY <1>3, Zenon DEF Attended
  <2> QED
    BY <2>1, <2>2
<1>8. GivenUp(p) = Turn(x, "visit", {}, x.skip, x.attended)
  BY <1>1, <1>4, FormRun DEF GivenUp
<1> QED
  BY <1>5, <1>6, <1>7, <1>8

-----------------------------------------------------------------------------
(* Steps that leave the store, the runs and the workers as they are.       *)

LEMMA Quiet ==
    ASSUME SchedulerInv, NEW p \in Schedulers, NEW x, TickOK(x), Goes(p, x),
           UNCHANGED <<storeVars, workers, records, published>>
    PROVE  Sound(p)
<1>1. ticks' = [ticks EXCEPT ![p] = ticks'[p]] /\ ticks'[p] = x
      /\ ticks' = [q \in Schedulers |-> ticks'[q]]
  BY DEF Goes, SchedulerInv, ShapeOK
<1>2. Grows
  BY DEF Grows, storeVars
<1>3. TickOK(x)'
  BY <1>2, TickKept
<1>4. PlaceOK'
  BY DEF PlaceOK, SchedulerInv, storeVars
<1>5. ShapeOK'
  BY <1>1 DEF ShapeOK, SchedulerInv
<1> QED
  BY <1>1, <1>2, <1>3, <1>4, <1>5 DEF Sound

LEMMA BeginTickSound ==
    ASSUME SchedulerInv, NEW p \in Schedulers, BeginTick(p)
    PROVE  Sound(p)
<1>1. PICK due : due = {t \in Triggers : Due(records[t], now) # NothingDue}
  OBVIOUS
<1>2. PICK x : x = [pc |-> "list", left |-> due, seen |-> [t \in due |-> records[t]],
                    due |-> [t \in due |-> Due(records[t], now)]]
  OBVIOUS
<1>3. ASSUME NEW t \in x.left PROVE Fits(x, t)
  <2>1. t \in due /\ t \in Triggers /\ RecordIs(records[t]) /\ now \in Nat
    BY <1>1, <1>2 DEF SchedulerInv, ShapeOK, StoreTypeOK
  <2>2. x.seen[t] = records[t] /\ x.due[t] = Due(records[t], now)
    BY <1>2, <2>1
  <2> QED
    BY <2>1, <2>2, DueSlots DEF Fits
<1>4. TickOK(x)
  BY <1>2, <1>3 DEF TickOK, Lists
<1>5. Goes(p, x) /\ UNCHANGED <<storeVars, workers, records, published>>
  BY <1>1, <1>2 DEF BeginTick
<1> QED
  BY <1>4, <1>5, Quiet

LEMMA VisitSound ==
    ASSUME SchedulerInv, NEW p \in Schedulers, Visit(p)
    PROVE  Sound(p)
<1>1. PICK x : x = ticks[p]
  OBVIOUS
<1>2. Lists(x)
  BY <1>1, ThisTick, FormOf DEF Visit
<1>3. PICK t \in x.left :
         Goes(p, [pc |-> "visit", left |-> x.left \ {t}, seen |-> x.seen, due |-> x.due,
                  trigger |-> t, run |-> x.due[t].run, skip |-> x.due[t].skip, attended |-> FALSE])
  BY <1>1 DEF Visit
<1>4. PICK y : y = [pc |-> "visit", left |-> x.left \ {t}, seen |-> x.seen, due |-> x.due,
                    trigger |-> t, run |-> x.due[t].run, skip |-> x.due[t].skip, attended |-> FALSE]
  OBVIOUS
<1>5. /\ y.pc = "visit" /\ y.left = x.left \ {t} /\ y.seen = x.seen /\ y.due = x.due
      /\ y.trigger = t /\ y.run = x.due[t].run /\ y.skip = x.due[t].skip /\ y.attended = FALSE
  BY <1>4
<1>6. Visits(y)
  <2>1. Fits(x, t) /\ \A u \in y.left : Fits(x, u)
    BY <1>2, <1>3, <1>5 DEF Lists
  <2>2. Fits(y, t) /\ \A u \in y.left : Fits(y, u)
    BY <1>5, <2>1 DEF Fits
  <2>3. y = [pc |-> y.pc, left |-> y.left, seen |-> y.seen, due |-> y.due,
             trigger |-> y.trigger, run |-> y.run, skip |-> y.skip, attended |-> y.attended]
    BY <1>4, <1>5
  <2> QED
    BY <1>5, <2>1, <2>2, <2>3 DEF Visits, Fits, StageOK
<1>7. Goes(p, y) /\ UNCHANGED <<storeVars, workers, records, published>>
  BY <1>3, <1>4 DEF Visit
<1> QED
  BY <1>6, <1>7, Quiet DEF TickOK
(* Calls of the store.                                                     *)

LEMMA Kept ==
    ASSUME SchedulerInv, [StoreNext]_storeVars, UNCHANGED <<published, records>>,
           \A o \in Occurrences :
              /\ occurrences[o] \in Granted => occurrences'[o] \in Granted
              /\ submissions'[o] = submissions[o]
              /\ jobs'[o].attempt = jobs[o].attempt \/ o \in published,
           workers' \in [Schedulers -> [Jobs -> Numbers]],
           \A q \in Schedulers, j \in Jobs : workers'[q][j] # 0 => j \in published,
           NEW p \in Schedulers, NEW x, ticks' = [ticks EXCEPT ![p] = x], TickOK(x)'
    PROVE  Sound(p)
<1>1. Grows
  BY DEF Grows
<1>2. PlaceOK'
  BY DEF PlaceOK, SchedulerInv
<1>3. /\ ticks' = [ticks EXCEPT ![p] = ticks'[p]] /\ ticks'[p] = x
      /\ ticks' = [q \in Schedulers |-> ticks'[q]]
  BY DEF SchedulerInv, ShapeOK
<1>4. ShapeOK'
  BY <1>3 DEF ShapeOK, SchedulerInv
<1> QED
  BY <1>1, <1>2, <1>3, <1>4 DEF Sound

LEMMA SameWorkers ==
    ASSUME SchedulerInv, workers' = workers
    PROVE  /\ workers' \in [Schedulers -> [Jobs -> Numbers]]
           /\ \A q \in Schedulers, j \in Jobs : workers'[q][j] # 0 => j \in published
  BY DEF SchedulerInv, ShapeOK, PlaceOK

LEMMA Recorded ==
    ASSUME SchedulerInv, NEW o \in Occurrences, NEW state, RecordOccurrence(o, state)
    PROVE  /\ [StoreNext]_storeVars
           /\ \A u \in Occurrences :
                /\ occurrences[u] \in Granted => occurrences'[u] \in Granted
                /\ submissions'[u] = submissions[u] /\ jobs'[u].attempt = jobs[u].attempt
<1>1. StoreNext
  BY DEF RecordOccurrence, StoreNext, LedgerNext
<1>2. \A u \in Occurrences : occurrences[u] \in Granted => occurrences'[u] \in Granted
  BY DEF RecordOccurrence, Granted, SchedulerInv, StoreTypeOK
<1> QED
  BY <1>1, <1>2 DEF RecordOccurrence

LEMMA CancelRecorded ==
    ASSUME SchedulerInv, NEW j \in Jobs, Cancel(j)
    PROVE  /\ [StoreNext]_storeVars
           /\ \A u \in Occurrences :
                /\ occurrences[u] \in Granted => occurrences'[u] \in Granted
                /\ submissions'[u] = submissions[u] /\ jobs'[u].attempt = jobs[u].attempt
<1>1. StoreNext
  BY DEF StoreNext
<1>2. \A u \in Occurrences : jobs'[u].attempt = jobs[u].attempt
  BY ScheduleFacts DEF Cancel, SchedulerInv, StoreTypeOK, JobRecord
<1> QED
  BY <1>1, <1>2 DEF Cancel

LEMMA Admitted ==
    ASSUME SchedulerInv, NEW o \in Occurrences, Admit(o, Budget, Budget)
    PROVE  /\ [StoreNext]_storeVars
           /\ \A u \in Occurrences :
                /\ occurrences[u] \in Granted => occurrences'[u] \in Granted
                /\ submissions'[u] = submissions[u] /\ jobs'[u].attempt = jobs[u].attempt
           /\ occurrences' = [occurrences EXCEPT ![o] = "admitted"]
           /\ occurrences'[o] = "admitted"
<1>1. StoreNext
  BY ScheduleFacts DEF StoreNext, LedgerNext
<1>2. \A u \in Occurrences : occurrences[u] \in Granted => occurrences'[u] \in Granted
  BY DEF Admit, Granted, SchedulerInv, StoreTypeOK
<1>3. \A u \in Occurrences : jobs'[u].attempt = jobs[u].attempt
  <2>1. jobs' = [jobs EXCEPT ![o].state = "accepted"] \/ jobs' = jobs
    BY ScheduleFacts DEF Admit
  <2>2. jobs \in [Jobs -> JobRecord] /\ o \in Jobs /\ Occurrences \subseteq Jobs
    BY ScheduleFacts DEF SchedulerInv, StoreTypeOK
  <2>3. CASE jobs' = [jobs EXCEPT ![o].state = "accepted"]
    BY <2>2, <2>3 DEF JobRecord
  <2> QED
    BY <2>1, <2>3
<1>4. /\ occurrences' = [occurrences EXCEPT ![o] = "admitted"] /\ occurrences'[o] = "admitted"
      /\ submissions' = submissions
  BY DEF Admit, SchedulerInv, StoreTypeOK
<1> QED
  BY <1>1, <1>2, <1>3, <1>4

LEMMA ClaimGranted ==
    ASSUME SchedulerInv, NEW j \in Jobs, Claim(j)
    PROVE  /\ [StoreNext]_storeVars
           /\ occurrences' = occurrences /\ submissions' = submissions
           /\ \A u \in Jobs : u # j => jobs'[u] = jobs[u]
           /\ jobs'[j].attempt \in Numbers
<1>1. StoreNext
  BY DEF StoreNext
<1>2. jobs' \in [Jobs -> JobRecord]
  BY <1>1, TypeStep DEF SchedulerInv, StoreTypeOK
<1> QED
  BY <1>1, <1>2 DEF Claim, SchedulerInv, StoreTypeOK, JobRecord
-----------------------------------------------------------------------------
(* The settling of a slot.                                                 *)

LEMMA PassOverSound ==
    ASSUME SchedulerInv, NEW p \in Schedulers, PassOver(p)
    PROVE  Sound(p)
<1>1. PICK x : x = ticks[p]
  OBVIOUS
<1>2. PICK s : s = Min(x.skip)
  OBVIOUS
<1>3. PICK rest : rest = x.skip \ {s}
  OBVIOUS
<1>4. PICK done : done = TRUE
  OBVIOUS
<1>5. /\ Visits(x) /\ x.pc = "visit" /\ x.skip # {}
      /\ x.run \in SUBSET Slots /\ x.skip \in SUBSET Slots
  BY <1>1, ThisTick, FormOf DEF PassOver, Visits
<1>6. s \in Slots /\ x.trigger \in Triggers /\ <<x.trigger, s>> \in Occurrences
  BY <1>2, <1>5, LeastSlot, ScheduleFacts DEF Visits, Fits
<1>7. /\ TickOK(Turn(x, x.pc, x.run, rest, done))
      /\ TickOK(Turn(x, x.pc, x.run, {}, x.attended))
  BY <1>3, <1>5, GoesOn
<1>8. [x EXCEPT !.skip = @ \ {s}, !.attended = TRUE] = Turn(x, x.pc, x.run, rest, done)
  <2>1. [x EXCEPT !.skip = rest] = Turn(x, x.pc, x.run, rest, x.attended)
    BY <1>5, FormSkip
  <2>2. PICK y : y = [x EXCEPT !.skip = rest]
    OBVIOUS
  <2>3. [y EXCEPT !.attended = done] = Turn(x, x.pc, x.run, rest, done)
    <3>1. PICK pc : pc = x.pc
      OBVIOUS
    <3>2. PICK run : run = x.run
      OBVIOUS
    <3>3. PICK attended : attended = x.attended
      OBVIOUS
    <3>4. y = Turn(x, pc, run, rest, attended)
      BY <2>1, <2>2, <3>1, <3>2, <3>3
    <3>5. [y EXCEPT !.attended = done] = Turn(x, pc, run, rest, done)
      BY <3>4, FormDone
    <3> QED
      BY <3>1, <3>2, <3>5
  <2>4. [x EXCEPT !.skip = @ \ {s}, !.attended = done] = [y EXCEPT !.attended = done]
    BY <1>3, <2>2
  <2> QED
    BY <1>4, <2>3, <2>4
<1>9. [x EXCEPT !.skip = {}] = Turn(x, x.pc, x.run, {}, x.attended)
  BY <1>5, FormSkip
<1>10. UNCHANGED <<workers, records, published>>
  BY DEF PassOver
<1>11. CASE /\ RecordOccurrence(<<x.trigger, s>>, "skipped")
            /\ Goes(p, [x EXCEPT !.skip = @ \ {s}, !.attended = TRUE])
  <2>1. PICK y : y = Turn(x, x.pc, x.run, rest, done)
    OBVIOUS
  <2>2. ticks' = [ticks EXCEPT ![p] = y]
    BY <1>8, <1>11, <2>1 DEF Goes
  <2>3. Grows
    BY <1>6, <1>10, <1>11, Recorded DEF Grows
  <2>4. TickOK(y)'
    BY <1>7, <2>1, <2>3, TickKept
  <2> QED
    BY <1>6, <1>10, <1>11, <2>2, <2>4, Recorded, Kept, SameWorkers
<1>12. CASE UnchangedStore /\ Goes(p, [x EXCEPT !.skip = @ \ {s}, !.attended = TRUE])
  BY <1>7, <1>8, <1>10, <1>12, Quiet DEF UnchangedStore
<1>13. CASE UnchangedStore /\ Goes(p, [x EXCEPT !.skip = {}])
  BY <1>7, <1>9, <1>10, <1>13, Quiet DEF UnchangedStore
<1> QED
  BY <1>1, <1>2, <1>11, <1>12, <1>13 DEF PassOver

LEMMA SettlingForm ==
    ASSUME SchedulerInv, NEW p \in Schedulers, Settling(p) \/ ticks[p].pc = "replace"
    PROVE  /\ Visits(ticks[p]) /\ ticks[p].run # {}
           /\ Current(p) = SlotOf(ticks[p]) /\ Current(p) \in Occurrences
<1>1. Visits(ticks[p])
  BY ThisTick, FormOf DEF Settling
<1>2. ticks[p].run # {}
  BY <1>1 DEF Settling, Visits, StageOK
<1> QED
  BY <1>1, <1>2, SlotIs, ThisTick

LEMMA ObserveSlotSound ==
    ASSUME SchedulerInv, NEW p \in Schedulers, ObserveSlot(p)
    PROVE  Sound(p)
<1>1. PICK x : x = ticks[p]
  OBVIOUS
<1>2. PICK done : done = TRUE
  OBVIOUS
<1>3. /\ Visits(x) /\ x.run # {} /\ Current(p) = SlotOf(x) /\ Current(p) \in Occurrences
      /\ x.run \in SUBSET Slots /\ x.skip \in SUBSET Slots
  BY <1>1, SettlingForm DEF ObserveSlot, Visits
<1>4. UNCHANGED <<storeVars, workers, records, published>>
  BY DEF ObserveSlot
<1>5. CASE /\ occurrences[Current(p)] = "admitted"
           /\ Goes(p, [ticks[p] EXCEPT !.pc = "start", !.attended = TRUE])
  <2>1. PICK y : y = [x EXCEPT !.pc = "start"]
    OBVIOUS
  <2>2. y = Turn(x, "start", x.run, x.skip, x.attended)
    BY <1>3, <2>1, FormPc
  <2>3. [y EXCEPT !.attended = done] = Turn(x, "start", x.run, x.skip, done)
    BY <2>2, FormDone
  <2>4. [x EXCEPT !.pc = "start", !.attended = done] = [y EXCEPT !.attended = done]
    BY <2>1
  <2>5. TickOK(Turn(x, "start", x.run, x.skip, done))
    BY <1>3, <1>5, Turns DEF StageOK, Turn, Granted, SlotOf
  <2>6. Goes(p, Turn(x, "start", x.run, x.skip, done))
    BY <1>1, <1>2, <1>5, <2>3, <2>4
  <2> QED
    BY <1>4, <2>5, <2>6, Quiet
<1>6. CASE Goes(p, Attended(p))
  BY <1>1, <1>3, <1>4, <1>6, NextForms, Quiet
<1> QED
  BY <1>5, <1>6 DEF ObserveSlot

LEMMA SkipSlotSound ==
    ASSUME SchedulerInv, NEW p \in Schedulers, SkipSlot(p) \/ QueueSlot(p)
    PROVE  Sound(p)
<1>1. PICK x : x \in {Attended(p), NextSlot(p)} /\ Goes(p, x)
  BY DEF SkipSlot, QueueSlot
<1>2. Visits(ticks[p]) /\ Current(p) \in Occurrences
  BY SettlingForm DEF SkipSlot, QueueSlot, Undecided
<1>3. TickOK(x)
  BY <1>1, <1>2, NextForms
<1>4. UNCHANGED <<workers, records, published>>
  BY DEF SkipSlot, QueueSlot
<1>5. CASE UnchangedStore
  BY <1>1, <1>3, <1>4, <1>5, Quiet DEF UnchangedStore
<1>6. CASE \E state : RecordOccurrence(Current(p), state)
  <2>1. PICK state : RecordOccurrence(Current(p), state)
    BY <1>6
  <2>2. Grows
    BY <1>2, <1>4, <2>1, Recorded DEF Grows
  <2>3. TickOK(x)'
    BY <1>3, <2>2, TickKept
  <2> QED
    BY <1>1, <1>2, <1>4, <2>1, <2>3, Recorded, Kept, SameWorkers DEF Goes
<1> QED
  BY <1>5, <1>6 DEF SkipSlot, QueueSlot

LEMMA CancelActiveSound ==
    ASSUME SchedulerInv, NEW p \in Schedulers, CancelActive(p)
    PROVE  Sound(p)
<1>1. PICK x : x = ticks[p]
  OBVIOUS
<1>2. /\ Visits(x) /\ x.run # {}
      /\ x.run \in SUBSET Slots /\ x.skip \in SUBSET Slots
  BY <1>1, SettlingForm DEF CancelActive, Undecided, Visits
<1>3. PICK j \in ToCancel(p) : Cancel(j)
  BY DEF CancelActive
<1>4. j \in Jobs
  BY <1>3, ScheduleFacts DEF ToCancel, ActiveJobs
<1>5. PICK y : y = Turn(x, "replace", x.run, x.skip, x.attended)
  OBVIOUS
<1>6. ticks' = [ticks EXCEPT ![p] = y] /\ UNCHANGED <<workers, records, published>>
  BY <1>1, <1>2, <1>5, FormPc DEF CancelActive, Goes
<1>7. Grows
  BY <1>3, <1>4, <1>6, CancelRecorded DEF Grows
<1>8. TickOK(y)'
  BY <1>2, <1>5, <1>7, TurnsNext
<1> QED
  BY <1>3, <1>4, <1>6, <1>8, CancelRecorded, Kept, SameWorkers

LEMMA AdmitSlotSound ==
    ASSUME SchedulerInv, NEW p \in Schedulers, AdmitSlot(p)
    PROVE  Sound(p)
<1>1. PICK x : x = ticks[p]
  OBVIOUS
<1>2. PICK o : o = Current(p)
  OBVIOUS
<1>3. /\ Visits(x) /\ x.run # {} /\ o = SlotOf(x) /\ o \in Occurrences
      /\ x.run \in SUBSET Slots /\ x.skip \in SUBSET Slots
  BY <1>1, <1>2, SettlingForm DEF AdmitSlot, Undecided, Visits
<1>4. Admit(o, Budget, Budget)
  BY <1>2 DEF AdmitSlot
<1>5. PICK y : y = Turn(x, "start", x.run, x.skip, x.attended)
  OBVIOUS
<1>6. ticks' = [ticks EXCEPT ![p] = y] /\ UNCHANGED <<workers, records, published>>
  BY <1>1, <1>3, <1>5, FormPc DEF AdmitSlot, Goes
<1>7. Grows
  BY <1>3, <1>4, <1>6, Admitted DEF Grows
<1>8. TickOK(y)'
  BY <1>3, <1>4, <1>5, <1>7, Admitted, TurnsNext DEF Granted
<1> QED
  BY <1>3, <1>4, <1>6, <1>8, Admitted, Kept, SameWorkers

LEMMA RefusedSound ==
    ASSUME SchedulerInv, NEW p \in Schedulers, Refused(p)
    PROVE  Sound(p)
<1>1. Visits(ticks[p])
  BY SettlingForm DEF Refused, Undecided
<1> QED
  BY <1>1, NextForms, Quiet DEF Refused
-----------------------------------------------------------------------------
(* The start of a job.                                                     *)

LEMMA StartForm ==
    ASSUME SchedulerInv, NEW p \in Schedulers, ticks[p].pc \in {"start", "publish", "claim"}
    PROVE  /\ Visits(ticks[p]) /\ ticks[p].run # {}
           /\ Current(p) = SlotOf(ticks[p]) /\ Current(p) \in Occurrences
           /\ occurrences[Current(p)] \in Granted
           /\ ticks[p].pc \in {"publish", "claim"} => submissions[Current(p)].bound
           /\ ticks[p].pc = "claim" => Current(p) \in published
<1>1. Visits(ticks[p])
  BY ThisTick, FormOf
<1>2. ticks[p].run # {}
  BY <1>1 DEF Visits, StageOK
<1> QED
  BY <1>1, <1>2, SlotIs, ThisTick DEF Visits, StageOK

LEMMA AlreadyRunningSound ==
    ASSUME SchedulerInv, NEW p \in Schedulers, AlreadyRunning(p) \/ StartFails(p)
    PROVE  Sound(p)
<1>1. Visits(ticks[p])
  BY StartForm DEF AlreadyRunning, StartFails
<1>2. PICK x \in {Attended(p), GivenUp(p)} : Goes(p, x)
  BY DEF AlreadyRunning, StartFails
<1>3. UNCHANGED <<storeVars, workers, records, published>>
  BY DEF AlreadyRunning, StartFails
<1> QED
  BY <1>1, <1>2, <1>3, NextForms, Quiet

(* A submission is bound under the occurrence's own key to its own job.    *)
LEMMA BindJobSound ==
    ASSUME SchedulerInv, NEW p \in Schedulers, BindJob(p)
    PROVE  Sound(p)
<1>1. PICK x : x = ticks[p]
  OBVIOUS
<1>2. PICK o : o = Current(p)
  OBVIOUS
<1>3. /\ Visits(x) /\ x.run # {} /\ o = SlotOf(x) /\ o \in Occurrences
      /\ occurrences[o] \in Granted
  BY <1>1, <1>2, StartForm DEF BindJob
<1>4. PICK y : y = Turn(x, "publish", x.run, x.skip, x.attended)
  OBVIOUS
<1>5. ticks' = [ticks EXCEPT ![p] = y] /\ UNCHANGED <<workers, records, published>>
  BY <1>1, <1>3, <1>4, FormPc DEF BindJob, Goes
<1>6. /\ ticks' = [ticks EXCEPT ![p] = ticks'[p]] /\ ticks'[p] = y
      /\ ticks' = [q \in Schedulers |-> ticks'[q]]
  BY <1>5 DEF SchedulerInv, ShapeOK
<1>7. ASSUME NEW d \in Digests, BindSubmission(o, d, o) PROVE Sound(p)
  <2>1. StoreNext
    BY <1>3, <1>7, ScheduleFacts DEF StoreNext
  <2>2. /\ submissions' = [submissions EXCEPT ![o] = Submission(d, o)]
        /\ ~submissions[o].bound /\ occurrences' = occurrences /\ jobs' = jobs
    BY <1>7 DEF BindSubmission
  <2>3. /\ submissions'[o].bound /\ submissions'[o].job = o
        /\ \A u \in Occurrences : u # o => submissions'[u] = submissions[u]
    BY <1>3, <2>2, ScheduleFacts DEF Submission, SchedulerInv, StoreTypeOK
  <2>4. Grows
    BY <1>5, <2>2, <2>3 DEF Grows
  <2>5. TickOK(y)'
    BY <1>3, <1>4, <2>2, <2>3, <2>4, TurnsNext
  <2>6. PlaceOK'
    BY <1>5, <2>2, <2>3 DEF PlaceOK, SchedulerInv
  <2>7. ShapeOK'
    BY <1>5, <1>6 DEF ShapeOK, SchedulerInv
  <2> QED
    BY <1>6, <2>1, <2>4, <2>5, <2>6, <2>7 DEF Sound
<1>8. CASE submissions[o].bound /\ UnchangedStore
  <2>1. Grows
    BY <1>5, <1>8 DEF Grows, UnchangedStore, storeVars
  <2>2. TickOK(y)'
    BY <1>3, <1>4, <1>8, <2>1, TurnsNext DEF UnchangedStore, storeVars
  <2>3. [StoreNext]_storeVars /\ submissions' = submissions /\ jobs' = jobs
        /\ occurrences' = occurrences
    BY <1>8 DEF UnchangedStore, storeVars
  <2> QED
    BY <1>5, <2>2, <2>3, Kept, SameWorkers
<1> QED
  BY <1>2, <1>7, <1>8 DEF BindJob

LEMMA PublishJobSound ==
    ASSUME SchedulerInv, NEW p \in Schedulers, PublishJob(p)
    PROVE  Sound(p)
<1>1. PICK x : x = ticks[p]
  OBVIOUS
<1>2. PICK o : o = Current(p)
  OBVIOUS
<1>3. /\ Visits(x) /\ x.run # {} /\ o = SlotOf(x) /\ o \in Occurrences
      /\ occurrences[o] \in Granted /\ submissions[o].bound
  BY <1>1, <1>2, StartForm DEF PublishJob
<1>4. PICK y : y = Turn(x, "claim", x.run, x.skip, x.attended)
  OBVIOUS
<1>5. /\ ticks' = [ticks EXCEPT ![p] = y] /\ published' = published \cup {o}
      /\ UNCHANGED <<storeVars, workers, records>>
  BY <1>1, <1>2, <1>3, <1>4, FormPc DEF PublishJob, Goes
<1>6. /\ ticks' = [ticks EXCEPT ![p] = ticks'[p]] /\ ticks'[p] = y
      /\ ticks' = [q \in Schedulers |-> ticks'[q]]
  BY <1>5 DEF SchedulerInv, ShapeOK
<1>7. submissions' = submissions /\ jobs' = jobs /\ occurrences' = occurrences
  BY <1>5 DEF storeVars
<1>8. Grows
  BY <1>5, <1>7 DEF Grows
<1>9. TickOK(y)'
  BY <1>3, <1>4, <1>5, <1>7, <1>8, TurnsNext
<1>10. PlaceOK'
  BY <1>3, <1>5, <1>7 DEF PlaceOK, SchedulerInv
<1>11. ShapeOK'
  BY <1>5, <1>6 DEF ShapeOK, SchedulerInv
<1> QED
  BY <1>5, <1>6, <1>8, <1>9, <1>10, <1>11 DEF Sound

(* A claim of a published job, with or without a worker for it.            *)
LEMMA ClaimSound ==
    ASSUME SchedulerInv, NEW p \in Schedulers, NEW j \in published, Claim(j),
           NEW x, TickOK(x), ticks' = [ticks EXCEPT ![p] = x], UNCHANGED <<published, records>>,
           Employ(p, j) \/ workers' = workers \/ workers' = [workers EXCEPT ![p] = [i \in Jobs |-> 0]]
    PROVE  Sound(p)
<1>1. j \in Jobs /\ published \subseteq Jobs
  BY ScheduleFacts DEF SchedulerInv, PlaceOK
<1>2. \A o \in Occurrences :
         /\ occurrences[o] \in Granted => occurrences'[o] \in Granted
         /\ submissions'[o] = submissions[o]
         /\ jobs'[o].attempt = jobs[o].attempt \/ o \in published
  BY <1>1, ClaimGranted, ScheduleFacts
<1>3. Grows
  BY <1>2 DEF Grows
<1>4. TickOK(x)'
  BY <1>3, TickKept
<1>5. 0 \in Numbers /\ jobs'[j].attempt \in Numbers
  BY <1>1, ClaimGranted, NumberAssumption DEF Numbers
<1>6. /\ workers' \in [Schedulers -> [Jobs -> Numbers]]
      /\ \A q \in Schedulers, i \in Jobs : workers'[q][i] # 0 => i \in published
  <2>1. /\ workers \in [Schedulers -> [Jobs -> Numbers]]
        /\ \A q \in Schedulers, i \in Jobs : workers[q][i] # 0 => i \in published
    BY DEF SchedulerInv, ShapeOK, PlaceOK
  <2>2. CASE Employ(p, j)
    <3>1. PICK n \in Numbers : n = jobs'[j].attempt
      BY <1>5
    <3>2. workers' = [workers EXCEPT ![p][j] = n]
      BY <2>2, <3>1 DEF Employ
    <3> QED
      BY <1>1, <2>1, <3>2
  <2>3. CASE workers' = [workers EXCEPT ![p] = [i \in Jobs |-> 0]]
    BY <1>5, <2>1, <2>3
  <2> QED
    BY <2>1, <2>2, <2>3
<1> QED
  BY <1>1, <1>2, <1>4, <1>6, ClaimGranted, Kept

LEMMA ClaimJobSound ==
    ASSUME SchedulerInv, NEW p \in Schedulers, ClaimJob(p)
    PROVE  Sound(p)
<1>1. Visits(ticks[p]) /\ Current(p) \in published
  BY StartForm DEF ClaimJob
<1>2. PICK x \in {Attended(p), GivenUp(p)} : Goes(p, x)
  BY DEF ClaimJob
<1>3. TickOK(x)
  BY <1>1, <1>2, NextForms
<1> QED
  BY <1>1, <1>2, <1>3, ClaimSound DEF ClaimJob, Goes
-----------------------------------------------------------------------------
(* The record of a firing, and processes that come and go.                 *)

LEMMA NextTriggerForm ==
    ASSUME SchedulerInv, NEW p \in Schedulers, Decided(p), NextTrigger(p)
    PROVE  \E x : TickOK(x) /\ Goes(p, x)
<1>1. PICK x : x = ticks[p]
  OBVIOUS
<1>2. Visits(x)
  BY <1>1, ThisTick, FormOf DEF Decided
<1>3. PICK y : y = [pc |-> "list", left |-> x.left, seen |-> x.seen, due |-> x.due]
  OBVIOUS
<1>4. y.left = x.left /\ y.seen = x.seen /\ y.due = x.due
  BY <1>3
<1>5. Lists(y)
  BY <1>2, <1>3, <1>4 DEF Lists, Visits, Fits
<1>6. Goes(p, Idle) \/ Goes(p, y)
  BY <1>1, <1>3 DEF NextTrigger
<1> QED
  BY <1>5, <1>6 DEF TickOK

LEMMA LeaveRecordSound ==
    ASSUME SchedulerInv, NEW p \in Schedulers, LeaveRecord(p)
    PROVE  Sound(p)
  BY NextTriggerForm, Quiet DEF LeaveRecord

(* The record written back has the overlap policy it was listed with.      *)
LEMMA RecordFiringSound ==
    ASSUME SchedulerInv, NEW p \in Schedulers, RecordFiring(p)
    PROVE  Sound(p)
<1>1. PICK x : x = ticks[p]
  OBVIOUS
<1>2. PICK t : t = x.trigger
  OBVIOUS
<1>3. Visits(x) /\ Fits(x, t)
  BY <1>1, <1>2, ThisTick, FormOf DEF RecordFiring, Decided, Visits
<1>4. PICK r, c : /\ r = [x.seen[t] EXCEPT !.cursor = c]
                  /\ records' = [records EXCEPT ![t] = r]
  BY <1>1, <1>2 DEF RecordFiring
<1>5. RecordIs(r) /\ r.overlap = records[t].overlap
  <2>1. PICK a, b, d : x.seen[t] = [cursor |-> a, overlap |-> b, onMissed |-> d]
    BY <1>3 DEF Fits, RecordIs
  <2>2. r = [cursor |-> c, overlap |-> b, onMissed |-> d]
    BY <1>4, <2>1
  <2> QED
    BY <1>3, <2>1, <2>2 DEF RecordIs, Fits
<1>6. /\ records' = [u \in Triggers |-> records'[u]]
      /\ \A u \in Triggers : RecordIs(records'[u]) /\ records'[u].overlap = records[u].overlap
  BY <1>3, <1>4, <1>5 DEF SchedulerInv, ShapeOK, Fits
<1>7. PICK y : TickOK(y) /\ Goes(p, y)
  BY NextTriggerForm DEF RecordFiring
<1>8. UNCHANGED <<storeVars, workers, published>>
  BY DEF RecordFiring
<1>9. [StoreNext]_storeVars /\ submissions' = submissions /\ jobs' = jobs
      /\ occurrences' = occurrences
  BY <1>8 DEF storeVars
<1>10. Grows
  BY <1>6, <1>8, <1>9 DEF Grows
<1>11. TickOK(y)'
  BY <1>7, <1>10, TickKept
<1>12. /\ ticks' = [ticks EXCEPT ![p] = ticks'[p]] /\ ticks'[p] = y
       /\ ticks' = [q \in Schedulers |-> ticks'[q]]
  BY <1>7 DEF Goes, SchedulerInv, ShapeOK
<1>13. PlaceOK'
  BY <1>8, <1>9 DEF PlaceOK, SchedulerInv
<1>14. ShapeOK'
  BY <1>6, <1>8, <1>12 DEF ShapeOK, SchedulerInv, RecordIs
<1> QED
  BY <1>9, <1>10, <1>11, <1>12, <1>13, <1>14 DEF Sound

LEMMA ResumingForm ==
    ASSUME NEW p \in Schedulers, NEW left, left \subseteq published, Resuming(p, left)
    PROVE  \E x : TickOK(x) /\ Goes(p, x)
<1>1. PICK y : y = [pc |-> "recover", left |-> left]
  OBVIOUS
<1>2. TickOK(y)
  BY <1>1 DEF TickOK
<1>3. TickOK(Idle)
  BY DEF TickOK
<1> QED
  BY <1>1, <1>2, <1>3 DEF Resuming

LEMMA BootSound ==
    ASSUME SchedulerInv, NEW p \in Schedulers, Boot(p)
    PROVE  Sound(p)
<1>1. PICK left : left = {j \in Jobs : Recoverable(j)}
  OBVIOUS
<1>2. left \subseteq published /\ Resuming(p, left)
  BY <1>1 DEF Recoverable, Boot
<1> QED
  BY <1>2, ResumingForm, Quiet DEF Boot

LEMMA ResumeSound ==
    ASSUME SchedulerInv, NEW p \in Schedulers, Resume(p)
    PROVE  Sound(p)
<1>1. PICK x : x = ticks[p]
  OBVIOUS
<1>2. x.left \subseteq published
  BY <1>1, ThisTick, FormOf DEF Resume
<1>3. PICK j \in x.left :
         /\ Resuming(p, x.left \ {j})
         /\ \/ Claim(j) /\ Employ(p, j)
            \/ UnchangedStore /\ UNCHANGED workers
  BY <1>1 DEF Resume
<1>4. PICK left : left = x.left \ {j}
  OBVIOUS
<1>5. PICK y : TickOK(y) /\ Goes(p, y)
  BY <1>2, <1>3, <1>4, ResumingForm
<1>6. UNCHANGED <<records, published>>
  BY DEF Resume
<1>7. CASE Claim(j) /\ Employ(p, j)
  BY <1>2, <1>3, <1>5, <1>6, <1>7, ClaimSound DEF Goes
<1>8. CASE UnchangedStore /\ UNCHANGED workers
  BY <1>5, <1>6, <1>8, Quiet DEF UnchangedStore
<1> QED
  BY <1>3, <1>7, <1>8

LEMMA RecoveryFailsSound ==
    ASSUME SchedulerInv, NEW p \in Schedulers, RecoveryFails(p)
    PROVE  Sound(p)
<1>1. ticks[p].left \subseteq published
  BY ThisTick, FormOf DEF RecoveryFails
<1>2. PICK j \in published : Claim(j)
  BY <1>1 DEF RecoveryFails
<1>3. TickOK(Down)
  BY DEF TickOK
<1>4. /\ ticks' = [ticks EXCEPT ![p] = Down] /\ UNCHANGED <<records, published>>
      /\ workers' = [workers EXCEPT ![p] = [i \in Jobs |-> 0]]
  BY DEF RecoveryFails, Goes
<1> QED
  BY <1>2, <1>3, <1>4, ClaimSound

LEMMA CrashSound ==
    ASSUME SchedulerInv, NEW p \in Schedulers, Crash(p)
    PROVE  Sound(p)
<1>1. /\ ticks' = [ticks EXCEPT ![p] = Down] /\ UNCHANGED <<storeVars, records, published>>
      /\ workers' = [workers EXCEPT ![p] = [i \in Jobs |-> 0]]
  BY DEF Crash, Goes
<1>2. [StoreNext]_storeVars /\ submissions' = submissions /\ jobs' = jobs
      /\ occurrences' = occurrences
  BY <1>1 DEF storeVars
<1>3. TickOK(Down)'
  BY DEF TickOK
<1>4. 0 \in Numbers
  BY NumberAssumption DEF Numbers
<1>5. /\ workers' \in [Schedulers -> [Jobs -> Numbers]]
      /\ \A q \in Schedulers, j \in Jobs : workers'[q][j] # 0 => j \in published
  BY <1>1, <1>4 DEF SchedulerInv, ShapeOK, PlaceOK
<1> QED
  BY <1>1, <1>2, <1>3, <1>5, Kept

-----------------------------------------------------------------------------
(* Workers, the clock, and whoever else uses the store.                    *)

LEMMA WorkerSound ==
    ASSUME SchedulerInv, NEW p \in Schedulers, NEW j \in Jobs, WorkerNext(p, j)
    PROVE  Sound(p)
<1>1. PICK n : n = workers[p][j]
  OBVIOUS
<1>2. j \in published /\ j \in Occurrences /\ n \in Numbers
  BY <1>1 DEF WorkerNext, WorkerHeartbeat, WorkerStops, WorkerFinishes, SchedulerInv, ShapeOK, PlaceOK
<1>3. UNCHANGED <<ticks, records, published>>
  BY DEF WorkerNext, WorkerHeartbeat, WorkerStops, WorkerFinishes
<1>4. /\ [StoreNext]_storeVars
      /\ \A o \in Occurrences :
            /\ occurrences[o] \in Granted => occurrences'[o] \in Granted
            /\ submissions'[o] = submissions[o]
            /\ jobs'[o].attempt = jobs[o].attempt \/ o \in published
  <2>1. CASE Heartbeat(j, n, n)
    BY <1>2, <2>1 DEF Heartbeat, StoreNext, FencedNext
  <2>2. CASE UNCHANGED storeVars
    BY <2>2 DEF storeVars
  <2>3. CASE Finalize(j, n, n)
    <3>1. StoreNext
      BY <1>2, <2>3 DEF StoreNext, LedgerNext
    <3>2. PICK outcome, final :
             /\ final \in Granted
             /\ jobs' = [jobs EXCEPT ![JobFor[j]].state = outcome]
             /\ occurrences' = [occurrences EXCEPT ![j] = final]
      BY <2>3 DEF Finalize, Completed, FinalStates, Granted
    <3>4. submissions' = submissions
      BY <2>3 DEF Finalize
    <3>5. \A o \in Occurrences : jobs'[o].attempt = jobs[o].attempt
      BY <1>2, <3>2, ScheduleFacts DEF SchedulerInv, StoreTypeOK, JobRecord
    <3> QED
      BY <1>2, <3>1, <3>2, <3>4, <3>5 DEF SchedulerInv, StoreTypeOK
  <2> QED
    BY <1>1, <2>1, <2>2, <2>3 DEF WorkerNext, WorkerHeartbeat, WorkerStops, WorkerFinishes
<1>5. 0 \in Numbers
  BY NumberAssumption DEF Numbers
<1>6. workers' = workers \/ workers' = [workers EXCEPT ![p][j] = 0]
  BY DEF WorkerNext, WorkerHeartbeat, WorkerStops, WorkerFinishes
<1>7. /\ workers' \in [Schedulers -> [Jobs -> Numbers]]
      /\ \A q \in Schedulers, i \in Jobs : workers'[q][i] # 0 => i \in published
  <2>1. /\ workers \in [Schedulers -> [Jobs -> Numbers]]
        /\ \A q \in Schedulers, i \in Jobs : workers[q][i] # 0 => i \in published
    BY DEF SchedulerInv, ShapeOK, PlaceOK
  <2>2. CASE workers' = [workers EXCEPT ![p][j] = 0]
    BY <1>5, <2>1, <2>2
  <2> QED
    BY <1>6, <2>1, <2>2
<1>8. PICK x : x = ticks[p]
  OBVIOUS
<1>9. TickOK(x)'
  <2>1. Grows
    BY <1>3, <1>4 DEF Grows
  <2> QED
    BY <1>8, <2>1, ThisTick, TickKept
<1>10. ticks' = [ticks EXCEPT ![p] = x]
  BY <1>3, <1>8 DEF SchedulerInv, ShapeOK
<1> QED
  BY <1>3, <1>4, <1>7, <1>9, <1>10, Kept

LEMMA WorldStep ==
    ASSUME SchedulerInv, OtherCommit \/ TimePasses \/ UNCHANGED schedulerVars
    PROVE  [StoreNext]_storeVars /\ Grows /\ SchedulerInv'
<1>1. [StoreNext]_storeVars
  BY DEF OtherCommit, TimePasses, StoreNext, schedulerVars
<1>2. /\ UNCHANGED <<ticks, workers, records, published>>
      /\ occurrences' = occurrences /\ submissions' = submissions /\ jobs' = jobs
  BY DEF OtherCommit, TimePasses, Tick, schedulerVars, storeVars
<1>3. Grows
  BY <1>2 DEF Grows
<1>4. StoreTypeOK'
  BY <1>1, TypeStep DEF SchedulerInv
<1>5. PassOK'
  BY <1>2, <1>3, TickKept DEF PassOK, SchedulerInv
<1> QED
  BY <1>1, <1>2, <1>3, <1>4, <1>5 DEF SchedulerInv, ShapeOK, PlaceOK
-----------------------------------------------------------------------------
LEMMA SchedulerInvInit == SchedulerInit => SchedulerInv
<1> SUFFICES ASSUME SchedulerInit PROVE SchedulerInv
  OBVIOUS
<1>1. StoreTypeOK
  BY TypeInit DEF SchedulerInit
<1>2. 0 \in Numbers
  BY NumberAssumption DEF Numbers
<1>3. \A t \in Triggers : RecordIs(records[t])
  BY DEF SchedulerInit, RecordIs
<1>4. ShapeOK
  BY <1>2, <1>3 DEF ShapeOK, SchedulerInit
<1>5. PassOK
  BY DEF PassOK, TickOK, SchedulerInit
<1>6. \A o \in Occurrences : ~submissions[o].bound /\ jobs[o].attempt = 0
  BY ScheduleFacts DEF SchedulerInit, StoreInit, NoSubmission
<1>7. PlaceOK
  BY <1>6 DEF PlaceOK, SchedulerInit
<1> QED
  BY <1>1, <1>4, <1>5, <1>7 DEF SchedulerInv

(* One step of any process, worker or other user of the store.             *)
LEMMA SchedulerStep ==
    ASSUME SchedulerInv, [SchedulerNext]_schedulerVars
    PROVE  [StoreNext]_storeVars /\ Grows /\ SchedulerInv'
<1>1. ASSUME NEW p \in Schedulers, PassNext(p) PROVE Sound(p)
  BY <1>1, BeginTickSound, VisitSound, PassOverSound, ObserveSlotSound, SkipSlotSound,
     CancelActiveSound, AdmitSlotSound, RefusedSound, AlreadyRunningSound, BindJobSound,
     PublishJobSound, ClaimJobSound, RecordFiringSound, LeaveRecordSound DEF PassNext
<1>2. ASSUME NEW p \in Schedulers, ProcessNext(p) PROVE Sound(p)
  BY <1>2, BootSound, ResumeSound, RecoveryFailsSound, CrashSound DEF ProcessNext
<1>3. CASE OtherCommit \/ TimePasses \/ UNCHANGED schedulerVars
  BY <1>3, WorldStep
<1>4. CASE \E p \in Schedulers : Sound(p)
  <2>1. PICK p \in Schedulers : Sound(p)
    BY <1>4
  <2> QED
    BY <2>1, SoundKeeps DEF Sound
<1> QED
  BY <1>1, <1>2, <1>3, <1>4, WorkerSound DEF SchedulerNext

(* The schedulers keep to the interface of the store: whatever they do is  *)
(* a behaviour of the coordination store, so what is proved about the      *)
(* store for every caller holds for them (tickDurable, startRun, the       *)
(* resident worker).                                                       *)
THEOREM SchedulersUseTheStore == SchedulerSpec => StoreSpec
<1>1. SchedulerInit => SchedulerInv /\ StoreInit
  BY SchedulerInvInit DEF SchedulerInit
<1>2. SchedulerInv /\ [SchedulerNext]_schedulerVars => SchedulerInv' /\ [StoreNext]_storeVars
  BY SchedulerStep
<1> QED
  BY <1>1, <1>2, PTL DEF SchedulerSpec, StoreSpec

LEMMA SchedulerInvariant == SchedulerSpec => []SchedulerInv
<1>1. SchedulerInv /\ [SchedulerNext]_schedulerVars => SchedulerInv'
  BY SchedulerStep
<1> QED
  BY <1>1, SchedulerInvInit, PTL DEF SchedulerSpec

(* A job is claimed only once its run is there to be driven, whichever     *)
(* process died between the steps that lead there (startRun,               *)
(* RecoverAccepted).                                                       *)
THEOREM ClaimedRunsAreThere == SchedulerSpec => []ClaimedRunsExist
<1>1. SchedulerInv => ClaimedRunsExist
  BY DEF SchedulerInv, PlaceOK, ClaimedRunsExist, Granted
<1> QED
  BY <1>1, SchedulerInvariant, PTL

-----------------------------------------------------------------------------
(* Overlap.                                                                *)

LEMMA IntentStays ==
    ASSUME StoreTypeOK, [StoreNext]_storeVars, NEW i \in Jobs, jobs[i].cancelled
    PROVE  jobs'[i].cancelled
<1>1. CASE UNCHANGED storeVars
  BY <1>1 DEF storeVars
<1>2. jobs \in [Jobs -> JobRecord]
  BY DEF StoreTypeOK
<1>3. CASE jobs' = jobs
  BY <1>3
<1>4. ASSUME NEW j, NEW state, jobs' = [jobs EXCEPT ![j].state = state]
      PROVE  jobs'[i].cancelled
  BY <1>2, <1>4 DEF JobRecord
<1>5. ASSUME NEW j \in Jobs, Claim(j) PROVE jobs'[i].cancelled
  BY <1>2, <1>5 DEF Claim, JobRecord
<1>6. ASSUME NEW j \in Jobs, Cancel(j) PROVE jobs'[i].cancelled
  BY <1>2, <1>6 DEF Cancel, JobRecord
<1>7. ASSUME NEW o \in Occurrences, NEW ceiling, NEW reserved, Admit(o, ceiling, reserved)
      PROVE  jobs'[i].cancelled
  BY <1>4, <1>7 DEF Admit
<1>8. ASSUME NEW j \in Jobs, RegisterJob(j) PROVE jobs'[i].cancelled
  BY <1>4, <1>8 DEF RegisterJob
<1>9. ASSUME NEW j, NEW n, NEW outcome, Completed(j, n, outcome) PROVE jobs'[i].cancelled
  BY <1>4, <1>9 DEF Completed
<1>10. ASSUME NEW o \in Occurrences, NEW n, NEW f, Finalize(o, n, f) PROVE jobs'[i].cancelled
  BY <1>9, <1>10 DEF Finalize
<1>11. ASSUME NEW j \in Jobs, NEW n, NEW f, NEW outcome, Complete(j, n, f, outcome)
       PROVE  jobs'[i].cancelled
  BY <1>9, <1>11 DEF Complete
<1>12. ASSUME \/ \E j \in Jobs, n, f \in Numbers : Heartbeat(j, n, f)
              \/ \E j \in Jobs, n, f \in Numbers, revision, cursor \in Progress :
                    Checkpoint(j, n, f, revision, cursor)
              \/ \E k \in Keys, j \in Jobs, n, f \in Numbers, class \in WorkClasses :
                    RegisterDispatch(k, j, n, f, class)
              \/ \E k \in Keys, j \in Jobs, n, f \in Numbers, status \in Outcomes :
                    RecordReceipt(k, j, n, f, status)
              \/ \E o \in Occurrences, state \in {"pending", "skipped"} :
                    RecordOccurrence(o, state)
              \/ \E o \in Occurrences, n, f \in Numbers : Settle(o, n, f)
              \/ \E k \in SubmissionKeys, d \in Digests, j \in Jobs : BindSubmission(k, d, j)
              \/ Tick
       PROVE  jobs' = jobs
  BY <1>12 DEF Heartbeat, Checkpoint, RegisterDispatch, RecordReceipt, RecordOccurrence,
               Settle, BindSubmission, Tick
<1> QED
  BY <1>1, <1>3, <1>5, <1>6, <1>7, <1>8, <1>10, <1>11, <1>12, StepCases

(* Nothing but an admission makes an occurrence admitted.                  *)
LEMMA OnlyAdmitSlotAdmits ==
    ASSUME SchedulerInv, [SchedulerNext]_schedulerVars,
           ~ \E p \in Schedulers : AdmitSlot(p),
           NEW o \in Occurrences, occurrences'[o] = "admitted"
    PROVE  occurrences[o] = "admitted"
<1>t. occurrences \in [Occurrences -> OccurrenceStates]
  BY DEF SchedulerInv, StoreTypeOK
<1>1. ASSUME NEW u, NEW state, RecordOccurrence(u, state) PROVE occurrences[o] = "admitted"
  BY <1>t, <1>1 DEF RecordOccurrence
<1>2. CASE occurrences' = occurrences
  BY <1>2
<1>3. ASSUME NEW p \in Schedulers, PassNext(p)
      PROVE  occurrences' = occurrences \/ \E u, state : RecordOccurrence(u, state)
  BY <1>3 DEF PassNext, BeginTick, Visit, PassOver, ObserveSlot, SkipSlot, QueueSlot, CancelActive,
       Refused, AlreadyRunning, BindJob, PublishJob, ClaimJob, StartFails, RecordFiring,
       LeaveRecord, UnchangedStore, storeVars, Cancel, BindSubmission, Claim
<1>4. ASSUME NEW p \in Schedulers, ProcessNext(p) PROVE occurrences' = occurrences
  BY <1>4 DEF ProcessNext, Boot, Resume, RecoveryFails, Crash, UnchangedStore, storeVars, Claim
<1>5. ASSUME NEW p \in Schedulers, NEW j \in Jobs, WorkerNext(p, j) PROVE occurrences[o] = "admitted"
  <2>1. CASE occurrences' = occurrences
    BY <2>1
  <2>2. CASE Finalize(j, workers[p][j], workers[p][j])
    BY <1>t, <2>2 DEF Finalize
  <2> QED
    BY <1>5, <2>1, <2>2 DEF WorkerNext, WorkerHeartbeat, WorkerStops, WorkerFinishes, Heartbeat, storeVars
<1>6. CASE OtherCommit \/ TimePasses \/ UNCHANGED schedulerVars
  BY <1>6 DEF OtherCommit, TimePasses, Tick, schedulerVars, storeVars
<1> QED
  BY <1>1, <1>2, <1>3, <1>4, <1>5, <1>6 DEF SchedulerNext

LEMMA OverlapStep ==
    ASSUME SchedulerInv, LeaseInv, OverlapIsAsDeclared, [SchedulerNext]_schedulerVars
    PROVE  OverlapIsAsDeclared'
<1>0. StoreTypeOK /\ [StoreNext]_storeVars /\ Grows
  BY SchedulerStep DEF SchedulerInv
<1>1. \A j \in Jobs : /\ jobs[j].state \in JobTerminal => jobs'[j].state \in JobTerminal
                      /\ jobs[j].cancelled => jobs'[j].cancelled
  BY <1>0, JobStep, IntentStays DEF JobStays
<1>2. \A t \in Triggers : records'[t].overlap = records[t].overlap
  BY <1>0 DEF Grows
<1> SUFFICES ASSUME NEW t \in Triggers, NEW o \in Running(t)', NEW u \in Running(t)', o # u
             PROVE  \/ records'[t].overlap = "parallel"
                    \/ /\ records'[t].overlap = "cancel-previous"
                       /\ jobs'[o].cancelled \/ jobs'[u].cancelled
  BY DEF OverlapIsAsDeclared
<1>3. /\ o \in Jobs /\ u \in Jobs /\ o \in Occurrences /\ u \in Occurrences
      /\ o[1] = t /\ u[1] = t
      /\ jobs[o].state \notin JobTerminal /\ jobs[u].state \notin JobTerminal
      /\ occurrences'[o] = "admitted" /\ occurrences'[u] = "admitted"
  BY <1>1, ScheduleFacts DEF Running
<1>4. CASE occurrences[o] = "admitted" /\ occurrences[u] = "admitted"
  <2>1. o \in Running(t) /\ u \in Running(t)
    BY <1>3, <1>4 DEF Running
  <2> QED
    BY <1>1, <1>2, <1>3, <2>1 DEF OverlapIsAsDeclared
<1>5. ASSUME NEW p \in Schedulers, AdmitSlot(p)
      PROVE  \A x, y \in {o, u} : x # y /\ occurrences[x] # "admitted" =>
                \/ records[t].overlap = "parallel"
                \/ records[t].overlap = "cancel-previous" /\ jobs[y].cancelled
  <2> SUFFICES ASSUME NEW x \in {o, u}, NEW y \in {o, u}, x # y, occurrences[x] # "admitted"
               PROVE  \/ records[t].overlap = "parallel"
                      \/ records[t].overlap = "cancel-previous" /\ jobs[y].cancelled
    OBVIOUS
  <2>1. /\ Visits(ticks[p]) /\ Current(p) \in Occurrences /\ Current(p)[1] = ticks[p].trigger
        /\ occurrences' = [occurrences EXCEPT ![Current(p)] = "admitted"]
    BY <1>5, SettlingForm, Admitted DEF AdmitSlot, Undecided, Current
  <2>2. x = Current(p) /\ y # Current(p) /\ occurrences[y] = "admitted"
    BY <1>3, <2>1 DEF SchedulerInv, StoreTypeOK
  <2>3. ticks[p].trigger = t /\ PolicyOf(p) = records[t].overlap
    BY <1>3, <2>1, <2>2 DEF Visits, Fits, PolicyOf
  <2>4. y \in ActiveJobs(p, ticks[p].trigger)
    BY <1>3, <2>2, <2>3 DEF ActiveJobs
  <2>5. PolicyOf(p) \in {"parallel", "cancel-previous"} /\ ToCancel(p) = {}
    BY <1>5, <2>4 DEF AdmitSlot, Busy
  <2> QED
    BY <2>3, <2>4, <2>5 DEF ToCancel
<1> QED
  BY <1>1, <1>2, <1>3, <1>4, <1>5, OnlyAdmitSlotAdmits

(* The overlap a trigger declares is kept by any number of processes,      *)
(* whichever of them die: what one of them admits is judged by the store,  *)
(* and by the policy its record still has (admitSlot, activeJobs).         *)
THEOREM OverlapsAreAsDeclared == SchedulerSpec => []OverlapIsAsDeclared
<1>1. SchedulerInit => OverlapIsAsDeclared
  BY DEF SchedulerInit, StoreInit, OverlapIsAsDeclared, Running
<1>2. SchedulerSpec => []LeaseInv
  BY SchedulersUseTheStore, LeaseInvariant, PTL
<1>3. /\ SchedulerInv /\ LeaseInv /\ OverlapIsAsDeclared /\ [SchedulerNext]_schedulerVars
      => OverlapIsAsDeclared'
  BY OverlapStep
<1> QED
  BY <1>1, <1>2, <1>3, SchedulerInvariant, PTL DEF SchedulerSpec
=============================================================================
