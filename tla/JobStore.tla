------------------------------ MODULE JobStore ------------------------------
(***************************************************************************)
(* The coordination store of arxi (internal/jobstore with the validation   *)
(* rules of internal/job): the journal-backed record of every job, its     *)
(* attempts and leases, the scheduled occurrences, the budget ledger and   *)
(* the registrations and receipts of external dispatches.                  *)
(*                                                                         *)
(* Every mutation of the store runs inside one advisory-lock transaction   *)
(* and publishes all of its records or none (File.transaction, File.commit,*)
(* Memory.commit), so one call is one action.  An action is enabled        *)
(* exactly when the call commits at least one record; a refused call and   *)
(* an idempotent repeat leave the state alone and are the stuttering steps.*)
(* Callers are arbitrary here: any argument a caller can pass is passed.   *)
(*                                                                         *)
(* Abstractions.  An attempt's identity hashes (job, number), so an attempt*)
(* is its number.  A scheduled job, its reservation and its ledger window  *)
(* are functions of the occurrence (ScheduledJobIdentity, the              *)
(* "reservation-" prefix, ledgerWindow).  Instants are ticks of the one    *)
(* injected clock; amounts are naturals in one unit.  The owner, the       *)
(* claim instant, actors and reasons are data no guard reads.  Revisions   *)
(* matter to the callers that compare them and live in the modules of the  *)
(* callers.                                                                *)
(*                                                                         *)
(* An operator named Op_Defect is operator Op with a bug such code could   *)
(* have.  No action uses it: it is there to show that a property would     *)
(* notice the bug.                                                         *)
(***************************************************************************)
EXTENDS Integers, FiniteSets, FiniteSetsExt

CONSTANTS
    Jobs,           \* job identities
    Occurrences,    \* occurrence identities (trigger, nominal slot)
    Windows,        \* ledger windows (trigger, period, start)
    Keys,           \* dispatch keys
    SubmissionKeys, \* caller idempotency keys
    Digests,        \* request digests
    JobFor,         \* occurrence -> the job its identity names
    WindowOf,       \* occurrence -> the window its nominal slot falls in
    Amounts,        \* amounts a caller may reserve or settle
    Ceilings,       \* ceilings a trigger may be configured with
    Lease,          \* lease duration, in ticks
    MaxAttempts,    \* bound: claims granted per job
    MaxProgress,    \* bound: run revision and cursor a checkpoint may carry
    MaxNow          \* bound: the last instant of the clock

ASSUME BindingAssumption ==
    /\ JobFor \in [Occurrences -> Jobs]
    /\ \A o, p \in Occurrences : JobFor[o] = JobFor[p] => o = p
    /\ WindowOf \in [Occurrences -> Windows]

ASSUME NumberAssumption ==
    /\ Amounts \subseteq Nat /\ 0 \in Amounts
    /\ Ceilings \subseteq Nat \ {0}
    /\ Lease \in Nat \ {0}
    /\ MaxAttempts \in Nat \ {0}
    /\ MaxProgress \in Nat
    /\ MaxNow \in Nat

VARIABLES
    now,            \* the store's clock
    jobs,           \* job -> state, current attempt and fence, cancellation intent
    attempts,       \* job -> attempt number -> fence and state
    claims,         \* job -> the last granted lease
    checkpoints,    \* job -> the last confirmed progress
    occurrences,    \* occurrence -> state
    reservations,   \* occurrence -> the reservation its admission took
    ceilings,       \* window -> the ceiling of its ledger, 0 before the first entry
    dispatches,     \* key -> the prepared dispatch bound to it
    receipts,       \* key -> the receipt recorded for it
    submissions     \* idempotency key -> the submission bound to it

leaseVars   == <<jobs, attempts, claims>>
ledgerVars  == <<occurrences, reservations, ceilings>>
dispatchVars == <<dispatches, receipts>>
storeVars == <<now, leaseVars, checkpoints, ledgerVars, dispatchVars, submissions>>

Outcomes      == {"succeeded", "failed", "cancelled", "unknown"}
JobTerminal   == Outcomes
AttemptTerminal == Outcomes \cup {"expired"}
JobStates     == {"none", "accepted", "running"} \cup JobTerminal
AttemptStates == {"none", "running"} \cup AttemptTerminal
OccurrenceStates == {"none", "pending", "admitted", "skipped", "completed", "unknown"}
WorkClasses   == {"idempotent", "non_idempotent"}

Numbers  == 0 .. MaxAttempts
Progress == 0 .. MaxProgress

NoAttempt == [fence |-> 0, state |-> "none"]
NoClaim   == [attempt |-> 0, fence |-> 0, expires |-> 0]
NoCheckpoint == [attempt |-> 0, fence |-> 0, revision |-> 0, cursor |-> 0]
NoReservation == [state |-> "none", reserved |-> 0, spent |-> 0]
NoDispatch == [bound |-> FALSE]
NoReceipt == [bound |-> FALSE]
NoSubmission == [bound |-> FALSE]

Dispatch(j, n, f, class) ==
    [bound |-> TRUE, job |-> j, attempt |-> n, fence |-> f, class |-> class]
Receipt(j, n, f, status) ==
    [bound |-> TRUE, job |-> j, attempt |-> n, fence |-> f, status |-> status]
Submission(d, j) == [bound |-> TRUE, digest |-> d, job |-> j]

StoreInit ==
    /\ now = 0
    /\ jobs = [j \in Jobs |->
                 [state |-> "none", attempt |-> 0, fence |-> 0, cancelled |-> FALSE]]
    /\ attempts = [j \in Jobs |-> [n \in 1 .. MaxAttempts |-> NoAttempt]]
    /\ claims = [j \in Jobs |-> NoClaim]
    /\ checkpoints = [j \in Jobs |-> NoCheckpoint]
    /\ occurrences = [o \in Occurrences |-> "none"]
    /\ reservations = [o \in Occurrences |-> NoReservation]
    /\ ceilings = [w \in Windows |-> 0]
    /\ dispatches = [k \in Keys |-> NoDispatch]
    /\ receipts = [k \in Keys |-> NoReceipt]
    /\ submissions = [k \in SubmissionKeys |-> NoSubmission]

-----------------------------------------------------------------------------
(* Fencing: a caller holds the job when its attempt and fence are those of *)
(* the current claim and the lease has not run out on the store's clock.   *)

LeaseRuns_AtExpiry(j) == now <= claims[j].expires

LeaseRuns(j) == now < claims[j].expires

Active(j, n, f) ==
    /\ jobs[j].state # "none"
    /\ claims[j].attempt = n /\ claims[j].fence = f
    /\ jobs[j].attempt = n /\ jobs[j].fence = f
    /\ n \in 1 .. MaxAttempts
    /\ attempts[j][n].fence = f
    /\ f # 0
    /\ attempts[j][n].state \notin AttemptTerminal \cup {"none"}
    /\ LeaseRuns(j)

(* RegisterJob: a job that is already known is left alone.                 *)
RegisterJob(j) ==
    /\ jobs[j].state = "none"
    /\ jobs' = [jobs EXCEPT ![j].state = "accepted"]
    /\ UNCHANGED <<now, attempts, claims, checkpoints, ledgerVars, dispatchVars, submissions>>

(* BindSubmission: the first binding of a key wins; the same digest is     *)
(* answered with it and another digest is refused.                         *)
BindSubmission(k, d, j) ==
    /\ ~submissions[k].bound
    /\ submissions' = [submissions EXCEPT ![k] = Submission(d, j)]
    /\ UNCHANGED <<now, leaseVars, checkpoints, ledgerVars, dispatchVars>>

(* Claim: refused for a terminal job and while the old lease runs.  A lease*)
(* that ran out is closed as expired in the same batch that grants the     *)
(* successor the next number and the next fence.                           *)
Held(j) ==
    /\ claims[j].attempt # 0
    /\ attempts[j][claims[j].attempt].state \notin AttemptTerminal

WithExpired_LeftOpen(j) == attempts[j]

WithExpired(j) ==
    IF Held(j) THEN [attempts[j] EXCEPT ![claims[j].attempt].state = "expired"]
               ELSE attempts[j]

Claimable(j) ==
    /\ jobs[j].state \in {"accepted", "running"}
    /\ Held(j) => ~LeaseRuns(j)

Claim(j) ==
    LET n == jobs[j].attempt + 1
        f == jobs[j].fence + 1
    IN /\ Claimable(j)
       /\ n <= MaxAttempts
       /\ attempts' = [attempts EXCEPT
                         ![j] = [WithExpired(j) EXCEPT ![n] = [fence |-> f, state |-> "running"]]]
       /\ claims' = [claims EXCEPT
                       ![j] = [attempt |-> n, fence |-> f, expires |-> now + Lease]]
       /\ jobs' = [jobs EXCEPT ![j].state = "running", ![j].attempt = n, ![j].fence = f]
       /\ UNCHANGED <<now, checkpoints, ledgerVars, dispatchVars, submissions>>

Heartbeat(j, n, f) ==
    /\ Active(j, n, f)
    /\ claims' = [claims EXCEPT ![j].expires = now + Lease]
    /\ UNCHANGED <<now, jobs, attempts, checkpoints, ledgerVars, dispatchVars, submissions>>

(* Cancel: intent only, accepted for any known job.                        *)
Cancel(j) ==
    /\ jobs[j].state # "none"
    /\ ~jobs[j].cancelled
    /\ jobs' = [jobs EXCEPT ![j].cancelled = TRUE]
    /\ UNCHANGED <<now, attempts, claims, checkpoints, ledgerVars, dispatchVars, submissions>>

-----------------------------------------------------------------------------
(* Checkpoints, dispatch registrations and receipts of the active fence.   *)

ValidCheckpoint_PerAttempt(old, new) ==
    \/ old = NoCheckpoint
    \/ old.attempt = new.attempt
          => new.revision >= old.revision /\ new.cursor >= old.cursor

ValidCheckpoint(old, new) ==
    \/ old = NoCheckpoint
    \/ /\ old.attempt = new.attempt /\ old.fence = new.fence
       /\ new.revision >= old.revision /\ new.cursor >= old.cursor

Checkpoint(j, n, f, revision, cursor) ==
    LET value == [attempt |-> n, fence |-> f, revision |-> revision, cursor |-> cursor]
    IN /\ Active(j, n, f)
       /\ ValidCheckpoint(checkpoints[j], value)
       /\ checkpoints' = [checkpoints EXCEPT ![j] = value]
       /\ UNCHANGED <<now, leaseVars, ledgerVars, dispatchVars, submissions>>

(* RegisterDispatch: a key is bound once, to one attempt and fence; only   *)
(* the exact registration on record is answered with success again.        *)
Registrable(k, value) == ~dispatches[k].bound \/ dispatches[k] = value

RegisterDispatch(k, j, n, f, class) ==
    /\ Active(j, n, f)
    /\ Registrable(k, Dispatch(j, n, f, class))
    /\ dispatches' = [dispatches EXCEPT ![k] = Dispatch(j, n, f, class)]
    /\ UNCHANGED <<now, leaseVars, checkpoints, ledgerVars, receipts, submissions>>

(* RecordReceipt: only against a registration with the same bindings, once.*)
Matches_AnyAttempt(prepared, j, n, f) == prepared.job = j

Matches(prepared, j, n, f) ==
    prepared.job = j /\ prepared.attempt = n /\ prepared.fence = f

RecordReceipt(k, j, n, f, status) ==
    /\ Active(j, n, f)
    /\ dispatches[k].bound
    /\ Matches(dispatches[k], j, n, f)
    /\ ~receipts[k].bound
    /\ receipts' = [receipts EXCEPT ![k] = Receipt(j, n, f, status)]
    /\ UNCHANGED <<now, leaseVars, checkpoints, ledgerVars, dispatches, submissions>>

-----------------------------------------------------------------------------
(* Occurrences and the periodic budget ledger.                             *)

RecordOccurrence(o, state) ==
    /\ state \in {"pending", "skipped"}
    /\ occurrences[o] = "none"
    /\ occurrences' = [occurrences EXCEPT ![o] = state]
    /\ UNCHANGED <<now, leaseVars, checkpoints, reservations, ceilings, dispatchVars, submissions>>

Entries(w) == {o \in Occurrences : WindowOf[o] = w /\ reservations[o].state # "none"}

CapacityOf_UnknownReleased(r) ==
    IF r.state = "active" THEN r.reserved ELSE r.spent

CapacityOf(r) == IF r.state = "settled" THEN r.spent ELSE r.reserved

Committed(w) == MapThenSumSet(LAMBDA o : CapacityOf(reservations[o]), Entries(w))

(* Admit: occurrence, job and reservation in one batch.  A window's ceiling*)
(* is fixed by its first entry.                                            *)
Admit(o, ceiling, reserved) ==
    LET w == WindowOf[o]
        j == JobFor[o]
    IN /\ occurrences[o] \in {"none", "pending"}
       /\ reserved > 0
       /\ Entries(w) # {} => ceilings[w] = ceiling
       /\ Committed(w) + reserved <= ceiling
       /\ occurrences' = [occurrences EXCEPT ![o] = "admitted"]
       /\ jobs' = IF jobs[j].state = "none"
                  THEN [jobs EXCEPT ![j].state = "accepted"] ELSE jobs
       /\ reservations' = [reservations EXCEPT
                             ![o] = [state |-> "active", reserved |-> reserved, spent |-> 0]]
       /\ ceilings' = [ceilings EXCEPT ![w] = ceiling]
       /\ UNCHANGED <<now, attempts, claims, checkpoints, dispatchVars, submissions>>

(* Settlement of a reservation: confirmed spend within the reservation, or *)
(* unknown spend that keeps it whole.  Release is refused outright.        *)
Settled(kind, r, spent) ==
    [r EXCEPT !.state = kind, !.spent = IF kind = "settled" THEN spent ELSE @]

Settleable_Overspend(o, kind, spent) ==
    /\ reservations[o].state \in {"active", kind}
    /\ kind = "unknown" => spent = 0

Settleable(o, kind, spent) ==
    LET r == reservations[o]
    IN /\ r.state # "none"
       /\ \/ kind = "settled" /\ spent <= r.reserved
          \/ kind = "unknown" /\ spent = 0
       /\ \/ r.state = "active"
          \/ r.state = kind /\ r.spent = spent

Settle(o, n, f) ==
    /\ Active(JobFor[o], n, f)
    /\ \E kind \in {"settled", "unknown"}, spent \in Amounts :
          /\ Settleable(o, kind, spent)
          /\ reservations' = [reservations EXCEPT ![o] = Settled(kind, @, spent)]
    /\ UNCHANGED <<now, leaseVars, checkpoints, occurrences, ceilings, dispatchVars, submissions>>

(* Terminal completion of the attempt and the job, as one batch.           *)
Completed(j, n, outcome) ==
    /\ attempts' = [attempts EXCEPT ![j][n].state = outcome]
    /\ jobs' = [jobs EXCEPT ![j].state = outcome]

Complete(j, n, f, outcome) ==
    /\ Active(j, n, f)
    /\ jobs[j].state = "running"
    /\ Completed(j, n, outcome)
    /\ UNCHANGED <<now, claims, checkpoints, ledgerVars, dispatchVars, submissions>>

(* Finalize: settlement, completion and the occurrence in one batch.  The  *)
(* state asked for may be the one the occurrence already has, which is a   *)
(* legal transition (ValidateOccurrenceTransition).                        *)
FinalStates(outcome) ==
    IF outcome = "unknown" THEN {"unknown"} ELSE {"completed", "admitted"}

KindOf(outcome) == IF outcome = "unknown" THEN "unknown" ELSE "settled"

Finalize(o, n, f) ==
    LET j == JobFor[o]
    IN /\ occurrences[o] = "admitted"
       /\ Active(j, n, f)
       /\ jobs[j].state = "running"
       /\ \E outcome \in Outcomes, spent \in Amounts :
             /\ Settleable(o, KindOf(outcome), spent)
             /\ reservations' = [reservations EXCEPT ![o] = Settled(KindOf(outcome), @, spent)]
             /\ Completed(j, n, outcome)
             /\ \E final \in FinalStates(outcome) :
                   occurrences' = [occurrences EXCEPT ![o] = final]
       /\ UNCHANGED <<now, claims, checkpoints, ceilings, dispatchVars, submissions>>

Tick ==
    /\ now < MaxNow
    /\ now' = now + 1
    /\ UNCHANGED <<leaseVars, checkpoints, ledgerVars, dispatchVars, submissions>>

-----------------------------------------------------------------------------
FencedNext(j, n, f) ==
    \/ Heartbeat(j, n, f)
    \/ \E revision, cursor \in Progress : Checkpoint(j, n, f, revision, cursor)
    \/ \E k \in Keys, class \in WorkClasses : RegisterDispatch(k, j, n, f, class)
    \/ \E k \in Keys, status \in Outcomes : RecordReceipt(k, j, n, f, status)
    \/ \E outcome \in Outcomes : Complete(j, n, f, outcome)

LedgerNext(o) ==
    \/ \E state \in {"pending", "skipped"} : RecordOccurrence(o, state)
    \/ \E ceiling \in Ceilings, reserved \in Amounts : Admit(o, ceiling, reserved)
    \/ \E n, f \in Numbers : Settle(o, n, f) \/ Finalize(o, n, f)

StoreNext ==
    \/ \E j \in Jobs : RegisterJob(j) \/ Claim(j) \/ Cancel(j)
    \/ \E j \in Jobs, n, f \in Numbers : FencedNext(j, n, f)
    \/ \E o \in Occurrences : LedgerNext(o)
    \/ \E k \in SubmissionKeys, d \in Digests, j \in Jobs : BindSubmission(k, d, j)
    \/ Tick

StoreSpec == StoreInit /\ [][StoreNext]_storeVars
=============================================================================
