# A TLA+ verification of arxi

arxi runs teams of language-model agents from a declarative configuration. A run
is a log of events; a pure reducer folds the log into a state and answers each
event with effects; an executor performs the effects and appends what they
produced, which the reducer then reads. Around one run stand the coordination
store (leases, budgets, receipts for jobs that outlive a process), the scheduler,
the worker supervisor, the memory store and the surfaces (CLI, MCP server, Go
host API).

This directory holds TLA+ models of the parts of that system whose difficulty is
order: who acts when, what survives a crash, what a late answer may still do. It
is written from the code, one action per operation, handler or step.

    tlasany M.tla                              parses a module
    tlc -config X.cfg MC<Component>.tla        checks a configuration
    tlapm <Component>Proofs.tla                checks proofs (Coordination, LogStore,
                                               DurableStep, NativeTurn, Host, MemoryStore,
                                               Submission, RunLoop; the last takes minutes)

Sections: 1 inventory, 2 what is modelled, 3 plan, 4 what the runs show,
5 bounds, 6 fairness, 7 proofs, 8 disagreements between code and documents,
9 what is not modelled.

## 1. Inventory

The paths are relative to the repository. "M" marks what a module models, "P"
what is partly modelled, "-" what is left out (section 9).

### The parts that keep order

| | component | state it keeps | operations | interacts with | hard behaviour | what makes it correct |
|---|---|---|---|---|---|---|
| M | **Coordination store** `internal/jobstore`, `internal/job` | jobs, attempts, claims, checkpoints, occurrences, reservations, ledgers, dispatches, receipts, submissions | the mutations of `Store` | called by workers, the scheduler, the durable step and intake | leases that run out, takeover, late workers, a shared ceiling | one live attempt, fenced commits, the ceiling is never exceeded, terminal truth is final |
| M | **Event log** `internal/logstore`, `internal/advisorylock` | log file, pending marker, lock file; head and size in memory | Open, Append, Close, lock-free reads | the run loop appends, commands append while no loop runs, readers poll | kills and power loss between any two system calls, failed writes, reads beside appends | an acknowledged record survives, no part of a batch does, the log stays readable, one writer |
| P | **Reducer** `internal/kernel` | stage, members and their turns, inbox, budget, timer, quiescence | `Decide`, one case per event type | called by the loop, folded by every reader | events of a turn decided one at a time, work parked under pauses, blocks and waits, silence | a stage resolves once, nobody is stranded, silence is diagnosed and only then |
| P | **Run loop and executors** `internal/exec` | cursor, pending commands, clock | `Loop.run`, `tick`, `RunStep`, `Fake` | reducer, log, clock, providers, tools, people | commands between any two events, timers, results behind other events | every prompt becomes a cause, a timed stage ends |
| M | **Durable step** `internal/exec/{exec,progress,dispatch}.go` | manifest, started, finished and completed records of a step | RunStep, Recover, dispatch under a claim | log, coordination store, executors | a crash between dispatch and record, receipts, concurrent effects | nothing is repeated that must not be, every log recovers and tells the truth |
| M | **Native turn** `internal/exec/turn.go`, `internal/turn` | the children of a turn: rounds and calls, prepared, started, finished | open, run, suspend, resume | durable step, providers, context preparation | a crash between a call and its record, a suspension in the middle of a round | no call runs twice, one frozen presentation, whole rounds |
| M | **Exact authorization** `internal/authorization`, kernel | requests, grants, expiries, consumption | request, grant, deny, expire, consume | reducer, loop, clock, people | grant, expiry and consumption race across workers | a grant is used once, in time, for the action it names |
| - | **Job journal** `internal/jobstore/file.go` | journal, marker, revision | transaction, recover | the durable form of the coordination store | as the event log | the same promise, `AtomicLog` |
| M | **Scheduler** `internal/scheduler`, `cmd/arxi/scheduler.go` | none of its own: firings, occurrences and jobs in the store | boot, tick, admit, launch, claim, heartbeat, finalize, record | coordination store, triggers, intake | a death between any two calls, two schedulers, overlap policies | overlap is as declared, a claimed job has its run, due slots are passed |
| P | **Triggers** `internal/trigger`, `internal/trigstore` | definition, cursor and last firing | due slots, missed slots, overlap | scheduler | slots missed while nobody ran | as the scheduler |
| P | **Supervisor** `internal/supervisor` | worker, watcher, commands, wake token | launch, command, close | intake, run loop | goroutines of worker, watcher, callers and close | a worker never sleeps on a command, every caller returns |
| P | **Host API** `host/v1` | worker, mailbox, claim; the job in the store | submit, claim, recover, command, cancel, heartbeat, close | loop, log, coordination store | a lease that runs out under a call, restarts, commands between passes | one call in flight, a decision lands once, the store's verdict is the log's |
| M | **Run intake and mutations** `internal/app`, `cmd/arxi/{inject,pause,unpause,inbox}.go` | submission directory, its files, workspace | submit, prepare, publish, resume; prompt, pause, unpause, answer, cancel | log, coordination store, supervisor | a crash or power loss between two files or syncs, submissions that compete | a publication stays, a half-made preparation is resumed or removed |
| P | **Memory store** `internal/memorystore` | versions, claims on supersession | put, correct, promote, delete, resolve, expire, release | agents, operators | competing writers, failed writes, power loss | one correction of a version, what was written stays, what was deleted stays deleted |
| P | **Context preparation** `internal/{contextprep,compaction,transcript}` | none: one preparation | project, measure, select, cite, shrink, verify | native turn | a cut anywhere in the history, a summary that grows while the window shrinks | what is selected passes its gate, the shrinking ends |
| - | **Shared state locks** `cmd/arxi/state*.go`, kernel | leases on keys, folded from the log | lock, unlock, get | reducer | expiry | one holder per key |

### The parts without state of their own, or without concurrency

| component | why it is left aside |
|---|---|
| **Providers** `internal/provider` | wire formats and HTTP; their outcomes are the turns of `RunLoop` and the answers of `NativeTurn` |
| **Tools and workspaces** `internal/toolrun`, `workspacefs`, `workspace` | what a tool does to the file system; preparing, verifying and releasing a workspace is in `Intake` |
| **Policies** `internal/tool`, `internal/capability` | pure decisions, one table lookup each; `NativeTurn` takes their result as the constant `Policy` |
| **Definition stores** `internal/{agent,role,model,tool,eval}store` | single-user files replaced by one rename each |
| **Blueprints and configuration** `internal/blueprint`, `runconfig`, `model` | parsing and validation; the validated configuration is `Kernel`'s constants and assumptions |
| **Evaluation** `internal/eval` | runs the cases of a suite one after the other |
| **Read models** `internal/runread`, `surface`, `kernel/why.go` | projections for printing |
| **Command line and servers** `cmd/arxi` | argument handling and printing; the guards of the commands that write to a run are in `RunLoop` |
| **Designer** `internal/designer` | a terminal form editor |

## 2. What is modelled

    JobStore <- JobStoreProperties <- MCJobStore
       ^
    Scheduler <- SchedulerProperties <- MCScheduler, CoordinationProofs (-> JobStoreProperties)

    AtomicLog   <~ LogStore    <- LogStoreProperties    <- MCLogStore,    LogStoreProofs
    Effects     <~ DurableStep <- DurableStepProperties <- MCDurableStep, DurableStepProofs
    ActionGrant <~ NativeTurn  <- NativeTurnProperties  <- MCNativeTurn,  NativeTurnProofs

    Host <- HostProperties <- MCHost, HostProofs
    MemoryStore <- MemoryStoreProperties <- MCMemoryStore, MemoryStoreProofs
    Intake, Supervisor <- Submission <- SubmissionProperties <- MCSubmission, SubmissionProofs
    Kernel <- RunLoop <- RunLoopProperties <- MCRunLoop, RunLoopProofs
    ContextPreparation <- MCContextPreparation, NativeTurnProofs

(`A <- B`: B extends A. `A <~ B`: B implements A by a refinement mapping.) A
component has a module with its state and actions, one with its properties, an
MC module whose definitions the configurations choose from, and, where section 7
has theorems about it, a module of proofs; the store and its scheduler share
`CoordinationProofs`, a turn and what prepares its context `NativeTurnProofs`. An
operator named
`Op_Defect` is a variant of `Op` with a bug such code could have. No action uses
it; putting it in the place of `Op` shows that a property notices the bug.

**JobStore** is the coordination store. A call of `Store` that commits is an
action; a refused call and an idempotent repeat are stuttering, because every
mutation runs inside one transaction that publishes all of its records or none
(`File.transaction`, `Memory.commit`). Callers are arbitrary: any worker may pass
any attempt, fence and key at any instant, which covers late, duplicated and
reordered calls. The variables are the maps of `state` (`state.go`), each entry
reduced to the fields a guard reads; `now` is the injected clock. `Claim`
includes what `state.claim` and `apply` do together: expire the old attempt, open
a new one, move the fence.

**LogStore** is the event log, one action per system call. A line is two cells,
its beginning and its newline, so torn and glued lines exist. `log` and `marker`
are what processes see; `lossLog` and `lossMarker` are what a power loss may
leave, narrowed to one value by a sync. A process is one life. **AtomicLog** is
what the log promises: batches become visible whole and in order, a confirmed
record stays, an unconfirmed batch may be withdrawn.

**Kernel** is the reducer as a function, `Decide(run, event)` returning the new
state and the effects, with one operator per `apply` function of `decide.go`.
Events, effects, members, inbox items are records of the fields decisions read;
costs are whole units; only human inputs have ids of their own. **RunLoop** is
the loop around it. `queue` is the log behind the cursor; `Step` decides its head
and appends what the effects produced behind the rest; `Tick` lets the clock fire
when everything is decided; `Recover` is a worker of the host package that takes
a run over with a new clock; `Prompt`, `Pause`, `Unpause`, `UnpauseRaising`,
`Cancel`, `Reply` are the commands, each refused unless the state at the tip of
the log allows it. Turns end in any of the ways an executor can end one: with a
submission, without, with a question, with a failure. Two facts of the code shape
this: only the text executor and the fake submit stages (a provider's turn never
does), and an `inbox.timeout` is handled by the reducer and emitted by nothing.

**DurableStep** is the inside of `Step`: manifest, started, finished and
completed records around control effects (one by one) and independent ones (in
goroutines, recorded in list order), registration and receipt under a claim, a
death between any two of them, and `Recover`, which decides from the records
whether to skip, repeat, take a receipt or stop. The reducer is the constant
`Decides`. **Effects** is its contract: an effect acts after it was commissioned
and before its outcome is known, what cannot be repeated acts once, a step closes
when all its outcomes are known.

**NativeTurn** is the inside of one such effect: rounds of a model call and the
tool calls it asks for, each a child with durable records, the frozen context
behind the barrier, and a call under policy "ask" that suspends the turn until a
person decides. The reducer's cases of an authorization are its actions `Decide`,
`Expire` and so on, with the timer and the resumption's own reading of the clock
as two independent ways of being late. **ActionGrant** is docs/adr/0011's promise.

**Scheduler** extends JobStore: its processes call the store's own actions, so
every rule of the store applies to it. A process is a program counter over the
calls of `Tick` and `startRun`; a call that names a revision is either made on the
current state or refused, since any other commit may come between. A slot is the
tick of the clock it falls on.

**Host** is one job between host processes: submission, claims, recovery loops,
the resident worker with its mailbox, wake tokens, heartbeat and close, over the
filesystem ports. Each worker is a few threads with their own program counters;
the log is the sequence of entries the loop decides.

**Intake** follows a submission from the directory to the accepted run, one
system call at a time, for processes that submit the same job; **Supervisor** is
the worker of that run, goroutine by goroutine; **Submission** composes them: the
process whose intake published the run is the one whose supervisor drives it, and
a kill stops both. A submitter that finds a directory in which nothing is published
prepares in it at once, whoever else is there (`TakeOver`), with what it read of the
journal (`knows`). Two history variables say what comes of that: `crowded`, that two
have prepared at once, and `swept`, that one of them then removed the directory under
the other or after its acceptance. A job is followed until it is swept (`Swept`).

**MemoryStore** follows the verbs that write a record, one system call at a time:
claim file, its sync, version file, its sync, directory sync, rollback. Presented
is what `Retrieve` would show of the current heads. Every success is in `told`, and
how it came about: "written" by the caller, or "found", when a repeated write finds
its file and a repeated deletion its tombstone, synced or not. `givenBack` remembers
what a claim that was given back still stood for: the version's own file, or another
writer of the same version.

**ContextPreparation** follows `Prepare`: the log of a run projected into items,
measured against the limit, and, when too heavy, the loop of `compact`: select a
window, cite the anchors it leaves behind, measure, shrink. Items are weights;
`Verified` is the gate `compaction.Verify`.

## 3. Plan

Done: everything of section 2. Left, in the order of what it would add:

1. Proofs. What is left of the safety properties is `QuiescenceIsTrue`, the action
   property of the run.
2. `Protocol`: the streaming server (`cmd/arxi/serve*.go`,
   `host/v1/storage_subscription.go`): acknowledgement before events, one terminal
   marker, clients that attach late, stop reading or go away.
3. `Commands`: the commands that fold the log before they open it (`emit`, `state
   set`, `inject`, `unpause`) against those that judge under the writer lock
   (`state lock`, `state unlock`) or append conditionally (`pause`).
4. `JobJournal`, a second implementation of `AtomicLog`.
5. `Cron`: the search for the next instant (`internal/trigger/spec.go`) against
   the first instant that matches, with the leap days of a skipped century.
6. Subscriptions and the uncoordinated mode of the host, the reconciler of the
   supervisor, the ranking of a retrieval.

## 4. What the runs show

Every property below holds in every reachable state, or along every behaviour, of
its configuration.

| run | configuration | question | properties |
|---|---|---|---|
| `store_lease` | `JobStoreLease` | one job claimed up to three times under a ticking clock, with arbitrary callers | one live attempt; a receipt agrees with its registration; nothing is committed outside a running lease, not even before a successor claims; the frontier never moves back |
| `store_ledger` | `JobStoreLedger` | two scheduled jobs share one budget window and may be taken over | the window never commits more than its ceiling; an occurrence finishes whole |
| `log_crash` | `LogStoreCrash` | two lives, kills, a power loss and a failing call anywhere, a reader beside them | an acknowledged record survives every crash, now or next; the log stays readable; what a read returned stays, unless a batch was undone while it read; it implements `AtomicLog` |
| `run_stages` | `RunLoopStages` | an untimed and a timed stage, an observer, every kind of turn, costs, prompts, pauses and raised budgets whenever nothing is left to decide | the marker of an open turn is exact; nobody is left with parked work when a halt ends; a member waits exactly while it is asked; silence is diagnosed, and only when it is silence; a timed stage ends |
| `run_timed` | `RunLoopTimed` | timed stages that advance and escalate, a tool on every submission, commands between any two events, a clock that may be forgotten | a timeout and a submission resolve a stage once; every prompt becomes a cause of a turn |
| `schedule` | `Scheduler` | two schedulers over one trigger and two slots, a death or a failing write between any two calls | no overlap policy is broken; a job is claimed only with its run published |
| `step` | `DurableStep` | one effect of every kind, three workers, two faults, with and without a claim | nothing that must not be repeated is; a log that is read again tells the truth; the run ends if nothing is unknown; it implements `Effects` |
| `turn` | `NativeTurn` | two rounds with an allowed, an asked and a denied call, three faults, a person who may answer early, late or never | no call runs twice; every model call of a turn sees the committed context; every authorization ends; it implements `ActionGrant` |
| `host` | `Host` | two hosts, one job that asks, an answer and a cancellation, a close or a kill, leases that run out | one call in flight; a decision lands once; the store's verdict is the first end in the log; a job that lost its owner gets another |
| `memory` | `MemoryStore` | two processes of one host, under one origin, run every verb on one record, with one failing call, a death or a power loss | one correction of a version wins, unless a claim was given back that still stood for something; what a writer was told it wrote stays, and what was found there stays until power is lost; what was deleted is not presented again, unless an operator healed a fork away from the tombstone |
| `submission` | `Submission` | two processes submit one job, with the same request or another, at once or one after the other, and run it, with two failing steps, kills or power losses | an acknowledged publication stays until one of two that prepared in its directory at once removes it; a half-made preparation is resumed or removed, unless only its marker is left or two prepared at once; a worker never sleeps on a command |
| `context` | `ContextPreparation` | every history of up to four pieces, under limits from none to ample | what is selected passes the gate; the shrinking ends, with what fits or with a refusal after the smallest window was tried |

The invariants of `LogStore` quantify over the disk as it is and over every disk
a power loss can leave (`Disks`), so a crash is considered at each state, also
beyond the number of crashes the configuration performs. `Scan` refuses a log only
after a failed append was followed by another, or with two writers (section 8); in
the passing run every log it reads is sound. `MemoryStore` does the same with the
entries and contents that are not yet durable.

What a property excepts is what the code does not keep, and the property without the
exception stands beside it, with its counterexample in section 8: `AcceptedIsRetained`
beside `PublishedStays`, `PreparationIsRestartable` beside `PreparationIsResumed`,
`OneSuccessor` and `ClaimsAreNotStolen` beside `CorrectionsAreExclusive`,
`ReceiptsAreKept` beside `WrittenSurvives` and `DeletedStaysDeleted`.

Properties of the same modules that hold and are kept out of the runs, because
they say less or repeat a part of one that is there: `TerminalIsFinal` and
`OutcomeOfLastAttempt` (proved, section 7), `BlockedIsAnswerable`, `CausesAreKept`
and `NoTurnOpensWhileHalted` of the run, `RoundsAreWhole` of the turn,
`NoClaimIsLeftBehind` of the memory store, `CommandsReturn` of the submission
(under `FairWorkerSpec`), and the type invariants `LogTypeOK`, `RunTypeOK`,
`TurnTypeOK`, `HostTypeOK`, `SubmissionTypeOK`; `StoreTypeOK` is proved.
`SchedulerFair.cfg` (to be run with `MCScheduler`) checks the liveness of the
scheduler: without faults every due slot is run or passed over
(`DueSlotsArePassed`).

Several properties hold in one run and fail in another, and the difference is the
finding: `SilenceIsDiagnosed` and `TimedStagesEnd` hold unless the clock is
forgotten; `TurnMarkerIsExact` unless a watcher hands a member a turn behind a
stage's end; `QuiescenceIsTrue` and `WaitingIsAsked` unless a watcher runs a tool;
`BlocksOnEveryCost` unless the run is resumed without a higher budget;
`NobodyIsStranded` unless an approval is pending while the run is blocked;
`NeverCorrupt` unless a store is used after a failed append or there is a second
writer. The passing configuration leaves out that ingredient and keeps the others;
section 8 lists what happens with it. So `log_crash`, its refinement of `AtomicLog`
included, has `KeepsWriting` FALSE: it says nothing of a `Store` that goes on being
used after one of its appends failed.

## 5. Bounds

A bound is a constant named `Max...` that a guard mentions; it cuts behaviours
short and changes none.

| bound | value | why it is enough |
|---|---|---|
| `MaxAttempts` (JobStore) | 3 with one job, 2 with two | a takeover, and a takeover of a takeover; an attempt's rules mention only its predecessor |
| `MaxNow`, `Lease` | 6 and 2; 1 and 1 | three leases with room before, at and after each expiry; with two jobs, one expiry |
| `MaxProgress` | 1 | a frontier that moves, stays or would move back |
| `Amounts`, `Ceilings` | {0, 1, 2} and {1} | a job that spends all of the window, one that spends nothing, one that asks to settle more than it reserved, and two that do not fit together |
| `Jobs`, `Keys`, `SubmissionKeys` | 1 or 2 | a rule relates a job to itself or two jobs to one window; keys do not interact |
| `MaxAppends`, `BatchSizes` | 2, {1, 2} | a batch after a batch, batches torn inside a line and between two lines |
| `MaxKills`, `MaxLosses`, `MaxFaults` (LogStore) | in `LogStoreCrash.cfg` | a crash of an append and of the recovery that follows it |
| `MaxReads` | 1 | one read, across any number of appends, recoveries and losses |
| `Members`, `Stages` | two that work and a watcher; two stages | "any", "all" and "quorum" differ with two members; a stage has a successor and a last stage has none |
| `MaxInputs` | 2 in `run_stages`, 3 in `run_timed` | a halt and its end; prompt, pause and unpause in any order |
| `MaxTurns`, `MaxDepth` | 6, 8 | in `run_stages` the run expires before it repeats itself; without a limit the watchers' depth is what ends a cascade, as in the code |
| `Budget`, `Costs` | 2, {0, 1} | the first cost below, the second at, the third above |
| Scheduler | 1 trigger, 2 slots, 2 processes, `MissedCap` 2, 1 fault, `MaxNow` 2 | a slot that overlaps its predecessor, a missed slot, a process that finds what a dead one left; `SchedulerFair` has 3 slots, 1 process, all missed policies |
| DurableStep | one effect of each kind, 3 attempts, 2 faults | a crash, and a crash of the recovery |
| NativeTurn | 3 calls, 2 rounds (the code allows 64), 2 presentations, 3 faults | a suspension in the middle of a round, in the first and in the last; rounds differ only by what came before |
| Host | 2 hosts, 2 workers, 1 question, 1 answer, 1 cancel, 1 mishap | a worker and its successor, of the same host or the other |
| MemoryStore | 2 writers of one origin (`Common`), 1 record, 4 versions, 1 mishap of seven kinds | a first version, two that race to replace it, with the same version or with different ones, and a healing; with an origin for each writer (`Own`, 2.7 million states) it passes as well |
| Submission | 2 processes, one job, two requests, 2 mishaps of three kinds, failures at nine places | a mishap of a preparation and one of the submission that resumes it; the state constraint `CrowdsPrepare` leaves the worker of a run aside once two have prepared at once |
| ContextPreparation | up to four pieces, 16 limits | every kind of neighbour on both sides of a cut, and limits at, below and above each floor |

Symmetry: `JobStoreLedger` exchanges its two slots, each with its own job
(`SlotSymmetry`), `Scheduler` its two processes, `MemoryStore` its two writers;
they check only safety. The properties proved in section 7 hold for all of these
values at once.

## 6. Fairness

- **RunLoop**: `Step` and `Tick` are weakly fair: `Loop.run` goes on while there is
  an undecided event and otherwise waits for its clock, and a worker that dies is
  replaced. The fairness of `Step` is written with its enabling condition spelt
  out (`queue = <<>>` infinitely often, or decisions infinitely often), the
  definition of `WF_vars(Step)`. Nothing makes people act, so a liveness property
  excuses a run that waits for one (`Excused`); `TimedStagesEnd` excuses a run
  paused after its time was up, since the tick finds the run halted and the stage
  keeps no second deadline until it is resumed.
- **DurableStep**, **NativeTurn**: the worker is restarted and goes on, calls
  return, timers fire and time passes; a person is never forced to decide.
- **Host**: each thread of a worker takes its next step, heartbeats and recovery
  loops tick, a closed host is started again, and the lease of a job nobody holds
  runs out.
- **Scheduler** (`SchedulerFair`): ticks, launches and workers go on, and time
  passes; a tick that loses a race for a revision wins one in the end (`SF`): the
  next tick starts from a new view.
- **Submission**: a process that submits goes on, and submits again: a scheduler's
  tick retries what it has not seen accepted. `IntakeFairness` is weak fairness of
  `Proceeds` for each process, with the enabling condition spelt out (`Waits`), and it
  is asked for as long as the job is not swept, since nothing is followed after that.
- **ContextPreparation**: one sequential function that goes on until it ends.

The other runs state only safety.

## 7. Proofs

The theorems hold for every value of the constants that the named assumptions
allow: any number of jobs, processes, workers, members of every set, any bounds.
TLC checks the assumptions in every run.

| module | theorem | says | supposing |
|---|---|---|---|
| `CoordinationProofs` | `TypeCorrect`, `OneLiveAttempt`, `OutcomeIsLastAttempt`, `ReceiptsMatch`, `FinalizationsAreWhole` | `StoreTypeOK`, `SingleLiveAttempt`, `OutcomeOfLastAttempt`, `ReceiptMatchesDispatch`, `FinalizationIsWhole` are invariants | |
| | `FrontierOnlyAdvances`, `TerminalTruthIsFinal`, `LateWorkersCommitNothing` | `FrontierNeverRegresses`, `TerminalIsFinal`, `OnlyLiveLeaseCommits` of every step | |
| | `LedgersHoldTheirCeiling` | `LedgerWithinCeiling` | finitely many occurrences |
| | `SchedulersUseTheStore` | `SchedulerSpec => StoreSpec`, so all of the above | |
| | `ClaimedRunsAreThere`, `OverlapsAreAsDeclared` | `ClaimedRunsExist`, `OverlapIsAsDeclared` | |
| `LogStoreProofs` | `ConfirmedRecordsSurvive`, `TheLogIsNeverCorrupt`, `WhatWasServedStays`, `TheLogIsAtomic` | `ConfirmedSurvives`, `NeverCorrupt`, `ServedStays`, and `LogStore` implements `AtomicLog` | one writer at a time, none that goes on after a failed append |
| | `OneWriterAtATime` | `SingleWriter` | the lock file is not removed under another process |
| `DurableStepProofs` | `WorkIsNeverRepeated`, `RecoveryTellsTheTruth`, `ExecutionImplementsEffects` | `NeverRepeated`, `RecoveryIsTrue`, and `DurableStep` implements `Effects` | |
| `NativeTurnProofs` | `NoCallRunsTwice`, `ContextsAreFrozen`, `TurnsImplementGrants` | `NothingRunsTwice`, `ContextIsFrozen`, and `NativeTurn` implements `ActionGrant` | |
| | `SelectionsAreSound` | `SelectionsPass` | a log has every result right behind its call (`ResultsFollowCalls`) |
| `HostProofs` | `CallsDoNotOverlap`, `DecisionsAreKept`, `StoreTellsTheTruth` | `OneCallInFlight`, `DecisionsLandOnce`, `StoreAgrees` | |
| `MemoryStoreProofs` | `WrittenIsKept`, `DeletionsStay`, `CorrectionsExclude` | `WrittenSurvives`, `DeletedStaysDeleted`, `CorrectionsAreExclusive` | |
| `SubmissionProofs` | `NoCommandIsSleptOn`, `PublicationsStay` | `NothingSleeps`, `PublishedStays` | |
| `RunLoopProofs` | `StagesResolveOnce` | `StageResolvesOnce` | |
| | `LoopInvariant`, `TurnInvariant` | the invariants the others rest on, of stages and of turns | |
| | `NobodyStranded` | `NobodyIsStranded` | the reducer does not forget parked causes (`~Disturbed`) |
| | `DeadlinesKept` | an armed deadline is with the clock or its tick is in the log | no recovery with a new clock |
| | `SilenceDiagnosed` | `SilenceIsDiagnosed` | both of these, and no tool call is lost |
| | `MarkersAreExact` | `TurnMarkerIsExact` | no turn begins over an open one (`~Overlapping`) |
| | `WaitersAreAsked` | `WaitingIsAsked` | the same, and no watcher's tool is denied (`NoneDenied`) |

The hypotheses in the last column are those the runs make too. `ResultsFollowCalls`
is about the constant `Logs` and is what the code does: `FinishTurn`
(`executor.go:463`) appends a call and its outcome together. For each of the others
section 8 lists a counterexample of the code when it fails: `NeverCorrupt` for the
log's, `SingleWriter` for the lock file, `NobodyIsStranded` for the parked causes,
`SilenceIsDiagnosed` for the new clock, `TurnMarkerIsExact` for the turns,
`WaitingIsAsked` for the denied tool of a watcher. Without finitely many occurrences
the sum is not defined. Four hypotheses are about behaviours and not constants.
`[]~Disturbed` and `[]~Overlapping` are explained under the run loop; the other two
are about the event log. `[]SingleWriter` is itself an
invariant that fails only through one system call, and `OneWriterAtATime` says
which: `Spec /\ [][QuietUnlink]_vars => []SingleWriter`.

None of these properties is inductive. What follows is the strengthening each
proof rests on. In every module a lemma per action shows that the strengthening
is kept, and the theorem puts them together.

**Coordination store.** The assumptions are `BindingAssumption` (an occurrence
names one job and one window, and no two occurrences the same job, as their
identities are hashes of the slot) and `NumberAssumption` (the ranges of the
numbers). A claim closes the attempt that its predecessor's *claim* names, so it
must be known that the claim, the job and the attempts agree on who that is, and
`SingleLiveAttempt` says nothing of attempts not yet granted. `LeaseInv` says of
every job: its fence, its claim's attempt and its claim's fence are the number of
its current attempt (zero exactly before the first claim); every earlier attempt
expired with its own number as its fence; the current one carries that number and
the state of the job; none beyond it was granted. `LeaseStep` has one case per
action: those that leave jobs, attempts and claims alone go through `LeaseFrame`,
those that finish an attempt (`Complete`, `Finalize`) through `LeaseFinish`,
`Claim` through `LeaseClaim`, registration and cancellation through `LeaseAccept`.

`ReceiptMatchesDispatch` needs of a *registration*, too, that it names a granted
attempt whose fence is its number (`KeyInv`); that stays true because attempt
numbers only grow (`AttemptsGrow`). `TerminalIsFinal` needs `LeaseInv`, so that a
claim overwrites no attempt that was granted, and `LedgerInv`, so that an
admission overwrites no settled reservation. `OnlyLiveLeaseCommits` splits each
step into the calls for the job itself, which carry `ActiveIsLive`, and all
others, which leave its evidence alone (`EvidenceFrame`). A finalization is whole
when it is written (`FinalizeWhole`) and stays so because its three parts are
terminal (`WholeStep`).

`LedgerWithinCeiling` is about a sum. Its invariant is `CeilingInv`, which adds
that the entries of a window are finitely many. A sum over a set is what a
function over its subsets computes by taking elements away, so the lemmas speak of
such a function (`Summed`): it exists and does not depend on the order, by
induction over the subsets of a finite set stated as well-founded induction on a
set, not on an operator. From it comes what a step does: changing one reservation
changes the sum by the difference of its charges. An admission fits by its guard;
a settlement never charges more than it reserved.

**Scheduler.** A scheduler calls the store's own actions, hence
`SchedulersUseTheStore`, and with it every theorem about the store holds here. Its
invariant `SchedulerInv` says what a process in the middle of a pass has for sure
(`PassOK`): the policies it listed are still the triggers', a slot it starts was
admitted, one it publishes is bound to its job, one it claims is published.
`PlaceOK` says the same of what it leaves behind. That no death and no other
process takes this away is `Grows`: admissions, bindings and publications are only
added. `OverlapIsAsDeclared` then follows with `LeaseInv`, carried over from the
store, at the one step that starts a second run.

**Event log.** The assumptions are `ProcsAssumption` and `BoundsAssumption`.
`DiskOK`: everything a power loss can leave of the file begins with the confirmed
records. What follows them may be garbage only while the marker that undoes it is
durable; whenever the marker is anything else, or may become so, nothing of the
file can be lost any more, and it holds the confirmed records and at most one
whole batch. `WriterOK` says what a writer knows of the disk at each of its system
calls, which is what makes the next one keep `DiskOK`; that takes a writer who is
alone. `ReaderOK` says that what a reader holds is a beginning of the file unless
something was undone. For the refinement every step is classified by what it does
to what is shown: nothing, a batch appears, a batch is confirmed, a batch is
withdrawn (`Effect` for the calls, `Loss` for crashes).

`LockInv` is the other half: who is past the lock, or waits for it, has open the
file that the lock's path names, and who is past it holds its lock. That is kept by
every step but the removal of the file by its name while somebody else has it
open (`QuietUnlink`).

**Durable step.** The assumption is `StepAssumption`: the reducer lists control
effects before the others, as `RunStep` requires. `NeverRepeated` says that work
which must not be repeated was performed at most once; it says nothing of the
goroutines that are still to act. A call is a *licence* to act. It is handed out
when the start is recorded, and passes from the goroutine to the orphan a dead
worker leaves, or to the act itself. `OneLicence` says that at most one of the
three exists, and none before the start is on record. That no second licence is
handed out needs that what a worker is about to launch has no start on record
(`Queued`), and of that the worker's lists tell only the order they were read in:
an effect is in them once because its place in the reducer's list is.

What recovery reads is the truth by `RecordInv`: the log is accepted, its
manifests are whole, a completed step has the outcome of every effect (`LogOK`);
what a worker holds is all of its step that has no outcome yet (`DeskOK`); it goes
on only while nothing is unknown (`HaltOK`); a call that is going on, or was lost
with its worker, has not been answered for (`CallsOK`, `WorldOK`). The refinement
of `Effects` maps each record to the step of the contract it stands for, and uses
both invariants: an effect that acts was commissioned and its outcome is not known
yet.

**Native turn.** The assumption is `TurnAssumption`. `TurnInv` follows an
approval through the records: the place a turn was suspended at is on record
before anybody is asked, and leads back to the call (`SuspensionsOK`); what asks
for approval has no start before its grant was spent (`SpentOK`); a call in flight
has its start on record, its grant spent, and did not act before (`WorkerOK`);
what acted was started, and once (`ActedOK`). `FrozenInv` adds that behind the
barrier whatever holds a presentation, a worker, a suspension, a child, holds the
committed one; a step takes the presentations it adds from one of these.

**Context preparation.** The assumption is `PreparationAssumption`, with
`ResultsFollowCalls` for the logs. The gate asks three things of a selection.
`ProjectPairs` is the long one: the projection leaves events out, so it has to be
shown that an item and its neighbour in the log stay neighbours, which needs the
number of shown events up to a place (`Counted`, `Counts`), and from it that the
n-th shown event exists and is the only one (`NthShows`, `NthIs`); hence a result
that can be shown has its call as the item before it (`Paired`). `WindowPairs` says
that the window keeps that: wherever the longest suffix falls, `VerbatimWindow`
never begins between the two. `SharesAreWhole` gives every excerpt something to
say, because a selection with more anchors than budget is refused first, and what
is neither cited nor in the window is no anchor. `WindowsPass` puts the three
together for any budget, and `SelectionInv`, that whatever is weighed would pass,
carries it through the loop.

**Host.** The assumption is `HostAssumption`. Leases decide who may open the log's
writer next; the writer decides who acts. `Held` says that whoever is between
opening and closing it holds it, with a lease or without, and `CallsDoNotOverlap`
follows for calls that are running. That two calls in the *log* do not overlap
either is `LogOK`: every dispatched call has a source of its own, and a step lies
between it and the next; the lemmas count entries of a type in a beginning of the
log. A command lies in one mailbox at most, and only until it is judged (`MailOK`),
so it lands once. What the store was told is the first end in the log, and an
entry of the log is never taken back (`ToldOK`).

**Memory store.** `WrittenSurvives` needs that a version file is complete and
synced from the moment its writer is told, and that one somebody found is whole as
long as no power is lost (`Lasting`). `CorrectionsAreExclusive` needs
`ExclusionInv`: a claim has one holder and names what the holder writes
(`OneHolder`); what exists replaces alone, unless a claim was given back whose
file stayed (`WrittenOnce`); and what a writer was told it wrote replaces alone in
any case (`ToldOnce`). All of that ends when a claim is given back on which
another writer of the same version relies: writers of one origin make the same
version, the second goes on behind the claim of the first, and the first gives it
back when it fails (`"shared"` in `givenBack`; section 8, `ClaimsAreNotStolen`).
`DeletedStaysDeleted` rests on `HasHistory`: no version names another that was
made after it, as names are digests of content; so what replaces a tombstone, or
what replaces that, is a tombstone, and following successors ends.

**Submission.** `SleepInv`: a worker rests only behind a pass that read everything
appended before it and carried nothing out, and while it rests no watcher is left
that could take its token; so a command that arrives finds a token or a caller who
is about to send one. `IntakeInv` holds until the job is swept. What a preparation
has published so far is its own request's, and is kept by any crash once its syncs
are through (`SubmitterOK`); of several that prepare at once one is past the first
file (`OneWriter`); what was published is kept, and who still prepares beside it does
so in a crowded directory (`PublishedIsKept`, `SharesAreCrowded`). A removal by anyone
else than the only one there sweeps the job, which is what `swept` says
(`SweptIsTheEnd`); there is no hypothesis.

**Run loop.** The assumptions are `RosterAssumption` (names are distinct and none
is the empty one), `BlueprintAssumption` (the shapes of stages, watchers and
limits) and `ActorsAssumption`. Nothing is assumed of how many members, stages and
watchers there are, or of what people and executors do. `Decide` is a function of
the reducer's whole state, so the proof says first what one decision does, in
three relations between the run before, the event, and what comes out (`Handled`):
`Staged`, how the stage and its resolution move and which event leads on; `Timed`,
how the deadline moves; `Moved`, how each member moves. There is a lemma per
handler, then one for the watchers on top of it (`ThenWoken`), one for the
diagnosis and the order of effects (`Concludes`), and `Decided` is their sum.
`Adds` says what the effects of a decision append to the log, whatever an executor
makes of them: a turn comes whole and ends once per effect, its events behind one
another (`Linked`, `Preceded`), and a stage's event for a stage's effect;
`Advances` says where these end up behind the cursor.

`StageResolvesOnce` then needs `LeadsOnce`: the log holds no more than one event
that leads on to a stage or to the result, and one at all only while the stage
that it leaves is resolved. `TurnInv` adds that a member that works has the next
event of its turn at the head of the log, and that every open turn has its end in
it (`Attended`). It is the invariant that shows what the order of a turn's events
in the log is good for: no other decision falls between them. `NobodyStranded`
follows with `ParkedInv`: in a running run parked causes lie only with members
whose turn is open, who wait, or who failed. Two events break that, and `Disturbs`
names them: the answer to a member's question while the run is blocked on another
one (section 8, `NobodyIsStranded`), and the denial of a watcher's tool that takes
its member out of a wait or a failure. That is a hypothesis on behaviours and not
on constants, because what decides is the order of the answers; it holds of every
behaviour of `run_stages`, where nobody answers while a block is open and no
watcher runs a tool, and of every run without answers and denied watchers' tools.

`SilenceIsDiagnosed` puts the two together: the last decision left nobody working
or able to start, no deadline, because a deadline would be with the clock
(`ClockInv`), and added nothing to the log, so it had no effect that speaks; then
`checkQuiescence` had everything it asks for, unless it had diagnosed the run
before. A lost tool call is an effect without an event, hence that hypothesis.

`TurnMarkerIsExact` is the other half of `Attended`: every end of a turn in the log
is of an open turn, and no member has two (`Marks`). It needs to know of a decision
that it begins one turn at most for a member, and none for a member whose turn is
open unless this very event ends it (`Single`): there is a lemma for every handler
that begins turns, `SeenSingly` for the watchers behind it, who see the members as
the handler left them, and `OrderLone` for the order of effects. Two handlers begin
a turn without asking whether one is open, and `Overlaps` names them:
`applyStageEntered`, for the members of the new stage who do not wait, and
`applyInboxReplied`, for the member whose question is answered. The first is a
defect section 8 lists; in `run_stages` neither happens: the next stage's
event stands behind the turns of the stage it leaves, prompts come only when
nothing is left to decide, and nobody answers.

`WaitingIsAsked` concerns one member, its question, and the events still to be
decided. `Held` is the property of one member, and `Keeps` what one event leaves of
it: the wait and its question as they were, or no wait at all, or, if the event is
the denial of the member's own tool, a new wait on the question just written. There
is again a lemma for every handler (`AnswerKeeps` for the answer that ends the wait,
`DeniedKeeps` for the denial that begins it, `WakeKeeps` for the watchers), and
`DecidedKeeps` is their sum. The handlers of the events in `Starting` set their
member to work without asking what it is doing, so `Keeps` says nothing where such
an event meets a member that waits. `WaitInv` adds that this does not happen: no
event of `Starting` in the log is of a member that waits (`Waits`). The log's order
gives it. A turn that asks ends with its denial, the cost and `agent.turn_done`
(`Asking`), and with one end for a member in the log no second turn of the same
member can stand behind the first: `AskingAlone`. Hence both hypotheses. A second
turn would be exactly such an event, and the denial of a watcher's tool stands in
the log alone, part of no turn, for a member in any state (section 8).

**Model-checked only.** `QuiescenceIsTrue` needs to know that an idle team
has nothing at all in the log, which is an invariant of what every event in it may
still do. Out of the prover's reach are liveness under fairness (`TimedStagesEnd`,
`PromptsAreServed`, `RunsEnd`, `AuthorizationsEnd`, `JobsAreTakenOver`,
`PreparationIsResumed`, `PreparationSettles`, `DueSlotsArePassed`) and `ENABLED`.

## 8. Disagreements between code and documents

These are counterexamples TLC finds, each run by hand: a file of this directory
where one is named, otherwise the property put in place of those of the base
configuration, with the constants that are given. The base configurations
name the specification, with its fairness where the property is temporal.

**Coordination store.**

| property | configuration | what the code does |
|---|---|---|
| `HolderMayCheckpoint` | `JobStoreLease` | a checkpoint is compared with the previous one by `job.ValidateCheckpoint`, which refuses when attempt or fence differ; so after a takeover every checkpoint of the holder of the live lease is refused, for the rest of the job, while `spec/jobs.md` lists other reasons only |
| `IdempotentWorkMayRetry` | `JobStoreLease` | the registration of a dispatch carries attempt and fence, so a successor cannot register idempotent work under its original key |

**Event log.**

| property | configuration | what the code does |
|---|---|---|
| `SingleWriter` | `LogStore_SingleWriter.cfg` | `releaseLock` unlocks the lock file and removes it by name afterwards: a process that had opened it locks the removed file, a third creates a new one; `docs/adr/0002-log-is-truth.md:69` relies on one writer |
| `OpenAlwaysRecovers` | `LogStoreCrash`, three processes, `BatchSizes` {1}, `MaxAppends` 1, `MaxKills` 1, `MaxLosses` 0, `MaxFaults` 0, `MaxCloses` 2, `MaxReads` 0 | a kill between creating the marker and writing it leaves a log that no `Open` accepts |
| `NeverCorrupt` | `LogStoreCrash`, `BatchSizes` {1}, `KeepsWriting` TRUE, `MaxKills`, `MaxLosses` and `MaxReads` 0 | after a failed append the same `Store` writes behind the torn batch and commits an unreadable log |
| `ServedIsConfirmed` | `LogStoreCrash`, `BatchSizes` {1}, `MaxAppends` 1, `MaxKills` 1, `MaxLosses` 0, `MaxFaults` 0 | a reader that captured a batch in flight, and samples the marker after the next `Open` rolled it back, returns the batch |
| `FollowersAreNotRefused` | `LogStoreCrash` | a reader that samples the marker between its creation and its write reports corruption during a normal append |

**Run.**

| property | configuration | what the code does |
|---|---|---|
| `SilenceIsDiagnosed` | `RunLoopTimed`, `Watchers` Guarded, `TurnKinds` idles, `CallKinds` done, no human acts, `Interrupted` FALSE | the host worker starts with a new clock and never restores the timers, while the state still says one is armed, so the run is neither timed out nor called silent |
| `BudgetBlocksDoNotKill` | `RunLoopStages`, `Members` Solo, `Stages` Alone, no watchers, `SteerTarget` "dev", `Budget` 1, `MaxTurns` 0, `TurnKinds` idles, `Costs` {1}, no human acts | `budget.exceeded` stands behind the `agent.turn_done` that spent the money; deciding that turn's end finds nothing pending and emits `run.quiescent`, which is decided behind the block and fails the run, although the reducer is to "block and ask, do not kill" |
| `BlocksOnEveryCost` | `RunLoopStages`, Pair, Lasting, no watchers, `Advisory` {}, `Coordinator` "", `MaxTurns` 0, idles, prompt and unpause, `MaxInputs` 3 | a run resumed without a higher budget never blocks on its budget again |
| `NobodyIsStranded` | `RunLoopStages`, Lasting, no watchers, `SteerTarget` "*", `Budget` 0, `MaxTurns` 0, idles and asks, `Costs` {0}, prompt and reply, `MaxInputs` 3 | an approval answered while the run is blocked lifts the block without taking up what the block had parked |
| `TurnMarkerIsExact` | `RunLoopStages`, `Watchers` Told, `Budget` 0, `MaxTurns` 0, submits, `Costs` {0}, no human acts | a member given a turn by its queue and then reached by the next stage has two turns at once |
| `QuiescenceIsTrue`, `WaitingIsAsked` | `RunLoopTimed`; for the second `TurnKinds` submits and asks, reply, `ClockForgets` FALSE | a tool a watcher runs leaves no mark in the state: the run is called silent ahead of its answer, and its denial takes its member out of a wait whose question is open |

**Scheduler.**

| property | configuration | what the code does |
|---|---|---|
| `QueuedSlotsAreTaken` | `Scheduler_QueuedSlotsAreTaken.cfg` | a slot queued behind a running job is later skipped when the policy of missed slots is to skip; the store refuses pending to skipped as a conflict, so every later tick fails at that slot and the trigger never fires again |
| `PassedSlotsWereActedOn` | `Scheduler` with three slots of one job, `MaxNow` 3, one scheduler, queue and run-all, no faults | the cursor moves past a slot nothing was done for |

Read beside these, without a property of their own: a completed occurrence whose
firing was not saved is refused by `Admit` at every tick; with run-all an exhausted
window stops the trigger; a restart inside the lease of the process before it
never resumes its job; two schedulers can move the cursor back.

**Durable step and native turn.**

| property | configuration | what the code does |
|---|---|---|
| `ClaimedRunsEnd` | `DurableStep` | under a claim, a crash between dispatch and record leaves a run that no worker ends |
| `FailedDidNotAct` | `DurableStep`, claimed | keyed work is dispatched again after it acted, answered "not dispatched" and recorded as failed |
| `TranscriptIsExact` | `NativeTurn`, `TurnSpec`, `MaxFaults` 2 | the round of a resumed turn reinjects results from the suspended call on only: what the calls before it in the same round returned is missing (`turn.go:1064`, against `docs/adr/0009`, "Multiple calls keep their provider order") |
| `OpenTurnsAreOwed` | `NativeTurn`, `MaxFaults` 2 | a denial or an expiry leaves a member idle whose turn stays open for ever |
| `LogStaysReadable` | `NativeTurn` | an approved tool that is refused is recorded "failed"; after a crash the resumption appends "unknown" behind it, and `Recover` refuses the log from then on |

**Host.**

| property | configuration | what the code does |
|---|---|---|
| `AcceptedJobsStart` | `Host`, `FairHostSpec`, `MaxMishaps` 0 | the loop of recovery claims a job between its acceptance and the submitter's own claim, gives up because the log shows no progress yet, and the submitter was refused; every later recovery gives up too, so the job never starts (`backend.go:222`, against `docs/adr/0010:134`: "can be resumed by a replacement worker after lease expiry") |
| `EventsAreTaken` | `Host`, `FairHostSpec`, `MaxMishaps` 0 | applying a command leaves the worker's own revision of the log behind, so its next append conflicts and it dies; the first checkpoint of a recovered worker is refused (see the coordination store), so it dies after one step |
| `CancelReachesTheLog` | the same | the intent to cancel is read only when a worker claims, so a running one never sees it |
| `RecoveredCancelStopsDispatch` | the same, `MaxMishaps` 1 | a recovered worker of a cancelled job dispatches once more (`ports.go:284`) |
| `StoreHearsTheEnd` | the same, `MaxMishaps` 0 | a job whose log has ended stays open in the store |
| `RefusedLeavesNoTrace` | the same, `MaxMishaps` 1 | a command answered with an error is in the log nonetheless |
| `CommandsAreAnswered` | the same, `MaxMishaps` 0 | a command handed to a worker that dies is answered only when its caller gives up |

**Submission.**

| property | configuration | what the code does |
|---|---|---|
| `AcceptedIsRetained`, `WorkersAreAtHome` | `Submission`, `Mishaps` {}, `MaxMishaps` 0 | a second submitter that finds the unpublished directory prepares in it as well, fails later to create a file, and removes the directory with the run that was accepted in between; `acceptance.go:134-136`: "After confirmation, the job is retained even when lifecycle handoff fails" |
| `WorkersAreAtHome` | `Submission`, `Submitters` {p1}, `MayAsk` OneComer, `Mishaps` {"fail", "kill"}, `MaxMishaps` 3 | also with one submitter: a kill between the release of a worktree and the removal of its directory leaves the marker, and a later worktree that is half made passes for whole |
| `AdoptedStays`, `WorkspaceIsTheSource` | `Submission`, `Mishaps` {"power"}, `MaxMishaps` 1 | copying the tree is never synced and the snapshot is verified by names, so a power loss leaves an accepted run an empty workspace; and what a retry adopts is not synced by it |
| `RefusalsLeaveNothing` | `Submission`, `FailPoints` {"started"} | a preparation that fails before its journal says "started" leaves its git worktree registered |
| `PreparationIsRestartable` | `Submission`, `Submitters` {p1}, `MayAsk` OneComer, `Mishaps` {"kill"}, `MaxMishaps` 2 | a kill before the copy is renamed, and one of the next submission when it has removed the copy and not yet the marker, leave a marker without its directory, which is refused for ever (`session.go:336-357`); `acceptance.go:90-92`: "It must be durably restartable because a crash may leave its side effects behind". With two submitters one kill is enough, since they take each other's copy away, and two that append "prepared" break the journal for ever |
| `BoundJobsArePublished` | `Submission`, `Submitters` {p1}, `MayAsk` OneComer, `Mishaps` {"kill"}, `MaxMishaps` 1 | a crash after the snapshot makes every retry a conflict |

**Memory store.**

| property | configuration | what the code does |
|---|---|---|
| `OneSuccessor`, `ClaimsAreNotStolen` | `MemoryStore` | a version's identity is a hash of its content and origin, so two processes of one origin that do the same thing make the same version, and the second goes on behind the claim of the first; when the first fails it gives that claim back, and another version replaces the same head (`store.go:212-215`: "O_EXCL means the creator of a claim is its exclusive holder"). A failed sync forks a record with one writer, too: its version file stays and its claim does not |
| `CrashLosesOneVersion` | `MemoryStore`, `Mishaps` {"crash"} | a process that dies inside a write leaves half a file, and every verb that reads the record fails on it (`store.go:48`: "loses at most the version being written") |
| `AbandonedWritesRelease` | `MemoryStore`, `Mishaps` {"claim"} | a write that fails at its claim leaves it behind (`store.go:138`) |
| `ReceiptsAreKept` | `MemoryStore` | `Put` acknowledges a version file that is there and `Delete` a tombstone that is there without syncing them (`store.go:156-164`, `476-478`): the process that wrote it has not synced it yet, or failed to, and a power loss takes it; a deletion that was confirmed is undone (`store.go:47-49`: a crash loses "never a version somebody already received a receipt for") |

**Context.**

| property | configuration | what the code does |
|---|---|---|
| `RefusalIsNeeded` | `ContextPreparation`, `Header` and `Frame` 0, `Mark` 3, `Limits` {19} | two prompts and an answer are refused with both prompts left behind, although leaving the first behind fits: the claims share one budget, so with more of them each is shorter and carries the mark " [incomplete]", and the loop, which begins with half of the limit and only shrinks, never tries the larger window. The refusal says "no selection can relieve the pressure" (`context.go:457-460`). With the weights of the base configuration, and three other choices, it holds |

Read beside it, without a property of its own: the tool calls of a native output
and the call events of the same turn are both projected, so a call is presented
twice.

## 9. What is not modelled, and why

- **JobStore**: the arithmetic of amounts of different scales, identities as
  hashes, listing and reading. Revisions that callers compare are the scheduler's
  and the host's.
- **LogStore**: the content of records and their decoding; the file system is
  taken to keep a prefix of the unsynced writes of a file.
- **Kernel**: artifacts, shared state and its locks, nested runs, the warning
  below the budget (an event nothing reacts to). `run.quiescent` is emitted once
  per run, as ADR-0004 has it. In **RunLoop** a step is atomic; its inside is
  `DurableStep` and `NativeTurn`.
- **DurableStep**: the reconciler of effects. It cannot succeed as it is, because
  `Recover` rejects a second terminal status; a failed timer, which a reopening
  skips.
- **Scheduler**: `trigger pause`, which reads a definition and writes it back
  (`cmd/arxi/trigger.go:280`); the path of `trigger.Admit` without a store, which
  no wiring uses.
- **Host**: reading operations, subscriptions, the mode without coordination, the
  callers' contexts, the bound of 32 on the queue of commands, timers inside a
  pass, and the two halves of `Create`.
- **Submission**: a torn journal line, a removal that fails half-way, the parts of
  a removed directory that a preparation's `MkdirAll` may make again before it
  fails, what goes on in a directory after it was removed under somebody, a
  command that was carried out and answered `ErrClosed`, the reconciler of the
  supervisor, freezing of a workspace contract, the callers' contexts, a git
  worktree that stays registered after a power loss.
- **MemoryStore**: the dimensions and the ranking of a retrieval, edges between
  records, files that were tampered with or imported, a reader between listing and
  reading, an operator who releases a claim while its writer is alive.
- **ContextPreparation**: receipts, digests and retrieved memory, an excerpt that
  ends at a sentence, which other members' events are visible, generators other
  than the built-in one.
- **Streaming server** (`cmd/arxi/serve*.go`, `host/v1/storage_subscription.go`):
  read, not built. What a model should settle first: a client that attaches at the
  final sequence seems never to get the terminal marker, a failed `Inspect` on the
  last batch seems to lose it, and a client that stops reading seems to hold up
  the close of all.
- **Commands** that fold the log before they open it (`emit`, `state set`,
  `prompt`, `unpause`): read, not built. They append without comparing sequences,
  so a run that ends in between is written to and success is reported.
- **Job journal**: it repeats the protocol of the event log.
- **Cron** (`internal/trigger/spec.go`): a pure search; read, not built.
- The parts in the second table of section 1: pure input and output, parsing,
  printing, or single-user files.
