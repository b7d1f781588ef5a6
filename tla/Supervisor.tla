---------------------------- MODULE Supervisor ----------------------------
(* The worker a supervisor keeps for a run, goroutine by goroutine: its    *)
(* loop, the watcher of each pass, the callers of its handle and whoever   *)
(* closes it (internal/supervisor/supervisor.go).  A pass of the execution *)
(* loop is one step that ends where RunLoop's steps end.                   *)
EXTENDS Naturals, Sequences, FiniteSets

CONSTANTS Callers,      \* goroutines that hold a handle
          CommandLimit  \* the capacity of the command channel

ASSUME SupervisorAssumption == CommandLimit \in Nat \ {0}

VARIABLES
    worker,    \* where the worker's loop stands
    watcher,   \* the goroutine that closes the boundary of the current pass
    boundary,  \* the pass was asked to stop
    stoppedBy, \* how the last pass ended
    commands,  \* the command channel
    wake,      \* the token in the wake channel
    stop,      \* the stop channel is closed
    drained,   \* a command was executed since the last pass
    unread,    \* a command appended to the log and no pass has read it
    call       \* where each caller stands

supVars == <<worker, watcher, boundary, stoppedBy, commands, wake, stop, drained, unread, call>>

(* Whoever waits for a worker that is gone learns that it is.              *)
Closed == [c \in Callers |-> IF call[c] = "idle" THEN "idle" ELSE "closed"]

(* No worker: its channels are gone with it.                               *)
Reset ==
    /\ worker' = "off" /\ watcher' = "gone" /\ boundary' = FALSE /\ stoppedBy' = "none"
    /\ commands' = <<>> /\ wake' = FALSE /\ stop' = FALSE /\ drained' = FALSE /\ unread' = FALSE

SupInit ==
    /\ worker = "off" /\ watcher = "gone" /\ boundary = FALSE /\ stoppedBy = "none"
    /\ commands = <<>> /\ wake = FALSE /\ stop = FALSE /\ drained = FALSE /\ unread = FALSE
    /\ call = [c \in Callers |-> "idle"]

(* restore has succeeded.                                                  *)
WorkerStarts ==
    /\ worker' = "top"
    /\ UNCHANGED <<watcher, boundary, stoppedBy, commands, wake, stop, drained, unread, call>>

-----------------------------------------------------------------------------
(* Handle.Command: queue the command, leave a token, wait for the reply or *)
(* for the worker to be gone.  A full channel refuses at once.             *)
Send(c) ==
    /\ call[c] = "idle" /\ worker # "off" /\ Len(commands) < CommandLimit
    /\ commands' = Append(commands, c)
    /\ call' = [call EXCEPT ![c] = "sent"]
    /\ UNCHANGED <<worker, watcher, boundary, stoppedBy, wake, stop, drained, unread>>

Signal(c) ==
    /\ call[c] = "sent"
    /\ wake' = TRUE
    /\ call' = [call EXCEPT ![c] = "waiting"]
    /\ UNCHANGED <<worker, watcher, boundary, stoppedBy, commands, stop, drained, unread>>

(* The schedulers' callers wake the worker once more after each command.   *)
Return(c) ==
    /\ call[c] \in {"answered", "closed"}
    /\ wake' = (wake \/ call[c] = "answered")
    /\ call' = [call EXCEPT ![c] = "idle"]
    /\ UNCHANGED <<worker, watcher, boundary, stoppedBy, commands, stop, drained, unread>>

(* Close, of the handle or the supervisor, or a heartbeat that failed.     *)
CloseWorker ==
    /\ worker # "off" /\ ~stop
    /\ stop' = TRUE /\ wake' = TRUE
    /\ UNCHANGED <<worker, watcher, boundary, stoppedBy, commands, drained, unread, call>>

-----------------------------------------------------------------------------
Top ==
    /\ worker = "top"
    /\ worker' = IF stop THEN "reject" ELSE "drain"
    /\ UNCHANGED <<watcher, boundary, stoppedBy, commands, wake, stop, drained, unread, call>>

(* The reply may come before the caller has left its token.                *)
Execute ==
    /\ worker \in {"drain", "redrain"} /\ commands # <<>>
    /\ commands' = Tail(commands)
    /\ drained' = (worker = "redrain") /\ unread' = TRUE
    /\ call' = [call EXCEPT ![Head(commands)] = IF @ = "waiting" THEN "answered" ELSE "replied"]
    /\ UNCHANGED <<worker, watcher, boundary, stoppedBy, wake, stop>>

(* The token of a command that was executed before it was left.            *)
SignalLate(c) ==
    /\ call[c] = "replied"
    /\ wake' = TRUE
    /\ call' = [call EXCEPT ![c] = "answered"]
    /\ UNCHANGED <<worker, watcher, boundary, stoppedBy, commands, stop, drained, unread>>

BeginPass ==
    /\ worker = "drain" /\ commands = <<>>
    /\ IF stop THEN worker' = "reject" /\ UNCHANGED <<watcher, unread>>
               ELSE worker' = "pass" /\ watcher' = "watching" /\ unread' = FALSE
    /\ UNCHANGED <<boundary, stoppedBy, commands, wake, stop, drained, call>>

(* The watcher of a pass selects among stop, wake and the end of the pass. *)
Watch ==
    /\ watcher = "watching"
    /\ \/ stop /\ boundary' = TRUE /\ UNCHANGED wake
       \/ wake /\ boundary' = TRUE /\ wake' = FALSE
       \/ worker = "passed" /\ UNCHANGED <<boundary, wake>>
    /\ watcher' = "gone"
    /\ UNCHANGED <<worker, stoppedBy, commands, stop, drained, unread, call>>

(* RunUntilBoundary returns: "woken", because it was asked to; "blocked",  *)
(* "idle" or with an error, which is waited out like idleness; "terminal". *)
PassEnds(how) ==
    /\ worker = "pass"
    /\ how = "woken" => boundary
    /\ worker' = "passed" /\ stoppedBy' = how
    /\ UNCHANGED <<watcher, boundary, commands, wake, stop, drained, unread, call>>

(* The worker waits for its watcher, publishes, and drains again.          *)
Settle ==
    /\ worker = "passed" /\ watcher = "gone"
    /\ worker' = "redrain" /\ boundary' = FALSE
    /\ UNCHANGED <<watcher, stoppedBy, drained, commands, wake, stop, unread, call>>

(* Mutant: the worker sleeps although it executed commands after the pass. *)
AfterPass_Forgetful ==
    /\ worker = "redrain" /\ commands = <<>>
    /\ worker' = CASE stop -> "reject"
                   [] ~stop /\ stoppedBy \in {"idle", "terminal"} -> "wait"
                   [] OTHER -> "top"
    /\ stoppedBy' = "none" /\ drained' = FALSE
    /\ UNCHANGED <<watcher, boundary, commands, wake, stop, unread, call>>

AfterPass ==
    /\ worker = "redrain" /\ commands = <<>>
    /\ worker' = CASE stop -> "reject"
                   [] ~stop /\ ~drained /\ stoppedBy \in {"idle", "terminal"} -> "wait"
                   [] OTHER -> "top"
    /\ stoppedBy' = "none" /\ drained' = FALSE
    /\ UNCHANGED <<watcher, boundary, commands, wake, stop, unread, call>>

Wait ==
    /\ worker = "wait"
    /\ (stop /\ UNCHANGED wake) \/ (wake /\ wake' = FALSE)
    /\ worker' = "top"
    /\ UNCHANGED <<watcher, boundary, stoppedBy, commands, stop, drained, unread, call>>

RejectPending ==
    /\ worker = "reject"
    /\ worker' = "closing" /\ commands' = <<>>
    /\ call' = [c \in Callers |-> IF \E i \in DOMAIN commands : commands[i] = c THEN "closed" ELSE call[c]]
    /\ UNCHANGED <<watcher, boundary, stoppedBy, wake, stop, drained, unread>>

(* The log is closed, and then whoever waits learns that the worker is     *)
(* gone.                                                                   *)
WorkerEnds == worker = "closing" /\ Reset /\ call' = Closed

WorkerStep == Top \/ Execute \/ BeginPass \/ AfterPass \/ Wait \/ RejectPending
=============================================================================
