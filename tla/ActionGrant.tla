----------------------------- MODULE ActionGrant ----------------------------
(***************************************************************************)
(* What exact authorization promises of an action a person is asked about  *)
(* (docs/adr/0011): it is decided once, a grant is spent at most once and  *)
(* before it expires, and the action happens only on a spent grant, once.  *)
(***************************************************************************)
CONSTANTS
    Actions         \* the actions a person may be asked about

VARIABLES
    decision,       \* action -> none, pending, granted, denied, expired or consumed
    elapsed,        \* actions whose grant would be too late
    done            \* actions that happened

grantVars == <<decision, elapsed, done>>

GrantInit ==
    /\ decision = [a \in Actions |-> "none"]
    /\ elapsed = {}
    /\ done = {}

Moves(a, from, to) ==
    /\ decision[a] \in from
    /\ decision' = [decision EXCEPT ![a] = to]
    /\ UNCHANGED <<elapsed, done>>

Request(a) == Moves(a, {"none"}, "pending")
Grant(a) == a \notin elapsed /\ Moves(a, {"pending"}, "granted")
Deny(a) == a \notin elapsed /\ Moves(a, {"pending"}, "denied")
Expire(a) == a \in elapsed /\ Moves(a, {"pending", "granted"}, "expired")
Consume(a) == a \notin elapsed /\ Moves(a, {"granted"}, "consumed")

Happen(a) ==
    /\ decision[a] = "consumed" /\ a \notin done
    /\ done' = done \cup {a}
    /\ UNCHANGED <<decision, elapsed>>

TimePasses(a) ==
    /\ decision[a] # "none"
    /\ elapsed' = elapsed \cup {a}
    /\ UNCHANGED <<decision, done>>

GrantNext ==
    \E a \in Actions :
        \/ Request(a) \/ Grant(a) \/ Deny(a) \/ Expire(a) \/ Consume(a)
        \/ Happen(a) \/ TimePasses(a)

GrantSpec == GrantInit /\ [][GrantNext]_grantVars
=============================================================================
