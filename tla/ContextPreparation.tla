------------------------ MODULE ContextPreparation -------------------------
(***************************************************************************)
(* What a member is shown of its past when its turn begins: the log of the *)
(* run projected into items (internal/transcript), and, if they weigh more *)
(* than the limit of the member's context, a selection of them that is     *)
(* shrunk until it fits and verified before it is used                     *)
(* (internal/contextprep, internal/compaction).                            *)
(*                                                                         *)
(* Abstractions.  One member, for whom every event is visible.  An item is *)
(* its kind, the id of its call and how much its text and its message      *)
(* weigh; Frame is the weight of the brackets around a list of messages.   *)
(* An excerpt is as long as its share: that it may end earlier, at the end *)
(* of a sentence, is left out, and so are digests and receipts.            *)
(***************************************************************************)
EXTENDS Integers, Sequences, FiniteSets, FiniteSetsExt

CONSTANTS
    Logs,           \* event sequences the log may hold: records of type and call
    Body,           \* type of event -> weight of the message it is presented as
    Text,           \* type of event -> weight of the text a claim may quote
    Limits,         \* limits of a context, 0 if unknown
    Modes,          \* what may be declared for an overflow
    Static, Input,  \* weight of the frozen framing, and of what this turn adds
    Header, Frame,  \* weight of the first line of a summary, and of a list
    Bullet, Mark,   \* what a claim adds to its text, and one cut short
    NoCall

EventTypes == {"prompt", "response", "round", "calls", "done", "call", "result", "denied", "decision"}

ASSUME PreparationAssumption ==
    /\ \A l \in Logs : \A i \in DOMAIN l : l[i].type \in EventTypes
    /\ \A e \in EventTypes : Body[e] \in Nat \ {0} /\ Text[e] \in Nat \ {0}
    /\ Limits \subseteq Nat /\ {Static, Input, Header, Frame, Bullet, Mark} \subseteq Nat
    /\ \A e \in EventTypes : Body[e] >= Text[e] + Bullet + Mark

VARIABLES
    items,      \* the projected history
    limit, mode,
    verbatim,   \* what is left of the budget of the verbatim window
    cut,        \* items the present selection leaves out of its window
    phase       \* where the preparation is, or how it ended

prepVars == <<items, limit, mode, verbatim, cut, phase>>
-----------------------------------------------------------------------------
(* A model child of this turn was recorded before the response.  Its text  *)
(* is then that of the child ("round" speaks, "calls" only calls tools).   *)
Native(l, i) ==
    \E k \in 1..(i - 1) : l[k].type \in {"round", "calls"} /\ \A d \in k..i : l[d].type # "done"

KindOf(type) ==
    CASE type = "prompt" -> "user_input"
      [] type \in {"response", "round", "calls"} -> "model_output"
      [] type = "call" -> "tool_call"
      [] type = "result" -> "tool_result"
      [] type \in {"denied", "decision"} -> "human_decision"

(* An item keeps what anchors, presentation and citation ask of its event. *)
ItemOf(e) == [kind |-> KindOf(e.type), type |-> e.type, call |-> e.call]

Project(l) ==
    LET shown == {i \in DOMAIN l : l[i].type # "done" /\ ~(l[i].type = "response" /\ Native(l, i))}
        At(n) == CHOOSE i \in shown : Cardinality({k \in shown : k <= i}) = n
    IN  [n \in 1..Cardinality(shown) |-> ItemOf(l[At(n)])]

(* What can be shown at all: a call and a result need an id, and what a    *)
(* policy denied carries no decision of a person.                          *)
Presentable(item) ==
    CASE item.kind \in {"tool_call", "tool_result"} -> item.call # NoCall
      [] item.kind = "human_decision" -> item.type = "decision"
      [] OTHER -> TRUE

Weight(item) == IF Presentable(item) THEN Body[item.type] ELSE 0
PresentationCost(item) == IF Presentable(item) THEN Body[item.type] + Frame ELSE 0

(* What the items after a cut weigh as one layer of the presentation.      *)
Layer(at) ==
    LET sum == MapThenSumSet(LAMBDA i : Weight(items[i]), (at + 1)..Len(items))
    IN  IF sum = 0 THEN 0 ELSE Frame + sum

Pressure(summary, at) == Static + summary + Layer(at) + Input
-----------------------------------------------------------------------------
(* The derived budgets: half of the limit for the window, an eighth for    *)
(* the claims.                                                             *)
VerbatimBudget == limit \div 2
SummaryBudget  == limit \div 8

(* What the continuity of the conversation depends on.                     *)
Anchors ==
    {i \in DOMAIN items :
        \/ items[i].kind = "user_input"
        \/ items[i].type = "decision"
        \/ /\ items[i].type \in {"response", "round"}
           /\ i = Len(items) \/ items[i + 1].kind = "user_input"}

Spent(at) == MapThenSumSet(LAMBDA i : PresentationCost(items[i]), (at + 1)..Len(items))

(* The longest suffix within the budget, at least one item that shows.     *)
LongestSuffix(budget) ==
    LET spent == [c \in 0..Len(items) |-> Spent(c)]
    IN  Min({at \in 0..Len(items) :
                \A c \in (at + 1)..Len(items) : spent[c] = 0 \/ spent[c - 1] <= budget})

(* A window that would begin with a result begins with its call.           *)
CallsBefore(at) == {j \in 1..at : items[j].kind = "tool_call" /\ items[j].call = items[at + 1].call}
VerbatimWindow_SplitsPairs(budget) == LongestSuffix(budget)
VerbatimWindow(budget) ==
    LET at == LongestSuffix(budget)
    IN  IF /\ 0 < at /\ at < Len(items)
           /\ items[at + 1].kind = "tool_result" /\ items[at + 1].call # NoCall
           /\ CallsBefore(at) # {}
        THEN Max(CallsBefore(at)) - 1
        ELSE at

(* An anchor the window leaves behind is cited, in an equal share of the   *)
(* summary's budget.                                                       *)
Cited(at) == {i \in Anchors : i <= at}
Share(cited) == SummaryBudget \div Cardinality(cited)
Excerpt(i, cited) == Min({Text[items[i].type], Share(cited)})
Citable(at) == Cardinality(Cited(at)) <= SummaryBudget

Claim(i, cited) ==
    Excerpt(i, cited) + Bullet + (IF Text[items[i].type] > Share(cited) THEN Mark ELSE 0)

Summary(at) ==
    LET cited == Cited(at)
    IN  IF cited = {} THEN 0
        ELSE Frame + Header + MapThenSumSet(LAMBDA i : Claim(i, cited), cited)

Compacted(at) == Pressure(Summary(at), at)

(* The gate: every claim says something, every result shown has its call,  *)
(* no anchor is dropped.                                                   *)
Verified(at) ==
    LET cited == Cited(at)
        window == (at + 1)..Len(items)
    IN  /\ \A i \in cited : Excerpt(i, cited) > 0
        /\ \A i \in window :
              items[i].kind = "tool_result" /\ items[i].call # NoCall
                 => \E j \in window : items[j].kind = "tool_call" /\ items[j].call = items[i].call
        /\ Anchors \subseteq cited \cup window
-----------------------------------------------------------------------------
PrepInit ==
    /\ \E l \in Logs : items = Project(l)
    /\ limit \in Limits /\ mode \in Modes
    /\ verbatim = VerbatimBudget /\ cut = 0
    /\ phase = "measuring"

(* The whole history is shown if it fits, or if nobody knows the limit;    *)
(* only the declared mode allows anything else.                            *)
Measure ==
    /\ phase = "measuring"
    /\ phase' = IF limit = 0 \/ Pressure(0, 0) <= limit THEN "whole"
                ELSE IF mode = "summarize" THEN "selecting" ELSE "mode"
    /\ UNCHANGED <<items, limit, mode, verbatim, cut>>

(* The generator has nothing to select from, or cannot cite the anchors.   *)
Select ==
    /\ phase = "selecting"
    /\ cut' = VerbatimWindow(verbatim)
    /\ phase' = IF items # <<>> /\ Citable(cut') THEN "weighing" ELSE "uncitable"
    /\ UNCHANGED <<items, limit, mode, verbatim>>

Present ==
    /\ phase = "weighing" /\ Compacted(cut) <= limit
    /\ phase' = IF Verified(cut) THEN "compacted" ELSE "unverified"
    /\ UNCHANGED <<items, limit, mode, verbatim, cut>>

(* The window is as small as it gets.                                      *)
Floor ==
    /\ phase = "weighing" /\ Compacted(cut) > limit
    /\ verbatim <= 0
    /\ phase' = "floor"
    /\ UNCHANGED <<items, limit, mode, verbatim, cut>>

(* What is over the limit comes off the window.                            *)
Shrink_AtZero ==
    /\ phase = "weighing" /\ Compacted(cut) > limit
    /\ verbatim' = Max({0, verbatim - (Compacted(cut) - limit)})
    /\ phase' = "selecting"
    /\ UNCHANGED <<items, limit, mode, cut>>
Shrink ==
    /\ phase = "weighing" /\ Compacted(cut) > limit
    /\ verbatim > 0
    /\ verbatim' = Max({0, verbatim - (Compacted(cut) - limit)})
    /\ phase' = "selecting"
    /\ UNCHANGED <<items, limit, mode, cut>>

PrepNext == Measure \/ Select \/ Present \/ Floor \/ Shrink

PrepSpec == PrepInit /\ [][PrepNext]_prepVars

(* The preparation is one sequential function: it goes on until it ends.   *)
PrepFairSpec == PrepSpec /\ WF_prepVars(PrepNext)
-----------------------------------------------------------------------------
(* What the generator selects passes the gate: no history a run can have   *)
(* makes the preparation fail for what the selection itself did            *)
(* (Extractive.Compact and Verify share anchors and the pairing rule).     *)
SelectionsPass == phase # "unverified"

(* How a preparation may end.                                              *)
FitsWhole     == phase = "whole" /\ (limit = 0 \/ Pressure(0, 0) <= limit)
FitsCompacted == phase = "compacted" /\ mode = "summarize" /\ Compacted(cut) <= limit /\ Verified(cut)
Overflows ==
    /\ limit # 0 /\ Pressure(0, 0) > limit
    /\ \/ phase = "mode" /\ mode # "summarize"
       \/ phase = "floor" /\ Compacted(VerbatimWindow(0)) > limit
       \/ phase = "uncitable" /\ ~Citable(cut)

(* However often the window is shrunk, while every smaller one leaves more *)
(* to cite, the preparation ends: with what fits and passed the gate, or   *)
(* with a refusal after the smallest window was tried and did not fit, or  *)
(* a selection that has no room for its citations (compact).               *)
PreparationSettles == <>[](FitsWhole \/ FitsCompacted \/ Overflows)

(* A context is refused only when no window that shows something would do: *)
(* none whose pairs are whole, whose anchors can be cited and that fits    *)
(* (compact: "so no selection can relieve the pressure").  It holds for    *)
(* some weights and not for others.                                        *)
RefusalIsNeeded ==
    phase \in {"floor", "uncitable"} =>
        \A c \in 0..(Len(items) - 1) :
            Layer(c) > 0 => ~(Citable(c) /\ Verified(c) /\ Compacted(c) <= limit)
=============================================================================
