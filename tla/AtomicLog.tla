------------------------------ MODULE AtomicLog ------------------------------
(***************************************************************************)
(* What an append-only log of arxi promises: batches of records become     *)
(* visible whole and in order, and what has been confirmed to a caller     *)
(* stays.  Between becoming visible and being confirmed the last batch can *)
(* still be withdrawn, because its writer was not answered yet.            *)
(*                                                                         *)
(* A record carries its sequence number, the batch it was appended with    *)
(* and how many records that batch has.                                    *)
(***************************************************************************)
EXTENDS Naturals, Sequences, SequencesExt

VARIABLES
    confirmed,  \* the records some caller was told are in the log
    visible     \* the records in the log

logVars == <<confirmed, visible>>

Suffix(s, t) == SubSeq(t, Len(s) + 1, Len(t))

WholeBatch(records) ==
    /\ records # <<>>
    /\ Len(records) = records[1].of
    /\ \A i \in DOMAIN records : records[i].batch = records[1].batch

Init == confirmed = <<>> /\ visible = <<>>

Publish ==
    /\ visible = confirmed
    /\ IsStrictPrefix(visible, visible')
    /\ WholeBatch(Suffix(visible, visible'))
    /\ \A i \in DOMAIN visible' : visible'[i].seq = i
    /\ UNCHANGED confirmed

Confirm ==
    /\ visible # confirmed
    /\ confirmed' = visible
    /\ UNCHANGED visible

Withdraw ==
    /\ visible # confirmed
    /\ visible' = confirmed
    /\ UNCHANGED confirmed

Next == Publish \/ Confirm \/ Withdraw

Spec == Init /\ [][Next]_logVars
=============================================================================
