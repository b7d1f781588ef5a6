---------------------------- MODULE MCSubmission ----------------------------
(* Instances of SubmissionProperties for TLC.                                  *)
EXTENDS SubmissionProperties, TLC

CONSTANTS p1, p2, r1, r2, c1

(* Two schedulers admit the same occurrence, and the second stands for     *)
(* somebody who starts a run of the same name, too.                        *)
TwoComers == (p1 :> {r1}) @@ (p2 :> {r1, r2})

(* A scheduler that submits the occurrence again and again.                *)
OneComer == p1 :> {r1}

(* A bound: once two have prepared at once it is the intake that matters,  *)
(* and the worker of a run is not followed.                                *)
CrowdsPrepare == crowded => worker = "off"
=============================================================================
