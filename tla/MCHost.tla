------------------------------- MODULE MCHost -------------------------------
(* Instances of HostProperties for TLC.                                    *)
EXTENDS HostProperties
=============================================================================
