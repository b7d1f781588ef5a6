---------------------------- MODULE MCNativeTurn ----------------------------
(* Instances of NativeTurnProperties for TLC.                              *)
EXTENDS NativeTurnProperties, TLC

(* One call of each policy; a round names the allowed one, that and the    *)
(* asked one in either order, or the denied one.                           *)
Policy1 == ("a" :> "allow") @@ ("k" :> "ask") @@ ("d" :> "deny")
Responses1 == {<<>>, <<"a">>, <<"a", "k">>, <<"k", "a">>, <<"d">>}
=============================================================================
