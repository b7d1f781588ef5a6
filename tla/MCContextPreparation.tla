----------------------- MODULE MCContextPreparation ------------------------
(* Instances of ContextPreparation for TLC.                                *)
EXTENDS ContextPreparation, SequencesExt

E(type, call) == [type |-> type, call |-> call]
Says(type) == <<E(type, NoCall)>>
Called(id) == <<E("call", id), E("result", id)>>

(* What a turn appends before the next one begins: text, a native turn of  *)
(* one or two rounds whose tools ran or were denied, a turn that was       *)
(* suspended and never ended, a tool a watcher ran; and what people say.   *)
Segments ==
    { Says("prompt"), Says("decision"), Says("result"), Says("response") \o Says("done"), Says("calls"),
      Says("round") \o Says("response") \o Says("done"),
      Says("calls") \o Says("round") \o Called("c1") \o Says("response") \o Says("done"),
      Says("calls") \o Says("calls") \o Says("round") \o Called("c1") \o Called("c2")
         \o Says("response") \o Says("done"),
      Says("calls") \o Says("round") \o <<E("call", "c1"), E("denied", "c1")>> \o Says("response") \o Says("done") }

(* The three segments that tell a cut where to fall.                       *)
Tails == {Says("prompt"), Says("decision"), Says("calls") \o Says("round") \o Called("c1") \o Says("response") \o Says("done")}

History == {Says("prompt")} \cup {Says("prompt") \o a : a \in Segments}
    \cup {Says("prompt") \o a \o b : a \in Segments, b \in Segments}
    \cup {Says("prompt") \o a \o b \o c : a \in Segments, b \in Segments, c \in Tails}

Texts  == [e \in EventTypes |-> CASE e = "result" -> 8 [] e \in {"round", "response"} -> 5 [] OTHER -> 2]
Bodies == [e \in EventTypes |-> Texts[e] + 4]
=============================================================================
