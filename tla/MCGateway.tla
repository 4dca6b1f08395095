----------------------------- MODULE MCGateway -----------------------------
(* Two pipelines of two queues; main calls both and another thread the first. *)
EXTENDS Gateway, TLC

CONSTANTS w1, w2, other

Control == {<<Main, w1>>, <<Main, w2>>, <<other, w1>>}

TwoQueues == (w1 :> 2) @@ (w2 :> 2)

\* One port, both in either order, and one that does not exist.
Lists == {<<0>>, <<1, 0>>, <<0, 2>>}
=============================================================================
