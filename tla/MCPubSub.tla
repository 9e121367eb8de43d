------------------------------ MODULE MCPubSub ------------------------------
(* A small instance of PubSub. *)
EXTENDS PubSub, TLC

CONSTANTS a, s1, s2, p1, p2

\* The channel, and the channel named twice.
MCSubscribeArgs == {<<a>>, <<a, a>>}

\* Nothing tells the connections apart.
Symmetric == Permutations({s1, s2}) \cup Permutations({p1, p2})
=============================================================================
