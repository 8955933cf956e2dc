------------------------- MODULE MCSocketOverrides -------------------------
(* Constants of SocketOverrides for TLC; the children are alike, so are    *)
(* the connections a and b, while x leads to another host.                 *)
EXTENDS SocketOverrides, TLC

CONSTANTS server, child1, child2, a, b, x, peer, other

MCProcs     == {server, child1, child2}
MCConns     == {a, b, x}
MCStreams   == {a, b, x}
MCPeer      == [c \in MCConns |-> IF c = x THEN other ELSE peer]
Symmetric   == Permutations({child1, child2}) \cup Permutations({a, b})
=============================================================================
