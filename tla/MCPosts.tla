------------------------------ MODULE MCPosts ------------------------------
(* Small instances of Posts.                                               *)
EXTENDS Posts

CONSTANTS d1, d2, d3, u1, u2, u3, p1, p2

OneEach == [d \in Devices |-> CASE d = d1 -> u1 [] d = d2 -> u2 [] d = d3 -> u3]
=============================================================================
