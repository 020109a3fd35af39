------------------------------- MODULE MCLikes -------------------------------
(* Small instances of Likes.                                               *)
EXTENDS Likes

CONSTANTS d1, d2, u1, u2, p1, p2

OwnerU1    == [p \in Posts |-> u1]
OwnerEach  == [p \in Posts |-> IF p = p1 THEN u1 ELSE u2]
UidOneEach == [d \in Devices |-> IF d = d1 THEN u1 ELSE u2]
UidU2      == [d \in Devices |-> u2]
NoDetails  == {}
DetailD1   == {<<d1, p1>>}
Nobody     == {{}}
AnyMayLike == {{}, {<<p1, u1>>}, {<<p1, u2>>}}
=============================================================================
