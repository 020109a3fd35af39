------------------------------ MODULE MCFollow ------------------------------
(* Small instances of Follow.                                              *)
EXTENDS Follow

CONSTANTS d1, d2, u1, u2, u3

UidOneEach   == [d \in Devices |-> IF d = d1 THEN u1 ELSE u2]
None         == {}
U1OnU2       == {<<d1, u2>>}
BothOnEach   == {<<d1, u2>>, <<d2, u1>>}
NobodyYet    == {{}}
U2FollowsU1  == {{<<u2, u1>>}, {<<u2, u1>>, <<u1, u2>>}}
OnlyU2       == {{<<u2, u1>>}}
AllFollowU1  == {{<<u2, u1>>, <<u3, u1>>}, {<<u2, u1>>, <<u3, u1>>, <<u1, u2>>}}
=============================================================================
