----------------------------- MODULE MCComments -----------------------------
(* Small instances of Comments.                                            *)
EXTENDS Comments

CONSTANTS d1, d2, u1, u2

OneEach == d1 :> u1 @@ d2 :> u2
=============================================================================
