------------------------------ MODULE MCSearch ------------------------------
(* Small instances of Search.                                              *)
EXTENDS Search

CONSTANTS d1, u1, u2, u3, u4, s1, s2

TwoTexts == s1 :> {u1, u2} @@ s2 :> {u2, u4}
=============================================================================
