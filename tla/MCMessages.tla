----------------------------- MODULE MCMessages -----------------------------
(* Small instances of Messages.                                            *)
EXTENDS Messages

CONSTANTS d1, d2, u1, u2

OneEach == d1 :> u1 @@ d2 :> u2
Each    == u1 :> u2 @@ u2 :> u1
=============================================================================
