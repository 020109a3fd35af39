------------------------------ MODULE MCSession ------------------------------
(* Small instances of Session.                                             *)
EXTENDS Session

CONSTANTS d1, d2, u1, u2, u3
=============================================================================
