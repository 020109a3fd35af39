--------------------------- MODULE MCEditProfile ---------------------------
(* Small instances of EditProfile.                                         *)
EXTENDS EditProfile

CONSTANTS d1, p1, p2
=============================================================================
