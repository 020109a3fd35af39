------------------------------ MODULE MCListen ------------------------------
EXTENDS Listen

OneGone == {<<{CHOOSE k \in Keys : TRUE}, 1>>}
Unread  == {<<{}, 0>>}
=============================================================================
