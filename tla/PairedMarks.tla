----------------------------- MODULE PairedMarks -----------------------------
(***************************************************************************)
(* What PostService.likePost/unlikePost and UserService.follow/unfollow    *)
(* promise of the relation they store twice (post-likes and user-likes,    *)
(* user-following and user-followers): the second copy replays, in order   *)
(* and without gaps, the values the first copy takes.  trail holds the     *)
(* values the second copy has yet to take.                                 *)
(***************************************************************************)
EXTENDS Sequences

CONSTANT Keys
VARIABLES first, second, trail

pairVars == <<first, second, trail>>

Init ==
    /\ first \in [Keys -> BOOLEAN]
    /\ second = first
    /\ trail = [k \in Keys |-> <<>>]

\* The first copy is written.
Lead(k, v) ==
    /\ first' = [first EXCEPT ![k] = v]
    /\ trail' = [trail EXCEPT ![k] = Append(@, v)]
    /\ UNCHANGED second

\* The second copy takes the next value.
CatchUp(k) ==
    /\ trail[k] # <<>>
    /\ second' = [second EXCEPT ![k] = Head(trail[k])]
    /\ trail' = [trail EXCEPT ![k] = Tail(@)]
    /\ UNCHANGED first

Next == \E k \in Keys : CatchUp(k) \/ \E v \in BOOLEAN : Lead(k, v)

Spec == Init /\ [][Next]_pairVars
=============================================================================
