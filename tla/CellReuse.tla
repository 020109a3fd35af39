------------------------------ MODULE CellReuse ------------------------------
(***************************************************************************)
(* UICollectionView and UITableView (external code).  After reloadData     *)
(* every visible cell is dequeued and bound, by cellForItemAt, to a listed *)
(* item; which cell object serves which item is up to the reuse queue.     *)
(***************************************************************************)
EXTENDS Functions

\* The ways to bind cells to the items of a list: no two cells to one item, and
\* no cell idle (bound to none) while an item has no cell.
Layouts(cells, items, none) ==
    {f \in [cells -> items \cup {none}] :
        /\ \A c1, c2 \in cells : c1 # c2 /\ f[c1] # none => f[c1] # f[c2]
        /\ (\E c \in cells : f[c] = none) => items \subseteq Range(f)}
=============================================================================
