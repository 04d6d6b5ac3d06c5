------------------------------ MODULE BlockStore ------------------------------
(***************************************************************************)
(* What a buffer object promises to those who store data in it: the blocks *)
(* it has handed out lie inside it, no two of them overlap, and a block    *)
(* stays where it is until the buffer, or its section, is given up.        *)
(***************************************************************************)
EXTENDS Integers

CONSTANT Limit      \* no buffer is larger

VARIABLE held       \* blocks handed out, <<first cell, cell after the last>>

Disjoint(a, b) == a[2] <= b[1] \/ b[2] <= a[1]

\* Nonempty blocks below the limit, pairwise disjoint.
WellPlaced(blocks) ==
  /\ \A a \in blocks : 0 <= a[1] /\ a[1] < a[2] /\ a[2] <= Limit
  /\ \A a, b \in blocks : a # b => Disjoint(a, b)

Init == held = {}

\* Some blocks more, the earlier ones where they were.
Store == held \subseteq held' /\ WellPlaced(held')

\* Some are given up, and none appears.
GiveUp == held' \subseteq held

Next == Store \/ GiveUp

Spec == Init /\ [][Next]_held

==============================================================================
