--------------------------------- MODULE Lists ---------------------------------
(***************************************************************************)
(* What the page takes from a list with Array.prototype.filter, and the    *)
(* members of a set in an order.                                           *)
(***************************************************************************)
EXTENDS Naturals, Sequences, FiniteSets

\* The items of a list that are in a set, in the list's order.
Keep(list, set) ==
  LET kept[n \in 0 .. Len(list)] ==
        IF n = 0 THEN <<>>
        ELSE kept[n - 1] \o (IF list[n] \in set THEN <<list[n]>> ELSE <<>>)
  IN  kept[Len(list)]

\* The members of a finite set, in the order that the pairs of before say.
Arrange(set, before) ==
  [k \in 1 .. Cardinality(set) |->
     CHOOSE x \in set : Cardinality({y \in set : <<y, x>> \in before}) = k - 1]
================================================================================
