--------------------------- MODULE MCSortedCompare ---------------------------
(***************************************************************************)
(* SortedCompare with two keys.  The first has as many different rows as   *)
(* an augmenting path with two exchanges needs, and every relation on      *)
(* them.                                                                   *)
(***************************************************************************)
EXTENDS SortedCompare

MCRecords == [key : {1}, row : Rows] \cup {[key |-> 2, row |-> 1]}

MCTolerances ==
  {Identity \cup {a \in Rows \X Rows : {a[1], a[2]} \in E} :
     E \in SUBSET {{x, y} : x, y \in Rows}}

\* The summary of a comparison that succeeded is the best there is: as many rows
\* are paired as can be, and its counters add up to the rows of each file and to
\* the differences reported (compare.go:592-660, 722-790).
SummaryIsBest == MostPairs /\ CountsAddUp
===============================================================================
