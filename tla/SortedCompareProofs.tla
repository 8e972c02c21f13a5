------------------------- MODULE SortedCompareProofs -------------------------
(***************************************************************************)
(* Proofs about SortedCompare, for all files of any length, any keys and   *)
(* rows, and any tolerances: every row gets one verdict, pairs are one to  *)
(* one and of equivalent rows, LEFT_ONLY and RIGHT_ONLY mean an absent     *)
(* key, no pair is missed, and the summary is the best there is.           *)
(*                                                                         *)
(* The argument: the cursors separate the keys that are done from those    *)
(* that are not (Frontier), so a key is looked at once and in both files   *)
(* together.  Within a key, the stream keeps what it reported below what   *)
(* it has yet to read (Below), and the search keeps the rows it reached    *)
(* linked to its root (Paths), so that a search that ends without a path   *)
(* has seen every row its root could have had.  That as many rows are      *)
(* paired as can be rests on more than the rows themselves, see Covered    *)
(* and DeadEnd below.                                                      *)
(***************************************************************************)
EXTENDS MCSortedCompare, FiniteSetTheorems, TLAPS

Types ==
  /\ left \in Seq(Records) /\ Sorted(left)
  /\ right \in Seq(Records) /\ Sorted(right)
  /\ mode \in Modes
  /\ Identity \subseteq alike
  /\ mode = "stream" => alike = Identity
  /\ pc \in {"merge", "stream", "exact", "root", "scan", "augment", "ok", "error"}
  /\ pc = "stream" => mode = "stream"
  /\ i \in 1 .. Len(left) + 1
  /\ j \in 1 .. Len(right) + 1
  /\ gi \in 1 .. i
  /\ gj \in 1 .. j
  /\ equal \subseteq LeftPos \X RightPos
  /\ onlyLeft \subseteq LeftPos /\ changedLeft \subseteq LeftPos
  /\ onlyRight \subseteq RightPos /\ changedRight \subseteq RightPos
  /\ root \in 1 .. Len(left) + 1
  /\ queue \subseteq LeftPos
  /\ seenRight \subseteq RightPos
  /\ fromLeft \in [RightPos -> Int]

\* The rows of a key are being paired.
Grouping == pc \in {"exact", "root", "scan", "augment"}

\* The rows below these have their verdict.
DoneLeft == IF Grouping THEN gi ELSE i
DoneRight == IF Grouping THEN gj ELSE j

Verdicts ==
  /\ \A p \in onlyLeft \cup changedLeft : p < DoneLeft /\ ~Matched(p)
  /\ \A q \in onlyRight \cup changedRight : q < DoneRight /\ ~Taken(q)
  /\ onlyLeft \cap changedLeft = {}
  /\ onlyRight \cap changedRight = {}
  /\ \A a \in equal : a[1] < i /\ a[2] < j
  /\ \A p \in LeftPos : p < DoneLeft => Matched(p) \/ p \in onlyLeft \cup changedLeft
  /\ \A q \in RightPos : q < DoneRight => Taken(q) \/ q \in onlyRight \cup changedRight

\* The keys of the rows below p0 and q0 are smaller than those of the others.
Separate(p0, q0) ==
  \A p \in LeftPos : \A q \in RightPos :
    /\ p < p0 /\ q >= q0 => left[p].key < right[q].key
    /\ p >= p0 /\ q < q0 => right[q].key < left[p].key

\* From p to q - 1 are rows with the current key.
OnKey(s, p, q) == \A x \in 1 .. Len(s) : p <= x /\ x < q => s[x].key = Key

Frontier ==
  /\ pc = "merge" => Separate(i, j)
  /\ pc \in {"stream", "exact", "root", "scan", "augment"} =>
       /\ gi \in LeftPos /\ gj \in RightPos
       /\ left[gi].key = right[gj].key
       /\ Separate(gi, gj)
       /\ OnKey(left, gi, i) /\ OnKey(right, gj, j)
  /\ Grouping =>
       /\ gi < i /\ gj < j
       /\ i <= Len(left) => left[i].key # Key
       /\ j <= Len(right) => right[j].key # Key
  /\ pc = "ok" => i = Len(left) + 1 /\ j = Len(right) + 1

\* What the stream reported of the key sorts below what it has yet to read.
Below ==
  pc = "stream" =>
    /\ \A q \in changedRight : q >= gj =>
         \A p \in LeftPos : p >= i /\ left[p].key = Key => right[q].row < left[p].row
    /\ \A p \in changedLeft : p >= gi =>
         \A q \in RightPos : q >= j /\ right[q].key = Key => left[p].row < right[q].row

\* A row of the group that was tried and has no partner could not have any of
\* the rows that are free.
Tried ==
  Grouping =>
    /\ gi <= root /\ root <= i
    /\ \A p \in LeftPos : p >= root => ~Matched(p)
    /\ \A p \in GroupLeft : p < root /\ ~Matched(p) =>
         \A r \in GroupRight : Alike(p, r) => Taken(r) \/ (pc = "augment" /\ r = hole)

\* The left rows the search has come to.
Reached == {root} \cup {l \in GroupLeft : \E r \in seenRight : <<l, r>> \in equal}

Paths ==
  pc \in {"scan", "augment"} =>
    /\ root < i
    /\ seenRight \subseteq GroupRight
    /\ \A r \in seenRight : /\ Taken(r) \/ (pc = "augment" /\ r = hole)
                            /\ fromLeft[r] \in Reached
                            /\ Alike(fromLeft[r], r)
    /\ pc = "scan" =>
         /\ queue \subseteq Reached
         /\ \A l \in Reached \ queue : Fresh(l) = {}
    /\ pc = "augment" => hole \in seenRight /\ ~Taken(hole)

IInv ==
  /\ Types
  /\ Verdicts
  /\ PairsAreAlike
  /\ Frontier
  /\ OnlyMeansAbsent
  /\ NoPairMissed
  /\ Below
  /\ Tried
  /\ Paths

(***************************************************************************)
(* Sorted files.                                                           *)
(***************************************************************************)

LEMMA KeysInOrder ==
  ASSUME NEW s \in Seq(Records), Sorted(s),
         NEW p \in 1 .. Len(s), NEW q \in 1 .. Len(s), p <= q
  PROVE  /\ s[p].key \in Int /\ s[q].key \in Int
         /\ s[p].row \in Int /\ s[q].row \in Int
         /\ s[p].key <= s[q].key
         /\ s[p].key = s[q].key => s[p].row <= s[q].row
<1>1. s[p] \in [key : Keys, row : Rows] /\ s[q] \in [key : Keys, row : Rows]
  BY CompareAssumption
<1>2. s[p].key \in Int /\ s[q].key \in Int /\ s[p].row \in Int /\ s[q].row \in Int
  BY <1>1, CompareAssumption
<1>3. CASE p = q
  BY <1>2, <1>3
<1>4. CASE p < q
  BY <1>2, <1>4 DEF Sorted
<1> QED BY <1>3, <1>4

\* A run of a key that begins at g ends where RunEnds says; behind it the keys
\* are larger.
LEMMA RunOfKey ==
  ASSUME NEW s \in Seq(Records), Sorted(s),
         NEW g \in 1 .. Len(s), NEW p \in g .. Len(s) + 1, NEW q \in p .. Len(s) + 1,
         \A x \in 1 .. Len(s) : g <= x /\ x < p => s[x].key = s[g].key,
         RunEnds(s, p, s[g].key, q)
  PROVE  \A x \in 1 .. Len(s) :
           /\ g <= x /\ x < q => s[x].key = s[g].key
           /\ q <= x => s[g].key < s[x].key
<1> SUFFICES ASSUME NEW x \in 1 .. Len(s)
             PROVE  /\ g <= x /\ x < q => s[x].key = s[g].key
                    /\ q <= x => s[g].key < s[x].key
  OBVIOUS
<1>1. g <= x /\ x < q => s[x].key = s[g].key
  BY DEF RunEnds
<1>2. ASSUME q <= x PROVE s[g].key < s[x].key
  <2>1. q \in 1 .. Len(s) /\ s[q].key # s[g].key
    BY <1>2 DEF RunEnds
  <2>2. s[g].key <= s[q].key /\ s[q].key <= s[x].key
        /\ s[g].key \in Int /\ s[q].key \in Int /\ s[x].key \in Int
    BY <1>2, <2>1, KeysInOrder
  <2> QED BY <2>1, <2>2
<1> QED BY <1>1, <1>2

\* A run that begins at g itself.
LEMMA RunFrom ==
  ASSUME NEW s \in Seq(Records), Sorted(s),
         NEW g \in 1 .. Len(s), NEW q \in g + 1 .. Len(s) + 1,
         RunEnds(s, g, s[g].key, q)
  PROVE  \A x \in 1 .. Len(s) :
           /\ g <= x /\ x < q => s[x].key = s[g].key
           /\ q <= x => s[g].key < s[x].key
<1>1. g \in g .. Len(s) + 1 /\ q \in g .. Len(s) + 1
  OBVIOUS
<1>2. \A x \in 1 .. Len(s) : g <= x /\ x < g => s[x].key = s[g].key
  OBVIOUS
<1> QED BY <1>1, <1>2, RunOfKey

(***************************************************************************)
(* The inductive invariant.                                                *)
(***************************************************************************)

LEMMA InitInv == Init => IInv
<1> SUFFICES ASSUME Init PROVE IInv
  OBVIOUS
<1>1. ASSUME NEW s \in Files PROVE s \in Seq(Records) /\ Sorted(s) /\ Len(s) \in Nat
  <2>1. PICK n \in 0 .. MaxRows : s \in [1 .. n -> Records]
    BY DEF Files
  <2> QED BY <2>1, CompareAssumption DEF Files
<1>2. Identity \subseteq alike
  BY CompareAssumption DEF Init, Normalizations
<1>3. Types
  BY <1>1, <1>2 DEF Init, Types, LeftPos, RightPos, Modes
<1>4. ~Grouping /\ pc = "merge" /\ i = 1 /\ j = 1
  BY DEF Init, Grouping
<1>5. Verdicts
  BY <1>3, <1>4 DEF Init, Verdicts, DoneLeft, DoneRight, LeftPos, RightPos
<1>6. Frontier
  BY <1>3, <1>4 DEF Frontier, Separate, LeftPos, RightPos
<1>7. PairsAreAlike /\ OnlyMeansAbsent /\ NoPairMissed
  BY DEF Init, PairsAreAlike, OneToOne, OnlyMeansAbsent, NoPairMissed
<1>8. Below /\ Tried /\ Paths
  BY <1>4 DEF Below, Tried, Paths
<1> QED BY <1>3, <1>5, <1>6, <1>7, <1>8 DEF IInv

\* The cursors and the rows of every list are integers.
LEMMA Positions ==
  ASSUME Types
  PROVE  /\ i \in Int /\ j \in Int /\ gi \in Int /\ gj \in Int /\ gi <= i /\ gj <= j
         /\ LeftPos \subseteq Int /\ RightPos \subseteq Int
         /\ onlyLeft \cup changedLeft \subseteq Int
         /\ onlyRight \cup changedRight \subseteq Int
         /\ \A a \in equal : a[1] \in Int /\ a[2] \in Int
<1>1. LeftPos \subseteq Int /\ RightPos \subseteq Int
  BY DEF LeftPos, RightPos
<1>2. i \in Int /\ j \in Int /\ gi \in Int /\ gj \in Int /\ gi <= i /\ gj <= j
  BY DEF Types
<1>3. onlyLeft \cup changedLeft \subseteq Int /\ onlyRight \cup changedRight \subseteq Int
  BY <1>1 DEF Types
<1>4. \A a \in equal : a[1] \in Int /\ a[2] \in Int
  <2>1. equal \subseteq LeftPos \X RightPos
    BY DEF Types
  <2>2. \A a \in LeftPos \X RightPos : a[1] \in LeftPos /\ a[2] \in RightPos
    OBVIOUS
  <2> QED BY <1>1, <2>1, <2>2
<1> QED BY <1>1, <1>2, <1>3, <1>4

LEMMA TypesInv == IInv /\ [Next]_vars => Types'
<1> SUFFICES ASSUME IInv, [Next]_vars PROVE Types'
  OBVIOUS
<1> USE DEF inputs, report, search
<1>0. Types
  BY DEF IInv
<1>1. CASE FlushLeft
  BY <1>0, <1>1 DEF Types, FlushLeft, LeftPos, RightPos
<1>2. CASE FlushRight
  BY <1>0, <1>2 DEF Types, FlushRight, LeftPos, RightPos
<1>3. CASE StartStream
  BY <1>0, <1>3 DEF Types, StartStream, LeftPos, RightPos
<1>4. CASE ReadGroups
  <2>1. /\ gi' = i /\ gj' = j /\ root' = i
        /\ pc' \in {"exact", "root"} /\ i \in LeftPos /\ j \in RightPos
        /\ UNCHANGED <<inputs, equal, report, queue, seenRight, fromLeft>>
    <3>1. /\ gi' = i /\ gj' = j /\ root' = i
          /\ pc' = IF mode = "exact" THEN "exact" ELSE "root"
          /\ UNCHANGED <<inputs, equal, report, queue, seenRight, fromLeft>>
      BY <1>4 DEF ReadGroups
    <3>2. i \in LeftPos /\ j \in RightPos
      BY <1>0, <1>4 DEF ReadGroups, SameKey, Types, LeftPos, RightPos
    <3> QED BY <3>1, <3>2
  <2>3. i' \in i + 1 .. Len(left) + 1 /\ j' \in j + 1 .. Len(right) + 1
    BY <1>4 DEF ReadGroups
  <2>2. /\ i' \in 1 .. Len(left) + 1 /\ gi' \in 1 .. i' /\ root' \in 1 .. Len(left) + 1
        /\ j' \in 1 .. Len(right) + 1 /\ gj' \in 1 .. j'
    BY <1>0, <2>1, <2>3 DEF Types, LeftPos, RightPos
  <2> QED BY <1>0, <2>1, <2>2 DEF Types, LeftPos, RightPos
<1>5. CASE StreamLeft
  <2>1. /\ i \in 1 .. Len(left) /\ i' = i + 1
        /\ changedLeft' = changedLeft \cup {i}
        /\ UNCHANGED <<inputs, pc, j, gi, gj, equal, onlyLeft, onlyRight, changedRight, search>>
    BY <1>0, <1>5 DEF Types, StreamLeft, InKey
  <2>2. i' \in 1 .. Len(left) + 1 /\ gi \in 1 .. i' /\ changedLeft' \subseteq LeftPos
    BY <1>0, <2>1 DEF Types, LeftPos
  <2> QED BY <1>0, <2>1, <2>2 DEF Types, LeftPos, RightPos
<1>6. CASE StreamRight
  <2>1. /\ j \in 1 .. Len(right) /\ j' = j + 1
        /\ changedRight' = changedRight \cup {j}
        /\ UNCHANGED <<inputs, pc, i, gi, gj, equal, onlyLeft, onlyRight, changedLeft, search>>
    BY <1>0, <1>6 DEF Types, StreamRight, InKey
  <2>2. j' \in 1 .. Len(right) + 1 /\ gj \in 1 .. j' /\ changedRight' \subseteq RightPos
    BY <1>0, <2>1 DEF Types, RightPos
  <2> QED BY <1>0, <2>1, <2>2 DEF Types, LeftPos, RightPos
<1>7. CASE StreamEqual
  BY <1>0, <1>7 DEF Types, StreamEqual, InKey, LeftPos, RightPos
<1>8. CASE StreamEnd
  BY <1>0, <1>8 DEF Types, StreamEnd, LeftPos, RightPos
<1>9. CASE Cancel
  <2>1. GroupRight \subseteq RightPos
    BY <1>0 DEF Types, GroupRight, RightPos
  <2>2. UNCHANGED <<inputs, pc, i, j, gi, gj, report, queue, seenRight, fromLeft>>
    BY <1>9 DEF Cancel
  <2>4. root' \in 1 .. Len(left) + 1
    BY <1>0, <1>9 DEF Types, Cancel
  <2>3. equal' \subseteq LeftPos \X RightPos
    BY <1>0, <1>9, <2>1 DEF Types, Cancel, GroupLeft, LeftPos
  <2> QED BY <1>0, <2>2, <2>3, <2>4 DEF Types, LeftPos, RightPos
<1>10. CASE StartSearch
  BY <1>0, <1>10 DEF Types, StartSearch, LeftPos, RightPos
<1>11. ASSUME NEW l \in LeftPos, Found(l) PROVE Types'
  <2>1. PICK r \in Fresh(l) : fromLeft' = [fromLeft EXCEPT ![r] = l]
                              /\ seenRight' = seenRight \cup {r}
    BY <1>11 DEF Found
  <2>2. r \in RightPos /\ l \in Int
    BY <1>0 DEF Fresh, GroupRight, RightPos, LeftPos, Types
  <2>3. fromLeft' \in [RightPos -> Int] /\ seenRight' \subseteq RightPos
    BY <1>0, <2>1, <2>2 DEF Types
  <2> QED BY <1>0, <1>11, <2>3 DEF Types, Found, LeftPos, RightPos
<1>12. ASSUME NEW l \in LeftPos, Widen(l) PROVE Types'
  <2>1. Fresh(l) \subseteq RightPos /\ GroupLeft \subseteq LeftPos
    BY <1>0 DEF Fresh, GroupRight, GroupLeft, RightPos, LeftPos, Types
  <2>2. fromLeft' \in [RightPos -> Int]
    BY <1>0, <1>12 DEF Types, Widen, LeftPos
  <2>3. seenRight' \subseteq RightPos /\ queue' \subseteq LeftPos
    BY <1>0, <1>12, <2>1 DEF Types, Widen
  <2> QED BY <1>0, <1>12, <2>2, <2>3 DEF Types, Widen, LeftPos, RightPos
<1>13. CASE GiveUp
  BY <1>0, <1>13 DEF Types, GiveUp, LeftPos, RightPos, IInv, Paths
<1>14. CASE Shift
  <2>1. PICK r \in GroupRight :
          /\ <<fromLeft[hole], r>> \in equal
          /\ equal' = (equal \ {<<fromLeft[hole], r>>}) \cup {<<fromLeft[hole], hole>>}
    BY <1>14 DEF Shift
  <2>2. hole \in RightPos
    BY <1>0, <1>14 DEF Shift, IInv, Paths, Types
  <2>3. fromLeft[hole] \in LeftPos
    BY <1>0, <2>1 DEF Types
  <2>4. equal' \subseteq LeftPos \X RightPos
    BY <1>0, <2>1, <2>2, <2>3 DEF Types
  <2> QED BY <1>0, <1>14, <2>4 DEF Types, Shift, LeftPos, RightPos
<1>15. CASE ShiftRoot
  <2>1. hole \in RightPos /\ hole \in seenRight /\ root < i
    BY <1>0, <1>15 DEF ShiftRoot, IInv, Paths, Types
  <2>2. fromLeft[hole] \in Reached
    BY <1>15, <2>1 DEF ShiftRoot, IInv, Paths
  <2>3. fromLeft[hole] \in LeftPos
    BY <1>0, <2>1, <2>2 DEF Reached, GroupLeft, LeftPos, Types
  <2>4. equal' \subseteq LeftPos \X RightPos
    BY <1>0, <1>15, <2>1, <2>3 DEF Types, ShiftRoot
  <2> QED BY <1>0, <1>15, <2>1, <2>4 DEF Types, ShiftRoot, LeftPos, RightPos
<1>16. CASE ReportGroup
  <2>1. changedLeft' \subseteq LeftPos /\ changedRight' \subseteq RightPos
    <3>1. changedLeft' = changedLeft \cup {p \in GroupLeft : ~Matched(p)}
          /\ changedRight' = changedRight \cup {q \in GroupRight : ~Taken(q)}
      BY <1>16 DEF ReportGroup
    <3>2. GroupLeft \subseteq LeftPos /\ GroupRight \subseteq RightPos
      BY <1>0 DEF Types, GroupLeft, GroupRight, LeftPos, RightPos
    <3> QED BY <1>0, <3>1, <3>2 DEF Types
  <2>2. UNCHANGED <<inputs, i, j, gi, gj, equal, onlyLeft, onlyRight, search>> /\ pc' = "merge"
    BY <1>16 DEF ReportGroup
  <2> QED BY <1>0, <2>1, <2>2 DEF Types, LeftPos, RightPos
<1>17. CASE Finish
  BY <1>0, <1>17 DEF Types, Finish, LeftPos, RightPos
<1>18. CASE Fail
  BY <1>0, <1>18 DEF Types, Fail, LeftPos, RightPos
<1>19. CASE UNCHANGED vars
  BY <1>0, <1>19 DEF Types, vars, LeftPos, RightPos
<1> QED BY <1>1, <1>2, <1>3, <1>4, <1>5, <1>6, <1>7, <1>8, <1>9, <1>10, <1>11, <1>12,
           <1>13, <1>14, <1>15, <1>16, <1>17, <1>18, <1>19 DEF Next

(***************************************************************************)
(* The main loop.                                                          *)
(***************************************************************************)

LEMMA FlushLeftInv == IInv /\ Types' /\ FlushLeft => IInv'
<1> SUFFICES ASSUME IInv, Types', FlushLeft PROVE IInv'
  OBVIOUS
<1> USE DEF inputs, report, search
<1>0. Types
  BY DEF IInv
<1>1. PICK q \in i + 1 .. Len(left) + 1 :
        RunEnds(left, i, left[i].key, q) /\ i' = q /\ onlyLeft' = onlyLeft \cup i .. q - 1
  BY DEF FlushLeft
<1>2. /\ pc = "merge" /\ i \in LeftPos
      /\ j \in RightPos => left[i].key < right[j].key
      /\ Len(left) \in Nat /\ Len(right) \in Nat
  BY <1>0 DEF FlushLeft, Types, LeftPos, RightPos
<1>3. UNCHANGED <<inputs, pc, j, gi, gj, equal, onlyRight, changedLeft, changedRight, search>>
  BY DEF FlushLeft
<1>4. \A x \in LeftPos : /\ i <= x /\ x < q => left[x].key = left[i].key
                         /\ q <= x => left[i].key < left[x].key
  <2>1. left \in Seq(Records) /\ Sorted(left) /\ i \in 1 .. Len(left)
    BY <1>0, <1>1, <1>2 DEF Types, LeftPos
  <2> QED BY <1>1, <1>2, <2>1, RunFrom DEF LeftPos
<1>5. ASSUME NEW y \in RightPos
      PROVE  /\ y >= j => left[i].key < right[y].key
             /\ left[i].key # right[y].key
  <2>1. left[i].key \in Int /\ right[y].key \in Int /\ i \in Int /\ y \in Int /\ j \in Int
    <3>1. y \in 1 .. Len(right) /\ y <= y /\ i \in 1 .. Len(left) /\ i <= i
      BY <1>2 DEF RightPos, LeftPos
    <3>2. right[y].key \in Int
      BY <1>0, <3>1, KeysInOrder DEF Types
    <3>3. left[i].key \in Int
      BY <1>0, <3>1, KeysInOrder DEF Types
    <3> QED BY <1>0, <3>1, <3>2, <3>3 DEF Types
  <2>2. CASE y >= j
    <3>1. j \in RightPos
      BY <1>0, <2>2 DEF Types, RightPos
    <3>2. right[j].key <= right[y].key /\ right[j].key \in Int
      BY <1>0, <2>2, <3>1, KeysInOrder DEF Types, RightPos
    <3> QED BY <1>2, <2>1, <3>1, <3>2
  <2>3. CASE y < j
    <3>1. Separate(i, j) /\ i >= i
      BY <1>2, <2>1 DEF IInv, Frontier
    <3>2. right[y].key < left[i].key
      BY <1>2, <2>3, <3>1 DEF Separate
    <3> QED BY <2>1, <2>3, <3>2
  <2> QED BY <2>1, <2>2, <2>3
<1>6. ~Grouping /\ ~Grouping'
  BY <1>2, <1>3 DEF Grouping
<1>7. Verdicts'
  <2>1. Verdicts
    BY DEF IInv
  <2>2. \A p \in Int : Matched(p)' = Matched(p) /\ Taken(p)' = Taken(p)
    BY <1>3 DEF Matched, Taken
  <2>3. \A p \in i .. q - 1 : ~Matched(p)
    <3>1. \A a \in equal : a[1] < i /\ a[1] \in Int
      BY <1>0, <2>1, Positions DEF Verdicts
    <3>2. i \in Int /\ q \in Int
      BY <1>0, <1>1, Positions
    <3>3. \A p \in i .. q - 1 : p \in Int /\ p >= i /\ p < q
      BY <3>2
    <3> QED BY <3>1, <3>2, <3>3 DEF Matched
  <2>4. DoneLeft = i /\ DoneRight = j /\ DoneLeft' = q /\ DoneRight' = j
    BY <1>1, <1>3, <1>6 DEF DoneLeft, DoneRight
  <2>5. i < q /\ i \in Int /\ q \in Int
    BY <1>0, <1>1 DEF Types
  <2>6. \A p \in onlyLeft \cup changedLeft : p < i /\ p \in Int
    BY <1>0, <2>1, <2>4, Positions DEF Verdicts
  <2>7. UNCHANGED <<LeftPos, RightPos, equal, onlyRight, changedLeft, changedRight, j>>
        /\ onlyLeft' = onlyLeft \cup i .. q - 1 /\ i' = q
    BY <1>1, <1>3 DEF LeftPos, RightPos
  <2>8. (\A p \in onlyLeft \cup changedLeft : p < DoneLeft /\ ~Matched(p))'
    <3>1. \A p \in (onlyLeft \cup changedLeft)' : p \in onlyLeft \cup changedLeft \/ p \in i .. q - 1
      BY <2>7
    <3>2. \A p \in onlyLeft \cup changedLeft : p < q /\ ~Matched(p)
      BY <2>1, <2>5, <2>6 DEF Verdicts
    <3>3. \A p \in i .. q - 1 : p < q
      BY <2>5
    <3>4. \A p : Matched(p)' <=> Matched(p)
      BY <1>3 DEF Matched
    <3> QED BY <2>3, <2>4, <3>1, <3>2, <3>3, <3>4
  <2>9. (\A p \in onlyRight \cup changedRight : p < DoneRight /\ ~Taken(p))'
    <3>1. \A p : Taken(p)' <=> Taken(p)
      BY <1>3 DEF Taken
    <3> QED BY <2>1, <2>4, <2>7, <3>1 DEF Verdicts
  <2>10. (onlyLeft \cap changedLeft = {} /\ onlyRight \cap changedRight = {})'
    <3>1. changedLeft \cap (i .. q - 1) = {}
      BY <2>5, <2>6
    <3> QED BY <2>1, <2>7, <3>1 DEF Verdicts
  <2>11. (\A a \in equal : a[1] < i /\ a[2] < j)'
    <3>1. \A a \in equal : a[1] < q
      <4>1. \A a \in equal : a[1] < i /\ a[1] \in Int
        BY <1>0, <2>1, Positions DEF Verdicts
      <4> QED BY <2>5, <4>1
    <3> QED BY <2>1, <2>7, <3>1 DEF Verdicts
  <2>12. (\A p \in LeftPos : p < DoneLeft => Matched(p) \/ p \in onlyLeft \cup changedLeft)'
    <3>1. \A p \in LeftPos : p < q => p < i \/ p \in i .. q - 1
      BY <1>0, <2>5, Positions
    <3>2. \A p : Matched(p)' <=> Matched(p)
      BY <1>3 DEF Matched
    <3> QED BY <2>1, <2>4, <2>7, <3>1, <3>2 DEF Verdicts
  <2>13. (\A p \in RightPos : p < DoneRight => Taken(p) \/ p \in onlyRight \cup changedRight)'
    <3>1. \A p : Taken(p)' <=> Taken(p)
      BY <1>3 DEF Taken
    <3> QED BY <2>1, <2>4, <2>7, <3>1 DEF Verdicts
  <2> QED BY <2>8, <2>9, <2>10, <2>11, <2>12, <2>13 DEF Verdicts
<1>8. Frontier'
  <2>1. Separate(q, j)
    <3> SUFFICES ASSUME NEW p \in LeftPos, NEW y \in RightPos
                 PROVE  /\ p < q /\ y >= j => left[p].key < right[y].key
                        /\ p >= q /\ y < j => right[y].key < left[p].key
      BY DEF Separate
    <3>1. p \in Int /\ i \in Int /\ q \in Int /\ i < q
      BY <1>0, <1>1 DEF LeftPos, Types
    <3> QED BY <1>2, <1>4, <1>5, <3>1 DEF IInv, Frontier, Separate
  <2> QED BY <1>1, <1>2, <1>3, <1>6, <2>1 DEF Frontier, Separate, LeftPos, RightPos
<1>9. OnlyMeansAbsent'
  <2>1. \A p \in i .. q - 1 : \A y \in RightPos : left[p].key # right[y].key
    <3> SUFFICES ASSUME NEW p \in i .. q - 1, NEW y \in RightPos
                 PROVE  left[p].key # right[y].key
      OBVIOUS
    <3>1. p \in LeftPos /\ i <= p /\ p < q
      <4>1. i \in 1 .. Len(left) + 1 /\ q \in i + 1 .. Len(left) + 1 /\ Len(left) \in Nat
        BY <1>0, <1>1, <1>2 DEF Types
      <4> QED BY <4>1 DEF LeftPos
    <3> QED BY <1>4, <1>5, <3>1
  <2> QED BY <1>1, <1>3, <2>1 DEF IInv, OnlyMeansAbsent, LeftPos, RightPos
<1>10. PairsAreAlike' /\ NoPairMissed'
  BY <1>3 DEF IInv, PairsAreAlike, OneToOne, NoPairMissed, Alike
<1>11. Below' /\ Tried' /\ Paths'
  BY <1>2, <1>3, <1>6 DEF Below, Tried, Paths
<1> QED BY <1>7, <1>8, <1>9, <1>10, <1>11 DEF IInv

LEMMA FlushRightInv == IInv /\ Types' /\ FlushRight => IInv'
<1> SUFFICES ASSUME IInv, Types', FlushRight PROVE IInv'
  OBVIOUS
<1> USE DEF inputs, report, search
<1>0. Types
  BY DEF IInv
<1>1. PICK q \in j + 1 .. Len(right) + 1 :
        RunEnds(right, j, right[j].key, q) /\ j' = q /\ onlyRight' = onlyRight \cup j .. q - 1
  BY DEF FlushRight
<1>2. /\ pc = "merge" /\ j \in RightPos
      /\ i \in LeftPos => right[j].key < left[i].key
      /\ Len(right) \in Nat /\ Len(left) \in Nat
  BY <1>0 DEF FlushRight, Types, RightPos, LeftPos
<1>3. UNCHANGED <<inputs, pc, i, gj, gi, equal, onlyLeft, changedRight, changedLeft, search>>
  BY DEF FlushRight
<1>4. \A x \in RightPos : /\ j <= x /\ x < q => right[x].key = right[j].key
                          /\ q <= x => right[j].key < right[x].key
  <2>1. right \in Seq(Records) /\ Sorted(right) /\ j \in 1 .. Len(right)
    BY <1>0, <1>1, <1>2 DEF Types, RightPos
  <2> QED BY <1>1, <1>2, <2>1, RunFrom DEF RightPos
<1>5. ASSUME NEW y \in LeftPos
      PROVE  /\ y >= i => right[j].key < left[y].key
             /\ right[j].key # left[y].key
  <2>1. right[j].key \in Int /\ left[y].key \in Int /\ j \in Int /\ y \in Int /\ i \in Int
    <3>1. y \in 1 .. Len(left) /\ y <= y /\ j \in 1 .. Len(right) /\ j <= j
      BY <1>2 DEF LeftPos, RightPos
    <3>2. left[y].key \in Int
      BY <1>0, <3>1, KeysInOrder DEF Types
    <3>3. right[j].key \in Int
      BY <1>0, <3>1, KeysInOrder DEF Types
    <3> QED BY <1>0, <3>1, <3>2, <3>3 DEF Types
  <2>2. CASE y >= i
    <3>1. i \in LeftPos
      BY <1>0, <2>2 DEF Types, LeftPos
    <3>2. left[i].key <= left[y].key /\ left[i].key \in Int
      BY <1>0, <2>2, <3>1, KeysInOrder DEF Types, LeftPos
    <3> QED BY <1>2, <2>1, <3>1, <3>2
  <2>3. CASE y < i
    <3>1. Separate(i, j) /\ j >= j
      BY <1>2, <2>1 DEF IInv, Frontier
    <3>2. left[y].key < right[j].key
      BY <1>2, <2>3, <3>1 DEF Separate
    <3> QED BY <2>1, <2>3, <3>2
  <2> QED BY <2>1, <2>2, <2>3
<1>6. ~Grouping /\ ~Grouping'
  BY <1>2, <1>3 DEF Grouping
<1>7. Verdicts'
  <2>1. Verdicts
    BY DEF IInv
  <2>2. \A p \in Int : Taken(p)' = Taken(p) /\ Matched(p)' = Matched(p)
    BY <1>3 DEF Taken, Matched
  <2>3. \A p \in j .. q - 1 : ~Taken(p)
    <3>1. \A a \in equal : a[2] < j /\ a[2] \in Int
      BY <1>0, <2>1, Positions DEF Verdicts
    <3>2. j \in Int /\ q \in Int
      BY <1>0, <1>1, Positions
    <3>3. \A p \in j .. q - 1 : p \in Int /\ p >= j /\ p < q
      BY <3>2
    <3> QED BY <3>1, <3>2, <3>3 DEF Taken
  <2>4. DoneRight = j /\ DoneLeft = i /\ DoneRight' = q /\ DoneLeft' = i
    BY <1>1, <1>3, <1>6 DEF DoneRight, DoneLeft
  <2>5. j < q /\ j \in Int /\ q \in Int
    BY <1>0, <1>1 DEF Types
  <2>6. \A p \in onlyRight \cup changedRight : p < j /\ p \in Int
    BY <1>0, <2>1, <2>4, Positions DEF Verdicts
  <2>7. UNCHANGED <<RightPos, LeftPos, equal, onlyLeft, changedRight, changedLeft, i>>
        /\ onlyRight' = onlyRight \cup j .. q - 1 /\ j' = q
    BY <1>1, <1>3 DEF RightPos, LeftPos
  <2>8. (\A p \in onlyRight \cup changedRight : p < DoneRight /\ ~Taken(p))'
    <3>1. \A p \in (onlyRight \cup changedRight)' : p \in onlyRight \cup changedRight \/ p \in j .. q - 1
      BY <2>7
    <3>2. \A p \in onlyRight \cup changedRight : p < q /\ ~Taken(p)
      BY <2>1, <2>5, <2>6 DEF Verdicts
    <3>3. \A p \in j .. q - 1 : p < q
      BY <2>5
    <3>4. \A p : Taken(p)' <=> Taken(p)
      BY <1>3 DEF Taken
    <3> QED BY <2>3, <2>4, <3>1, <3>2, <3>3, <3>4
  <2>9. (\A p \in onlyLeft \cup changedLeft : p < DoneLeft /\ ~Matched(p))'
    <3>1. \A p : Matched(p)' <=> Matched(p)
      BY <1>3 DEF Matched
    <3> QED BY <2>1, <2>4, <2>7, <3>1 DEF Verdicts
  <2>10. (onlyRight \cap changedRight = {} /\ onlyLeft \cap changedLeft = {})'
    <3>1. changedRight \cap (j .. q - 1) = {}
      BY <2>5, <2>6
    <3> QED BY <2>1, <2>7, <3>1 DEF Verdicts
  <2>11. (\A a \in equal : a[1] < i /\ a[2] < j)'
    <3>1. \A a \in equal : a[2] < q
      <4>1. \A a \in equal : a[2] < j /\ a[2] \in Int
        BY <1>0, <2>1, Positions DEF Verdicts
      <4> QED BY <2>5, <4>1
    <3> QED BY <2>1, <2>7, <3>1 DEF Verdicts
  <2>12. (\A p \in RightPos : p < DoneRight => Taken(p) \/ p \in onlyRight \cup changedRight)'
    <3>1. \A p \in RightPos : p < q => p < j \/ p \in j .. q - 1
      BY <1>0, <2>5, Positions
    <3>2. \A p : Taken(p)' <=> Taken(p)
      BY <1>3 DEF Taken
    <3> QED BY <2>1, <2>4, <2>7, <3>1, <3>2 DEF Verdicts
  <2>13. (\A p \in LeftPos : p < DoneLeft => Matched(p) \/ p \in onlyLeft \cup changedLeft)'
    <3>1. \A p : Matched(p)' <=> Matched(p)
      BY <1>3 DEF Matched
    <3> QED BY <2>1, <2>4, <2>7, <3>1 DEF Verdicts
  <2> QED BY <2>8, <2>9, <2>10, <2>11, <2>12, <2>13 DEF Verdicts
<1>8. Frontier'
  <2>1. Separate(i, q)
    <3> SUFFICES ASSUME NEW p \in RightPos, NEW y \in LeftPos
                 PROVE  /\ y < i /\ p >= q => left[y].key < right[p].key
                        /\ y >= i /\ p < q => right[p].key < left[y].key
      BY DEF Separate
    <3>1. p \in Int /\ j \in Int /\ q \in Int /\ j < q
      BY <1>0, <1>1 DEF RightPos, Types
    <3>2. /\ y < i /\ p >= j => left[y].key < right[p].key
          /\ y >= i /\ p < j => right[p].key < left[y].key
      BY <1>2 DEF IInv, Frontier, Separate
    <3>3. ASSUME y >= i, p >= j, p < q
          PROVE  right[p].key < left[y].key
      BY <1>4, <1>5, <3>3
    <3> QED BY <3>1, <3>2, <3>3
  <2> QED BY <1>1, <1>2, <1>3, <1>6, <2>1 DEF Frontier, Separate, RightPos, LeftPos
<1>9. OnlyMeansAbsent'
  <2>1. \A p \in j .. q - 1 : \A y \in LeftPos : right[p].key # left[y].key
    <3> SUFFICES ASSUME NEW p \in j .. q - 1, NEW y \in LeftPos
                 PROVE  right[p].key # left[y].key
      OBVIOUS
    <3>1. p \in RightPos /\ j <= p /\ p < q
      <4>1. j \in 1 .. Len(right) + 1 /\ q \in j + 1 .. Len(right) + 1 /\ Len(right) \in Nat
        BY <1>0, <1>1, <1>2 DEF Types
      <4> QED BY <4>1 DEF RightPos
    <3> QED BY <1>4, <1>5, <3>1
  <2> QED BY <1>1, <1>3, <2>1 DEF IInv, OnlyMeansAbsent, RightPos, LeftPos
<1>10. PairsAreAlike' /\ NoPairMissed'
  BY <1>3 DEF IInv, PairsAreAlike, OneToOne, NoPairMissed, Alike
<1>11. Below' /\ Tried' /\ Paths'
  BY <1>2, <1>3, <1>6 DEF Below, Tried, Paths
<1> QED BY <1>7, <1>8, <1>9, <1>10, <1>11 DEF IInv

LEMMA StartStreamInv == IInv /\ Types' /\ StartStream => IInv'
<1> SUFFICES ASSUME IInv, Types', StartStream PROVE IInv'
  OBVIOUS
<1> USE DEF inputs, report, search
<1>0. Types
  BY DEF IInv
<1>1. /\ pc = "merge" /\ pc' = "stream"
      /\ i \in LeftPos /\ j \in RightPos /\ left[i].key = right[j].key
      /\ gi' = i /\ gj' = j
      /\ UNCHANGED <<inputs, i, j, equal, report, search>>
  BY <1>0 DEF StartStream, SameKey, Types, LeftPos, RightPos
<1>2. ~Grouping /\ ~Grouping'
  BY <1>1 DEF Grouping
<1>3. Verdicts'
  BY <1>1, <1>2 DEF IInv, Verdicts, DoneLeft, DoneRight, Matched, Taken, LeftPos, RightPos
<1>4. Frontier'
  <2>1. Separate(i, j)
    BY <1>1 DEF IInv, Frontier
  <2>2. OnKey(left, gi, i)' /\ OnKey(right, gj, j)'
    BY <1>0, <1>1 DEF OnKey, Types
  <2>3. Separate(gi, gj)'
    BY <1>1, <2>1 DEF Separate, LeftPos, RightPos
  <2> QED BY <1>1, <1>2, <2>2, <2>3 DEF Frontier, LeftPos, RightPos
<1>5. PairsAreAlike' /\ NoPairMissed' /\ OnlyMeansAbsent'
  BY <1>1 DEF IInv, PairsAreAlike, OneToOne, NoPairMissed, OnlyMeansAbsent, Alike, LeftPos, RightPos
<1>6. Below'
  <2>1. \A q \in changedRight : q < j
    BY <1>2 DEF IInv, Verdicts, DoneRight
  <2>2. \A p \in changedLeft : p < i
    BY <1>2 DEF IInv, Verdicts, DoneLeft
  <2>3. i \in Int /\ j \in Int /\ changedLeft \subseteq Int /\ changedRight \subseteq Int
    BY <1>0 DEF Types, LeftPos, RightPos
  <2>4. ~(\E p \in changedLeft : p >= i) /\ ~(\E q \in changedRight : q >= j)
    BY <2>1, <2>2, <2>3
  <2> QED BY <1>1, <2>4 DEF Below
<1>7. Tried' /\ Paths'
  BY <1>1, <1>2 DEF Tried, Paths
<1> QED BY <1>3, <1>4, <1>5, <1>6, <1>7 DEF IInv

LEMMA ReadGroupsInv == IInv /\ Types' /\ ReadGroups => IInv'
<1> SUFFICES ASSUME IInv, Types', ReadGroups PROVE IInv'
  OBVIOUS
<1> USE DEF inputs, report, search
<1>0. Types
  BY DEF IInv
<1>1. /\ pc = "merge" /\ pc' \in {"exact", "root"}
      /\ i \in LeftPos /\ j \in RightPos /\ left[i].key = right[j].key
      /\ gi' = i /\ gj' = j /\ root' = i
      /\ UNCHANGED <<inputs, equal, report>>
      /\ Len(left) \in Nat /\ Len(right) \in Nat
  BY <1>0 DEF ReadGroups, SameKey, Types, LeftPos, RightPos
<1>2. i' \in i + 1 .. Len(left) + 1 /\ RunEnds(left, i, left[i].key, i')
  BY DEF ReadGroups
<1>3. j' \in j + 1 .. Len(right) + 1 /\ RunEnds(right, j, right[j].key, j')
  BY DEF ReadGroups
<1>4. \A x \in LeftPos : /\ i <= x /\ x < i' => left[x].key = left[i].key
                         /\ i' <= x => left[i].key < left[x].key
  <2>1. left \in Seq(Records) /\ Sorted(left) /\ i \in 1 .. Len(left)
    BY <1>0, <1>1, <1>2 DEF Types, LeftPos
  <2> QED BY <1>1, <1>2, <2>1, RunFrom DEF LeftPos
<1>5. \A x \in RightPos : /\ j <= x /\ x < j' => right[x].key = right[j].key
                          /\ j' <= x => right[j].key < right[x].key
  <2>1. right \in Seq(Records) /\ Sorted(right) /\ j \in 1 .. Len(right)
    BY <1>0, <1>1, <1>3 DEF Types, RightPos
  <2> QED BY <1>1, <1>3, <2>1, RunFrom DEF RightPos
<1>6. ~Grouping /\ Grouping'
  BY <1>1 DEF Grouping
<1>7. i < i' /\ j < j' /\ i \in Int /\ j \in Int /\ i' \in Int /\ j' \in Int
  BY <1>0, <1>2, <1>3 DEF Types
<1>8. \A a \in equal : a[1] < i /\ a[2] < j /\ a[1] \in Int /\ a[2] \in Int
  BY <1>0, Positions DEF IInv, Verdicts
<1>9. Verdicts'
  <2>1. DoneLeft = i /\ DoneRight = j /\ DoneLeft' = i /\ DoneRight' = j
    BY <1>1, <1>6 DEF DoneLeft, DoneRight
  <2>2. \A a \in equal : a[1] < i' /\ a[2] < j'
    BY <1>7, <1>8
  <2> QED BY <1>1, <2>1, <2>2 DEF IInv, Verdicts, Matched, Taken, LeftPos, RightPos
<1>10. Frontier'
  <2>1. Separate(i, j)
    BY <1>1 DEF IInv, Frontier
  <2>2. OnKey(left, gi, i)' /\ OnKey(right, gj, j)'
    BY <1>1, <1>4, <1>5 DEF OnKey, LeftPos, RightPos, Key
  <2>3. Separate(gi, gj)'
    BY <1>1, <2>1 DEF Separate, LeftPos, RightPos
  <2>4. (i <= Len(left) => left[i].key # Key)' /\ (j <= Len(right) => right[j].key # Key)'
    BY <1>1, <1>2, <1>3 DEF Key, RunEnds
  <2> QED BY <1>1, <1>6, <1>7, <2>2, <2>3, <2>4 DEF Frontier, LeftPos, RightPos
<1>11. PairsAreAlike' /\ NoPairMissed' /\ OnlyMeansAbsent'
  BY <1>1 DEF IInv, PairsAreAlike, OneToOne, NoPairMissed, OnlyMeansAbsent, Alike, LeftPos, RightPos
<1>12. Tried'
  <2>1. \A p \in LeftPos : p >= i => ~Matched(p)
    BY <1>7, <1>8 DEF Matched
  <2>2. \A p \in i .. i' - 1 : ~(p < i)
    BY <1>7
  <2> QED BY <1>1, <1>7, <2>1, <2>2 DEF Tried, Matched, LeftPos, GroupLeft
<1>13. Below' /\ Paths'
  BY <1>1 DEF Below, Paths
<1> QED BY <1>9, <1>10, <1>11, <1>12, <1>13 DEF IInv

(***************************************************************************)
(* The rows of a key, merged as they are.                                  *)
(***************************************************************************)

LEMMA IdentityOnly ==
  ASSUME Types, pc = "stream", NEW p \in LeftPos, NEW q \in RightPos, Alike(p, q)
  PROVE  left[p].row = right[q].row
BY DEF Types, Alike, Identity

\* The rows of the other file with the current key come after its group's start.
LEMMA SameKeySameGroup ==
  ASSUME Frontier, pc \in {"stream", "exact", "root", "scan", "augment"}, Types,
         NEW p \in LeftPos, NEW q \in RightPos, left[p].key = right[q].key
  PROVE  p >= gi <=> q >= gj
<1>1. Separate(gi, gj) /\ gi \in Int /\ gj \in Int /\ p \in Int /\ q \in Int
  BY DEF Frontier, LeftPos, RightPos
<1>2. left[p].key \in Int /\ right[q].key \in Int
  <2>1. p <= p /\ q <= q
    BY <1>1
  <2>2. left[p].key \in Int
    BY <2>1, KeysInOrder DEF Types, LeftPos
  <2>3. right[q].key \in Int
    BY <2>1, KeysInOrder DEF Types, RightPos
  <2> QED BY <2>2, <2>3
<1>3. /\ p < gi /\ q >= gj => left[p].key < right[q].key
      /\ p >= gi /\ q < gj => right[q].key < left[p].key
  BY <1>1 DEF Separate
<1> QED BY <1>1, <1>2, <1>3

LEMMA StreamLeftInv == IInv /\ Types' /\ StreamLeft => IInv'
<1> SUFFICES ASSUME IInv, Types', StreamLeft PROVE IInv'
  OBVIOUS
<1> USE DEF inputs, report, search
<1>0. Types /\ Frontier
  BY DEF IInv
<1>1. /\ pc = "stream" /\ pc' = "stream"
      /\ i \in LeftPos /\ j \in RightPos
      /\ left[i].key = Key /\ right[j].key = Key
      /\ left[i].row < right[j].row
      /\ i' = i + 1 /\ changedLeft' = changedLeft \cup {i}
      /\ UNCHANGED <<inputs, j, gi, gj, equal, onlyLeft, onlyRight, changedRight, search>>
  BY <1>0 DEF StreamLeft, InKey, Types, LeftPos, RightPos
<1>2. ~Grouping /\ ~Grouping'
  BY <1>1 DEF Grouping
<1>3. i \in Int /\ j \in Int /\ gi \in Int /\ gj \in Int /\ gi <= i /\ gj <= j
      /\ changedLeft \subseteq Int /\ changedRight \subseteq Int
  BY <1>0 DEF Types, LeftPos, RightPos
<1>4. Verdicts'
  <2>1. Verdicts /\ DoneLeft = i /\ DoneRight = j /\ DoneLeft' = i + 1 /\ DoneRight' = j
    BY <1>1, <1>2 DEF IInv, DoneLeft, DoneRight
  <2>2. ~Matched(i) /\ i \notin onlyLeft \cup changedLeft
    BY <1>3, <2>1 DEF Verdicts, Matched
  <2>3. \A p \in Int : Matched(p)' = Matched(p) /\ Taken(p)' = Taken(p)
    BY <1>1 DEF Matched, Taken
  <2>4. \A p \in LeftPos : p < i + 1 => p < i \/ p = i
    BY <1>3 DEF LeftPos
  <2>5. \A p \in onlyLeft \cup changedLeft : p < i + 1 /\ p \in Int
    <3>1. onlyLeft \cup changedLeft \subseteq Int
      BY <1>0 DEF Types, LeftPos
    <3>2. \A p \in onlyLeft \cup changedLeft : p < i
      BY <2>1 DEF Verdicts
    <3> QED BY <1>3, <3>1, <3>2
  <2>6. \A a \in equal : a[1] < i + 1
    <3>1. \A a \in equal : a[1] \in Int
      BY <1>0, Positions
    <3>2. \A a \in equal : a[1] < i
      BY <2>1 DEF Verdicts
    <3> QED BY <1>3, <3>1, <3>2
  <2>7. UNCHANGED <<LeftPos, RightPos, equal, onlyLeft, onlyRight, changedRight, j>>
        /\ changedLeft' = changedLeft \cup {i} /\ i' = i + 1
    BY <1>1 DEF LeftPos, RightPos
  <2>8. (\A p : Matched(p)' <=> Matched(p)) /\ (\A p : Taken(p)' <=> Taken(p))
    BY <1>1 DEF Matched, Taken
  <2>9. (\A p \in onlyLeft \cup changedLeft : p < DoneLeft /\ ~Matched(p))'
    <3>1. \A p \in onlyLeft \cup changedLeft : ~Matched(p)
      BY <2>1 DEF Verdicts
    <3>2. i < i + 1
      BY <1>3
    <3> QED BY <2>1, <2>2, <2>5, <2>7, <2>8, <3>1, <3>2
  <2>10. (\A p \in onlyRight \cup changedRight : p < DoneRight /\ ~Taken(p))'
    BY <2>1, <2>7, <2>8 DEF Verdicts
  <2>11. (onlyLeft \cap changedLeft = {} /\ onlyRight \cap changedRight = {})'
    BY <2>1, <2>2, <2>7 DEF Verdicts
  <2>12. (\A a \in equal : a[1] < i /\ a[2] < j)'
    BY <2>1, <2>6, <2>7 DEF Verdicts
  <2>13. (\A p \in LeftPos : p < DoneLeft => Matched(p) \/ p \in onlyLeft \cup changedLeft)'
    BY <2>1, <2>4, <2>7, <2>8 DEF Verdicts
  <2>14. (\A p \in RightPos : p < DoneRight => Taken(p) \/ p \in onlyRight \cup changedRight)'
    BY <2>1, <2>7, <2>8 DEF Verdicts
  <2> QED BY <2>9, <2>10, <2>11, <2>12, <2>13, <2>14 DEF Verdicts
<1>5. Frontier'
  <2>1. OnKey(left, gi, i)'
    BY <1>0, <1>1, <1>3 DEF Frontier, OnKey, Key, LeftPos
  <2>2. OnKey(right, gj, j)' /\ Separate(gi, gj)'
    BY <1>0, <1>1 DEF Frontier, OnKey, Key, Separate, LeftPos, RightPos
  <2> QED BY <1>0, <1>1, <1>2, <2>1, <2>2 DEF Frontier, LeftPos, RightPos
<1>6. OnlyMeansAbsent'
  BY <1>1 DEF IInv, OnlyMeansAbsent, LeftPos, RightPos
<1>7. NoPairMissed'
  <2>1. ASSUME NEW q \in changedRight, left[i].key = right[q].key
        PROVE  ~Alike(i, q)
    <3>1. q \in RightPos /\ q >= gj
      BY <1>0, <1>1, <1>3, <2>1, SameKeySameGroup DEF Types
    <3>2. right[q].row < left[i].row
      BY <1>1, <1>3, <3>1 DEF IInv, Below
    <3>3. left[i].row \in Int
      BY <1>0, <1>1, <1>3, KeysInOrder, i <= i DEF Types, LeftPos
    <3>4. right[q].row \in Int
      BY <1>0, <1>3, <2>1, <3>1, KeysInOrder, q <= q DEF Types, RightPos
    <3> QED BY <1>0, <1>1, <3>1, <3>2, <3>3, <3>4, IdentityOnly
  <2> QED BY <1>1, <2>1 DEF IInv, NoPairMissed, Alike
<1>8. Below'
  <2>1. ASSUME NEW q \in RightPos, q >= j, right[q].key = Key
        PROVE  left[i].row < right[q].row
    <3>1. right[j].row <= right[q].row /\ right[j].row \in Int /\ right[q].row \in Int
      BY <1>0, <1>1, <2>1, KeysInOrder DEF Types, RightPos
    <3>2. left[i].row \in Int
      BY <1>0, <1>1, <1>3, KeysInOrder, i <= i DEF Types, LeftPos
    <3> QED BY <1>1, <3>1, <3>2
  <2>2. \A p \in LeftPos : p >= i + 1 => p >= i
    BY <1>3 DEF LeftPos
  <2> QED BY <1>1, <2>1, <2>2 DEF IInv, Below, Key, LeftPos, RightPos
<1>9. PairsAreAlike'
  BY <1>1 DEF IInv, PairsAreAlike, OneToOne, Alike
<1>10. Tried' /\ Paths'
  BY <1>1, <1>2 DEF Tried, Paths
<1> QED BY <1>4, <1>5, <1>6, <1>7, <1>8, <1>9, <1>10 DEF IInv

LEMMA StreamRightInv == IInv /\ Types' /\ StreamRight => IInv'
<1> SUFFICES ASSUME IInv, Types', StreamRight PROVE IInv'
  OBVIOUS
<1> USE DEF inputs, report, search
<1>0. Types /\ Frontier
  BY DEF IInv
<1>1. /\ pc = "stream" /\ pc' = "stream"
      /\ j \in RightPos /\ i \in LeftPos
      /\ right[j].key = Key /\ left[i].key = Key
      /\ right[j].row < left[i].row
      /\ j' = j + 1 /\ changedRight' = changedRight \cup {j}
      /\ UNCHANGED <<inputs, i, gj, gi, equal, onlyRight, onlyLeft, changedLeft, search>>
  BY <1>0 DEF StreamRight, InKey, Types, RightPos, LeftPos
<1>2. ~Grouping /\ ~Grouping'
  BY <1>1 DEF Grouping
<1>3. j \in Int /\ i \in Int /\ gj \in Int /\ gi \in Int /\ gj <= j /\ gi <= i
      /\ changedRight \subseteq Int /\ changedLeft \subseteq Int
  BY <1>0 DEF Types, RightPos, LeftPos
<1>4. Verdicts'
  <2>1. Verdicts /\ DoneRight = j /\ DoneLeft = i /\ DoneRight' = j + 1 /\ DoneLeft' = i
    BY <1>1, <1>2 DEF IInv, DoneRight, DoneLeft
  <2>2. ~Taken(j) /\ j \notin onlyRight \cup changedRight
    BY <1>3, <2>1 DEF Verdicts, Taken
  <2>3. \A p \in Int : Taken(p)' = Taken(p) /\ Matched(p)' = Matched(p)
    BY <1>1 DEF Taken, Matched
  <2>4. \A p \in RightPos : p < j + 1 => p < j \/ p = j
    BY <1>3 DEF RightPos
  <2>5. \A p \in onlyRight \cup changedRight : p < j + 1 /\ p \in Int
    <3>1. onlyRight \cup changedRight \subseteq Int
      BY <1>0 DEF Types, RightPos
    <3>2. \A p \in onlyRight \cup changedRight : p < j
      BY <2>1 DEF Verdicts
    <3> QED BY <1>3, <3>1, <3>2
  <2>6. \A a \in equal : a[2] < j + 1
    <3>1. \A a \in equal : a[2] \in Int
      BY <1>0, Positions
    <3>2. \A a \in equal : a[2] < j
      BY <2>1 DEF Verdicts
    <3> QED BY <1>3, <3>1, <3>2
  <2>7. UNCHANGED <<RightPos, LeftPos, equal, onlyRight, onlyLeft, changedLeft, i>>
        /\ changedRight' = changedRight \cup {j} /\ j' = j + 1
    BY <1>1 DEF RightPos, LeftPos
  <2>8. (\A p : Taken(p)' <=> Taken(p)) /\ (\A p : Matched(p)' <=> Matched(p))
    BY <1>1 DEF Taken, Matched
  <2>9. (\A p \in onlyRight \cup changedRight : p < DoneRight /\ ~Taken(p))'
    <3>1. \A p \in onlyRight \cup changedRight : ~Taken(p)
      BY <2>1 DEF Verdicts
    <3>2. j < j + 1
      BY <1>3
    <3> QED BY <2>1, <2>2, <2>5, <2>7, <2>8, <3>1, <3>2
  <2>10. (\A p \in onlyLeft \cup changedLeft : p < DoneLeft /\ ~Matched(p))'
    BY <2>1, <2>7, <2>8 DEF Verdicts
  <2>11. (onlyRight \cap changedRight = {} /\ onlyLeft \cap changedLeft = {})'
    BY <2>1, <2>2, <2>7 DEF Verdicts
  <2>12. (\A a \in equal : a[1] < i /\ a[2] < j)'
    BY <2>1, <2>6, <2>7 DEF Verdicts
  <2>13. (\A p \in RightPos : p < DoneRight => Taken(p) \/ p \in onlyRight \cup changedRight)'
    BY <2>1, <2>4, <2>7, <2>8 DEF Verdicts
  <2>14. (\A p \in LeftPos : p < DoneLeft => Matched(p) \/ p \in onlyLeft \cup changedLeft)'
    BY <2>1, <2>7, <2>8 DEF Verdicts
  <2> QED BY <2>9, <2>10, <2>11, <2>12, <2>13, <2>14 DEF Verdicts
<1>5. Frontier'
  <2>1. OnKey(right, gj, j)'
    BY <1>0, <1>1, <1>3 DEF Frontier, OnKey, Key, RightPos
  <2>2. OnKey(left, gi, i)' /\ Separate(gi, gj)'
    BY <1>0, <1>1 DEF Frontier, OnKey, Key, Separate, RightPos, LeftPos
  <2> QED BY <1>0, <1>1, <1>2, <2>1, <2>2 DEF Frontier, RightPos, LeftPos
<1>6. OnlyMeansAbsent'
  BY <1>1 DEF IInv, OnlyMeansAbsent, RightPos, LeftPos
<1>7. NoPairMissed'
  <2>1. ASSUME NEW q \in changedLeft, left[q].key = right[j].key
        PROVE  ~Alike(q, j)
    <3>1. q \in LeftPos /\ q >= gi
      BY <1>0, <1>1, <1>3, <2>1, SameKeySameGroup DEF Types
    <3>2. left[q].row < right[j].row
      BY <1>1, <1>3, <3>1 DEF IInv, Below
    <3>3. right[j].row \in Int
      BY <1>0, <1>1, <1>3, KeysInOrder, j <= j DEF Types, RightPos
    <3>4. left[q].row \in Int
      BY <1>0, <1>3, <2>1, <3>1, KeysInOrder, q <= q DEF Types, LeftPos
    <3> QED BY <1>0, <1>1, <3>1, <3>2, <3>3, <3>4, IdentityOnly
  <2> QED BY <1>1, <2>1 DEF IInv, NoPairMissed, Alike
<1>8. Below'
  <2>1. ASSUME NEW q \in LeftPos, q >= i, left[q].key = Key
        PROVE  right[j].row < left[q].row
    <3>1. left[i].row <= left[q].row /\ left[i].row \in Int /\ left[q].row \in Int
      BY <1>0, <1>1, <2>1, KeysInOrder DEF Types, LeftPos
    <3>2. right[j].row \in Int
      BY <1>0, <1>1, <1>3, KeysInOrder, j <= j DEF Types, RightPos
    <3> QED BY <1>1, <3>1, <3>2
  <2>2. \A p \in RightPos : p >= j + 1 => p >= j
    BY <1>3 DEF RightPos
  <2> QED BY <1>1, <2>1, <2>2 DEF IInv, Below, Key, RightPos, LeftPos
<1>9. PairsAreAlike'
  BY <1>1 DEF IInv, PairsAreAlike, OneToOne, Alike
<1>10. Tried' /\ Paths'
  BY <1>1, <1>2 DEF Tried, Paths
<1> QED BY <1>4, <1>5, <1>6, <1>7, <1>8, <1>9, <1>10 DEF IInv

LEMMA StreamEqualInv == IInv /\ Types' /\ StreamEqual => IInv'
<1> SUFFICES ASSUME IInv, Types', StreamEqual PROVE IInv'
  OBVIOUS
<1> USE DEF inputs, report, search
<1>0. Types /\ Frontier /\ Verdicts
  BY DEF IInv
<1>1. /\ pc = "stream" /\ pc' = "stream"
      /\ i \in LeftPos /\ j \in RightPos
      /\ left[i].key = Key /\ right[j].key = Key
      /\ left[i].row = right[j].row
      /\ i' = i + 1 /\ j' = j + 1 /\ equal' = equal \cup {<<i, j>>}
      /\ UNCHANGED <<inputs, gi, gj, report, search>>
  BY <1>0 DEF StreamEqual, InKey, Types, LeftPos, RightPos
<1>2. ~Grouping /\ ~Grouping'
  BY <1>1 DEF Grouping
<1>3. i \in Int /\ j \in Int /\ gi \in Int /\ gj \in Int /\ gi <= i /\ gj <= j
  BY <1>0 DEF Types, LeftPos, RightPos
<1>4. \A a \in equal : a[1] < i /\ a[2] < j /\ a[1] \in Int /\ a[2] \in Int
  BY <1>0, Positions DEF Verdicts
<1>5. Verdicts'
  <2>1. DoneLeft = i /\ DoneRight = j /\ DoneLeft' = i + 1 /\ DoneRight' = j + 1
    BY <1>1, <1>2 DEF DoneLeft, DoneRight
  <2>2. /\ \A p : Matched(p)' <=> Matched(p) \/ p = i
        /\ \A q : Taken(q)' <=> Taken(q) \/ q = j
    <3>1. equal' = equal \cup {<<i, j>>} /\ <<i, j>>[1] = i /\ <<i, j>>[2] = j
      BY <1>1
    <3>2. \A p : (\E a \in equal' : a[1] = p) <=> (\E a \in equal : a[1] = p) \/ p = i
      BY <3>1, Zenon
    <3>3. \A q : (\E a \in equal' : a[2] = q) <=> (\E a \in equal : a[2] = q) \/ q = j
      BY <3>1, Zenon
    <3> QED BY <3>2, <3>3 DEF Matched, Taken
  <2>3. \A p \in onlyLeft \cup changedLeft : p < i + 1 /\ ~Matched(p)'
    <3>1. onlyLeft \cup changedLeft \subseteq Int
      BY <1>0 DEF Types, LeftPos
    <3>2. \A p \in onlyLeft \cup changedLeft : p < i /\ ~Matched(p)
      BY <1>0, <2>1 DEF Verdicts
    <3>3. \A p \in onlyLeft \cup changedLeft : p # i /\ p < i + 1
      BY <1>3, <3>1, <3>2
    <3> QED BY <2>2, <3>2, <3>3
  <2>4. \A q \in onlyRight \cup changedRight : q < j + 1 /\ ~Taken(q)'
    <3>1. onlyRight \cup changedRight \subseteq Int
      BY <1>0 DEF Types, RightPos
    <3>2. \A q \in onlyRight \cup changedRight : q < j /\ ~Taken(q)
      BY <1>0, <2>1 DEF Verdicts
    <3>3. \A q \in onlyRight \cup changedRight : q # j /\ q < j + 1
      BY <1>3, <3>1, <3>2
    <3> QED BY <2>2, <3>2, <3>3
  <2>5. \A a \in equal' : a[1] < i + 1 /\ a[2] < j + 1
    <3>1. \A a \in equal : a[1] < i + 1 /\ a[2] < j + 1
      BY <1>3, <1>4
    <3> QED BY <1>1, <1>3, <3>1
  <2>6. \A p \in LeftPos : p < i + 1 => Matched(p)' \/ p \in onlyLeft \cup changedLeft
    <3>1. \A p \in LeftPos : p < i + 1 => p < i \/ p = i
      BY <1>3 DEF LeftPos
    <3> QED BY <1>0, <2>1, <2>2, <3>1 DEF Verdicts
  <2>7. \A q \in RightPos : q < j + 1 => Taken(q)' \/ q \in onlyRight \cup changedRight
    <3>1. \A q \in RightPos : q < j + 1 => q < j \/ q = j
      BY <1>3 DEF RightPos
    <3> QED BY <1>0, <2>1, <2>2, <3>1 DEF Verdicts
  <2>8. onlyLeft \cap changedLeft = {} /\ onlyRight \cap changedRight = {}
    BY <1>0 DEF Verdicts
  <2> QED BY <1>1, <2>1, <2>3, <2>4, <2>5, <2>6, <2>7, <2>8 DEF Verdicts, LeftPos, RightPos
<1>6. Frontier'
  <2>1. OnKey(left, gi, i)'
    <3>1. OnKey(left, gi, i)
      BY <1>0, <1>1 DEF Frontier
    <3>2. \A x \in 1 .. Len(left) : x < i + 1 => x < i \/ x = i
      BY <1>3
    <3>3. Key' = Key /\ left' = left /\ gi' = gi /\ i' = i + 1 /\ left[i].key = Key
      BY <1>1 DEF Key
    <3> QED BY <3>1, <3>2, <3>3 DEF OnKey
  <2>2. OnKey(right, gj, j)'
    <3>1. OnKey(right, gj, j)
      BY <1>0, <1>1 DEF Frontier
    <3>2. \A x \in 1 .. Len(right) : x < j + 1 => x < j \/ x = j
      BY <1>3
    <3>3. Key' = Key /\ right' = right /\ gj' = gj /\ j' = j + 1 /\ right[j].key = Key
      BY <1>1 DEF Key
    <3> QED BY <3>1, <3>2, <3>3 DEF OnKey
  <2>3. Separate(gi, gj)'
    BY <1>0, <1>1 DEF Frontier, Separate, LeftPos, RightPos
  <2> QED BY <1>0, <1>1, <1>2, <2>1, <2>2, <2>3 DEF Frontier, LeftPos, RightPos
<1>7. OnlyMeansAbsent' /\ NoPairMissed'
  BY <1>1 DEF IInv, OnlyMeansAbsent, NoPairMissed, Alike, LeftPos, RightPos
<1>8. Below'
  <2>1. /\ \A p \in LeftPos : p >= i + 1 => p >= i
        /\ \A q \in RightPos : q >= j + 1 => q >= j
    BY <1>3 DEF LeftPos, RightPos
  <2> QED BY <1>1, <2>1 DEF IInv, Below, Key, LeftPos, RightPos
<1>9. PairsAreAlike'
  <2>1. OneToOne(equal')
    <3>1. OneToOne(equal)
      BY DEF IInv, PairsAreAlike
    <3>2. \A a \in equal : a[1] # i /\ a[2] # j
      BY <1>3, <1>4
    <3> QED BY <1>1, <3>1, <3>2 DEF OneToOne
  <2>2. Alike(i, j)
    <3>1. left[i].row \in Rows
      <4>1. left \in Seq(Records) /\ i \in 1 .. Len(left)
        BY <1>0, <1>1 DEF Types, LeftPos
      <4>2. left[i] \in [key : Keys, row : Rows]
        BY <4>1, CompareAssumption
      <4> QED BY <4>2
    <3> QED BY <1>0, <1>1, <3>1 DEF Types, Identity, Alike
  <2>3. \A a \in equal : left[a[1]].key = right[a[2]].key /\ Alike(a[1], a[2])
    BY DEF IInv, PairsAreAlike
  <2> QED BY <1>1, <2>1, <2>2, <2>3 DEF PairsAreAlike, OneToOne, Alike
<1>10. Tried' /\ Paths'
  BY <1>1, <1>2 DEF Tried, Paths
<1> QED BY <1>5, <1>6, <1>7, <1>8, <1>9, <1>10 DEF IInv

LEMMA StreamEndInv == IInv /\ Types' /\ StreamEnd => IInv'
<1> SUFFICES ASSUME IInv, Types', StreamEnd PROVE IInv'
  OBVIOUS
<1> USE DEF inputs, report, search
<1>0. Types /\ Frontier /\ Verdicts
  BY DEF IInv
<1>1. PICK p \in i .. Len(left) + 1, q \in j .. Len(right) + 1 :
        /\ RunEnds(left, i, Key, p)
        /\ RunEnds(right, j, Key, q)
        /\ i' = p
        /\ j' = q
        /\ changedLeft' = changedLeft \cup i .. p - 1
        /\ changedRight' = changedRight \cup j .. q - 1
  BY DEF StreamEnd
<1>2. /\ pc = "stream" /\ pc' = "merge" /\ ~InKey
      /\ UNCHANGED <<inputs, gi, gj, equal, onlyLeft, onlyRight, search>>
  BY DEF StreamEnd
<1>3. /\ gi \in LeftPos /\ gj \in RightPos /\ left[gi].key = Key /\ right[gj].key = Key
      /\ gi \in 1 .. Len(left) /\ gj \in 1 .. Len(right)
      /\ Separate(gi, gj) /\ OnKey(left, gi, i) /\ OnKey(right, gj, j)
  BY <1>0, <1>2 DEF Frontier, Key, LeftPos, RightPos
<1>4. /\ i \in Int /\ j \in Int /\ gi \in Int /\ gj \in Int /\ gi <= i /\ gj <= j
      /\ p \in Int /\ q \in Int /\ i <= p /\ j <= q
      /\ Len(left) \in Nat /\ Len(right) \in Nat
      /\ i \in gi .. Len(left) + 1 /\ j \in gj .. Len(right) + 1
  <2>1. /\ i \in Int /\ j \in Int /\ gi \in Int /\ gj \in Int /\ gi <= i /\ gj <= j
        /\ Len(left) \in Nat /\ Len(right) \in Nat
    <3>1. Len(left) \in Nat /\ Len(right) \in Nat
      <4>1. left \in Seq(Records) /\ right \in Seq(Records)
        BY <1>0 DEF Types
      <4> QED BY <4>1
    <3> QED BY <1>0, <3>1, Positions
  <2>2. i <= Len(left) + 1 /\ j <= Len(right) + 1
    BY <1>0 DEF Types
  <2> QED BY <1>1, <2>1, <2>2
<1>5. \A x \in LeftPos : /\ gi <= x /\ x < p => left[x].key = Key
                         /\ p <= x => Key < left[x].key
  <2>1. left \in Seq(Records) /\ Sorted(left) /\ RunEnds(left, i, left[gi].key, p)
    BY <1>0, <1>1, <1>3 DEF Types
  <2>2. \A x \in 1 .. Len(left) : gi <= x /\ x < i => left[x].key = left[gi].key
    BY <1>3 DEF OnKey
  <2>3. \A x \in 1 .. Len(left) : /\ gi <= x /\ x < p => left[x].key = left[gi].key
                                  /\ p <= x => left[gi].key < left[x].key
    BY <1>1, <1>3, <1>4, <2>1, <2>2, RunOfKey
  <2> QED BY <1>3, <2>3 DEF LeftPos
<1>6. \A x \in RightPos : /\ gj <= x /\ x < q => right[x].key = Key
                          /\ q <= x => Key < right[x].key
  <2>1. right \in Seq(Records) /\ Sorted(right) /\ RunEnds(right, j, right[gj].key, q)
    BY <1>0, <1>1, <1>3 DEF Types
  <2>2. \A x \in 1 .. Len(right) : gj <= x /\ x < j => right[x].key = right[gj].key
    BY <1>3 DEF OnKey
  <2>3. \A x \in 1 .. Len(right) : /\ gj <= x /\ x < q => right[x].key = right[gj].key
                                   /\ q <= x => right[gj].key < right[x].key
    BY <1>1, <1>3, <1>4, <2>1, <2>2, RunOfKey
  <2> QED BY <1>3, <2>3 DEF RightPos
<1>7. ~Grouping /\ ~Grouping'
  BY <1>2 DEF Grouping
<1>8. Verdicts'
  <2>1. DoneLeft = i /\ DoneRight = j /\ DoneLeft' = p /\ DoneRight' = q
    BY <1>1, <1>7 DEF DoneLeft, DoneRight
  <2>2. \A x : (Matched(x)' <=> Matched(x)) /\ (Taken(x)' <=> Taken(x))
    BY <1>2 DEF Matched, Taken
  <2>3. \A a \in equal : a[1] < i /\ a[2] < j /\ a[1] \in Int /\ a[2] \in Int
    <3>1. \A a \in equal : a[1] \in Int /\ a[2] \in Int
      <4>1. equal \subseteq LeftPos \X RightPos
        BY <1>0 DEF Types
      <4>2. LeftPos \subseteq Int /\ RightPos \subseteq Int
        BY DEF LeftPos, RightPos
      <4> QED BY <4>1, <4>2
    <3>2. \A a \in equal : a[1] < i /\ a[2] < j
      BY <1>0 DEF Verdicts
    <3> QED BY <3>1, <3>2
  <2>4. (\A x \in i .. p - 1 : ~Matched(x)) /\ (\A x \in j .. q - 1 : ~Taken(x))
    BY <1>4, <2>3 DEF Matched, Taken
  <2>5. \A x \in onlyLeft \cup changedLeft : x \in Int /\ x < i /\ ~Matched(x)
    <3>1. onlyLeft \cup changedLeft \subseteq Int
      BY <1>0 DEF Types, LeftPos
    <3> QED BY <1>0, <2>1, <3>1 DEF Verdicts
  <2>6. \A x \in onlyRight \cup changedRight : x \in Int /\ x < j /\ ~Taken(x)
    <3>1. onlyRight \cup changedRight \subseteq Int
      BY <1>0 DEF Types, RightPos
    <3> QED BY <1>0, <2>1, <3>1 DEF Verdicts
  <2>7. \A x \in onlyLeft \cup changedLeft' : x < p /\ ~Matched(x)
    BY <1>1, <1>4, <2>4, <2>5
  <2>8. \A x \in onlyRight \cup changedRight' : x < q /\ ~Taken(x)
    BY <1>1, <1>4, <2>4, <2>6
  <2>9. \A a \in equal : a[1] < p /\ a[2] < q
    BY <1>4, <2>3
  <2>10. onlyLeft \cap changedLeft' = {} /\ onlyRight \cap changedRight' = {}
    BY <1>0, <1>1, <1>4, <2>5, <2>6 DEF Verdicts
  <2>11. \A x \in LeftPos : x < p => Matched(x) \/ x \in onlyLeft \cup changedLeft'
    <3>1. \A x \in LeftPos : x < p => x < i \/ x \in i .. p - 1
      BY <1>4 DEF LeftPos
    <3> QED BY <1>0, <1>1, <2>1, <3>1 DEF Verdicts
  <2>12. \A x \in RightPos : x < q => Taken(x) \/ x \in onlyRight \cup changedRight'
    <3>1. \A x \in RightPos : x < q => x < j \/ x \in j .. q - 1
      BY <1>4 DEF RightPos
    <3> QED BY <1>0, <1>1, <2>1, <3>1 DEF Verdicts
  <2>13. /\ UNCHANGED <<LeftPos, RightPos, equal, onlyLeft, onlyRight>>
         /\ i' = p /\ j' = q
    BY <1>1, <1>2 DEF LeftPos, RightPos
  <2>14. /\ \A x \in onlyLeft' \cup changedLeft' : x < DoneLeft' /\ ~Matched(x)'
         /\ \A x \in onlyRight' \cup changedRight' : x < DoneRight' /\ ~Taken(x)'
    BY <2>1, <2>2, <2>7, <2>8, <2>13
  <2>15. /\ \A x \in LeftPos' : x < DoneLeft' => Matched(x)' \/ x \in onlyLeft' \cup changedLeft'
         /\ \A x \in RightPos' : x < DoneRight' => Taken(x)' \/ x \in onlyRight' \cup changedRight'
    BY <2>1, <2>2, <2>11, <2>12, <2>13
  <2> QED BY <2>9, <2>10, <2>13, <2>14, <2>15 DEF Verdicts
<1>9. Frontier'
  <2>1. Separate(p, q)
    <3> SUFFICES ASSUME NEW x \in LeftPos, NEW y \in RightPos
                 PROVE  /\ x < p /\ y >= q => left[x].key < right[y].key
                        /\ x >= p /\ y < q => right[y].key < left[x].key
      BY DEF Separate
    <3>1. x \in Int /\ y \in Int
      BY DEF LeftPos, RightPos
    <3>2. /\ x < gi /\ y >= gj => left[x].key < right[y].key
          /\ x >= gi /\ y < gj => right[y].key < left[x].key
      BY <1>3 DEF Separate
    <3>3. left[x].key \in Int /\ right[y].key \in Int /\ Key \in Int
      <4>1. x <= x /\ y <= y /\ gi <= gi
        BY <1>4, <3>1
      <4>2. left[x].key \in Int /\ left[gi].key \in Int
        BY <1>0, <1>3, <4>1, KeysInOrder DEF Types, LeftPos
      <4>3. right[y].key \in Int
        BY <1>0, <4>1, KeysInOrder DEF Types, RightPos
      <4> QED BY <1>3, <4>2, <4>3
    <3>4. CASE x < gi
      <4>1. y >= q => y >= gj
        BY <1>4, <3>1
      <4>2. ~(x >= p)
        BY <1>4, <3>1, <3>4
      <4> QED BY <3>2, <3>4, <4>1, <4>2
    <3>5. CASE x >= gi /\ x < p
      <4>1. left[x].key = Key /\ ~(x >= p)
        BY <1>5, <3>1, <3>5
      <4>2. y >= q => Key < right[y].key
        BY <1>6, <3>1
      <4> QED BY <4>1, <4>2
    <3>6. CASE x >= p
      <4>1. Key < left[x].key /\ ~(x < p) /\ x >= gi
        BY <1>4, <1>5, <3>1, <3>6
      <4>2. y < gj => right[y].key < left[x].key
        BY <3>2, <4>1
      <4>3. y >= gj /\ y < q => right[y].key = Key
        BY <1>6, <3>1
      <4>4. y < q => y < gj \/ y >= gj
        BY <1>4, <3>1
      <4> QED BY <4>1, <4>2, <4>3, <4>4
    <3> QED BY <1>4, <3>1, <3>4, <3>5, <3>6
  <2> QED BY <1>1, <1>2, <1>7, <2>1 DEF Frontier, Separate, LeftPos, RightPos
<1>10. i .. p - 1 \subseteq LeftPos /\ j .. q - 1 \subseteq RightPos
  <2>1. 1 <= i /\ p <= Len(left) + 1 /\ 1 <= j /\ q <= Len(right) + 1
    BY <1>0, <1>1, <1>4 DEF Types
  <2>2. i .. p - 1 \subseteq 1 .. Len(left)
    BY <1>4, <2>1
  <2>3. j .. q - 1 \subseteq 1 .. Len(right)
    BY <1>4, <2>1
  <2> QED BY <2>2, <2>3 DEF LeftPos, RightPos
<1>11. OnlyMeansAbsent'
  <2>1. \A x \in i .. p - 1 : left[x].key = right[gj].key
    <3>1. \A x \in i .. p - 1 : x \in LeftPos /\ gi <= x /\ x < p
      BY <1>4, <1>10
    <3> QED BY <1>3, <1>5, <3>1
  <2>2. \A x \in j .. q - 1 : left[gi].key = right[x].key
    <3>1. \A x \in j .. q - 1 : x \in RightPos /\ gj <= x /\ x < q
      BY <1>4, <1>10
    <3> QED BY <1>3, <1>6, <3>1
  <2>3. /\ \A x \in changedLeft' : \E y \in RightPos : left[x].key = right[y].key
        /\ \A y \in changedRight' : \E x \in LeftPos : left[x].key = right[y].key
    BY <1>1, <1>3, <2>1, <2>2 DEF IInv, OnlyMeansAbsent
  <2> QED BY <1>2, <2>3 DEF IInv, OnlyMeansAbsent, LeftPos, RightPos
<1>12. NoPairMissed'
  <2> SUFFICES ASSUME NEW x \in changedLeft', NEW y \in changedRight',
                      left[x].key = right[y].key
               PROVE  ~Alike(x, y)
    BY <1>2 DEF NoPairMissed, Alike
  <2>1. x \in LeftPos /\ y \in RightPos /\ x \in Int /\ y \in Int
    <3>1. changedLeft \subseteq LeftPos /\ changedRight \subseteq RightPos
      BY <1>0 DEF Types
    <3>2. x \in LeftPos /\ y \in RightPos
      BY <1>1, <1>10, <3>1
    <3> QED BY <3>2 DEF LeftPos, RightPos
  <2>2. left[x].row \in Int /\ right[y].row \in Int
    <3>1. x \in 1 .. Len(left) /\ x <= x /\ y \in 1 .. Len(right) /\ y <= y
      BY <2>1 DEF LeftPos, RightPos
    <3>2. left[x].row \in Int
      BY <1>0, <3>1, KeysInOrder DEF Types
    <3>3. right[y].row \in Int
      BY <1>0, <3>1, KeysInOrder DEF Types
    <3> QED BY <3>2, <3>3
  <2>3. CASE x \in changedLeft /\ y \in changedRight
    BY <2>3 DEF IInv, NoPairMissed
  <2>4. CASE x \in i .. p - 1 /\ y \in changedRight
    <3>1. x >= i /\ x >= gi /\ left[x].key = Key
      <4>1. x >= i /\ x >= gi /\ x < p
        BY <1>4, <2>1, <2>4
      <4> QED BY <1>5, <2>1, <4>1
    <3>2. y >= gj
      BY <1>0, <1>2, <2>1, <3>1, SameKeySameGroup
    <3>3. right[y].row < left[x].row
      BY <1>2, <2>1, <2>4, <3>1, <3>2 DEF IInv, Below
    <3> QED BY <1>0, <1>2, <2>1, <2>2, <3>3, IdentityOnly
  <2>5. CASE x \in changedLeft /\ y \in j .. q - 1
    <3>1. y >= j /\ y >= gj /\ right[y].key = Key
      BY <1>4, <1>6, <2>1, <2>5
    <3>2. x >= gi
      BY <1>0, <1>2, <2>1, <3>1, SameKeySameGroup
    <3>3. left[x].row < right[y].row
      BY <1>2, <2>1, <2>5, <3>1, <3>2 DEF IInv, Below
    <3> QED BY <1>0, <1>2, <2>1, <2>2, <3>3, IdentityOnly
  <2>6. CASE x \in i .. p - 1 /\ y \in j .. q - 1
    <3>1. i < p /\ j < q /\ i \in LeftPos /\ j \in RightPos
      BY <1>4, <1>10, <2>6
    <3>2. left[i].key = Key /\ right[j].key = Key
      BY <1>4, <1>5, <1>6, <3>1
    <3>3. InKey
      BY <3>1, <3>2 DEF InKey, LeftPos, RightPos
    <3> QED BY <1>2, <3>3
  <2> QED BY <1>1, <2>3, <2>4, <2>5, <2>6
<1>13. PairsAreAlike'
  BY <1>2 DEF IInv, PairsAreAlike, OneToOne, Alike
<1>14. Below' /\ Tried' /\ Paths'
  BY <1>2, <1>7 DEF Below, Tried, Paths
<1> QED BY <1>8, <1>9, <1>11, <1>12, <1>13, <1>14 DEF IInv

(***************************************************************************)
(* The rows of a key, collected.                                           *)
(***************************************************************************)

Groups == {"exact", "root", "scan", "augment"}

LEMMA GroupFacts ==
  ASSUME IInv, Grouping
  PROVE  /\ gi \in LeftPos /\ gj \in RightPos
         /\ LeftPos \subseteq Int /\ RightPos \subseteq Int
         /\ i \in Int /\ j \in Int /\ gi < i /\ gj < j /\ root \in Int
         /\ GroupLeft \subseteq LeftPos /\ GroupRight \subseteq RightPos
         /\ \A l \in GroupLeft : left[l].key = Key
         /\ \A r \in GroupRight : right[r].key = Key
         /\ equal \subseteq LeftPos \X RightPos
         /\ \A a \in equal : a[1] \in GroupLeft <=> a[2] \in GroupRight
<1>0. Types /\ Frontier /\ pc \in {"stream", "exact", "root", "scan", "augment"}
  BY DEF IInv, Grouping
<1>1. /\ gi \in LeftPos /\ gj \in RightPos /\ left[gi].key = right[gj].key
      /\ i \in Int /\ j \in Int /\ gi < i /\ gj < j /\ root \in Int
      /\ equal \subseteq LeftPos \X RightPos
      /\ i - 1 <= Len(left) /\ j - 1 <= Len(right)
  BY <1>0 DEF Frontier, Types
<1>2. LeftPos \subseteq Int /\ RightPos \subseteq Int
  BY DEF LeftPos, RightPos
<1>3. GroupLeft \subseteq LeftPos /\ GroupRight \subseteq RightPos
  BY <1>0, <1>1 DEF GroupLeft, GroupRight, LeftPos, RightPos, Types
<1>4. \A l \in GroupLeft : left[l].key = Key
  <2>1. OnKey(left, gi, i)
    BY <1>0 DEF Frontier
  <2>2. \A l \in GroupLeft : gi <= l /\ l < i /\ l \in 1 .. Len(left)
    BY <1>1, <1>2, <1>3 DEF GroupLeft, LeftPos
  <2> QED BY <2>1, <2>2 DEF OnKey
<1>5. \A r \in GroupRight : right[r].key = Key
  <2>1. OnKey(right, gj, j)
    BY <1>0 DEF Frontier
  <2>2. \A r \in GroupRight : gj <= r /\ r < j /\ r \in 1 .. Len(right)
    BY <1>1, <1>2, <1>3 DEF GroupRight, RightPos
  <2> QED BY <2>1, <2>2 DEF OnKey
<1>6. ASSUME NEW a \in equal PROVE a[1] \in GroupLeft <=> a[2] \in GroupRight
  <2>1. a[1] \in LeftPos /\ a[2] \in RightPos
    BY <1>1
  <2>2. left[a[1]].key = right[a[2]].key
    BY DEF IInv, PairsAreAlike
  <2>3. a[1] >= gi <=> a[2] >= gj
    BY <1>0, <2>1, <2>2, SameKeySameGroup
  <2>4. a[1] < i /\ a[2] < j
    BY DEF IInv, Verdicts
  <2>5. a[1] \in Int /\ a[2] \in Int /\ gi \in Int /\ gj \in Int
    BY <1>1, <1>2, <2>1
  <2>6. a[1] \in GroupLeft <=> a[1] >= gi
    BY <1>1, <2>4, <2>5 DEF GroupLeft
  <2>7. a[2] \in GroupRight <=> a[2] >= gj
    BY <1>1, <2>4, <2>5 DEF GroupRight
  <2> QED BY <2>3, <2>6, <2>7
<1> QED BY <1>1, <1>2, <1>3, <1>4, <1>5, <1>6

\* The parts of the invariant that are not about the search itself, when pairs
\* stay as they are ...
LEMMA SamePairs ==
  ASSUME IInv, Grouping, pc' \in Groups,
         UNCHANGED <<inputs, i, j, gi, gj, equal, report>>
  PROVE  /\ Verdicts' /\ PairsAreAlike' /\ Frontier'
         /\ OnlyMeansAbsent' /\ NoPairMissed' /\ Below'
<1> USE DEF inputs, report
<1>1. Grouping' /\ pc \in Groups /\ DoneLeft' = DoneLeft /\ DoneRight' = DoneRight
  BY DEF Grouping, Groups, DoneLeft, DoneRight
<1>2. PairsAreAlike' /\ OnlyMeansAbsent' /\ NoPairMissed'
  BY DEF IInv, PairsAreAlike, OneToOne, OnlyMeansAbsent, NoPairMissed, Alike, LeftPos, RightPos
<1>3. Verdicts'
  BY <1>1 DEF IInv, Verdicts, Matched, Taken, LeftPos, RightPos
<1>4. Frontier'
  BY <1>1 DEF IInv, Frontier, Grouping, Groups, Separate, OnKey, Key, LeftPos, RightPos
<1>5. Below'
  BY DEF Below, Groups
<1> QED BY <1>2, <1>3, <1>4, <1>5

\* ... and when a pair <<l, r>> is made, the pairs of the group that are not in
\* E given up for it.
LEMMA NewPair ==
  ASSUME IInv, Grouping, pc' \in Groups,
         UNCHANGED <<inputs, i, j, gi, gj, report>>,
         NEW l \in GroupLeft, NEW r \in GroupRight, Alike(l, r),
         NEW E, E \subseteq equal, \A a \in equal \ E : a[1] \in GroupLeft,
         \A a \in E : a[1] # l /\ a[2] # r,
         equal' = E \cup {<<l, r>>}
  PROVE  /\ Verdicts' /\ PairsAreAlike' /\ Frontier'
         /\ OnlyMeansAbsent' /\ NoPairMissed' /\ Below'
<1> USE DEF inputs, report
<1>1. /\ Grouping' /\ pc \in Groups
      /\ DoneLeft = gi /\ DoneRight = gj /\ DoneLeft' = gi /\ DoneRight' = gj
  BY DEF Grouping, Groups, DoneLeft, DoneRight
<1>2. /\ l \in LeftPos /\ r \in RightPos /\ gi <= l /\ l < i /\ gj <= r /\ r < j
      /\ left[l].key = right[r].key
      /\ LeftPos \subseteq Int /\ RightPos \subseteq Int /\ gi \in Int /\ gj \in Int
  BY GroupFacts DEF GroupLeft, GroupRight
<1>3. OnlyMeansAbsent' /\ NoPairMissed'
  BY DEF IInv, OnlyMeansAbsent, NoPairMissed, Alike, LeftPos, RightPos
<1>4. PairsAreAlike'
  <2>1. OneToOne(equal) /\ \A a \in equal : left[a[1]].key = right[a[2]].key /\ Alike(a[1], a[2])
    BY DEF IInv, PairsAreAlike
  <2>2. OneToOne(equal')
    BY <2>1 DEF OneToOne
  <2>3. \A a \in equal' : left[a[1]].key = right[a[2]].key /\ Alike(a[1], a[2])
    BY <1>2, <2>1
  <2> QED BY <2>2, <2>3 DEF PairsAreAlike, Alike, OneToOne
<1>5. Verdicts'
  <2>0. Verdicts
    BY DEF IInv
  <2>1. /\ \A p : Matched(p)' => Matched(p) \/ p = l
        /\ \A q : Taken(q)' => Taken(q) \/ q = r
    <3>1. ASSUME NEW a \in equal' PROVE a \in equal \/ (a[1] = l /\ a[2] = r)
      <4>1. a \in E \/ a = <<l, r>>
        OBVIOUS
      <4>2. a = <<l, r>> => a[1] = l /\ a[2] = r
        OBVIOUS
      <4> QED BY <4>1, <4>2
    <3> QED BY <3>1 DEF Matched, Taken
  <2>2. /\ \A p : Matched(p) /\ p \notin GroupLeft => Matched(p)'
        /\ \A q : Taken(q) /\ q \notin GroupRight => Taken(q)'
    <3>1. \A a \in equal : a[1] \notin GroupLeft \/ a[2] \notin GroupRight => a \in equal'
      BY GroupFacts
    <3> QED BY <3>1 DEF Matched, Taken
  <2>3. \A p \in onlyLeft \cup changedLeft : p < gi /\ ~Matched(p)'
    <3>1. \A p \in onlyLeft \cup changedLeft : p < gi /\ ~Matched(p) /\ p \in Int
      BY <1>1, <1>2, <2>0 DEF Verdicts, IInv, Types
    <3> QED BY <1>2, <2>1, <3>1
  <2>4. \A q \in onlyRight \cup changedRight : q < gj /\ ~Taken(q)'
    <3>1. \A q \in onlyRight \cup changedRight : q < gj /\ ~Taken(q) /\ q \in Int
      BY <1>1, <1>2, <2>0 DEF Verdicts, IInv, Types
    <3> QED BY <1>2, <2>1, <3>1
  <2>5. \A a \in equal' : a[1] < i /\ a[2] < j
    BY <1>2, <2>0 DEF Verdicts
  <2>6. \A p \in LeftPos : p < gi => Matched(p)' \/ p \in onlyLeft \cup changedLeft
    <3>1. \A p \in LeftPos : p < gi => p \notin GroupLeft
      BY <1>2 DEF GroupLeft
    <3> QED BY <1>1, <2>0, <2>2, <3>1 DEF Verdicts
  <2>7. \A q \in RightPos : q < gj => Taken(q)' \/ q \in onlyRight \cup changedRight
    <3>1. \A q \in RightPos : q < gj => q \notin GroupRight
      BY <1>2 DEF GroupRight
    <3> QED BY <1>1, <2>0, <2>2, <3>1 DEF Verdicts
  <2>8. onlyLeft \cap changedLeft = {} /\ onlyRight \cap changedRight = {}
    BY <2>0 DEF Verdicts
  <2> QED BY <1>1, <2>3, <2>4, <2>5, <2>6, <2>7, <2>8 DEF Verdicts, LeftPos, RightPos
<1>6. Frontier'
  BY <1>1 DEF IInv, Frontier, Grouping, Groups, Separate, OnKey, Key, LeftPos, RightPos
<1>7. Below'
  BY DEF Below, Groups
<1> QED BY <1>3, <1>4, <1>5, <1>6, <1>7

LEMMA CancelInv == IInv /\ Types' /\ Cancel => IInv'
<1> SUFFICES ASSUME IInv, Types', Cancel PROVE IInv'
  OBVIOUS
<1> USE DEF inputs, report, search
<1>1. /\ pc = "exact" /\ pc' = "exact" /\ root < i /\ root' = root + 1
      /\ UNCHANGED <<inputs, i, j, gi, gj, report, queue, seenRight, fromLeft, hole>>
  BY DEF Cancel
<1>2. Grouping /\ Grouping' /\ pc' \in Groups
  BY <1>1 DEF Grouping, Groups
<1>3. /\ gi <= root /\ root <= i /\ root \in Int /\ i \in Int /\ gi \in Int
      /\ \A p \in LeftPos : p >= root => ~Matched(p)
      /\ \A p \in GroupLeft : p < root /\ ~Matched(p) =>
           \A r \in GroupRight : Alike(p, r) => Taken(r)
      /\ LeftPos \subseteq Int /\ GroupLeft \subseteq LeftPos
  BY <1>1, <1>2, GroupFacts DEF IInv, Tried
<1>4. root \in GroupLeft /\ ~Matched(root)
  <2>1. root \in GroupLeft
    BY <1>1, <1>3 DEF GroupLeft
  <2> QED BY <1>3, <2>1
<1>5. UNCHANGED <<LeftPos, GroupLeft, GroupRight>> /\ \A p, r : Alike(p, r)' <=> Alike(p, r)
  BY <1>1 DEF LeftPos, GroupLeft, GroupRight, Alike
<1>6. gi <= root + 1 /\ root + 1 <= i /\ \A p \in LeftPos : /\ p >= root + 1 => p >= root /\ p # root
                                                            /\ p < root + 1 => p < root \/ p = root
  BY <1>1, <1>3
<1>7. Paths'
  BY <1>1 DEF Paths
<1>8. CASE \E r \in GroupRight :
             /\ Alike(root, r)
             /\ ~Taken(r)
             /\ equal' = equal \cup {<<root, r>>}
  <2>1. PICK r \in GroupRight :
               /\ Alike(root, r)
               /\ ~Taken(r)
               /\ equal' = equal \cup {<<root, r>>}
    BY <1>8
  <2>2. \A a \in equal : a[1] # root /\ a[2] # r
    BY <1>4, <2>1 DEF Matched, Taken
  <2>3. Verdicts' /\ PairsAreAlike' /\ Frontier' /\ OnlyMeansAbsent' /\ NoPairMissed' /\ Below'
    BY <1>1, <1>2, <1>4, <2>1, <2>2, NewPair
  <2>4. /\ \A p : Matched(p)' <=> Matched(p) \/ p = root
        /\ \A q : Taken(q) => Taken(q)'
    <3>1. <<root, r>> \in equal' /\ <<root, r>>[1] = root /\ equal \subseteq equal'
      BY <2>1
    <3>2. ASSUME NEW a \in equal' PROVE a \in equal \/ a[1] = root
      BY <2>1
    <3> QED BY <3>1, <3>2 DEF Matched, Taken
  <2>5. Tried'
    <3>1. \A p \in LeftPos : p >= root + 1 => ~Matched(p)'
      BY <1>3, <1>6, <2>4
    <3>2. \A p \in GroupLeft : p < root + 1 /\ ~Matched(p)' =>
            \A q \in GroupRight : Alike(p, q) => Taken(q)'
      BY <1>3, <1>6, <2>4
    <3> QED BY <1>1, <1>5, <1>6, <3>1, <3>2 DEF Tried
  <2> QED BY <1>7, <2>3, <2>5 DEF IInv
<1>9. CASE (\A r \in GroupRight : Alike(root, r) => Taken(r)) /\ equal' = equal
  <2>1. Verdicts' /\ PairsAreAlike' /\ Frontier' /\ OnlyMeansAbsent' /\ NoPairMissed' /\ Below'
    BY <1>1, <1>2, <1>9, SamePairs
  <2>2. \A p : (Matched(p)' <=> Matched(p)) /\ (Taken(p)' <=> Taken(p))
    BY <1>9 DEF Matched, Taken
  <2>3. \A p \in LeftPos : p >= root + 1 => ~Matched(p)'
    BY <1>3, <1>6, <2>2
  <2>4. \A p \in GroupLeft : p < root + 1 /\ ~Matched(p)' =>
          \A q \in GroupRight : Alike(p, q) => Taken(q)'
    BY <1>3, <1>6, <1>9, <2>2
  <2>5. Tried'
    BY <1>1, <1>5, <1>6, <2>3, <2>4 DEF Tried
  <2> QED BY <1>7, <2>1, <2>5 DEF IInv
<1> QED BY <1>8, <1>9 DEF Cancel

LEMMA StartSearchInv == IInv /\ Types' /\ StartSearch => IInv'
<1> SUFFICES ASSUME IInv, Types', StartSearch PROVE IInv'
  OBVIOUS
<1> USE DEF inputs, report, search
<1>1. /\ pc = "root" /\ pc' = "scan" /\ root < i /\ queue' = {root} /\ seenRight' = {}
      /\ UNCHANGED <<inputs, i, j, gi, gj, equal, report, root, fromLeft, hole>>
  BY DEF StartSearch
<1>2. Grouping /\ Grouping' /\ pc' \in Groups
  BY <1>1 DEF Grouping, Groups
<1>3. Verdicts' /\ PairsAreAlike' /\ Frontier' /\ OnlyMeansAbsent' /\ NoPairMissed' /\ Below'
  BY <1>1, <1>2, SamePairs
<1>4. Tried'
  BY <1>1, <1>2 DEF IInv, Tried, Matched, Taken, Alike, LeftPos, GroupLeft, GroupRight
<1>5. Paths'
  BY <1>1 DEF Paths, Reached
<1> QED BY <1>3, <1>4, <1>5 DEF IInv

LEMMA GiveUpInv == IInv /\ Types' /\ GiveUp => IInv'
<1> SUFFICES ASSUME IInv, Types', GiveUp PROVE IInv'
  OBVIOUS
<1> USE DEF inputs, report, search
<1>1. /\ pc = "scan" /\ pc' = "root" /\ queue = {} /\ root' = root + 1
      /\ UNCHANGED <<inputs, i, j, gi, gj, equal, report, queue, seenRight, fromLeft, hole>>
  BY DEF GiveUp
<1>2. Grouping /\ Grouping' /\ pc' \in Groups
  BY <1>1 DEF Grouping, Groups
<1>3. Verdicts' /\ PairsAreAlike' /\ Frontier' /\ OnlyMeansAbsent' /\ NoPairMissed' /\ Below'
  BY <1>1, <1>2, SamePairs
<1>4. /\ gi <= root /\ root < i /\ root \in Int /\ i \in Int /\ gi \in Int
      /\ \A p \in LeftPos : p >= root => ~Matched(p)
      /\ \A p \in GroupLeft : p < root /\ ~Matched(p) =>
           \A r \in GroupRight : Alike(p, r) => Taken(r)
      /\ LeftPos \subseteq Int /\ GroupLeft \subseteq LeftPos
  BY <1>1, <1>2, GroupFacts DEF IInv, Tried, Paths
<1>5. ASSUME NEW r \in GroupRight, Alike(root, r) PROVE Taken(r)
  <2>1. root \in Reached
    BY DEF Reached
  <2>2. Fresh(root) = {} /\ \A s \in seenRight : Taken(s)
    BY <1>1, <2>1 DEF IInv, Paths
  <2> QED BY <1>5, <2>2 DEF Fresh
<1>6. Tried'
  <2>1. UNCHANGED <<LeftPos, GroupLeft, GroupRight>> /\ \A p, r : Alike(p, r)' <=> Alike(p, r)
    BY <1>1 DEF LeftPos, GroupLeft, GroupRight, Alike
  <2>2. \A p : (Matched(p)' <=> Matched(p)) /\ (Taken(p)' <=> Taken(p))
    BY <1>1 DEF Matched, Taken
  <2>3. gi <= root + 1 /\ root + 1 <= i /\ \A p \in LeftPos : /\ p >= root + 1 => p >= root
                                                              /\ p < root + 1 => p < root \/ p = root
    BY <1>4
  <2>4. \A p \in LeftPos : p >= root + 1 => ~Matched(p)'
    BY <1>4, <2>2, <2>3
  <2>5. \A p \in GroupLeft : p < root + 1 /\ ~Matched(p)' =>
          \A r \in GroupRight : Alike(p, r) => Taken(r)'
    BY <1>4, <1>5, <2>2, <2>3
  <2> QED BY <1>1, <2>1, <2>3, <2>4, <2>5 DEF Tried
<1>7. Paths'
  BY <1>1 DEF Paths
<1> QED BY <1>3, <1>6, <1>7 DEF IInv

LEMMA FoundInv ==
  ASSUME IInv, Types', NEW l \in LeftPos, Found(l)
  PROVE  IInv'
<1> USE DEF inputs, report, search
<1>1. /\ pc = "scan" /\ pc' = "augment" /\ l \in queue
      /\ UNCHANGED <<inputs, i, j, gi, gj, equal, report, root, queue>>
  BY DEF Found
<1>2. PICK r \in Fresh(l) :
        /\ ~Taken(r)
        /\ seenRight' = seenRight \cup {r}
        /\ fromLeft' = [fromLeft EXCEPT ![r] = l]
        /\ hole' = r
  BY DEF Found
<1>3. Grouping /\ Grouping' /\ pc' \in Groups
  BY <1>1 DEF Grouping, Groups
<1>4. Verdicts' /\ PairsAreAlike' /\ Frontier' /\ OnlyMeansAbsent' /\ NoPairMissed' /\ Below'
  BY <1>1, <1>3, SamePairs
<1>5. UNCHANGED <<LeftPos, RightPos, GroupLeft, GroupRight>>
      /\ (\A p, q : Alike(p, q)' <=> Alike(p, q))
      /\ (\A p : (Matched(p)' <=> Matched(p)) /\ (Taken(p)' <=> Taken(p)))
  BY <1>1 DEF LeftPos, RightPos, GroupLeft, GroupRight, Alike, Matched, Taken
<1>6. Tried'
  BY <1>1, <1>3, <1>5 DEF IInv, Tried
<1>7. Paths'
  <2>1. r \in GroupRight /\ r \notin seenRight /\ Alike(l, r)
    BY DEF Fresh
  <2>2. /\ root < i /\ seenRight \subseteq GroupRight /\ queue \subseteq Reached
        /\ \A s \in seenRight : Taken(s) /\ fromLeft[s] \in Reached /\ Alike(fromLeft[s], s)
    BY <1>1 DEF IInv, Paths
  <2>3. Reached \subseteq Reached'
    BY <1>1, <1>2, <1>5 DEF Reached
  <2>4. fromLeft'[r] = l /\ \A s \in seenRight : fromLeft'[s] = fromLeft[s]
    <3>1. fromLeft \in [RightPos -> Int] /\ r \in RightPos /\ seenRight \subseteq RightPos
      BY <1>3, <2>1, GroupFacts DEF IInv, Types
    <3> QED BY <1>2, <2>1, <3>1
  <2>5. l \in Reached'
    BY <1>1, <2>2, <2>3
  <2>6. \A s \in seenRight' : /\ Taken(s)' \/ s = hole'
                              /\ fromLeft'[s] \in Reached'
                              /\ Alike(fromLeft'[s], s)
    BY <1>2, <1>5, <2>1, <2>2, <2>3, <2>4, <2>5
  <2>7. \A s : Alike(fromLeft[s], s)' <=> Alike(fromLeft'[s], s)
    BY <1>1 DEF Alike
  <2>8. hole' \in seenRight' /\ ~Taken(hole)' /\ seenRight' \subseteq GroupRight'
    BY <1>1, <1>2, <1>5, <2>1, <2>2 DEF Taken
  <2> QED BY <1>1, <2>2, <2>6, <2>7, <2>8 DEF Paths
<1> QED BY <1>4, <1>6, <1>7 DEF IInv

LEMMA WidenInv ==
  ASSUME IInv, Types', NEW l \in LeftPos, Widen(l)
  PROVE  IInv'
<1> USE DEF inputs, report, search
<1>1. /\ pc = "scan" /\ pc' = "scan" /\ l \in queue
      /\ \A r \in Fresh(l) : Taken(r)
      /\ seenRight' = seenRight \cup Fresh(l)
      /\ fromLeft' = [r \in RightPos |-> IF r \in Fresh(l) THEN l ELSE fromLeft[r]]
      /\ queue' = (queue \ {l}) \cup {m \in GroupLeft : \E r \in Fresh(l) : <<m, r>> \in equal}
      /\ UNCHANGED <<inputs, i, j, gi, gj, equal, report, root, hole>>
  BY DEF Widen
<1>2. Grouping /\ Grouping' /\ pc' \in Groups
  BY <1>1 DEF Grouping, Groups
<1>3. Verdicts' /\ PairsAreAlike' /\ Frontier' /\ OnlyMeansAbsent' /\ NoPairMissed' /\ Below'
  BY <1>1, <1>2, SamePairs
<1>4. UNCHANGED <<LeftPos, RightPos, GroupLeft, GroupRight>>
      /\ (\A p, q : Alike(p, q)' <=> Alike(p, q))
      /\ (\A p : (Matched(p)' <=> Matched(p)) /\ (Taken(p)' <=> Taken(p)))
  BY <1>1 DEF LeftPos, RightPos, GroupLeft, GroupRight, Alike, Matched, Taken
<1>5. Tried'
  BY <1>1, <1>2, <1>4 DEF IInv, Tried
<1>6. Paths'
  <2>1. Fresh(l) \subseteq GroupRight \ seenRight /\ \A r \in Fresh(l) : Alike(l, r)
    BY DEF Fresh
  <2>2. /\ root < i /\ seenRight \subseteq GroupRight /\ queue \subseteq Reached
        /\ \A s \in seenRight : Taken(s) /\ fromLeft[s] \in Reached /\ Alike(fromLeft[s], s)
        /\ \A m \in Reached \ queue : Fresh(m) = {}
    BY <1>1 DEF IInv, Paths
  <2>3. Reached' = Reached \cup {m \in GroupLeft : \E r \in Fresh(l) : <<m, r>> \in equal}
    BY <1>1, <1>4 DEF Reached
  <2>4. /\ \A r \in Fresh(l) : fromLeft'[r] = l
        /\ \A s \in seenRight : fromLeft'[s] = fromLeft[s]
    <3>1. GroupRight \subseteq RightPos
      BY <1>2, GroupFacts
    <3> QED BY <1>1, <2>1, <2>2, <3>1
  <2>5. \A s \in seenRight' : /\ Taken(s)'
                              /\ fromLeft'[s] \in Reached'
                              /\ Alike(fromLeft'[s], s)
    BY <1>1, <1>4, <2>1, <2>2, <2>3, <2>4
  <2>6. \A s : Alike(fromLeft[s], s)' <=> Alike(fromLeft'[s], s)
    BY <1>1 DEF Alike
  <2>7. queue' \subseteq Reached'
    BY <1>1, <2>2, <2>3
  <2>8. ASSUME NEW m \in Reached' \ queue' PROVE Fresh(m)' = {}
    <3>1. Fresh(m)' = {r \in GroupRight \ (seenRight \cup Fresh(l)) : Alike(m, r)}
      BY <1>1, <1>4 DEF Fresh
    <3>2. m \in Reached /\ (m \notin queue \/ m = l)
      BY <1>1, <2>3, <2>8
    <3>3. CASE m \notin queue
      <4>1. Fresh(m) = {}
        BY <2>2, <3>2, <3>3
      <4> QED BY <3>1, <4>1 DEF Fresh
    <3>4. CASE m = l
      BY <3>1, <3>4 DEF Fresh
    <3> QED BY <3>2, <3>3, <3>4
  <2>9. seenRight' \subseteq GroupRight'
    BY <1>1, <1>4, <2>1, <2>2
  <2> QED BY <1>1, <2>2, <2>5, <2>6, <2>7, <2>8, <2>9 DEF Paths
<1> QED BY <1>3, <1>5, <1>6 DEF IInv

\* The left row the hole was reached from could have it.
LEMMA HoleFacts ==
  ASSUME IInv, pc = "augment"
  PROVE  /\ Grouping /\ root < i /\ root \in GroupLeft /\ ~Matched(root)
         /\ hole \in seenRight /\ hole \in GroupRight /\ ~Taken(hole)
         /\ fromLeft[hole] \in Reached /\ fromLeft[hole] \in GroupLeft
         /\ Alike(fromLeft[hole], hole)
<1>1. Grouping
  BY DEF Grouping
<1>2. /\ root < i /\ seenRight \subseteq GroupRight
      /\ hole \in seenRight /\ ~Taken(hole)
      /\ fromLeft[hole] \in Reached /\ Alike(fromLeft[hole], hole)
  BY DEF IInv, Paths
<1>3. gi <= root /\ \A p \in LeftPos : p >= root => ~Matched(p)
  BY <1>1 DEF IInv, Tried
<1>4. root \in GroupLeft /\ root \in LeftPos /\ root >= root
  <2>1. root \in GroupLeft /\ root >= root
    BY <1>1, <1>2, <1>3, GroupFacts DEF GroupLeft, LeftPos
  <2> QED BY <1>1, <2>1, GroupFacts
<1>5. fromLeft[hole] \in GroupLeft
  BY <1>2, <1>4 DEF Reached
<1> QED BY <1>1, <1>2, <1>3, <1>4, <1>5

LEMMA ShiftInv == IInv /\ Types' /\ Shift => IInv'
<1> SUFFICES ASSUME IInv, Types', Shift PROVE IInv'
  OBVIOUS
<1> USE DEF inputs, report, search
<1>1. /\ pc = "augment" /\ pc' = "augment"
      /\ UNCHANGED <<inputs, i, j, gi, gj, report, root, queue, seenRight, fromLeft>>
  BY DEF Shift
<1> DEFINE l == fromLeft[hole]
           E(r) == equal \ {<<l, r>>}
<1>2. PICK r \in GroupRight :
        <<l, r>> \in equal /\ equal' = E(r) \cup {<<l, hole>>} /\ hole' = r
  BY DEF Shift
<1>3. /\ Grouping /\ root < i /\ root \in GroupLeft /\ ~Matched(root)
      /\ hole \in seenRight /\ hole \in GroupRight /\ ~Taken(hole)
      /\ l \in Reached /\ l \in GroupLeft /\ Alike(l, hole)
  BY <1>1, HoleFacts
<1>4. Grouping' /\ pc' \in Groups
  BY <1>1 DEF Grouping, Groups
<1>5. /\ \A a \in E(r) : a \in equal /\ a[1] # l /\ a[2] # r /\ a[2] # hole
      /\ r # hole
  <2>1. OneToOne(equal)
    BY DEF IInv, PairsAreAlike
  <2>2. <<l, r>>[1] = l /\ <<l, r>>[2] = r
    OBVIOUS
  <2>3. \A a \in equal : a[1] = l \/ a[2] = r => a = <<l, r>>
    BY <1>2, <2>1, <2>2 DEF OneToOne
  <2>4. \A a \in equal : a[2] # hole
    BY <1>3 DEF Taken
  <2> QED BY <1>2, <2>2, <2>3, <2>4
<1>6. l # root /\ Matched(l)
  <2>1. Matched(l)
    BY <1>2 DEF Matched
  <2> QED BY <1>3, <2>1
<1>7. r \in seenRight
  <2>1. PICK s \in seenRight : <<l, s>> \in equal
    BY <1>3, <1>6 DEF Reached
  <2>2. s = r
    BY <1>2, <2>1 DEF IInv, PairsAreAlike, OneToOne
  <2> QED BY <2>1, <2>2
<1>8. Verdicts' /\ PairsAreAlike' /\ Frontier' /\ OnlyMeansAbsent' /\ NoPairMissed' /\ Below'
  <2>1. E(r) \subseteq equal /\ \A a \in E(r) : a[1] # l /\ a[2] # hole
    BY <1>5
  <2>2. \A a \in equal \ E(r) : a[1] \in GroupLeft
    BY <1>3
  <2>3. UNCHANGED <<inputs, i, j, gi, gj, report>>
    BY <1>1
  <2> HIDE DEF E, l
  <2> QED BY <1>2, <1>3, <1>4, <2>1, <2>2, <2>3, NewPair
<1>9. UNCHANGED <<LeftPos, GroupLeft, GroupRight>> /\ (\A p, q : Alike(p, q)' <=> Alike(p, q))
  BY <1>1 DEF LeftPos, GroupLeft, GroupRight, Alike
<1>10. \A p : Matched(p)' <=> Matched(p)
  <2>1. ASSUME NEW a \in equal' PROVE Matched(a[1])
    <3>1. CASE a \in E(r)
      BY <1>5, <3>1 DEF Matched
    <3>2. CASE a = <<l, hole>>
      BY <1>6, <3>2
    <3> QED BY <1>2, <3>1, <3>2
  <2>2. ASSUME NEW a \in equal PROVE \E b \in equal' : b[1] = a[1]
    <3>1. CASE a \in E(r)
      BY <1>2, <3>1
    <3>2. CASE a = <<l, r>>
      <4>1. <<l, hole>> \in equal' /\ <<l, hole>>[1] = l /\ a[1] = l
        BY <1>2, <3>2
      <4> HIDE DEF l
      <4> QED BY <4>1
    <3> QED BY <3>1, <3>2
  <2> QED BY <2>1, <2>2 DEF Matched
<1>11. \A q : Taken(q) \/ q = hole => Taken(q)' \/ q = hole'
  <2>1. ASSUME NEW a \in equal PROVE (\E b \in equal' : b[2] = a[2]) \/ a[2] = hole'
    <3>1. CASE a \in E(r)
      BY <1>2, <3>1
    <3>2. CASE a = <<l, r>>
      BY <1>2, <3>2
    <3> QED BY <3>1, <3>2
  <2>2. \E b \in equal' : b[2] = hole
    <3>1. <<l, hole>> \in equal' /\ <<l, hole>>[2] = hole
      BY <1>2
    <3> HIDE DEF l
    <3> QED BY <3>1
  <2>3. /\ \A q : Taken(q) <=> \E a \in equal : a[2] = q
        /\ \A q : Taken(q)' <=> \E a \in equal' : a[2] = q
    BY DEF Taken
  <2> QED BY <2>1, <2>2, <2>3
<1>12. Tried'
  <2>1. /\ gi <= root /\ root <= i
        /\ \A p \in LeftPos : p >= root => ~Matched(p)
        /\ \A p \in GroupLeft : p < root /\ ~Matched(p) =>
             \A q \in GroupRight : Alike(p, q) => Taken(q) \/ q = hole
    BY <1>1, <1>3 DEF IInv, Tried
  <2>2. \A p \in LeftPos : p >= root => ~Matched(p)'
    BY <1>10, <2>1
  <2>3. \A p \in GroupLeft : p < root /\ ~Matched(p)' =>
          \A q \in GroupRight : Alike(p, q) => Taken(q)' \/ q = hole'
    BY <1>10, <1>11, <2>1
  <2> QED BY <1>1, <1>9, <2>1, <2>2, <2>3 DEF Tried
<1>13. Paths'
  <2>1. /\ root < i /\ seenRight \subseteq GroupRight
        /\ \A s \in seenRight : /\ Taken(s) \/ s = hole
                                /\ fromLeft[s] \in Reached
                                /\ Alike(fromLeft[s], s)
    BY <1>1 DEF IInv, Paths
  <2>2. Reached \subseteq Reached'
    <3>1. ASSUME NEW m \in GroupLeft, NEW s \in seenRight, <<m, s>> \in equal
          PROVE  \E t \in seenRight : <<m, t>> \in equal'
      <4>1. CASE <<m, s>> \in E(r)
        BY <1>2, <4>1
      <4>2. CASE <<m, s>> = <<l, r>>
        BY <1>2, <1>3, <4>2
      <4> QED BY <3>1, <4>1, <4>2
    <3> QED BY <1>1, <1>9, <3>1 DEF Reached
  <2>3. \A s \in seenRight : /\ Taken(s)' \/ s = hole'
                             /\ fromLeft[s] \in Reached'
                             /\ Alike(fromLeft[s], s)'
    <3>1. \A s : Alike(fromLeft[s], s)' <=> Alike(fromLeft[s], s)
      BY <1>1 DEF Alike
    <3> QED BY <1>11, <2>1, <2>2, <3>1
  <2>4. hole' \in seenRight /\ ~Taken(hole)'
    <3>1. \A a \in equal' : a[2] # r
      <4> SUFFICES ASSUME NEW a \in equal' PROVE a[2] # r
        OBVIOUS
      <4>1. CASE a \in E(r)
        BY <1>5, <4>1
      <4>2. CASE a = <<l, hole>>
        BY <1>5, <4>2
      <4> QED BY <1>2, <4>1, <4>2
    <3> QED BY <1>2, <1>7, <3>1 DEF Taken
  <2> QED BY <1>1, <1>9, <2>1, <2>3, <2>4 DEF Paths
<1> QED BY <1>8, <1>12, <1>13 DEF IInv

LEMMA ShiftRootInv == IInv /\ Types' /\ ShiftRoot => IInv'
<1> SUFFICES ASSUME IInv, Types', ShiftRoot PROVE IInv'
  OBVIOUS
<1> USE DEF inputs, report, search
<1>1. /\ pc = "augment" /\ pc' = "root" /\ ~Matched(fromLeft[hole])
      /\ equal' = equal \cup {<<fromLeft[hole], hole>>} /\ root' = root + 1
      /\ UNCHANGED <<inputs, i, j, gi, gj, report, queue, seenRight, fromLeft, hole>>
  BY DEF ShiftRoot
<1>2. /\ Grouping /\ root < i /\ root \in GroupLeft /\ ~Matched(root)
      /\ hole \in GroupRight /\ ~Taken(hole)
      /\ fromLeft[hole] \in Reached /\ Alike(fromLeft[hole], hole)
  BY <1>1, HoleFacts
<1>3. Grouping' /\ pc' \in Groups
  BY <1>1 DEF Grouping, Groups
<1>4. fromLeft[hole] = root
  <2>1. \A m \in Reached : m = root \/ Matched(m)
    <3>1. \A m \in Reached : m = root \/ \E s \in seenRight : <<m, s>> \in equal
      BY DEF Reached
    <3> QED BY <3>1 DEF Matched
  <2> QED BY <1>1, <1>2, <2>1
<1>5. Verdicts' /\ PairsAreAlike' /\ Frontier' /\ OnlyMeansAbsent' /\ NoPairMissed' /\ Below'
  <2>1. \A a \in equal : a[1] # root /\ a[2] # hole
    BY <1>2 DEF Matched, Taken
  <2> QED BY <1>1, <1>2, <1>3, <1>4, <2>1, NewPair
<1>6. /\ \A p : Matched(p)' <=> Matched(p) \/ p = root
      /\ \A q : Taken(q) \/ q = hole => Taken(q)'
  <2>1. /\ <<root, hole>> \in equal' /\ <<root, hole>>[1] = root /\ <<root, hole>>[2] = hole
        /\ equal \subseteq equal'
    BY <1>1, <1>4
  <2>2. ASSUME NEW a \in equal' PROVE a \in equal \/ a[1] = root
    BY <1>1, <1>4
  <2> QED BY <2>1, <2>2 DEF Matched, Taken
<1>7. Tried'
  <2>1. /\ gi <= root /\ root \in Int /\ i \in Int /\ gi \in Int
        /\ \A p \in LeftPos : p >= root => ~Matched(p)
        /\ \A p \in GroupLeft : p < root /\ ~Matched(p) =>
             \A q \in GroupRight : Alike(p, q) => Taken(q) \/ q = hole
        /\ LeftPos \subseteq Int /\ GroupLeft \subseteq LeftPos
    BY <1>1, <1>2, GroupFacts DEF IInv, Tried
  <2>2. UNCHANGED <<LeftPos, GroupLeft, GroupRight>> /\ \A p, q : Alike(p, q)' <=> Alike(p, q)
    BY <1>1 DEF LeftPos, GroupLeft, GroupRight, Alike
  <2>3. gi <= root + 1 /\ root + 1 <= i /\ \A p \in LeftPos : /\ p >= root + 1 => p >= root /\ p # root
                                                              /\ p < root + 1 => p < root \/ p = root
    BY <1>2, <2>1
  <2>4. \A p \in LeftPos : p >= root + 1 => ~Matched(p)'
    BY <1>6, <2>1, <2>3
  <2>5. \A p \in GroupLeft : p < root + 1 /\ ~Matched(p)' =>
          \A q \in GroupRight : Alike(p, q) => Taken(q)'
    BY <1>6, <2>1, <2>3
  <2> QED BY <1>1, <2>2, <2>3, <2>4, <2>5 DEF Tried
<1>8. Paths'
  BY <1>1 DEF Paths
<1> QED BY <1>5, <1>7, <1>8 DEF IInv

LEMMA ReportGroupInv == IInv /\ Types' /\ ReportGroup => IInv'
<1> SUFFICES ASSUME IInv, Types', ReportGroup PROVE IInv'
  OBVIOUS
<1> USE DEF inputs, report, search
<1> DEFINE L == {p \in GroupLeft : ~Matched(p)}
           R == {q \in GroupRight : ~Taken(q)}
<1>1. /\ pc \in {"exact", "root"} /\ pc' = "merge" /\ root = i
      /\ changedLeft' = changedLeft \cup L
      /\ changedRight' = changedRight \cup R
      /\ UNCHANGED <<inputs, i, j, gi, gj, equal, onlyLeft, onlyRight, search>>
  BY DEF ReportGroup
<1>2. Grouping /\ ~Grouping'
  BY <1>1 DEF Grouping
<1>3. /\ gi \in LeftPos /\ gj \in RightPos
      /\ LeftPos \subseteq Int /\ RightPos \subseteq Int
      /\ i \in Int /\ j \in Int /\ gi \in Int /\ gj \in Int /\ gi < i /\ gj < j
      /\ GroupLeft \subseteq LeftPos /\ GroupRight \subseteq RightPos
      /\ \A l \in GroupLeft : left[l].key = Key
      /\ \A r \in GroupRight : right[r].key = Key
  BY <1>2, GroupFacts
<1>4. Types /\ Frontier /\ Verdicts
  BY DEF IInv
<1>5. left[gi].key = Key /\ right[gj].key = Key /\ Separate(gi, gj)
  BY <1>1, <1>4 DEF Frontier, Key
<1>6. /\ \A x \in LeftPos : /\ gi <= x /\ x < i => x \in GroupLeft
                            /\ x \in GroupLeft => gi <= x /\ x < i
      /\ \A x \in RightPos : /\ gj <= x /\ x < j => x \in GroupRight
                             /\ x \in GroupRight => gj <= x /\ x < j
  BY <1>3 DEF GroupLeft, GroupRight
<1>7. Verdicts'
  <2>1. /\ DoneLeft = gi /\ DoneRight = gj /\ DoneLeft' = i /\ DoneRight' = j
        /\ UNCHANGED <<LeftPos, RightPos, equal, onlyLeft, onlyRight, i, j>>
    BY <1>1, <1>2 DEF DoneLeft, DoneRight, LeftPos, RightPos
  <2>2. \A x : (Matched(x)' <=> Matched(x)) /\ (Taken(x)' <=> Taken(x))
    BY <1>1 DEF Matched, Taken
  <2>3. \A x \in onlyLeft \cup changedLeft : x \in LeftPos /\ x < gi /\ ~Matched(x)
    BY <1>4, <2>1 DEF Verdicts, Types
  <2>4. \A x \in onlyRight \cup changedRight : x \in RightPos /\ x < gj /\ ~Taken(x)
    BY <1>4, <2>1 DEF Verdicts, Types
  <2>5. \A x \in onlyLeft' \cup changedLeft' : x < DoneLeft' /\ ~Matched(x)'
    <3>1. \A x \in L : x < i /\ ~Matched(x)
      BY <1>3, <1>6
    <3>2. \A x \in onlyLeft \cup changedLeft : x < i
      <4>1. \A x \in onlyLeft \cup changedLeft : x \in Int /\ x < gi
        BY <1>3, <2>3
      <4> QED BY <1>3, <4>1
    <3> HIDE DEF L
    <3> QED BY <1>1, <2>1, <2>2, <2>3, <3>1, <3>2
  <2>6. \A x \in onlyRight' \cup changedRight' : x < DoneRight' /\ ~Taken(x)'
    <3>1. \A x \in R : x < j /\ ~Taken(x)
      BY <1>3, <1>6
    <3>2. \A x \in onlyRight \cup changedRight : x < j
      <4>1. \A x \in onlyRight \cup changedRight : x \in Int /\ x < gj
        BY <1>3, <2>4
      <4> QED BY <1>3, <4>1
    <3> HIDE DEF R
    <3> QED BY <1>1, <2>1, <2>2, <2>4, <3>1, <3>2
  <2>7. onlyLeft' \cap changedLeft' = {} /\ onlyRight' \cap changedRight' = {}
    <3>1. onlyLeft \cap L = {}
      <4>1. \A x \in onlyLeft : x \in Int /\ x < gi
        BY <1>3, <2>3
      <4>2. \A x \in L : gi <= x
        BY <1>3, <1>6
      <4> HIDE DEF L
      <4> QED BY <1>3, <4>1, <4>2
    <3>2. onlyRight \cap R = {}
      <4>1. \A x \in onlyRight : x \in Int /\ x < gj
        BY <1>3, <2>4
      <4>2. \A x \in R : gj <= x
        BY <1>3, <1>6
      <4> HIDE DEF R
      <4> QED BY <1>3, <4>1, <4>2
    <3>3. onlyLeft \cap changedLeft = {} /\ onlyRight \cap changedRight = {}
      BY <1>4 DEF Verdicts
    <3> HIDE DEF L, R
    <3> QED BY <1>1, <3>1, <3>2, <3>3
  <2>8. \A a \in equal' : a[1] < i' /\ a[2] < j'
    BY <1>4, <2>1 DEF Verdicts
  <2>9. \A x \in LeftPos : x < i => Matched(x) \/ x \in onlyLeft \cup changedLeft'
    <3> SUFFICES ASSUME NEW x \in LeftPos, x < i, ~Matched(x)
                 PROVE  x \in onlyLeft \cup changedLeft'
      OBVIOUS
    <3>1. CASE x < gi
      BY <1>1, <1>4, <2>1, <3>1 DEF Verdicts
    <3>2. CASE gi <= x
      BY <1>1, <1>6, <3>2
    <3> QED BY <1>3, <3>1, <3>2
  <2>10. \A x \in RightPos : x < j => Taken(x) \/ x \in onlyRight \cup changedRight'
    <3> SUFFICES ASSUME NEW x \in RightPos, x < j, ~Taken(x)
                 PROVE  x \in onlyRight \cup changedRight'
      OBVIOUS
    <3>1. CASE x < gj
      BY <1>1, <1>4, <2>1, <3>1 DEF Verdicts
    <3>2. CASE gj <= x
      BY <1>1, <1>6, <3>2
    <3> QED BY <1>3, <3>1, <3>2
  <2>11. /\ \A x \in LeftPos' : x < DoneLeft' => Matched(x)' \/ x \in onlyLeft' \cup changedLeft'
         /\ \A x \in RightPos' : x < DoneRight' => Taken(x)' \/ x \in onlyRight' \cup changedRight'
    BY <2>1, <2>2, <2>9, <2>10
  <2> QED BY <2>5, <2>6, <2>7, <2>8, <2>11 DEF Verdicts
<1>8. Frontier'
  <2>1. \A x \in LeftPos : x >= i => Key < left[x].key
    <3> SUFFICES ASSUME NEW x \in LeftPos, x >= i PROVE Key < left[x].key
      OBVIOUS
    <3>1. i \in LeftPos /\ gi <= i
      BY <1>3, <1>4 DEF LeftPos, Types
    <3>2. left[i].key # Key
      BY <1>2, <1>4, <3>1 DEF Frontier, LeftPos
    <3>3. left \in Seq(Records) /\ Sorted(left)
      BY <1>4 DEF Types
    <3>4. left[gi].key <= left[i].key /\ left[gi].key \in Int /\ left[i].key \in Int
      BY <1>3, <3>1, <3>3, KeysInOrder DEF LeftPos
    <3>5. left[i].key <= left[x].key /\ left[x].key \in Int
      BY <1>3, <3>1, <3>3, KeysInOrder DEF LeftPos
    <3> QED BY <1>5, <3>2, <3>4, <3>5
  <2>2. \A y \in RightPos : y >= j => Key < right[y].key
    <3> SUFFICES ASSUME NEW y \in RightPos, y >= j PROVE Key < right[y].key
      OBVIOUS
    <3>1. j \in RightPos /\ gj <= j
      BY <1>3, <1>4 DEF RightPos, Types
    <3>2. right[j].key # Key
      BY <1>2, <1>4, <3>1 DEF Frontier, RightPos
    <3>3. right \in Seq(Records) /\ Sorted(right)
      BY <1>4 DEF Types
    <3>4. right[gj].key <= right[j].key /\ right[gj].key \in Int /\ right[j].key \in Int
      BY <1>3, <3>1, <3>3, KeysInOrder DEF RightPos
    <3>5. right[j].key <= right[y].key /\ right[y].key \in Int
      BY <1>3, <3>1, <3>3, KeysInOrder DEF RightPos
    <3> QED BY <1>5, <3>2, <3>4, <3>5
  <2>3. Separate(i, j)
    <3> SUFFICES ASSUME NEW x \in LeftPos, NEW y \in RightPos
                 PROVE  /\ x < i /\ y >= j => left[x].key < right[y].key
                        /\ x >= i /\ y < j => right[y].key < left[x].key
      BY DEF Separate
    <3>1. x \in Int /\ y \in Int
      BY <1>3
    <3>2. /\ x < gi /\ y >= gj => left[x].key < right[y].key
          /\ x >= gi /\ y < gj => right[y].key < left[x].key
      BY <1>5 DEF Separate
    <3>3. /\ gi <= x /\ x < i => left[x].key = Key
          /\ gj <= y /\ y < j => right[y].key = Key
      BY <1>3, <1>6
    <3> QED BY <1>3, <2>1, <2>2, <3>1, <3>2, <3>3
  <2> QED BY <1>1, <1>2, <2>3 DEF Frontier, Separate, LeftPos, RightPos
<1>9. OnlyMeansAbsent'
  <2>1. \A x \in L : left[x].key = right[gj].key
    BY <1>3, <1>5
  <2>2. \A y \in R : left[gi].key = right[y].key
    BY <1>3, <1>5
  <2>3. /\ \A x \in changedLeft' : \E y \in RightPos : left[x].key = right[y].key
        /\ \A y \in changedRight' : \E x \in LeftPos : left[x].key = right[y].key
    <3> HIDE DEF L, R
    <3> QED BY <1>1, <1>3, <2>1, <2>2 DEF IInv, OnlyMeansAbsent
  <2> QED BY <1>1, <2>3 DEF IInv, OnlyMeansAbsent, LeftPos, RightPos
<1>10. NoPairMissed'
  <2> SUFFICES ASSUME NEW x \in changedLeft', NEW y \in changedRight',
                      left[x].key = right[y].key
               PROVE  ~Alike(x, y)
    BY <1>1 DEF NoPairMissed, Alike
  <2>1. x \in LeftPos /\ y \in RightPos
    BY <1>1, <1>3, <1>4 DEF Types
  <2>2. x >= gi <=> y >= gj
    BY <1>1, <1>4, <2>1, SameKeySameGroup
  <2>3. /\ x \in changedLeft => x < gi
        /\ y \in changedRight => y < gj
    BY <1>2, <1>4 DEF Verdicts, DoneLeft, DoneRight
  <2>4. CASE x \in changedLeft /\ y \in changedRight
    BY <2>4 DEF IInv, NoPairMissed
  <2>5. CASE x \in L /\ y \in R
    <3>1. x \in GroupLeft /\ x < root /\ ~Matched(x) /\ y \in GroupRight /\ ~Taken(y)
      BY <1>1, <1>6, <2>1, <2>5
    <3> QED BY <1>1, <1>2, <3>1 DEF IInv, Tried
  <2>6. CASE x \in L /\ y \in changedRight
    <3>1. x >= gi /\ y < gj /\ y \in Int
      BY <1>3, <1>6, <2>1, <2>3, <2>6
    <3> QED BY <1>3, <2>2, <3>1
  <2>7. CASE x \in changedLeft /\ y \in R
    <3>1. y >= gj /\ x < gi /\ x \in Int
      BY <1>3, <1>6, <2>1, <2>3, <2>7
    <3> QED BY <1>3, <2>2, <3>1
  <2> QED BY <1>1, <2>4, <2>5, <2>6, <2>7
<1>11. PairsAreAlike'
  BY <1>1 DEF IInv, PairsAreAlike, OneToOne, Alike
<1>12. Below' /\ Tried' /\ Paths'
  BY <1>1, <1>2 DEF Below, Tried, Paths
<1> QED BY <1>7, <1>8, <1>9, <1>10, <1>11, <1>12 DEF IInv

(***************************************************************************)
(* The end.                                                                *)
(***************************************************************************)

LEMMA FinishInv == IInv /\ Types' /\ Finish => IInv'
<1> SUFFICES ASSUME IInv, Types', Finish PROVE IInv'
  OBVIOUS
<1> USE DEF inputs, report, search
<1>1. /\ pc = "merge" /\ pc' = "ok" /\ i > Len(left) /\ j > Len(right)
      /\ UNCHANGED <<inputs, i, j, gi, gj, equal, report, stats, search>>
  BY DEF Finish
<1>2. ~Grouping /\ ~Grouping'
  BY <1>1 DEF Grouping
<1>3. Verdicts'
  BY <1>1, <1>2 DEF IInv, Verdicts, DoneLeft, DoneRight, Matched, Taken, LeftPos, RightPos
<1>4. Frontier'
  <2>1. i = Len(left) + 1 /\ j = Len(right) + 1
    BY <1>1 DEF IInv, Types
  <2> QED BY <1>1, <1>2, <2>1 DEF Frontier
<1>5. PairsAreAlike' /\ NoPairMissed' /\ OnlyMeansAbsent'
  BY <1>1 DEF IInv, PairsAreAlike, OneToOne, NoPairMissed, OnlyMeansAbsent, Alike, LeftPos, RightPos
<1>6. Below' /\ Tried' /\ Paths'
  BY <1>1, <1>2 DEF Below, Tried, Paths
<1> QED BY <1>3, <1>4, <1>5, <1>6 DEF IInv

LEMMA FailInv == IInv /\ Types' /\ Fail => IInv'
<1> SUFFICES ASSUME IInv, Types', Fail PROVE IInv'
  OBVIOUS
<1> USE DEF inputs, report, search
<1>1. /\ pc' = "error" /\ i' = 1 /\ j' = 1 /\ equal' = {}
      /\ onlyLeft' = {} /\ onlyRight' = {} /\ changedLeft' = {} /\ changedRight' = {}
  BY DEF Fail
<1>2. ~Grouping'
  BY <1>1 DEF Grouping
<1>3. Verdicts'
  BY <1>1, <1>2 DEF Verdicts, DoneLeft, DoneRight, LeftPos, RightPos
<1>4. PairsAreAlike' /\ NoPairMissed' /\ OnlyMeansAbsent'
  BY <1>1 DEF PairsAreAlike, OneToOne, NoPairMissed, OnlyMeansAbsent
<1>5. Frontier' /\ Below' /\ Tried' /\ Paths'
  BY <1>1, <1>2 DEF Frontier, Below, Tried, Paths
<1> QED BY <1>3, <1>4, <1>5 DEF IInv

LEMMA StutterInv == IInv /\ Types' /\ UNCHANGED vars => IInv'
<1> SUFFICES ASSUME IInv, Types', UNCHANGED vars PROVE IInv'
  OBVIOUS
<1> USE DEF vars, inputs, report, search
<1>1. Verdicts'
  BY DEF IInv, Verdicts, DoneLeft, DoneRight, Grouping, Matched, Taken, LeftPos, RightPos
<1>2. PairsAreAlike' /\ NoPairMissed' /\ OnlyMeansAbsent'
  BY DEF IInv, PairsAreAlike, OneToOne, NoPairMissed, OnlyMeansAbsent, Alike, LeftPos, RightPos
<1>3. Frontier'
  BY DEF IInv, Frontier, Grouping, Separate, OnKey, Key, LeftPos, RightPos
<1>4. Below'
  BY DEF IInv, Below, Key, LeftPos, RightPos
<1>5. Tried'
  BY DEF IInv, Tried, Grouping, Matched, Taken, Alike, GroupLeft, GroupRight, LeftPos
<1>6. Paths'
  BY DEF IInv, Paths, Reached, Taken, Alike, Fresh, GroupLeft, GroupRight
<1> QED BY <1>1, <1>2, <1>3, <1>4, <1>5, <1>6 DEF IInv

LEMMA NextInv == IInv /\ [Next]_vars => IInv'
<1> SUFFICES ASSUME IInv, [Next]_vars PROVE IInv'
  OBVIOUS
<1>1. Types'
  BY TypesInv
<1>2. CASE FlushLeft \/ FlushRight \/ StartStream \/ ReadGroups
  BY <1>1, <1>2, FlushLeftInv, FlushRightInv, StartStreamInv, ReadGroupsInv
<1>3. CASE StreamLeft \/ StreamRight \/ StreamEqual \/ StreamEnd
  BY <1>1, <1>3, StreamLeftInv, StreamRightInv, StreamEqualInv, StreamEndInv
<1>4. CASE Cancel \/ StartSearch \/ GiveUp
  BY <1>1, <1>4, CancelInv, StartSearchInv, GiveUpInv
<1>5. CASE \E l \in LeftPos : Found(l) \/ Widen(l)
  BY <1>1, <1>5, FoundInv, WidenInv
<1>6. CASE Shift \/ ShiftRoot \/ ReportGroup
  BY <1>1, <1>6, ShiftInv, ShiftRootInv, ReportGroupInv
<1>7. CASE Finish \/ Fail
  BY <1>1, <1>7, FinishInv, FailInv
<1>8. CASE UNCHANGED vars
  BY <1>1, <1>8, StutterInv
<1> QED BY <1>2, <1>3, <1>4, <1>5, <1>6, <1>7, <1>8 DEF Next

\* The inductive invariant holds in every reachable state.
THEOREM Invariant == Spec => []IInv
BY InitInv, NextInv, PTL DEF Spec

(***************************************************************************)
(* What the comparison promises.                                           *)
(***************************************************************************)

\* No row gets two verdicts, and a comparison that succeeds has given every row
\* of both files one (compareSortedWithMerge).
THEOREM OneVerdict == Spec => []EveryRowOnce
<1>1. IInv => EveryRowOnce
  <2> SUFFICES ASSUME IInv PROVE EveryRowOnce
    OBVIOUS
  <2>1. Verdicts
    BY DEF IInv
  <2>2. ASSUME pc = "ok"
        PROVE  /\ \A p \in LeftPos : p < DoneLeft
               /\ \A q \in RightPos : q < DoneRight
    <3>1. DoneLeft = Len(left) + 1 /\ DoneRight = Len(right) + 1
      BY <2>2 DEF IInv, Frontier, Grouping, DoneLeft, DoneRight
    <3>2. Len(left) \in Int /\ Len(right) \in Int
      BY DEF IInv, Types
    <3> QED BY <3>1, <3>2 DEF LeftPos, RightPos
  <2> QED BY <2>1, <2>2 DEF EveryRowOnce, Verdicts
<1> QED BY <1>1, Invariant, PTL

\* The pairs are one to one, of rows with one key that the options make
\* equivalent, while an augmenting path is being exchanged too (pairGroups).
THEOREM PairsSound == Spec => []PairsAreAlike
<1>1. IInv => PairsAreAlike
  BY DEF IInv
<1> QED BY <1>1, Invariant, PTL

\* LEFT_ONLY and RIGHT_ONLY mean that the other file does not have the key, and
\* CHANGED that it does.
THEOREM OnlyIsAbsent == Spec => []OnlyMeansAbsent
<1>1. IInv => OnlyMeansAbsent
  BY DEF IInv
<1> QED BY <1>1, Invariant, PTL

\* No two rows that could have been a pair are both reported as changed, merged
\* as they are, cancelled or matched with a tolerance.
THEOREM NothingMissed == Spec => []NoPairMissed
<1>1. IInv => NoPairMissed
  BY DEF IInv
<1> QED BY <1>1, Invariant, PTL

(***************************************************************************)
(* The counters.                                                           *)
(***************************************************************************)

\* The counters are the sizes of what they count.
Counted ==
  /\ stats = [c \in Counters |-> stats[c]]
  /\ stats["EqualRows"] = Cardinality(equal)
  /\ stats["LeftOnly"] = Cardinality(onlyLeft)
  /\ stats["RightOnly"] = Cardinality(onlyRight)
  /\ stats["ChangedLeft"] = Cardinality(changedLeft)
  /\ stats["ChangedRight"] = Cardinality(changedRight)
  /\ stats["DiffRows"] = Cardinality(onlyLeft) + Cardinality(onlyRight)
                         + Cardinality(changedLeft) + Cardinality(changedRight)

LEMMA FiniteSets ==
  ASSUME Types
  PROVE  /\ IsFiniteSet(LeftPos) /\ Cardinality(LeftPos) = Len(left)
         /\ IsFiniteSet(RightPos) /\ Cardinality(RightPos) = Len(right)
         /\ IsFiniteSet(equal) /\ Cardinality(equal) \in Nat
         /\ IsFiniteSet(onlyLeft) /\ Cardinality(onlyLeft) \in Nat
         /\ IsFiniteSet(onlyRight) /\ Cardinality(onlyRight) \in Nat
         /\ IsFiniteSet(changedLeft) /\ Cardinality(changedLeft) \in Nat
         /\ IsFiniteSet(changedRight) /\ Cardinality(changedRight) \in Nat
<1>1. Len(left) \in Nat /\ Len(right) \in Nat
  <2>1. left \in Seq(Records) /\ right \in Seq(Records)
    BY DEF Types
  <2> QED BY <2>1
<1>2. IsFiniteSet(LeftPos) /\ Cardinality(LeftPos) = Len(left)
  <2> DEFINE n == Len(left)
  <2>1. 1 \in Int /\ n \in Int /\ (IF 1 > n THEN 0 ELSE n - 1 + 1) = n
    BY <1>1
  <2> HIDE DEF n
  <2>2. IsFiniteSet(1 .. n) /\ Cardinality(1 .. n) = n
    BY <2>1, FS_Interval
  <2> QED BY <2>2 DEF n, LeftPos
<1>3. IsFiniteSet(RightPos) /\ Cardinality(RightPos) = Len(right)
  <2> DEFINE n == Len(right)
  <2>1. 1 \in Int /\ n \in Int /\ (IF 1 > n THEN 0 ELSE n - 1 + 1) = n
    BY <1>1
  <2> HIDE DEF n
  <2>2. IsFiniteSet(1 .. n) /\ Cardinality(1 .. n) = n
    BY <2>1, FS_Interval
  <2> QED BY <2>2 DEF n, RightPos
<1>4. IsFiniteSet(LeftPos \X RightPos)
  BY <1>2, <1>3, FS_Product
<1>5. /\ equal \in SUBSET (LeftPos \X RightPos)
      /\ onlyLeft \in SUBSET LeftPos /\ changedLeft \in SUBSET LeftPos
      /\ onlyRight \in SUBSET RightPos /\ changedRight \in SUBSET RightPos
  BY DEF Types
<1>6. IsFiniteSet(equal)
  BY <1>4, <1>5, FS_Subset
<1>7. IsFiniteSet(onlyLeft) /\ IsFiniteSet(changedLeft)
  BY <1>2, <1>5, FS_Subset
<1>8. IsFiniteSet(onlyRight) /\ IsFiniteSet(changedRight)
  BY <1>3, <1>5, FS_Subset
<1> QED BY <1>2, <1>3, <1>6, <1>7, <1>8, FS_CardinalityType

\* Two lists without a common row.
LEMMA SizeOfBoth ==
  ASSUME NEW S, NEW T, IsFiniteSet(S), IsFiniteSet(T), S \cap T = {}
  PROVE  Cardinality(S \cup T) = Cardinality(S) + Cardinality(T)
<1>1. Cardinality(S \cup T) = Cardinality(S) + Cardinality(T) - Cardinality(S \cap T)
  BY FS_Union
<1>2. Cardinality(S \cap T) = 0
  BY FS_EmptySet
<1>3. Cardinality(S) \in Nat /\ Cardinality(T) \in Nat
  BY FS_CardinalityType
<1> QED BY <1>1, <1>2, <1>3

\* A list of rows below p grows by those from p on to q.
LEMMA SizeOfRun ==
  ASSUME NEW S \in SUBSET Int, IsFiniteSet(S), NEW p \in Int, NEW q \in Int, p <= q,
         \A x \in S : x < p
  PROVE  Cardinality(S \cup p .. q - 1) = Cardinality(S) + (q - p)
<1>1. IsFiniteSet(p .. q - 1) /\ Cardinality(p .. q - 1) = q - p
  <2> DEFINE e == q - 1
  <2>1. e \in Int /\ (IF p > e THEN 0 ELSE e - p + 1) = q - p
    OBVIOUS
  <2> HIDE DEF e
  <2>2. IsFiniteSet(p .. e) /\ Cardinality(p .. e) = q - p
    BY <2>1, FS_Interval
  <2> QED BY <2>2 DEF e
<1>2. S \cap (p .. q - 1) = {}
  OBVIOUS
<1> QED BY <1>1, <1>2, SizeOfBoth

\* A row more.
LEMMA SizeOfOneMore ==
  ASSUME NEW S, IsFiniteSet(S), NEW x, x \notin S
  PROVE  IsFiniteSet(S \cup {x}) /\ Cardinality(S \cup {x}) = Cardinality(S) + 1
BY FS_AddElement

LEMMA CountIs ==
  ASSUME stats = [c \in Counters |-> stats[c]],
         NEW c \in Counters, c # "DiffRows", NEW n
  PROVE  /\ Count(c, n) = [d \in Counters |-> Count(c, n)[d]]
         /\ Count(c, n)[c] = stats[c] + n
         /\ Count(c, n)["DiffRows"] = stats["DiffRows"] + n
         /\ \A d \in Counters : d # c /\ d # "DiffRows" => Count(c, n)[d] = stats[d]
BY DEF Count, Counters

\* A step that pairs nothing and reports nothing.
LEMMA CountsStay ==
  ASSUME Counted, UNCHANGED <<equal, report, stats>>
  PROVE  Counted'
BY DEF Counted, report

\* A pair more.
LEMMA CountsPair ==
  ASSUME Types, Counted, UNCHANGED report,
         NEW a, a \notin equal, equal' = equal \cup {a},
         stats' = [stats EXCEPT !["EqualRows"] = @ + 1]
  PROVE  Counted'
<1>1. Cardinality(equal') = Cardinality(equal) + 1
  BY FiniteSets, SizeOfOneMore
<1>2. /\ stats' = [c \in Counters |-> stats'[c]]
      /\ stats'["EqualRows"] = stats["EqualRows"] + 1
      /\ \A c \in Counters \ {"EqualRows"} : stats'[c] = stats[c]
  BY DEF Counted, Counters
<1> QED BY <1>1, <1>2 DEF Counted, Counters, report

LEMMA CountInv == IInv /\ Counted /\ Next => Counted'
<1> SUFFICES ASSUME IInv, Counted, Next PROVE Counted'
  OBVIOUS
<1> USE DEF search, report
<1>0. /\ Types /\ Verdicts /\ stats = [c \in Counters |-> stats[c]]
      /\ Counters = {"EqualRows", "LeftOnly", "RightOnly", "ChangedLeft", "ChangedRight", "DiffRows"}
  BY DEF IInv, Counted, Counters
<1>1. CASE FlushLeft
  <2>1. PICK q \in i + 1 .. Len(left) + 1 :
          onlyLeft' = onlyLeft \cup i .. q - 1 /\ stats' = Count("LeftOnly", q - i)
    BY <1>1 DEF FlushLeft
  <2>2. pc = "merge" /\ UNCHANGED <<equal, onlyRight, changedLeft, changedRight>>
    BY <1>1 DEF FlushLeft
  <2>3. i \in Int /\ q \in Int /\ i <= q /\ onlyLeft \in SUBSET Int
    BY <1>0, <2>1, Positions
  <2>4. \A x \in onlyLeft : x < i
    BY <1>0, <2>2 DEF Verdicts, DoneLeft, Grouping
  <2>5. Cardinality(onlyLeft') = Cardinality(onlyLeft) + (q - i)
    BY <1>0, <2>1, <2>3, <2>4, FiniteSets, SizeOfRun
  <2>6. /\ stats' = [d \in Counters |-> stats'[d]]
        /\ stats'["LeftOnly"] = stats["LeftOnly"] + (q - i)
        /\ stats'["DiffRows"] = stats["DiffRows"] + (q - i)
        /\ \A d \in Counters : d # "LeftOnly" /\ d # "DiffRows" => stats'[d] = stats[d]
    BY <1>0, <2>1, CountIs
  <2>7. /\ stats'["EqualRows"] = stats["EqualRows"]
        /\ stats'["RightOnly"] = stats["RightOnly"]
        /\ stats'["ChangedLeft"] = stats["ChangedLeft"]
        /\ stats'["ChangedRight"] = stats["ChangedRight"]
    BY <2>6 DEF Counters
  <2>8. /\ Cardinality(onlyLeft) \in Nat /\ Cardinality(onlyRight) \in Nat
        /\ Cardinality(changedLeft) \in Nat /\ Cardinality(changedRight) \in Nat
    BY <1>0, FiniteSets
  <2>9. stats["DiffRows"] = Cardinality(onlyLeft) + Cardinality(onlyRight)
                            + Cardinality(changedLeft) + Cardinality(changedRight)
    BY DEF Counted
  <2>10. stats'["DiffRows"] = Cardinality(onlyLeft') + Cardinality(onlyRight')
                              + Cardinality(changedLeft') + Cardinality(changedRight')
    BY <2>2, <2>3, <2>5, <2>6, <2>8, <2>9
  <2> QED BY <2>2, <2>5, <2>6, <2>7, <2>10 DEF Counted
<1>2. CASE FlushRight
  <2>1. PICK q \in j + 1 .. Len(right) + 1 :
          onlyRight' = onlyRight \cup j .. q - 1 /\ stats' = Count("RightOnly", q - j)
    BY <1>2 DEF FlushRight
  <2>2. pc = "merge" /\ UNCHANGED <<equal, onlyLeft, changedLeft, changedRight>>
    BY <1>2 DEF FlushRight
  <2>3. j \in Int /\ q \in Int /\ j <= q /\ onlyRight \in SUBSET Int
    BY <1>0, <2>1, Positions
  <2>4. \A x \in onlyRight : x < j
    BY <1>0, <2>2 DEF Verdicts, DoneRight, Grouping
  <2>5. Cardinality(onlyRight') = Cardinality(onlyRight) + (q - j)
    BY <1>0, <2>1, <2>3, <2>4, FiniteSets, SizeOfRun
  <2>6. /\ stats' = [d \in Counters |-> stats'[d]]
        /\ stats'["RightOnly"] = stats["RightOnly"] + (q - j)
        /\ stats'["DiffRows"] = stats["DiffRows"] + (q - j)
        /\ \A d \in Counters : d # "RightOnly" /\ d # "DiffRows" => stats'[d] = stats[d]
    BY <1>0, <2>1, CountIs
  <2>7. /\ stats'["EqualRows"] = stats["EqualRows"]
        /\ stats'["LeftOnly"] = stats["LeftOnly"]
        /\ stats'["ChangedLeft"] = stats["ChangedLeft"]
        /\ stats'["ChangedRight"] = stats["ChangedRight"]
    BY <2>6 DEF Counters
  <2>8. /\ Cardinality(onlyLeft) \in Nat /\ Cardinality(onlyRight) \in Nat
        /\ Cardinality(changedLeft) \in Nat /\ Cardinality(changedRight) \in Nat
    BY <1>0, FiniteSets
  <2>9. stats["DiffRows"] = Cardinality(onlyLeft) + Cardinality(onlyRight)
                            + Cardinality(changedLeft) + Cardinality(changedRight)
    BY DEF Counted
  <2>10. stats'["DiffRows"] = Cardinality(onlyLeft') + Cardinality(onlyRight')
                              + Cardinality(changedLeft') + Cardinality(changedRight')
    BY <2>2, <2>3, <2>5, <2>6, <2>8, <2>9
  <2> QED BY <2>2, <2>5, <2>6, <2>7, <2>10 DEF Counted
<1>3. CASE StreamLeft
  <2>1. /\ pc = "stream" /\ changedLeft' = changedLeft \cup {i} /\ stats' = Count("ChangedLeft", 1)
        /\ UNCHANGED <<equal, onlyLeft, onlyRight, changedRight>>
    BY <1>3 DEF StreamLeft
  <2>2. i \notin changedLeft
    <3>1. \A x \in changedLeft : x < i /\ x \in Int
      BY <1>0, <2>1, Positions DEF Verdicts, DoneLeft, Grouping
    <3> QED BY <3>1
  <2>3. Cardinality(changedLeft') = Cardinality(changedLeft) + 1
    BY <1>0, <2>1, <2>2, FiniteSets, SizeOfOneMore
  <2>4. /\ stats' = [d \in Counters |-> stats'[d]]
        /\ stats'["ChangedLeft"] = stats["ChangedLeft"] + 1
        /\ stats'["DiffRows"] = stats["DiffRows"] + 1
        /\ \A d \in Counters : d # "ChangedLeft" /\ d # "DiffRows" => stats'[d] = stats[d]
    BY <1>0, <2>1, CountIs
  <2>5. /\ stats'["EqualRows"] = stats["EqualRows"]
        /\ stats'["LeftOnly"] = stats["LeftOnly"]
        /\ stats'["RightOnly"] = stats["RightOnly"]
        /\ stats'["ChangedRight"] = stats["ChangedRight"]
    BY <2>4 DEF Counters
  <2>6. /\ Cardinality(onlyLeft) \in Nat /\ Cardinality(onlyRight) \in Nat
        /\ Cardinality(changedLeft) \in Nat /\ Cardinality(changedRight) \in Nat
    BY <1>0, FiniteSets
  <2> QED BY <1>0, <2>1, <2>3, <2>4, <2>5, <2>6 DEF Counted
<1>4. CASE StreamRight
  <2>1. /\ pc = "stream" /\ changedRight' = changedRight \cup {j}
        /\ stats' = Count("ChangedRight", 1)
        /\ UNCHANGED <<equal, onlyLeft, onlyRight, changedLeft>>
    BY <1>4 DEF StreamRight
  <2>2. j \notin changedRight
    <3>1. \A x \in changedRight : x < j /\ x \in Int
      BY <1>0, <2>1, Positions DEF Verdicts, DoneRight, Grouping
    <3> QED BY <3>1
  <2>3. Cardinality(changedRight') = Cardinality(changedRight) + 1
    BY <1>0, <2>1, <2>2, FiniteSets, SizeOfOneMore
  <2>4. /\ stats' = [d \in Counters |-> stats'[d]]
        /\ stats'["ChangedRight"] = stats["ChangedRight"] + 1
        /\ stats'["DiffRows"] = stats["DiffRows"] + 1
        /\ \A d \in Counters : d # "ChangedRight" /\ d # "DiffRows" => stats'[d] = stats[d]
    BY <1>0, <2>1, CountIs
  <2>5. /\ stats'["EqualRows"] = stats["EqualRows"]
        /\ stats'["LeftOnly"] = stats["LeftOnly"]
        /\ stats'["RightOnly"] = stats["RightOnly"]
        /\ stats'["ChangedLeft"] = stats["ChangedLeft"]
    BY <2>4 DEF Counters
  <2>6. /\ Cardinality(onlyLeft) \in Nat /\ Cardinality(onlyRight) \in Nat
        /\ Cardinality(changedLeft) \in Nat /\ Cardinality(changedRight) \in Nat
    BY <1>0, FiniteSets
  <2> QED BY <1>0, <2>1, <2>3, <2>4, <2>5, <2>6 DEF Counted
<1>5. CASE StreamEqual
  <2>1. /\ equal' = equal \cup {<<i, j>>} /\ UNCHANGED report
        /\ stats' = [stats EXCEPT !["EqualRows"] = @ + 1]
    BY <1>5 DEF StreamEqual
  <2>2. <<i, j>> \notin equal
    <3>1. \A a \in equal : a[1] < i /\ a[1] \in Int
      BY <1>0, Positions DEF Verdicts
    <3> QED BY <3>1
  <2> QED BY <1>0, <2>1, <2>2, CountsPair
<1>6. CASE StreamEnd
  <2>1. PICK p \in i .. Len(left) + 1, q \in j .. Len(right) + 1 :
          /\ changedLeft' = changedLeft \cup i .. p - 1
          /\ changedRight' = changedRight \cup j .. q - 1
          /\ stats' = [stats EXCEPT !["ChangedLeft"] = @ + (p - i),
                                    !["ChangedRight"] = @ + (q - j),
                                    !["DiffRows"] = @ + (p - i) + (q - j)]
    BY <1>6 DEF StreamEnd
  <2>2. pc = "stream" /\ UNCHANGED <<equal, onlyLeft, onlyRight>>
    BY <1>6 DEF StreamEnd
  <2>3. /\ i \in Int /\ p \in Int /\ i <= p /\ changedLeft \in SUBSET Int
        /\ j \in Int /\ q \in Int /\ j <= q /\ changedRight \in SUBSET Int
    BY <1>0, <2>1, Positions
  <2>4. (\A x \in changedLeft : x < i) /\ (\A x \in changedRight : x < j)
    BY <1>0, <2>2 DEF Verdicts, DoneLeft, DoneRight, Grouping
  <2>5. /\ Cardinality(changedLeft') = Cardinality(changedLeft) + (p - i)
        /\ Cardinality(changedRight') = Cardinality(changedRight) + (q - j)
    BY <1>0, <2>1, <2>3, <2>4, FiniteSets, SizeOfRun
  <2>6. /\ stats' = [d \in Counters |-> stats'[d]]
        /\ stats'["ChangedLeft"] = stats["ChangedLeft"] + (p - i)
        /\ stats'["ChangedRight"] = stats["ChangedRight"] + (q - j)
        /\ stats'["DiffRows"] = stats["DiffRows"] + (p - i) + (q - j)
        /\ \A d \in {"EqualRows", "LeftOnly", "RightOnly"} : stats'[d] = stats[d]
    BY <1>0, <2>1 DEF Counters
  <2>7. /\ stats'["EqualRows"] = stats["EqualRows"]
        /\ stats'["LeftOnly"] = stats["LeftOnly"]
        /\ stats'["RightOnly"] = stats["RightOnly"]
    BY <2>6 DEF Counters
  <2>8. /\ Cardinality(onlyLeft) \in Nat /\ Cardinality(onlyRight) \in Nat
        /\ Cardinality(changedLeft) \in Nat /\ Cardinality(changedRight) \in Nat
    BY <1>0, FiniteSets
  <2>9. stats["DiffRows"] = Cardinality(onlyLeft) + Cardinality(onlyRight)
                            + Cardinality(changedLeft) + Cardinality(changedRight)
    BY DEF Counted
  <2>10. stats'["DiffRows"] = Cardinality(onlyLeft') + Cardinality(onlyRight')
                              + Cardinality(changedLeft') + Cardinality(changedRight')
    BY <2>2, <2>3, <2>5, <2>6, <2>8, <2>9
  <2> QED BY <2>2, <2>5, <2>6, <2>7, <2>10 DEF Counted
<1>7. CASE Cancel
  <2>1. CASE UNCHANGED <<equal, stats>>
    BY <1>7, <2>1, CountsStay DEF Cancel
  <2>2. CASE \E r \in GroupRight : /\ ~Taken(r)
                                   /\ equal' = equal \cup {<<root, r>>}
                                   /\ stats' = [stats EXCEPT !["EqualRows"] = @ + 1]
    <3>1. PICK r \in GroupRight : /\ ~Taken(r)
                                  /\ equal' = equal \cup {<<root, r>>}
                                  /\ stats' = [stats EXCEPT !["EqualRows"] = @ + 1]
      BY <2>2
    <3>2. <<root, r>> \notin equal
      BY <3>1 DEF Taken
    <3> QED BY <1>0, <1>7, <3>1, <3>2, CountsPair DEF Cancel
  <2> QED BY <1>7, <2>1, <2>2 DEF Cancel
<1>8. CASE Shift
  <2>1. PICK r \in GroupRight :
          /\ <<fromLeft[hole], r>> \in equal
          /\ equal' = (equal \ {<<fromLeft[hole], r>>}) \cup {<<fromLeft[hole], hole>>}
    BY <1>8 DEF Shift
  <2> DEFINE a == <<fromLeft[hole], r>>
             b == <<fromLeft[hole], hole>>
  <2>2. UNCHANGED <<report, stats>>
    BY <1>8 DEF Shift
  <2>3. b \notin equal
    <3>1. ~Taken(hole)
      BY <1>8, HoleFacts DEF Shift
    <3> QED BY <3>1 DEF Taken
  <2>4. IsFiniteSet(equal \ {a}) /\ Cardinality(equal \ {a}) = Cardinality(equal) - 1
    BY <1>0, <2>1, FiniteSets, FS_RemoveElement
  <2>5. Cardinality((equal \ {a}) \cup {b}) = Cardinality(equal \ {a}) + 1
    BY <2>3, <2>4, SizeOfOneMore
  <2>6. Cardinality(equal') = Cardinality(equal)
    BY <1>0, <2>1, <2>4, <2>5, FiniteSets
  <2> QED BY <2>2, <2>6 DEF Counted
<1>9. CASE ShiftRoot
  <2>1. <<fromLeft[hole], hole>> \notin equal
    BY <1>9 DEF ShiftRoot, Matched
  <2> QED BY <1>0, <1>9, <2>1, CountsPair DEF ShiftRoot
<1>10. CASE ReportGroup
  <2> DEFINE l == {p \in GroupLeft : ~Matched(p)}
             r == {q \in GroupRight : ~Taken(q)}
  <2>1. /\ changedLeft' = changedLeft \cup l
        /\ changedRight' = changedRight \cup r
        /\ stats' = [stats EXCEPT !["ChangedLeft"] = @ + Cardinality(l),
                                  !["ChangedRight"] = @ + Cardinality(r),
                                  !["DiffRows"] = @ + Cardinality(l) + Cardinality(r)]
        /\ UNCHANGED <<equal, onlyLeft, onlyRight>>
    BY <1>10 DEF ReportGroup
  <2>2. Grouping
    BY <1>10 DEF ReportGroup, Grouping
  <2>3. l \in SUBSET LeftPos /\ r \in SUBSET RightPos
    BY <2>2, GroupFacts
  <2>4. l \cap changedLeft = {} /\ r \cap changedRight = {}
    <3>1. (\A x \in changedLeft : x < gi /\ x \in Int) /\ (\A x \in changedRight : x < gj /\ x \in Int)
      BY <1>0, <2>2, Positions DEF Verdicts, DoneLeft, DoneRight
    <3>2. (\A x \in l : x >= gi) /\ (\A x \in r : x >= gj)
      BY <2>2, GroupFacts DEF GroupLeft, GroupRight
    <3>3. gi \in Int /\ gj \in Int
      BY <1>0, Positions
    <3> HIDE DEF l, r
    <3> QED BY <3>1, <3>2, <3>3
  <2> HIDE DEF l, r
  <2>5. IsFiniteSet(l) /\ Cardinality(l) \in Nat /\ IsFiniteSet(r) /\ Cardinality(r) \in Nat
    BY <1>0, <2>3, FiniteSets, FS_Subset, FS_CardinalityType
  <2>6. /\ Cardinality(changedLeft') = Cardinality(changedLeft) + Cardinality(l)
        /\ Cardinality(changedRight') = Cardinality(changedRight) + Cardinality(r)
    BY <1>0, <2>1, <2>4, <2>5, FiniteSets, SizeOfBoth
  <2>7. /\ stats' = [d \in Counters |-> stats'[d]]
        /\ stats'["ChangedLeft"] = stats["ChangedLeft"] + Cardinality(l)
        /\ stats'["ChangedRight"] = stats["ChangedRight"] + Cardinality(r)
        /\ stats'["DiffRows"] = stats["DiffRows"] + Cardinality(l) + Cardinality(r)
        /\ \A d \in {"EqualRows", "LeftOnly", "RightOnly"} : stats'[d] = stats[d]
    BY <1>0, <2>1 DEF Counters
  <2> QED BY <1>0, <2>1, <2>5, <2>6, <2>7, FiniteSets DEF Counted
<1>11. CASE Fail
  <2>1. /\ stats' = [c \in Counters |-> 0]
        /\ equal' = {} /\ onlyLeft' = {} /\ onlyRight' = {} /\ changedLeft' = {} /\ changedRight' = {}
    BY <1>11 DEF Fail
  <2> QED BY <2>1, FS_EmptySet DEF Counted, Counters
<1>12. CASE \/ StartStream \/ ReadGroups \/ StartSearch \/ GiveUp \/ Finish
            \/ \E l \in LeftPos : Found(l) \/ Widen(l)
  BY <1>12, CountsStay DEF StartStream, ReadGroups, StartSearch, GiveUp, Finish, Found, Widen
<1> QED BY <1>1, <1>2, <1>3, <1>4, <1>5, <1>6, <1>7, <1>8, <1>9, <1>10, <1>11, <1>12 DEF Next

\* On success each row has one verdict, so the counters of a side add up to its rows.
LEMMA CountsHold ==
  ASSUME IInv, Counted
  PROVE  CountsAddUp
<1> SUFFICES ASSUME pc = "ok" PROVE CountsAddUp
  BY DEF CountsAddUp
<1>1. Types /\ Verdicts /\ OneToOne(equal) /\ equal \subseteq LeftPos \X RightPos
  BY DEF IInv, PairsAreAlike, Types
<1>2. DoneLeft = Len(left) + 1 /\ DoneRight = Len(right) + 1
  BY DEF IInv, Frontier, Grouping, DoneLeft, DoneRight
<1>3. (\A p \in LeftPos : p < DoneLeft) /\ (\A q \in RightPos : q < DoneRight)
  <2>1. left \in Seq(Records) /\ right \in Seq(Records)
    BY <1>1 DEF Types
  <2> QED BY <1>2, <2>1 DEF LeftPos, RightPos
<1> DEFINE L == {p \in LeftPos : Matched(p)}
           R == {q \in RightPos : Taken(q)}
<1>4. IsFiniteSet(L) /\ Cardinality(L) = Cardinality(equal)
  <2> DEFINE f == [a \in equal |-> a[1]]
  <2>1. f \in Bijection(equal, L)
    <3>1. \A a \in equal : a[1] \in L
      BY <1>1 DEF Matched
    <3>2. \A p \in L : \E a \in equal : a[1] = p
      BY DEF Matched
    <3>3. \A a, b \in equal : a[1] = b[1] => a = b
      BY <1>1 DEF OneToOne
    <3> HIDE DEF L
    <3> QED BY <3>1, <3>2, <3>3 DEF Bijection, Injection, Surjection, IsInjective
  <2> HIDE DEF L, f
  <2> QED BY <1>1, <2>1, FiniteSets, FS_Bijection DEF ExistsBijection
<1>5. IsFiniteSet(R) /\ Cardinality(R) = Cardinality(equal)
  <2> DEFINE f == [a \in equal |-> a[2]]
  <2>1. f \in Bijection(equal, R)
    <3>1. \A a \in equal : a[2] \in R
      BY <1>1 DEF Taken
    <3>2. \A q \in R : \E a \in equal : a[2] = q
      BY DEF Taken
    <3>3. \A a, b \in equal : a[2] = b[2] => a = b
      BY <1>1 DEF OneToOne
    <3> HIDE DEF R
    <3> QED BY <3>1, <3>2, <3>3 DEF Bijection, Injection, Surjection, IsInjective
  <2> HIDE DEF R, f
  <2> QED BY <1>1, <2>1, FiniteSets, FS_Bijection DEF ExistsBijection
<1>6. Len(left) = Cardinality(L) + Cardinality(onlyLeft) + Cardinality(changedLeft)
  <2>1. LeftPos = (L \cup onlyLeft) \cup changedLeft
    BY <1>1, <1>3 DEF Verdicts, Types
  <2>2. L \cap onlyLeft = {} /\ (L \cup onlyLeft) \cap changedLeft = {}
    BY <1>1 DEF Verdicts
  <2> HIDE DEF L
  <2>3. IsFiniteSet(onlyLeft) /\ IsFiniteSet(changedLeft)
    BY <1>1, FiniteSets
  <2>4. IsFiniteSet(L \cup onlyLeft)
    BY <1>4, <2>3, FS_Union
  <2>5. Cardinality(L \cup onlyLeft) = Cardinality(L) + Cardinality(onlyLeft)
    BY <1>4, <2>2, <2>3, SizeOfBoth
  <2>6. Cardinality((L \cup onlyLeft) \cup changedLeft)
          = Cardinality(L \cup onlyLeft) + Cardinality(changedLeft)
    BY <2>2, <2>3, <2>4, SizeOfBoth
  <2> QED BY <1>1, <2>1, <2>5, <2>6, FiniteSets
<1>7. Len(right) = Cardinality(R) + Cardinality(onlyRight) + Cardinality(changedRight)
  <2>1. RightPos = (R \cup onlyRight) \cup changedRight
    BY <1>1, <1>3 DEF Verdicts, Types
  <2>2. R \cap onlyRight = {} /\ (R \cup onlyRight) \cap changedRight = {}
    BY <1>1 DEF Verdicts
  <2> HIDE DEF R
  <2>3. IsFiniteSet(onlyRight) /\ IsFiniteSet(changedRight)
    BY <1>1, FiniteSets
  <2>4. IsFiniteSet(R \cup onlyRight)
    BY <1>5, <2>3, FS_Union
  <2>5. Cardinality(R \cup onlyRight) = Cardinality(R) + Cardinality(onlyRight)
    BY <1>5, <2>2, <2>3, SizeOfBoth
  <2>6. Cardinality((R \cup onlyRight) \cup changedRight)
          = Cardinality(R \cup onlyRight) + Cardinality(changedRight)
    BY <2>2, <2>3, <2>4, SizeOfBoth
  <2> QED BY <1>1, <2>1, <2>5, <2>6, FiniteSets
<1> HIDE DEF L, R
<1> QED BY <1>4, <1>5, <1>6, <1>7 DEF Counted, CountsAddUp

(***************************************************************************)
(* The most pairs.  A row of each pair stands for it, so that every pair   *)
(* there could be has a row that stands: then no choice of partners has    *)
(* more pairs.                                                             *)
(***************************************************************************)

\* How a key is compared follows from the mode, and so does what is known of the
\* relation.
ByMode ==
  /\ pc = "exact" => mode = "exact"
  /\ pc \in {"root", "scan", "augment"} => mode = "tolerant"
  /\ \A a \in alike : <<a[2], a[1]>> \in alike
  /\ mode # "tolerant" =>
       \A a \in alike : \A b \in alike : a[2] = b[1] => <<a[1], b[2]>> \in alike

\* p and q could be a pair.
Edge(p, q) == left[p].key = right[q].key /\ Alike(p, q)

\* For a pair stands its left row if that is in C, else its right row.
Stands(C, p, q) ==
  \/ p \in C /\ Matched(p)
  \/ \E a \in equal : a[2] = q /\ a[1] \notin C

\* The keys that are done have as many pairs as they can.
Covered ==
  mode = "tolerant" =>
    \E C \in SUBSET LeftPos :
      \A p \in LeftPos : \A q \in RightPos :
        p < DoneLeft /\ q < DoneRight /\ Edge(p, q) => Stands(C, p, q)

\* What an exchange can lead to from a row that stays without a partner: the left rows
\* L could only have the right rows R, and these have partners in L.
Closed(L, R) ==
  /\ \A p \in GroupLeft : p < root /\ ~Matched(p) => p \in L
  /\ \A p \in L : p < root /\ \A r \in GroupRight : Alike(p, r) => r \in R
  /\ \A r \in R : \E p \in L : <<p, r>> \in equal

\* No path of exchanges comes there from outside.
DeadEnd ==
  pc \in {"root", "scan", "augment"} =>
    \E L \in SUBSET GroupLeft, R \in SUBSET GroupRight :
      Closed(L, R) /\ (pc = "augment" => hole \notin R)

Best == Counted /\ ByMode /\ Covered /\ DeadEnd

\* With a row that stands for each pair there could be, no choice of partners has more
\* pairs: different pairs of the choice have different pairs they are stood for by.
LEMMA MostPossible ==
  ASSUME IInv, NEW C,
         \A p \in LeftPos : \A q \in RightPos : Edge(p, q) => Stands(C, p, q),
         NEW f \in [LeftPos -> RightPos \cup {0}], IsMatching(f)
  PROVE  Cardinality({p \in LeftPos : f[p] # 0}) <= Cardinality(equal)
<1> DEFINE D == {p \in LeftPos : f[p] # 0}
           For(p, a) == (p \in C /\ a[1] = p) \/ (a[2] = f[p] /\ a[1] \notin C)
           g == [p \in D |-> CHOOSE a \in equal : For(p, a)]
<1>1. ASSUME NEW p \in D PROVE \E a \in equal : For(p, a)
  <2>1. f[p] \in RightPos /\ p \in LeftPos /\ Edge(p, f[p])
    BY DEF IsMatching, Edge
  <2>2. Stands(C, p, f[p])
    BY <2>1
  <2> QED BY <2>2 DEF Stands, Matched
<1>2. \A p \in D : g[p] \in equal /\ For(p, g[p])
  <2> HIDE DEF D, For
  <2> QED BY <1>1
<1>3. ASSUME NEW p \in D, NEW q \in D, g[p] = g[q] PROVE p = q
  <2>1. For(p, g[p]) /\ For(q, g[p])
    BY <1>2, <1>3
  <2>2. f[p] = f[q] => p = q
    BY DEF IsMatching
  <2> HIDE DEF g
  <2> QED BY <2>1, <2>2
<1>4. g \in Injection(D, equal)
  <2> HIDE DEF D, For
  <2>1. g \in [D -> equal]
    BY <1>2
  <2> HIDE DEF g
  <2> QED BY <1>3, <2>1 DEF Injection, IsInjective
<1>5. IsFiniteSet(equal)
  BY FiniteSets DEF IInv
<1> HIDE DEF D, g
<1>6. Cardinality(D) <= Cardinality(equal)
  BY <1>4, <1>5, FS_Injection
<1> QED BY <1>6 DEF D

\* Without a tolerance the options' relation is an equivalence.  For a pair stands its
\* left row, unless a row of that kind was left without a partner: then every right
\* row of the kind has one.
LEMMA ClassesCovered ==
  ASSUME IInv, ByMode, pc = "ok", mode # "tolerant"
  PROVE  \E C \in SUBSET LeftPos :
           \A p \in LeftPos : \A q \in RightPos : Edge(p, q) => Stands(C, p, q)
<1> DEFINE Same(p, m) == left[p].key = left[m].key /\ <<left[p].row, left[m].row>> \in alike
           C == {p \in LeftPos : \A m \in LeftPos : Same(p, m) => Matched(m)}
<1>1. /\ Verdicts /\ OnlyMeansAbsent /\ NoPairMissed
      /\ \A a \in equal : Edge(a[1], a[2])
      /\ equal \subseteq LeftPos \X RightPos
      /\ left \in Seq(Records) /\ right \in Seq(Records) /\ Identity \subseteq alike
  BY DEF IInv, PairsAreAlike, Types, Edge
<1>2. /\ \A p \in LeftPos : Matched(p) \/ p \in onlyLeft \cup changedLeft
      /\ \A q \in RightPos : Taken(q) \/ q \in onlyRight \cup changedRight
  <2>1. DoneLeft = Len(left) + 1 /\ DoneRight = Len(right) + 1
    BY DEF IInv, Frontier, Grouping, DoneLeft, DoneRight
  <2>2. (\A p \in LeftPos : p < DoneLeft) /\ (\A q \in RightPos : q < DoneRight)
    BY <1>1, <2>1 DEF LeftPos, RightPos
  <2> QED BY <1>1, <2>2 DEF Verdicts
<1>3. ASSUME NEW x, NEW y, NEW z, <<x, y>> \in alike
      PROVE  /\ <<y, x>> \in alike
             /\ <<y, z>> \in alike => <<x, z>> \in alike
  BY <1>3 DEF ByMode
<1>4. ASSUME NEW p \in LeftPos, NEW q \in RightPos, Edge(p, q)
      PROVE  Stands(C, p, q)
  <2>1. CASE p \in C
    <3>1. Same(p, p)
      <4>1. left[p] \in [key : Keys, row : Rows]
        BY <1>1, CompareAssumption DEF LeftPos
      <4> QED BY <1>1, <4>1 DEF Identity
    <3> QED BY <2>1, <3>1 DEF Stands
  <2>2. CASE p \notin C
    <3>1. PICK m \in LeftPos : Same(p, m) /\ ~Matched(m)
      BY <2>2
    <3>2. Edge(m, q)
      <4>1. <<left[m].row, left[p].row>> \in alike
        BY <1>3, <3>1
      <4>2. <<left[p].row, right[q].row>> \in alike
        BY <1>4 DEF Edge, Alike
      <4>3. <<left[m].row, right[q].row>> \in alike
        BY <1>3, <4>1, <4>2
      <4> QED BY <1>4, <3>1, <4>3 DEF Edge, Alike
    <3>3. Taken(q)
      <4>1. m \in changedLeft
        BY <1>1, <1>2, <3>1, <3>2 DEF OnlyMeansAbsent, Edge
      <4>2. q \in changedRight => FALSE
        BY <1>1, <3>2, <4>1 DEF NoPairMissed, Edge
      <4>3. q \in onlyRight => FALSE
        BY <1>1, <3>2 DEF OnlyMeansAbsent, Edge
      <4> QED BY <1>2, <4>2, <4>3
    <3>4. PICK a \in equal : a[2] = q
      BY <3>3 DEF Taken
    <3>5. Same(a[1], m)
      <4>1. Edge(a[1], q)
        BY <1>1, <3>4
      <4>2. <<left[a[1]].row, right[q].row>> \in alike /\ <<left[m].row, right[q].row>> \in alike
        BY <3>2, <4>1 DEF Edge, Alike
      <4>3. <<right[q].row, left[m].row>> \in alike
        BY <1>3, <4>2
      <4>4. <<left[a[1]].row, left[m].row>> \in alike
        BY <1>3, <4>2, <4>3
      <4> QED BY <3>2, <4>1, <4>4 DEF Edge
    <3>6. a[1] \notin C
      BY <3>1, <3>5
    <3> QED BY <3>4, <3>6 DEF Stands
  <2> QED BY <2>1, <2>2
<1> HIDE DEF C
<1>5. C \in SUBSET LeftPos
  BY DEF C
<1> QED BY <1>4, <1>5

LEMMA BestInit == Init => Best
<1> SUFFICES ASSUME Init PROVE Best
  OBVIOUS
<1>1. Counted
  BY FS_EmptySet DEF Init, Counted, Counters
<1>2. ByMode
  <2>1. pc = "merge"
    BY DEF Init
  <2>2. \A a \in alike : <<a[2], a[1]>> \in alike
    <3>1. alike = Identity \/ alike \in Tolerances
      BY DEF Init, Normalizations
    <3>2. alike = Identity => \A a \in alike : <<a[2], a[1]>> \in alike
      BY DEF Identity
    <3> QED BY <3>1, <3>2, CompareAssumption
  <2>3. mode # "tolerant" =>
          \A a \in alike : \A b \in alike : a[2] = b[1] => <<a[1], b[2]>> \in alike
    BY DEF Init, Normalizations, Identity
  <2> QED BY <2>1, <2>2, <2>3 DEF ByMode
<1>3. Covered
  <2>1. DoneLeft = 1 /\ \A p \in LeftPos : ~(p < 1)
    BY DEF Init, DoneLeft, Grouping, LeftPos
  <2> QED BY <2>1 DEF Covered
<1>4. DeadEnd
  BY DEF Init, DeadEnd
<1> QED BY <1>1, <1>2, <1>3, <1>4 DEF Best

LEMMA ByModeInv == IInv /\ ByMode /\ Next => ByMode'
<1> SUFFICES ASSUME IInv, ByMode, Next PROVE ByMode'
  OBVIOUS
<1>1. UNCHANGED <<mode, alike>>
  BY DEF Next, inputs, FlushLeft, FlushRight, StartStream, ReadGroups, StreamLeft, StreamRight,
         StreamEqual, StreamEnd, Cancel, StartSearch, Found, Widen, GiveUp, Shift, ShiftRoot,
         ReportGroup, Finish, Fail
<1>2. mode \in Modes
  BY DEF IInv, Types
<1>3. /\ pc' = "exact" => mode = "exact"
      /\ pc' \in {"root", "scan", "augment"} => mode = "tolerant"
  BY <1>2 DEF ByMode, Modes, Next, FlushLeft, FlushRight, StartStream, ReadGroups, StreamLeft,
         StreamRight, StreamEqual, StreamEnd, Cancel, StartSearch, Found, Widen, GiveUp, Shift,
         ShiftRoot, ReportGroup, Finish, Fail
<1> QED BY <1>1, <1>3 DEF ByMode

\* A step that leaves the done keys and their pairs alone leaves them covered.
LEMMA CoveredStays ==
  ASSUME Types, Covered, UNCHANGED inputs, DoneLeft' = DoneLeft, DoneRight' = DoneRight,
         \A a \in equal : a[1] < DoneLeft \/ a[2] < DoneRight => a \in equal'
  PROVE  Covered'
<1> SUFFICES ASSUME mode = "tolerant" PROVE Covered'
  BY DEF Covered, inputs
<1>1. PICK C \in SUBSET LeftPos :
        \A p \in LeftPos : \A q \in RightPos :
          p < DoneLeft /\ q < DoneRight /\ Edge(p, q) => Stands(C, p, q)
  BY DEF Covered
<1>2. ASSUME NEW p \in LeftPos, NEW q \in RightPos, p < DoneLeft, q < DoneRight, Stands(C, p, q)
      PROVE  Stands(C, p, q)'
  BY <1>2 DEF Stands, Matched
<1>3. LeftPos' = LeftPos /\ RightPos' = RightPos /\ \A p, q : Edge(p, q)' <=> Edge(p, q)
  BY DEF LeftPos, RightPos, Edge, Alike, inputs
<1>4. \A p \in LeftPos : \A q \in RightPos :
        p < DoneLeft' /\ q < DoneRight' /\ Edge(p, q)' => Stands(C, p, q)'
  BY <1>1, <1>2, <1>3
<1> HIDE DEF Edge, Stands
<1> QED BY <1>3, <1>4 DEF Covered

\* A key that only one file has leaves nothing to be paired.
LEMMA FlushCovered ==
  ASSUME IInv, IInv', Covered, FlushLeft \/ FlushRight
  PROVE  Covered'
<1> SUFFICES ASSUME mode = "tolerant" PROVE Covered'
  BY DEF Covered, FlushLeft, FlushRight, inputs
<1>1. /\ UNCHANGED <<left, right, mode, alike, equal>> /\ pc = "merge" /\ pc' = "merge"
      /\ \/ \E q \in i + 1 .. Len(left) + 1 : i' = q /\ onlyLeft' = onlyLeft \cup i .. q - 1 /\ j' = j
         \/ \E q \in j + 1 .. Len(right) + 1 : j' = q /\ onlyRight' = onlyRight \cup j .. q - 1 /\ i' = i
  BY DEF FlushLeft, FlushRight, inputs
<1>2. DoneLeft = i /\ DoneLeft' = i' /\ DoneRight = j /\ DoneRight' = j'
  BY <1>1 DEF DoneLeft, DoneRight, Grouping
<1>3. PICK C \in SUBSET LeftPos :
        \A p \in LeftPos : \A q \in RightPos :
          p < i /\ q < j /\ Edge(p, q) => Stands(C, p, q)
  BY <1>2 DEF Covered
<1>4. LeftPos' = LeftPos /\ RightPos' = RightPos /\ \A p, q : Edge(p, q)' <=> Edge(p, q)
  BY <1>1 DEF LeftPos, RightPos, Edge, Alike
<1>5. i \in Int /\ j \in Int /\ LeftPos \subseteq Int /\ RightPos \subseteq Int
  BY Positions DEF IInv
<1>6. ASSUME NEW p \in LeftPos, NEW q \in RightPos, p < i', q < j', Edge(p, q)
      PROVE  p < i /\ q < j
  <2>1. CASE \E e \in i + 1 .. Len(left) + 1 :
               i' = e /\ onlyLeft' = onlyLeft \cup i .. e - 1 /\ j' = j
    <3>1. ~(p < i) => p \in onlyLeft'
      BY <1>5, <1>6, <2>1
    <3>2. p \in onlyLeft' => left[p].key # right[q].key
      BY <1>1, <1>4 DEF IInv, OnlyMeansAbsent
    <3> QED BY <1>6, <2>1, <3>1, <3>2 DEF Edge
  <2>2. CASE \E e \in j + 1 .. Len(right) + 1 :
               j' = e /\ onlyRight' = onlyRight \cup j .. e - 1 /\ i' = i
    <3>1. ~(q < j) => q \in onlyRight'
      BY <1>5, <1>6, <2>2
    <3>2. q \in onlyRight' => left[p].key # right[q].key
      BY <1>1, <1>4 DEF IInv, OnlyMeansAbsent
    <3> QED BY <1>6, <2>2, <3>1, <3>2 DEF Edge
  <2> QED BY <1>1, <2>1, <2>2
<1>7. \A p, q : Stands(C, p, q)' <=> Stands(C, p, q)
  BY <1>1 DEF Stands, Matched
<1>8. \A p \in LeftPos : \A q \in RightPos :
        p < DoneLeft' /\ q < DoneRight' /\ Edge(p, q)' => Stands(C, p, q)'
  BY <1>2, <1>3, <1>4, <1>6, <1>7
<1> QED BY <1>4, <1>8 DEF Covered

\* A key is done: its dead end says which right rows stand, for all others the left
\* row does.
LEMMA GroupCovered ==
  ASSUME IInv, ByMode, Covered, DeadEnd, ReportGroup
  PROVE  Covered'
<1> SUFFICES ASSUME mode = "tolerant" PROVE Covered'
  BY DEF Covered, ReportGroup, inputs
<1>1. /\ UNCHANGED <<left, right, mode, alike, equal, i, j>>
      /\ pc = "root" /\ pc' = "merge" /\ root = i /\ Grouping
  BY DEF ByMode, ReportGroup, inputs, Grouping
<1>2. DoneLeft = gi /\ DoneLeft' = i /\ DoneRight = gj /\ DoneRight' = j
  BY <1>1 DEF DoneLeft, DoneRight, Grouping
<1>3. PICK C \in SUBSET LeftPos :
        \A p \in LeftPos : \A q \in RightPos :
          p < gi /\ q < gj /\ Edge(p, q) => Stands(C, p, q)
  BY <1>2 DEF Covered
<1>4. PICK L \in SUBSET GroupLeft, R \in SUBSET GroupRight : Closed(L, R)
  BY <1>1 DEF DeadEnd
<1>5. /\ LeftPos \subseteq Int /\ RightPos \subseteq Int
      /\ i \in Int /\ j \in Int /\ gi \in Int /\ gj \in Int /\ gi < i /\ gj < j
      /\ gi \in LeftPos /\ gj \in RightPos
      /\ GroupLeft \subseteq LeftPos /\ equal \subseteq LeftPos \X RightPos
      /\ \A a \in equal : a[1] \in GroupLeft <=> a[2] \in GroupRight
      /\ \A a, b \in equal : a[1] = b[1] \/ a[2] = b[2] => a = b
      /\ \A a \in equal : a[1] < i /\ a[2] < j
  BY <1>1, GroupFacts DEF IInv, PairsAreAlike, OneToOne, Verdicts
<1> DEFINE D == {p \in LeftPos : (p < gi /\ p \in C) \/ (p \in GroupLeft /\ p \notin L)}
<1>6. ASSUME NEW p \in LeftPos, NEW q \in RightPos, p < i, q < j, Edge(p, q)
      PROVE  Stands(D, p, q)
  <2>1. CASE p < gi /\ q < gj
    <3>1. CASE p \in C /\ Matched(p)
      BY <2>1, <3>1 DEF Stands
    <3>2. CASE \E a \in equal : a[2] = q /\ a[1] \notin C
      <4>1. PICK a \in equal : a[2] = q /\ a[1] \notin C
        BY <3>2
      <4>2. q \notin GroupRight
        BY <1>5, <2>1 DEF GroupRight
      <4>3. a[1] \notin GroupLeft
        BY <1>5, <4>1, <4>2
      <4> QED BY <4>1, <4>3 DEF Stands
    <3> QED BY <1>3, <1>6, <2>1, <3>1, <3>2 DEF Stands
  <2>2. CASE p >= gi /\ q >= gj
    <3>1. p \in GroupLeft /\ q \in GroupRight
      BY <1>5, <1>6, <2>2 DEF GroupLeft, GroupRight
    <3>2. CASE p \notin L
      <4>1. Matched(p)
        BY <1>1, <1>4, <1>6, <3>1, <3>2 DEF Closed
      <4> QED BY <3>1, <3>2, <4>1 DEF Stands
    <3>3. CASE p \in L
      <4>1. q \in R
        BY <1>4, <1>6, <3>1, <3>3 DEF Closed, Edge
      <4>2. PICK m \in L : <<m, q>> \in equal
        BY <1>4, <4>1 DEF Closed
      <4>3. m \in GroupLeft /\ ~(m < gi)
        BY <1>5, <4>2 DEF GroupLeft
      <4>4. m \notin D
        BY <4>2, <4>3
      <4> HIDE DEF D
      <4> QED BY <4>2, <4>4 DEF Stands
    <3> QED BY <3>2, <3>3
  <2>3. ~(p < gi /\ q >= gj) /\ ~(p >= gi /\ q < gj)
    <3>1. Separate(gi, gj)
      BY <1>1 DEF IInv, Frontier
    <3>2. left[p].key \in Int /\ right[q].key \in Int /\ left[p].key = right[q].key
      <4>1. p <= p /\ q <= q
        BY <1>5
      <4>2. left[p].key \in Int
        BY <4>1, KeysInOrder DEF IInv, Types, LeftPos
      <4>3. right[q].key \in Int
        BY <4>1, KeysInOrder DEF IInv, Types, RightPos
      <4> QED BY <1>6, <4>2, <4>3 DEF Edge
    <3> QED BY <3>1, <3>2 DEF Separate
  <2> QED BY <1>5, <2>1, <2>2, <2>3
<1> HIDE DEF D
<1>7. D \in SUBSET LeftPos
  BY DEF D
<1>8. PICK S \in SUBSET LeftPos :
        \A p \in LeftPos : \A q \in RightPos :
          p < i /\ q < j /\ Edge(p, q) => Stands(S, p, q)
  BY <1>6, <1>7
<1>9. LeftPos' = LeftPos /\ RightPos' = RightPos /\ \A p, q : Edge(p, q)' <=> Edge(p, q)
  BY <1>1 DEF LeftPos, RightPos, Edge, Alike
<1>10. \A p, q : Stands(S, p, q)' <=> Stands(S, p, q)
  BY <1>1 DEF Stands, Matched
<1>11. \A p \in LeftPos : \A q \in RightPos :
         p < DoneLeft' /\ q < DoneRight' /\ Edge(p, q)' => Stands(S, p, q)'
  BY <1>2, <1>8, <1>9, <1>10
<1> HIDE DEF Edge, Stands
<1> QED BY <1>9, <1>11 DEF Covered

\* An exchange keeps to the rows of the current key.
LEMMA ExchangeCovered ==
  ASSUME IInv, Covered, Shift \/ ShiftRoot
  PROVE  Covered'
<1>1. Grouping /\ Grouping' /\ pc = "augment" /\ UNCHANGED <<i, j, gi, gj, inputs>>
  BY DEF Shift, ShiftRoot, Grouping
<1>2. DoneLeft = gi /\ DoneRight = gj /\ DoneLeft' = DoneLeft /\ DoneRight' = DoneRight
  BY <1>1 DEF DoneLeft, DoneRight
<1>3. ASSUME NEW a \in equal, a \notin equal'
      PROVE  ~(a[1] < gi) /\ ~(a[2] < gj)
  <2>1. CASE ShiftRoot
    BY <1>3, <2>1 DEF ShiftRoot
  <2>2. CASE Shift
    <3>1. a[1] \in GroupLeft
      <4>1. fromLeft[hole] \in GroupLeft
        BY <1>1, HoleFacts
      <4> QED BY <1>3, <2>2, <4>1 DEF Shift
    <3>2. a[2] \in GroupRight
      BY <1>1, <3>1, GroupFacts
    <3>3. gi \in Int /\ i \in Int /\ gj \in Int /\ j \in Int
      BY <1>1, Positions DEF IInv
    <3> QED BY <3>1, <3>2, <3>3 DEF GroupLeft, GroupRight
  <2> QED BY <2>1, <2>2
<1> QED BY <1>1, <1>2, <1>3, CoveredStays DEF IInv

LEMMA CoveredInv == IInv /\ IInv' /\ Best /\ Next => Covered'
<1> SUFFICES ASSUME IInv, IInv', Best, Next PROVE Covered'
  OBVIOUS
<1>0. Types /\ ByMode /\ Covered /\ DeadEnd
  BY DEF IInv, Best
<1>1. CASE FlushLeft \/ FlushRight
  BY <1>0, <1>1, FlushCovered
<1>2. CASE ReportGroup
  BY <1>0, <1>2, GroupCovered
<1>3. CASE Shift \/ ShiftRoot
  BY <1>0, <1>3, ExchangeCovered
<1>4. CASE ReadGroups
  <2>1. /\ DoneLeft' = i /\ DoneLeft = i /\ DoneRight' = j /\ DoneRight = j
        /\ UNCHANGED <<inputs, equal>>
    BY <1>4 DEF ReadGroups, DoneLeft, DoneRight, Grouping
  <2> QED BY <1>0, <2>1, CoveredStays
<1>5. CASE StartSearch \/ (\E l \in LeftPos : Found(l) \/ Widen(l)) \/ GiveUp \/ Finish
  <2>1. UNCHANGED <<inputs, equal, i, j, gi, gj>> /\ (Grouping' <=> Grouping)
    BY <1>5 DEF StartSearch, Found, Widen, GiveUp, Finish, Grouping
  <2>2. DoneLeft' = DoneLeft /\ DoneRight' = DoneRight
    BY <2>1 DEF DoneLeft, DoneRight
  <2> QED BY <1>0, <2>1, <2>2, CoveredStays
<1>6. CASE Fail
  <2>1. DoneLeft' = 1
    BY <1>6 DEF Fail, DoneLeft, Grouping
  <2>2. \A p \in LeftPos' : ~(p < 1)
    BY DEF LeftPos
  <2> QED BY <2>1, <2>2 DEF Covered
<1>7. CASE \/ StartStream \/ StreamLeft \/ StreamRight \/ StreamEqual \/ StreamEnd \/ Cancel
  <2>1. mode # "tolerant" /\ mode' = mode
    BY <1>0, <1>7 DEF StartStream, StreamLeft, StreamRight, StreamEqual, StreamEnd, Cancel,
                      inputs, ByMode, Types
  <2> QED BY <2>1 DEF Covered
<1> QED BY <1>1, <1>2, <1>3, <1>4, <1>5, <1>6, <1>7 DEF Next

\* The search starts, or goes on: nothing that a dead end is about changes.
LEMMA DeadEndStays ==
  ASSUME DeadEnd, pc \in {"root", "scan", "augment"},
         UNCHANGED <<left, right, alike, gi, gj, i, j, root, equal>>,
         pc' = "augment" => ~Taken(hole')
  PROVE  DeadEnd'
<1>1. PICK L \in SUBSET GroupLeft, R \in SUBSET GroupRight : Closed(L, R)
  BY DEF DeadEnd
<1>2. GroupLeft' = GroupLeft /\ GroupRight' = GroupRight
  BY DEF GroupLeft, GroupRight
<1>3. Closed(L, R)'
  BY <1>1, <1>2 DEF Closed, Matched, Alike
<1>4. pc' = "augment" => hole' \notin R
  BY <1>1 DEF Closed, Taken
<1> QED BY <1>2, <1>3, <1>4 DEF DeadEnd

\* A search that found no path closes what it came to.
LEMMA GiveUpDead ==
  ASSUME IInv, DeadEnd, GiveUp
  PROVE  DeadEnd'
<1>1. /\ pc = "scan" /\ queue = {} /\ pc' = "root" /\ root' = root + 1 /\ Grouping
      /\ UNCHANGED <<left, right, alike, gi, gj, i, j, equal>>
  BY DEF GiveUp, inputs, Grouping
<1>2. PICK L \in SUBSET GroupLeft, R \in SUBSET GroupRight : Closed(L, R)
  BY <1>1 DEF DeadEnd
<1>3. /\ root < i /\ seenRight \subseteq GroupRight
      /\ \A r \in seenRight : Taken(r)
      /\ \A l \in Reached : Fresh(l) = {}
  BY <1>1 DEF IInv, Paths
<1>4. /\ gi <= root /\ \A p \in LeftPos : p >= root => ~Matched(p)
  BY <1>1 DEF IInv, Tried
<1>5. /\ GroupLeft \subseteq LeftPos /\ LeftPos \subseteq Int /\ root \in Int /\ i \in Int /\ gi \in Int
      /\ equal \subseteq LeftPos \X RightPos
      /\ \A a \in equal : a[1] \in GroupLeft <=> a[2] \in GroupRight
  BY <1>1, GroupFacts
<1>6. root \in GroupLeft
  BY <1>3, <1>4, <1>5 DEF GroupLeft
<1>7. Reached \subseteq GroupLeft /\ \A l \in Reached : l < root + 1
  <2>1. \A l \in GroupLeft : Matched(l) => l < root
    BY <1>4, <1>5
  <2>2. \A l \in Reached : l = root \/ (l \in GroupLeft /\ Matched(l))
    BY DEF Reached, Matched
  <2>3. Reached \subseteq GroupLeft
    BY <1>6, <2>2
  <2>4. ASSUME NEW l \in Reached PROVE l < root + 1
    <3>1. l \in Int /\ root \in Int /\ (l = root \/ l < root)
      BY <1>5, <2>1, <2>2, <2>3
    <3> QED BY <3>1
  <2> QED BY <2>3, <2>4
<1> DEFINE M == L \cup Reached
           S == R \cup seenRight
<1>8. \A p \in GroupLeft : p < root + 1 /\ ~Matched(p) => p \in M
  <2>1. \A p \in GroupLeft : p < root + 1 => p < root \/ p = root
    BY <1>5
  <2> QED BY <1>2, <2>1 DEF Closed, Reached
<1>9. \A p \in M : p < root + 1 /\ \A r \in GroupRight : Alike(p, r) => r \in S
  <2>1. \A p \in L : p < root + 1
    BY <1>2, <1>5 DEF Closed
  <2>2. \A p \in Reached : \A r \in GroupRight : Alike(p, r) => r \in seenRight
    BY <1>3 DEF Fresh
  <2> QED BY <1>2, <1>7, <2>1, <2>2 DEF Closed
<1>10. \A r \in S : \E p \in M : <<p, r>> \in equal
  <2>1. ASSUME NEW r \in seenRight PROVE \E p \in Reached : <<p, r>> \in equal
    <3>1. PICK a \in equal : a[2] = r
      BY <1>3 DEF Taken
    <3>2. a = <<a[1], r>> /\ a[1] \in GroupLeft
      BY <1>3, <1>5, <3>1
    <3> QED BY <2>1, <3>1, <3>2 DEF Reached
  <2> QED BY <1>2, <2>1 DEF Closed
<1>11. M \in SUBSET GroupLeft /\ S \in SUBSET GroupRight
  BY <1>3, <1>7
<1>12. PICK M1 \in SUBSET GroupLeft, S1 \in SUBSET GroupRight :
         /\ \A p \in GroupLeft : p < root + 1 /\ ~Matched(p) => p \in M1
         /\ \A p \in M1 : p < root + 1 /\ \A r \in GroupRight : Alike(p, r) => r \in S1
         /\ \A r \in S1 : \E p \in M1 : <<p, r>> \in equal
  <2> HIDE DEF M, S
  <2> QED BY <1>8, <1>9, <1>10, <1>11
<1>13. GroupLeft' = GroupLeft /\ GroupRight' = GroupRight
  BY <1>1 DEF GroupLeft, GroupRight
<1>14. Closed(M1, S1)'
  BY <1>1, <1>12, <1>13 DEF Closed, Matched, Alike
<1> QED BY <1>1, <1>13, <1>14 DEF DeadEnd

\* The left row before a hole that is outside the dead end is outside, and so is the
\* partner it gives up.
LEMMA ShiftDead ==
  ASSUME IInv, DeadEnd, Shift
  PROVE  DeadEnd'
<1>1. /\ pc = "augment" /\ pc' = "augment" /\ Grouping
      /\ UNCHANGED <<left, right, alike, gi, gj, i, j, root>>
  BY DEF Shift, inputs, Grouping
<1>2. PICK L \in SUBSET GroupLeft, R \in SUBSET GroupRight : Closed(L, R) /\ hole \notin R
  BY <1>1 DEF DeadEnd
<1>3. PICK l : l = fromLeft[hole]
  OBVIOUS
<1>4. PICK r \in GroupRight :
        <<l, r>> \in equal /\ equal' = (equal \ {<<l, r>>}) \cup {<<l, hole>>} /\ hole' = r
  BY <1>3 DEF Shift
<1>5. l \in GroupLeft /\ hole \in GroupRight /\ Alike(l, hole)
  BY <1>1, <1>3, HoleFacts
<1>6. l \notin L
  BY <1>2, <1>5 DEF Closed
<1>7. r \notin R
  <2>1. ASSUME NEW m \in L, <<m, r>> \in equal PROVE m = l
    BY <1>4, <2>1 DEF IInv, PairsAreAlike, OneToOne
  <2> QED BY <1>2, <1>6, <2>1 DEF Closed
<1>8. GroupLeft' = GroupLeft /\ GroupRight' = GroupRight
  BY <1>1 DEF GroupLeft, GroupRight
<1>9. \A p : Matched(p)' <=> Matched(p)
  <2>1. \A p : (\E a \in equal' : a[1] = p) => (\E a \in equal : a[1] = p)
    BY <1>4
  <2>2. ASSUME NEW p, NEW a \in equal, a[1] = p PROVE \E b \in equal' : b[1] = p
    <3>1. a # <<l, r>> => a \in equal'
      BY <1>4
    <3>2. <<l, hole>> \in equal' /\ (a = <<l, r>> => p = l)
      BY <1>4, <2>2
    <3> QED BY <2>2, <3>1, <3>2
  <2> QED BY <2>1, <2>2 DEF Matched
<1>10. Closed(L, R)'
  <2>1. \A q \in R : \E p \in L : <<p, q>> \in equal'
    BY <1>2, <1>4, <1>6 DEF Closed
  <2>2. \A p, q : Alike(p, q)' <=> Alike(p, q)
    BY <1>1 DEF Alike
  <2> QED BY <1>1, <1>2, <1>8, <1>9, <2>1, <2>2 DEF Closed
<1> QED BY <1>2, <1>4, <1>7, <1>8, <1>10 DEF DeadEnd

\* The last pair of a path is the root's, which so has a partner.
LEMMA ShiftRootDead ==
  ASSUME IInv, DeadEnd, ShiftRoot
  PROVE  DeadEnd'
<1>1. /\ pc = "augment" /\ pc' = "root" /\ root' = root + 1 /\ Grouping
      /\ UNCHANGED <<left, right, alike, gi, gj, i, j>>
  BY DEF ShiftRoot, inputs, Grouping
<1>2. PICK L \in SUBSET GroupLeft, R \in SUBSET GroupRight : Closed(L, R)
  BY <1>1 DEF DeadEnd
<1>3. fromLeft[hole] = root
  BY <1>1, HoleFacts DEF ShiftRoot, Reached, Matched
<1>4. equal' = equal \cup {<<root, hole>>}
  BY <1>3 DEF ShiftRoot
<1>5. GroupLeft \subseteq Int /\ root \in Int
  BY <1>1, GroupFacts
<1>6. GroupLeft' = GroupLeft /\ GroupRight' = GroupRight
  BY <1>1 DEF GroupLeft, GroupRight
<1>7. \A p : Matched(p) => Matched(p)'
  BY <1>4 DEF Matched
<1>8. \A p : p = root => Matched(p)'
  <2>1. <<root, hole>> \in equal' /\ <<root, hole>>[1] = root
    BY <1>4
  <2> QED BY <2>1 DEF Matched
<1>9. \A p \in GroupLeft : p < root + 1 /\ ~Matched(p)' => p \in L
  <2>1. \A p \in GroupLeft : p < root + 1 => p < root \/ p = root
    BY <1>5
  <2>2. \A p \in GroupLeft : p < root /\ ~Matched(p) => p \in L
    BY <1>2 DEF Closed
  <2> QED BY <1>7, <1>8, <2>1, <2>2
<1>10. \A p \in L : p < root + 1
  BY <1>2, <1>5 DEF Closed
<1>11. \A p, q : Alike(p, q)' <=> Alike(p, q)
  BY <1>1 DEF Alike
<1>12. Closed(L, R)'
  BY <1>1, <1>2, <1>4, <1>6, <1>9, <1>10, <1>11 DEF Closed
<1> QED BY <1>1, <1>6, <1>12 DEF DeadEnd

LEMMA DeadEndInv == IInv /\ DeadEnd /\ Next => DeadEnd'
<1> SUFFICES ASSUME IInv, DeadEnd, Next PROVE DeadEnd'
  OBVIOUS
<1>1. CASE ReadGroups
  <2>1. root' = i /\ gi' = i
    BY <1>1 DEF ReadGroups
  <2>2. i \in Int /\ i' \in Int
    BY <1>1, Positions DEF ReadGroups, IInv
  <2>3. \A p \in GroupLeft' : ~(p < root')
    BY <2>1, <2>2 DEF GroupLeft
  <2>4. Closed({}, {})'
    BY <2>3 DEF Closed
  <2>5. pc' # "augment"
    BY <1>1 DEF ReadGroups
  <2> QED BY <2>4, <2>5 DEF DeadEnd
<1>2. CASE StartSearch \/ (\E l \in LeftPos : Found(l) \/ Widen(l))
  <2>1. /\ pc \in {"root", "scan"}
        /\ UNCHANGED <<left, right, alike, gi, gj, i, j, root, equal>>
        /\ pc' = "augment" => ~Taken(hole')
    BY <1>2 DEF StartSearch, Found, Widen, inputs
  <2> QED BY <2>1, DeadEndStays
<1>3. CASE GiveUp \/ Shift \/ ShiftRoot
  BY <1>3, GiveUpDead, ShiftDead, ShiftRootDead
<1>4. CASE \/ FlushLeft \/ FlushRight \/ StartStream \/ StreamLeft \/ StreamRight \/ StreamEqual
           \/ StreamEnd \/ Cancel \/ ReportGroup \/ Finish \/ Fail
  <2>1. pc' \notin {"root", "scan", "augment"}
    BY <1>4 DEF FlushLeft, FlushRight, StartStream, StreamLeft, StreamRight, StreamEqual,
                StreamEnd, Cancel, ReportGroup, Finish, Fail
  <2> QED BY <2>1 DEF DeadEnd
<1> QED BY <1>1, <1>2, <1>3, <1>4 DEF Next

\* IInv and Best together are inductive.
THEOREM BestInvariant == Spec => [](IInv /\ Best)
<1>1. Init => IInv /\ Best
  BY InitInv, BestInit
<1>2. IInv /\ Best /\ [Next]_vars => (IInv /\ Best)'
  <2> SUFFICES ASSUME IInv, Best, [Next]_vars PROVE IInv' /\ Best'
    OBVIOUS
  <2>1. IInv'
    BY NextInv
  <2>2. CASE Next
    BY <2>1, <2>2, CountInv, ByModeInv, CoveredInv, DeadEndInv DEF Best
  <2>3. CASE UNCHANGED vars
    <3>1. Counted' /\ ByMode'
      BY <2>3 DEF Best, Counted, ByMode, vars, inputs, report
    <3>2. Covered'
      <4>1. DoneLeft' = DoneLeft /\ DoneRight' = DoneRight /\ UNCHANGED <<inputs, equal>>
        BY <2>3 DEF vars, inputs, DoneLeft, DoneRight, Grouping
      <4> QED BY <4>1, CoveredStays DEF Best, IInv
    <3>3. DeadEnd'
      <4>1. UNCHANGED <<left, right, alike, gi, gj, i, j, root, equal, pc, hole>>
        BY <2>3 DEF vars, inputs, search
      <4>2. GroupLeft' = GroupLeft /\ GroupRight' = GroupRight
        BY <4>1 DEF GroupLeft, GroupRight
      <4>3. \A L, R : Closed(L, R) => Closed(L, R)'
        BY <4>1, <4>2 DEF Closed, Matched, Alike
      <4> QED BY <4>1, <4>2, <4>3 DEF Best, DeadEnd
    <3>4. Best'
      BY <3>1, <3>2, <3>3 DEF Best
    <3> QED BY <2>1, <3>4
  <2> QED BY <2>2, <2>3
<1> QED BY <1>1, <1>2, PTL DEF Spec

\* The summary of a comparison that succeeded is the best there is, for all files and
\* options: as many rows are paired as can be, whatever the tolerances and the order of
\* the search, and its counters add up to the rows of each file and to the differences
\* reported (pairGroups, compareSortedWithMerge).
THEOREM BestSummary == Spec => []SummaryIsBest
<1>1. IInv /\ Best => MostPairs
  <2> SUFFICES ASSUME IInv, Best, pc = "ok",
                      NEW f \in [LeftPos -> RightPos \cup {0}], IsMatching(f)
               PROVE  Cardinality({p \in LeftPos : f[p] # 0}) <= stats["EqualRows"]
    BY DEF MostPairs
  <2>1. PICK C : \A p \in LeftPos : \A q \in RightPos : Edge(p, q) => Stands(C, p, q)
    <3>1. CASE mode # "tolerant"
      BY <3>1, ClassesCovered DEF Best
    <3>2. CASE mode = "tolerant"
      <4>1. /\ \A p \in LeftPos : p < DoneLeft
            /\ \A q \in RightPos : q < DoneRight
        <5>1. DoneLeft = Len(left) + 1 /\ DoneRight = Len(right) + 1
          BY DEF IInv, Frontier, Grouping, DoneLeft, DoneRight
        <5>2. left \in Seq(Records) /\ right \in Seq(Records)
          BY DEF IInv, Types
        <5> QED BY <5>1, <5>2 DEF LeftPos, RightPos
      <4> QED BY <3>2, <4>1 DEF Best, Covered
    <3> QED BY <3>1, <3>2
  <2>2. stats["EqualRows"] = Cardinality(equal)
    BY DEF Best, Counted
  <2> QED BY <2>1, <2>2, MostPossible
<1>2. IInv /\ Best => CountsAddUp
  BY CountsHold DEF Best
<1>3. IInv /\ Best => SummaryIsBest
  BY <1>1, <1>2 DEF SummaryIsBest
<1> QED BY <1>3, BestInvariant, PTL
===============================================================================
