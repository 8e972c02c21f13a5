-------------------------- MODULE PartitionSortProofs --------------------------
(***************************************************************************)
(* Proofs about RangeSplit, for every file, size, number of workers and    *)
(* minimum chunk: no row is routed twice, success means that every row     *)
(* was routed and counted, and the workers implement JobContract; about    *)
(* ExternalSort, for every partition, chunk and fan-in: a sort that        *)
(* succeeds gives each record as often as it was there, in order, and      *)
(* until then none is lost; and so that NothingLost holds of the two.      *)
(*                                                                         *)
(* The argument for RangeSplit: the ranges tile the bytes behind the       *)
(* header (Tiling), so each row has one owner; an owner has routed exactly *)
(* the rows of its range that begin before its position (RoutedUpTo); and  *)
(* it has counted as many as these are (CountsRight).                      *)
(***************************************************************************)
EXTENDS MCPartitionSort, FiniteSetTheorems, TLAPS

(***************************************************************************)
(* Arithmetic of the cuts.                                                 *)
(***************************************************************************)

LEMMA Division ==
  ASSUME NEW a \in Nat, NEW n \in Nat \ {0}
  PROVE  a \div n \in Nat /\ n * (a \div n) <= a /\ a < n * (a \div n) + n
OBVIOUS

LEMMA DivisionMonotone ==
  ASSUME NEW a \in Nat, NEW b \in Nat, a <= b, NEW n \in Nat \ {0}
  PROVE  a \div n <= b \div n
OBVIOUS

LEMMA ProductMonotone ==
  ASSUME NEW d \in Nat, NEW m \in Nat, NEW n \in Nat, m <= n
  PROVE  d * m \in Nat /\ d * m <= d * n
OBVIOUS

\* The byte x of d bytes is in one of n ranges.
LEMMA Tile ==
  ASSUME NEW d \in Nat \ {0}, NEW n \in Nat \ {0}, NEW x \in 0 .. d - 1
  PROVE  \E w \in 0 .. n - 1 : (d * w) \div n <= x /\ x < (d * (w + 1)) \div n
<1> DEFINE w == ((x + 1) * n - 1) \div d
<1> DEFINE y == (x + 1) * n - 1
<1>1. y \in Nat /\ y + 1 = (x + 1) * n
  <2>1. (x + 1) * n >= n
    OBVIOUS
  <2>2. (x + 1) * n \in Nat
    OBVIOUS
  <2> QED BY <2>1, <2>2
<1>2. w \in Nat /\ d * w <= y /\ y < d * w + d
  BY <1>1, Division
<1>3. w <= n - 1
  <2>1. (x + 1) * n <= d * n
    BY ProductMonotone, x + 1 \in Nat, x + 1 <= d
  <2>2. d * w < d * n
    BY <1>1, <1>2, <2>1
  <2>3. ASSUME w >= n
        PROVE  FALSE
    BY <1>2, <2>2, <2>3, ProductMonotone
  <2> QED BY <1>2, <2>3
<1>4. (d * w) \div n <= x
  <2> DEFINE q == (d * w) \div n
  <2>1. d * w \in Nat
    BY <1>2, ProductMonotone
  <2>2. q \in Nat /\ n * q <= d * w
    BY <2>1, Division
  <2>3. n * q < (x + 1) * n
    BY <1>1, <1>2, <2>1, <2>2
  <2>4. ASSUME q >= x + 1
        PROVE  FALSE
    <3>1. n * (x + 1) <= n * q
      BY <2>2, <2>4, ProductMonotone
    <3> QED BY <2>3, <3>1, <2>2
  <2> QED BY <2>2, <2>4
<1>5. x < (d * (w + 1)) \div n
  <2> DEFINE q == (d * (w + 1)) \div n
  <2>1. d * (w + 1) \in Nat /\ d * (w + 1) = d * w + d
    BY <1>2
  <2>2. q \in Nat /\ d * (w + 1) < n * q + n
    BY <2>1, Division
  <2>3. (x + 1) * n < n * q + n
    BY <1>1, <1>2, <2>1, <2>2
  <2>4. ASSUME q <= x
        PROVE  FALSE
    <3>1. n * q <= n * x
      BY <2>2, <2>4, ProductMonotone
    <3> QED BY <2>3, <3>1, <2>2
  <2> QED BY <2>2, <2>4
<1>6. w \in 0 .. n - 1
  BY <1>2, <1>3
<1> HIDE DEF w
<1> QED BY <1>4, <1>5, <1>6

(***************************************************************************)
(* The ranges of a file that has rows.                                     *)
(***************************************************************************)

LEMMA ActivePositive == TypeOK => Active \in 1 .. Workers
<1> SUFFICES ASSUME TypeOK PROVE Active \in 1 .. Workers
  OBVIOUS
<1>1. Size - start \in Nat
  BY SplitAssumption DEF TypeOK, Offset
<1>2. (Size - start) \div MinChunk \in Nat
  BY <1>1, SplitAssumption, Division
<1> QED BY <1>2, SplitAssumption DEF Active

\* The cuts are in order, and the last range ends where the file does.
LEMMA CutsInOrder ==
  ASSUME TypeOK, NEW v \in 0 .. Active, NEW w \in 0 .. Active, v <= w
  PROVE  /\ Cut(v) \in start .. Size
         /\ Cut(w) \in start .. Size
         /\ Cut(v) <= Cut(w)
         /\ Cut(Active) = Size
<1> DEFINE d == Size - start
<1>1. d \in Nat /\ start \in Nat /\ Size = start + d
  BY SplitAssumption DEF TypeOK, Offset
<1>2. Active \in Nat \ {0}
  BY ActivePositive
<1>3. ASSUME NEW m \in Nat, NEW n \in Nat, m <= n
      PROVE  (d * m) \div Active \in Nat /\ (d * m) \div Active <= (d * n) \div Active
  <2> HIDE DEF d
  <2>1. d * m \in Nat /\ d * n \in Nat /\ d * m <= d * n
    BY <1>1, <1>3, ProductMonotone
  <2> QED BY <1>2, <2>1, DivisionMonotone, Division
<1>4. (d * Active) \div Active = d
  <2> HIDE DEF d
  <2> QED BY <1>1, <1>2
<1>5. /\ (d * v) \div Active \in Nat
      /\ (d * v) \div Active <= (d * w) \div Active
      /\ (d * w) \div Active <= d
      /\ (d * w) \div Active \in Nat
  BY <1>2, <1>3, <1>4
<1>6. Cut(v) = start + (d * v) \div Active /\ Cut(w) = start + (d * w) \div Active
  BY DEF Cut
<1>7. Cut(Active) = start + d
  BY <1>4 DEF Cut
<1> HIDE DEF d
<1> QED BY <1>1, <1>5, <1>6, <1>7

\* Every byte behind the header is in the range of one worker ...
LEMMA Tiling ==
  ASSUME TypeOK, NEW p \in Byte, start <= p
  PROVE  \E w \in 0 .. Active - 1 : Cut(w) <= p /\ p < Cut(w + 1)
<1> DEFINE d == Size - start
<1> DEFINE x == p - start
<1>1. d \in Nat \ {0} /\ start \in Nat /\ x \in 0 .. d - 1 /\ p = start + x
  BY SplitAssumption DEF TypeOK, Offset, Byte
<1>2. Active \in Nat \ {0}
  BY ActivePositive
<1>3. PICK w \in 0 .. Active - 1 :
        (d * w) \div Active <= x /\ x < (d * (w + 1)) \div Active
  <2> HIDE DEF d, x
  <2> QED BY <1>1, <1>2, Tile
<1>4. Cut(w) = start + (d * w) \div Active /\ Cut(w + 1) = start + (d * (w + 1)) \div Active
  BY DEF Cut
<1>5. (d * w) \div Active \in Int /\ (d * (w + 1)) \div Active \in Int
  <2> HIDE DEF d, x
  <2>1. d * w \in Nat /\ d * (w + 1) \in Nat
    BY <1>1, <1>2
  <2> QED BY <1>2, <2>1, Division
<1> HIDE DEF d, x
<1>6. Cut(w) <= p /\ p < Cut(w + 1)
  BY <1>1, <1>3, <1>4, <1>5
<1> QED BY <1>6

\* ... and of only one.
LEMMA Disjoint ==
  ASSUME TypeOK, NEW p \in Byte,
         NEW v \in 0 .. Active - 1, Cut(v) <= p, p < Cut(v + 1),
         NEW w \in 0 .. Active - 1, Cut(w) <= p, p < Cut(w + 1)
  PROVE  v = w
<1>1. Active \in Nat
  BY ActivePositive
<1>2. ASSUME NEW a \in 0 .. Active - 1, NEW b \in 0 .. Active - 1, a < b,
             p < Cut(a + 1), Cut(b) <= p
      PROVE  FALSE
  <2>1. Cut(a + 1) <= Cut(b) /\ Cut(a + 1) \in start .. Size /\ Cut(b) \in start .. Size
    BY <1>1, <1>2, CutsInOrder
  <2>2. p \in Nat /\ start \in Nat
    BY DEF Byte, TypeOK, Offset
  <2> QED BY <1>2, <2>1, <2>2
<1> QED BY <1>1, <1>2

(***************************************************************************)
(* The inductive invariant, in two halves: what has been routed, and what  *)
(* has gone wrong.                                                         *)
(***************************************************************************)

AtLine(p) == start <= p /\ (p = start \/ p = Size \/ p \in Breaks)

\* A worker at work has a range and no error.
Busy ==
  \A w \in Worker : pc[w] \in {"align", "read"} =>
    start < Size /\ w < Active /\ outcome[w] = "none"

\* It reads from the beginning of a line, in its range or behind it.
OnLine ==
  \A w \in Worker :
    /\ pc[w] = "align" => pos[w] = 0
    /\ pc[w] = "read" => Cut(w) <= pos[w] /\ AtLine(pos[w])

\* The rows of w's range are routed up to w's position, and no further.
RoutedUpTo ==
  \A w \in 0 .. Active - 1 : \A p \in Rows :
    Cut(w) <= p /\ p < Cut(w + 1) => routed[p] = IF p < pos[w] THEN 1 ELSE 0

NothingElse == \A p \in Byte \ Rows : routed[p] = 0

\* A worker that ended without an error has come to the end of its range.
ReadOut ==
  \A w \in 0 .. Active - 1 :
    start < Size /\ pc[w] \in {"sent", "taken"} /\ outcome[w] = "none" =>
      Cut(w + 1) <= pos[w]

Routing == Busy /\ OnLine /\ RoutedUpTo /\ NothingElse /\ ReadOut

\* The collector's error, and where the cause of a cancellation is.
Errorless == \A w \in Worker : pc[w] = "taken" /\ first = "none" => outcome[w] = "none"
ContextHasCause ==
  /\ first = "context" => CtxDone
  /\ \A w \in Worker : outcome[w] = "context" => CtxDone
CauseNotLost ==
  cancelled /\ ~parent =>
    first = "concrete" \/ \E w \in Worker : pc[w] = "sent" /\ outcome[w] = "concrete"
Ended ==
  /\ returned # "running" => \A w \in Worker : pc[w] = "taken"
  /\ returned = "ok" => first = "none"
  /\ returned = "context" => parent

Failing == Errorless /\ ContextHasCause /\ CauseNotLost /\ Ended

IInv == TypeOK /\ Routing /\ Failing

LEMMA SameFile ==
  ASSUME UNCHANGED file
  PROVE  /\ Breaks' = Breaks
         /\ Rows' = Rows
         /\ Active' = Active
         /\ \A w \in Int : Cut(w)' = Cut(w)
         /\ \A w \in Int : Last(w)' = Last(w)
         /\ \A p \in Int : AtLine(p)' = AtLine(p)
         /\ start' = start
BY DEF file, Breaks, Rows, EndOfLine, Blank, Active, Cut, Last, AtLine

LEMMA TypeInv == TypeOK /\ [Next]_vars => TypeOK'
<1> SUFFICES ASSUME TypeOK, [Next]_vars PROVE TypeOK'
  OBVIOUS
<1>1. CASE CancelParent
  BY <1>1 DEF TypeOK, CancelParent, file
<1>2. ASSUME NEW w \in Worker, Align(w) PROVE TypeOK'
  BY <1>2 DEF TypeOK, Align, file
<1>3. ASSUME NEW w \in Worker, ReadLine(w) PROVE TypeOK'
  <2>1. pos[w] \in Byte
    BY <1>3, SplitAssumption DEF TypeOK, ReadLine, Offset, Byte
  <2>2. routed' \in [Byte -> Nat] /\ rows' \in [Worker -> Nat] /\ pos' \in [Worker -> Offset]
    BY <1>3, <2>1 DEF TypeOK, ReadLine
  <2> QED BY <1>3, <2>2 DEF TypeOK, ReadLine, file
<1>4. ASSUME NEW w \in Worker, Done(w) PROVE TypeOK'
  BY <1>4 DEF TypeOK, Done, file
<1>5. ASSUME NEW w \in Worker, Stop(w) \/ Break(w) PROVE TypeOK'
  BY <1>5 DEF TypeOK, Stop, Break, failWith, file, Errors
<1>6. ASSUME NEW w \in Worker, Collect(w) PROVE TypeOK'
  BY <1>6 DEF TypeOK, Collect, file, Errors, preferRootCause
<1>7. CASE Return
  BY <1>7 DEF TypeOK, Return, file, Errors
<1>8. CASE UNCHANGED vars
  BY <1>8 DEF TypeOK, vars, file
<1> QED BY <1>1, <1>2, <1>3, <1>4, <1>5, <1>6, <1>7, <1>8 DEF Next, Work

LEMMA InitInv == Init => IInv
<1> SUFFICES ASSUME Init PROVE IInv
  OBVIOUS
<1>1. TypeOK
  <2>1. start \in Offset
    BY SplitAssumption DEF Init, Offset
  <2>2. pc \in [Worker -> {"align", "read", "sent", "taken"}]
    BY DEF Init
  <2>3. pos \in [Worker -> Offset]
    BY SplitAssumption DEF Init, Offset
  <2>4. routed \in [Byte -> Nat] /\ rows \in [Worker -> Nat] /\ total \in Nat
    BY DEF Init
  <2> QED BY <2>1, <2>2, <2>3, <2>4 DEF Init, TypeOK, Errors
<1>2. Active \in 1 .. Workers
  BY <1>1, ActivePositive
<1>3. Busy /\ OnLine
  BY DEF Init, Busy, OnLine
<1>4. RoutedUpTo /\ NothingElse
  BY <1>2, SplitAssumption DEF Init, RoutedUpTo, NothingElse, Rows, Byte, Worker
<1>5. ReadOut
  BY <1>2, SplitAssumption DEF Init, ReadOut, Worker
<1>6. Failing
  BY DEF Init, Failing, Errorless, ContextHasCause, CauseNotLost, Ended
<1> QED BY <1>1, <1>3, <1>4, <1>5, <1>6 DEF IInv, Routing

(***************************************************************************)
(* Routing: a worker's own steps.                                          *)
(***************************************************************************)

LEMMA Ranges ==
  ASSUME TypeOK
  PROVE  /\ Active \in Nat \ {0}
         /\ 0 .. Active - 1 \subseteq Worker
         /\ start \in Nat
         /\ \A w \in 0 .. Active : Cut(w) \in Nat /\ Cut(w) <= Size
         /\ Cut(Active) = Size
<1>1. Active \in 1 .. Workers
  BY ActivePositive
<1>2. start \in Nat
  BY SplitAssumption DEF TypeOK, Offset
<1>3. ASSUME NEW w \in 0 .. Active
      PROVE  Cut(w) \in Nat /\ Cut(w) <= Size /\ Cut(Active) = Size
  BY <1>1, <1>2, <1>3, CutsInOrder, SplitAssumption
<1>4. 0 \in 0 .. Active
  BY <1>1
<1> QED BY <1>1, <1>2, <1>3, <1>4, SplitAssumption DEF Worker

\* A worker's first line: no row of its range begins before it.
LEMMA AlignRouting ==
  ASSUME TypeOK, Routing, NEW w \in Worker, Align(w)
  PROVE  Routing'
<1>1. PICK p \in Offset :
        /\ Aligns(Cut(w), p)
        /\ pos' = [pos EXCEPT ![w] = p]
        /\ pc' = [pc EXCEPT ![w] = IF p < Cut(w + 1) \/ Last(w) THEN "read" ELSE "sent"]
  BY DEF Align
<1>2. /\ Breaks' = Breaks /\ Rows' = Rows /\ Active' = Active /\ start' = start
      /\ \A v \in Int : Cut(v)' = Cut(v)
      /\ \A q \in Int : AtLine(q)' = AtLine(q)
  BY SameFile DEF Align
<1>3. start < Size /\ w < Active /\ w \in 0 .. Active - 1
  BY Ranges DEF Align, Routing, Busy, Worker
<1>4. /\ Active \in Nat \ {0} /\ start \in Nat /\ Cut(w) \in Nat /\ Cut(w + 1) \in Nat
      /\ Cut(w + 1) <= Size /\ (Last(w) => Cut(w + 1) = Size) /\ p \in Nat
  BY <1>1, <1>3, Ranges, SplitAssumption DEF Last, Offset
<1>5. start <= p /\ Cut(w) <= p /\ AtLine(p)
  BY <1>1, <1>3, <1>4, CutsInOrder DEF Aligns, EndOfLine, AtLine, Breaks
<1>6. ASSUME NEW r \in Rows, Cut(w) <= r
      PROVE  p <= r
  BY <1>1, <1>4, <1>6, SplitAssumption DEF Aligns, EndOfLine, Rows, Byte, Breaks
<1>7. pc \in [Worker -> {"align", "read", "sent", "taken"}] /\ pos \in [Worker -> Offset]
  BY DEF TypeOK
<1>8. Busy'
  BY <1>1, <1>2, <1>3, <1>7 DEF Align, Routing, Busy
<1>9. OnLine'
  BY <1>1, <1>2, <1>5, <1>7 DEF Routing, OnLine, Worker, Offset
<1>10. RoutedUpTo'
  <2> SUFFICES ASSUME NEW v \in 0 .. Active - 1, NEW r \in Rows, Cut(v) <= r, r < Cut(v + 1)
               PROVE  routed[r] = IF r < pos'[v] THEN 1 ELSE 0
    BY <1>2, <1>4 DEF RoutedUpTo, Align
  <2>1. routed[r] = IF r < pos[v] THEN 1 ELSE 0
    BY DEF Routing, RoutedUpTo
  <2>2. CASE v # w
    BY <2>1, <2>2, <1>1, <1>7 DEF Worker
  <2>3. CASE v = w
    <3>1. pos[w] = 0 /\ pos'[w] = p
      BY <1>1, <1>7 DEF Align, Routing, OnLine
    <3>2. r \in Nat /\ p <= r
      BY <1>6, <2>3, SplitAssumption DEF Rows, Byte
    <3> QED BY <2>1, <2>3, <3>1, <3>2, <1>4
  <2> QED BY <2>2, <2>3
<1>11. NothingElse'
  BY <1>2 DEF Align, Routing, NothingElse
<1>12. ReadOut'
  <2> SUFFICES ASSUME NEW v \in 0 .. Active - 1, pc'[v] \in {"sent", "taken"},
                      outcome[v] = "none", start < Size
               PROVE  Cut(v + 1) <= pos'[v]
    BY <1>2, <1>4 DEF ReadOut, Align
  <2>1. CASE v # w
    BY <2>1, <1>1, <1>3, <1>7, Ranges DEF Routing, ReadOut
  <2>2. CASE v = w
    BY <2>2, <1>1, <1>4, <1>7
  <2> QED BY <2>1, <2>2
<1> QED BY <1>8, <1>9, <1>10, <1>11, <1>12 DEF Routing

\* The line w reads: it is a row of w's range or blank, and no other row begins
\* before the next line.
LEMMA NextLine ==
  ASSUME TypeOK, NEW p \in Byte, AtLine(p), NEW q \in Offset, EndOfLine(p, q)
  PROVE  /\ p < q
         /\ AtLine(q)
         /\ Blank(p, q) => p \notin Rows
         /\ ~Blank(p, q) => p \in Rows
         /\ \A r \in Rows : p < r => q <= r
<1>1. p \in Nat /\ q \in Nat /\ start \in Nat /\ p < Size
  BY SplitAssumption DEF Byte, Offset, TypeOK
<1>2. p < q
  BY DEF EndOfLine
<1>3. AtLine(q)
  BY <1>1 DEF EndOfLine, AtLine
<1>4. ASSUME NEW s \in Offset, EndOfLine(p, s)
      PROVE  s = q
  <2>1. s \in Nat /\ s <= Size /\ q <= Size
    BY SplitAssumption DEF Offset
  <2> QED BY <1>1, <1>4, <2>1 DEF EndOfLine
<1>5. Blank(p, q) => p \notin Rows
  BY DEF Rows
<1>6. ~Blank(p, q) => p \in Rows
  BY <1>1, <1>4 DEF Rows, AtLine
<1>7. ASSUME NEW r \in Rows, p < r
      PROVE  q <= r
  <2>1. r \in Byte /\ (r = start \/ r \in Breaks)
    BY DEF Rows
  <2> QED BY <1>1, <1>7, <2>1 DEF EndOfLine, AtLine
<1> QED BY <1>2, <1>3, <1>5, <1>6, <1>7

LEMMA ReadLineRouting ==
  ASSUME TypeOK, Routing, NEW w \in Worker, ReadLine(w)
  PROVE  Routing'
<1> DEFINE here == pos[w]
<1>1. PICK q \in Offset :
        /\ EndOfLine(here, q)
        /\ pos' = [pos EXCEPT ![w] = q]
        /\ Blank(here, q) => routed' = routed
        /\ ~Blank(here, q) => routed' = [routed EXCEPT ![here] = @ + 1]
  BY DEF ReadLine
<1>2. /\ Breaks' = Breaks /\ Rows' = Rows /\ Active' = Active /\ start' = start
      /\ \A v \in Int : Cut(v)' = Cut(v)
      /\ \A s \in Int : AtLine(s)' = AtLine(s)
  BY SameFile DEF ReadLine
<1>3. start < Size /\ w \in 0 .. Active - 1 /\ pc[w] = "read" /\ pc' = pc /\ outcome' = outcome
  BY Ranges DEF ReadLine, Routing, Busy, Worker
<1>4. /\ Active \in Nat \ {0} /\ start \in Nat /\ Cut(w) \in Nat /\ Cut(w + 1) \in Nat
      /\ (Last(w) => Cut(w + 1) = Size) /\ q \in Nat /\ here \in Byte /\ here \in Nat
  <2>1. here \in Byte /\ here \in Nat
    BY SplitAssumption DEF ReadLine, TypeOK, Offset, Byte
  <2>2. q \in Nat
    BY SplitAssumption DEF Offset
  <2> HIDE DEF here
  <2> QED BY <2>1, <2>2, <1>3, Ranges DEF Last
<1>5. Cut(w) <= here /\ AtLine(here) /\ here < Cut(w + 1)
  BY <1>3, <1>4, SplitAssumption DEF ReadLine, KeepReading, Routing, OnLine, Byte
<1>6. /\ here < q
      /\ AtLine(q)
      /\ Blank(here, q) => here \notin Rows
      /\ ~Blank(here, q) => here \in Rows
      /\ \A r \in Rows : here < r => q <= r
  <2> HIDE DEF here
  <2> QED BY <1>1, <1>4, <1>5, NextLine
<1>7. /\ pos \in [Worker -> Offset] /\ routed \in [Byte -> Nat]
      /\ pos'[w] = q /\ \A v \in Worker \ {w} : pos'[v] = pos[v]
  BY <1>1 DEF TypeOK
<1>8. \A r \in Byte : r # here => routed'[r] = routed[r]
  BY <1>1, <1>7
<1>9. here \in Rows => routed'[here] = routed[here] + 1
  BY <1>1, <1>4, <1>6, <1>7
<1> HIDE DEF here
<1>10. Busy'
  BY <1>2, <1>3 DEF Routing, Busy
<1>11. OnLine'
  <2> SUFFICES ASSUME NEW v \in Worker
               PROVE  /\ pc[v] = "align" => pos'[v] = 0
                      /\ pc[v] = "read" => Cut(v) <= pos'[v] /\ AtLine(pos'[v])
    BY <1>2, <1>3, <1>7 DEF OnLine, Worker, Offset
  <2>1. CASE v # w
    BY <2>1, <1>7 DEF Routing, OnLine
  <2>2. CASE v = w
    BY <2>2, <1>3, <1>4, <1>5, <1>6, <1>7
  <2> QED BY <2>1, <2>2
<1>12. RoutedUpTo'
  <2> SUFFICES ASSUME NEW v \in 0 .. Active - 1, NEW r \in Rows, Cut(v) <= r, r < Cut(v + 1)
               PROVE  routed'[r] = IF r < pos'[v] THEN 1 ELSE 0
    BY <1>2, <1>4 DEF RoutedUpTo
  <2>1. routed[r] = (IF r < pos[v] THEN 1 ELSE 0) /\ r \in Byte /\ r \in Nat
    BY SplitAssumption DEF Routing, RoutedUpTo, Rows, Byte
  <2>2. CASE v # w
    <3>1. r # here
      BY <2>1, <2>2, <1>3, <1>5, Disjoint
    <3>2. pos'[v] = pos[v]
      BY <2>2, <1>7, Ranges
    <3> QED BY <2>1, <3>1, <3>2, <1>8
  <2>3. CASE v = w
    <3>1. routed[r] = (IF r < here THEN 1 ELSE 0)
      BY <2>1, <2>3 DEF here
    <3>2. CASE r = here
      BY <2>1, <2>3, <3>1, <3>2, <1>4, <1>6, <1>7, <1>9
    <3>3. CASE r < here
      BY <2>1, <2>3, <3>1, <3>3, <1>4, <1>6, <1>7, <1>8
    <3>4. CASE here < r
      BY <2>1, <2>3, <3>1, <3>4, <1>4, <1>6, <1>7, <1>8
    <3> QED BY <2>1, <1>4, <3>2, <3>3, <3>4
  <2> QED BY <2>2, <2>3
<1>13. NothingElse'
  <2> SUFFICES ASSUME NEW r \in Byte \ Rows PROVE routed'[r] = 0
    BY <1>2 DEF NothingElse
  <2>1. routed[r] = 0
    BY DEF Routing, NothingElse
  <2>2. CASE r # here
    BY <2>1, <2>2, <1>8
  <2>3. CASE r = here
    BY <2>1, <2>3, <1>1, <1>6
  <2> QED BY <2>2, <2>3
<1>14. ReadOut'
  <2> SUFFICES ASSUME NEW v \in 0 .. Active - 1, pc[v] \in {"sent", "taken"},
                      outcome[v] = "none", start < Size
               PROVE  Cut(v + 1) <= pos'[v]
    BY <1>2, <1>3, <1>4 DEF ReadOut
  <2>1. v # w /\ v \in Worker
    BY <1>3, Ranges
  <2> QED BY <2>1, <1>7 DEF Routing, ReadOut
<1> QED BY <1>10, <1>11, <1>12, <1>13, <1>14 DEF Routing

\* What ends a worker, or takes its result, leaves rows and positions alone.
LEMMA EndRouting ==
  ASSUME TypeOK, Routing,
         NEW w \in Worker, Done(w) \/ Stop(w) \/ Break(w) \/ Collect(w)
  PROVE  Routing'
<1>1. /\ Breaks' = Breaks /\ Rows' = Rows /\ Active' = Active /\ start' = start
      /\ \A v \in Int : Cut(v)' = Cut(v)
      /\ \A q \in Int : AtLine(q)' = AtLine(q)
  BY SameFile DEF Done, Stop, Break, failWith, Collect
<1>2. /\ pos' = pos /\ routed' = routed
      /\ pos \in [Worker -> Offset]
      /\ pc' \in [Worker -> {"sent", "taken"} \cup {"align", "read"}]
      /\ pc'[w] \in {"sent", "taken"}
      /\ \A v \in Worker \ {w} : pc'[v] = pc[v] /\ outcome'[v] = outcome[v]
  BY DEF TypeOK, Done, Stop, Break, failWith, Collect
<1>3. Active \in Nat \ {0} /\ 0 .. Active - 1 \subseteq Worker
  BY Ranges
<1>4. Busy'
  BY <1>1, <1>2 DEF Routing, Busy
<1>5. OnLine'
  BY <1>1, <1>2 DEF Routing, OnLine, Worker, Offset
<1>6. RoutedUpTo' /\ NothingElse'
  BY <1>1, <1>2, <1>3 DEF Routing, RoutedUpTo, NothingElse
<1>7. ReadOut'
  <2> SUFFICES ASSUME NEW v \in 0 .. Active - 1, pc'[v] \in {"sent", "taken"},
                      outcome'[v] = "none", start < Size
               PROVE  Cut(v + 1) <= pos[v]
    BY <1>1, <1>2, <1>3 DEF ReadOut
  <2>1. CASE v # w
    BY <2>1, <1>2, <1>3 DEF Routing, ReadOut
  <2>2. CASE v = w /\ Done(w)
    <3>1. ~KeepReading(w) \/ pos[w] = Size
      BY <2>2 DEF Done
    <3>2. Cut(w + 1) \in Nat /\ Cut(w + 1) <= Size /\ pos[w] \in Nat
      BY <2>2, Ranges, <1>2, SplitAssumption DEF Offset
    <3> QED BY <2>2, <3>1, <3>2, SplitAssumption DEF KeepReading
  <2>3. CASE v = w /\ (Stop(w) \/ Break(w))
    BY <2>3 DEF TypeOK, Stop, Break, failWith
  <2>4. CASE v = w /\ Collect(w)
    BY <2>4 DEF TypeOK, Collect, Routing, ReadOut
  <2> QED BY <2>1, <2>2, <2>3, <2>4
<1> QED BY <1>4, <1>5, <1>6, <1>7 DEF Routing

(***************************************************************************)
(* Failing: the errors on their way to the collector.                      *)
(***************************************************************************)

\* Steps of the workers that do not end them.
LEMMA WorkFailing ==
  ASSUME TypeOK, Routing, Failing,
         NEW w \in Worker, Align(w) \/ ReadLine(w) \/ Done(w)
  PROVE  Failing'
<1>1. /\ pc[w] \in {"align", "read"} /\ outcome[w] = "none"
      /\ pc'[w] # "taken"
      /\ \A v \in Worker \ {w} : pc'[v] = pc[v]
      /\ UNCHANGED <<parent, cancelled, outcome, first, returned>>
  BY DEF Align, ReadLine, Done, TypeOK, Routing, Busy
<1>2. returned = "running"
  BY <1>1 DEF Failing, Ended
<1> QED
  <2>1. Errorless' /\ ContextHasCause'
    BY <1>1 DEF Failing, Errorless, ContextHasCause, CtxDone
  <2>2. CauseNotLost'
    BY <1>1 DEF Failing, CauseNotLost
  <2>3. Ended'
    BY <1>1, <1>2 DEF Ended
  <2> QED BY <2>1, <2>2, <2>3 DEF Failing

LEMMA FailFailing ==
  ASSUME TypeOK, Routing, Failing, NEW w \in Worker, Stop(w) \/ Break(w)
  PROVE  Failing'
<1>1. /\ pc[w] \in {"align", "read"} /\ outcome[w] = "none"
      /\ pc'[w] = "sent"
      /\ \A v \in Worker \ {w} : pc'[v] = pc[v] /\ outcome'[v] = outcome[v]
      /\ UNCHANGED <<parent, first, returned>>
      /\ cancelled'
      /\ outcome'[w] = "concrete" \/ (outcome'[w] = "context" /\ CtxDone)
  BY DEF Stop, Break, failWith, TypeOK, Routing, Busy
<1>2. returned = "running"
  BY <1>1 DEF Failing, Ended
<1> QED
  <2>1. Errorless'
    BY <1>1 DEF Failing, Errorless
  <2>2. ContextHasCause'
    BY <1>1 DEF ContextHasCause, CtxDone
  <2>3. CauseNotLost'
    BY <1>1 DEF Failing, CauseNotLost, CtxDone
  <2>4. Ended'
    BY <1>1, <1>2 DEF Ended
  <2> QED BY <2>1, <2>2, <2>3, <2>4 DEF Failing

LEMMA CollectFailing ==
  ASSUME TypeOK, Routing, Failing, NEW w \in Worker, Collect(w)
  PROVE  Failing'
<1>1. /\ pc[w] = "sent"
      /\ pc'[w] = "taken"
      /\ \A v \in Worker \ {w} : pc'[v] = pc[v]
      /\ UNCHANGED <<parent, cancelled, outcome, returned>>
      /\ first' = preferRootCause(first, outcome[w])
      /\ first \in Errors /\ outcome[w] \in Errors
  BY DEF Collect, TypeOK
<1>2. returned = "running"
  BY <1>1 DEF Failing, Ended
<1> QED
  <2>1. Errorless'
    BY <1>1 DEF Failing, Errorless, preferRootCause
  <2>2. ContextHasCause'
    BY <1>1 DEF Failing, ContextHasCause, CtxDone, preferRootCause
  <2>3. CauseNotLost'
    BY <1>1 DEF Failing, CauseNotLost, preferRootCause, Errors
  <2>4. Ended'
    BY <1>1, <1>2 DEF Ended
  <2> QED BY <2>1, <2>2, <2>3, <2>4 DEF Failing

LEMMA CallerFailing ==
  ASSUME TypeOK, Failing, CancelParent \/ Return
  PROVE  Failing'
<1>1. CASE CancelParent
  BY <1>1 DEF CancelParent, Failing, Errorless, ContextHasCause, CauseNotLost, Ended, CtxDone
<1>2. CASE Return
  <2>1. /\ \A w \in Worker : pc[w] = "taken"
        /\ UNCHANGED <<parent, cancelled, pc, outcome, first>>
        /\ first # "none" => returned' = first
        /\ returned' = "context" => first = "context" \/ parent
    BY <1>2 DEF Return
  <2>2. first = "context" => parent
    BY <2>1 DEF Failing, ContextHasCause, CauseNotLost, CtxDone
  <2>3. Ended'
    BY <2>1, <2>2 DEF Ended, TypeOK, Errors
  <2> QED BY <2>1, <2>3 DEF Failing, Errorless, ContextHasCause, CauseNotLost, CtxDone
<1> QED BY <1>1, <1>2

(***************************************************************************)
(* The theorems.                                                           *)
(***************************************************************************)

\* What leaves the file and the routing alone keeps Routing.
LEMMA IdleRouting ==
  ASSUME TypeOK, Routing, UNCHANGED <<file, pc, pos, routed, outcome>>
  PROVE  Routing'
<1>1. /\ Breaks' = Breaks /\ Rows' = Rows /\ Active' = Active /\ start' = start
      /\ \A v \in Int : Cut(v)' = Cut(v)
      /\ \A q \in Int : AtLine(q)' = AtLine(q)
  BY SameFile
<1>2. /\ Active \in Nat \ {0} /\ 0 .. Active - 1 \subseteq Worker
      /\ pos \in [Worker -> Offset]
  BY Ranges DEF TypeOK
<1>3. Busy' /\ NothingElse'
  BY <1>1 DEF Routing, Busy, NothingElse
<1>4. OnLine'
  BY <1>1, <1>2 DEF Routing, OnLine, Worker, Offset
<1>5. RoutedUpTo'
  BY <1>1, <1>2 DEF Routing, RoutedUpTo
<1>6. ReadOut'
  BY <1>1, <1>2 DEF Routing, ReadOut
<1> QED BY <1>3, <1>4, <1>5, <1>6 DEF Routing

LEMMA NextInv == IInv /\ [Next]_vars => IInv'
<1> SUFFICES ASSUME TypeOK, Routing, Failing, [Next]_vars PROVE IInv'
  BY DEF IInv
<1>1. TypeOK'
  BY TypeInv
<1>2. ASSUME NEW w \in Worker, Work(w) \/ Collect(w)
      PROVE  Routing' /\ Failing'
  <2>1. CASE Align(w)
    BY <2>1, AlignRouting, WorkFailing
  <2>2. CASE ReadLine(w)
    BY <2>2, ReadLineRouting, WorkFailing
  <2>3. CASE Done(w)
    BY <2>3, EndRouting, WorkFailing
  <2>4. CASE Stop(w) \/ Break(w)
    BY <2>4, EndRouting, FailFailing
  <2>5. CASE Collect(w)
    BY <2>5, EndRouting, CollectFailing
  <2> QED BY <1>2, <2>1, <2>2, <2>3, <2>4, <2>5 DEF Work
<1>3. CASE CancelParent \/ Return
  <2>1. UNCHANGED <<file, pc, pos, routed, outcome>>
    BY <1>3 DEF CancelParent, Return
  <2> QED BY <1>1, <1>3, <2>1, IdleRouting, CallerFailing DEF IInv
<1>4. CASE UNCHANGED vars
  <2>1. UNCHANGED <<file, pc, pos, routed, outcome>>
    BY <1>4 DEF vars
  <2>2. Failing'
    BY <1>4 DEF vars, Failing, Errorless, ContextHasCause, CauseNotLost, Ended, CtxDone
  <2> QED BY <1>1, <2>1, <2>2, IdleRouting DEF IInv
<1> QED BY <1>1, <1>2, <1>3, <1>4 DEF Next, IInv

\* Everything below follows from this invariant.
THEOREM Invariant == Spec => []IInv
BY InitInv, NextInv, PTL DEF Spec

\* A row has one owner, who has routed it or has not.
LEMMA Owner ==
  ASSUME IInv, NEW p \in Rows
  PROVE  \E w \in 0 .. Active - 1 :
           /\ Cut(w) <= p /\ p < Cut(w + 1)
           /\ routed[p] = IF p < pos[w] THEN 1 ELSE 0
<1>1. PICK w \in 0 .. Active - 1 : Cut(w) <= p /\ p < Cut(w + 1)
  BY Tiling DEF IInv, Rows
<1> QED BY <1>1 DEF IInv, Routing, RoutedUpTo

LEMMA Once == IInv => RoutedOnce
<1> SUFFICES ASSUME IInv, NEW p \in Byte
             PROVE  routed[p] <= IF p \in Rows THEN 1 ELSE 0
  BY DEF RoutedOnce
<1>1. CASE p \in Rows
  BY <1>1, Owner
<1>2. CASE p \notin Rows
  BY <1>2 DEF IInv, Routing, NothingElse
<1> QED BY <1>1, <1>2

LEMMA Complete == IInv => EveryRowRouted
<1> SUFFICES ASSUME IInv, returned = "ok", NEW p \in Rows
             PROVE  routed[p] = 1
  BY DEF EveryRowRouted
<1>1. PICK w \in 0 .. Active - 1 :
        /\ Cut(w) <= p /\ p < Cut(w + 1)
        /\ routed[p] = IF p < pos[w] THEN 1 ELSE 0
  BY Owner
<1>2. /\ w \in Worker /\ w \in 0 .. Active /\ w + 1 \in 0 .. Active
      /\ Cut(w + 1) \in Nat /\ start \in Nat
  BY Ranges DEF IInv
<1>3. p \in Nat /\ start <= p /\ p < Size /\ pos[w] \in Nat
  BY <1>2, SplitAssumption DEF Rows, Byte, IInv, TypeOK, Offset
<1>4. pc[w] = "taken" /\ outcome[w] = "none"
  BY <1>2 DEF IInv, Failing, Ended, Errorless
<1>5. Cut(w + 1) <= pos[w]
  BY <1>2, <1>3, <1>4, SplitAssumption DEF IInv, Routing, ReadOut
<1> QED BY <1>1, <1>2, <1>3, <1>5

\* No row is routed twice and no part of a line is routed as a row, for every
\* file, cut and order of the workers' steps.
THEOREM NoRowTwice == Spec => []RoutedOnce
<1>1. IInv => RoutedOnce
  BY Once
<1> QED BY <1>1, Invariant, PTL

\* Success means that every row was routed.
THEOREM NoRowLost == Spec => []EveryRowRouted
<1>1. IInv => EveryRowRouted
  BY Complete
<1> QED BY <1>1, Invariant, PTL

\* The workers, whatever the cuts and however many, implement the contract the
\* engine's parallel stages have with their callers.
THEOREM Refinement == Spec => ImplementsContract
<1> DEFINE left == {p \in Rows : routed[p] = 0}
<1>1. Init => Contract!Init
  BY DEF Init, Contract!Init, Rows
<1>2. IInv /\ IInv' /\ EveryRowRouted' /\ [Next]_vars => [Contract!Next]_Contract!vars
  <2> SUFFICES ASSUME IInv, IInv', EveryRowRouted', [Next]_vars
               PROVE  [Contract!Next]_Contract!vars
    OBVIOUS
  <2>1. Rows' = Rows
    <3>1. UNCHANGED file
      BY DEF Next, Work, CancelParent, Align, ReadLine, Done, Stop, Break, failWith,
             Collect, Return, vars
    <3> QED BY <3>1, SameFile
  <2>2. CASE CancelParent
    BY <2>1, <2>2 DEF CancelParent, Contract!Next, Contract!Cancel
  <2>3. ASSUME NEW w \in Worker,
               Align(w) \/ Done(w) \/ Stop(w) \/ Break(w) \/ Collect(w)
        PROVE  UNCHANGED Contract!vars
    BY <2>1, <2>3 DEF Align, Done, Stop, Break, failWith, Collect, Contract!vars
  <2>4. ASSUME NEW w \in Worker, ReadLine(w)
        PROVE  [Contract!Next]_Contract!vars
    <3>1. pos[w] \in Byte /\ routed \in [Byte -> Nat]
      BY <2>4, SplitAssumption DEF IInv, TypeOK, ReadLine, Offset, Byte
    <3>2. UNCHANGED <<parent, returned>> /\ returned = "running"
      BY <2>4 DEF ReadLine, IInv, Failing, Ended
    <3>3. CASE routed' = routed
      BY <2>1, <3>2, <3>3 DEF Contract!vars
    <3>4. CASE routed' = [routed EXCEPT ![pos[w]] = @ + 1]
      <4>1. left' = left \ {pos[w]}
        BY <2>1, <3>1, <3>4 DEF Rows
      <4>2. Contract!Finish(pos[w])
        BY <3>2, <4>1 DEF Contract!Finish
      <4>3. \E u \in Byte : Contract!Finish(u)
        BY <3>1, <4>2 DEF Contract!Finish
      <4> QED BY <4>3, Zenon DEF Contract!Next
    <3> QED BY <2>4, <3>3, <3>4 DEF ReadLine
  <2>5. CASE Return
    <3>1. returned = "running" /\ UNCHANGED <<parent, routed>>
      BY <2>5 DEF Return
    <3>2. left' = left
      BY <2>1, <3>1
    <3>3. returned' = "ok" => left = {}
      BY <2>1, <3>1 DEF EveryRowRouted
    <3>4. returned' = "context" => parent
      BY <3>1 DEF IInv, Failing, Ended
    <3>5. returned' \in {"ok", "context", "concrete"}
      BY <2>5 DEF Return, IInv, TypeOK, Errors
    <3>6. CASE returned' = "ok"
      BY <3>1, <3>2, <3>3, <3>6 DEF Contract!Next, Contract!Succeed
    <3>7. CASE returned' \in {"context", "concrete"}
      BY <3>1, <3>2, <3>4, <3>7 DEF Contract!Next, Contract!Fail
    <3> QED BY <3>5, <3>6, <3>7
  <2>6. CASE UNCHANGED vars
    BY <2>1, <2>6 DEF vars, Contract!vars
  <2> QED BY <2>2, <2>3, <2>4, <2>5, <2>6 DEF Next, Work
<1> QED BY <1>1, <1>2, Invariant, NoRowLost, PTL DEF ImplementsContract, Spec, Contract!Spec

(***************************************************************************)
(* The count.                                                              *)
(***************************************************************************)

\* The rows that w has routed, and those of the workers whose result was taken.
RoutedBy(w) ==
  {p \in Rows : w < Active /\ Cut(w) <= p /\ p < Cut(w + 1) /\ routed[p] = 1}
Collected == {p \in Rows : \E w \in Worker : pc[w] = "taken" /\ p \in RoutedBy(w)}

\* A worker counts what it routes, and the collector adds what a worker counted.
CountsRight ==
  /\ \A w \in Worker : rows[w] = Cardinality(RoutedBy(w))
  /\ total = Cardinality(Collected)

\* Sets of rows are finite.
LEMMA RowSets ==
  ASSUME NEW S \in SUBSET Byte
  PROVE  IsFiniteSet(S) /\ Cardinality(S) \in Nat
<1>1. 0 \in Int /\ Size - 1 \in Int
  BY SplitAssumption
<1>2. IsFiniteSet(Byte)
  BY <1>1, FS_Interval DEF Byte
<1> QED BY <1>2, FS_Subset, FS_CardinalityType

LEMMA CountInit == Init => CountsRight
<1> SUFFICES ASSUME Init PROVE CountsRight
  OBVIOUS
<1>1. ASSUME NEW w \in Worker PROVE RoutedBy(w) = {}
  BY DEF RoutedBy, Rows, Init
<1>2. Collected = {}
  BY <1>1 DEF Collected
<1> QED BY <1>1, <1>2, FS_EmptySet DEF CountsRight, Init

\* The reader's count grows with the rows of its range.
LEMMA ReadLineCount ==
  ASSUME IInv, RoutedOnce', CountsRight, NEW w \in Worker, ReadLine(w)
  PROVE  CountsRight'
<1> DEFINE here == pos[w]
<1>1. PICK q \in Offset :
        /\ EndOfLine(here, q)
        /\ pos' = [pos EXCEPT ![w] = q]
        /\ Blank(here, q) => routed' = routed /\ rows' = rows
        /\ ~Blank(here, q) => /\ routed' = [routed EXCEPT ![here] = @ + 1]
                              /\ rows' = [rows EXCEPT ![w] = @ + 1]
  BY DEF ReadLine
<1>2. /\ Rows' = Rows /\ Active' = Active /\ pc' = pc /\ total' = total
      /\ \A v \in Int : Cut(v)' = Cut(v)
  BY SameFile DEF ReadLine
<1>3. /\ TypeOK /\ Routing /\ RoutedOnce'
      /\ routed \in [Byte -> Nat] /\ rows \in [Worker -> Nat]
      /\ Worker \subseteq Int /\ \A v \in Worker : v + 1 \in Int
  BY DEF IInv, TypeOK, Worker
<1>4. /\ w \in 0 .. Active - 1 /\ pc[w] = "read" /\ here \in Byte
      /\ AtLine(here) /\ Cut(w) <= here /\ here < Cut(w + 1)
  <2>1. w < Active /\ pc[w] = "read" /\ Cut(w) <= here /\ AtLine(here)
    BY <1>3 DEF Routing, Busy, OnLine, ReadLine
  <2>2. here \in Byte
    BY <1>3, SplitAssumption DEF TypeOK, ReadLine, Offset, Byte
  <2>3. Active \in Nat
    BY <1>3, Ranges
  <2>4. w \in 0 .. Active - 1
    BY <2>1, <2>3 DEF Worker
  <2>5. here < Cut(w + 1)
    <3>1. Last(w) => Cut(w + 1) = Size
      BY <1>3, <2>3, Ranges DEF Last, Worker
    <3> QED BY <3>1, SplitAssumption DEF ReadLine, KeepReading
  <2> QED BY <2>1, <2>2, <2>4, <2>5
<1>5. \A v \in Worker : RoutedBy(v) \in SUBSET Byte
  BY DEF RoutedBy, Rows
<1>6. CASE Blank(here, q)
  <2>1. \A v \in Worker : RoutedBy(v)' = RoutedBy(v)
    BY <1>1, <1>2, <1>3, <1>6 DEF RoutedBy
  <2>2. Collected' = Collected
    BY <1>2, <2>1 DEF Collected
  <2> QED BY <1>1, <1>2, <1>6, <2>1, <2>2 DEF CountsRight
<1>7. CASE ~Blank(here, q)
  <2>1. here \in Rows
    BY <1>1, <1>3, <1>4, <1>7, NextLine
  <2>2. routed[here] = 0 /\ routed'[here] = 1 /\ \A p \in Byte \ {here} : routed'[p] = routed[p]
    <3>1. routed'[here] = routed[here] + 1 /\ routed'[here] <= 1 /\ routed[here] \in Nat
      BY <1>1, <1>2, <1>3, <1>4, <1>7, <2>1 DEF RoutedOnce
    <3> QED BY <1>1, <1>3, <1>4, <1>7, <3>1
  <2>3. RoutedBy(w)' = RoutedBy(w) \cup {here} /\ here \notin RoutedBy(w)
    <3>1. w < Active /\ w \in Int /\ w + 1 \in Int
      <4>1. Active \in Nat
        BY <1>3, Ranges
      <4> QED BY <1>3, <1>4, <4>1
    <3>2. RoutedBy(w)' = {p \in Rows : w < Active /\ Cut(w) <= p /\ p < Cut(w + 1) /\ routed'[p] = 1}
      BY <1>2, <3>1 DEF RoutedBy
    <3>3. Rows \subseteq Byte
      BY DEF Rows
    <3> HIDE DEF here
    <3> QED BY <1>4, <2>1, <2>2, <3>1, <3>2, <3>3 DEF RoutedBy
  <2>4. ASSUME NEW v \in Worker, v # w PROVE RoutedBy(v)' = RoutedBy(v)
    <3>1. v < Active /\ Cut(v) <= here /\ here < Cut(v + 1) => v = w
      <4>1. Active \in Nat
        BY <1>3, Ranges
      <4> QED BY <1>3, <1>4, <4>1, Disjoint DEF Worker
    <3> QED BY <1>2, <1>3, <2>2, <2>4, <3>1 DEF RoutedBy, Rows
  <2>5. Collected' = Collected
    BY <1>2, <1>4, <2>4 DEF Collected
  <2>6. Cardinality(RoutedBy(w)') = Cardinality(RoutedBy(w)) + 1
    BY <1>5, <2>3, RowSets, FS_AddElement
  <2>7. rows'[w] = rows[w] + 1 /\ \A v \in Worker \ {w} : rows'[v] = rows[v]
    BY <1>1, <1>3, <1>7
  <2> QED BY <1>2, <2>4, <2>5, <2>6, <2>7 DEF CountsRight
<1> QED BY <1>6, <1>7

\* The collector's total grows with what the worker routed, and no row is of two
\* workers.
LEMMA CollectCount ==
  ASSUME IInv, CountsRight, NEW w \in Worker, Collect(w)
  PROVE  CountsRight'
<1>1. /\ pc[w] = "sent" /\ pc'[w] = "taken" /\ \A v \in Worker \ {w} : pc'[v] = pc[v]
      /\ total' = total + rows[w] /\ rows' = rows /\ routed' = routed
      /\ Rows' = Rows /\ Active' = Active /\ \A v \in Int : Cut(v)' = Cut(v)
  BY SameFile DEF Collect, IInv, TypeOK
<1>2. TypeOK /\ Active \in Nat /\ Worker \subseteq Int /\ \A v \in Worker : v + 1 \in Int
  BY Ranges DEF IInv, Worker
<1>3. \A v \in Worker : RoutedBy(v)' = RoutedBy(v)
  BY <1>1, <1>2 DEF RoutedBy
<1>4. Collected' = Collected \cup RoutedBy(w)
  <2>1. \A v \in Worker : RoutedBy(v) \subseteq Rows
    BY DEF RoutedBy
  <2> QED BY <1>1, <1>3, <2>1 DEF Collected
<1>5. Collected \cap RoutedBy(w) = {}
  <2> SUFFICES ASSUME NEW p \in Rows, NEW v \in Worker, pc[v] = "taken", p \in RoutedBy(v),
                      p \in RoutedBy(w)
               PROVE  FALSE
    BY DEF Collected
  <2>1. v = w
    BY <1>2, Disjoint DEF RoutedBy, Rows, Worker
  <2> QED BY <1>1, <2>1
<1>6. Collected \in SUBSET Byte /\ RoutedBy(w) \in SUBSET Byte
  BY DEF Collected, RoutedBy, Rows
<1>7. Cardinality(Collected') = Cardinality(Collected) + Cardinality(RoutedBy(w))
  <2>1. Cardinality(Collected \cup RoutedBy(w))
          = Cardinality(Collected) + Cardinality(RoutedBy(w)) - Cardinality({})
    BY <1>5, <1>6, RowSets, FS_Union
  <2> QED BY <1>4, <1>6, <2>1, RowSets, FS_EmptySet
<1> QED BY <1>1, <1>3, <1>7 DEF CountsRight

LEMMA CountNext == IInv /\ RoutedOnce' /\ CountsRight /\ [Next]_vars => CountsRight'
<1> SUFFICES ASSUME IInv, RoutedOnce', CountsRight, [Next]_vars PROVE CountsRight'
  OBVIOUS
<1>1. ASSUME NEW w \in Worker, ReadLine(w) PROVE CountsRight'
  BY <1>1, ReadLineCount
<1>2. ASSUME NEW w \in Worker, Collect(w) PROVE CountsRight'
  BY <1>2, CollectCount
<1>3. ASSUME UNCHANGED <<file, routed, rows, total>>,
             \A v \in Worker : pc'[v] = "taken" <=> pc[v] = "taken"
      PROVE  CountsRight'
  <2>1. Rows' = Rows /\ Active' = Active /\ \A v \in Int : Cut(v)' = Cut(v)
    BY <1>3, SameFile
  <2>2. \A v \in Worker : RoutedBy(v)' = RoutedBy(v)
    BY <1>3, <2>1 DEF RoutedBy, Worker
  <2>3. Collected' = Collected
    BY <1>3, <2>1, <2>2 DEF Collected
  <2> QED BY <1>3, <2>2, <2>3 DEF CountsRight
<1>4. ASSUME NEW w \in Worker, Align(w) \/ Done(w) \/ Stop(w) \/ Break(w)
      PROVE  CountsRight'
  <2>1. /\ UNCHANGED <<file, routed, rows, total>>
        /\ \A v \in Worker : pc'[v] = "taken" <=> pc[v] = "taken"
    BY <1>4 DEF Align, Done, Stop, Break, failWith, IInv, TypeOK
  <2> QED BY <1>3, <2>1
<1>5. CASE CancelParent \/ Return \/ UNCHANGED vars
  BY <1>3, <1>5 DEF CancelParent, Return, vars
<1> QED BY <1>1, <1>2, <1>4, <1>5 DEF Next, Work

LEMMA Counted == IInv /\ CountsRight => RowsCounted
<1> SUFFICES ASSUME IInv, CountsRight, returned = "ok" PROVE total = Cardinality(Rows)
  BY DEF RowsCounted
<1>1. ASSUME NEW p \in Rows PROVE p \in Collected
  <2>1. PICK w \in 0 .. Active - 1 : Cut(w) <= p /\ p < Cut(w + 1)
    BY Owner
  <2>2. w \in Worker /\ w < Active
    BY <2>1, Ranges DEF IInv
  <2>3. pc[w] = "taken" /\ routed[p] = 1
    BY <2>2, Complete DEF IInv, Failing, Ended, EveryRowRouted
  <2> QED BY <2>1, <2>2, <2>3 DEF Collected, RoutedBy
<1>2. Collected = Rows
  BY <1>1 DEF Collected
<1> QED BY <1>2 DEF CountsRight

\* The invariant with the counters.
THEOREM CountInvariant == Spec => [](IInv /\ CountsRight)
<1>1. Init => IInv /\ CountsRight
  BY InitInv, CountInit
<1>2. IInv /\ RoutedOnce' /\ CountsRight /\ [Next]_vars => (IInv /\ CountsRight)'
  BY NextInv, CountNext
<1> QED BY <1>1, <1>2, NoRowTwice, PTL DEF Spec

(***************************************************************************)
(* The sort of a partition.  The complete files have different names       *)
(* (Named), so that what they hold can be counted place by place (Places). *)
(* A merge has written as often what it has taken from its files           *)
(* (Merging), and these are removed when nothing is left in them; until    *)
(* then they are the ones that count.                                      *)
(***************************************************************************)

\* Where the sort is.
Stages ==
  /\ pass > 0
  /\ stage = "spill" /\ taken = 0 => runs = <<>>
  /\ result = "running" <=> stage # "over"
  /\ stage \in {"group", "merge"} => taken = Len(input)
  /\ stage = "merge" => from < Len(runs) /\ Len(Group) > 1
  /\ stage = "spill" \/ (stage = "group" /\ Len(runs) = 1) => from = 0 /\ next = <<>>
  /\ result = "ok" => taken = Len(input) /\ Len(runs) = 1 /\ from = 0 /\ next = <<>>
  /\ result = "context" => cancel

\* No name is given twice: a run's is of its number, a merge's of its pass and number.
Named ==
  /\ \A k \in DOMAIN runs : runs[k][1] < pass
  /\ stage = "spill" => \A k \in DOMAIN runs : runs[k][2] < Len(runs)
  /\ \A k \in DOMAIN next : next[k][1] < pass \/ (next[k][1] = pass /\ next[k][2] < Len(next))
  /\ \A k, m \in DOMAIN runs : runs[k] = runs[m] => k = m
  /\ \A k, m \in DOMAIN next : next[k] = next[m] => k = m
  /\ \A k \in from + 1 .. Len(runs) : \A m \in DOMAIN next : runs[k] # next[m]

\* The work directory holds the complete files, and the one that is being written.
OnlyKept == DOMAIN files = IF stage = "merge" THEN Kept \cup {Merged} ELSE Kept

AllOrdered == \A n \in DOMAIN files : Ordered(files[n])

\* What of the group was written.
Read(r) ==
  UNION {{Group[k]} \X {m \in 1 .. head[k] - 1 : files[Group[k]][m] = r} : k \in DOMAIN Group}

\* The output has what was taken from the group's files, and none of it comes after what
\* is left.
Merging ==
  stage = "merge" =>
    /\ \A k \in DOMAIN Group : head[k] \in 1 .. Len(files[Group[k]]) + 1
    /\ \A m \in DOMAIN files[Merged] : \A k \in InHeap : files[Merged][m] <= First(k)
    /\ \A r \in Records : /\ IsFiniteSet(Places(r, {Merged})) /\ IsFiniteSet(Read(r))
                          /\ Cardinality(Places(r, {Merged})) = Cardinality(Read(r))

Finite == \A r \in Records : IsFiniteSet(Places(r, Kept))

Whole == Named /\ OnlyKept /\ AllOrdered /\ Merging /\ Finite /\ NoneLost

SortInv ==
  /\ SortAssumption
  /\ SortTypeOK
  /\ Stages
  /\ result \in {"running", "ok"} => Whole

(***************************************************************************)
(* Sets that are counted.                                                  *)
(***************************************************************************)

\* Places that are put together or taken away count as much.
LEMMA CardBoth ==
  ASSUME NEW S, NEW T, IsFiniteSet(S), IsFiniteSet(T), S \cap T = {}
  PROVE  IsFiniteSet(S \cup T) /\ Cardinality(S \cup T) = Cardinality(S) + Cardinality(T)
<1>1. Cardinality(S \cup T) = Cardinality(S) + Cardinality(T) - Cardinality(S \cap T)
  BY FS_Union
<1>2. Cardinality(S \cap T) = 0
  BY FS_EmptySet
<1>3. Cardinality(S) \in Nat /\ Cardinality(T) \in Nat /\ IsFiniteSet(S \cup T)
  BY FS_CardinalityType, FS_Union
<1> QED BY <1>1, <1>2, <1>3

\* The places of two lots of files are those of each.
LEMMA PlacesOfBoth ==
  ASSUME NEW r, NEW M, NEW N, M \cap N = {}
  PROVE  /\ Places(r, M \cup N) = Places(r, M) \cup Places(r, N)
         /\ Places(r, M) \cap Places(r, N) = {}
BY DEF Places

(***************************************************************************)
(* The group of a merge.                                                   *)
(***************************************************************************)

\* A group is the next FanIn of the runs, or the rest of them.
LEMMA GroupIs ==
  ASSUME SortTypeOK, SortAssumption, from < Len(runs)
  PROVE  /\ Group = [k \in 1 .. Len(Group) |-> runs[from + k]]
         /\ Len(Group) \in 1 .. FanIn
         /\ from + Len(Group) <= Len(runs)
         /\ from + FanIn < Len(runs) => Len(Group) = FanIn
         /\ from + FanIn >= Len(runs) => from + Len(Group) = Len(runs)
<1>1. runs \in Seq(Names) /\ Len(runs) \in Nat /\ from \in Nat /\ FanIn \in Nat /\ FanIn > 0
  BY DEF SortTypeOK, SortAssumption
<1>2. PICK to : to = IF from + FanIn < Len(runs) THEN from + FanIn ELSE Len(runs)
  OBVIOUS
<1>3. to \in from + 1 .. Len(runs) /\ to <= from + FanIn
  BY <1>1, <1>2
<1>4. Group = SubSeq(runs, from + 1, to)
  BY <1>2 DEF Group
<1>5. Group = [k \in 1 .. Len(Group) |-> runs[from + k]] /\ Len(Group) = to - from
  BY <1>1, <1>3, <1>4
<1> QED BY <1>1, <1>2, <1>3, <1>5

Names0 == {Group[k] : k \in DOMAIN Group}

\* The indices of a group, seen from the runs.
LEMMA Indices ==
  ASSUME NEW s \in Nat, NEW n \in Nat, NEW f \in Nat, NEW g \in 1 .. f, s + g <= n,
         s + f < n => g = f, s + f >= n => s + g = n
  PROVE  /\ \A k \in 1 .. g : s + k \in s + 1 .. n /\ s + k \in 1 .. n
         /\ \A k \in s + 1 .. n : k \in 1 .. n
         /\ \A k \in s + 1 .. n : k <= s + f => k - s \in 1 .. g /\ s + (k - s) = k
         /\ \A k \in s + 1 .. n : k > s + f => \A m \in 1 .. g : s + m # k
         /\ \A k \in s + f + 1 .. n : k \in s + 1 .. n /\ k > s + f
         /\ \A k \in s + 1 .. n : k > s + f => k \in s + f + 1 .. n
         /\ \A k \in s + 1 .. n : k <= s + f \/ k > s + f
         /\ \A k \in 1 .. g, m \in 1 .. g : s + k = s + m => k = m
OBVIOUS

\* The group is the next of the runs, which have different names.
LEMMA GroupFacts ==
  ASSUME SortInv, result = "running", from < Len(runs)
  PROVE  /\ Names0 \subseteq Kept
         /\ DOMAIN Group = 1 .. Len(Group) /\ Len(Group) \in 1 .. FanIn
         /\ \A k, m \in DOMAIN Group : Group[k] = Group[m] => k = m
         /\ Merged \notin Kept
         /\ Kept \ Names0 = {runs[k] : k \in from + FanIn + 1 .. Len(runs)}
                              \cup {next[k] : k \in DOMAIN next}
<1>1. /\ SortTypeOK /\ SortAssumption /\ Named
      /\ from \in Nat /\ Len(runs) \in Nat /\ FanIn \in Nat
      /\ DOMAIN runs = 1 .. Len(runs)
  BY DEF SortInv, Whole, SortTypeOK, SortAssumption
<1> DEFINE g == Len(Group)
           n == Len(runs)
<1>2. /\ g \in 1 .. FanIn
      /\ from + g <= n
      /\ from + FanIn < n => g = FanIn
      /\ from + FanIn >= n => from + g = n
  BY <1>1, GroupIs
<1>3. DOMAIN Group = 1 .. g /\ \A k \in 1 .. g : Group[k] = runs[from + k]
  BY <1>1, GroupIs
<1>4. n \in Nat /\ DOMAIN runs = 1 .. n
  BY <1>1
<1> HIDE DEF g, n
<1>5. /\ \A k \in 1 .. g : from + k \in from + 1 .. n /\ from + k \in 1 .. n
      /\ \A k \in from + 1 .. n : k \in 1 .. n
      /\ \A k \in from + 1 .. n : k <= from + FanIn => k - from \in 1 .. g /\ from + (k - from) = k
      /\ \A k \in from + 1 .. n : k > from + FanIn => \A m \in 1 .. g : from + m # k
      /\ \A k \in from + FanIn + 1 .. n : k \in from + 1 .. n /\ k > from + FanIn
      /\ \A k \in from + 1 .. n : k > from + FanIn => k \in from + FanIn + 1 .. n
      /\ \A k \in from + 1 .. n : k <= from + FanIn \/ k > from + FanIn
      /\ \A k \in 1 .. g, m \in 1 .. g : from + k = from + m => k = m
  BY <1>1, <1>2, <1>4, Indices
<1>6. Kept = {runs[k] : k \in from + 1 .. n} \cup {next[k] : k \in DOMAIN next}
  BY DEF Kept, n
<1>7. Names0 = {runs[from + k] : k \in 1 .. g}
  BY <1>3 DEF Names0
<1>8. Names0 \subseteq Kept
  BY <1>5, <1>6, <1>7
<1>9. \A k, m \in DOMAIN runs : runs[k] = runs[m] => k = m
  BY <1>1 DEF Named
<1>10. \A k, m \in DOMAIN Group : Group[k] = Group[m] => k = m
  BY <1>3, <1>4, <1>5, <1>9
<1>11. Merged \notin Kept
  <2>1. \A k \in DOMAIN runs : runs[k][1] # pass
    <3>1. \A k \in DOMAIN runs : runs[k][1] < pass /\ runs[k] \in Names
      BY <1>1 DEF Named, SortTypeOK
    <3> QED BY <1>1, <3>1 DEF SortTypeOK, Names
  <2>2. \A k \in DOMAIN next : next[k][1] # pass \/ next[k][2] # Len(next)
    <3>1. \A k \in DOMAIN next : /\ next[k] \in Names
                                 /\ next[k][1] < pass \/ next[k][2] < Len(next)
      BY <1>1 DEF Named, SortTypeOK
    <3>2. Len(next) \in Nat /\ pass \in Nat
      BY <1>1 DEF SortTypeOK
    <3> QED BY <3>1, <3>2 DEF Names
  <2>3. Merged[1] = pass /\ Merged[2] = Len(next)
    BY DEF Merged
  <2> QED BY <1>4, <1>5, <1>6, <2>1, <2>2, <2>3
<1>12. Kept \ Names0 = {runs[k] : k \in from + FanIn + 1 .. n} \cup {next[k] : k \in DOMAIN next}
  <2>1. \A k \in from + 1 .. n : k <= from + FanIn => runs[k] \in Names0
    BY <1>5, <1>7
  <2>2. \A k \in from + 1 .. n : k > from + FanIn => runs[k] \notin Names0
    <3> SUFFICES ASSUME NEW k \in from + 1 .. n, k > from + FanIn, NEW m \in 1 .. g,
                        runs[k] = runs[from + m]
                 PROVE  FALSE
      BY <1>7
    <3>1. k \in DOMAIN runs /\ from + m \in DOMAIN runs /\ from + m # k
      BY <1>4, <1>5
    <3> QED BY <1>9, <3>1
  <2>3. \A k \in from + 1 .. n : \A m \in DOMAIN next : runs[k] # next[m]
    BY <1>1 DEF Named, n
  <2>4. \A m \in DOMAIN next : next[m] \notin Names0
    BY <1>5, <1>7, <2>3
  <2> QED BY <1>5, <1>6, <2>1, <2>2, <2>4
<1> QED BY <1>2, <1>3, <1>8, <1>10, <1>11, <1>12 DEF g, n

(***************************************************************************)
(* Types and stages.                                                       *)
(***************************************************************************)

\* The files of a group have names.
LEMMA GroupNames ==
  ASSUME SortTypeOK, SortAssumption, from < Len(runs)
  PROVE  \A k \in DOMAIN Group : Group[k] \in Names
<1>1. /\ from \in Nat /\ Len(runs) \in Nat /\ FanIn \in Nat /\ runs \in Seq(Names)
      /\ Len(Group) \in Nat /\ from + Len(Group) <= Len(runs)
  BY GroupIs DEF SortTypeOK, SortAssumption
<1>2. \A k \in 1 .. Len(Group) : from + k \in 1 .. Len(runs)
  BY <1>1
<1>3. \A k \in 1 .. Len(runs) : runs[k] \in Names
  BY <1>1
<1>4. DOMAIN Group = 1 .. Len(Group) /\ \A k \in 1 .. Len(Group) : Group[k] = runs[from + k]
  BY GroupIs
<1> QED BY <1>2, <1>3, <1>4

\* The files of a merge are there, and the records in the heap are theirs.
LEMMA MergeFacts ==
  ASSUME SortInv, stage = "merge"
  PROVE  /\ result = "running" /\ from < Len(runs)
         /\ Merged \in DOMAIN files /\ files[Merged] \in Seq(Records)
         /\ \A k \in DOMAIN Group : /\ Group[k] \in DOMAIN files
                                   /\ files[Group[k]] \in Seq(Records)
                                   /\ head[k] \in 1 .. Len(files[Group[k]]) + 1
         /\ \A k \in InHeap : /\ head[k] \in DOMAIN files[Group[k]]
                             /\ First(k) \in Records
<1>1. result = "running" /\ from < Len(runs)
  BY DEF SortInv, Stages
<1>2. DOMAIN files = Kept \cup {Merged} /\ \A n \in DOMAIN files : files[n] \in Seq(Records)
  BY <1>1 DEF SortInv, Whole, OnlyKept, SortTypeOK
<1>3. \A k \in DOMAIN Group : Group[k] \in DOMAIN files
  BY <1>1, <1>2, GroupFacts DEF Names0
<1>4. \A k \in DOMAIN Group : head[k] \in 1 .. Len(files[Group[k]]) + 1
  BY <1>1 DEF SortInv, Whole, Merging
<1>5. ASSUME NEW k \in InHeap
      PROVE  head[k] \in DOMAIN files[Group[k]] /\ First(k) \in Records
  <2>1. k \in DOMAIN Group /\ head[k] <= Len(files[Group[k]])
    BY DEF InHeap
  <2> DEFINE s == files[Group[k]]
  <2>2. s \in Seq(Records) /\ head[k] \in 1 .. Len(s) + 1 /\ head[k] <= Len(s)
    BY <1>2, <1>3, <1>4, <2>1
  <2>3. First(k) = s[head[k]]
    BY DEF First
  <2> HIDE DEF s
  <2>4. head[k] \in DOMAIN s /\ s[head[k]] \in Records
    BY <2>2
  <2> QED BY <2>3, <2>4 DEF s
<1> QED BY <1>1, <1>2, <1>3, <1>4, <1>5

\* Every step keeps the types.
LEMMA SortTypes ==
  ASSUME SortInv, [SortNext]_sortVars
  PROVE  SortTypeOK'
<1>1. SortTypeOK /\ SortAssumption /\ Stages
  BY DEF SortInv
<1>2. ASSUME NEW err \in {"context", "concrete"}, Fail(err) PROVE SortTypeOK'
  BY <1>1, <1>2 DEF SortTypeOK, Fail, Removed, Restrict
<1>3. CASE Cancel
  BY <1>1, <1>3 DEF SortTypeOK, Cancel
<1>4. CASE SortEmpty
  <2>1. files' = [m \in DOMAIN files \cup {<<0, 0>>} |-> IF m = <<0, 0>> THEN <<>> ELSE files[m]]
    BY <1>4 DEF SortEmpty, Stored
  <2>2. <<0, 0>> \in Names /\ runs' \in Seq(Names)
    BY <1>4 DEF SortEmpty, Names
  <2>3. DOMAIN files' \subseteq Names /\ \A n \in DOMAIN files' : files'[n] \in Seq(Records)
    <3>1. <<>> \in Seq(Records)
      OBVIOUS
    <3>2. DOMAIN files' = DOMAIN files \cup {<<0, 0>>}
      BY <2>1
    <3>3. \A n \in DOMAIN files' : files'[n] = <<>> \/ (n \in DOMAIN files /\ files'[n] = files[n])
      BY <2>1
    <3> QED BY <1>1, <2>2, <3>1, <3>2, <3>3 DEF SortTypeOK
  <2> QED BY <1>1, <1>4, <2>2, <2>3 DEF SortTypeOK, SortEmpty
<1>5. CASE WriteRun
  <2>1. PICK to \in 1 .. Len(input) :
          /\ to > taken /\ taken' = to
          /\ \E run \in Seq(Records) : files' = Stored(<<0, Len(runs)>>, run)
    <3>1. PICK to \in 1 .. Len(input) :
            /\ ChunkEnds(to)
            /\ \E order \in Bijection(1 .. to - taken, 1 .. to - taken) :
                 files' = Stored(<<0, Len(runs)>>, [k \in 1 .. to - taken |-> input[taken + order[k]]])
            /\ taken' = to
      BY <1>5 DEF WriteRun
    <3>2. PICK order \in Bijection(1 .. to - taken, 1 .. to - taken) :
            files' = Stored(<<0, Len(runs)>>, [k \in 1 .. to - taken |-> input[taken + order[k]]])
      BY <3>1
    <3> DEFINE n == to - taken
    <3>3. to > taken /\ n \in Nat /\ taken \in Nat /\ taken + n = to
      BY <1>1, <3>1 DEF ChunkEnds, SortTypeOK
    <3>4. \A k \in 1 .. n : order[k] \in 1 .. n
      BY <3>2 DEF Bijection, Injection
    <3>5. to <= Len(input) /\ input \in Seq(Records)
      BY <1>1 DEF SortTypeOK
    <3> HIDE DEF n
    <3>6. \A k \in 1 .. n : taken + order[k] \in 1 .. Len(input)
      BY <3>3, <3>4, <3>5
    <3>7. [k \in 1 .. n |-> input[taken + order[k]]] \in Seq(Records)
      BY <3>3, <3>5, <3>6
    <3> QED BY <3>1, <3>2, <3>3, <3>7 DEF n
  <2>2. PICK run \in Seq(Records) : files' = Stored(<<0, Len(runs)>>, run)
    BY <2>1
  <2>3. <<0, Len(runs)>> \in Names /\ runs' \in Seq(Names)
    BY <1>1, <1>5 DEF WriteRun, Names, SortTypeOK
  <2>4. DOMAIN files' \subseteq Names /\ \A n \in DOMAIN files' : files'[n] \in Seq(Records)
    BY <1>1, <2>2, <2>3 DEF SortTypeOK, Stored
  <2>5. taken' \in 0 .. Len(input)
    BY <2>1
  <2> QED BY <1>1, <1>5, <2>3, <2>4, <2>5 DEF SortTypeOK, WriteRun
<1>6. CASE Spilled \/ SortReturns
  BY <1>1, <1>6 DEF SortTypeOK, Spilled, SortReturns
<1>7. CASE CarryOne
  <2>1. Group[1] \in Names
    BY <1>1, <1>7, GroupNames, GroupIs DEF CarryOne
  <2>2. next' \in Seq(Names) /\ from' \in Nat
    BY <1>1, <1>7, <2>1 DEF CarryOne, SortTypeOK, SortAssumption
  <2> QED BY <1>1, <1>7, <2>2 DEF SortTypeOK, CarryOne
<1>8. CASE BeginMerge
  <2>1. Merged \in Names
    BY <1>1 DEF Merged, SortTypeOK, Names
  <2>2. DOMAIN files' \subseteq Names /\ \A n \in DOMAIN files' : files'[n] \in Seq(Records)
    BY <1>1, <1>8, <2>1 DEF SortTypeOK, BeginMerge, Stored
  <2>3. head' \in [1 .. FanIn -> Nat]
    BY <1>8 DEF BeginMerge
  <2> QED BY <1>1, <1>8, <2>2, <2>3 DEF SortTypeOK, BeginMerge
<1>9. ASSUME NEW k \in 1 .. FanIn, MergeOne(k) PROVE SortTypeOK'
  <2>1. Append(files[Merged], First(k)) \in Seq(Records)
    BY <1>9, MergeFacts DEF MergeOne
  <2>2. head' \in [1 .. FanIn -> Nat]
    BY <1>1, <1>9 DEF MergeOne, SortTypeOK
  <2>3. /\ DOMAIN files' = DOMAIN files
        /\ \A n \in DOMAIN files : files'[n] = IF n = Merged THEN Append(files[Merged], First(k)) ELSE files[n]
    BY <1>9 DEF MergeOne
  <2>4. DOMAIN files' \subseteq Names /\ \A n \in DOMAIN files' : files'[n] \in Seq(Records)
    BY <1>1, <2>1, <2>3 DEF SortTypeOK
  <2> QED BY <1>1, <1>9, <2>2, <2>4 DEF SortTypeOK, MergeOne
<1>10. CASE EndMerge
  <2>1. Merged \in Names /\ NoHeads \in [1 .. FanIn -> Nat]
    BY <1>1 DEF Merged, SortTypeOK, Names, NoHeads
  <2>2. next' \in Seq(Names) /\ from' \in Nat
    BY <1>1, <1>10, <2>1 DEF EndMerge, SortTypeOK, SortAssumption
  <2>3. DOMAIN files' \subseteq Names /\ \A n \in DOMAIN files' : files'[n] \in Seq(Records)
    BY <1>1, <1>10 DEF EndMerge, SortTypeOK, Removed, Restrict
  <2> QED BY <1>1, <1>10, <2>1, <2>2, <2>3 DEF SortTypeOK, EndMerge
<1>11. CASE EndPass
  BY <1>1, <1>11 DEF SortTypeOK, EndPass
<1>12. CASE UNCHANGED sortVars
  BY <1>1, <1>12 DEF SortTypeOK, sortVars
<1> QED
  <2>1. SortStops \/ SortBreaks => Fail("context") \/ Fail("concrete")
    BY DEF SortStops, SortBreaks
  <2> QED BY <1>2, <1>3, <1>4, <1>5, <1>6, <1>7, <1>8, <1>9, <1>10, <1>11, <1>12, <2>1 DEF SortNext, SortWork

\* A number above one is not one.
LEMMA MoreThanOne == \A n \in Nat : n > 1 => n # 1
OBVIOUS

\* Every step leads to a stage that agrees with the rest.
LEMMA SortStages ==
  ASSUME SortInv, [SortNext]_sortVars
  PROVE  Stages'
<1>1. SortTypeOK /\ SortAssumption /\ Stages
  BY DEF SortInv
<1>2. ASSUME NEW err \in {"context", "concrete"}, Fail(err), err = "context" => cancel
      PROVE  Stages'
  BY <1>1, <1>2 DEF Stages, Fail
<1>3. CASE Cancel
  BY <1>1, <1>3 DEF Stages, Cancel, Group
<1>4. CASE SortEmpty
  <2>1. taken = Len(input)
    BY <1>1, <1>4 DEF SortEmpty, SortTypeOK
  <2> QED BY <1>1, <1>4, <2>1 DEF Stages, SortEmpty, SortTypeOK
<1>5. CASE WriteRun
  BY <1>1, <1>5 DEF Stages, WriteRun
<1>6. CASE Spilled \/ SortReturns
  BY <1>1, <1>6 DEF Stages, Spilled, SortReturns
<1>7. CASE CarryOne
  <2>1. /\ stage = "group" /\ Len(runs) > 1 /\ Len(runs) \in Nat
        /\ UNCHANGED <<input, taken, runs, stage, result>>
    BY <1>1, <1>7 DEF CarryOne, SortTypeOK
  <2>2. result = "running"
    BY <1>1, <2>1 DEF Stages
  <2>3. stage' = "group" /\ result' = "running"
    BY <2>1, <2>2
  <2>4. Len(runs') # 1
    BY <2>1, MoreThanOne, Zenon
  <2>5. taken' = Len(input')
    BY <1>1, <2>1 DEF Stages
  <2>6. pass' > 0
    BY <1>1, <1>7 DEF Stages, CarryOne
  <2> QED BY <2>3, <2>4, <2>5, <2>6 DEF Stages
<1>8. CASE BeginMerge
  BY <1>1, <1>8 DEF Stages, BeginMerge, Group
<1>9. ASSUME NEW k \in 1 .. FanIn, MergeOne(k) PROVE Stages'
  BY <1>1, <1>9 DEF Stages, MergeOne, Group
<1>10. CASE EndMerge
  <2>1. Len(runs) > 1 /\ Len(runs) \in Nat
    <3>1. from < Len(runs) /\ Len(Group) > 1
      BY <1>1, <1>10 DEF Stages, EndMerge
    <3>2. from + Len(Group) <= Len(runs) /\ Len(Group) \in Nat
      BY <1>1, <3>1, GroupIs DEF SortAssumption
    <3> QED BY <1>1, <3>1, <3>2 DEF SortTypeOK
  <2>2. /\ stage = "merge" /\ stage' = "group"
        /\ UNCHANGED <<input, taken, runs, result>>
    BY <1>1, <1>10 DEF EndMerge, SortTypeOK
  <2>3. result = "running"
    BY <1>1, <2>2 DEF Stages
  <2>4. stage' = "group" /\ result' = "running" /\ taken' = Len(input')
    BY <1>1, <2>2, <2>3 DEF Stages
  <2>5. Len(runs') # 1
    BY <2>1, <2>2, MoreThanOne, Zenon
  <2>6. pass' > 0
    BY <1>1, <1>10 DEF Stages, EndMerge
  <2> QED BY <2>4, <2>5, <2>6 DEF Stages
<1>11. CASE EndPass
  <2>1. pass' > 0 /\ result' = "running" /\ stage' = "group" /\ taken' = Len(input')
        /\ from' = 0 /\ next' = <<>>
    BY <1>1, <1>11 DEF Stages, EndPass, SortTypeOK
  <2> QED BY <2>1 DEF Stages
<1>12. CASE UNCHANGED sortVars
  BY <1>1, <1>12 DEF Stages, sortVars, Group
<1> QED
  <2>1. SortStops \/ SortBreaks => (cancel /\ Fail("context")) \/ Fail("concrete")
    BY DEF SortStops, SortBreaks
  <2> QED BY <1>2, <1>3, <1>4, <1>5, <1>6, <1>7, <1>8, <1>9, <1>10, <1>11, <1>12, <2>1 DEF SortNext, SortWork

\* Nothing is read and nothing written.
LEMMA SortBegins == SortAssumption /\ SortInit => SortInv
<1> SUFFICES ASSUME SortAssumption, SortInit PROVE SortInv
  OBVIOUS
<1>1. SortTypeOK
  <2>1. PICK n \in 0 .. MaxRecords : input \in [1 .. n -> Records]
    BY DEF SortInit
  <2>2. n \in Nat
    BY DEF SortAssumption
  <2>3. input \in Seq(Records)
    BY <2>1, <2>2
  <2>4. DOMAIN files = {} /\ NoHeads \in [1 .. FanIn -> Nat]
    BY DEF SortInit, NoHeads
  <2>5. taken \in 0 .. Len(input)
    BY <2>3 DEF SortInit
  <2>6. runs \in Seq(Names) /\ next \in Seq(Names) /\ from \in Nat /\ pass \in Nat
    BY DEF SortInit
  <2>7. DOMAIN files \subseteq Names /\ \A m \in DOMAIN files : files[m] \in Seq(Records)
    BY <2>4
  <2> QED BY <2>3, <2>4, <2>5, <2>6, <2>7 DEF SortInit, SortTypeOK
<1>2. Stages
  BY DEF SortInit, Stages
<1>3. DOMAIN runs = {} /\ DOMAIN next = {} /\ Len(runs) = 0 /\ DOMAIN files = {} /\ from = 0
  BY DEF SortInit
<1>4. Named
  BY <1>3 DEF Named
<1>5. Kept = {}
  BY <1>3 DEF Kept
<1>6. OnlyKept /\ AllOrdered /\ Merging
  BY <1>3, <1>5 DEF SortInit, OnlyKept, AllOrdered, Merging
<1>7. Finite /\ NoneLost
  <2>1. ASSUME NEW r \in Records
        PROVE  Places(r, Kept) = {} /\ {k \in 1 .. taken : input[k] = r} = {}
    BY <1>5 DEF Places, SortInit
  <2> QED BY <1>5, <2>1, FS_EmptySet DEF Finite, NoneLost
<1> QED BY <1>1, <1>2, <1>4, <1>6, <1>7 DEF SortInv, Whole

(***************************************************************************)
(* Steps that leave the files alone.                                       *)
(***************************************************************************)

\* What files that are not written hold stays.
LEMMA PlacesStay ==
  ASSUME NEW r, NEW names, \A n \in names : files'[n] = files[n]
  PROVE  Places(r, names)' = Places(r, names)
BY DEF Places

\* A step that writes no file and takes none up changes nothing of what they hold.
LEMMA IdleSort ==
  ASSUME Whole, UNCHANGED <<input, files, taken, runs, next, from, pass, head>>,
         stage' = stage \/ (stage # "merge" /\ stage' \in {"group", "over"})
  PROVE  Whole'
<1>1. Kept' = Kept /\ Merged' = Merged /\ Group' = Group
  BY DEF Kept, Merged, Group
<1>2. InHeap' = InHeap /\ \A k : First(k)' = First(k)
  BY <1>1 DEF InHeap, First
<1>3. \A r : Read(r)' = Read(r) /\ Places(r, Kept)' = Places(r, Kept)
             /\ Places(r, {Merged})' = Places(r, {Merged})
  BY <1>1 DEF Read, Places
<1>4. Named' /\ OnlyKept' /\ AllOrdered'
  BY <1>1 DEF Whole, Named, OnlyKept, AllOrdered
<1>5. Merging'
  BY <1>1, <1>2, <1>3 DEF Whole, Merging
<1>6. Finite' /\ NoneLost'
  BY <1>1, <1>3 DEF Whole, Finite, NoneLost
<1> QED BY <1>4, <1>5, <1>6 DEF Whole

\* A file that is carried over stays one of the files of the pass.
LEMMA CarryWhole ==
  ASSUME SortInv, CarryOne
  PROVE  Whole'
<1>1. /\ SortTypeOK /\ SortAssumption /\ Whole /\ result = "running" /\ stage = "group"
      /\ from < Len(runs) /\ Len(Group) = 1 /\ stage' = "group"
      /\ next' = Append(next, Group[1]) /\ from' = from + FanIn
      /\ UNCHANGED <<input, files, taken, runs, pass>>
  BY DEF CarryOne, SortInv, Stages
<1>2. /\ from \in Nat /\ Len(runs) = from + 1 /\ Group[1] = runs[from + 1] /\ FanIn \in Nat /\ FanIn > 1
      /\ DOMAIN runs = 1 .. from + 1
  <2> DEFINE n == Len(runs)
             g == Len(Group)
  <2>1. from \in Nat /\ n \in Nat /\ FanIn \in Nat /\ FanIn > 1 /\ g = 1 /\ DOMAIN runs = 1 .. n
    BY <1>1 DEF SortTypeOK, SortAssumption
  <2>2. /\ from + FanIn < n => g = FanIn
        /\ from + FanIn >= n => from + g = n
        /\ g \in 1 .. FanIn
    BY <1>1, GroupIs
  <2>3. Group = [k \in 1 .. g |-> runs[from + k]]
    BY <1>1, GroupIs
  <2> HIDE DEF n, g
  <2>4. n = from + 1
    BY <2>1, <2>2
  <2>5. Group[1] = runs[from + 1]
    BY <2>1, <2>2, <2>3
  <2> QED BY <2>1, <2>4, <2>5 DEF n
<1> DEFINE q == Len(next)
<1>3. /\ q \in Nat /\ DOMAIN next = 1 .. q /\ DOMAIN next' = 1 .. q + 1 /\ Len(next') = q + 1
      /\ next'[q + 1] = Group[1] /\ \A k \in 1 .. q : next'[k] = next[k]
  BY <1>1 DEF SortTypeOK
<1> HIDE DEF q
<1>4. \A k \in 1 .. q + 1 : k \in 1 .. q \/ k = q + 1
  BY <1>3
<1>5. Kept' = Kept
  <2>1. from' + 1 .. Len(runs') = {} /\ from + 1 .. Len(runs) = {from + 1}
    BY <1>1, <1>2
  <2>2. Kept = {runs[from + 1]} \cup {next[k] : k \in 1 .. q}
    BY <1>3, <2>1 DEF Kept
  <2>3. Kept' = {next'[k] : k \in 1 .. q + 1}
    BY <1>3, <2>1 DEF Kept
  <2>4. q + 1 \in 1 .. q + 1 /\ \A k \in 1 .. q : k \in 1 .. q + 1
    BY <1>3
  <2> QED BY <1>2, <1>3, <1>4, <2>2, <2>3, <2>4
<1>6. Named'
  <2>1. \A k \in 1 .. q : next[k] # runs[from + 1]
    BY <1>1, <1>2, <1>3 DEF Whole, Named
  <2>2. \A k, m \in 1 .. q + 1 : next'[k] = next'[m] => k = m
    BY <1>1, <1>2, <1>3, <1>4, <2>1 DEF Whole, Named
  <2>3. runs[from + 1][1] < pass
    BY <1>1, <1>2 DEF Whole, Named
  <2>4. \A k \in 1 .. q + 1 : next'[k][1] < pass \/ (next'[k][1] = pass /\ next'[k][2] < q + 1)
    <3>1. \A k \in 1 .. q : next[k][1] < pass \/ (next[k][1] = pass /\ next[k][2] < q)
      BY <1>1, <1>3 DEF Whole, Named, q
    <3>2. \A k \in 1 .. q : next[k] \in Names
      BY <1>1, <1>3 DEF SortTypeOK
    <3>3. \A k \in 1 .. q : next[k][2] < q => next[k][2] < q + 1
      BY <1>3, <3>2 DEF Names
    <3> QED BY <1>2, <1>3, <1>4, <2>3, <3>1, <3>3
  <2>5. from' + 1 .. Len(runs') = {}
    BY <1>1, <1>2
  <2> QED BY <1>1, <1>3, <2>2, <2>4, <2>5 DEF Whole, Named
<1>7. OnlyKept' /\ AllOrdered' /\ Merging'
  BY <1>1, <1>5 DEF Whole, OnlyKept, AllOrdered, Merging
<1>8. Finite' /\ NoneLost'
  <2>1. \A r : Places(r, Kept)' = Places(r, Kept)
    BY <1>1, <1>5 DEF Places
  <2> QED BY <1>1, <1>5, <2>1 DEF Whole, Finite, NoneLost
<1> QED BY <1>6, <1>7, <1>8 DEF Whole

\* The files of a pass are the runs of the next one.
LEMMA PassWhole ==
  ASSUME SortInv, EndPass
  PROVE  Whole'
<1>1. /\ SortTypeOK /\ Whole /\ result = "running" /\ stage = "group" /\ stage' = "group"
      /\ from >= Len(runs) /\ runs' = next /\ next' = <<>> /\ from' = 0 /\ pass' = pass + 1
      /\ UNCHANGED <<input, files, taken>>
  BY DEF EndPass, SortInv, Stages
<1>2. /\ from + 1 .. Len(runs) = {} /\ DOMAIN next = 1 .. Len(next) /\ DOMAIN next' = {}
      /\ pass \in Nat /\ Len(next) \in Nat
  BY <1>1 DEF SortTypeOK
<1>3. Kept' = Kept
  BY <1>1, <1>2 DEF Kept
<1>4. Named'
  <2>1. \A k \in DOMAIN next : next[k][1] < pass + 1
    <3>1. \A k \in DOMAIN next : next[k] \in Names /\ (next[k][1] < pass \/ next[k][1] = pass)
      BY <1>1 DEF Whole, Named, SortTypeOK
    <3> QED BY <1>2, <3>1 DEF Names
  <2> QED BY <1>1, <1>2, <2>1 DEF Whole, Named
<1>5. OnlyKept' /\ AllOrdered' /\ Merging'
  BY <1>1, <1>3 DEF Whole, OnlyKept, AllOrdered, Merging
<1>6. Finite' /\ NoneLost'
  <2>1. \A r : Places(r, Kept)' = Places(r, Kept)
    BY <1>1, <1>3 DEF Places
  <2> QED BY <1>1, <1>3, <2>1 DEF Whole, Finite, NoneLost
<1> QED BY <1>4, <1>5, <1>6 DEF Whole

(***************************************************************************)
(* Runs.                                                                   *)
(***************************************************************************)

\* The sorted file of an empty partition.
LEMMA EmptyWhole ==
  ASSUME SortInv, SortEmpty
  PROVE  Whole'
<1>1. /\ SortTypeOK /\ Stages /\ Whole /\ result = "running" /\ stage = "spill" /\ stage' = "over"
      /\ input = <<>> /\ files' = Stored(<<0, 0>>, <<>>) /\ runs' = <<<<0, 0>>>>
      /\ UNCHANGED <<input, taken, next, from, pass>>
  BY DEF SortEmpty, SortInv, Stages
<1>2. from = 0 /\ next = <<>> /\ taken = 0 /\ pass \in Nat
  BY <1>1 DEF Stages, SortTypeOK
<1>3. PICK one : one = <<0, 0>>
  OBVIOUS
<1>4. /\ Kept = {} /\ Kept' = {one}
      /\ DOMAIN runs' = {1} /\ runs'[1] = one /\ Len(runs') = 1
  <2>1. /\ from + 1 .. Len(runs) = {} /\ from' + 1 .. Len(runs') = {1} /\ DOMAIN next = {}
        /\ DOMAIN next' = {}
    BY <1>1, <1>2 DEF Stages
  <2> QED BY <1>1, <1>2, <1>3, <2>1 DEF Kept
<1>5. DOMAIN files' = {one} /\ files'[one] = <<>>
  BY <1>1, <1>3, <1>4 DEF Stored, Whole, OnlyKept
<1>6. Named'
  <2>1. one[1] < pass
    BY <1>1, <1>2, <1>3 DEF Stages
  <2>2. \A k \in DOMAIN runs' : k = 1
    BY <1>4
  <2>3. DOMAIN next' = {}
    BY <1>1, <1>2
  <2> QED BY <1>1, <1>4, <2>1, <2>2, <2>3 DEF Named
<1>7. OnlyKept' /\ AllOrdered' /\ Merging'
  BY <1>1, <1>4, <1>5 DEF OnlyKept, AllOrdered, Ordered, Merging
<1>8. Finite' /\ NoneLost'
  <2>1. ASSUME NEW r \in Records
        PROVE  Places(r, Kept)' = {} /\ {k \in 1 .. taken' : input'[k] = r} = {}
    BY <1>1, <1>2, <1>4, <1>5 DEF Places
  <2> QED BY <1>4, <1>5, <2>1, FS_EmptySet DEF Finite, NoneLost
<1> QED BY <1>6, <1>7, <1>8 DEF Whole

\* A run has the records of its chunk, and the name of no other.
LEMMA RunWhole ==
  ASSUME SortInv, WriteRun
  PROVE  Whole'
<1>1. /\ SortTypeOK /\ Stages /\ Whole /\ result = "running" /\ stage = "spill" /\ stage' = "spill"
      /\ runs' = Append(runs, <<0, Len(runs)>>)
      /\ UNCHANGED <<input, next, from, pass>>
  BY DEF WriteRun, SortInv, Stages
<1>2. PICK to \in 1 .. Len(input) :
        /\ to > taken /\ taken' = to
        /\ \E order \in Bijection(1 .. to - taken, 1 .. to - taken) :
             /\ Ordered([k \in 1 .. to - taken |-> input[taken + order[k]]])
             /\ files' = Stored(<<0, Len(runs)>>, [k \in 1 .. to - taken |-> input[taken + order[k]]])
  BY DEF WriteRun, ChunkEnds
<1>3. PICK n \in Nat, b \in Nat : b = taken /\ n = to - taken /\ b + n = to
  BY <1>1, <1>2 DEF SortTypeOK
<1>20. PICK order \in Bijection(1 .. n, 1 .. n) :
            /\ Ordered([k \in 1 .. n |-> input[b + order[k]]])
            /\ files' = Stored(<<0, Len(runs)>>, [k \in 1 .. n |-> input[b + order[k]]])
  BY <1>2, <1>3
<1>4. PICK new : new = <<0, Len(runs)>>
  OBVIOUS
<1>5. PICK run : run = [k \in 1 .. n |-> input[b + order[k]]]
  OBVIOUS
<1>6. Ordered(run) /\ files' = Stored(new, run)
  BY <1>20, <1>4, <1>5
<1>7. PICK q \in Nat : q = Len(runs)
  BY <1>1 DEF SortTypeOK
<1>8. /\ from = 0 /\ DOMAIN next = {} /\ DOMAIN next' = {} /\ pass > 0 /\ pass \in Nat
      /\ DOMAIN runs = 1 .. q /\ DOMAIN runs' = 1 .. q + 1 /\ Len(runs') = q + 1
      /\ runs'[q + 1] = new /\ \A k \in 1 .. q : runs'[k] = runs[k]
  BY <1>1, <1>4, <1>7 DEF SortTypeOK, Stages
<1>9. \A k \in 1 .. q + 1 : k \in 1 .. q \/ k = q + 1
  OBVIOUS
<1>10. q + 1 \in 1 .. q + 1 /\ \A k \in 1 .. q : k \in 1 .. q + 1
  OBVIOUS
<1>11. Kept = {runs[k] : k \in 1 .. q}
  BY <1>7, <1>8 DEF Kept
<1>12. Kept' = Kept \cup {new}
  <2>1. from' + 1 .. Len(runs') = 1 .. q + 1
    BY <1>1, <1>8
  <2>2. Kept' = {runs'[k] : k \in 1 .. q + 1}
    BY <1>8, <2>1 DEF Kept
  <2> QED BY <1>8, <1>9, <1>10, <1>11, <2>2
<1>21. \A k \in 1 .. q : runs[k][2] \in Nat /\ runs[k][2] < q
  <2>1. \A k \in 1 .. q : runs[k] \in Names
    BY <1>1, <1>8 DEF SortTypeOK
  <2>2. \A k \in 1 .. q : runs[k][2] < q
    BY <1>1, <1>7, <1>8 DEF Whole, Named
  <2> QED BY <2>1, <2>2 DEF Names
<1>13. new \notin Kept
  <2>1. new[2] = q
    BY <1>4, <1>7
  <2> QED BY <1>11, <1>21, <2>1
<1>14. /\ DOMAIN files = Kept /\ DOMAIN files' = Kept' /\ files'[new] = run
       /\ \A m \in Kept : files'[m] = files[m]
  BY <1>1, <1>6, <1>12, <1>13 DEF Stored, Whole, OnlyKept
<1>15. Named'
  <2>1. \A k \in 1 .. q + 1 : runs'[k][1] < pass
    <3>1. new[1] < pass
      BY <1>4, <1>8
    <3> QED BY <1>1, <1>8, <1>9, <3>1 DEF Whole, Named
  <2>2. \A k \in 1 .. q + 1 : runs'[k][2] < q + 1
    <3>2. new[2] = q
      BY <1>4, <1>7
    <3>3. \A x \in Nat : x < q => x < q + 1
      OBVIOUS
    <3>4. \A k \in 1 .. q : runs[k][2] < q + 1
      BY <1>21, <3>3
    <3>5. new[2] < q + 1
      BY <3>2
    <3> QED BY <1>8, <1>9, <3>4, <3>5
  <2>3. \A k, m \in 1 .. q + 1 : runs'[k] = runs'[m] => k = m
    <3>1. \A k \in 1 .. q : runs[k] # new
      BY <1>11, <1>13
    <3>2. \A k, m \in 1 .. q : runs[k] = runs[m] => k = m
      BY <1>1, <1>8 DEF Whole, Named
    <3> QED BY <1>8, <1>9, <3>1, <3>2
  <2> QED BY <1>1, <1>8, <2>1, <2>2, <2>3 DEF Named
<1>16. OnlyKept' /\ AllOrdered' /\ Merging'
  <2>1. \A m \in Kept : Ordered(files[m])
    BY <1>1, <1>14 DEF Whole, AllOrdered
  <2>2. \A m \in DOMAIN files' : Ordered(files'[m])
    BY <1>6, <1>12, <1>14, <2>1
  <2> QED BY <1>1, <1>14, <2>2 DEF OnlyKept, AllOrdered, Merging, Ordered
<1>17. ASSUME NEW r \in Records
       PROVE  /\ IsFiniteSet(Places(r, Kept)')
              /\ Cardinality(Places(r, Kept)') = Cardinality({k \in 1 .. to : input[k] = r})
  <2>1. PICK old : old = Places(r, Kept)
    OBVIOUS
  <2> DEFINE S == {k \in 1 .. n : input[b + order[k]] = r}
             T == {k \in b + 1 .. b + n : input[k] = r}
             U == {k \in 1 .. b : input[k] = r}
  <2>2. order \in Bijection(1 .. n, 1 .. n)
    OBVIOUS
  <2>3. IsFiniteSet(S) /\ IsFiniteSet(T) /\ Cardinality(S) = Cardinality(T)
    <3> DEFINE move == [k \in S |-> b + order[k]]
    <3>1. /\ \A k \in 1 .. n : order[k] \in 1 .. n
          /\ \A k, m \in 1 .. n : order[k] = order[m] => k = m
          /\ \A m \in 1 .. n : \E k \in 1 .. n : order[k] = m
      BY DEF Bijection, Injection, IsInjective, Surjection
    <3>2. IsFiniteSet(S) /\ IsFiniteSet(T)
      <4>1. IsFiniteSet(1 .. n) /\ IsFiniteSet(b + 1 .. b + n)
        BY FS_Interval
      <4> QED BY <4>1, FS_Subset
    <3>3. \A k \in S : b + order[k] \in T
      <4> SUFFICES ASSUME NEW k \in 1 .. n, input[b + order[k]] = r PROVE b + order[k] \in b + 1 .. b + n
        OBVIOUS
      <4> DEFINE o == order[k]
      <4>1. o \in 1 .. n
        BY <3>1
      <4> HIDE DEF o
      <4>2. b + o \in b + 1 .. b + n
        BY <4>1
      <4> QED BY <4>2 DEF o
    <3>4. \A k, m \in S : b + order[k] = b + order[m] => k = m
      <4> SUFFICES ASSUME NEW k \in 1 .. n, NEW m \in 1 .. n, b + order[k] = b + order[m]
                   PROVE  order[k] = order[m]
        BY <3>1
      <4>1. order[k] \in 1 .. n /\ order[m] \in 1 .. n
        BY <3>1
      <4>2. \A x, y \in 1 .. n : b + x = b + y => x = y
        OBVIOUS
      <4> QED BY <4>1, <4>2
    <3>5. \A t \in T : \E k \in S : b + order[k] = t
      <4> SUFFICES ASSUME NEW t \in T PROVE \E k \in S : b + order[k] = t
        OBVIOUS
      <4>1. t - b \in 1 .. n /\ b + (t - b) = t /\ input[t] = r
        OBVIOUS
      <4>2. PICK k \in 1 .. n : order[k] = t - b
        BY <3>1, <4>1
      <4> QED BY <4>1, <4>2
    <3>6. move \in Bijection(S, T)
      <4> HIDE DEF S, T
      <4>1. move \in [S -> T]
        BY <3>3
      <4>2. move \in Injection(S, T)
        BY <3>4, <4>1 DEF Injection, IsInjective
      <4>3. move \in Surjection(S, T)
        BY <3>5, <4>1 DEF Surjection
      <4> QED BY <4>2, <4>3 DEF Bijection
    <3>7. Cardinality(S) = Cardinality(T)
      <4> HIDE DEF S, T, move
      <4>1. ExistsBijection(S, T)
        BY <3>6 DEF ExistsBijection
      <4> QED BY <3>2, <4>1, FS_Bijection
    <3> QED
      BY <3>2, <3>7
  <2>4. IsFiniteSet(old) /\ Cardinality(old) = Cardinality(U)
    BY <1>1, <1>3, <2>1 DEF Whole, Finite, NoneLost
  <2>5. Places(r, Kept)' = old \cup ({new} \X S)
    <3>1. PICK K : K = Kept
      OBVIOUS
    <3>2. \A m \in K : files'[m] = files[m]
      BY <1>14, <3>1
    <3>3. Places(r, K)' = old
      BY <2>1, <3>1, <3>2, PlacesStay
    <3>4. Places(r, {new})' = {new} \X S
      <4>1. {k \in DOMAIN files'[new] : files'[new][k] = r} = S
        BY <1>5, <1>14
      <4> HIDE DEF S
      <4> QED BY <4>1 DEF Places
    <3>5. Places(r, K \cup {new})' = Places(r, K)' \cup Places(r, {new})'
      BY DEF Places
    <3>6. Places(r, Kept)' = Places(r, K \cup {new})'
      BY <1>12, <3>1 DEF Places
    <3> HIDE DEF S
    <3> QED BY <3>3, <3>4, <3>5, <3>6
  <2>6. IsFiniteSet({new} \X S) /\ Cardinality({new} \X S) = Cardinality(S)
    <3> HIDE DEF S
    <3>1. IsFiniteSet({new}) /\ Cardinality({new}) = 1
      BY FS_Singleton
    <3>2. IsFiniteSet({new} \X S) /\ Cardinality({new} \X S) = 1 * Cardinality(S)
      BY <2>3, <3>1, FS_Product
    <3>3. Cardinality(S) \in Nat
      BY <2>3, FS_CardinalityType
    <3> QED BY <3>2, <3>3
  <2>7. old \cap ({new} \X S) = {}
    BY <1>13, <2>1 DEF Places
  <2>8. /\ {k \in 1 .. to : input[k] = r} = U \cup T
        /\ U \cap T = {}
        /\ IsFiniteSet(U)
    <3>1. 1 .. to = 1 .. b \cup b + 1 .. b + n /\ 1 .. b \cap b + 1 .. b + n = {}
      BY <1>3
    <3>2. IsFiniteSet(1 .. b)
      BY FS_Interval
    <3> QED BY <3>1, <3>2, FS_Subset
  <2> HIDE DEF S, T, U
  <2>9. /\ IsFiniteSet(old \cup ({new} \X S))
        /\ Cardinality(old \cup ({new} \X S)) = Cardinality(old) + Cardinality({new} \X S)
    BY <2>4, <2>6, <2>7, CardBoth
  <2>10. Cardinality(U \cup T) = Cardinality(U) + Cardinality(T)
    BY <2>3, <2>8, CardBoth
  <2> QED BY <2>3, <2>4, <2>5, <2>6, <2>8, <2>9, <2>10
<1>18. Finite' /\ NoneLost'
  BY <1>1, <1>2, <1>14, <1>17 DEF Finite, NoneLost
<1> QED BY <1>15, <1>16, <1>18 DEF Whole

(***************************************************************************)
(* Merging a group.                                                        *)
(***************************************************************************)

\* A merge begins with an empty output, and has taken nothing.
LEMMA BeginWhole ==
  ASSUME SortInv, BeginMerge
  PROVE  Whole'
<1>1. /\ SortTypeOK /\ SortAssumption /\ Whole /\ result = "running" /\ stage = "group"
      /\ stage' = "merge" /\ from < Len(runs)
      /\ files' = Stored(Merged, <<>>)
      /\ head' = [k \in 1 .. FanIn |-> IF k <= Len(Group) THEN 1 ELSE 0]
      /\ UNCHANGED <<input, taken, runs, next, from, pass>>
  BY DEF BeginMerge, SortInv, Stages
<1>2. PICK out : out = Merged
  OBVIOUS
<1>3. Kept' = Kept /\ Merged' = Merged /\ Group' = Group
  BY <1>1 DEF Kept, Merged, Group
<1>4. /\ Names0 \subseteq Kept /\ out \notin Kept
      /\ DOMAIN Group = 1 .. Len(Group) /\ Len(Group) \in 1 .. FanIn
  BY <1>1, <1>2, GroupFacts
<1>5. /\ DOMAIN files = Kept /\ DOMAIN files' = Kept \cup {out} /\ files'[out] = <<>>
      /\ \A m \in Kept : files'[m] = files[m]
  BY <1>1, <1>2, <1>4 DEF Stored, Whole, OnlyKept
<1>6. Named'
  BY <1>1 DEF Whole, Named
<1>7. OnlyKept' /\ AllOrdered'
  <2>1. \A m \in Kept : Ordered(files'[m])
    BY <1>1, <1>5 DEF Whole, AllOrdered
  <2>2. Ordered(files'[out])
    BY <1>5 DEF Ordered
  <2> QED BY <1>1, <1>2, <1>3, <1>5, <2>1, <2>2 DEF OnlyKept, AllOrdered, Ordered
<1>8. Merging'
  <2>1. \A k \in DOMAIN Group : head'[k] = 1
    <3> DEFINE g == Len(Group)
    <3>1. g \in 1 .. FanIn /\ FanIn \in Nat
      BY <1>1, <1>4 DEF SortAssumption
    <3>2. head' = [k \in 1 .. FanIn |-> IF k <= g THEN 1 ELSE 0] /\ DOMAIN Group = 1 .. g
      BY <1>1, <1>4
    <3> HIDE DEF g
    <3> QED BY <3>1, <3>2
  <2>2. \A k \in DOMAIN Group : files'[Group[k]] \in Seq(Records)
    BY <1>1, <1>4, <1>5 DEF Names0, SortTypeOK
  <2>3. \A k \in DOMAIN Group : head'[k] \in 1 .. Len(files'[Group[k]]) + 1
    BY <2>1, <2>2
  <2>4. \A r \in Records : Places(r, {Merged})' = {} /\ Read(r)' = {}
    <3> SUFFICES ASSUME NEW r \in Records PROVE Places(r, {Merged})' = {} /\ Read(r)' = {}
      OBVIOUS
    <3>1. Places(r, {Merged})' = {out} \X {k \in DOMAIN files'[out] : files'[out][k] = r}
      BY <1>2, <1>3 DEF Places
    <3>2. DOMAIN files'[out] = {}
      BY <1>5
    <3>3. \A k \in DOMAIN Group : 1 .. head'[k] - 1 = {}
      BY <2>1
    <3>4. Read(r)' = UNION {{Group[k]} \X {m \in 1 .. head'[k] - 1 : files'[Group[k]][m] = r} : k \in DOMAIN Group}
      BY <1>3 DEF Read
    <3> QED BY <3>1, <3>2, <3>3, <3>4
  <2>5. DOMAIN files'[Merged'] = {}
    BY <1>2, <1>3, <1>5
  <2> QED BY <1>3, <2>3, <2>4, <2>5, FS_EmptySet DEF Merging
<1>9. Finite' /\ NoneLost'
  <2>1. PICK K : K = Kept
    OBVIOUS
  <2>2. \A r : Places(r, K)' = Places(r, K)
    BY <1>5, <2>1, PlacesStay
  <2>3. \A r : Places(r, Kept)' = Places(r, Kept)
    BY <1>3, <2>1, <2>2 DEF Places
  <2> QED BY <1>1, <1>3, <1>5, <2>3 DEF Whole, Finite, NoneLost
<1> QED BY <1>6, <1>7, <1>8, <1>9 DEF Whole

\* The least record of the heap comes after what was written, and not after what is
\* left in the group.
LEMMA MergeWhole ==
  ASSUME SortInv, NEW k \in 1 .. FanIn, MergeOne(k)
  PROVE  Whole'
<1>1. /\ SortTypeOK /\ SortAssumption /\ Whole /\ result = "running" /\ stage = "merge"
      /\ stage' = "merge" /\ from < Len(runs)
      /\ k \in InHeap /\ \A other \in InHeap : First(k) <= First(other)
      /\ files' = [files EXCEPT ![Merged] = Append(@, First(k))]
      /\ head' = [head EXCEPT ![k] = @ + 1]
      /\ UNCHANGED <<input, taken, runs, next, from, pass>>
  BY MergeFacts DEF MergeOne, SortInv
<1>2. PICK out : out = Merged
  OBVIOUS
<1>3. PICK rec : rec = First(k)
  OBVIOUS
<1>4. Kept' = Kept /\ Merged' = Merged /\ Group' = Group
  BY <1>1 DEF Kept, Merged, Group
<1>5. /\ Names0 \subseteq Kept /\ out \notin Kept
      /\ DOMAIN Group \subseteq 1 .. FanIn
      /\ \A x, y \in DOMAIN Group : Group[x] = Group[y] => x = y
  <2>1. Len(Group) \in 1 .. FanIn => 1 .. Len(Group) \subseteq 1 .. FanIn
    BY <1>1 DEF SortAssumption
  <2> QED BY <1>1, <1>2, <2>1, GroupFacts
<1>6. /\ out \in DOMAIN files /\ files[out] \in Seq(Records) /\ rec \in Records
      /\ k \in DOMAIN Group /\ head[k] \in DOMAIN files[Group[k]]
      /\ files[Group[k]][head[k]] = rec
      /\ \A x \in DOMAIN Group : /\ Group[x] \in Kept /\ Group[x] # out
                                 /\ Group[x] \in DOMAIN files /\ files[Group[x]] \in Seq(Records)
                                 /\ head[x] \in 1 .. Len(files[Group[x]]) + 1
  BY <1>1, <1>2, <1>3, <1>5, MergeFacts DEF Names0, First, InHeap
<1>7. PICK w : w = files[out]
  OBVIOUS
<1>8. PICK len \in Nat : len = Len(w)
  BY <1>6, <1>7
<1>9. /\ DOMAIN files' = DOMAIN files /\ files'[out] = Append(w, rec)
      /\ \A m \in DOMAIN files : m # out => files'[m] = files[m]
      /\ \A m \in Kept : files'[m] = files[m]
  BY <1>1, <1>2, <1>3, <1>5, <1>6, <1>7
<1>10. /\ w \in Seq(Records) /\ DOMAIN w = 1 .. len /\ DOMAIN Append(w, rec) = 1 .. len + 1
       /\ Append(w, rec)[len + 1] = rec /\ \A x \in 1 .. len : Append(w, rec)[x] = w[x]
  BY <1>6, <1>7, <1>8
<1>11. head'[k] = head[k] + 1 /\ \A x \in DOMAIN Group : x # k => head'[x] = head[x]
  BY <1>1, <1>5, <1>6 DEF SortTypeOK
<1>12. Named'
  BY <1>1 DEF Whole, Named
<1>13. \A x \in 1 .. len : w[x] <= rec
  BY <1>1, <1>2, <1>3, <1>7, <1>10 DEF Whole, Merging
<1>14. \A x \in 1 .. len + 1 : x \in 1 .. len \/ x = len + 1
  OBVIOUS
<1>15. OnlyKept' /\ AllOrdered'
  <2>1. Ordered(w)
    BY <1>1, <1>6, <1>7 DEF Whole, AllOrdered
  <2>2. Ordered(Append(w, rec))
    <3> SUFFICES ASSUME NEW x \in 1 .. len + 1, NEW y \in 1 .. len + 1, x < y
                 PROVE  Append(w, rec)[x] <= Append(w, rec)[y]
      BY <1>10 DEF Ordered
    <3>1. x \in 1 .. len
      OBVIOUS
    <3>2. CASE y \in 1 .. len
      BY <1>10, <2>1, <3>1, <3>2 DEF Ordered
    <3>3. CASE y = len + 1
      BY <1>10, <1>13, <3>1, <3>3
    <3> QED BY <1>14, <3>2, <3>3
  <2>3. \A m \in DOMAIN files : m # out => Ordered(files[m])
    BY <1>1 DEF Whole, AllOrdered
  <2>4. \A m \in DOMAIN files' : Ordered(files'[m])
    BY <1>9, <2>2, <2>3
  <2> QED BY <1>1, <1>4, <1>9, <2>4 DEF Whole, OnlyKept, AllOrdered, Ordered
<1>16. PICK h : h = head[k]
  OBVIOUS
<1>17. PICK src : src = Group[k]
  OBVIOUS
<1>18. \A x \in DOMAIN Group : files'[Group[x]] = files[Group[x]]
  BY <1>6, <1>9
<1>19. \A x \in DOMAIN Group : head'[x] \in 1 .. Len(files'[Group[x]]) + 1
  <2>1. h + 1 \in 1 .. Len(files[src]) + 1
    <3> DEFINE n == Len(files[src])
    <3>1. n \in Nat /\ h \in 1 .. n
      BY <1>6, <1>16, <1>17
    <3> HIDE DEF n
    <3>2. h + 1 \in 1 .. n + 1
      BY <3>1
    <3> QED BY <3>2 DEF n
  <2> QED BY <1>6, <1>11, <1>16, <1>17, <1>18, <2>1
<1>20. \A x \in InHeap' : rec <= First(x)'
  <2> SUFFICES ASSUME NEW x \in DOMAIN Group, head'[x] <= Len(files[Group[x]])
               PROVE  rec <= files[Group[x]][head'[x]]
    BY <1>4, <1>18 DEF InHeap, First
  <2>1. CASE x # k
    BY <1>1, <1>3, <1>11, <2>1 DEF InHeap, First
  <2>2. CASE x = k
    <3> DEFINE t == files[src]
    <3>1. t \in Seq(Records) /\ Ordered(t) /\ h \in DOMAIN t /\ t[h] = rec /\ h + 1 <= Len(t)
      BY <1>1, <1>6, <1>11, <1>16, <1>17, <2>2 DEF Whole, AllOrdered
    <3> HIDE DEF t
    <3>2. h + 1 \in DOMAIN t /\ h < h + 1
      BY <3>1
    <3>3. rec <= t[h + 1]
      BY <3>1, <3>2 DEF Ordered
    <3> QED BY <1>11, <1>16, <1>17, <2>2, <3>3 DEF t
  <2> QED BY <2>1, <2>2
<1>21. \A m \in DOMAIN files'[out] : \A x \in InHeap' : files'[out][m] <= First(x)'
  <2> SUFFICES ASSUME NEW m \in 1 .. len + 1, NEW x \in InHeap'
               PROVE  Append(w, rec)[m] <= First(x)'
    BY <1>9, <1>10
  <2>1. First(x)' \in Records
    <3>1. x \in DOMAIN Group /\ head'[x] <= Len(files[Group[x]]) /\ First(x)' = files[Group[x]][head'[x]]
      BY <1>4, <1>18 DEF InHeap, First
    <3> DEFINE t == files[Group[x]]
    <3>2. t \in Seq(Records) /\ head'[x] \in 1 .. Len(t) + 1 /\ head'[x] <= Len(t)
      BY <1>6, <1>18, <1>19, <3>1
    <3> HIDE DEF t
    <3>3. t[head'[x]] \in Records
      BY <3>2
    <3> QED BY <3>1, <3>3 DEF t
  <2>2. Append(w, rec)[m] \in Records /\ Append(w, rec)[m] <= rec
    <3>1. rec <= rec
      BY <1>1, <1>6 DEF SortAssumption
    <3> QED BY <1>6, <1>10, <1>13, <1>14, <3>1
  <2>3. rec <= First(x)' /\ Records \subseteq Nat
    BY <1>1, <1>20 DEF SortAssumption
  <2>4. \A u, v, z \in Nat : u <= v /\ v <= z => u <= z
    OBVIOUS
  <2> QED BY <1>6, <2>1, <2>2, <2>3, <2>4
<1>22. ASSUME NEW r \in Records
       PROVE  /\ IsFiniteSet(Places(r, {Merged})') /\ IsFiniteSet(Read(r)')
              /\ Cardinality(Places(r, {Merged})') = Cardinality(Read(r)')
  <2>1. PICK P, R : P = Places(r, {Merged}) /\ R = Read(r)
    OBVIOUS
  <2>2. IsFiniteSet(P) /\ IsFiniteSet(R) /\ Cardinality(P) = Cardinality(R)
    BY <1>1, <2>1 DEF Whole, Merging
  <2>3. P = {out} \X {m \in 1 .. len : w[m] = r}
    BY <1>2, <1>7, <1>10, <2>1 DEF Places
  <2>4. Places(r, {Merged})' = {out} \X {m \in 1 .. len + 1 : Append(w, rec)[m] = r}
    BY <1>2, <1>4, <1>9, <1>10 DEF Places
  <2>5. Places(r, {Merged})' = IF rec = r THEN P \cup {<<out, len + 1>>} ELSE P
    <3>1. {m \in 1 .. len + 1 : Append(w, rec)[m] = r}
            = {m \in 1 .. len : w[m] = r} \cup (IF rec = r THEN {len + 1} ELSE {})
      BY <1>10, <1>14
    <3> DEFINE A == {m \in 1 .. len : w[m] = r}
               B == {m \in 1 .. len + 1 : Append(w, rec)[m] = r}
    <3>2. P = {out} \X A /\ Places(r, {Merged})' = {out} \X B
      BY <2>3, <2>4
    <3>3. B = A \cup (IF rec = r THEN {len + 1} ELSE {})
      BY <3>1
    <3> HIDE DEF A, B
    <3> QED BY <3>2, <3>3
  <2>6. /\ R = UNION {{Group[x]} \X {m \in 1 .. head[x] - 1 : files[Group[x]][m] = r} : x \in DOMAIN Group}
        /\ Read(r)' = UNION {{Group[x]} \X {m \in 1 .. head'[x] - 1 : files[Group[x]][m] = r} : x \in DOMAIN Group}
    BY <1>4, <1>18, <2>1 DEF Read
  <2>7. Read(r)' = IF rec = r THEN R \cup {<<src, h>>} ELSE R
    <3>1. h \in Nat \ {0}
      BY <1>6, <1>16
    <3>2. \A m : m \in 1 .. head'[k] - 1 <=> m \in 1 .. head[k] - 1 \/ m = h
      BY <1>11, <1>16, <3>1
    <3>3. \A a \in R : \E x \in DOMAIN Group : \E m \in 1 .. head[x] - 1 :
             a = <<Group[x], m>> /\ files[Group[x]][m] = r
      BY <2>6
    <3>4. \A x \in DOMAIN Group : \A m \in 1 .. head[x] - 1 :
             files[Group[x]][m] = r => <<Group[x], m>> \in R
      BY <2>6
    <3>5. \A a \in Read(r)' : \E x \in DOMAIN Group : \E m \in 1 .. head'[x] - 1 :
             a = <<Group[x], m>> /\ files[Group[x]][m] = r
      BY <2>6
    <3>6. \A x \in DOMAIN Group : \A m \in 1 .. head'[x] - 1 :
             files[Group[x]][m] = r => <<Group[x], m>> \in Read(r)'
      BY <2>6
    <3>7. ASSUME NEW a \in R PROVE a \in Read(r)'
      <4>0. PICK x \in DOMAIN Group :
              \E m \in 1 .. head[x] - 1 : a = <<Group[x], m>> /\ files[Group[x]][m] = r
        BY <3>3
      <4>1. PICK m \in 1 .. head[x] - 1 : a = <<Group[x], m>> /\ files[Group[x]][m] = r
        BY <4>0
      <4>2. m \in 1 .. head'[x] - 1
        BY <1>11, <3>2
      <4> QED BY <3>6, <4>1, <4>2
    <3>8. ASSUME NEW a \in Read(r)' PROVE a \in R \/ (rec = r /\ a = <<src, h>>)
      <4>0. PICK x \in DOMAIN Group :
              \E m \in 1 .. head'[x] - 1 : a = <<Group[x], m>> /\ files[Group[x]][m] = r
        BY <3>5
      <4>1. PICK m \in 1 .. head'[x] - 1 : a = <<Group[x], m>> /\ files[Group[x]][m] = r
        BY <4>0
      <4>2. CASE m \in 1 .. head[x] - 1
        BY <3>4, <4>1, <4>2
      <4>3. CASE m \notin 1 .. head[x] - 1
        <5>1. x = k /\ m = h
          BY <1>11, <3>2, <4>3
        <5> QED BY <1>6, <1>16, <1>17, <4>1, <5>1
      <4> QED BY <4>2, <4>3
    <3>9. rec = r => <<src, h>> \in Read(r)'
      BY <1>6, <1>16, <1>17, <3>2, <3>6
    <3> QED BY <3>7, <3>8, <3>9
  <2>8. <<out, len + 1>> \notin P
    <3>1. len + 1 \notin 1 .. len
      OBVIOUS
    <3> QED BY <2>3, <3>1
  <2>9. <<src, h>> \notin R
    <3> SUFFICES ASSUME NEW x \in DOMAIN Group, NEW m \in 1 .. head[x] - 1, <<src, h>> = <<Group[x], m>>
                 PROVE  FALSE
      BY <2>6
    <3>1. x = k /\ m = h
      BY <1>5, <1>6, <1>17
    <3>2. head[k] \in Nat
      BY <1>6
    <3> QED BY <1>16, <3>1, <3>2
  <2>10. CASE rec = r
    <3>1. IsFiniteSet(P \cup {<<out, len + 1>>}) /\ IsFiniteSet(R \cup {<<src, h>>})
      BY <2>2, FS_AddElement
    <3>2. Cardinality(P \cup {<<out, len + 1>>}) = Cardinality(P) + 1
      BY <2>2, <2>8, FS_AddElement
    <3>3. Cardinality(R \cup {<<src, h>>}) = Cardinality(R) + 1
      BY <2>2, <2>9, FS_AddElement
    <3> QED BY <2>2, <2>5, <2>7, <2>10, <3>1, <3>2, <3>3
  <2>11. CASE rec # r
    BY <2>2, <2>5, <2>7, <2>11
  <2> QED BY <2>10, <2>11
<1>23. Merging'
  BY <1>2, <1>4, <1>19, <1>21, <1>22 DEF Merging
<1>24. Finite' /\ NoneLost'
  <2>1. PICK K : K = Kept
    OBVIOUS
  <2>2. \A r : Places(r, K)' = Places(r, K)
    BY <1>9, <2>1, PlacesStay
  <2>3. \A r : Places(r, Kept)' = Places(r, Kept)
    BY <1>4, <2>1, <2>2 DEF Places
  <2> QED BY <1>1, <1>4, <1>9, <2>3 DEF Whole, Finite, NoneLost
<1> QED BY <1>12, <1>15, <1>23, <1>24 DEF Whole

\* The new file has the records of the group, and takes its place.
LEMMA EndMergeWhole ==
  ASSUME SortInv, EndMerge
  PROVE  Whole'
<1>1. /\ SortTypeOK /\ SortAssumption /\ Whole /\ result = "running" /\ stage = "merge"
      /\ stage' = "group" /\ from < Len(runs) /\ InHeap = {}
      /\ files' = Removed({Group[k] : k \in DOMAIN Group})
      /\ next' = Append(next, Merged) /\ from' = from + FanIn
      /\ UNCHANGED <<input, taken, runs, pass>>
  BY MergeFacts DEF EndMerge, SortInv
<1>2. PICK out : out = Merged
  OBVIOUS
<1>3. PICK G : G = Names0
  OBVIOUS
<1>4. PICK K : K = Kept
  OBVIOUS
<1>5. PICK q \in Nat : q = Len(next)
  BY <1>1 DEF SortTypeOK
<1>6. /\ G \subseteq K /\ out \notin K
      /\ K \ G = {runs[k] : k \in from + FanIn + 1 .. Len(runs)} \cup {next[k] : k \in DOMAIN next}
      /\ \A k, m \in DOMAIN Group : Group[k] = Group[m] => k = m
  BY <1>1, <1>2, <1>3, <1>4, GroupFacts
<1>7. /\ DOMAIN next = 1 .. q /\ DOMAIN next' = 1 .. q + 1 /\ Len(next') = q + 1
      /\ next'[q + 1] = out /\ \A k \in 1 .. q : next'[k] = next[k]
  BY <1>1, <1>2, <1>5 DEF SortTypeOK
<1>8. /\ \A k \in 1 .. q + 1 : k \in 1 .. q \/ k = q + 1
      /\ q + 1 \in 1 .. q + 1 /\ \A k \in 1 .. q : k \in 1 .. q + 1
  OBVIOUS
<1>9. Kept' = (K \ G) \cup {out}
  <2>1. Kept' = {runs[k] : k \in from + FanIn + 1 .. Len(runs)} \cup {next'[k] : k \in 1 .. q + 1}
    BY <1>1, <1>7 DEF Kept
  <2>2. {next'[k] : k \in 1 .. q + 1} = {next[k] : k \in 1 .. q} \cup {out}
    BY <1>7, <1>8
  <2> QED BY <1>6, <1>7, <2>1, <2>2
<1>10. DOMAIN files = K \cup {out}
  BY <1>1, <1>2, <1>4 DEF Whole, OnlyKept
<1>11. /\ DOMAIN files' = (K \ G) \cup {out}
       /\ \A m \in DOMAIN files' : files'[m] = files[m]
  <2>1. {Group[k] : k \in DOMAIN Group} = G
    BY <1>3 DEF Names0
  <2>2. files' = [m \in DOMAIN files \ G |-> files[m]]
    BY <1>1, <2>1 DEF Removed, Restrict
  <2> QED BY <1>6, <1>10, <2>2
<1>12. Named'
  <2>1. \A k \in from' + 1 .. Len(runs') : k \in from + FanIn + 1 .. Len(runs) /\ k \in from + 1 .. Len(runs)
    BY <1>1 DEF SortTypeOK, SortAssumption
  <2>2. \A k \in from' + 1 .. Len(runs') : runs[k] \in K
    BY <1>4, <2>1 DEF Kept
  <2>3. \A k \in from' + 1 .. Len(runs') : \A m \in 1 .. q + 1 : runs[k] # next'[m]
    BY <1>1, <1>6, <1>7, <1>8, <2>1, <2>2 DEF Whole, Named
  <2>4. \A m \in 1 .. q : next[m] # out
    BY <1>4, <1>6, <1>7 DEF Kept
  <2>5. \A k, m \in 1 .. q + 1 : next'[k] = next'[m] => k = m
    <3>1. \A k, m \in 1 .. q : next[k] = next[m] => k = m
      BY <1>1, <1>7 DEF Whole, Named
    <3> QED BY <1>7, <1>8, <2>4, <3>1
  <2>6. \A k \in 1 .. q + 1 : next'[k][1] < pass \/ (next'[k][1] = pass /\ next'[k][2] < q + 1)
    <3>1. \A k \in 1 .. q : next[k][1] < pass \/ (next[k][1] = pass /\ next[k][2] < q)
      BY <1>1, <1>5, <1>7 DEF Whole, Named
    <3>2. \A k \in 1 .. q : next[k][2] \in Nat
      BY <1>1, <1>7 DEF SortTypeOK, Names
    <3>3. \A x \in Nat : x < q => x < q + 1
      OBVIOUS
    <3>4. \A k \in 1 .. q : next[k][2] < q => next[k][2] < q + 1
      BY <3>2, <3>3
    <3>5. out[1] = pass /\ out[2] = q /\ q < q + 1
      BY <1>2, <1>5 DEF Merged
    <3> QED BY <1>7, <1>8, <3>1, <3>4, <3>5
  <2>7. /\ \A k \in DOMAIN runs' : runs'[k][1] < pass'
        /\ \A k, m \in DOMAIN runs' : runs'[k] = runs'[m] => k = m
        /\ stage' # "spill"
    BY <1>1 DEF Whole, Named
  <2> QED BY <1>1, <1>7, <2>3, <2>5, <2>6, <2>7 DEF Named
<1>13. OnlyKept' /\ AllOrdered' /\ Merging'
  <2>1. DOMAIN files' \subseteq DOMAIN files
    BY <1>10, <1>11
  <2>2. \A m \in DOMAIN files' : Ordered(files'[m])
    BY <1>1, <1>11, <2>1 DEF Whole, AllOrdered
  <2> QED BY <1>1, <1>9, <1>11, <2>2 DEF OnlyKept, AllOrdered, Merging, Ordered
<1>14. ASSUME NEW r \in Records
       PROVE  /\ IsFiniteSet(Places(r, Kept)')
              /\ Cardinality(Places(r, Kept)') = Cardinality({k \in 1 .. taken : input[k] = r})
  <2>1. Read(r) = Places(r, G)
    <3>1. \A k \in DOMAIN Group : 1 .. head[k] - 1 = DOMAIN files[Group[k]]
      <4> SUFFICES ASSUME NEW k \in DOMAIN Group PROVE 1 .. head[k] - 1 = DOMAIN files[Group[k]]
        OBVIOUS
      <4>1. PICK s : s = files[Group[k]]
        OBVIOUS
      <4>2. s \in Seq(Records) /\ head[k] \in 1 .. Len(s) + 1
        BY <1>1, <4>1, MergeFacts
      <4>3. ~(head[k] <= Len(s))
        BY <1>1, <4>1 DEF InHeap
      <4>4. Len(s) \in Nat /\ DOMAIN s = 1 .. Len(s)
        BY <4>2
      <4>5. head[k] - 1 = Len(s)
        BY <4>2, <4>3, <4>4
      <4> QED BY <4>1, <4>4, <4>5
    <3>2. Read(r) = UNION {{Group[k]} \X {m \in DOMAIN files[Group[k]] : files[Group[k]][m] = r} : k \in DOMAIN Group}
      <4>1. \A k \in DOMAIN Group :
              {m \in 1 .. head[k] - 1 : files[Group[k]][m] = r}
                = {m \in DOMAIN files[Group[k]] : files[Group[k]][m] = r}
        BY <3>1
      <4>2. \A k \in DOMAIN Group :
              {Group[k]} \X {m \in 1 .. head[k] - 1 : files[Group[k]][m] = r}
                = {Group[k]} \X {m \in DOMAIN files[Group[k]] : files[Group[k]][m] = r}
        BY <4>1
      <4> QED BY <4>2 DEF Read
    <3>3. G = {Group[k] : k \in DOMAIN Group}
      BY <1>3 DEF Names0
    <3> QED BY <3>2, <3>3 DEF Places
  <2>2. /\ IsFiniteSet(Places(r, {out})) /\ IsFiniteSet(Places(r, G))
        /\ Cardinality(Places(r, {out})) = Cardinality(Places(r, G))
    BY <1>1, <1>2, <2>1 DEF Whole, Merging
  <2>3. /\ IsFiniteSet(Places(r, K))
        /\ Cardinality(Places(r, K)) = Cardinality({k \in 1 .. taken : input[k] = r})
    BY <1>1, <1>4 DEF Whole, Finite, NoneLost
  <2>4. /\ Places(r, K) = Places(r, K \ G) \cup Places(r, G)
        /\ Places(r, K \ G) \cap Places(r, G) = {}
    <3>1. (K \ G) \cap G = {} /\ (K \ G) \cup G = K
      BY <1>6
    <3>2. PICK R : R = K \ G
      OBVIOUS
    <3>3. /\ Places(r, R \cup G) = Places(r, R) \cup Places(r, G)
          /\ Places(r, R) \cap Places(r, G) = {}
      BY <3>1, <3>2, PlacesOfBoth
    <3>4. R \cup G = K
      BY <3>1, <3>2
    <3> QED BY <3>2, <3>3, <3>4
  <2>5. /\ Places(r, Kept)' = Places(r, K \ G) \cup Places(r, {out})
        /\ Places(r, K \ G) \cap Places(r, {out}) = {}
    <3>1. PICK R : R = K \ G
      OBVIOUS
    <3>2. R \cap {out} = {}
      BY <1>6, <3>1
    <3>3. \A m \in R \cup {out} : files'[m] = files[m]
      BY <1>11, <3>1
    <3>4. Places(r, R \cup {out})' = Places(r, R \cup {out})
      BY <3>3, PlacesStay
    <3>5. Places(r, Kept)' = Places(r, R \cup {out})'
      BY <1>9, <3>1 DEF Places
    <3>6. /\ Places(r, R \cup {out}) = Places(r, R) \cup Places(r, {out})
          /\ Places(r, R) \cap Places(r, {out}) = {}
      BY <3>2, PlacesOfBoth
    <3> QED BY <3>1, <3>4, <3>5, <3>6
  <2>6. PICK A, B, C : A = Places(r, K \ G) /\ B = Places(r, G) /\ C = Places(r, {out})
    OBVIOUS
  <2>7. IsFiniteSet(A)
    BY <2>3, <2>4, <2>6, FS_Subset
  <2>8. Cardinality(A \cup B) = Cardinality(A) + Cardinality(B)
    BY <2>2, <2>4, <2>6, <2>7, CardBoth
  <2>9. IsFiniteSet(A \cup C) /\ Cardinality(A \cup C) = Cardinality(A) + Cardinality(C)
    BY <2>2, <2>5, <2>6, <2>7, CardBoth
  <2> QED BY <2>2, <2>3, <2>4, <2>5, <2>6, <2>8, <2>9
<1>15. Finite' /\ NoneLost'
  BY <1>1, <1>9, <1>11, <1>14 DEF Finite, NoneLost
<1> QED BY <1>12, <1>13, <1>15 DEF Whole

(***************************************************************************)
(* Every step.                                                             *)
(***************************************************************************)

\* Every step of the sort keeps the invariant.
LEMMA SortKeeps == SortInv /\ [SortNext]_sortVars => SortInv'
<1> SUFFICES ASSUME SortInv, [SortNext]_sortVars PROVE SortInv'
  OBVIOUS
<1>1. SortTypeOK' /\ Stages' /\ SortAssumption
  BY SortTypes, SortStages DEF SortInv
<1>2. Stages
  BY DEF SortInv
<1>3. ASSUME result' \in {"running", "ok"} PROVE Whole'
  <2>1. CASE SortStops \/ SortBreaks
    BY <1>3, <2>1 DEF SortStops, SortBreaks, Fail
  <2>2. CASE Cancel \/ UNCHANGED sortVars
    <3>1. Whole /\ UNCHANGED <<input, files, taken, runs, next, from, pass, head>> /\ stage' = stage
      BY <1>3, <2>2 DEF Cancel, sortVars, SortInv
    <3> QED BY <3>1, IdleSort
  <2>3. CASE Spilled \/ SortReturns
    <3>1. Whole /\ UNCHANGED <<input, files, taken, runs, next, from, pass, head>>
      BY <1>2, <2>3 DEF Spilled, SortReturns, SortInv, Stages
    <3>2. stage # "merge" /\ stage' \in {"group", "over"}
      BY <2>3 DEF Spilled, SortReturns
    <3> QED BY <3>1, <3>2, IdleSort
  <2>4. CASE SortEmpty
    BY <2>4, EmptyWhole
  <2>5. CASE WriteRun
    BY <2>5, RunWhole
  <2>6. CASE CarryOne
    BY <2>6, CarryWhole
  <2>7. CASE BeginMerge
    BY <2>7, BeginWhole
  <2>8. CASE \E k \in 1 .. FanIn : MergeOne(k)
    BY <2>8, MergeWhole
  <2>9. CASE EndMerge
    BY <2>9, EndMergeWhole
  <2>10. CASE EndPass
    BY <2>10, PassWhole
  <2> QED
    BY <2>1, <2>2, <2>3, <2>4, <2>5, <2>6, <2>7, <2>8, <2>9, <2>10 DEF SortNext, SortWork
<1> QED BY <1>1, <1>3 DEF SortInv

\* When the sort is over, the one file left is the result.
LEMMA SortInvSuffices == SortInv => SortKeepsRecords
<1> SUFFICES ASSUME SortInv PROVE SortKeepsRecords
  OBVIOUS
<1>1. SortTypeOK /\ Stages /\ (result \in {"running", "ok"} => Whole)
  BY DEF SortInv
<1>2. ASSUME result = "ok"
      PROVE  taken = Len(input) /\ DOMAIN files = {runs[1]} /\ Ordered(files[runs[1]])
  <2>1. taken = Len(input) /\ Len(runs) = 1 /\ from = 0 /\ next = <<>> /\ stage = "over"
    BY <1>1, <1>2 DEF Stages, SortTypeOK
  <2>2. from + 1 .. Len(runs) = {1} /\ DOMAIN next = {}
    BY <2>1
  <2>3. Kept = {runs[1]}
    BY <2>2 DEF Kept
  <2>4. DOMAIN files = {runs[1]}
    BY <1>1, <1>2, <2>1, <2>3 DEF Whole, OnlyKept
  <2> QED BY <1>1, <1>2, <2>1, <2>4 DEF Whole, AllOrdered
<1> QED BY <1>1, <1>2 DEF SortKeepsRecords, Whole, Stages

\* A sort that succeeds gives every record of its partition once for each time it is
\* there, in order, whatever the chunks and the fan-in (sort.go:20-81).
THEOREM RecordsKept == SortSpec => []SortKeepsRecords
BY SortConstants, SortBegins, SortKeeps, SortInvSuffices, PTL DEF SortSpec

(***************************************************************************)
(* The file and the sort of a partition.                                   *)
(***************************************************************************)

\* Between a file and the comparison no row is lost or invented: partitioning counts
\* the rows of the file, and a sort that succeeds gives the records of its partition,
\* in order (partition.go:250-390, sort.go:20-81).
THEOREM NothingIsLost == BothSpec => []NothingLost
<1>1. BothSpec => Spec
  <2>1. BothInit => Init
    BY DEF BothInit
  <2>2. [BothNext]_bothVars => [Next]_vars
    BY DEF BothNext, SplitStep, SortStep, bothVars
  <2> QED BY <2>1, <2>2, PTL DEF BothSpec, Spec
<1>2. BothSpec => SortSpec
  <2>1. BothInit => SortInit
    BY DEF BothInit
  <2>2. [BothNext]_bothVars => [SortNext]_sortVars
    BY DEF BothNext, SplitStep, SortStep, bothVars
  <2> QED BY <2>1, <2>2, PTL DEF BothSpec, SortSpec
<1>3. IInv /\ CountsRight => RowsCounted
  BY Counted
<1> QED BY <1>1, <1>2, <1>3, CountInvariant, RecordsKept, PTL DEF NothingLost
===============================================================================
