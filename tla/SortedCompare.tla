---------------------------- MODULE SortedCompare ----------------------------
(***************************************************************************)
(* internal/engine/compare.go: two sorted files are merged by key, and the *)
(* rows of a key that both have are paired or reported.                    *)
(*                                                                         *)
(* Without comparison options the rows of a key are merged as they are     *)
(* ("stream").  With options, or to name the cells that differ, the rows   *)
(* of the key are collected: equivalence is transitive without a numeric   *)
(* tolerance ("exact"), and the rows cancel; with one it is not            *)
(* ("tolerant"), and a largest set of pairs is found by augmenting paths.  *)
(*                                                                         *)
(* A record is its key and the rest of its row, numbered in the order in   *)
(* which they sort.  Which rest is equivalent to which is a relation: any  *)
(* reflexive and symmetric one comes from some columns with tolerances.    *)
(* Left out: the text of the output, which of the unpaired rows are shown  *)
(* as one change, and what a merge chooses.  A loop without a choice in it *)
(* is one step.                                                            *)
(***************************************************************************)
EXTENDS Integers, Sequences, FiniteSets

CONSTANTS
  Keys,         \* the keys, in their order
  Rows,         \* the rests of the rows, in their order
  Records,      \* the records there may be
  Tolerances,   \* what some tolerances make equivalent: relations on Rows
  MaxRows       \* bound: the rows of a file

Identity == {<<x, x>> : x \in Rows}

ASSUME CompareAssumption ==
  /\ Keys \subseteq Int
  /\ Rows \subseteq Int
  /\ Records \subseteq [key : Keys, row : Rows]
  /\ \A R \in Tolerances :
       /\ R \subseteq Rows \X Rows
       /\ Identity \subseteq R
       /\ \A a \in R : <<a[2], a[1]>> \in R
  /\ MaxRows \in Nat

VARIABLES
  left, right,  \* the files
  mode,         \* "stream", "exact" or "tolerant"
  alike,        \* the pairs of rests the options make equivalent
  pc,           \* where the comparison is
  i, j,         \* the cursors
  gi, gj,       \* where the current key begins in the files
  equal,        \* the pairs of rows found equal
  onlyLeft, onlyRight,        \* the rows reported as LEFT_ONLY, RIGHT_ONLY
  changedLeft, changedRight,  \* the rows reported as CHANGED
  stats,        \* the counters of partitionStats
  root,         \* the row of the group to be paired next
  queue,        \* the left rows to look from
  seenRight,    \* the right rows reached
  fromLeft,     \* fromLeft[r]: the left row r was reached from
  hole          \* the right row that is to get a new partner

inputs == <<left, right, mode, alike>>
search == <<root, queue, seenRight, fromLeft, hole>>
report == <<onlyLeft, onlyRight, changedLeft, changedRight>>
vars == <<inputs, pc, i, j, gi, gj, equal, report, stats, search>>

Modes == {"stream", "exact", "tolerant"}
Counters == {"EqualRows", "LeftOnly", "RightOnly", "ChangedLeft", "ChangedRight", "DiffRows"}

LeftPos == 1 .. Len(left)
RightPos == 1 .. Len(right)

\* The files come out of the external sort by key, then by row.
Sorted(s) ==
  \A p \in 1 .. Len(s) : \A q \in 1 .. Len(s) : p < q =>
    \/ s[p].key < s[q].key
    \/ s[p].key = s[q].key /\ s[p].row <= s[q].row

Files == {s \in UNION {[1 .. n -> Records] : n \in 0 .. MaxRows} : Sorted(s)}

\* What normalization makes equivalent.
Normalizations ==
  {R \in Tolerances : \A a \in R : \A b \in R : a[2] = b[1] => <<a[1], b[2]>> \in R}

\* Only what the files hold can matter.
Rests == {left[p].row : p \in LeftPos} \cup {right[q].row : q \in RightPos}

Init ==
  /\ left \in Files
  /\ right \in Files
  /\ \/ mode = "stream" /\ alike = Identity
     \/ mode = "exact" /\ alike \in Normalizations
     \/ mode = "tolerant" /\ alike \in Tolerances
  /\ alike \subseteq Identity \cup (Rests \X Rests)
  /\ pc = "merge"
  /\ i = 1 /\ j = 1
  /\ gi = 1 /\ gj = 1
  /\ equal = {}
  /\ onlyLeft = {} /\ onlyRight = {}
  /\ changedLeft = {} /\ changedRight = {}
  /\ stats = [c \in Counters |-> 0]
  /\ root = 1
  /\ queue = {}
  /\ seenRight = {}
  /\ fromLeft = [r \in RightPos |-> 0]
  /\ hole = 0

\* The rows of s from p on have key k up to q, and not further.
RunEnds(s, p, k, q) ==
  /\ \A x \in p .. q - 1 : s[x].key = k
  /\ q <= Len(s) => s[q].key # k

\* The counters of report c grow by n, each row also counts as a difference.
Count(c, n) == [stats EXCEPT ![c] = @ + n, !["DiffRows"] = @ + n]

Matched(l) == \E a \in equal : a[1] = l
Taken(r) == \E a \in equal : a[2] = r

GroupLeft == gi .. i - 1
GroupRight == gj .. j - 1
Alike(l, r) == <<left[l].row, right[r].row>> \in alike

\* Every right row that l is equivalent to and no path has reached.
Fresh(l) == {r \in GroupRight \ seenRight : Alike(l, r)}

-------------------------------------------------------------------------------
\* Faulty: the right file is flushed while its key is the larger one.
FlushLeftWrongSide ==
  /\ pc = "merge"
  /\ i <= Len(left)
  /\ j <= Len(right) => left[i].key > right[j].key
  /\ \E q \in i + 1 .. Len(left) + 1 :
       /\ RunEnds(left, i, left[i].key, q)
       /\ i' = q
       /\ onlyLeft' = onlyLeft \cup i .. q - 1
       /\ stats' = Count("LeftOnly", q - i)
  /\ UNCHANGED <<inputs, pc, j, gi, gj, equal, onlyRight, changedLeft, changedRight, search>>

\* The smaller key is only in the left file.
FlushLeft ==
  /\ pc = "merge"
  /\ i <= Len(left)
  /\ j <= Len(right) => left[i].key < right[j].key
  /\ \E q \in i + 1 .. Len(left) + 1 :
       /\ RunEnds(left, i, left[i].key, q)
       /\ i' = q
       /\ onlyLeft' = onlyLeft \cup i .. q - 1
       /\ stats' = Count("LeftOnly", q - i)
  /\ UNCHANGED <<inputs, pc, j, gi, gj, equal, onlyRight, changedLeft, changedRight, search>>

FlushRight ==
  /\ pc = "merge"
  /\ j <= Len(right)
  /\ i <= Len(left) => right[j].key < left[i].key
  /\ \E q \in j + 1 .. Len(right) + 1 :
       /\ RunEnds(right, j, right[j].key, q)
       /\ j' = q
       /\ onlyRight' = onlyRight \cup j .. q - 1
       /\ stats' = Count("RightOnly", q - j)
  /\ UNCHANGED <<inputs, pc, i, gi, gj, equal, onlyLeft, changedLeft, changedRight, search>>

SameKey == i <= Len(left) /\ j <= Len(right) /\ left[i].key = right[j].key

\* captureKey: the rows of this key are merged as they are ...
StartStream ==
  /\ pc = "merge"
  /\ mode = "stream"
  /\ SameKey
  /\ pc' = "stream"
  /\ gi' = i /\ gj' = j
  /\ UNCHANGED <<inputs, i, j, equal, report, stats, search>>

\* ... or collected: readGroup on both sides.
ReadGroups ==
  /\ pc = "merge"
  /\ mode # "stream"
  /\ SameKey
  /\ pc' = IF mode = "exact" THEN "exact" ELSE "root"
  /\ gi' = i /\ gj' = j
  /\ root' = i
  /\ \E q \in i + 1 .. Len(left) + 1 : RunEnds(left, i, left[i].key, q) /\ i' = q
  /\ \E q \in j + 1 .. Len(right) + 1 : RunEnds(right, j, right[j].key, q) /\ j' = q
  /\ UNCHANGED <<inputs, equal, report, stats, queue, seenRight, fromLeft, hole>>

-------------------------------------------------------------------------------
Key == left[gi].key
InKey == /\ i <= Len(left) /\ left[i].key = Key
         /\ j <= Len(right) /\ right[j].key = Key

\* Faulty: the order of the rows is not looked at.
StreamLeftEager ==
  /\ pc = "stream"
  /\ InKey
  /\ left[i].row # right[j].row
  /\ changedLeft' = changedLeft \cup {i}
  /\ stats' = Count("ChangedLeft", 1)
  /\ i' = i + 1
  /\ UNCHANGED <<inputs, pc, j, gi, gj, equal, onlyLeft, onlyRight, changedRight, search>>

StreamLeft ==
  /\ pc = "stream"
  /\ InKey
  /\ left[i].row < right[j].row
  /\ changedLeft' = changedLeft \cup {i}
  /\ stats' = Count("ChangedLeft", 1)
  /\ i' = i + 1
  /\ UNCHANGED <<inputs, pc, j, gi, gj, equal, onlyLeft, onlyRight, changedRight, search>>

StreamRight ==
  /\ pc = "stream"
  /\ InKey
  /\ right[j].row < left[i].row
  /\ changedRight' = changedRight \cup {j}
  /\ stats' = Count("ChangedRight", 1)
  /\ j' = j + 1
  /\ UNCHANGED <<inputs, pc, i, gi, gj, equal, onlyLeft, onlyRight, changedLeft, search>>

StreamEqual ==
  /\ pc = "stream"
  /\ InKey
  /\ left[i].row = right[j].row
  /\ equal' = equal \cup {<<i, j>>}
  /\ stats' = [stats EXCEPT !["EqualRows"] = @ + 1]
  /\ i' = i + 1
  /\ j' = j + 1
  /\ UNCHANGED <<inputs, pc, gi, gj, report, search>>

\* One file has no more rows of the key; flushKey for both.
StreamEnd ==
  /\ pc = "stream"
  /\ ~InKey
  /\ \E p \in i .. Len(left) + 1, q \in j .. Len(right) + 1 :
       /\ RunEnds(left, i, Key, p)
       /\ RunEnds(right, j, Key, q)
       /\ i' = p
       /\ j' = q
       /\ changedLeft' = changedLeft \cup i .. p - 1
       /\ changedRight' = changedRight \cup j .. q - 1
       /\ stats' = [stats EXCEPT !["ChangedLeft"] = @ + (p - i),
                                 !["ChangedRight"] = @ + (q - j),
                                 !["DiffRows"] = @ + (p - i) + (q - j)]
  /\ pc' = "merge"
  /\ UNCHANGED <<inputs, gi, gj, equal, onlyLeft, onlyRight, search>>

-------------------------------------------------------------------------------
\* Without a tolerance: root cancels against a right row of its class, if one
\* is left.  Which one makes no difference to the summary; the code takes the
\* last.
Cancel ==
  /\ pc = "exact"
  /\ root < i
  /\ \/ \E r \in GroupRight :
          /\ Alike(root, r)
          /\ ~Taken(r)
          /\ equal' = equal \cup {<<root, r>>}
          /\ stats' = [stats EXCEPT !["EqualRows"] = @ + 1]
     \/ /\ \A r \in GroupRight : Alike(root, r) => Taken(r)
        /\ UNCHANGED <<equal, stats>>
  /\ root' = root + 1
  /\ UNCHANGED <<inputs, pc, i, j, gi, gj, report, queue, seenRight, fromLeft, hole>>

\* With a tolerance: a search for a free right row, from root.
StartSearch ==
  /\ pc = "root"
  /\ root < i
  /\ pc' = "scan"
  /\ queue' = {root}
  /\ seenRight' = {}
  /\ UNCHANGED <<inputs, i, j, gi, gj, equal, report, stats, root, fromLeft, hole>>

\* A row of the queue reaches a free right row.  The code takes the rows in the
\* order they came and the first free one; any order finds one if there is one.
Found(l) ==
  /\ pc = "scan"
  /\ l \in queue
  /\ \E r \in Fresh(l) :
       /\ ~Taken(r)
       /\ seenRight' = seenRight \cup {r}
       /\ fromLeft' = [fromLeft EXCEPT ![r] = l]
       /\ hole' = r
  /\ pc' = "augment"
  /\ UNCHANGED <<inputs, i, j, gi, gj, equal, report, stats, root, queue>>

\* Faulty: the partners of the rows reached are not asked.
WidenNoFurther(l) ==
  /\ pc = "scan"
  /\ l \in queue
  /\ \A r \in Fresh(l) : Taken(r)
  /\ seenRight' = seenRight \cup Fresh(l)
  /\ fromLeft' = [r \in RightPos |-> IF r \in Fresh(l) THEN l ELSE fromLeft[r]]
  /\ queue' = queue \ {l}
  /\ UNCHANGED <<inputs, pc, i, j, gi, gj, equal, report, stats, root, hole>>

\* It reaches none; the partners of those it reaches are to look further.
Widen(l) ==
  /\ pc = "scan"
  /\ l \in queue
  /\ \A r \in Fresh(l) : Taken(r)
  /\ seenRight' = seenRight \cup Fresh(l)
  /\ fromLeft' = [r \in RightPos |-> IF r \in Fresh(l) THEN l ELSE fromLeft[r]]
  /\ queue' = (queue \ {l}) \cup {m \in GroupLeft : \E r \in Fresh(l) : <<m, r>> \in equal}
  /\ UNCHANGED <<inputs, pc, i, j, gi, gj, equal, report, stats, root, hole>>

\* No path from root: it stays without a partner.
GiveUp ==
  /\ pc = "scan"
  /\ queue = {}
  /\ pc' = "root"
  /\ root' = root + 1
  /\ UNCHANGED <<inputs, i, j, gi, gj, equal, report, stats, queue, seenRight, fromLeft, hole>>

\* Along the path, each left row gives up its partner for the next one ...
Shift ==
  /\ pc = "augment"
  /\ \E r \in GroupRight :
       /\ <<fromLeft[hole], r>> \in equal
       /\ equal' = (equal \ {<<fromLeft[hole], r>>}) \cup {<<fromLeft[hole], hole>>}
       /\ hole' = r
  /\ UNCHANGED <<inputs, pc, i, j, gi, gj, report, stats, root, queue, seenRight, fromLeft>>

\* ... down to root, which had none.
ShiftRoot ==
  /\ pc = "augment"
  /\ ~Matched(fromLeft[hole])
  /\ equal' = equal \cup {<<fromLeft[hole], hole>>}
  /\ stats' = [stats EXCEPT !["EqualRows"] = @ + 1]
  /\ pc' = "root"
  /\ root' = root + 1
  /\ UNCHANGED <<inputs, i, j, gi, gj, report, queue, seenRight, fromLeft, hole>>

\* Faulty: a right row without a partner is forgotten when the left file has none
\* to show it with.
ReportGroupPairsOnly ==
  /\ pc \in {"exact", "root"}
  /\ root = i
  /\ LET l == {p \in GroupLeft : ~Matched(p)}
         r == IF l = {} THEN {} ELSE {q \in GroupRight : ~Taken(q)}
     IN  /\ changedLeft' = changedLeft \cup l
         /\ changedRight' = changedRight \cup r
         /\ stats' = [stats EXCEPT !["ChangedLeft"] = @ + Cardinality(l),
                                   !["ChangedRight"] = @ + Cardinality(r),
                                   !["DiffRows"] = @ + Cardinality(l) + Cardinality(r)]
  /\ pc' = "merge"
  /\ UNCHANGED <<inputs, i, j, gi, gj, equal, onlyLeft, onlyRight, search>>

\* The rows of the group that have no partner are reported, alone or, to name
\* their cells, two by two.
ReportGroup ==
  /\ pc \in {"exact", "root"}
  /\ root = i
  /\ LET l == {p \in GroupLeft : ~Matched(p)}
         r == {q \in GroupRight : ~Taken(q)}
     IN  /\ changedLeft' = changedLeft \cup l
         /\ changedRight' = changedRight \cup r
         /\ stats' = [stats EXCEPT !["ChangedLeft"] = @ + Cardinality(l),
                                   !["ChangedRight"] = @ + Cardinality(r),
                                   !["DiffRows"] = @ + Cardinality(l) + Cardinality(r)]
  /\ pc' = "merge"
  /\ UNCHANGED <<inputs, i, j, gi, gj, equal, onlyLeft, onlyRight, search>>

-------------------------------------------------------------------------------
Finish ==
  /\ pc = "merge"
  /\ i > Len(left)
  /\ j > Len(right)
  /\ pc' = "ok"
  /\ UNCHANGED <<inputs, i, j, gi, gj, equal, report, stats, search>>

\* A file cannot be read or written, or the context is done.  The output is
\* removed, the locals are gone and the caller drops the counters.
Fail ==
  /\ pc \notin {"ok", "error"}
  /\ pc' = "error"
  /\ onlyLeft' = {} /\ onlyRight' = {} /\ changedLeft' = {} /\ changedRight' = {}
  /\ equal' = {}
  /\ stats' = [c \in Counters |-> 0]
  /\ i' = 1 /\ j' = 1 /\ gi' = 1 /\ gj' = 1
  /\ root' = 1
  /\ queue' = {} /\ seenRight' = {} /\ fromLeft' = [r \in RightPos |-> 0] /\ hole' = 0
  /\ UNCHANGED inputs

Next ==
  \/ FlushLeft \/ FlushRight \/ StartStream \/ ReadGroups
  \/ StreamLeft \/ StreamRight \/ StreamEqual \/ StreamEnd
  \/ Cancel \/ StartSearch \/ (\E l \in LeftPos : Found(l) \/ Widen(l)) \/ GiveUp
  \/ Shift \/ ShiftRoot \/ ReportGroup
  \/ Finish \/ Fail

Spec == Init /\ [][Next]_vars

-------------------------------------------------------------------------------
\* Success means that every row of both files got one verdict: paired, only on
\* its side, or changed.  At no time has a row two.
EveryRowOnce ==
  /\ pc = "ok" =>
       /\ \A p \in LeftPos : Matched(p) \/ p \in onlyLeft \cup changedLeft
       /\ \A q \in RightPos : Taken(q) \/ q \in onlyRight \cup changedRight
  /\ \A p \in onlyLeft \cup changedLeft : ~Matched(p)
  /\ \A q \in onlyRight \cup changedRight : ~Taken(q)
  /\ onlyLeft \cap changedLeft = {}
  /\ onlyRight \cap changedRight = {}

OneToOne(M) == \A a \in M : \A b \in M : a[1] = b[1] \/ a[2] = b[2] => a = b

\* At any time, half way along an augmenting path too, no row is in two pairs,
\* and the rows of a pair have one key and are equivalent.
PairsAreAlike ==
  /\ OneToOne(equal)
  /\ \A a \in equal : left[a[1]].key = right[a[2]].key /\ Alike(a[1], a[2])

\* LEFT_ONLY and RIGHT_ONLY mean that the other file does not have the key at
\* all, CHANGED that it does.
OnlyMeansAbsent ==
  /\ \A p \in onlyLeft : \A q \in RightPos : left[p].key # right[q].key
  /\ \A q \in onlyRight : \A p \in LeftPos : left[p].key # right[q].key
  /\ \A p \in changedLeft : \E q \in RightPos : left[p].key = right[q].key
  /\ \A q \in changedRight : \E p \in LeftPos : left[p].key = right[q].key

\* No two rows that could have been paired are both reported as changed.
NoPairMissed ==
  \A p \in changedLeft : \A q \in changedRight :
    left[p].key = right[q].key => ~Alike(p, q)

\* A choice of partners, 0 for none: what matchLeft could be.
IsMatching(f) ==
  \A p \in LeftPos : f[p] # 0 =>
    /\ left[p].key = right[f[p]].key
    /\ Alike(p, f[p])
    /\ \A q \in LeftPos : f[q] = f[p] => q = p

\* On success the number of equal rows is the largest possible: no other choice
\* of partners, for any tolerance, would have found more.
MostPairs ==
  pc = "ok" =>
    \A f \in [LeftPos -> RightPos \cup {0}] :
      IsMatching(f) => Cardinality({p \in LeftPos : f[p] # 0}) <= stats["EqualRows"]

\* On success the summary's counters add up to the rows of each file, and the
\* differences to the rows reported, whichever way a key was compared.
CountsAddUp ==
  pc = "ok" =>
    /\ stats["EqualRows"] + stats["LeftOnly"] + stats["ChangedLeft"] = Len(left)
    /\ stats["EqualRows"] + stats["RightOnly"] + stats["ChangedRight"] = Len(right)
    /\ stats["DiffRows"] = Cardinality(onlyLeft) + Cardinality(onlyRight)
                           + Cardinality(changedLeft) + Cardinality(changedRight)
===============================================================================
