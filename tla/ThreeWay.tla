------------------------------- MODULE ThreeWay -------------------------------
(***************************************************************************)
(* internal/threeway/text.go and internal/merge/text.go: what two texts    *)
(* have done to a third one, and the texts that choices make of a          *)
(* difference.  Without state, over LineDiff.                              *)
(*                                                                         *)
(* A three-way event holds the texts of its lines; the terminators are     *)
(* those of BASE when the merge is written (textfile), and are left out    *)
(* here.  Left out, too, are the origins and keys of merged lines and the  *)
(* lines the user typed over them.  A two-way merge copies terminators     *)
(* with their lines, and keeps them.                                       *)
(***************************************************************************)
EXTENDS LineDiff

Sides == {"left", "right"}

\* math.MaxInt: no hunk of a difference that is merged is left out.
Unlimited(o) == [o EXCEPT !.maxHunks = 1000000]

lineRange(lines, start, count) == block(lines, start, count)

\* The edits of one side, as places of BASE and what stands there instead.
edits(target, hunks, side) ==
  {[start |-> hunks[k].oldStart, end |-> hunks[k].oldStart + hunks[k].oldLen,
    lines |-> lineRange(target, hunks[k].newStart, hunks[k].newLen),
    side |-> side, nth |-> k] : k \in DOMAIN hunks}

\* The order they are taken in, stable within a side.
before(x, y) ==
  \/ x.start < y.start
  \/ x.start = y.start /\ x.end < y.end
  \/ x.start = y.start /\ x.end = y.end /\ x.side = "left" /\ y.side = "right"
  \/ x.start = y.start /\ x.end = y.end /\ x.side = y.side /\ x.nth < y.nth

\* Faulty: two insertions at one place are told apart.
overlapsInside(start, end, item) == item.start < end

overlaps(start, end, item) ==
  IF start = end THEN item.start = start ELSE item.start = start \/ item.start < end

\* Edits that overlap, directly or through others, are one event.
clusters(all) ==
  LET greatest(m, n) == IF m < n THEN n ELSE m
      alone(item) == [start |-> item.start, end |-> item.end, items |-> <<item>>]
      take(done, item) ==
        LET c == Last(done)
            wider == [c EXCEPT !.end = greatest(@, item.end), !.items = Append(@, item)]
        IN  IF done # <<>> /\ overlaps(c.start, c.end, item)
            THEN Append(Front(done), wider)
            ELSE Append(done, alone(item))
  IN  FoldLeft(take, <<>>, all)

\* BASE from start to end, with the changes of one side.
apply(base, start, end, changes) ==
  LET put(done, change) ==
        [lines |-> done.lines \o lineRange(base, done.cursor, change.start - done.cursor)
                     \o change.lines,
         cursor |-> change.end]
      done == FoldLeft(put, [lines |-> <<>>, cursor |-> start], changes)
  IN  done.lines \o lineRange(base, done.cursor, end - done.cursor)

kindOf(leftEdits, rightEdits, unchanged, left, right) ==
  CASE leftEdits = <<>> -> "right_only"
    [] rightEdits = <<>> -> "left_only"
    [] OTHER ->
         CASE left = right -> "same_change"
           [] left = unchanged /\ left # right -> "right_only"
           [] right = unchanged /\ left # right -> "left_only"
           [] OTHER -> "conflict"

event(base, c) ==
  LET of(side) == SelectSeq(c.items, LAMBDA item : item.side = side)
      unchanged == lineRange(base, c.start, c.end - c.start)
      left == apply(base, c.start, c.end, of("left"))
      right == apply(base, c.start, c.end, of("right"))
  IN  [kind |-> kindOf(of("left"), of("right"), unchanged, left, right),
       baseStart |-> c.start, baseLen |-> c.end - c.start,
       base |-> unchanged, left |-> left, right |-> right]

eventsOf(base, found) == [k \in DOMAIN found |-> event(base, found[k])]

Compare(base, left, right, o) ==
  LET hunks(target) == DiffWith(base, target, Unlimited(o)).hunks
      all == edits(left, hunks(left), "left") \cup edits(right, hunks(right), "right")
  IN  eventsOf(base, clusters(SetToSortSeq(all, before)))

--------------------------------------------------------------------------------
(* Merging.  A choice is the set of sides adopted; there is an order of    *)
(* them, whatever order they were named in.                                *)

inOrder(choice, order) == SelectSeq(order, LAMBDA side : side \in choice)

\* The lines "<<<<<<< LEFT", "||||||| BASE", the one between the sides, ">>>>>>> RIGHT".
marker(text) == [word |-> text, upper |-> FALSE, gap |-> 0, tag |-> FALSE]
Marker(text, ending) == [word |-> text, upper |-> FALSE, gap |-> 0, tag |-> FALSE, eol |-> ending]

\* The lines of a conflict that was not decided, in favour of target or in markers.
undecided(e, target) ==
  IF target = "markers"
  THEN <<marker("begin LEFT")>> \o e.left \o <<marker("begin BASE")>> \o e.base
         \o <<marker("begin RIGHT")>> \o e.right \o <<marker("end RIGHT")>>
  ELSE e[target]

eventLines(e, choice, target) ==
  LET adopted == inOrder(choice, <<"base", "left", "right">>)
  IN  CASE e.kind \in {"left_only", "same_change"} -> e.left
        [] e.kind = "right_only" -> e.right
        [] e.kind = "conflict" /\ adopted = <<>> -> undecided(e, target)
        [] OTHER -> FlattenSeq([k \in DOMAIN adopted |-> e[adopted[k]]])

\* BASE with lines[k] in the place of each event.
compose(base, events, lines) ==
  LET put(done, k) ==
        [text |-> done.text
                    \o lineRange(base, done.cursor, events[k].baseStart - done.cursor)
                    \o lines[k],
         cursor |-> events[k].baseStart + events[k].baseLen]
      done == FoldLeft(put, [text |-> <<>>, cursor |-> 0], [k \in DOMAIN events |-> k])
  IN  done.text \o lineRange(base, done.cursor, Len(base) - done.cursor)

MergeLines(base, events, choices, target) ==
  compose(base, events, [k \in DOMAIN events |-> eventLines(events[k], choices[k], target)])

--------------------------------------------------------------------------------
(* merge/text.go: the old text, with the side chosen for each hunk, line by *)
(* line with its terminator.                                                *)

writeRange(lines, start, count) == SubSeq(lines, start + 1, start + count)

\* The terminator of a line of the hunk that has one, the old text's first.
markerEnding(old, new, h) ==
  CASE h.oldLen > 0 /\ old[h.oldStart + 1].eol # "" -> old[h.oldStart + 1].eol
    [] h.newLen > 0 /\ new[h.newStart + 1].eol # "" -> new[h.newStart + 1].eol
    [] OTHER -> "lf"

writeUnresolved(old, new, h, target) ==
  LET left == writeRange(old, h.oldStart, h.oldLen)
      right == writeRange(new, h.newStart, h.newLen)
      ending == markerEnding(old, new, h)
  IN  CASE target = "left" -> left
        [] target = "right" -> right
        [] OTHER -> <<Marker("begin LEFT", ending)>> \o left \o <<Marker("begin RIGHT", ending)>>
                      \o right \o <<Marker("end RIGHT", ending)>>

writeHunk(old, new, h, choice, target) ==
  LET sides == inOrder(choice, <<"left", "right">>)
      of == [left |-> writeRange(old, h.oldStart, h.oldLen),
             right |-> writeRange(new, h.newStart, h.newLen)]
  IN  IF sides = <<>> THEN writeUnresolved(old, new, h, target)
      ELSE FlattenSeq([k \in DOMAIN sides |-> of[sides[k]]])

\* "merge hunks overlap": WriteText gives up.
overlapping(hunks) ==
  \E k \in DOMAIN hunks : k > 1 /\ hunks[k].oldStart < hunks[k - 1].oldStart + hunks[k - 1].oldLen

WriteText(old, new, hunks, choices, target) ==
  LET put(done, k) ==
        [lines |-> done.lines
                     \o writeRange(old, done.cursor, hunks[k].oldStart - done.cursor)
                     \o writeHunk(old, new, hunks[k], choices[k], target),
         cursor |-> hunks[k].oldStart + hunks[k].oldLen]
      done == FoldLeft(put, [lines |-> <<>>, cursor |-> 0], [k \in DOMAIN hunks |-> k])
  IN  done.lines \o writeRange(old, done.cursor, Len(old) - done.cursor)
===============================================================================
