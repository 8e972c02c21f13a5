------------------------------- MODULE LineDiff -------------------------------
(***************************************************************************)
(* internal/linediff: the difference of two texts, line by line, without   *)
(* state.  Diff walks both texts at once; where they differ it looks       *)
(* ahead, at most a window of lines, for the place where they agree again. *)
(* DetectMoves and IgnoreHunks work on what it found.                      *)
(*                                                                         *)
(* A line is a record: word, whether it is in upper case, its gap (0, 1 or *)
(* 2 spaces inside it), tag (what a line filter takes away) and eol (""    *)
(* only at the end of a text).  Positions begin with 0, as in the code.    *)
(* The caches of normalized lines and the size of the largest hunk are     *)
(* left out, and so are hashes: blocks are paired by what they hold.       *)
(***************************************************************************)
EXTENDS Naturals, Sequences, SequencesExt

\* Whitespace, from the least to the most that is ignored.
WSKeep == 0
WSChange == 1
WSAll == 2

collapse(gap, whitespace) ==
  CASE whitespace = WSAll -> 0
    [] whitespace = WSChange /\ gap = 2 -> 1
    [] OTHER -> gap

Text(line) ==
  [word |-> line.word, upper |-> line.upper, gap |-> line.gap, tag |-> line.tag]

\* What a line is to a comparison, for showing a dismissed difference, and for
\* finding the line it corresponds to.
downgradeNormalizer(o, line) ==
  [Text(line) EXCEPT !.gap = collapse(@, o.whitespace), !.upper = @ /\ ~o.ignoreCase]
normalizer(o, line) ==
  [downgradeNormalizer(o, line) EXCEPT !.tag = @ /\ ~o.lineFilter]
alignNormalizer(o, line) ==
  [normalizer(o, line) EXCEPT !.gap = collapse(@, o.alignWhitespace)]

\* Where a coarser view exists, each has one.
Aligns(o) == o.alignWhitespace > o.whitespace
Downgrades(o) == o.markDowngraded /\ (o.ignoreCase \/ o.whitespace # WSKeep)

--------------------------------------------------------------------------------
(* The lines at positions i and j; c holds both texts and the options. *)

Old(c, i) == c.old[i + 1]
New(c, j) == c.new[j + 1]
oldTotal(c) == Len(c.old)
newTotal(c) == Len(c.new)

\* A text that goes on has to end its former last line; that is not a difference.
sameEOL(c, i, j) ==
  LET oldEOL == Old(c, i).eol
      newEOL == New(c, j).eol
      oldLast == i + 1 = oldTotal(c)
      newLast == j + 1 = newTotal(c)
  IN  \/ c.o.ignoreEOL
      \/ oldEOL = newEOL
      \/ oldEOL = "" /\ oldLast /\ ~newLast
      \/ newEOL = "" /\ newLast /\ ~oldLast
      \/ c.o.ignoreTrailingEOL /\ oldLast /\ newLast /\ "" \in {oldEOL, newEOL}

equal(c, i, j) ==
  normalizer(c.o, Old(c, i)) = normalizer(c.o, New(c, j)) /\ sameEOL(c, i, j)

aligned(c, i, j) ==
  IF Aligns(c.o)
  THEN alignNormalizer(c.o, Old(c, i)) = alignNormalizer(c.o, New(c, j)) /\ sameEOL(c, i, j)
  ELSE equal(c, i, j)

--------------------------------------------------------------------------------
(* Hunks and the result that gathers them. *)

hunk(kind, oldStart, oldLen, newStart, newLen) ==
  [kind |-> kind, oldStart |-> oldStart, oldLen |-> oldLen, newStart |-> newStart,
   newLen |-> newLen, moveID |-> 0, movePeer |-> 0, downgraded |-> FALSE]

insertHunk(i, j, n) == hunk("insert", i, 0, j, n)
deleteHunk(i, j, n) == hunk("delete", i, n, j, 0)
replaceHunk(i, j, n) == hunk("replace", i, n, j, n)

least(m, n) == IF m < n THEN m ELSE n

\* What a hunk adds to the counters.
both(h) == IF h.kind = "replace" THEN least(h.oldLen, h.newLen) ELSE 0
adds(h) == h.newLen - both(h)
deletes(h) == h.oldLen - both(h)

NoHunks ==
  [hunks |-> <<>>, hunkCount |-> 0, omittedHunks |-> 0, added |-> 0, deleted |-> 0,
   modified |-> 0, downgradedHunks |-> 0, movedBlocks |-> 0, movedLines |-> 0,
   moveDetectionSkipped |-> FALSE, ignoredHunks |-> 0]

applyStats(res, h) ==
  [res EXCEPT !.added = @ + adds(h), !.deleted = @ + deletes(h), !.modified = @ + both(h)]

appendHunk(res, h, maxHunks) ==
  LET kept == IF Len(res.hunks) < maxHunks
              THEN [res EXCEPT !.hunks = Append(@, h)]
              ELSE [res EXCEPT !.omittedHunks = @ + 1]
  IN  IF h.downgraded
      THEN [kept EXCEPT !.downgradedHunks = @ + 1]
      ELSE applyStats([kept EXCEPT !.hunkCount = @ + 1], h)

--------------------------------------------------------------------------------
(* The walk.  w holds the positions, the run of dismissed pairs that is    *)
(* still growing (pending, if it has a length) and the result.             *)

Nothing == replaceHunk(0, 0, 0)

flushPending(c, w) ==
  IF w.pending.oldLen = 0 THEN w
  ELSE [w EXCEPT !.pending = Nothing, !.res = appendHunk(@, w.pending, c.o.maxHunks)]

\* The first place from here on, within the window, where the other text goes on.
clampEnd(start, window, total) == least(start + window, total)
findNew(c, i, j) ==
  {n \in j + 1 .. clampEnd(j + 1, c.o.window, newTotal(c)) - 1 : aligned(c, i, n)}
findOld(c, i, j) ==
  {n \in i + 1 .. clampEnd(i + 1, c.o.window, oldTotal(c)) - 1 : aligned(c, n, j)}
first(places) == CHOOSE n \in places : \A m \in places : n <= m

\* Where each text agrees again with the other one's line decides: the smaller edit, an
\* insertion if they are as large.
resync(i, j, insertions, deletions) ==
  CASE insertions # {} /\ (deletions # {} => first(insertions) - j <= first(deletions) - i) ->
         insertHunk(i, j, first(insertions) - j)
    [] deletions # {} /\ (insertions # {} => first(insertions) - j > first(deletions) - i) ->
         deleteHunk(i, j, first(deletions) - i)
    [] OTHER -> replaceHunk(i, j, 1)

nextDiffHunk(c, i, j) ==
  CASE i >= oldTotal(c) -> insertHunk(i, j, newTotal(c) - j)
    [] i < oldTotal(c) /\ j >= newTotal(c) -> deleteHunk(i, j, oldTotal(c) - i)
    [] OTHER -> resync(i, j, findNew(c, i, j), findOld(c, i, j))

rest(c, i, j) == least(oldTotal(c) - i, newTotal(c) - j)
longest(runs) == CHOOSE n \in runs : \A m \in runs : m <= n

\* Faulty: the run goes on over lines that are equal.
alignedHunkThroughEqual(c, i, j) ==
  replaceHunk(i, j, longest({n \in 1 .. rest(c, i, j) :
                               \A k \in 1 .. n - 1 : aligned(c, i + k, j + k)}))

\* The lines from here on that correspond and differ.
alignedHunk(c, i, j) ==
  replaceHunk(i, j, longest({n \in 1 .. rest(c, i, j) :
                               \A k \in 1 .. n - 1 : aligned(c, i + k, j + k)
                                                       /\ ~equal(c, i + k, j + k)}))

dismissed(c, i, j) ==
  /\ Downgrades(c.o)
  /\ Text(Old(c, i)) # Text(New(c, j))
  /\ downgradeNormalizer(c.o, Old(c, i)) = downgradeNormalizer(c.o, New(c, j))

grow(w) ==
  [w.pending EXCEPT
    !.oldStart = IF w.pending.oldLen = 0 THEN w.i ELSE @,
    !.newStart = IF w.pending.oldLen = 0 THEN w.j ELSE @,
    !.oldLen = @ + 1, !.newLen = @ + 1, !.downgraded = TRUE]

move(w, h) == [w EXCEPT !.i = @ + h.oldLen, !.j = @ + h.newLen]

\* One round of the loop.  The hunk of an aligned pair leaves pending alone.
advance(c, w) ==
  LET paired == w.i < oldTotal(c) /\ w.j < newTotal(c)
      flushed == flushPending(c, w)
      report(v, h) == move([v EXCEPT !.res = appendHunk(@, h, c.o.maxHunks)], h)
  IN  CASE paired /\ equal(c, w.i, w.j) /\ dismissed(c, w.i, w.j) ->
             [w EXCEPT !.pending = grow(w), !.i = @ + 1, !.j = @ + 1]
        [] paired /\ equal(c, w.i, w.j) /\ ~dismissed(c, w.i, w.j) ->
             [flushed EXCEPT !.i = @ + 1, !.j = @ + 1]
        [] paired /\ ~equal(c, w.i, w.j) /\ aligned(c, w.i, w.j) ->
             report(w, alignedHunk(c, w.i, w.j))
        [] OTHER ->
             report(flushed, nextDiffHunk(c, w.i, w.j))

RECURSIVE walk(_, _)
walk(c, w) ==
  IF w.i < oldTotal(c) \/ w.j < newTotal(c)
  THEN walk(c, advance(c, w))
  ELSE flushPending(c, w).res

diffWithOptions(old, new, o) ==
  walk([old |-> old, new |-> new, o |-> o],
       [i |-> 0, j |-> 0, pending |-> Nothing, res |-> NoHunks])

--------------------------------------------------------------------------------
(* Sync points: pairs of lines that have to correspond. *)

ValidateSyncPoints(points, old, new) ==
  /\ \A k \in DOMAIN points : points[k].old < Len(old) /\ points[k].new < Len(new)
  /\ \A k \in DOMAIN points : k > 1 =>
       points[k - 1].old < points[k].old /\ points[k - 1].new < points[k].new

mergeSyncSegment(res, segment, oldOffset, newOffset, maxHunks) ==
  LET moved == [k \in DOMAIN segment.hunks |->
                 [segment.hunks[k] EXCEPT !.oldStart = @ + oldOffset, !.newStart = @ + newOffset]]
      room == least(Len(segment.hunks), maxHunks - Len(res.hunks))
  IN  [res EXCEPT
        !.hunkCount = @ + segment.hunkCount,
        !.downgradedHunks = @ + segment.downgradedHunks,
        !.added = @ + segment.added,
        !.deleted = @ + segment.deleted,
        !.modified = @ + segment.modified,
        !.hunks = @ \o SubSeq(moved, 1, room)]

omittedCounted(res) ==
  [res EXCEPT !.omittedHunks = res.hunkCount + res.downgradedHunks - Len(res.hunks)]

\* The texts before, at and after each point are compared for themselves; from and to
\* are positions in both texts.
diffWithSyncPoints(old, new, o) ==
  LET cut(done, to) ==
        [res |-> mergeSyncSegment(done.res,
                   diffWithOptions(SubSeq(old, done.from.old + 1, to.old),
                                   SubSeq(new, done.from.new + 1, to.new), o),
                   done.from.old, done.from.new, o.maxHunks),
         from |-> to]
      behind(point) == [old |-> point.old + 1, new |-> point.new + 1]
      ends == FlattenSeq([k \in DOMAIN o.syncPoints |->
                           <<o.syncPoints[k], behind(o.syncPoints[k])>>])
                \o <<[old |-> Len(old), new |-> Len(new)]>>
  IN  omittedCounted(FoldLeft(cut, [res |-> NoHunks, from |-> [old |-> 0, new |-> 0]], ends).res)

DiffWith(old, new, o) ==
  IF o.syncPoints = <<>> THEN diffWithOptions(old, new, o) ELSE diffWithSyncPoints(old, new, o)

--------------------------------------------------------------------------------
(* After the walk. *)

block(lines, start, count) ==
  [k \in 1 .. count |-> Text(lines[start + k])]

\* A deletion and an insertion of the same lines are a move: each insertion takes the
\* first deletion that no other has taken.
DetectMoves(old, new, res, minLines) ==
  LET fits(k, kind, length) ==
        res.hunks[k].kind = kind /\ ~res.hunks[k].downgraded /\ length >= minLines
      pairs(r, k) ==
        LET h == r.hunks[k]
            sources ==
              {d \in DOMAIN r.hunks :
                /\ fits(d, "delete", r.hunks[d].oldLen)
                /\ r.hunks[d].moveID = 0
                /\ block(old, r.hunks[d].oldStart, r.hunks[d].oldLen)
                     = block(new, h.newStart, h.newLen)}
            d == first(sources)
            id == r.movedBlocks + 1
        IN  IF ~fits(k, "insert", h.newLen) \/ sources = {} THEN r
            ELSE [r EXCEPT
                   !.hunks[d].moveID = id, !.hunks[d].movePeer = h.newStart,
                   !.hunks[k].moveID = id, !.hunks[k].movePeer = r.hunks[d].oldStart,
                   !.deleted = @ - h.newLen, !.added = @ - h.newLen,
                   !.movedBlocks = id, !.movedLines = @ + h.newLen]
  IN  IF res.omittedHunks # 0
      THEN [res EXCEPT !.moveDetectionSkipped = TRUE]
      ELSE FoldLeft(pairs, res, [k \in DOMAIN res.hunks |-> k])

\* Positions of the hunks to leave out; both ends of a move go together, and a
\* dismissed difference stays.
ignored(res, indexes) ==
  LET named == {k \in DOMAIN res.hunks : k - 1 \in indexes /\ ~res.hunks[k].downgraded}
      moves == {res.hunks[k].moveID : k \in named} \ {0}
  IN  named \cup {k \in DOMAIN res.hunks : res.hunks[k].moveID \in moves}

subtractStats(res, h) ==
  [res EXCEPT !.added = @ - adds(h), !.deleted = @ - deletes(h), !.modified = @ - both(h)]

\* Faulty: the lines of a move are taken off for each of its two ends.
IgnoreHunksTwice(res, indexes) ==
  LET gone == ignored(res, indexes)
      leave(r, k) ==
        LET h == res.hunks[k]
            fewer == [r EXCEPT !.ignoredHunks = @ + 1, !.hunkCount = @ - 1]
        IN  IF k \notin gone THEN [r EXCEPT !.hunks = Append(@, h)] ELSE subtractStats(fewer, h)
  IN  FoldLeft(leave, [res EXCEPT !.hunks = <<>>], [k \in DOMAIN res.hunks |-> k])

IgnoreHunks(res, indexes) ==
  LET gone == ignored(res, indexes)
      leave(r, k) ==
        LET h == res.hunks[k]
            fewer == [r EXCEPT !.ignoredHunks = @ + 1, !.hunkCount = @ - 1]
        IN  CASE k \notin gone -> [r EXCEPT !.hunks = Append(@, h)]
              [] k \in gone /\ h.moveID = 0 -> subtractStats(fewer, h)
              [] k \in gone /\ h.moveID # 0 /\ h.kind = "insert" ->
                   [fewer EXCEPT !.movedBlocks = @ - 1, !.movedLines = @ - h.newLen]
              [] OTHER -> fewer
  IN  FoldLeft(leave, [res EXCEPT !.hunks = <<>>], [k \in DOMAIN res.hunks |-> k])
===============================================================================
