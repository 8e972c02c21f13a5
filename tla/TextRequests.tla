----------------------------- MODULE TextRequests -----------------------------
(***************************************************************************)
(* What the server does for a request about texts: a comparison that is    *)
(* shown (server_diff.go), a two-way merge and a three-way merge that are  *)
(* saved (server_merge.go).  Each handler reads its texts and goes through *)
(* its stages alone; the work is that of LineDiff and ThreeWay.            *)
(*                                                                         *)
(* Reading and writing files, the refusal to write over an input, and a    *)
(* client that goes away in the middle (nothing is answered or written)    *)
(* are left out.                                                           *)
(***************************************************************************)
EXTENDS ThreeWay, TLC

CONSTANT
  Requests    \* what may be asked: kind, texts, options, minLines (0: no moves)

VARIABLES
  request, stage,
  found,      \* the difference, as the walk left it
  res,        \* the difference, as the answer will tell it
  events,     \* of three texts
  saved       \* what was written, and the choices it was made of

textVars == <<request, stage, found, res, events, saved>>

NothingSaved == [choices |-> <<>>, target |-> "left", text |-> <<>>]

Init ==
  /\ request \in Requests
  /\ stage = "read"
  /\ found = NoHunks
  /\ res = NoHunks
  /\ events = <<>>
  /\ saved = NothingSaved

At(from, to) == stage = from /\ stage' = to

Valid(target) == ValidateSyncPoints(request.o.syncPoints, request.old, target)

\* 400: a sync point is outside a text, or not behind the one before.
Refuse ==
  /\ At("read", "refused")
  /\ ~(Valid(request.new) /\ (request.kind = "threeway" => Valid(request.right)))
  /\ UNCHANGED <<request, found, res, events, saved>>

\* Only what is shown marks the differences that the options dismiss; only what is
\* merged has every hunk.
Options ==
  IF request.kind = "compare"
  THEN [request.o EXCEPT !.markDowngraded = TRUE]
  ELSE Unlimited(request.o)

Diff ==
  /\ At("read", "compared")
  /\ request.kind \in {"compare", "merge"}
  /\ Valid(request.new)
  /\ found' = DiffWith(request.old, request.new, Options)
  /\ res' = found'
  /\ UNCHANGED <<request, events, saved>>

PairMoves ==
  /\ At("compared", "paired")
  /\ request.kind = "compare"
  /\ res' = IF request.minLines = 0 THEN res
            ELSE DetectMoves(request.old, request.new, res, request.minLines)
  /\ UNCHANGED <<request, found, events, saved>>

\* The hunks the user has dismissed, by their positions.
Ignore ==
  /\ At("paired", "answered")
  /\ \E indexes \in SUBSET (0 .. Len(res.hunks) - 1) : res' = IgnoreHunks(res, indexes)
  /\ UNCHANGED <<request, found, events, saved>>

\* A choice for each hunk, none for some only if the request allows it; 400 if hunks
\* overlap.
SaveText ==
  /\ At("compared", "saved")
  /\ request.kind = "merge"
  /\ ~overlapping(res.hunks)
  /\ \E choices \in [DOMAIN res.hunks -> SUBSET Sides], target \in Sides \cup {"markers"} :
       saved' = [choices |-> choices, target |-> target,
                 text |-> WriteText(request.old, request.new, res.hunks, choices, target)]
  /\ UNCHANGED <<request, found, res, events>>

Conflicts(es) == {k \in DOMAIN es : es[k].kind = "conflict"}

\* old is BASE here, and new and right are what became of it.
CompareThree ==
  /\ At("read", "events")
  /\ request.kind = "threeway"
  /\ Valid(request.new) /\ Valid(request.right)
  /\ events' = Compare(request.old, request.new, request.right, Options)
  /\ UNCHANGED <<request, found, res, saved>>

\* For each conflict any of the three, none of them only if the request allows it.
SaveThree ==
  /\ At("events", "merged")
  /\ \E choices \in [Conflicts(events) -> SUBSET (Sides \cup {"base"})],
        target \in Sides \cup {"base", "markers"} :
       LET all == [k \in DOMAIN events |-> IF k \in DOMAIN choices THEN choices[k] ELSE {}]
       IN  saved' = [choices |-> all, target |-> target,
                     text |-> MergeLines(request.old, events, all, target)]
  /\ UNCHANGED <<request, found, res, events>>

Next ==
  \/ Refuse
  \/ Diff
  \/ PairMoves
  \/ Ignore
  \/ SaveText
  \/ CompareThree
  \/ SaveThree

Spec == Init /\ [][Next]_textVars

--------------------------------------------------------------------------------
(* What a difference has to be, whatever found it. *)

\* The places around a hunk: where the one before it ended, or the texts began.
OldEnd(hs, k) == IF k = 0 THEN 0 ELSE hs[k].oldStart + hs[k].oldLen
NewEnd(hs, k) == IF k = 0 THEN 0 ELSE hs[k].newStart + hs[k].newLen

\* The lines a difference puts side by side.
Unchanged(old, new, hs) ==
  LET all == Append(hs, hunk("end", Len(old), 0, Len(new), 0))
  IN  UNION {{<<OldEnd(hs, k - 1) + n, NewEnd(hs, k - 1) + n>> :
                n \in 0 .. all[k].oldStart - OldEnd(hs, k - 1) - 1} : k \in DOMAIN all}
Replaced(hs) ==
  UNION {{<<hs[k].oldStart + n, hs[k].newStart + n>> : n \in 0 .. hs[k].oldLen - 1} :
           k \in {m \in DOMAIN hs : hs[m].kind = "replace"}}

\* One after the other, with as many lines between them in either text.
InOrder(old, new, hs) ==
  LET all == Append(hs, hunk("end", Len(old), 0, Len(new), 0))
  IN  \A k \in DOMAIN all :
        /\ all[k].oldStart >= OldEnd(hs, k - 1)
        /\ all[k].newStart >= NewEnd(hs, k - 1)
        /\ all[k].oldStart - OldEnd(hs, k - 1) = all[k].newStart - NewEnd(hs, k - 1)

\* Two lines that may be shown as one, and two that may not.
Alike(o, x, y) == normalizer(o, x) = normalizer(o, y)
MayBeOne(o, x, y) == Alike(o, x, y) /\ (o.ignoreEOL \/ x.eol = y.eol \/ "" \in {x.eol, y.eol})
Differs(o, x, y) == ~Alike(o, x, y) \/ x.eol # y.eol

Rebuilds(old, new, o, hs) ==
  /\ InOrder(old, new, hs)
  /\ \A p \in Unchanged(old, new, hs) : MayBeOne(o, old[p[1] + 1], new[p[2] + 1])
  /\ \A k \in DOMAIN o.syncPoints :
       <<o.syncPoints[k].old, o.syncPoints[k].new>> \in Unchanged(old, new, hs) \cup Replaced(hs)

Essential(hs) == SelectSeq(hs, LAMBDA h : ~h.downgraded)
Dismissed(hs) == SelectSeq(hs, LAMBDA h : h.downgraded)

\* full is the difference without a limit, plain the one without dismissed runs.
LeadsFrom(old, new, o, full, plain) ==
  /\ found.hunks = SubSeq(full, 1, least(Options.maxHunks, Len(full)))
  /\ Rebuilds(old, new, o, Essential(full))
  /\ \A p \in Replaced(Essential(full)) : Differs(o, old[p[1] + 1], new[p[2] + 1])
  /\ Essential(full) = plain
  /\ ~(Aligns(o) /\ Downgrades(o)) =>
       /\ Rebuilds(old, new, o, full)
       /\ \A p \in Replaced(Dismissed(full)) :
            /\ Alike(o, old[p[1] + 1], new[p[2] + 1])
            /\ Text(old[p[1] + 1]) # Text(new[p[2] + 1])

\* The hunks lead from the old text to the new one, and sync points hold: outside them
\* the lines are alike, in them no pair of a replaced run is, unless it is shown as
\* dismissed; dismissed differences leave the others as they are without them
\* (downgrade_test.go:149-177).  Where lines are aligned more coarsely than they are
\* compared, a dismissed run may be misplaced: see README.
HunksRebuild ==
  request.kind \in {"compare", "merge"} /\ stage \in {"compared", "saved"} =>
    LET hunks(o) == DiffWith(request.old, request.new, o).hunks
        all == Unlimited(Options)
    IN  LeadsFrom(request.old, request.new, all, hunks(all),
                  hunks([all EXCEPT !.markDowngraded = FALSE]))

Sum(hs, size(_)) == FoldLeft(LAMBDA n, h : n + size(h), 0, hs)

\* The counters are those of the whole difference, however few hunks are kept, and stay
\* true of what is left when moves are paired and hunks ignored: a move has two ends
\* that name each other and hold the same lines, and goes as a whole
\* (hunk.go:61-92, move.go:43-111, sync.go:104-151).
CountsFit ==
  LET old == request.old
      new == request.new
      stays == Essential(res.hunks)
      unmoved == SelectSeq(stays, LAMBDA h : h.moveID = 0)
      ends(id) == SelectSeq(stays, LAMBDA h : h.moveID = id)
      moves == {res.hunks[k].moveID : k \in DOMAIN res.hunks} \ {0}
  IN  /\ stage = "compared" =>
           /\ res.added + Len(old) = res.deleted + Len(new)
           /\ LET full == DiffWith(old, new, Unlimited(Options))
              IN  [res EXCEPT !.hunks = <<>>, !.omittedHunks = 0]
                    = [full EXCEPT !.hunks = <<>>]
      /\ stage \in {"compared", "paired", "answered"} =>
           /\ res.hunkCount + res.downgradedHunks = Len(res.hunks) + res.omittedHunks
           /\ res.ignoredHunks = Len(found.hunks) - Len(res.hunks)
           /\ \A id \in moves :
                /\ Len(ends(id)) = 2
                /\ \E d, i \in {1, 2} :
                     /\ ends(id)[d].kind = "delete" /\ ends(id)[i].kind = "insert"
                     /\ ends(id)[d].movePeer = ends(id)[i].newStart
                     /\ ends(id)[i].movePeer = ends(id)[d].oldStart
                     /\ block(old, ends(id)[d].oldStart, ends(id)[d].oldLen)
                          = block(new, ends(id)[i].newStart, ends(id)[i].newLen)
      /\ stage \in {"compared", "paired", "answered"} /\ res.omittedHunks = 0 =>
           /\ res.hunkCount = Len(stays)
           /\ res.added = Sum(unmoved, adds)
           /\ res.deleted = Sum(unmoved, deletes)
           /\ res.modified = Sum(unmoved, both)
           /\ res.movedBlocks * 2 = Len(stays) - Len(unmoved)
           /\ res.movedLines = Sum(stays, LAMBDA h : IF h.moveID = 0 THEN 0 ELSE adds(h))

Mirrored(kind) ==
  CASE kind = "left_only" -> "right_only"
    [] kind = "right_only" -> "left_only"
    [] OTHER -> kind

\* The events of the same texts with their sides exchanged.
Exchanged(es) ==
  [k \in DOMAIN es |->
    [es[k] EXCEPT !.kind = Mirrored(@), !.left = es[k].right, !.right = es[k].left]]

\* BASE with every event's lines of one side is what became of it on that side; the
\* events do not depend on which side is called the left one; a text that stayed as it
\* was, or changed in the same way, makes no conflict, and the other one's change is
\* merged without a question (text.go:61-150).
EventsFit ==
  stage = "events" =>
    LET base == request.old
        same(x, y) ==
          /\ Len(x) = Len(y)
          /\ \A k \in DOMAIN x : Alike(request.o, x[k] @@ [eol |-> ""], y[k])
        undecidedLeft == MergeLines(base, events, [k \in DOMAIN events |-> {}], "left")
    IN  /\ same(compose(base, events, [k \in DOMAIN events |-> events[k].left]), request.new)
        /\ same(compose(base, events, [k \in DOMAIN events |-> events[k].right]), request.right)
        /\ Compare(base, request.right, request.new, Options) = Exchanged(events)
        /\ request.right \in {base, request.new} =>
             Conflicts(events) = {} /\ same(undecidedLeft, request.new)

\* The lines a reader of the file finds: what is written after a line without a
\* terminator is on that line.
LinesOf(text) ==
  LET glue(lines, r) ==
        IF lines = <<>> \/ Last(lines).eol # ""
        THEN Append(lines, [parts |-> <<Text(r)>>, eol |-> r.eol])
        ELSE [lines EXCEPT ![Len(lines)] = [parts |-> Append(@.parts, Text(r)), eol |-> r.eol]]
  IN  FoldLeft(glue, <<>>, text)

\* WriteMerged ends every line but perhaps the last.
Apart(texts) == [k \in DOMAIN texts |-> [parts |-> <<texts[k]>>]]

\* What a reader of conflict markers finds who takes one side of every block.  A
\* marker is a line of its own.
Markers == {marker(text) : text \in {"begin LEFT", "begin BASE", "begin RIGHT", "end RIGHT"}}
IsMarker(line) == Len(line.parts) = 1 /\ line.parts[1] \in Markers
SectionOf(line) ==
  CASE line.parts[1] = marker("begin LEFT") -> "left"
    [] line.parts[1] = marker("begin BASE") -> "base"
    [] line.parts[1] = marker("begin RIGHT") -> "right"
    [] OTHER -> "all"
Reading(lines, side) ==
  LET take(done, line) ==
        IF IsMarker(line)
        THEN [done EXCEPT !.section = SectionOf(line)]
        ELSE IF done.section \in {"all", side}
             THEN [done EXCEPT !.lines = Append(@, line)]
             ELSE done
  IN  FoldLeft(take, [section |-> "all", lines |-> <<>>], lines).lines

\* No marker was written onto a line that was not ended.
MarkersStand(lines) ==
  \A k \in DOMAIN lines : IsMarker(lines[k]) \/ \A p \in DOMAIN lines[k].parts :
                                                 lines[k].parts[p] \notin Markers

OtherSide(side) ==
  CASE side = "left" -> "right"
    [] side = "right" -> "left"
    [] OTHER -> side

\* A three-way merge with markers says what each side would have been; one without
\* markers is the same when the sides change places, unless both are taken for a
\* conflict (text.go:225-350).
ThreeMergeFits ==
  stage = "merged" =>
    LET base == request.old
        decided == saved.target # "markers"
                     /\ \A k \in DOMAIN events : ~(Sides \subseteq saved.choices[k])
        swapped == [k \in DOMAIN events |-> {OtherSide(s) : s \in saved.choices[k]}]
    IN  /\ saved.target = "markers" =>
             \A side \in Sides \cup {"base"} :
               Reading(Apart(saved.text), side)
                 = Apart(MergeLines(base, events, saved.choices, side))
        /\ decided =>
             saved.text = MergeLines(base, Exchanged(events), swapped, OtherSide(saved.target))

\* With the side of the new text chosen for each hunk, the merge writes that text,
\* line by line (text_test.go:25-38).
AllRight ==
  stage = "saved" /\ \A k \in DOMAIN saved.choices :
    saved.choices[k] = {"right"} \/ (saved.choices[k] = {} /\ saved.target = "right")
AllRightIsNew == AllRight => saved.text = request.new

\* Where every line is terminated and nothing is ignored, so it does; with the old side
\* it always writes the old text, and no hunk is refused as overlapping.  Markers of
\* texts whose lines are all terminated are lines, and where they are, a reader of the
\* file finds what either side would have been.  (After a last line without a
\* terminator they are not lines: text.go:167-178, see README.)
Exact(o) == ~o.ignoreCase /\ o.whitespace = WSKeep /\ ~o.lineFilter /\ ~o.ignoreEOL
Terminated(lines) == \A k \in DOMAIN lines : lines[k].eol # ""
AllLeft ==
  stage = "saved" /\ \A k \in DOMAIN saved.choices :
    saved.choices[k] = {"left"} \/ (saved.choices[k] = {} /\ saved.target = "left")
MergeIsASide ==
  /\ request.kind = "merge" => ~overlapping(res.hunks)
  /\ Exact(request.o) /\ Terminated(request.old) /\ Terminated(request.new) => AllRightIsNew
  /\ AllLeft => saved.text = request.old
  /\ stage = "saved" /\ saved.target = "markers" =>
       /\ Terminated(request.old) /\ Terminated(request.new) => MarkersStand(LinesOf(saved.text))
       /\ MarkersStand(LinesOf(saved.text)) =>
            \A side \in Sides :
              Reading(LinesOf(saved.text), side)
                = LinesOf(WriteText(request.old, request.new, res.hunks, saved.choices, side))
===============================================================================
