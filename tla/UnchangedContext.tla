---------------------------- MODULE UnchangedContext ----------------------------
(***************************************************************************)
(* The unchanged lines around the differences of a text comparison: app.js *)
(* with unchanged.js.                                                      *)
(*                                                                         *)
(* A comparison gives hunks only; the lines between them are regions whose *)
(* text is fetched in ranges, in batches of bounded size, and added to the *)
(* region as a segment when its batch is answered.  What is not fetched is *)
(* a gap; it can be expanded from either side, and is named by its first   *)
(* line, its preview.  A load started under an older token is dropped.     *)
(*                                                                         *)
(* An action is what runs without giving the thread back; rendering in     *)
(* slices is taken as one piece.  A segment has offset and count, a        *)
(* preview is the offset of its gap; the text itself is left out.          *)
(***************************************************************************)
EXTENDS Naturals, Sequences, SequencesExt, FiniteSets, FiniteSetsExt, Lists

CONSTANTS
  Layouts,     \* results: hunks, lengths of the two texts and whether hunks were omitted
  LineCounts,  \* what the field for the number of context lines can say
  Chunk,       \* CONTEXT_EXPAND_CHUNK
  BatchRanges, BatchLines,  \* CONTEXT_BATCH_RANGES and CONTEXT_BATCH_LINES
  MaxActs      \* bound: user actions and comparisons

VARIABLES
  regions,  \* unchangedRegions
  visible,  \* contextIsVisible()
  lines,    \* contextLineCount()
  token,    \* contextLoadToken
  loads,    \* loads in flight: token, what to do when done, batches still to come
  failed,   \* history: a load failed since the regions were last emptied
  strayed,  \* history: the context was hidden while something was in flight
  acts
vars == <<regions, visible, lines, token, loads, failed, strayed, acts>>

--------------------------------------------------------------------------------
(* unchanged.js *)

Least(a, b) == IF a < b THEN a ELSE b
Less(a, b) == IF a > b THEN a - b ELSE 0

\* buildUnchangedRegions: one before every hunk, and the one behind the last,
\* which is empty when hunks were omitted.
buildUnchangedRegions(d) ==
  LET n == Len(d.hunks)
      end(k) == IF k = 0 THEN [old |-> 0, new |-> 0]
                ELSE [old |-> d.hunks[k].oldStart + d.hunks[k].oldLen,
                      new |-> d.hunks[k].newStart + d.hunks[k].newLen]
      oldCount(k) == IF k <= n THEN Less(d.hunks[k].oldStart, end(k - 1).old)
                     ELSE IF d.omitted THEN 0 ELSE Less(d.oldLines, end(n).old)
      newCount(k) == IF k <= n THEN Less(d.hunks[k].newStart, end(k - 1).new)
                     ELSE IF d.omitted THEN 0 ELSE Less(d.newLines, end(n).new)
  IN  [k \in 1 .. n + 1 |->
         [oldStart |-> end(k - 1).old, newStart |-> end(k - 1).new,
          count |-> Least(oldCount(k), newCount(k)),
          segments |-> <<>>, previews |-> {}, pending |-> FALSE]]

Span(r, offset, count) == [region |-> r, offset |-> offset, count |-> count]

\* Spans in the order of the text.
InText(spans) ==
  Arrange(spans, {p \in spans \X spans :
                    \/ p[1].region < p[2].region
                    \/ p[1].region = p[2].region /\ p[1].offset < p[2].offset})

\* The lines of a region next to the hunks; all of them where they meet.
Edges(rs, r, wanted) ==
  LET count == rs[r].count
      lower == IF r > 1 THEN Least(wanted, count) ELSE 0
      upper == IF r < Len(rs) THEN Least(wanted, count - lower) ELSE 0
  IN  IF lower + upper >= count THEN {Span(r, 0, count)}
      ELSE {g \in {Span(r, 0, lower), Span(r, count - upper, upper)} : g.count > 0}

\* initialContextRanges
initialContextRanges(rs, wanted) ==
  IF wanted = 0 \/ Len(rs) < 2 THEN <<>>
  ELSE InText(UNION {Edges(rs, r, wanted) : r \in {r \in DOMAIN rs : rs[r].count # 0}})

\* missingContextSpans: what no segment covers, as maximal intervals.
missingContextSpans(count, segments) ==
  LET held == {k \in 0 .. count - 1 : \E s \in ToSet(segments) :
                 s.offset <= k /\ k < s.offset + s.count}
      free == (0 .. count - 1) \ held
      starts == {k \in free : k = 0 \/ k - 1 \in held}
      end(k) == Min({j \in k .. count : j = count \/ j \in held})
  IN  {[offset |-> k, count |-> end(k) - k] : k \in starts}

\* batchContextRanges, and what a range does to the batches before it.
LinesIn(batch) == FoldLeft(LAMBDA sum, g : sum + g.count, 0, batch)
Batched(bs, g) ==
  IF g.count = 0 THEN bs
  ELSE IF bs = <<>> \/ Len(Last(bs)) >= BatchRanges \/ LinesIn(Last(bs)) + g.count > BatchLines
  THEN Append(bs, <<g>>)
  ELSE Append(Front(bs), Append(Last(bs), g))
batchContextRanges(ranges) ==
  LET batches[n \in 0 .. Len(ranges)] ==
        IF n = 0 THEN <<>> ELSE Batched(batches[n - 1], ranges[n])
  IN  batches[Len(ranges)]

--------------------------------------------------------------------------------
(* Loading.  Each operator gives the next [regions, loads], under the token tok. *)

Now == [regions |-> regions, loads |-> loads]
Becomes(s) == regions' = s.regions /\ loads' = s.loads

Load(kind, tok, ranges) ==
  [kind |-> kind, token |-> tok, batches |-> batchContextRanges(ranges),
   affected |-> {g.region : g \in ToSet(ranges)}, id |-> 0]

\* Loads are told apart by a number.
Starting(s, l) ==
  [s EXCEPT !.loads = @ \cup {[l EXCEPT !.id = 1 + Max({0} \cup {m.id : m \in s.loads})]}]
Pending(rs, which, is) ==
  [r \in DOMAIN rs |-> IF r \in which THEN [rs[r] EXCEPT !.pending = is] ELSE rs[r]]

\* loadContextRanges, up to its first request.
loadContextRanges(s, kind, tok, ranges) ==
  Starting([s EXCEPT !.regions = Pending(@, {g.region : g \in ToSet(ranges)}, TRUE)],
           Load(kind, tok, ranges))

\* The first lines of a region's gaps.
Gaps(region) == {g.offset : g \in missingContextSpans(region.count, region.segments)}

\* loadHiddenPreviews: drops the previews of gaps that are gone and asks for those
\* that are missing.
loadHiddenPreviews(s, tok, shown) ==
  LET live == [r \in DOMAIN s.regions |->
                 [s.regions[r] EXCEPT !.previews = @ \cap Gaps(s.regions[r])]]
      asked == UNION {{Span(r, k, 1) : k \in Gaps(live[r]) \ live[r].previews} : r \in DOMAIN live}
  IN  IF ~shown THEN s
      ELSE IF asked = {} THEN [s EXCEPT !.regions = live]
      ELSE Starting([s EXCEPT !.regions = live], Load("previews", tok, InText(asked)))

\* loadInitialContext
loadInitialContext(s, tok, shown, wanted) ==
  LET ranges == initialContextRanges(s.regions, wanted)
  IN  IF ~shown \/ s.regions = <<>> THEN s
      ELSE IF ranges = <<>> THEN loadHiddenPreviews(s, tok, shown)
      ELSE loadContextRanges(s, "initial", tok, ranges)

\* The end of a load, with or without its last batch.
Ended(s, l, ok) ==
  LET without == [s EXCEPT !.loads = @ \ {l}]
      freed == IF l.token = token /\ l.kind # "previews"
               THEN [without EXCEPT !.regions = Pending(@, l.affected, FALSE)] ELSE without
  IN  IF l.kind = "expand" \/ (l.kind = "initial" /\ ok)
      THEN loadHiddenPreviews(freed, token, visible) ELSE freed

\* A batch is answered: its ranges become segments, or previews.
Ascending(set) == Arrange(set, {p \in set \X set : p[1] < p[2]})
Segment(g) == [offset |-> g.offset, count |-> g.count]
Received(rs, l) ==
  LET batch == l.batches[1]
      of(r) == Ascending({k \in DOMAIN batch : batch[k].region = r})
  IN  [r \in DOMAIN rs |->
         IF l.kind = "previews"
         THEN [rs[r] EXCEPT !.previews = @ \cup {batch[k].offset : k \in ToSet(of(r))}]
         ELSE [rs[r] EXCEPT !.segments = @ \o [n \in DOMAIN of(r) |-> Segment(batch[of(r)[n]])]]]

Answer(l) ==
  /\ l \in loads
  /\ IF l.token # token THEN Becomes(Ended(Now, l, FALSE))
     ELSE LET s == [Now EXCEPT !.regions = Received(@, l)]
          IN  IF Len(l.batches) = 1 THEN Becomes(Ended(s, l, TRUE))
              ELSE Becomes([s EXCEPT !.loads = (@ \ {l}) \cup {[l EXCEPT !.batches = Tail(@)]}])
  /\ UNCHANGED <<visible, lines, token, failed, strayed, acts>>

Refused(l) ==
  /\ l \in loads
  /\ Becomes(Ended(Now, l, FALSE))
  /\ failed' = (failed \/ l.token = token)
  /\ UNCHANGED <<visible, lines, token, strayed, acts>>

--------------------------------------------------------------------------------
(* Comparisons and the user. *)

Act == acts < MaxActs /\ acts' = acts + 1

\* clearUnchangedContext, as a comparison begins.
clearUnchangedContext ==
  /\ Act
  /\ token' = token + 1
  /\ regions' = <<>>
  /\ UNCHANGED <<visible, lines, loads, failed, strayed>>

\* finishStreamRender: prepareUnchangedContext, then loadInitialContext.
finishStreamRender(d) ==
  /\ Act
  /\ regions = <<>>
  /\ token' = token + 1
  /\ Becomes(loadInitialContext([Now EXCEPT !.regions = buildUnchangedRegions(d)],
                                token + 1, visible, lines))
  /\ failed' = FALSE /\ strayed' = FALSE
  /\ UNCHANGED <<visible, lines>>

\* setContextVisibility
setContextVisibility ==
  /\ Act
  /\ visible' = ~visible
  /\ IF visible' /\ \A r \in DOMAIN regions : regions[r].segments = <<>>
     THEN Becomes(loadInitialContext(Now, token, TRUE, lines)) ELSE UNCHANGED <<regions, loads>>
  /\ strayed' = (strayed \/ (visible /\ loads # {}))
  /\ UNCHANGED <<lines, token, failed>>

\* Faulty: nothing is fetched again.
resetWithoutLoading(n) ==
  /\ Act
  /\ lines' = n
  /\ token' = token + 1
  /\ regions' = [r \in DOMAIN regions |->
                   [regions[r] EXCEPT !.segments = <<>>, !.previews = {}, !.pending = FALSE]]
  /\ failed' = FALSE
  /\ UNCHANGED <<visible, loads, strayed>>

\* The number of lines is changed: resetContextRanges.
resetContextRanges(n) ==
  /\ Act
  /\ lines' = n
  /\ token' = token + 1
  /\ Becomes(loadInitialContext(
       [Now EXCEPT !.regions = [r \in DOMAIN @ |->
          [@[r] EXCEPT !.segments = <<>>, !.previews = {}, !.pending = FALSE]]],
       token + 1, visible, n))
  /\ failed' = FALSE
  /\ UNCHANGED <<visible, strayed>>

\* contextGapControl offers the sides that have a hunk; expandContextSpan.
expandContextSpan(r, gap, direction) ==
  LET count == Least(Chunk, gap.count)
      upper == Span(r, gap.offset + gap.count - count, count)
      lower == Span(r, gap.offset, count)
  IN  /\ Act
      /\ visible /\ ~regions[r].pending
      /\ direction \in {"up", "both"} => r < Len(regions)
      /\ direction \in {"down", "both"} => r > 1
      /\ Becomes(loadContextRanges(Now, "expand", token,
           IF direction = "up" THEN <<upper>>
           ELSE IF direction = "down" THEN <<lower>>
           ELSE IF gap.count <= count * 2 THEN <<Span(r, gap.offset, gap.count)>>
           ELSE <<lower, upper>>))
      /\ UNCHANGED <<visible, lines, token, failed, strayed>>

--------------------------------------------------------------------------------
(* What is on the screen. *)

\* The segments by their offsets.
Sorted(segments) ==
  LET all == DOMAIN segments
      at == Arrange(all, {p \in all \X all :
              \/ segments[p[1]].offset < segments[p[2]].offset
              \/ segments[p[1]].offset = segments[p[2]].offset /\ p[1] < p[2]})
  IN  [n \in all |-> segments[at[n]]]

\* renderContextRegion: the lines shown, in order, and those behind a gap; up to the
\* cursor, with one more segment.
Shown(region, s, seg) ==
  LET end == Least(region.count, seg.offset + seg.count)
      skip == Less(s.cursor, seg.offset)
  IN  IF end <= s.cursor THEN s
      ELSE [cursor |-> end,
            shown |-> s.shown \o [k \in 1 .. seg.count - skip |-> seg.offset + skip + k - 1],
            hidden |-> s.hidden \cup (s.cursor .. seg.offset - 1)]
renderContextRegion(region) ==
  LET sorted == Sorted(region.segments)
      up[n \in 0 .. Len(sorted)] ==
        IF n = 0 THEN [cursor |-> 0, shown |-> <<>>, hidden |-> {}]
        ELSE Shown(region, up[n - 1], sorted[n])
      all == up[Len(sorted)]
  IN  [shown |-> all.shown, hidden |-> all.hidden \cup (all.cursor .. region.count - 1)]

--------------------------------------------------------------------------------
Init ==
  /\ regions = <<>>
  /\ visible \in BOOLEAN /\ lines \in LineCounts
  /\ token = 0 /\ loads = {}
  /\ failed = FALSE /\ strayed = FALSE /\ acts = 0

Next ==
  \/ clearUnchangedContext \/ \E d \in Layouts : finishStreamRender(d)
  \/ setContextVisibility \/ \E n \in LineCounts : resetContextRanges(n)
  \/ \E r \in DOMAIN regions : \E gap \in missingContextSpans(regions[r].count, regions[r].segments),
       direction \in {"up", "down", "both"} : expandContextSpan(r, gap, direction)
  \/ \E l \in loads : Answer(l) \/ Refused(l)

Spec == Init /\ [][Next]_vars

--------------------------------------------------------------------------------
(* Properties. *)

\* Whatever was loaded, twice or overlapping, each unchanged line is either shown
\* once, in its place, or behind a gap that can be expanded (app.js:2435-2457).
EachLineOnce ==
  \A r \in DOMAIN regions :
    LET on == renderContextRegion(regions[r])
        gaps == missingContextSpans(regions[r].count, regions[r].segments)
    IN  /\ \A j, k \in DOMAIN on.shown : j < k => on.shown[j] < on.shown[k]
        /\ ToSet(on.shown) \cup on.hidden = 0 .. regions[r].count - 1
        /\ ToSet(on.shown) \cap on.hidden = {}
        /\ on.hidden = UNION {g.offset .. g.offset + g.count - 1 : g \in gaps}

\* A region's controls are disabled only while a load of the present regions will
\* enable them again.  And when nothing is in flight and nothing failed, the visible
\* context has the lines next to every hunk as the field says, and names every gap by
\* its first line - unless the user hid it while it was being fetched
\* (app.js:2510-2676).
ContextSettles ==
  /\ \A r \in DOMAIN regions : regions[r].pending =>
       \E l \in loads : l.token = token /\ l.kind # "previews" /\ r \in l.affected
  /\ (regions # <<>> /\ visible /\ loads = {} /\ ~failed /\ ~strayed) =>
       \A r \in DOMAIN regions :
         LET on == ToSet(renderContextRegion(regions[r]).shown)
         IN  /\ \A g \in ToSet(initialContextRanges(regions, lines)) :
                  g.region = r => g.offset .. g.offset + g.count - 1 \subseteq on
             /\ \A g \in missingContextSpans(regions[r].count, regions[r].segments) :
                  g.offset \in regions[r].previews
=============================================================================
