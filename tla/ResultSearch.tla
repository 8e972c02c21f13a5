------------------------------ MODULE ResultSearch ------------------------------
(***************************************************************************)
(* The search in a text result: app.js.                                    *)
(*                                                                         *)
(* Every match is wrapped in a marker in the result itself; a list of the  *)
(* markers, a position in it and a counter are kept beside it.  The result *)
(* is replaced page by page and slice by slice when a comparison runs, and *)
(* lines are added when a gap is expanded: the list must be made anew.     *)
(* Typing searches a little later, an option at once.                      *)
(*                                                                         *)
(* A cell is a searchable line; version tells the nodes of one line apart. *)
(* An action is what runs without giving the thread back.  Left out: how a *)
(* match is cut along the nodes of its cell; CSV and three-way results,    *)
(* which end without a search; and the display options, whose change takes *)
(* a text result away (ResultRender).                                      *)
(***************************************************************************)
EXTENDS Naturals, Sequences, SequencesExt, FiniteSets

CONSTANTS
  Patterns,    \* what can be typed; "" and an invalid pattern find nothing
  Finds,       \* the matches of a pattern in a changed and in an unchanged line
  PageSets,    \* what the server may answer: the hunks of every page
  MaxHits,     \* SEARCH_MAX_HITS
  MaxRuns,     \* bound: comparisons
  MaxActs      \* bound: user actions

VARIABLES
  searchOpen, input, changedOnly, searchTimer,
  searchHits, searchIndex,
  counter,     \* what setSearchCounter showed: [current, total]
  cells,       \* the lines on the screen, in order
  run,         \* the comparison
  runs,
  gap,         \* what the region of unchanged lines waits for
  unsearched,  \* history: the result changed for good after the last search
  acts

vars == <<searchOpen, input, changedOnly, searchTimer, searchHits, searchIndex, counter, cells,
          run, runs, gap, unsearched, acts>>

page == <<cells, run, runs, gap>>
search == <<searchOpen, input, changedOnly, searchTimer>>
hits == <<searchHits, searchIndex, counter>>

idle == [pc |-> "idle"]

--------------------------------------------------------------------------------
(* The search. *)

\* searchableCells, of one line.
searchable(c, only) == only => c.kind = "changed"

\* markMatchesIn, of one cell; runSearch stops at MaxHits, and an empty pattern is none.
markMatchesIn(c, pattern) == [k \in 1 .. Finds[pattern][c.kind] |-> [cell |-> c, k |-> k]]
matches(lines, pattern, only) ==
  LET all == FlattenSeq([i \in DOMAIN lines |->
               IF searchable(lines[i], only) THEN markMatchesIn(lines[i], pattern) ELSE <<>>])
  IN  IF pattern = "" THEN <<>>
      ELSE SubSeq(all, 1, IF Len(all) > MaxHits THEN MaxHits ELSE Len(all))

clearSearchHits == searchHits' = <<>> /\ searchIndex' = 0
setSearchCounter(current, total) == counter' = [current |-> current, total |-> total]

\* runSearch: from nothing, and on to the first hit.
runSearch(lines, pattern, only) ==
  /\ unsearched' = FALSE
  /\ searchHits' = matches(lines, pattern, only)
  /\ searchIndex' = IF searchHits' = <<>> THEN 0 ELSE 1
  /\ setSearchCounter(searchIndex', Len(searchHits'))

SearchAgain(lines) ==
  IF searchOpen THEN runSearch(lines, input, changedOnly) ELSE UNCHANGED <<hits, unsearched>>

Act == acts < MaxActs /\ acts' = acts + 1

openSearch ==
  /\ Act
  /\ cells # <<>>
  /\ searchOpen' = TRUE
  /\ IF input # "" THEN runSearch(cells, input, changedOnly)
     ELSE UNCHANGED <<hits, unsearched>>
  /\ UNCHANGED <<input, changedOnly, searchTimer, page>>

\* Its timer goes on.
closeSearch ==
  /\ Act
  /\ searchOpen
  /\ searchOpen' = FALSE
  /\ clearSearchHits /\ setSearchCounter(0, 0)
  /\ UNCHANGED <<input, changedOnly, searchTimer, page, unsearched>>

\* scheduleSearch
type(pattern) ==
  /\ Act
  /\ searchOpen /\ pattern # input
  /\ input' = pattern /\ searchTimer' = TRUE
  /\ UNCHANGED <<searchOpen, changedOnly, hits, page, unsearched>>

Timer ==
  /\ searchTimer
  /\ searchTimer' = FALSE
  /\ runSearch(cells, input, changedOnly)
  /\ UNCHANGED <<searchOpen, input, changedOnly, page, acts>>

\* searchChangedOnly; the other two options choose among the patterns.
option ==
  /\ Act
  /\ searchOpen
  /\ changedOnly' = ~changedOnly
  /\ runSearch(cells, input, changedOnly')
  /\ UNCHANGED <<searchOpen, input, searchTimer, page>>

\* stepSearch
stepSearch(delta) ==
  /\ Act
  /\ searchOpen /\ searchHits # <<>>
  /\ LET n == Len(searchHits) IN
       /\ searchIndex' = ((searchIndex - 1 + n + delta) % n) + 1
       /\ setSearchCounter(searchIndex', n)
  /\ UNCHANGED <<searchHits, search, page, unsearched>>

--------------------------------------------------------------------------------
(* The result. *)

changed(at) == [kind |-> "changed", run |-> runs, at |-> at, version |-> 0]
unchanged(at, version) == [kind |-> "unchanged", run |-> runs, at |-> at, version |-> version]

\* runCompare clears the screen, and leaves the hits.
Compare ==
  /\ run = idle /\ runs < MaxRuns
  /\ runs' = runs + 1
  /\ \E pages \in PageSets : run' = [pc |-> "pages", pages |-> pages, left |-> 0]
  /\ cells' = <<>> /\ gap' = "none" /\ unsearched' = FALSE
  /\ UNCHANGED <<search, hits, acts>>

\* The lines of the hunks, which come before the unchanged ones.
Hunks == SubSeq(cells, 1, Cardinality({k \in DOMAIN cells : cells[k].kind = "changed"}))

\* renderInSlices appends some of the lines that are left of its page.
Slice(left) ==
  \E n \in 1 .. left :
    /\ cells' = cells \o [k \in 1 .. n |-> changed(Len(Hunks) + k)]
    /\ run' = [run EXCEPT !.left = left - n]

\* appendStreamHunks, of a page: the hits go, the counter stays.
Page ==
  /\ run.pc = "pages" /\ run.left = 0 /\ run.pages # <<>>
  /\ \E n \in 1 .. Head(run.pages) :
       /\ cells' = cells \o [k \in 1 .. n |-> changed(Len(Hunks) + k)]
       /\ run' = [run EXCEPT !.pages = Tail(@), !.left = Head(run.pages) - n]
  /\ clearSearchHits
  /\ UNCHANGED <<search, counter, runs, gap, unsearched, acts>>

Resume ==
  /\ run.pc = "pages" /\ run.left > 0
  /\ Slice(run.left)
  /\ UNCHANGED <<search, hits, runs, gap, unsearched, acts>>

\* The stream ends: without hunks there is a card and no search; else the first
\* unchanged lines are asked for.
StreamEnds ==
  /\ run.pc = "pages" /\ run.left = 0 /\ run.pages = <<>>
  /\ IF cells = <<>> THEN run' = idle /\ unsearched' = TRUE
     ELSE run' = [pc |-> "context"] /\ UNCHANGED unsearched
  /\ UNCHANGED <<search, hits, cells, runs, gap, acts>>

\* The comparison failed or was cancelled: what was painted stays.
Fails ==
  /\ run.pc = "pages" /\ run.left = 0
  /\ run' = idle /\ unsearched' = TRUE
  /\ UNCHANGED <<search, hits, cells, runs, gap, acts>>

\* The region draws its lines anew, with more of them.
Redrawn(more) ==
  LET version == IF Len(cells) = Len(Hunks) THEN 0 ELSE Last(cells).version + 1
      n == Len(cells) - Len(Hunks) + more
  IN  Hunks \o [k \in 1 .. n |-> unchanged(k, version)]

\* loadInitialContext: its lines, and a search; then the previews, which draw the
\* region once more, and the search of finishStreamRender.
ContextLines ==
  /\ run.pc = "context"
  /\ run' = [pc |-> "previews"]
  /\ cells' = Redrawn(1)
  /\ SearchAgain(cells')
  /\ UNCHANGED <<search, runs, gap, acts>>

\* Faulty: the result is finished without a search.
FinishUnsearched ==
  /\ run.pc = "previews"
  /\ run' = idle
  /\ cells' = Redrawn(0)
  /\ UNCHANGED <<search, hits, runs, gap, unsearched, acts>>

Finish ==
  /\ run.pc = "previews"
  /\ run' = idle
  /\ cells' = Redrawn(0)
  /\ SearchAgain(cells')
  /\ UNCHANGED <<search, runs, gap, acts>>

\* expandContextSpan, its lines, and the previews after them, which draw the region
\* again and search nothing.
Expand ==
  /\ Act
  /\ run = idle /\ Len(cells) > Len(Hunks) /\ gap = "none"
  /\ gap' = "lines"
  /\ UNCHANGED <<search, hits, cells, run, runs, unsearched>>

ExpandedLines(previews) ==
  /\ gap = "lines"
  /\ gap' = IF previews THEN "previews" ELSE "none"
  /\ cells' = Redrawn(1)
  /\ SearchAgain(cells')
  /\ UNCHANGED <<search, run, runs, acts>>

ExpandedPreviews ==
  /\ gap = "previews"
  /\ gap' = "none"
  /\ cells' = Redrawn(0)
  /\ unsearched' = TRUE
  /\ UNCHANGED <<search, hits, run, runs, acts>>

--------------------------------------------------------------------------------
Init ==
  /\ searchOpen = FALSE /\ input = "" /\ changedOnly = FALSE /\ searchTimer = FALSE
  /\ searchHits = <<>> /\ searchIndex = 0 /\ counter = [current |-> 0, total |-> 0]
  /\ cells = <<>> /\ run = idle /\ runs = 0 /\ gap = "none" /\ unsearched = FALSE
  /\ acts = 0

Next ==
  \/ openSearch \/ closeSearch \/ Timer \/ option
  \/ \E pattern \in Patterns : type(pattern)
  \/ \E delta \in {-1, 1} : stepSearch(delta)
  \/ Compare \/ Page \/ Resume \/ StreamEnds \/ Fails \/ ContextLines \/ Finish
  \/ Expand \/ ExpandedPreviews
  \/ \E previews \in BOOLEAN : ExpandedLines(previews)

Spec == Init /\ [][Next]_vars

--------------------------------------------------------------------------------
(* Properties. *)

\* While the search is open, nothing is under way and no drawing went without a
\* search after it, each hit is a line that is on the screen, all of them are
\* counted up to the cap, and the counter tells the place of the current one: also
\* when a comparison replaced the result, in slices, while the reader typed
\* (app.js:6500-6680, 3005-3035, 6337-6365, 2510-2565).
HitsAreOfScreen ==
  searchOpen /\ ~searchTimer /\ run = idle /\ gap = "none" /\ ~unsearched =>
    /\ searchHits = matches(cells, input, changedOnly)
    /\ counter = [current |-> searchIndex, total |-> Len(searchHits)]
    /\ searchIndex \in (IF searchHits = <<>> THEN {0} ELSE 1 .. Len(searchHits))
================================================================================
