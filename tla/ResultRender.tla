----------------------------- MODULE ResultRender -----------------------------
(***************************************************************************)
(* How a comparison's result gets onto the screen: runCompare,             *)
(* compareThreeWay and rerenderForDisplayChange of app.js, and the render  *)
(* gate of renderqueue.js.                                                 *)
(*                                                                         *)
(* A text comparison is streamed: its hunks come in pages, several lines   *)
(* to a chunk, and each page is painted before the next line is looked at. *)
(* A three-way comparison comes whole.  Painting is done in slices; the    *)
(* browser gets the thread back between two of them, and Cancel or a       *)
(* change of the display options may come then.  An action is what runs    *)
(* without giving the thread back.                                         *)
(*                                                                         *)
(* Left out: the summary, the minimap and the panels; the provisional      *)
(* render of a line edit, which LineEdit models; CSV and folders.          *)
(***************************************************************************)
EXTENDS Naturals, Sequences

CONSTANTS
  PageSets,   \* what the server may answer: the hunks of every page
  MaxRuns,    \* bound: comparisons
  MaxActs     \* bound: clicks on Cancel and changes of the display options

VARIABLES
  runs,       \* comparisons so far
  run,        \* the one that holds the lock, or idle
  gate,       \* renderGate
  renders,    \* the renders that gave the thread back
  screen,     \* the hunks on the screen, in order
  lastData,   \* the hunks of the last diff response, or none
  threeWay,   \* the events of the last three-way response, or none
  outcome,    \* what the last comparison was reported as
  acts,
  disturbed   \* history: what came between, since the last comparison began

vars == <<runs, run, gate, renders, screen, lastData, threeWay, outcome, acts, disturbed>>

none == [none |-> TRUE]
idle == [pc |-> "idle"]

\* n hunks of the running comparison, the first of them its hunk from.
Of(from, n) == [k \in 1 .. n |-> [run |-> runs, at |-> from + k]]

--------------------------------------------------------------------------------
(* createRenderGate *)

begin(g) == [token |-> g.token + 1, cancelled |-> FALSE]
cancel(g) == [token |-> g.token + 1, cancelled |-> TRUE]
isCurrent(g, token) == token = g.token

\* renderInSlices, up to its first yield or its end: some of the items are
\* appended, at least one; what is left waits for the thread.
Slice(by, token, items) ==
  \E n \in 1 .. Len(items) :
    /\ screen' = (IF by.clears THEN <<>> ELSE screen) \o SubSeq(items, 1, n)
    /\ renders' = (renders \ {by}) \cup
         (IF n = Len(items) THEN {}
          ELSE {[by |-> by.by, token |-> token, left |-> SubSeq(items, n + 1, Len(items)),
                 clears |-> FALSE]})

renderInSlices(by, clears, items) ==
  /\ gate' = begin(gate)
  /\ Slice([by |-> by, clears |-> clears], gate.token + 1, items)

Painting(by) == \E r \in renders : r.by = by

\* renderResult and renderThreeWay clear the screen first; an empty result is a
\* card, and begins no render.
renderAll(by, items) ==
  \/ items # <<>> /\ renderInSlices(by, TRUE, items)
  \/ items = <<>> /\ screen' = <<>> /\ UNCHANGED <<gate, renders>>

--------------------------------------------------------------------------------
(* The comparison. *)

\* runExclusive(compare).  A text comparison drops the last response and clears the
\* screen, a three-way comparison, which comes whole, leaves both until its answer.
\* A restore of the address has cancelled whatever ran before.
Compare(kind, restoring) ==
  /\ run = idle
  /\ runs < MaxRuns
  /\ runs' = runs + 1
  /\ \E pages \in PageSets :
       /\ kind = "three" => Len(pages) = 1
       /\ run' = [pc |-> "reading", kind |-> kind, pages |-> pages, buffer |-> 0, handled |-> 0,
                  got |-> <<>>, rendered |-> 0, aborted |-> FALSE]
  /\ screen' = IF kind = "text" THEN <<>> ELSE screen
  /\ lastData' = IF kind = "text" THEN none ELSE lastData
  /\ gate' = IF restoring THEN cancel(gate) ELSE gate
  /\ outcome' = [what |-> "running"]
  /\ disturbed' = IF renders = {} THEN {} ELSE {"toggle"}
  /\ UNCHANGED <<renders, threeWay, acts>>

End(what) ==
  /\ run' = idle
  /\ outcome' = [what |-> what, kind |-> run.kind, result |-> run.got]

Reading == run.pc = "reading" /\ ~Painting("run")

\* The reader is given a chunk: one line of the stream or more.
Chunk ==
  /\ Reading /\ run.kind = "text" /\ run.buffer = 0 /\ ~run.aborted
  /\ \E n \in 1 .. Len(run.pages) - run.handled : run' = [run EXCEPT !.buffer = n]
  /\ UNCHANGED <<runs, gate, renders, screen, lastData, threeWay, outcome, acts, disturbed>>

\* applyDiffStreamEvent, of a page: it is added to the result and painted behind
\* what is there; the first one clears the screen.  Only a page that was painted
\* to its end moves the index the next one starts from.
Page(n) ==
  /\ IF n = 0
     THEN UNCHANGED <<gate, renders>> /\ screen' = IF run.handled = 0 THEN <<>> ELSE screen
     ELSE renderInSlices("run", run.handled = 0, Of(run.rendered, n))
  /\ run' = [run EXCEPT !.buffer = @ - 1, !.handled = @ + 1, !.got = @ \o Of(Len(@), n),
                        !.rendered = IF Painting("run")' THEN @ ELSE @ + n]
  /\ UNCHANGED <<runs, lastData, threeWay, outcome, acts, disturbed>>

\* Faulty: the next line is looked at while the page is still being painted.
LineWithoutAwait ==
  /\ run.pc = "reading" /\ run.buffer > 0
  /\ Page(run.pages[run.handled + 1])

Line ==
  /\ Reading /\ run.buffer > 0
  /\ Page(run.pages[run.handled + 1])

\* The stream ended.  readDiffStream returns the response it was to assemble, which
\* none of its events was added to; an empty result is a card, another one waits
\* for the lines around its hunks.
StreamEnds ==
  /\ Reading /\ run.kind = "text" /\ run.handled = Len(run.pages) /\ run.buffer = 0
  /\ lastData' = [hunks |-> <<>>]
  /\ threeWay' = none
  /\ IF run.got = <<>>
     THEN End(IF gate.cancelled THEN "cancelled" ELSE "finished")
     ELSE run' = [run EXCEPT !.pc = "context"] /\ UNCHANGED outcome
  /\ UNCHANGED <<runs, gate, renders, screen, acts, disturbed>>

ContextLoaded ==
  /\ run.pc = "context"
  /\ End(IF gate.cancelled THEN "cancelled" ELSE "finished")
  /\ UNCHANGED <<runs, gate, renders, screen, lastData, threeWay, acts, disturbed>>

\* The three-way response, and renderThreeWay up to its first yield.
ThreeWayAnswer ==
  /\ Reading /\ run.kind = "three" /\ ~run.aborted /\ run.got = <<>>
  /\ LET events == Of(0, run.pages[1])
     IN  /\ threeWay' = [hunks |-> events]
         /\ lastData' = [hunks |-> events]
         /\ renderAll("run", events)
         /\ IF Painting("run")'
            THEN run' = [run EXCEPT !.got = events] /\ UNCHANGED outcome
            ELSE run' = idle /\ outcome' = [what |-> "finished", kind |-> "three", result |-> events]
  /\ UNCHANGED <<runs, acts, disturbed>>

\* The request was aborted, refused, or reported an error: what the reader still
\* holds is handled first.
Fails ==
  /\ Reading /\ run.buffer = 0
  /\ End(IF run.aborted THEN "cancelled" ELSE "failed")
  /\ UNCHANGED <<runs, gate, renders, screen, lastData, threeWay, acts, disturbed>>

\* A render gets the thread again: it stops if a later one, or Cancel, made it
\* stale; else it appends a slice.
Resume(r) ==
  LET stopped == ~isCurrent(gate, r.token)
      n == IF run.kind = "text" THEN run.pages[run.handled] ELSE 0
  IN  /\ IF stopped THEN renders' = renders \ {r} /\ UNCHANGED screen
         ELSE Slice(r, r.token, r.left)
      /\ IF r.by = "display" \/ Painting("run")' THEN UNCHANGED <<run, outcome>>
         ELSE IF run.kind = "text"
         THEN run' = [run EXCEPT !.rendered = IF stopped THEN @ ELSE @ + n] /\ UNCHANGED outcome
         ELSE End(IF stopped /\ gate.cancelled THEN "cancelled" ELSE "finished")
      /\ UNCHANGED <<runs, gate, lastData, threeWay, acts, disturbed>>

--------------------------------------------------------------------------------
(* The user. *)

\* cancelCurrentOperation, whose button is there while the comparison runs.
Cancel ==
  /\ run # idle
  /\ acts < MaxActs
  /\ acts' = acts + 1
  /\ run' = [run EXCEPT !.aborted = TRUE]
  /\ gate' = cancel(gate)
  /\ disturbed' = disturbed \cup {"cancel"}
  /\ UNCHANGED <<runs, renders, screen, lastData, threeWay, outcome>>

\* rerenderForDisplayChange: what the last response is thought to be is painted
\* anew, whatever runs.
DisplayChange ==
  /\ acts < MaxActs
  /\ acts' = acts + 1
  /\ disturbed' = disturbed \cup {IF run = idle THEN "redraw" ELSE "toggle"}
  /\ IF threeWay # none THEN renderAll("display", threeWay.hunks)
     ELSE IF lastData # none THEN renderAll("display", lastData.hunks)
     ELSE UNCHANGED <<gate, renders, screen>>
  /\ lastData' = IF threeWay # none THEN threeWay ELSE lastData
  /\ UNCHANGED <<runs, run, threeWay, outcome>>

Init ==
  /\ runs = 0 /\ run = idle
  /\ gate = [token |-> 0, cancelled |-> FALSE]
  /\ renders = {} /\ screen = <<>>
  /\ lastData = none /\ threeWay = none
  /\ outcome = [what |-> "running"]
  /\ acts = 0 /\ disturbed = {}

Next ==
  \/ \E kind \in {"text", "three"}, restoring \in BOOLEAN : Compare(kind, restoring)
  \/ Chunk \/ Line \/ StreamEnds \/ ContextLoaded \/ ThreeWayAnswer \/ Fails
  \/ \E r \in renders : Resume(r)
  \/ Cancel \/ DisplayChange

Spec == Init /\ [][Next]_vars

--------------------------------------------------------------------------------
Settled == run = idle /\ renders = {} /\ outcome.what = "finished"

\* Once a comparison is reported as finished, the screen ends with its hunks, all of
\* them and in their order: when nothing came between, however its lines were cut
\* into chunks and its pages into slices; a three-way result that has events also
\* when the display options were changed, during the comparison or after it.
FinishedIsShown ==
  Settled /\ (\/ disturbed = {}
              \/ /\ outcome.kind = "three" /\ outcome.result # <<>>
                 /\ "cancel" \notin disturbed) =>
    screen = outcome.result

\* app.js:8259-8263: a change of the display options redraws the current result.
RedrawShowsResult ==
  Settled /\ disturbed \subseteq {"redraw"} => screen = outcome.result
=============================================================================
