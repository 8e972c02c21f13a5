----------------------------- MODULE ContinuousView -----------------------------
(***************************************************************************)
(* The continuous view of a folder comparison: app.js with continuous.js.  *)
(*                                                                         *)
(* Every differing file is a section of one long scroll.  The sections     *)
(* around the one being read are fetched; those far away are released when *)
(* more than Limit are held.  The section being read follows the scroll    *)
(* position a little later, and navigation sets it before it scrolls.      *)
(*                                                                         *)
(* A scroll is cut off at the end of the list, and one that moves nothing  *)
(* is no event; the sections' heights change under the reader as bodies    *)
(* come and go.  adrift remembers that the reading line has come to        *)
(* another section than the one taken to be read without an event.         *)
(*                                                                         *)
(* Opening the view again, after a change of the filter for one, makes a   *)
(* new one, whose sections are drawn in slices; what was asked for an      *)
(* older one is still answered.  An action is what runs without giving the *)
(* thread back.                                                            *)
(***************************************************************************)
EXTENDS Integers, FiniteSets, FiniteSetsExt

CONSTANTS
  Sizes,  \* how many differing files a filter can leave
  Limit,  \* CONTINUOUS_LOADED_LIMIT, not less than the window
  Ahead, Behind,  \* of windowAround
  MaxActs  \* bound: user actions and changes of heights

VARIABLES
  view,       \* the number of the view; 0 without one
  open,
  size,       \* its sections: 0 .. size - 1
  built,      \* how many of them are drawn
  loaded, pending, collapsed,
  focus,
  top,        \* the section at the reading line
  frame,      \* the timer that follows the scroll
  adrift,     \* history: the reading line has left the focus unnoticed
  requests,   \* in flight: view and section
  acts
vars == <<view, open, size, built, loaded, pending, collapsed, focus, top, frame, adrift, requests,
          acts>>

Sections == 0 .. size - 1
Built == 0 .. built - 1
Dist(a, b) == IF a < b THEN b - a ELSE a - b

--------------------------------------------------------------------------------
(* continuous.js *)

windowAround(at) == {k \in Sections : at - Behind <= k /\ k <= at + Ahead}

\* Faulty: the nearest first.
unloadNearest(held, at) ==
  LET before(a) == Cardinality({b \in held \ {at} : Dist(b, at) < Dist(a, at)})
  IN  {k \in held \ {at} : before(k) < Cardinality(held) - Limit}

\* unloadTargets: the farthest first, and the earlier of two as far.
unloadTargets(held, at) ==
  LET farther(a, b) == Dist(a, at) > Dist(b, at) \/ (Dist(a, at) = Dist(b, at) /\ a < b)
      before(a) == Cardinality({b \in held \ {at} : farther(b, a)})
  IN  {k \in held \ {at} : before(k) < Cardinality(held) - Limit}

--------------------------------------------------------------------------------
Act == acts < MaxActs /\ acts' = acts + 1

\* loadContinuousSection, up to its request: of a section that is drawn.
Loading(which, held) ==
  LET new == {k \in which : k \notin held /\ k \notin pending /\ k \notin collapsed}
  IN  /\ pending' = pending \cup new
      /\ requests' = requests \cup {[view |-> view, section |-> k] : k \in new}

\* focusContinuousSection
focusContinuousSection(k, drawn) ==
  /\ focus' = k
  /\ Loading(windowAround(k) \cap drawn, loaded)
  /\ loaded' = loaded \ unloadTargets(loaded, k)

\* The reading line comes to a section, by an event or without one.
LineAt(to, event) ==
  /\ top' = to
  /\ frame' = (frame \/ event)
  /\ adrift' = (adrift \/ (~event /\ to # focus'))

\* scrollContinuousInto, for a place in section k: upwards it gets there, downwards as
\* far as the list goes.  What moves the reading line is an event.
scrollContinuousInto(k) ==
  \E to \in IF k < top THEN {k} ELSE top .. k, event \in BOOLEAN :
    (to # top => event) /\ LineAt(to, event)

\* renderContinuous, up to the end of its first slice: after a toggle of the view or a
\* change of the filter.  Where the result was scrolled to before may show.
Open(n) ==
  /\ Act
  /\ view' = view + 1 /\ open' = TRUE /\ size' = n
  /\ built' \in IF n = 0 THEN {0} ELSE 1 .. n
  /\ focus' = 0 /\ loaded' = {} /\ collapsed' = {}
  /\ top' \in {0} \cup Built'
  /\ frame' \in {FALSE, n > 0}
  /\ adrift' = (top' # 0)
  /\ pending' = IF built' = n THEN {k \in 0 .. n - 1 : k <= Ahead} ELSE {}
  /\ requests' = requests \cup {[view |-> view + 1, section |-> k] : k \in pending'}

\* renderInSlices goes on; after the last slice the first section is taken to be read.
Draw(n) ==
  /\ open /\ built < n /\ n <= size
  /\ built' = n
  /\ IF n = size
     THEN focusContinuousSection(0, Sections) /\ adrift' = (adrift \/ top # 0)
     ELSE UNCHANGED <<loaded, pending, focus, requests, adrift>>
  /\ UNCHANGED <<view, open, size, collapsed, top, frame, acts>>

\* teardownContinuousView
Close ==
  /\ Act
  /\ open
  /\ open' = FALSE /\ frame' = FALSE
  /\ UNCHANGED <<view, size, built, loaded, pending, collapsed, focus, top, adrift, requests>>

\* The reader scrolls, which is an event; or bodies come and go or the pane gets another
\* width, and the browser keeps what is read in place, by an event, or not.
Scroll(to, event) ==
  /\ Act
  /\ open /\ to \in Built /\ to # top
  /\ UNCHANGED <<view, open, size, built, loaded, pending, collapsed, focus, requests>>
  /\ LineAt(to, event)

\* The timer of trackContinuousScroll: sectionAt the scroll position; primeContinuousWindow.
trackContinuousScroll ==
  /\ open /\ frame
  /\ frame' = FALSE /\ adrift' = FALSE
  /\ IF top # focus THEN focusContinuousSection(top, Built)
     ELSE Loading(windowAround(focus) \cap Built, loaded) /\ UNCHANGED <<focus, loaded>>
  /\ UNCHANGED <<view, open, size, built, collapsed, top, acts>>

\* The section's load is under way by the time it would be awaited, so that nothing is
\* waited for.
continuousGoToSection(k) ==
  /\ focusContinuousSection(k, Built)
  /\ scrollContinuousInto(k)

\* A marker of the minimap, "first" and "last".
Jump(k) ==
  /\ Act
  /\ open /\ k \in Built
  /\ continuousGoToSection(k)
  /\ UNCHANGED <<view, open, size, built, collapsed>>

\* continuousStep: to a hunk of the section being read, or at its edge to the next.
continuousStep(direction) ==
  /\ Act
  /\ open
  /\ \/ /\ focus \in loaded \ collapsed
        /\ UNCHANGED <<loaded, pending, focus, requests>>
        /\ scrollContinuousInto(focus)
     \/ /\ focus + direction \in Built
        /\ continuousGoToSection(focus + direction)
  /\ UNCHANGED <<view, open, size, built, collapsed>>

\* toggleContinuousSection: collapsing releases the section, opening fetches it.
toggleContinuousSection(k) ==
  /\ Act
  /\ open /\ k \in Built
  /\ IF k \in collapsed
     THEN /\ collapsed' = collapsed \ {k}
          /\ IF k \in loaded \cup pending THEN UNCHANGED <<pending, requests>>
             ELSE /\ pending' = pending \cup {k}
                  /\ requests' = requests \cup {[view |-> view, section |-> k]}
          /\ UNCHANGED loaded
     ELSE /\ collapsed' = collapsed \cup {k}
          /\ loaded' = loaded \ {k}
          /\ UNCHANGED <<pending, requests>>
  /\ UNCHANGED <<view, open, size, built, focus, top, frame, adrift>>

\* The answer of loadContinuousSection.  A file that cannot be read counts as loaded,
\* and nothing is released for it.
Answer(r, ok) ==
  /\ r \in requests
  /\ requests' = requests \ {r}
  /\ IF open /\ r.view = view
     THEN LET held == loaded \cup {r.section}
          IN  /\ loaded' = IF ok THEN held \ unloadTargets(held, focus) ELSE held
              /\ pending' = pending \ {r.section}
     ELSE UNCHANGED <<loaded, pending>>
  /\ UNCHANGED <<view, open, size, built, collapsed, focus, top, frame, adrift, acts>>

--------------------------------------------------------------------------------
Init ==
  /\ view = 0 /\ open = FALSE /\ size = 0 /\ built = 0
  /\ loaded = {} /\ pending = {} /\ collapsed = {}
  /\ focus = 0 /\ top = 0 /\ frame = FALSE /\ adrift = FALSE
  /\ requests = {} /\ acts = 0

Next ==
  \/ \E n \in Sizes : Open(n)
  \/ Close \/ trackContinuousScroll
  \/ \E n \in built + 1 .. size : Draw(n)
  \/ \E k \in Built, event \in BOOLEAN : Scroll(k, event)
  \/ \E k \in Built : Jump(k) \/ toggleContinuousSection(k)
  \/ \E direction \in {-1, 1} : continuousStep(direction)
  \/ \E r \in requests, ok \in BOOLEAN : Answer(r, ok)

Spec == Init /\ [][Next]_vars

--------------------------------------------------------------------------------
(* Properties. *)

Quiet == open /\ built = size /\ ~frame /\ pending = {}

\* When nothing is under way, the section taken to be read and the sections around it that
\* are not collapsed are there, whatever was released, collapsed or scrolled past
\* meanwhile; and it is the one at the reading line, unless that went elsewhere without
\* an event since the scroll was last followed: a jump past the end of the list, a change
\* of heights or a scroll before the list was drawn (app.js:991-1034, 1083-1103,
\* 1230-1262).
ReadingIsReady ==
  Quiet /\ size > 0 =>
    /\ windowAround(focus) \ collapsed \subseteq loaded
    /\ adrift \/ focus = top
=============================================================================
