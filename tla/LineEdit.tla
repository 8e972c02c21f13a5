------------------------------- MODULE LineEdit -------------------------------
(***************************************************************************)
(* internal/server/web/app.js: the line editor of the GUI, the comparison  *)
(* that follows an edit, and the lock both share with every other          *)
(* operation.                                                              *)
(*                                                                         *)
(* A line is edited in a textarea mounted on its cell.  Typing changes the *)
(* edit buffer; closing the editor asks the recompute coordinator for a    *)
(* comparison if the line now differs from what the screen shows.          *)
(* compare() looks at the lock, awaits the condition scope and the watch   *)
(* baseline, looks at the lock again (runExclusive) and only then reads    *)
(* the buffers and empties the result.  Everything between two awaits is   *)
(* one action.                                                             *)
(*                                                                         *)
(* The optimistic paint of a committed line is left out because it does    *)
(* not happen: it needs lastData.hunks, which readDiffStream leaves empty. *)
(*                                                                         *)
(* Bounds: two compare() calls are in their first half at most, one of the *)
(* coordinator's and one of anybody else's.                                *)
(***************************************************************************)
EXTENDS Naturals

CONSTANTS
  Lines,      \* the (side, line) pairs on screen
  Texts,      \* what a line can say
  Loaded,     \* what every line said in the file, one of Texts
  Nothing     \* neither a line nor a text: no editor, no cell

VARIABLES
  editing,    \* editSession # null
  buffer,     \* the lines of the edit buffers
  screen,     \* the text of each line's cell in the result, Nothing without one
  editor,     \* lineEditor, and whether its textarea is still in the document
  composing,  \* editComposing
  op,         \* busyOperation
  at,         \* at[c]: how far the compare() call of c has come
  sent,       \* the lines in the body of the request that holds the lock
  dropped,    \* history: a comparison was refused since the last one began
  timer, running, dirty, disposed, runCount, owed, again, inFlight
              \* editRecompute, a RecomputeCoordinator

coordinator == <<timer, running, dirty, disposed, runCount, owed, again, inFlight>>
session == <<editing, buffer, editor, composing>>
comparison == <<screen, op, at, sent, dropped>>
vars == <<session, comparison, coordinator>>

\* Its run counter is not looked at here, and nothing disposes of it.
Coordinator == INSTANCE RecomputeCoordinator WITH MaxRuns <- 0

Callers == {"run", "user"}
NoEditor == [line |-> Nothing, value |-> Loaded, initial |-> Loaded, live |-> FALSE]
NoCells == [l \in Lines |-> Nothing]
AsLoaded == [l \in Lines |-> Loaded]

TypeOK ==
  /\ editing \in BOOLEAN
  /\ buffer \in [Lines -> Texts]
  /\ screen \in [Lines -> Texts] \cup {NoCells}
  /\ editor \in [line : Lines, value : Texts, initial : Texts, live : BOOLEAN] \cup {NoEditor}
  /\ composing \in BOOLEAN
  /\ op \in {"none", "compare", "other"}
  /\ at \in [Callers -> {"idle", "prepare", "asked", "painted"}]
  /\ sent \in [Lines -> Texts]
  /\ dropped \in BOOLEAN
  /\ Coordinator!TypeOK

Init ==
  /\ editing = FALSE
  /\ buffer = AsLoaded
  /\ screen = AsLoaded
  /\ editor = NoEditor
  /\ composing = FALSE
  /\ op = "none"
  /\ at = [c \in Callers |-> "idle"]
  /\ sent = AsLoaded
  /\ dropped = FALSE
  /\ Coordinator!Init

EditorOpen == editor.line # Nothing

\* What the comparison reads: the buffers while editing, the files otherwise.
Source == IF editing THEN buffer ELSE AsLoaded

\* The buffer with the editor's text committed.
Committed ==
  IF EditorOpen THEN [buffer EXCEPT ![editor.line] = editor.value] ELSE buffer

\* The buffer with the line put back as it was when the editor opened.
Reverted == [buffer EXCEPT ![editor.line] = editor.initial]

\* Faulty: closing compares with the line as it was when the editor opened.
closeIfTyped(b) ==
  /\ buffer' = b
  /\ composing' = FALSE
  /\ IF EditorOpen /\ b[editor.line] # editor.initial /\ ~composing
     THEN Coordinator!Request
     ELSE UNCHANGED coordinator

\* closeLineEditor, leaving buffer b: a comparison is asked for if the line
\* disagrees with the cell on screen.
closeLineEditor(b) ==
  /\ buffer' = b
  /\ composing' = FALSE
  /\ IF EditorOpen /\ b[editor.line] # screen[editor.line]
     THEN Coordinator!Request
     ELSE UNCHANGED coordinator

\* compare() up to its first await: with the lock taken, it is over.
compare(c) ==
  /\ at' = [at EXCEPT ![c] = IF op = "none" THEN "prepare" ELSE @]
  /\ dropped' = (dropped \/ op # "none")
  /\ UNCHANGED <<screen, op, sent>>

-------------------------------------------------------------------------------
\* openLineEditor: an editor that is open is committed first.
OpenEditor(l) ==
  /\ editing
  /\ screen[l] # Nothing
  /\ closeLineEditor(Committed)
  /\ editor' = [line |-> l, value |-> buffer'[l], initial |-> buffer'[l], live |-> TRUE]
  /\ UNCHANGED <<editing, comparison>>

\* An input event: applyLineEdit.
Type(text) ==
  /\ editor.live
  /\ ~composing
  /\ editor' = [editor EXCEPT !.value = text]
  /\ buffer' = [buffer EXCEPT ![editor.line] = text]
  /\ UNCHANGED <<editing, composing, comparison, coordinator>>

\* compositionstart and its inputs change the textarea only.
Compose(text) ==
  /\ editor.live
  /\ composing' = TRUE
  /\ editor' = [editor EXCEPT !.value = text]
  /\ UNCHANGED <<editing, buffer, comparison, coordinator>>

\* compositionend.
EndComposition ==
  /\ editor.live
  /\ composing
  /\ composing' = FALSE
  /\ buffer' = Committed
  /\ UNCHANGED <<editing, editor, comparison, coordinator>>

\* Escape.
RevertEditor ==
  /\ editor.live
  /\ ~composing
  /\ closeLineEditor(Reverted)
  /\ editor' = NoEditor
  /\ UNCHANGED <<editing, comparison>>

\* Enter or blur; or a save, a mode change that is then declined, which commit an
\* editor that has lost its cell, too.
CommitEditor ==
  /\ EditorOpen
  /\ closeLineEditor(Committed)
  /\ editor' = NoEditor
  /\ UNCHANGED <<editing, comparison>>

\* revertLocalChange: the region is found first, then the editor is committed,
\* then the lines are put back.
RevertLocalChange ==
  \E region \in (SUBSET {l \in Lines : buffer[l] # Loaded}) \ {{}} :
    /\ editing
    /\ \A l \in region : screen[l] # Nothing
    /\ buffer' = [l \in Lines |-> IF l \in region THEN Loaded ELSE Committed[l]]
    /\ editor' = NoEditor
    /\ composing' = FALSE
    /\ IF \/ \E l \in region : Committed[l] # Loaded
          \/ EditorOpen /\ Committed[editor.line] # screen[editor.line]
       THEN Coordinator!Request
       ELSE UNCHANGED coordinator
    /\ UNCHANGED <<editing, comparison>>

\* enterEditMode's last part: the buffers are loaded, compare() follows.
EnterEditMode ==
  /\ ~editing
  /\ at["user"] = "idle"
  /\ editing' = TRUE
  /\ buffer' = AsLoaded
  /\ compare("user")
  /\ UNCHANGED <<editor, composing, coordinator>>

\* leaveEditMode, the answer given: closeLineEditor, clearEditSession with its
\* editRecompute.cancel(), compare().
LeaveEditMode ==
  /\ editing
  /\ at["user"] = "idle"
  /\ editing' = FALSE
  /\ buffer' = Committed
  /\ editor' = NoEditor
  /\ composing' = FALSE
  /\ Coordinator!Cancel
  /\ compare("user")

\* The button, Enter in a path field, an option, the watcher.
UserCompare ==
  /\ at["user"] = "idle"
  /\ compare("user")
  /\ UNCHANGED <<session, coordinator>>

-------------------------------------------------------------------------------
\* The coordinator's timer ends and its run answers at once: false while a line
\* editor is open or the session is gone ...
FireRefused ==
  /\ timer
  /\ composing \/ ~editing \/ EditorOpen
  /\ timer' = FALSE
  /\ owed' = FALSE
  /\ again' = FALSE
  /\ dropped' = TRUE
  /\ UNCHANGED <<session, screen, op, at, sent, running, dirty, disposed, runCount, inFlight>>

\* ... "busy" while an operation has the lock, which arms the timer again ...
FireBusy ==
  /\ timer
  /\ ~composing /\ editing /\ ~EditorOpen
  /\ op # "none"
  /\ owed' = FALSE
  /\ again' = TRUE
  /\ UNCHANGED <<session, comparison, timer, running, dirty, disposed, runCount, inFlight>>

\* ... or it calls compare().
FireCompares ==
  /\ ~composing /\ editing /\ ~EditorOpen
  /\ op = "none"
  /\ Coordinator!Fire
  /\ compare("run")
  /\ UNCHANGED session

\* compare() is over for c; the coordinator's run answers what it returned.
answer(c, outcome) ==
  IF c = "run" THEN Coordinator!Finish(outcome) ELSE UNCHANGED coordinator

\* runExclusive finds the lock taken meanwhile.
LoseLock(c) ==
  /\ at[c] = "prepare"
  /\ op # "none"
  /\ at' = [at EXCEPT ![c] = "idle"]
  /\ dropped' = TRUE
  /\ answer(c, "failed")
  /\ UNCHANGED <<session, screen, op, sent>>

\* The result is emptied under an open editor.  Where the browser sends blur to
\* a focused element that is removed, the editor commits, and with its cell gone
\* the line always differs; elsewhere the editor stays, out of the document.
tearEditor ==
  IF ~editor.live
  THEN UNCHANGED <<editor, buffer, composing, coordinator>>
  ELSE \/ /\ buffer' = Committed
          /\ editor' = NoEditor
          /\ composing' = FALSE
          /\ Coordinator!Request
       \/ /\ editor' = [editor EXCEPT !.live = FALSE]
          /\ UNCHANGED <<buffer, composing, coordinator>>

\* runExclusive takes the lock; runCompare reads the buffers, puts the skeleton
\* in the place of the result and sends the request.
Take(c) ==
  /\ at[c] = "prepare"
  /\ op = "none"
  /\ op' = "compare"
  /\ at' = [at EXCEPT ![c] = "asked"]
  /\ sent' = Source
  /\ screen' = NoCells
  /\ dropped' = FALSE
  /\ tearEditor
  /\ UNCHANGED editing

\* The hunks arrive and are rendered.
Paint(c) ==
  /\ at[c] = "asked"
  /\ at' = [at EXCEPT ![c] = "painted"]
  /\ screen' = sent
  /\ UNCHANGED <<session, op, sent, dropped, coordinator>>

\* runCompare returns: true after the rendering, false on an error or a cancel.
Done(c) ==
  /\ \/ at[c] = "painted" /\ answer(c, "done")
     \/ at[c] \in {"asked", "painted"} /\ answer(c, "failed")
  /\ at' = [at EXCEPT ![c] = "idle"]
  /\ op' = "none"
  /\ UNCHANGED <<session, screen, sent, dropped>>

\* An export, a merge, a project save: the other users of the lock.
OtherBegins == op = "none" /\ op' = "other" /\ UNCHANGED <<session, screen, at, sent, dropped, coordinator>>
OtherEnds == op = "other" /\ op' = "none" /\ UNCHANGED <<session, screen, at, sent, dropped, coordinator>>

Edit ==
  \/ \E l \in Lines : OpenEditor(l)
  \/ \E text \in Texts : Type(text) \/ Compose(text)
  \/ EndComposition
  \/ RevertEditor
  \/ CommitEditor
  \/ RevertLocalChange

Run(c) == LoseLock(c) \/ Take(c) \/ Paint(c) \/ Done(c)

Next ==
  \/ Edit
  \/ EnterEditMode
  \/ LeaveEditMode
  \/ UserCompare
  \/ FireRefused
  \/ FireBusy
  \/ FireCompares
  \/ \E c \in Callers : Run(c)
  \/ OtherBegins
  \/ OtherEnds

Spec == Init /\ [][Next]_vars

-------------------------------------------------------------------------------
\* Nothing is on its way: no timer, no comparison, no other operation, no editor.
Quiet ==
  /\ ~timer
  /\ op = "none"
  /\ \A c \in Callers : at[c] = "idle"
  /\ ~EditorOpen

\* When everything is quiet and no comparison was refused, the result on screen
\* is the comparison of the text in the buffers: no commit, revert or discard
\* slipped between a request's snapshot and its answer.
QuietMeansShown ==
  Quiet /\ ~dropped /\ screen # NoCells => screen = Source

\* compare() looks at the lock before and after its awaits: two comparisons, or a
\* comparison and another operation, never hold it together.
OneComparison ==
  \A c \in Callers : at[c] \in {"asked", "painted"} =>
    /\ op = "compare"
    /\ \A d \in Callers \ {c} : at[d] \notin {"asked", "painted"}

\* A session that ended leaves nothing behind that would compare its buffers.
NothingPendingWithoutSession == ~editing => ~timer /\ ~dirty /\ ~EditorOpen

\* "One more run starts so the final edit is not lost" (optimistic.js:73-75, and
\* gui.md, "an edit made while a comparison is running queues one catch-up run"):
\* in a session where everything is quiet, the result shows the edited text.
FinalEditShown ==
  Quiet /\ editing /\ screen # NoCells => screen = buffer
===============================================================================
