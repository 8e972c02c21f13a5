-------------------------------- MODULE MCLive --------------------------------
(***************************************************************************)
(* What happens by itself, in one instance for TLC: the coordinator of     *)
(* re-comparisons with any caller, the line editor, which has a            *)
(* coordinator of its own, the watch for external changes, and the tabs'   *)
(* leases on their server.  A behaviour is that of one of them: part says  *)
(* whose, and the others stay as they began.  The coordinator's invariants *)
(* are asked of the line editor's, too.                                    *)
(***************************************************************************)
EXTENDS RecomputeCoordinator

CONSTANTS
  Lines, Texts, Loaded, Nothing,  \* of LineEdit
  MaxContent, MaxOthers,          \* of FileWatch
  Tabs, LeaseTimeout, CloseGrace, DefaultGrace, Interval, Delay, MaxNow, MaxActs  \* of BrowserLease

ASSUME LineAssumption ==
  /\ Loaded \in Texts
  /\ Nothing \notin Texts \cup Lines

ASSUME WatchAssumption == MaxContent \in Nat \ {0} /\ MaxOthers \in Nat

VARIABLES
  part,
  editing, lines, screen, editor, composing, editOp, editAt, sent, dropped,
  disk, newest, shown, auto, watch, reply, pending, debounce, bar,
  buffer, loaded, reopen, op, others, at, base, text, missed,
  now, sessions, emptyDeadline, wake, pc, delay, due, shutdown, tabsShown, crashed, beat,
  mail, acts, heard, left, served

Editor == INSTANCE LineEdit WITH buffer <- lines, op <- editOp, at <- editAt
Watch == INSTANCE FileWatch
Lease == INSTANCE BrowserLease WITH shown <- tabsShown

ASSUME LeaseTimes == Lease!LeaseAssumption

editorVars == <<editing, lines, screen, editor, composing, editOp, editAt, sent, dropped>>
watchVars ==
  <<disk, newest, shown, auto, watch, reply, pending, debounce, bar,
    buffer, loaded, reopen, op, others, at, base, text, missed>>
leaseVars ==
  <<now, sessions, emptyDeadline, wake, pc, delay, due, shutdown, tabsShown, crashed, beat,
    mail, acts, heard, left, served>>
liveVars == <<part, vars, editorVars, watchVars, leaseVars>>

--------------------------------------------------------------------------------
LiveInit ==
  /\ part \in {"coordinator", "editor", "watch", "lease"}
  /\ Init /\ Editor!Init /\ Watch!Init /\ Lease!Init

\* Whose step it is; the others rest.
ForCoordinator == part = "coordinator" /\ UNCHANGED <<part, editorVars, watchVars, leaseVars>>
ForEditor == part = "editor" /\ UNCHANGED <<part, watchVars, leaseVars>>
ForWatch == part = "watch" /\ UNCHANGED <<part, vars, editorVars, leaseVars>>
ForLease == part = "lease" /\ UNCHANGED <<part, vars, editorVars, watchVars>>

CoordinatorStep == ForCoordinator /\ Next
EditorStep == ForEditor /\ Editor!Next
WatchStep == ForWatch /\ Watch!Next
LeaseStep == ForLease /\ Lease!Next

\* The server has been stopped, or time is up; short of that it never stands still.
LeaseEnds == ForLease /\ (shutdown \/ now = MaxNow) /\ UNCHANGED leaseVars

LiveNext ==
  \/ CoordinatorStep
  \/ EditorStep
  \/ WatchStep
  \/ LeaseStep
  \/ LeaseEnds

\* The fairness of RecomputeCoordinator, for its part ...
CoordinatorFairness ==
  /\ WF_liveVars(ForCoordinator /\ Fire)
  /\ WF_liveVars(ForCoordinator /\ \E outcome \in Outcomes : Finish(outcome))

\* ... and of FileWatch.
WatchFairness ==
  /\ WF_liveVars(ForWatch /\ Watch!WatchSees)
  /\ WF_liveVars(ForWatch /\ Watch!Deliver)
  /\ WF_liveVars(ForWatch /\ (Watch!FlushAsks \/ Watch!FlushReloads))
  /\ WF_liveVars(ForWatch /\ Watch!OtherEnds)
  /\ WF_liveVars(ForWatch /\ Watch!WatchAgain)
  /\ \A c \in {"user", "reload", "save"} :
       WF_liveVars(ForWatch /\ (Watch!Run(c) \/ Watch!Trouble(c)))

LiveSpec == LiveInit /\ [][LiveNext]_liveVars /\ CoordinatorFairness /\ WatchFairness

--------------------------------------------------------------------------------
\* A request is followed by the beginning of a run, unless it is taken back
\* (optimistic.js:47-123).
CoordinatorServes == (part = "coordinator" /\ owed) ~> ~owed

\* The line editor and the lock: when everything is quiet and no comparison was
\* refused, the result on screen is the comparison of the text in the buffers; two
\* comparisons never hold the lock together; a session that ended leaves nothing
\* behind that would compare its buffers (app.js:380-470, 6430-6470).
EditorSafe ==
  part = "editor" =>
    /\ Editor!QuietMeansShown
    /\ Editor!OneComparison
    /\ Editor!NothingPendingWithoutSession

\* The watch: without an edit session a change of the files that the result does
\* not show yet is being noticed, unless somebody was told otherwise, and a bar
\* that is visible has a change to act on (app.js:1500-1600).
WatchSafe ==
  part = "watch" =>
    /\ Watch!ChangeIsNoticed
    /\ Watch!BarHasChange

\* A change of the files reaches the screen without the user's doing
\* (docs/gui.md:351-353).
ChangeIsShown == Watch!ChangeIsShown

\* The server of a GUI session ends when the last tab has gone and the grace has
\* passed, neither earlier nor later (server_lifecycle.go:41-114).
LeaseDecides == Lease!LeaseDecides
===============================================================================
