------------------------- MODULE RecomputeCoordinator -------------------------
(***************************************************************************)
(* internal/server/web/optimistic.js, createRecomputeCoordinator: folds    *)
(* requests for a re-computation into one run in flight and at most one    *)
(* trailing run.                                                           *)
(*                                                                         *)
(* The browser runs one callback at a time, so an action is what happens   *)
(* between two awaits.  start() runs up to `await run()`; Finish is the    *)
(* rest of it, when run() resolved.                                        *)
(*                                                                         *)
(* owed, again and inFlight are history: no operation reads them.          *)
(***************************************************************************)
EXTENDS Naturals

CONSTANT MaxRuns    \* runCount is counted up to here and no further

ASSUME BoundAssumption == MaxRuns \in Nat

VARIABLES
  timer,      \* timer # null
  running,
  dirty,
  disposed,
  runCount,
  owed,       \* request() or flush() asked for a run that has not begun
  again,      \* the last run answered "busy"
  inFlight    \* the calls of run() that have not resolved

vars == <<timer, running, dirty, disposed, runCount, owed, again, inFlight>>

Flags ==
  /\ timer \in BOOLEAN
  /\ running \in BOOLEAN
  /\ dirty \in BOOLEAN
  /\ disposed \in BOOLEAN
  /\ owed \in BOOLEAN
  /\ again \in BOOLEAN

TypeOK ==
  /\ Flags
  /\ runCount \in 0 .. MaxRuns
  /\ inFlight \in Nat

Init ==
  /\ timer = FALSE
  /\ running = FALSE
  /\ dirty = FALSE
  /\ disposed = FALSE
  /\ runCount = 0
  /\ owed = FALSE
  /\ again = FALSE
  /\ inFlight = 0

\* start() up to its await; the callers have ended the timer.
start ==
  IF disposed \/ running
  THEN UNCHANGED <<running, owed, again, inFlight>>
  ELSE /\ running' = TRUE
       /\ owed' = FALSE
       /\ again' = FALSE
       /\ inFlight' = inFlight + 1

\* Faulty: a request made while a run is in flight counts as served by it.
RequestDuringRunIgnored ==
  IF disposed
  THEN UNCHANGED vars
  ELSE /\ timer' = (timer \/ ~running)
       /\ owed' = TRUE
       /\ UNCHANGED <<running, dirty, disposed, runCount, again, inFlight>>

\* request(): while a run is in flight it raises the flag, otherwise it arms the
\* timer, or arms it anew.
Request ==
  IF disposed
  THEN UNCHANGED vars
  ELSE /\ dirty' = (dirty \/ running)
       /\ timer' = (timer \/ ~running)
       /\ owed' = TRUE
       /\ UNCHANGED <<running, disposed, runCount, again, inFlight>>

\* fire(): the timer ran out.
Fire ==
  /\ timer
  /\ timer' = FALSE
  /\ dirty' = (dirty \/ (running /\ ~disposed))
  /\ start
  /\ UNCHANGED <<disposed, runCount>>

\* Faulty: the flag is cleared and no timer armed for it.
FinishDropsFlag(outcome) ==
  /\ running
  /\ running' = FALSE
  /\ inFlight' = inFlight - 1
  /\ again' = FALSE
  /\ dirty' = FALSE
  /\ UNCHANGED <<timer, disposed, runCount, owed>>

\* The finally block of start(): a dirty or a "busy" run arms the timer again.
Finish(outcome) ==
  /\ running
  /\ running' = FALSE
  /\ inFlight' = inFlight - 1
  /\ runCount' = IF runCount < MaxRuns THEN runCount + 1 ELSE runCount
  /\ again' = (outcome = "busy")
  /\ IF ~disposed /\ (dirty \/ outcome = "busy")
     THEN timer' = TRUE /\ dirty' = FALSE
     ELSE UNCHANGED <<timer, dirty>>
  /\ UNCHANGED <<disposed, owed>>

\* cancel(): what was asked for is no longer wanted; a run in flight ends.
Cancel ==
  /\ timer' = FALSE
  /\ dirty' = FALSE
  /\ owed' = FALSE
  /\ UNCHANGED <<running, disposed, runCount, again, inFlight>>

\* Faulty: flush() calls run() itself, whether or not one is in flight.
FlushAtOnce ==
  /\ ~disposed
  /\ timer' = FALSE
  /\ running' = TRUE
  /\ inFlight' = inFlight + 1
  /\ owed' = FALSE
  /\ UNCHANGED <<dirty, disposed, runCount, again>>

\* flush(): run now, or right after the run in flight.
Flush ==
  /\ ~disposed
  /\ timer' = FALSE
  /\ IF running
     THEN /\ dirty' = TRUE
          /\ owed' = TRUE
          /\ UNCHANGED <<running, again, inFlight>>
     ELSE /\ start
          /\ UNCHANGED dirty
  /\ UNCHANGED <<disposed, runCount>>

\* dispose(): a run in flight is left to end by itself.
Dispose ==
  /\ disposed' = TRUE
  /\ timer' = FALSE
  /\ dirty' = FALSE
  /\ owed' = FALSE
  /\ UNCHANGED <<running, runCount, again, inFlight>>

Outcomes == {"done", "failed", "busy"}

Next ==
  \/ Request
  \/ Fire
  \/ \E outcome \in Outcomes : Finish(outcome)
  \/ Cancel
  \/ Flush
  \/ Dispose

Spec == Init /\ [][Next]_vars

\* A timer that is armed fires, and run() resolves: the browser's event loop and
\* the request's own end see to it.  Nothing makes a user ask for a run.
FairSpec ==
  /\ Spec
  /\ WF_vars(Fire)
  /\ WF_vars(\E outcome \in Outcomes : Finish(outcome))

-------------------------------------------------------------------------------
\* At most one run is in flight, whatever mixture of timers, requests and
\* flushes asks for one.
SingleFlight ==
  /\ inFlight <= 1
  /\ running <=> inFlight = 1

\* "So the final edit is not lost": whatever was asked for and has not been
\* begun has something pending that will begin it, and the coordinator never
\* waits for a timer and a run at once.
NothingForgotten ==
  /\ owed => timer \/ (running /\ dirty)
  /\ ~(timer /\ running)

\* After dispose() no run begins, though one in flight may still end.
DisposedStaysQuiet == [][disposed => inFlight' <= inFlight /\ ~timer']_vars
===============================================================================
