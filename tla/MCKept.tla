-------------------------------- MODULE MCKept --------------------------------
(***************************************************************************)
(* What outlives a process or a page, in one instance for TLC: a file that *)
(* is replaced, under a power loss, and the comparisons that tabs, history *)
(* and store remember, under a reload.  They share no state; part says     *)
(* whose behaviour it is.                                                  *)
(***************************************************************************)
EXTENDS AtomicFile, Naturals, Sequences

CONSTANTS
  Cmps, None, Conds, Cond0, StoreLimit, UrlTabs, Tasks, MaxTabs, MaxActs \* of CompareSession

VARIABLES part, page, entries, entry, store, defaults, tasks, acts, goal

Session == INSTANCE CompareSession WITH at <- entry

ASSUME CallsCanBegin == Session!SessionAssumption

sessionVars == <<page, entries, entry, store, defaults, tasks, acts, goal>>
keptVars == <<part, vars, sessionVars>>

\* A file's behaviours begin with a first visit of the page.
KeptInit ==
  /\ part \in {"file", "session"}
  /\ Init
  /\ Session!Init
  /\ part = "file" => Len(entries) = 1

FileStep == part = "file" /\ Next /\ UNCHANGED <<part, sessionVars>>

ForSession == part = "session" /\ UNCHANGED <<part, vars>>
SessionStep == ForSession /\ Session!Next

KeptNext == FileStep \/ SessionStep

\* The fairness of CompareSession.
KeptFairness ==
  /\ WF_keptVars(ForSession /\ Session!UrlTimer)
  /\ WF_keptVars(ForSession /\ Session!RunTimer)
  /\ \A t \in Tasks : WF_keptVars(ForSession /\ Session!GoesOn(t))

KeptSpec == KeptInit /\ [][KeptNext]_keptVars /\ KeptFairness

--------------------------------------------------------------------------------
\* Every entry of the history that carries its tabs says of the active one what it
\* says of the comparison, and no two of its tabs have one id (tabs.js:84-151,
\* app.js:1986-2035).
EntriesAgree == part = "session" => Session!EntriesAgree

\* However switches, restores, comparisons and reloads overlap: when nothing runs any
\* more, the form is at what was asked for last and nothing is held back
\* (app.js:1986-2060).
RestoresSettle == part = "session" => Session!RestoresSettle

\* A call of the page that waits, waits no longer at last (app.js:1986-2060).
CallsEnd == Session!CallsEnd
===============================================================================
