---------------------------- MODULE CompareSession ----------------------------
(***************************************************************************)
(* The comparisons of the page: app.js with tabs.js, urlstate.js and       *)
(* comparisonscope.js.  The form holds what the next comparison is of; the *)
(* tabs, the browser's history and the local store remember comparisons    *)
(* and give them back to the form; compare() runs the one in the form.     *)
(*                                                                         *)
(* A comparison is identified by its mode and paths (Cmps); Conds are the  *)
(* values its controls can have.                                           *)
(* An action is what the browser's thread does between two awaits, timers  *)
(* or events.  tasks are the calls that are waiting: for the user's answer *)
(* (guard), for the lock (idle), for the watch baseline (watch), for the   *)
(* server (run).                                                           *)
(*                                                                         *)
(* Left out: scratch texts, the columns that a CSV comparison has to read  *)
(* before its keys are set, the watch itself, and the scroll anchors.      *)
(***************************************************************************)
EXTENDS Naturals, Sequences, SequencesExt

CONSTANTS
  Cmps,         \* mode and paths of a comparison, complete
  None,
  Conds, Cond0, \* the conditions of a comparison, and those of a first visit
  StoreLimit,   \* comparisons the local store remembers
  UrlTabs,      \* tabs that fit in the fragment
  Tasks,
  MaxTabs, MaxActs  \* bounds: tabs, and user actions

\* A call that begins finds a task to wait in.
SessionAssumption == Tasks # {}

VARIABLES
  page,      \* what the page's script holds
  entries,   \* the browser's history: what the fragment of each entry says
  at,        \* the entry shown
  store,     \* localStorage: the comparisons remembered, oldest first
  defaults,  \* localStorage: the promoted conditions
  tasks,
  acts,      \* user actions so far
  goal       \* history: what the user's last action asks to see again, by Back or Forward

vars == <<page, entries, at, store, defaults, tasks, acts, goal>>

NoTask == [pc |-> "none"]

\* tabs.js, emptyDoc.
emptyDoc == [tabs |-> <<>>, active |-> 0]

\* tabs.js, activeTab; the caller knows that there is one.
activeTab(d) == d.tabs[d.active]

\* tabs.js, nextId: "tab-n" is n.
nextId(d) ==
  LET used == {d.tabs[k].id : k \in DOMAIN d.tabs}
      free == {n \in Len(d.tabs) + 1 .. 2 * Len(d.tabs) + 1 : n \notin used}
  IN  CHOOSE n \in free : \A m \in free : n <= m

\* tabs.js, addTab: the new tab is active.
addTab(d, st) ==
  [tabs |-> Append(d.tabs, [id |-> nextId(d), state |-> st]), active |-> Len(d.tabs) + 1]

\* tabs.js, removeTab: the right neighbour of the active tab, or the left one, follows it.
removeTab(d, id) ==
  LET k == CHOOSE n \in DOMAIN d.tabs : d.tabs[n].id = id
      rest == RemoveAt(d.tabs, k)
      next == IF k < d.active THEN d.active - 1 ELSE d.active
  IN  IF \A n \in DOMAIN d.tabs : d.tabs[n].id # id THEN d
      ELSE IF rest = <<>> THEN emptyDoc
      ELSE [tabs |-> rest, active |-> IF next > Len(rest) THEN Len(rest) ELSE next]

\* tabs.js, activateTab.
activateTab(d, id) ==
  IF \E n \in DOMAIN d.tabs : d.tabs[n].id = id
  THEN [d EXCEPT !.active = CHOOSE n \in DOMAIN d.tabs : d.tabs[n].id = id]
  ELSE d

\* tabs.js, updateTab, of the active tab.
updateTab(d, st) == [d EXCEPT !.tabs[d.active].state = st]

--------------------------------------------------------------------------------
(* comparisonscope.js: the store, oldest first. *)

readConditions(s, key) ==
  IF \E n \in DOMAIN s : s[n].key = key
  THEN s[CHOOSE n \in DOMAIN s : s[n].key = key].state
  ELSE None

writeConditions(s, key, st) ==
  LET kept == SelectSeq(s, LAMBDA e : e.key # key)
      all == Append(kept, [key |-> key, state |-> st])
  IN  IF Len(all) > StoreLimit THEN Tail(all) ELSE all

--------------------------------------------------------------------------------
(* What several handlers do to the page.  The browser's history and the    *)
(* store go along in one record, so that the steps can follow each other.  *)

World == [page |-> page, entries |-> entries, at |-> at, store |-> store]

Becomes(w) ==
  /\ page' = w.page
  /\ entries' = w.entries
  /\ at' = w.at
  /\ store' = w.store

captureComparisonState(p) == IF p.form.cmp = None THEN None ELSE p.form

\* rememberActiveTab(state)
rememberActiveTab(d, st) == IF d.tabs = <<>> THEN addTab(d, st) ELSE updateTab(d, st)

\* stashActiveTab()
stashActiveTab(p) ==
  LET st == captureComparisonState(p)
  IN  IF p.doc.tabs = <<>> \/ st = None THEN p ELSE [p EXCEPT !.doc = updateTab(@, st)]

\* The fragment: the comparison, and the set of tabs if it fits.
Fragment(st, d) == [state |-> st, doc |-> IF Len(d.tabs) <= UrlTabs THEN d ELSE None]

\* Faulty: the tab is not told what the address is told.
updateURLOnly(w, action) ==
  LET st == captureComparisonState(w.page)
      next == Fragment(st, w.page.doc)
  IN  IF w.page.restoring \/ action = "none" \/ st = None THEN w
      ELSE IF next = w.entries[w.at] THEN w
      ELSE IF action = "push"
      THEN [w EXCEPT !.entries = Append(SubSeq(@, 1, w.at), next), !.at = @ + 1]
      ELSE [w EXCEPT !.entries[w.at] = next]

\* updateComparisonURL(action)
updateComparisonURL(w, action) ==
  LET st == captureComparisonState(w.page)
      d == rememberActiveTab(w.page.doc, st)
      next == Fragment(st, d)
      remembered == [w EXCEPT !.page.doc = d]
  IN  IF w.page.restoring \/ action = "none" \/ st = None THEN w
      ELSE IF next = w.entries[w.at] THEN remembered
      ELSE IF action = "push"
      THEN [remembered EXCEPT !.entries = Append(SubSeq(@, 1, w.at), next), !.at = @ + 1]
      ELSE [remembered EXCEPT !.entries[w.at] = next]

\* storeComparisonState(key, state)
storeComparisonState(w, key, st) ==
  IF key = None \/ st = None THEN w
  ELSE [w EXCEPT !.store = writeConditions(@, key, st)]

\* applyComparisonState(state), with adoptCurrentComparison() at its end.
applyComparisonState(w, st) ==
  storeComparisonState([w EXCEPT !.page.form = st, !.page.key = st.cmp], st.cmp, st)

\* scopeConditionsForRun(): the conditions the run starts from.
scopeConditionsForRun(w) ==
  LET key == w.page.form.cmp
      remembered == readConditions(w.store, key)
  IN  IF key = None THEN w
      ELSE IF w.page.key \in {None, key} THEN [w EXCEPT !.page.key = key]
      ELSE IF remembered # None THEN applyComparisonState(w, remembered)
      ELSE [w EXCEPT !.page.form.cond = w.page.baseline, !.page.key = key]

--------------------------------------------------------------------------------
(* compare(options).  back says who waits for its answer: the caller's own *)
(* steps after its await are part of the action that ends the call.        *)

\* The end of loadActiveTab() and of the call around it.
TabLoaded(w) ==
  LET free == [w EXCEPT !.page.restoring = FALSE]
  IN  [updateComparisonURL(free, "replace") EXCEPT !.page.switching = FALSE]

\* The end of restoreComparisonFromURL.
Restored(w, task, ok) ==
  LET told == IF ok THEN [w EXCEPT !.page.doc = rememberActiveTab(@, task.state)] ELSE w
  IN  IF task.gen = w.page.gen THEN [told EXCEPT !.page.restoring = FALSE] ELSE told

\* The rest of compare() once its run answered, and the rest of its caller.
Answered(w, task, ok) ==
  LET kept == storeComparisonState(w, task.key, captureComparisonState(w.page))
      done == IF ok THEN updateComparisonURL(kept, task.url) ELSE w
  IN  CASE task.back = "tab" -> TabLoaded(done)
        [] task.back = "restore" -> Restored(done, task, ok)
        [] task.back = "user" -> done

\* compare() up to its first await: dropped while an operation runs.
CompareOn(w, t, call) ==
  IF w.page.busy # None
  THEN /\ Becomes(Answered(w, call, FALSE))
       /\ tasks' = [tasks EXCEPT ![t] = NoTask]
  ELSE LET scoped == scopeConditionsForRun(w)
       IN  /\ Becomes(scoped)
           /\ tasks' = [tasks EXCEPT ![t] =
                [call EXCEPT !.pc = "watch", !.key = scoped.page.form.cmp]]

Call(back, url, gen, st) ==
  [pc |-> "watch", back |-> back, url |-> url, gen |-> gen, state |-> st,
   key |-> None, body |-> None]

\* A new call takes a task that is free: at most one, to the model.
Free == LET free == {t \in Tasks : tasks[t] = NoTask}
        IN  IF free = {} THEN {} ELSE {CHOOSE t \in free : TRUE}

\* prepareFileWatch() answered: the lock is taken and what the form holds is
\* sent, or the call is dropped.  A result of another mode stays until the answer.
Prepared(t) ==
  /\ tasks[t].pc = "watch"
  /\ IF page.busy # None \/ page.form.cmp = None
     THEN /\ Becomes(Answered(World, tasks[t], FALSE))
          /\ tasks' = [tasks EXCEPT ![t] = NoTask]
     ELSE /\ \E left \in {None, page.shown} :
               Becomes([World EXCEPT !.page.busy = t, !.page.shown = left])
          /\ tasks' = [tasks EXCEPT ![t].pc = "run", ![t].body = page.form]
  /\ UNCHANGED <<defaults, acts, goal>>

\* The run ends: with a result, or without one (refused, failed, cancelled).
\* A cancel that comes after the answer changes nothing.
RunEnds(t) ==
  /\ tasks[t].pc = "run"
  /\ LET idle == [World EXCEPT !.page.busy = None]
     IN  \/ Becomes(Answered([idle EXCEPT !.page.shown = tasks[t].body], tasks[t], TRUE))
         \/ Becomes(Answered(idle, tasks[t], FALSE))
  /\ tasks' = [tasks EXCEPT ![t] = NoTask]
  /\ UNCHANGED <<defaults, acts, goal>>

\* The loop of waitForIdleOperation() finds the lock free: a newer restore has
\* taken over, or this one applies its state and compares.
Restore(w, t, gen, st) ==
  CompareOn([applyComparisonState(w, st) EXCEPT !.page.restoring = TRUE], t,
            Call("restore", "none", gen, st))

\* Faulty: an older restore waits for its turn, which never comes.
IdleIfNewest(t) ==
  /\ tasks[t].pc = "idle"
  /\ page.busy = None
  /\ tasks[t].gen = page.gen
  /\ Restore(World, t, tasks[t].gen, tasks[t].state)
  /\ UNCHANGED <<defaults, acts, goal>>

\* Faulty: an older restore goes on too.
IdleWithoutGeneration(t) ==
  /\ tasks[t].pc = "idle"
  /\ page.busy = None
  /\ Restore(World, t, tasks[t].gen, tasks[t].state)
  /\ UNCHANGED <<defaults, acts, goal>>

Idle(t) ==
  /\ tasks[t].pc = "idle"
  /\ page.busy = None
  /\ IF tasks[t].gen = page.gen
     THEN Restore(World, t, tasks[t].gen, tasks[t].state)
     ELSE /\ tasks' = [tasks EXCEPT ![t] = NoTask]
          /\ UNCHANGED <<page, entries, at, store>>
  /\ UNCHANGED <<defaults, acts, goal>>

\* scheduleComparisonURLReplace, 100 ms later.
UrlTimer ==
  /\ page.urlTimer
  /\ Becomes(updateComparisonURL([World EXCEPT !.page.urlTimer = FALSE], "replace"))
  /\ UNCHANGED <<defaults, tasks, acts, goal>>

\* scheduleConditionRecompare, 120 ms later.
RunTimer ==
  /\ page.runTimer
  /\ \E t \in Free :
       CompareOn([World EXCEPT !.page.runTimer = FALSE], t, Call("user", "replace", 0, None))
  /\ UNCHANGED <<defaults, acts, goal>>

--------------------------------------------------------------------------------
(* The user, at most MaxActs times.  A question is a modal dialog: until   *)
(* it is answered only Back, Forward and a reload reach the page.          *)

Act(g) ==
  /\ acts < MaxActs
  /\ acts' = acts + 1
  /\ goal' = g

Click ==
  /\ \A t \in Tasks : tasks[t].pc # "guard"
  /\ Act(None)

\* Paths or mode are changed in the form.
EditPaths ==
  /\ Click
  /\ \E c \in Cmps \cup {None} : page' = [page EXCEPT !.form.cmp = c]
  /\ UNCHANGED <<entries, at, store, defaults, tasks>>

\* A condition is changed: once a result is shown, the address follows and the
\* comparison is run again.
EditConditions ==
  /\ Click
  /\ \E d \in Conds : page' = [page EXCEPT !.form.cond = d,
       !.urlTimer = @ \/ (~page.restoring /\ page.shown # None),
       !.runTimer = @ \/ page.shown # None]
  /\ UNCHANGED <<entries, at, store, defaults, tasks>>

\* "Make default"
makeConditionsDefault ==
  /\ Click
  /\ defaults' = page.form.cond
  /\ page' = [page EXCEPT !.defaults = page.form.cond, !.baseline = page.form.cond]
  /\ UNCHANGED <<entries, at, store, tasks>>

\* "Reset to default"
resetConditionsToDefault ==
  /\ Click
  /\ page' = [page EXCEPT !.form.cond = page.defaults, !.baseline = page.defaults]
  /\ UNCHANGED <<entries, at, store, defaults, tasks>>

\* The Compare button, which is off while an operation runs.
CompareClicked ==
  /\ Click
  /\ page.busy = None
  /\ page.form.cmp # None
  /\ \E t \in Free : CompareOn(World, t, Call("user", "push", 0, None))
  /\ UNCHANGED defaults

\* loadActiveTab(), the last step of switchTab and closeTab.
loadActiveTab(w, t) ==
  LET st == activeTab(w.page.doc).state
      loading == [applyComparisonState(w, st) EXCEPT !.page.restoring = TRUE]
      empty == [updateComparisonURL(w, "replace") EXCEPT !.page.switching = FALSE]
  IN  IF w.page.doc.tabs # <<>> /\ st # None
      THEN CompareOn(loading, t, Call("tab", "none", 0, None))
      ELSE /\ Becomes(IF w.page.doc.tabs = <<>>
                      THEN [w EXCEPT !.page.switching = FALSE] ELSE empty)
           /\ tasks' = [tasks EXCEPT ![t] = NoTask]

switchTab(w, t, id) ==
  LET p == stashActiveTab(w.page)
      switched == [p EXCEPT !.doc = activateTab(p.doc, id), !.switching = TRUE]
  IN  loadActiveTab([w EXCEPT !.page = switched], t)

\* The new tab starts from what the form holds.
openTab(w, t) ==
  LET p == stashActiveTab(w.page)
      opened == [p EXCEPT !.doc = addTab(@, captureComparisonState(p))]
  IN  /\ Becomes(updateComparisonURL([w EXCEPT !.page = opened], "replace"))
      /\ tasks' = [tasks EXCEPT ![t] = NoTask]

closeTab(w, t, id, wasActive) ==
  LET closed == [w EXCEPT !.page.doc = removeTab(@, id)]
  IN  IF wasActive
      THEN loadActiveTab([closed EXCEPT !.page.switching = TRUE], t)
      ELSE /\ Becomes(updateComparisonURL(closed, "replace"))
           /\ tasks' = [tasks EXCEPT ![t] = NoTask]

\* What a click on the tab bar does, at once or after the question.
Clicked(t, click) ==
  CASE click.kind = "switch" -> switchTab(World, t, click.id)
    [] click.kind = "open" -> openTab(World, t)
    [] click.kind = "close" -> closeTab(World, t, click.id, click.wasActive)

Question(kind, id) ==
  [pc |-> "guard", kind |-> kind, id |-> id,
   wasActive |-> page.doc.tabs # <<>> /\ activeTab(page.doc).id = id]

\* A click on the tab bar; with edits to lose in the panes, a question comes first.
TabClicked(t, kind, id) ==
  LET click == Question(kind, id)
  IN  /\ Click
      /\ ~page.switching
      /\ kind = "open" => Len(page.doc.tabs) < MaxTabs
      /\ kind = "switch" => ~click.wasActive
      /\ kind = "close" => Len(page.doc.tabs) > 1
      /\ \/ Clicked(t, click)
         \/ /\ page.shown # None
            /\ kind = "close" => click.wasActive
            /\ tasks' = [tasks EXCEPT ![t] = click]
            /\ UNCHANGED <<page, entries, at, store>>
      /\ UNCHANGED defaults

TabClick ==
  \E t \in Free :
    \/ TabClicked(t, "open", 0)
    \/ \E k \in DOMAIN page.doc.tabs : TabClicked(t, "switch", page.doc.tabs[k].id)
    \/ \E k \in DOMAIN page.doc.tabs : TabClicked(t, "close", page.doc.tabs[k].id)

\* Yes, the edits may go, and the click is the last thing asked for; or no.
GuardAnswered(t) ==
  /\ tasks[t].pc = "guard"
  /\ \/ /\ Clicked(t, tasks[t])
        /\ goal' = None
     \/ /\ tasks' = [tasks EXCEPT ![t] = NoTask]
        /\ UNCHANGED <<page, entries, at, store, goal>>
  /\ UNCHANGED <<defaults, acts>>

--------------------------------------------------------------------------------
(* The page is loaded: its defaults are the saved ones, and the fragment   *)
(* says what to show.                                                      *)

Fresh(saved, d) ==
  [form |-> [cmp |-> None, cond |-> saved],
   doc |-> d, key |-> None, defaults |-> saved, baseline |-> saved,
   busy |-> None, shown |-> None, restoring |-> FALSE, gen |-> 0, switching |-> FALSE,
   urlTimer |-> FALSE, runTimer |-> FALSE]

NoTasks == [t \in Tasks |-> NoTask]

\* A page loaded with entry k shown: what its fragment says is restored.
LoadedPage(hist, k, remembered, saved) ==
  LET e == hist[k]
      fresh == Fresh(saved, IF e.doc = None THEN emptyDoc ELSE e.doc)
      w == [page |-> fresh, entries |-> hist, at |-> k, store |-> remembered]
  IN  IF e.state = None THEN w
      ELSE applyComparisonState([w EXCEPT !.page.gen = 1, !.page.restoring = TRUE], e.state)

LoadedTasks(e) ==
  IF e.state = None THEN NoTasks
  ELSE [NoTasks EXCEPT ![CHOOSE t \in Tasks : TRUE] =
     [Call("restore", "none", 1, e.state) EXCEPT !.key = e.state.cmp]]

\* All calls are gone with the page; the store stays.
Reloaded(k) ==
  /\ Becomes(LoadedPage(entries, k, store, defaults))
  /\ tasks' = LoadedTasks(entries[k])
  /\ UNCHANGED defaults

Reload ==
  /\ Act(entries[at].state)
  /\ Reloaded(at)

\* Back or Forward.  An entry without a comparison reloads the page.
PopState(k) ==
  LET e == entries[k]
      moved == [World EXCEPT !.at = k, !.page.urlTimer = FALSE, !.page.gen = @ + 1,
                             !.page.doc = IF e.doc = None THEN @ ELSE e.doc]
  IN  /\ k # at
      /\ Act(e.state)
      /\ IF e.state = None THEN Reloaded(k)
         ELSE /\ \E t \in Free :
                   IF page.busy = None
                   THEN Restore(moved, t, moved.page.gen, e.state)
                   ELSE /\ Becomes(moved)
                        /\ tasks' = [tasks EXCEPT ![t] =
                             [pc |-> "idle", gen |-> moved.page.gen, state |-> e.state]]
              /\ UNCHANGED defaults

Navigate == \E k \in DOMAIN entries : PopState(k)

\* A first visit, or the reload of a page that has compared twice.
Visits == {<<[state |-> None, doc |-> None]>>} \cup
  {[k \in 1 .. 2 |-> Fragment([cmp |-> c[k], cond |-> Cond0],
      addTab(emptyDoc, [cmp |-> c[k], cond |-> Cond0]))] : c \in {f \in [1 .. 2 -> Cmps] : f[1] # f[2]}}

Init ==
  /\ entries \in Visits
  /\ at = Len(entries)
  /\ LET w == LoadedPage(entries, at, <<>>, Cond0)
     IN  page = w.page /\ store = w.store
  /\ defaults = Cond0
  /\ tasks = LoadedTasks(entries[at])
  /\ acts = 0
  /\ goal = None

GoesOn(t) == Prepared(t) \/ RunEnds(t) \/ Idle(t) \/ GuardAnswered(t)

Next ==
  \/ EditPaths \/ EditConditions
  \/ makeConditionsDefault \/ resetConditionsToDefault
  \/ CompareClicked \/ TabClick \/ Navigate \/ Reload
  \/ UrlTimer \/ RunTimer
  \/ \E t \in Tasks : GoesOn(t)

Spec == Init /\ [][Next]_vars

\* The server answers and the timers fire; the user need not do anything, but
\* answers a question.
FairSpec ==
  /\ Spec
  /\ WF_vars(UrlTimer) /\ WF_vars(RunTimer)
  /\ \A t \in Tasks : WF_vars(GoesOn(t))

--------------------------------------------------------------------------------
Quiet == (\A t \in Tasks : tasks[t] = NoTask) /\ ~page.urlTimer /\ ~page.runTimer

\* When nothing runs, no flag of an interleaved switch or restore is left set:
\* one that is would keep the address, or the tab bar, from ever following again.
QuietFlags == Quiet => ~page.restoring /\ ~page.switching /\ page.busy = None

\* Every entry of the history that carries its tabs says of the active one what it
\* says of the comparison, and two of its tabs never have one id, whatever order they
\* were opened, closed and brought back in: a click would reach the wrong one
\* (tabs.js:84-151, app.js:1986-2035).
EntriesAgree ==
  \A k \in DOMAIN entries :
    entries[k].doc # None /\ entries[k].doc # emptyDoc =>
      /\ activeTab(entries[k].doc).state = entries[k].state
      /\ LET tabs == entries[k].doc.tabs
         IN  \A m, n \in DOMAIN tabs : tabs[m].id = tabs[n].id => m = n

\* After Back, Forward or a reload the form ends at the comparison of the entry
\* the user asked for last, whatever was running or being restored before.
LastRestoreWins == Quiet /\ goal # None => page.form = goal

\* However switches, restores, comparisons and reloads overlap: when nothing runs any
\* more, the form is at what was asked for last and nothing is held back
\* (app.js:1986-2060).
RestoresSettle == QuietFlags /\ LastRestoreWins

\* A call that waits, waits no longer at last.
CallsEnd == \A t \in Tasks : []<>(tasks[t] = NoTask)
=============================================================================
