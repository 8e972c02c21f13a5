------------------------------ MODULE FileWatch ------------------------------
(***************************************************************************)
(* The GUI's watch for external changes: internal/server/watch.go (the     *)
(* long poll), web/filewatch.js (one watcher) and the part of web/app.js   *)
(* that re-compares when a compared file changed.                          *)
(*                                                                         *)
(* A comparison takes a snapshot of the files first, compares them, and    *)
(* then watches for a difference from that snapshot.  A change is held     *)
(* back by a timer (debounce), kept for the user's decision while lines    *)
(* are unsaved, and put off while another operation has the lock.          *)
(*                                                                         *)
(* The compared files are one content, a number: every write by someone    *)
(* else and every typed line makes a new one, so contents name versions.   *)
(* 0 stands for none.  The paths and the mode stay as they are; loading    *)
(* the files for editing is one step (EditSession has the steps).          *)
(*                                                                         *)
(* Bounds: MaxContent contents, MaxOthers other operations; one compare()  *)
(* call of the user's and one of the watcher's at a time.                  *)
(***************************************************************************)
EXTENDS Naturals

CONSTANTS MaxContent, MaxOthers

VARIABLES
  disk,       \* what the files hold
  newest,     \* the newest content anywhere
  shown,      \* what the result on screen compares
  auto,       \* the autoReload checkbox
  watch,      \* the baseline of the running watcher
  reply,      \* the snapshot in the reply the watcher is about to receive
  pending,    \* pendingExternalChange: the snapshot that differed
  debounce,   \* externalChangeTimer is running
  bar,        \* the external-change bar is visible
  buffer,     \* what the edit buffers hold
  loaded,     \* what the files held when the buffers were loaded or saved
  reopen,     \* editReloadPending
  op,         \* busyOperation
  others,     \* how many other operations there have been
  at,         \* at[c]: how far c's call has come
  base,       \* base[c]: c's prepared snapshot
  text,       \* text[c]: what c's comparison reads
  missed      \* history: someone was told, or nobody, that a change may be missed

files == <<disk, newest>>
watcher == <<watch, reply, pending, debounce, bar>>
session == <<buffer, loaded, reopen>>
calls == <<op, others, at, base, text>>
vars == <<files, shown, auto, watcher, session, calls, missed>>

Callers == {"user", "reload", "save"}
Contents == 0 .. MaxContent

Editing == buffer # 0
Dirty == buffer # loaded

\* c is inside runCompare, under the lock.
Comparing(c) == at[c] \in {"asked", "read"}

\* The variables' types, and one comparison at a time, which has the lock.
TypeOK ==
  /\ \A c, d \in Callers : Comparing(c) /\ Comparing(d) => c = d
  /\ op = "compare" <=> \E c \in Callers : Comparing(c)
  /\ {disk, newest} \subseteq 1 .. MaxContent
  /\ {shown, watch, reply, pending, buffer, loaded} \subseteq Contents
  /\ {auto, debounce, bar, reopen, missed} \subseteq BOOLEAN
  /\ op \in {"none", "compare", "other"}
  /\ others \in 0 .. MaxOthers
  /\ at \in [Callers -> {"idle", "snapshot", "lock", "asked", "read"}]
  /\ base \in [Callers -> Contents]
  /\ text \in [Callers -> Contents]

\* A comparison was shown and is being watched.
Init ==
  /\ disk = 1
  /\ newest = 1
  /\ shown = 1
  /\ auto = TRUE
  /\ watch = 1
  /\ reply = 0
  /\ pending = 0
  /\ debounce = FALSE
  /\ bar = FALSE
  /\ buffer = 0
  /\ loaded = 0
  /\ reopen = FALSE
  /\ op = "none"
  /\ others = 0
  /\ at = [c \in Callers |-> "idle"]
  /\ base = [c \in Callers |-> 0]
  /\ text = [c \in Callers |-> 0]
  /\ missed = FALSE

\* stopFileWatch.
stopFileWatch ==
  /\ watch' = 0
  /\ reply' = 0
  /\ pending' = 0
  /\ debounce' = FALSE
  /\ bar' = FALSE

\* fileWatcher.start: it stops the watcher there was, and nothing else.
start(snapshot) ==
  /\ watch' = snapshot
  /\ reply' = 0
  /\ UNCHANGED <<pending, debounce, bar>>

\* c's call of compare(), or the end of its save, is over.
leave(c) ==
  /\ at' = [at EXCEPT ![c] = "idle"]
  /\ base' = [base EXCEPT ![c] = 0]
  /\ text' = [text EXCEPT ![c] = 0]
  /\ UNCHANGED others

\* The first half of compare(): dropped while an operation has the lock, else
\* stopFileWatch and, with the checkbox set, a request for a snapshot.
beginCompare ==
  IF op # "none"
  THEN /\ missed' = TRUE
       /\ UNCHANGED <<watcher, calls>>
  ELSE /\ stopFileWatch
       /\ at' = [at EXCEPT !["user"] = IF auto THEN "snapshot" ELSE "lock"]
       /\ UNCHANGED <<op, others, base, text, missed>>

-------------------------------------------------------------------------------
\* The other programs, the user, and the other operations.

ExternalWrite ==
  /\ newest < MaxContent
  /\ newest' = newest + 1
  /\ disk' = newest'
  /\ UNCHANGED <<shown, auto, watcher, session, calls, missed>>

Type ==
  /\ Editing
  /\ newest < MaxContent
  /\ newest' = newest + 1
  /\ buffer' = newest'
  /\ UNCHANGED <<disk, shown, auto, watcher, loaded, reopen, calls, missed>>

UserCompare ==
  /\ at["user"] = "idle"
  /\ beginCompare
  /\ UNCHANGED <<files, shown, auto, session>>

EnterEditMode ==
  /\ ~Editing
  /\ at["user"] = "idle"
  /\ buffer' = disk
  /\ loaded' = disk
  /\ beginCompare
  /\ UNCHANGED <<files, shown, auto, reopen>>

LeaveEditMode ==
  /\ Editing
  /\ at["user"] = "idle"
  /\ buffer' = 0
  /\ loaded' = 0
  /\ beginCompare
  /\ UNCHANGED <<files, shown, auto, reopen>>

\* saveEditedPane with a stamp that still matches (a refused save changes
\* nothing here), and prepareFileWatch after it.
Save ==
  /\ Editing /\ Dirty
  /\ loaded = disk
  /\ at["save"] = "idle"
  /\ disk' = buffer
  /\ loaded' = buffer
  /\ stopFileWatch
  /\ at' = [at EXCEPT !["save"] = IF auto THEN "snapshot" ELSE "idle"]
  /\ UNCHANGED <<newest, shown, auto, buffer, reopen, op, others, base, text, missed>>

\* The checkbox: clearing it stops the watcher, setting it calls
\* armFileWatchFromCurrentState, which goes the way of a save.
ToggleAuto ==
  /\ at["save"] = "idle"
  /\ auto' = ~auto
  /\ stopFileWatch
  /\ at' = [at EXCEPT !["save"] = IF auto' /\ shown # 0 THEN "snapshot" ELSE "idle"]
  /\ missed' = TRUE
  /\ UNCHANGED <<files, shown, session, op, others, base, text>>

OtherBegins ==
  /\ op = "none"
  /\ others < MaxOthers
  /\ others' = others + 1
  /\ op' = "other"
  /\ UNCHANGED <<files, shown, auto, watcher, session, at, base, text, missed>>

OtherEnds ==
  /\ op = "other"
  /\ op' = "none"
  /\ UNCHANGED <<files, shown, auto, watcher, session, others, at, base, text, missed>>

-------------------------------------------------------------------------------
\* handleWatch finds a file that differs from the baseline, at once or at a tick.
\* Its timeout only renews the request: the snapshot is the same.
WatchSees ==
  /\ watch # 0
  /\ reply = 0
  /\ disk # watch
  /\ reply' = disk
  /\ UNCHANGED <<files, shown, auto, watch, pending, debounce, bar, session, calls, missed>>

\* onError, with a message: the request failed, or 16 watches are active (429).
WatchFails ==
  /\ watch # 0
  /\ watch' = 0
  /\ reply' = 0
  /\ missed' = TRUE
  /\ UNCHANGED <<files, shown, auto, pending, debounce, bar, session, calls>>

\* queueExternalChange: the watcher has ended.
Deliver ==
  /\ reply # 0
  /\ pending' = reply
  /\ debounce' = TRUE
  /\ watch' = 0
  /\ reply' = 0
  /\ UNCHANGED <<files, shown, auto, bar, session, calls, missed>>

\* flushExternalChange with unsaved lines: the bar asks.
FlushAsks ==
  /\ debounce
  /\ debounce' = FALSE
  /\ pending # 0 /\ auto /\ Dirty
  /\ bar' = TRUE
  /\ UNCHANGED <<files, shown, auto, watch, reply, pending, session, calls, missed>>

\* Faulty: a change that comes while an operation has the lock is forgotten.
FlushForgets ==
  /\ debounce
  /\ pending # 0 /\ auto /\ ~Dirty
  /\ op # "none"
  /\ debounce' = FALSE
  /\ pending' = 0
  /\ UNCHANGED <<files, shown, auto, watch, reply, bar, session, calls, missed>>

\* ... while an operation has the lock: the timer starts again.
FlushWaits ==
  /\ debounce
  /\ pending # 0 /\ auto /\ ~Dirty
  /\ op # "none"
  /\ UNCHANGED vars

\* reloadExternalChange up to its request for a newer snapshot.
reload ==
  /\ at["reload"] = "idle"
  /\ bar' = FALSE
  /\ pending' = 0
  /\ at' = [at EXCEPT !["reload"] = "snapshot"]
  /\ base' = [base EXCEPT !["reload"] = pending]
  /\ UNCHANGED <<watch, reply, op, others, text, missed>>

\* ... else: reload.
FlushReloads ==
  /\ debounce
  /\ debounce' = FALSE
  /\ pending # 0 /\ auto /\ ~Dirty
  /\ op = "none"
  /\ reload
  /\ UNCHANGED <<files, shown, auto, session>>

\* The bar's Reload: the session is discarded, to be opened again later.
ExternalReload ==
  /\ bar
  /\ pending # 0
  /\ buffer' = 0
  /\ loaded' = 0
  /\ reopen' = (reopen \/ Editing)
  /\ reload
  /\ UNCHANGED <<files, shown, auto, debounce>>

\* The bar's Keep: watch on, from the change the user knows of.
ExternalKeep ==
  /\ bar
  /\ bar' = FALSE
  /\ pending' = 0
  /\ watch' = IF auto THEN pending ELSE watch
  /\ reply' = IF auto THEN 0 ELSE reply
  /\ missed' = TRUE
  /\ UNCHANGED <<files, shown, auto, debounce, session, calls>>

-------------------------------------------------------------------------------
\* The snapshot arrives; for a save it is the new baseline.
Snapshot(c) ==
  /\ at[c] = "snapshot"
  /\ base' = [base EXCEPT ![c] = disk]
  /\ at' = [at EXCEPT ![c] = "lock"]
  /\ UNCHANGED <<files, shown, auto, watcher, session, op, others, text, missed>>

\* The request for it failed: no watch will follow; a reload keeps the old one.
SnapshotFails(c) ==
  /\ at[c] = "snapshot"
  /\ base' = [base EXCEPT ![c] = IF c = "reload" THEN @ ELSE 0]
  /\ at' = [at EXCEPT ![c] = "lock"]
  /\ missed' = TRUE
  /\ UNCHANGED <<files, shown, auto, watcher, session, op, others, text>>

\* saveEditedPane, armFileWatchFromCurrentState: start the watcher, from a
\* snapshot that is newer than the comparison on screen.
WatchAgain ==
  /\ at["save"] = "lock"
  /\ leave("save")
  /\ IF base["save"] # 0 THEN start(base["save"]) ELSE UNCHANGED watcher
  /\ missed' = TRUE
  /\ UNCHANGED <<files, shown, auto, session, op>>

\* The last lines of compare(): the watcher starts from the snapshot, also after
\* a comparison that failed; resumeEditingAfterReload.
compareEnds(c) ==
  /\ leave(c)
  /\ IF auto /\ base[c] # 0 THEN start(base[c]) ELSE UNCHANGED watcher
  /\ reopen' = (reopen /\ Editing)
  /\ IF reopen /\ ~Editing
     THEN buffer' = disk /\ loaded' = disk
     ELSE UNCHANGED <<buffer, loaded>>
  /\ UNCHANGED <<files, auto>>

\* runExclusive finds the lock taken: nothing is compared.
LoseLock(c) ==
  /\ c # "save"
  /\ at[c] = "lock"
  /\ op # "none"
  /\ compareEnds(c)
  /\ missed' = TRUE
  /\ UNCHANGED <<shown, op>>

\* A reload looks at the lock only after its request: compare() returns at once.
ReloadDropped ==
  /\ at["reload"] = "lock"
  /\ op # "none"
  /\ leave("reload")
  /\ missed' = TRUE
  /\ UNCHANGED <<files, shown, auto, watcher, session, op>>

\* runCompare begins: the buffers' lines go into the request, or the paths do.
Take(c) ==
  /\ c # "save"
  /\ at[c] = "lock"
  /\ op = "none"
  /\ op' = "compare"
  /\ text' = [text EXCEPT ![c] = buffer]
  /\ at' = [at EXCEPT ![c] = IF Editing THEN "read" ELSE "asked"]
  /\ shown' = 0
  /\ missed' = (base[c] = 0)
  /\ UNCHANGED <<files, auto, watcher, session, others, base>>

\* The server reads the files of the request.
ReadFiles(c) ==
  /\ at[c] = "asked"
  /\ text' = [text EXCEPT ![c] = disk]
  /\ at' = [at EXCEPT ![c] = "read"]
  /\ UNCHANGED <<files, shown, auto, watcher, session, op, others, base, missed>>

\* Faulty: the baseline is what the files are when the comparison is over.
ShowLateBaseline(c) ==
  /\ at[c] = "read"
  /\ shown' = text[c]
  /\ leave(c)
  /\ op' = "none"
  /\ IF auto THEN start(disk) ELSE UNCHANGED watcher
  /\ UNCHANGED <<files, auto, session, missed>>

Show(c) ==
  /\ at[c] = "read"
  /\ shown' = text[c]
  /\ compareEnds(c)
  /\ op' = "none"
  /\ UNCHANGED missed

\* An error or a cancel: the result stays empty.
CompareFails(c) ==
  /\ Comparing(c)
  /\ compareEnds(c)
  /\ op' = "none"
  /\ UNCHANGED <<shown, missed>>

Run(c) == Snapshot(c) \/ Take(c) \/ ReadFiles(c) \/ Show(c)
Trouble(c) == SnapshotFails(c) \/ LoseLock(c) \/ CompareFails(c)

Next ==
  \/ ExternalWrite \/ Type
  \/ UserCompare \/ EnterEditMode \/ LeaveEditMode \/ Save \/ ToggleAuto
  \/ OtherBegins \/ OtherEnds
  \/ WatchSees \/ WatchFails \/ Deliver
  \/ FlushAsks \/ FlushWaits \/ FlushReloads
  \/ ExternalReload \/ ExternalKeep
  \/ WatchAgain \/ ReloadDropped
  \/ \E c \in Callers : Run(c) \/ Trouble(c)

Spec == Init /\ [][Next]_vars

\* Requests are answered, timers run out, polls tick, operations end.  The user
\* and the other programs do what they like.
FairSpec ==
  /\ Spec
  /\ WF_vars(WatchSees)
  /\ WF_vars(Deliver)
  /\ WF_vars(FlushAsks \/ FlushReloads)
  /\ WF_vars(OtherEnds)
  /\ WF_vars(WatchAgain)
  /\ \A c \in Callers : WF_vars(Run(c) \/ Trouble(c))

-------------------------------------------------------------------------------
\* No call of compare() and no other operation is under way.
Settled == op = "none" /\ \A c \in Callers : at[c] = "idle"

\* Without an edit session, and unless somebody was told otherwise: a change of
\* the files the result does not show yet is being noticed.  The snapshot is
\* older than what the comparison read, so no write falls between the two.
ChangeIsNoticed ==
  (auto /\ Settled /\ ~missed /\ ~Editing /\ shown \notin {0, disk}) =>
    \/ watch \notin {0, disk}
    \/ pending # 0 /\ (debounce \/ bar)

\* A visible bar has a change for its Reload and Keep to act on.
BarHasChange == bar => pending # 0

\* A change of the files reaches the screen without the user's doing, unless
\* the comparison fails, a refusal or an error gets in the way, the checkbox is
\* cleared, or the user starts to edit.
ChangeIsShown ==
  (auto /\ ~missed /\ ~Editing /\ shown # disk) ~>
    (shown = disk \/ missed \/ ~auto \/ Editing \/ shown = 0)

\* "Saving a compared file in another editor triggers one debounced
\* re-comparison" (gui.md:351-352): with nothing unsaved and nothing under way, a
\* watcher that has seen the files as they are means a result that shows them.
ReloadShowsFiles ==
  (auto /\ Settled /\ ~missed /\ ~Dirty /\ shown # 0 /\ watch = disk) => shown = disk
===============================================================================
