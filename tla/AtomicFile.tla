------------------------------ MODULE AtomicFile ------------------------------
(***************************************************************************)
(* internal/atomicfile: a file is written to a staged sibling, flushed,    *)
(* closed, given its mode, and only then moved over the destination.       *)
(*                                                                         *)
(* Several writers may run at once on one destination: the GUI server      *)
(* serves each save on a goroutine of its own, and a command line may run  *)
(* beside it.  Each has its own staged file (CreateTemp picks the name).   *)
(* PowerLoss stops every writer and takes what nobody had flushed: bytes,  *)
(* and the renames, since Write flushes the staged file but no directory.  *)
(*                                                                         *)
(* There was a file before them.                                           *)
(*                                                                         *)
(* Rename replaces the destination in one step.  Where the platform        *)
(* refuses that (Windows), Replace falls back to remove, then rename.      *)
(***************************************************************************)
CONSTANTS
  Writers,    \* the calls of Write on this destination
  Original,   \* who wrote the file the destination held before any of them
  Windows     \* runtime.GOOS = "windows": whether Replace has the fallback

ASSUME WritersAssumption == Original \notin Writers
ASSUME PlatformAssumption == Windows \in BOOLEAN

VARIABLES
  at,         \* at[w]: the step of Write that writer w is about to take
  staged,     \* staged[w]: what w's temporary sibling holds
  dest,       \* what the destination holds, and who wrote it
  older,      \* what it held before, which the directory on the disk may still say
  down,       \* the machine died
  latest,     \* who returned without an error last, if anyone did
  taken       \* the calls that removed the destination to rename over it

vars == <<at, staged, dest, older, down, latest, taken>>
history == <<latest, taken>>

\* The steps of Write and Replace, in order, and the three ways to stop.
Steps == {"create", "write", "sync", "close", "chmod", "replace", "remove", "retry"}
Stops == {"done", "failed", "lost"}

\* No file; some of the bytes; all of them, still in the system's cache; all
\* of them on the disk.
Extents == {"none", "partial", "cached", "whole"}

Files == [by : Writers \cup {Original}, extent : Extents]
Absent == [by |-> Original, extent |-> "none"]

TypeOK ==
  /\ at \in [Writers -> Steps \cup Stops]
  /\ staged \in [Writers -> Extents]
  /\ dest \in Files
  /\ older \subseteq Files
  /\ down \in BOOLEAN
  /\ latest \in Writers \cup {Original}
  /\ taken \subseteq Writers

Init ==
  /\ at = [w \in Writers |-> "create"]
  /\ staged = [w \in Writers |-> "none"]
  /\ dest = [by |-> Original, extent |-> "whole"]
  /\ older = {}
  /\ down = FALSE
  /\ latest = Original
  /\ taken = {}

\* The directory's entry for the destination now names another file, or none.
Install(entry) ==
  /\ dest' = entry
  /\ older' = older \cup {dest}

Move(w, from, to) ==
  /\ at[w] = from
  /\ at' = [at EXCEPT ![w] = to]

\* os.MkdirAll and os.CreateTemp: an empty sibling exists from here on.
CreateTemp(w) ==
  /\ Move(w, "create", "write")
  /\ staged' = [staged EXCEPT ![w] = "partial"]
  /\ UNCHANGED <<dest, older, history>>

\* The caller's content function returned nil: every byte was written.
WriteContent(w) ==
  /\ Move(w, "write", "sync")
  /\ staged' = [staged EXCEPT ![w] = "cached"]
  /\ UNCHANGED <<dest, older, history>>

\* Faulty: the staged file is closed without being flushed.
SyncSkipped(w) == Move(w, "sync", "close") /\ UNCHANGED <<staged, dest, older, history>>

Sync(w) ==
  /\ Move(w, "sync", "close")
  /\ staged' = [staged EXCEPT ![w] = "whole"]
  /\ UNCHANGED <<dest, older, history>>

Close(w) == Move(w, "close", "chmod") /\ UNCHANGED <<staged, dest, older, history>>
Chmod(w) == Move(w, "chmod", "replace") /\ UNCHANGED <<staged, dest, older, history>>

\* os.Rename(staged, destination) succeeded, at the first or the second try.
Rename(w) ==
  /\ at[w] \in {"replace", "retry"}
  /\ at' = [at EXCEPT ![w] = "done"]
  /\ Install([by |-> w, extent |-> staged[w]])
  /\ staged' = [staged EXCEPT ![w] = "none"]
  /\ latest' = w
  /\ UNCHANGED taken

\* Faulty: the refused rename's error is dropped and the call succeeds.
RenameRefusalIgnored(w) ==
  /\ Windows
  /\ Move(w, "replace", "done")
  /\ staged' = [staged EXCEPT ![w] = "none"]
  /\ latest' = w
  /\ UNCHANGED <<dest, older, taken>>

\* Windows: the first rename was refused, the destination is removed first.
RenameRefused(w) ==
  /\ Windows
  /\ Move(w, "replace", "remove")
  /\ UNCHANGED <<staged, dest, older, history>>

\* os.Remove(destination); a destination already gone is not an error.
RemoveDest(w) ==
  /\ Move(w, "remove", "retry")
  /\ Install(Absent)
  /\ taken' = taken \cup {w}
  /\ UNCHANGED <<staged, latest>>

\* Any step returned an error: the deferred function removes the staged file.
Fail(w) ==
  /\ at[w] \in Steps
  /\ at' = [at EXCEPT ![w] = "failed"]
  /\ staged' = [staged EXCEPT ![w] = "none"]
  /\ UNCHANGED <<dest, older, history>>

\* What is left of a file when the system's cache is lost.
AfterLoss(extent) == IF extent = "cached" THEN "partial" ELSE extent

\* The machine dies: no deferred function runs, unflushed bytes are gone, and
\* the directory may come back as it was before any of the latest renames.
\* (So may staged files that were removed; nothing reads them.)
PowerLoss ==
  /\ ~down
  /\ down' = TRUE
  /\ at' = [w \in Writers |-> IF at[w] \in Steps THEN "lost" ELSE at[w]]
  /\ staged' = [w \in Writers |-> AfterLoss(staged[w])]
  /\ \E entry \in older \cup {dest} :
       dest' = [entry EXCEPT !.extent = AfterLoss(@)]
  /\ UNCHANGED <<older, history>>

Step(w) ==
  \/ CreateTemp(w)
  \/ WriteContent(w)
  \/ Sync(w)
  \/ Close(w)
  \/ Chmod(w)
  \/ Rename(w)
  \/ RenameRefused(w)
  \/ RemoveDest(w)
  \/ Fail(w)

Next == PowerLoss \/ \E w \in Writers : Step(w) /\ UNCHANGED down

Spec == Init /\ [][Next]_vars

-------------------------------------------------------------------------------
\* Whatever fails or dies, a reader of the destination finds the original
\* file, no file, or every byte of one writer, never a part of a file, and the
\* bytes it finds would survive a power loss (Write, "replaces path only after
\* every prior step succeeds").
DestinationWhole == dest.extent \in {"none", "whole"}

\* The destination is missing only where the Windows fallback took it away and
\* the rename that should follow has not happened, failed, or did not last.
MissingOnlyInFallback ==
  dest.extent = "none" =>
    Windows /\ (down \/ \E w \in Writers : at[w] \in {"retry", "failed"})

\* The destination holds a call's bytes only if that call returned without an
\* error; and until the machine dies it is, in every state, the whole file of the
\* call that returned so last (the original, before any did), however many others
\* are under way or have failed since.  The one exception is what Replace's
\* fallback costs: a call whose rename Windows refused has taken that file away,
\* and has not put its own in its place, or never will because it failed.
InstalledByTheFinished ==
  /\ dest.by # Original => at[dest.by] = "done"
  /\ ~down =>
       \/ dest = [by |-> latest, extent |-> "whole"]
       \/ dest = Absent /\ \E w \in taken : at[w] \in {"retry", "failed"}

\* Every call that returned, with or without an error, removed its staged file.
NoStagedLeft ==
  ~down => \A w \in Writers : at[w] \in {"done", "failed"} => staged[w] = "none"
===============================================================================
