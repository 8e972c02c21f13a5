# A TLA+ project for ayame-diff

ayame-diff compares texts, tables and folders. It is one Go program with a
command line, an engine that sorts and compares tables larger than memory, and a
local web server whose page (`src/internal/server/web/`, plain JavaScript) is the
graphical interface. This directory holds TLA+ models of the parts of it that
are hard to test, TLC configurations that check them on small instances, and
proofs that TLAPS checks for every value of their constants. All paths below are
relative to the repository.

## The system

| Component | State it keeps | Operations | Talks to | What makes it correct |
|---|---|---|---|---|
| Atomic file replacement (`internal/atomicfile`) | a staged sibling, the destination | `Write`, `Replace` | every save, export, merge and update | a reader never finds a part of a file; a failed call changes nothing, except that the Windows fallback may have taken the old file away |
| Engine: partitioning (`engine/partition.go`) | two sets of partition files | readers by byte range, `emitRow` | the pool | every row is routed exactly once |
| Engine: external sort (`engine/sort.go`) | sorted runs | `createSortedRuns`, `mergeRunGroup` | the pool | every record kept, sorted; bounded memory and open files |
| Engine: sorted comparison (`engine/compare.go`) | two cursors, one group per side | `compareSortedFiles` | the pool | each row is paired once or reported once |
| Engine: worker pool (`engine/run.go`) | jobs and results channels, a context | `compareAllPartitions`, `processPartition` | the three above | success is complete, the cause is reported, nobody outlives the call |
| Engine: run (`engine/run.go`) | work root, output | `Run`, `assembleOutput`, `cleanupWorkRoot` | atomic files | no partial output, the old one unless a new one replaces it (or Windows refused to), no work root left |
| Line diff, three-way, merge (`linediff`, `threeway`, `merge`, `mergechoice`) | none between calls | diff, hunks, moves, sync points, merges | the server's handlers | hunks reconstruct both inputs; a merge takes what was chosen |
| Folder comparison (`dircompare`) | entries, a worker pool | walk, hash, compare | the server | one verdict per path |
| Server (`internal/server`) | semaphores, token, drop store, lease | one handler per request | the page, the components above | requests do not disturb each other |
| Browser lease (`server_lifecycle.go`) | sessions, deadlines, a goroutine | heartbeat, release, expiry | the page, shutdown | ends when the last page is gone, not before |
| Watch (`watch.go`, `filewatch.js`, `app.js`) | baseline, pending change, timers, the bar | long poll, debounce, reload, keep | comparisons, edit session | a change of a compared file reaches the screen |
| Edit session (`app.js`, `editbuffer.js`, `server_file.go`) | buffers with a stamp | load, commit, save | files, watch | nobody's work is overwritten unasked; clean means saved |
| Line editor (`app.js`) | one textarea, composition | open, type, commit, revert | buffers, coordinator | the text typed ends in the buffer and on the screen |
| Re-comparison coordinator (`optimistic.js`) | timer, running, dirty | request, fire, cancel, flush, dispose | line editor, comparisons | one run at a time, none lost |
| Comparison session (`app.js`, `tabs.js`, `urlstate.js`, `comparisonscope.js`) | the form, the tabs, the history's entries, the store, `busyOperation` | `compare`, switch, open, close, restore, reload | everything on the page | a restore ends at what was asked for; no flag stays set |
| Result rendering (`app.js`, `renderqueue.js`) | the render gate, `lastData`, the nodes on the screen | stream events, slices, cancel, redraw | comparison, search, context | what is called finished is on the screen |
| Merge choices (`app.js`, `mergeselect.js`, `keymap.js`, ...) | sides per event, undo and redo, preview, typed lines | adopt, undo, advance, preview, save | server | one timeline; the preview is of the choices |
| Unchanged context (`app.js`, `unchanged.js`) | regions, segments, previews | load, expand, reset | result | each line once, or behind a gap that can be opened |
| Continuous view (`app.js`, `continuous.js`) | sections, focus, requests | scroll, jump, load, release | folder result | what is being read is there |
| Messages and progress (`messages.js`, `progress.js`) | entries, timers, stages | post, dismiss, stage, stop | every operation | no message leaves early; the lane tells the stage |
| Row filter (`rowfilter.js`, `app.js`, `engine/rowfilter.go`) | `filterState` and its controls | edit, prune, compile, evaluate, save | CSV setup, engine | the page, the engine and a project mean one filter |
| CSV setup (`app.js`, `columnmap.js`) | inspection, keys, column map, lock | inspect, choose, compare, apply a project | filter, comparison | a request fits the inspection it names columns of |
| CSV result (`app.js`, `csvview.js`, `suggest.js`) | page, columns, suggestion panel | turn, reorder, suggest, apply | CSV setup | the table is a page of the result; proposals stack |
| Folder result (`app.js`, `directory.js`) | tree, filter, open folders, what to go back to | open, Back, filter, search, swap | comparison | Back shows the tree that was left; absent means absent |
| Search (`app.js`) | hits, index, counter, timer | type, step, option | result rendering, context | the hits are on the screen |
| Shortcuts, file browser, sync points, conditions (`keymap.js`, `app.js`) | one panel's state each | click, capture, choose | | |
| Presentation (`alignment.js`, `minimap.js`, `theme.js`, ...) | none | pure functions | the result | |
| CLI, self-update, shell integration, packaging | none | flags, exit codes, registration | engine, atomic files | |

Three things make the behaviour hard:

- **Goroutines** in the engine: workers that fail, cancel each other and send
  results to a collector; writers of one file; handlers beside a lease goroutine.
- **Awaits** in the page: JavaScript runs one callback at a time, so a function
  is atomic only between two awaits. `compare()` looks at the lock, awaits twice,
  and looks again; a save captures lines and is answered later; a watcher's
  baseline, the comparison and the buffers are read at three moments.
- **Other programs** that write the compared files at any time, and a machine
  that can stop at any time.

`PROJECT.json` lists the components with what is modelled of each, and every
hazard at its line with the properties that cover it.

## Modules

### AtomicFile (and KeptProofs)

`internal/atomicfile/atomicfile.go`. `at[w]` is the next step of call `w`:
create, write, sync, close, chmod, then `Replace`. A file is an *extent* (none,
partial, all of it in the cache, all of it on the disk) and the writer whose
bytes it holds. Any step may fail, and then the deferred function removes the
staged file. `PowerLoss` stops everybody, turns cached bytes into partial files
and may undo any of the latest renames: `Write` flushes the staged file but not
the directory. Directory creation, the random name and the mode bits have no
state of their own here. `latest` (the call that returned without an error last) and
`taken` (the calls whose fallback removed the destination) are history.

`InstalledByTheFinished` compares the destination with `latest` in every state, not
only at the end: it is that call's whole file. The exception is Windows' fallback, and it
is a large one: a call whose rename was refused removes the destination, and it may be
the file of another call that has succeeded meanwhile; if the second rename fails, that
file is gone for good. Run `kept` reaches this, see "Seen while modelling".

Run `kept`: three writers, so that two may race while a third fails; the
Windows fallback is on, and its actions are a superset of the POSIX ones.

Proved for any writers and either platform: all four invariants. The inductive
invariant `FileInv` adds how far the staged file of a call at a given step has come
(it is flushed from `close` on), that a call at `create` or after its end has
none, and that every file the directory may still name after a power loss is
whole or absent.

### JobContract, RootCause, PartitionPool (and EngineRunProofs)

`JobContract` is what the engine's parallel stages promise their caller: units
are finished in any order and stay finished, the stage returns once, success only
with nothing left to do, a context error only to a caller that cancelled. The
partition pool and the range readers implement it, and both choose the error they
report with `preferRootCause`, which has a module of its own, `RootCause`.

`PartitionPool` is `compareAllPartitions` in `internal/engine/run.go`. The jobs channel is filled
and closed before the first worker starts, so it is a counter. Each worker
receives an index, looks at the context, sorts both sides, compares, and sends
one result; a failure calls `cancel()` before the result is sent. The collector
reads until the channel is closed and folds the errors with `preferRootCause`.
The results channel is a set, since any order of results of different workers is
possible and the collector only folds them. A failing stage returns a context
error only if it saw the context done.

It implements `JobContract` with a unit per partition (`ImplementsContract`),
checked by TLC and proved.

It is checked by TLC as a part of `EngineRun`, below.

Proved for any number of partitions and workers: all invariants and the
refinement. The inductive invariant says where each index is: not received yet,
in one worker's hands, in the channel, or read; that a result without error
means a complete output; and that a context error anywhere means that the parent
was cancelled or that a concrete error is in a worker's hands, in the channel or
already chosen. The last part is why a cancellation cannot hide its cause:
by the time the pool returns, only the chosen error is left.

### EngineRun (and EngineRunProofs)

`Run` in `internal/engine/run.go`, around the pool: it extends `PartitionPool` and
adds the phases before and after it, the work root with what is in it, the staged
output and the output. The work root is one of `Run`'s own or the user's
(`--work-dir`), which may be missing, empty, or in use and then refused. Each phase
may fail, and a phase that was given the context may report it. A step of a worker
also leaves its directories in the work root (`MkdirAll`, so a worker that came after
`Run` would bring back what `Run` removed), and does not ask what phase `Run` is in:
that no worker comes late is a result, not an assumption. `assembleOutput` copies the
parts to a staged output, and `atomicfile.Replace` installs it in the steps `AtomicFile`
has, here with one writer and no power loss: `StageOutput`, then `Install`, or on Windows
`RenameRefused`, `RemoveOutput` and a second `Install`. `AssemblyFails` is a failure at any
of them, and leaves the output as it is then: after `RemoveOutput`, none. What `RemoveAll`
answers is ignored by the code; here it succeeds.

So `OutputIsWhole` says that the output is the old one, the new one, or, only on Windows,
none: between the removal and the second rename, or at the end of a run that returns an
error.

Run `engine_run`: four partitions on two workers, so that each worker handles
several, one may fail while the other is between jobs, and the results of both
are under way at once; `Windows` is TRUE, and the behaviours of the other platforms are
among those of Windows (that a rename is refused is a choice).
Fairness: every goroutine that can take a step takes one,
a stage ends, one way or the other, and so does what `Run` calls; nothing is assumed
of the caller's cancellation.

Proved for any number of partitions and workers, with and without `--keep-temp`: a run
takes only steps of the pool and steps the pool does not see (`RunRunsPool`), so every
theorem of the pool holds in a run; `RunKeepsItsWord`; and what is left of it where there
is no fallback, `FailureKeepsOutput`: off Windows a run that returns an error, and
anywhere one that returns the context's, has left the old output as it was. The inductive
invariant
`RunInv` says what each phase has come to. It needs two facts of the pool: a success
means that every part is complete (so what is assembled is whole), and when the pool
has returned no worker runs (so nothing is made after the cleanup).

### RangeSplit (and PartitionSortProofs)

`partitionSimpleParallel` in `internal/engine/partition.go`: a plain file is cut
into ranges of bytes, each worker moves its start forward to a line and reads the
lines that begin in its range. A file is the sequence of its bytes, of three
kinds (line feed, carriage return, text); `start` is 0 or the end of the header.
`routed[p]` counts how often the row that begins at byte `p` was written to a
partition file. What a row says is left out: the partition it goes to, the row
filter and the column count are decided row by row (a wrong column count is one
of the reasons of `Break`). `Rows` is the reference: the rows one reader finds
that goes through the whole file. It implements `JobContract` with a unit per row.

Run `partition_sort`: every file of four bytes, with and without a header, and three
workers with a minimal range of one byte. That is enough for a cut inside a line,
at its first byte, between CR and LF, in an unterminated last line, for a range
in which no line begins, for a line that spans a whole range, and for blank
lines; files with a long header get fewer workers than configured. Fairness: as long
as some goroutine can take a step, one does.

Proved for every file, size, number of workers and minimal range: `RoutedOnce`,
`EveryRowRouted`, `RowsCounted` and the refinement. The inductive invariant says that a worker
that reads stands at the beginning of a line in or after its range, that the rows
routed are those in the part of its range it has passed, and that a worker that
ended without an error has passed all of it. Two facts about the cuts carry it:
they do not decrease, the first is `start`, the last is the end of the file; and
the aligned start of a range is where the worker of the range before stops. For the
count, `CountsRight` adds that a worker's number is that of the rows routed in its
range, and the collector's that of the workers it has heard from: the ranges are
disjoint, so the sum counts no row twice.

### ExternalSort (and MCPartitionSort, PartitionSortProofs)

`makeSortedFile` in `internal/engine/sort.go`: the records of a partition are read in
chunks, each is written as a sorted run, and the runs are merged in groups of
`MergeFanIn`, pass by pass; a group of one goes to the next pass as it is. The files of
the work directory are state, because a group's files are removed when its merge is
complete. A merge is modelled record by record with the heap's sources, so a
cancellation or a failure can come inside it. A record is a number that orders it and
is also its share of a chunk. Records of one key are ordered by their row, so the order
is total, and equal numbers stand for one line that is there twice. `WriteRun`
puts a chunk into any order that is sorted, as `sort.Slice` may.

`MCPartitionSort` extends `RangeSplit` and the sort and is one or the other: what a row
goes through before it is compared. The two are never active together on one partition,
so a behaviour is one part's, and the other stays as it began. Run `partition_sort`
has five records at most, chunks of two and groups of two: up to five runs and three
passes, a group of one in the first pass and in the second, a record larger than
a chunk, and an empty partition. `SortKeepsRecords` counts places: as many in the
complete files hold a record as there were in what was read, in every state of a sort
that has not failed.

Proved for every partition, chunk and fan-in (`RecordsKept`). Files are counted by name,
so the first part of the inductive invariant `SortInv` is that no name is given twice:
a run has its number, a merge's output its pass and its number in it (`Named`), and a
group of one that is carried over keeps an older name. The second is that a merge's
output holds each record as often as was taken from the group, and nothing that sorts
behind what is left (`Merging`); when the heap is empty the output therefore counts as
much as the group it replaces. `NothingIsLost` puts this and the rows counted by
`RangeSplit` together for the whole of `NothingLost`.

### SortedCompare (and MCSortedCompare, SortedCompareProofs)

`compareSortedFiles` in `internal/engine/compare.go`: two sorted files are merged
by key. A key only one file has is flushed. A key both have is handled in one of
three ways: its rows are merged as they are ("stream", without options), they
are collected and cancelled by class ("exact": normalization, which is transitive),
or matched by augmenting paths ("tolerant": a numeric tolerance is not
transitive). A record is a key and the rest of its row; which rests are
equivalent is a relation. `matchLeft` and `matchRight` are the two directions of
`equal`, a set of pairs, and `fromLeft` is the search's parent array. The search
takes the queue in any order and any free row, which includes the code's order.
A loop of the code without a choice in it (a flush, reading a group, reporting
it) is one step. Left out: the text of the output, which of the unpaired rows
are printed as one change (`pairBySimilarity`), column counters, merge choices.

Run `sorted_compare`: files of up to three rows, every relation that some
tolerances could give. The first key has four different rests, so that three
left rows and three right rows can form a path with two exchanges; the second
has one, for what comes after a group. `MostPairs` compares with every choice of
partners, `CountsAddUp` with the lengths of the files.

Proved for all files, keys, rests and relations: that no row gets two verdicts
and that success gives each row one (`EveryRowOnce`), `PairsAreAlike`,
`OnlyMeansAbsent` and `NoPairMissed`. The inductive invariant has three parts.
The cursors separate the keys that are done from the others in both files
(`Frontier`), so a key is met once and in both files together. The stream's
reported rows sort below what is unread of the other file (`Below`), so none of
them can still find an equal. The rows a search reached hang together down to
its root (`Paths`), so a search that ends without a path has seen every partner
its root could have and all are taken; and taken rows stay taken while later
paths exchange partners (`Tried`).

Proved too: `SummaryIsBest`. The counters are the sizes of what they count (`Counted`),
and success gives each row one verdict, so they add up. That no choice of partners has
more pairs is shown by naming, for each pair there could be, one of its two rows that
stands for it and has a partner now: two pairs of one choice have different rows, so
different present pairs stand for them (`MostPossible`). When equivalence is transitive a
class with a left row left over stands with its right rows, which all have partners, and any
other class with its left rows (`ClassesCovered`). With a tolerance the search has to
give the rows: what exchanges can reach from the roots it gave up is a set of left
rows closed under "has an equivalent, whose partner is", and no path that is found
later comes into it from outside (`DeadEnd`); at the end of a group these left rows
stand with their partners, the others themselves (`Covered`).

### RecomputeCoordinator (and LiveProofs)

`createRecomputeCoordinator` in `web/optimistic.js`. An action is what happens
between two awaits: `start()` up to `await run()`, and `Finish` the rest. `owed`,
`again` and `inFlight` are history variables that say what was asked for.
`MaxRuns` caps `runCount`, which no operation reads.

Proved: at most one run is in flight, nothing asked for is forgotten, nothing
starts after `dispose`. Checked in `live`: what was asked for begins
(`CoordinatorServes`), if an armed timer fires and a run resolves.

### LineEdit (and LiveProofs)

The line editor, the edit buffers, the screen and the exclusion lock in
`web/app.js`, with the coordinator as an instance of `RecomputeCoordinator`: its
run is either refused at once, answered "busy", or a call of `compare()`. A
comparison is `prepare` (its two awaits), `asked` (the request is out, the result
is emptied), `painted`. Removing a focused textarea sends `blur` in some browsers
and not in others: `tearEditor` has both outcomes. `OtherBegins` stands for every
other user of the lock.

Checked in `live` (`EditorSafe`) with two lines, so that an editor on one line is
open while the other is committed, and two texts. `dropped` says that a
comparison was refused since the last one began; without a refusal, a quiet
screen shows the buffers. Run `line_edit_final` drops that condition and is
violated, see Findings.

Proved (`EditorIsSafe`) for any lines and texts. A difference between the screen and
the buffers is safe in a quiet state only because somebody is going to remove it, so
the inductive invariant `EditorInv` names who, in every other state: an open editor or
its composition, the coordinator's timer or its raised flag, or the comparison on its
way; and it relates the coordinator's run to the call of `compare()` it is. What the
coordinator's own theorems say of it holds here too (`EditorCoordinated`), where its
run may be refused and its environment is the editor.

### FileWatch (and LiveProofs)

`watch.go`, `filewatch.js` and the part of `app.js` that re-compares after a
change. Contents are numbers, a new one for each write, so a content names a
version. `compare()` takes a snapshot of the files, waits for the lock, reads the
files (or the buffers, in edit mode), shows the result and starts the watcher
from the snapshot. The watcher's reply, the debounce timer, the bar and the
unsaved lines decide when a change is acted on. `missed` is history: a refusal, a
failed request, the checkbox or a declined reload, after which the user has been
told, or at least nothing is promised.

Checked in `live` (`WatchSafe`, `ChangeIsShown`): three contents allow two
changes, one of them while the first is being handled, and one other operation
may hold the lock. Fairness: requests are answered, timers run out, operations
end; users and other programs are not fair. Run `file_watch_reload` is violated,
see Findings.

Proved (`WatchIsSafe`) for any number of changes. The inductive invariant `WatchInv`
orders the versions that are about: the result's, the one the comparison's snapshot
took, the watcher's baseline and the file's, and says of each gap between two of them
which poll, timer, bar or comparison will close it, or that it is one of those `missed`
is about.

### EditSession (and MCEditSession, EditSessionProofs)

One pane: loading it (`os.Stat`, read, answer), committing lines, saving it
(check the stamp, write, second `os.Stat`, answer), the stale-write question, and
other programs that write the file at any moment. Neither loads nor saves take
the lock, so several are under way. Every write gives a new stamp. `known` is
the file a buffer really agrees with; the code does not have it, the properties
compare it with what the stamp claims. `excused` are the writes the check cannot
be asked to notice: this page's own, and those between a save's check and its
second look.

Run `edit_session`: two loads, two saves, two writes (`MaxStamp` 3), with symmetry
among the calls (no property names one), and beside it the requests of the next
section. Run `edit_session_clean` is violated,
see Findings.

Proved for any number of calls and stamps: the types, with the bound on the
buffer's stamp, `NoSilentOverwrite` and `CleanMeansOnDisk`. For the first, the
inductive invariant says that a load's stamp is not newer than the file it read,
so equal stamps at the check mean equal files, and that a buffer goes either by
the stamp of a file it knows, or by one that is older than it, or by an excused
one. For the second it says that no call knows a file that is newer than the one
on the disk, that a load whose stamp is that of the disk has read its text, and
that a save under way writes the lines of its buffer unless it is disturbed.

### LineDiff, ThreeWay, TextRequests (and MCEditSession)

`LineDiff` is `internal/linediff`, `ThreeWay` the text half of `internal/threeway` and
`internal/merge`: operators without state, one for each function. A line is a record
of what the options can tell apart (word, case, gap, what a filter removes,
terminator), so that a normalizer does to it what it does to a string. `walk` is the
loop of `diffWithOptions`, with the run of dismissed pairs that is still growing as a
part of its state. Left out: the caches of normalized lines, `LargestHunk`, hashes.

`TextRequests` puts them in the order of the handlers: refuse sync points, compare
(with dismissed differences only where a result is shown), pair moves, ignore hunks;
compare and save a merge; compare three texts and save theirs. `MCEditSession` asks for all texts of a
few lines over two words in six scenes, one for each thing that makes a difference
hard: moves (four lines, so that two blocks can change places, with windows of one
and three lines and a hunk limit of one), ignored case, space and filters (six
variants of a line, every policy for comparing and for aligning), terminators, merges,
sync points (valid and refused), and three texts.

- `HunksRebuild`: the hunks are in order, with as many lines between them in either
  text, and lead from one text to the other; nothing inside one is equal; sync points
  are not crossed; dismissed differences leave the others as they were. Where lines
  are aligned more coarsely than they are compared *and* dismissed ones are shown, the
  dismissed run alone may be misplaced (see "Seen while modelling").
- `CountsFit`: the counters are those of the whole difference, whatever the limit
  keeps of it, and of what is left after moves are paired and hunks are ignored.
- `MergesFit`: three-way events rebuild either side, do not depend on which side is
  called left, and one side's change is merged without a question; what is saved does
  not depend on it either. What is saved is read from its bytes, as a later pass would,
  cut into lines (`LinesOf`: a record without a terminator goes on into the next). Where the
  markers stand on lines of their own, they say what each side would have been; and they do
  where every line of both texts is terminated. What is left out is exactly a marker written
  onto an unterminated line (see "Seen while modelling"). A two-way merge
  writes the side that was chosen everywhere. For the new side that is
  conditional: every line has its terminator, and nothing is ignored. Run `text_merge`
  asks the same world for it without the first condition (`AllRightIsNew`) and is
  violated, see Findings.

### BrowserLease (and LiveProofs)

`server_lifecycle.go` and the heartbeats of `app.js`. A tab sends a heartbeat when
it is shown and at intervals, a release when it is hidden; both may overtake each
other or get lost, and a crashed tab sends nothing. The goroutine's loop has four
steps: it looks at the deadlines (`NextDelay`), sets its timer (`Reset`), sleeps,
and is woken by the timer or by the one notification the channel holds; requests
come between any two of them. Time is counted in ticks, and a tick passes when
nobody has anything left to do in this one, so "on time" has a meaning.

`LeaseDecides` says when the server must give up, from what requests it has
handled: not before the latest release is a grace old and every tab it has heard
of has been silent for a lease and a grace, and not a tick after that; and never
while it serves a tab, that is, one that is open and whose last request to be
handled or lost was a heartbeat that was handled. It is checked in `live` with two
tabs, where a lease can end after another tab has come and gone. A system that
stands still before its end would be reported as a deadlock.

Proved (`LeaseExact`) for any number of tabs and any times with `Interval + Delay <
LeaseTimeout`. The inductive invariant says that a deadline for an empty server is
set exactly while nobody holds a lease, and is then the latest of those it is
for (`DeadlineRight`); that the goroutine sleeps no longer than to the earliest
deadline unless a notification waits for it (`Sleeps`); and that for a tab that is
served, the next heartbeat is due or under way in time (`OnTime`). `LeasesDecide` is
the same of the server in `MCLive`, beside the other parts.

### CompareSession (and KeptProofs)

`app.js` with `tabs.js`, `urlstate.js` and `comparisonscope.js`. The form holds what
the next comparison is of; tabs, history and store remember comparisons and give
them back to it. `tasks` are the calls that wait: for an answer to "unsaved edits",
for the lock, for the watch baseline, for the server. A comparison is its mode and
paths, its conditions one value. `goal` is history: what the user asked for last.

Run `kept`: two comparisons, three tabs, two calls under way, three
actions of the user, a store and an address that are too small for all of it.
That is enough for a restore that overtakes another, a switch during a restore
and a reload between any two steps. `EntriesAgree` is about what an entry of the history says
of its tabs, `RestoresSettle` about where the form ends and the flags that
a restore sets, `CallsEnd` about calls that wait. Fairness: the server answers, the timers fire,
a question is answered.

`MCKept` puts it beside `AtomicFile`, which has what else outlives its process; the
two share no state, and a behaviour is one part's (`FileBehaves`).

Proved for any comparisons, conditions, limits of the store and the address, tabs, actions of
the user and calls that wait, as long as one call can wait (`SessionAssumption`):
`EntriesAgree` (`HistoryAgrees`) and `RestoresSettle` (`Settles`). The inductive invariant
`SInv` says of the page, the history and the calls together:

- every set of tabs, on the page, in the history or in the fragment, has different ids
  and an active tab, unless it is empty: `nextId` finds an id that no tab has, since among
  one more number than there are tabs one is free;
- every entry of the history agrees with its tabs, which each way to write one
  (`updateComparisonURL`, `Restored`, a reload, the end of a comparison) has to keep;
- while `restoring` is set, a call is under way that will clear it: the load of a tab, or
  the restore of the newest generation; while `switching` is set, the load of a tab;
  the lock is held by a call that runs;
- the form is at what was asked for last, or the call that waits for the lock with the
  newest generation brings it; no call that waits is of a generation the page has not
  reached, so a new restore makes all the others old.

The last part is what makes an older restore harmless, and the reason why the flags of a
page cannot be cleared by whoever comes first. The attempt to prove it showed two places
where the model, with more actions than the run has, was not as the code is: `closeTab`
clears `switching` in its `finally`, also when no tab is left (`app.js:1778-1783`), and
what the user confirms with "yes" is the last thing asked for.

### ResultViews, PanelViews, MCPage (and ResultViewsProofs, PanelViewsProofs)

The views of the page share no state (each is reached through a result that only one of
them draws). They are composed in two modules: `ResultViews` has what shows a result,
`PanelViews` the panels beside it. In each a behaviour is one view's: it is chosen at
the start, and the others stay as they began. What holds of each while the others rest
holds of it whatever they do. `MCPage` extends both, adds the row filter, and gives
their constants values; the bounds are there, with the reason of each in a comment.

| Module | Composed in | What it is of | State that is tied together | Property |
|---|---|---|---|---|
| ResultRender | ResultViews | streamed pages painted in slices, `renderGate`, three-way results, Cancel, display options | what was answered, what is on the screen, what is reported | `FinishedIsShown` |
| UnchangedContext | ResultViews | regions between hunks, batches, expansion from both ends, resets during a load | segments, gaps, controls | `ContextWhole` |
| ContinuousView | ResultViews | sections drawn in slices, loaded and released around the reader, scrolls that are cut off or make no event, heights that change, answers for older views | focus, reading line, loaded, asked for | `ReadingIsReady` |
| FolderResult | ResultViews | the tree, a file opened from it, Back, filter, search, swap, comparisons beside it | tree and what was kept of it, absent sides | `FolderTrue` |
| ResultSearch | ResultViews | hits in a result that is replaced page by page and region by region | hits and cells | `HitsAreOfScreen` |
| MergeResult | PanelViews | choices, undo, automatic advance, the preview with its timer and its late answers, typed lines, saving | choices, history, preview | `OneTimeline`, `PreviewOfChoices`, `AdvanceGoesOn` |
| StatusLanes | PanelViews | messages with timers, repeats and a cap; a tracker of stages | timers and entries, stages and lane | `LanesAreTrue` |
| CsvSetup | PanelViews | inspection, keys, column map, requests, projects, disabled controls | a request and its inspection | `RequestFitsInspection` |
| CsvResult | PanelViews | pages, columns, the suggestion panel with late answers | table and result, panel and request | `TableAndProposals` |
| Suggest | PanelViews | causes, proposals on the cards, their Apply on the form one on another, comparisons that come back or fail | form, cards and result | `TableAndProposals` |
| RowFilter | MCPage | the builder, the compiled filter, the engine's evaluation, a project | three forms of one filter | `FilterMeansTheSame` |

Some of the properties hold under a condition, which is stated with them, because
the code does not keep them in general: the last part of `FilterMeansTheSame`, what a
project keeps of a filter, is about named columns without case folding, and its
orderings about a cell and an operand that are both numbers or both not;
`FinishedIsShown` is about results that were not disturbed; `ReadingIsReady` says where the
reader is unless the reading line went elsewhere without a scroll event (`adrift`);
`TableAndProposals` excepts the whitespace proposal, and says that it is never in effect.
The section "Seen while modelling" has what happens otherwise. `RequestFitsInspection`
relates a request to the inspection it was built from, not to the paths it is sent with.
`RowFilter` has recursive operators (a filter is
a tree of groups) and is out of the prover's reach, so neither composition holds it.

Proved of `ResultViews`:

- `FinishedShown`, for all pages, slices, cancellations and display options. A render is
  begun by a page or by a redraw, paints a slice at a time, and is stale when another has
  begun. The inductive invariant `RenderInv` says that the token of a render is its own
  (`OneRenderEach`); that a comparison's own render is of the comparison that runs
  (`RunPaints`); that without a disturbance the screen and what the present render has left
  are together what was received (`TextIsShown`); and that a three-way result with events
  is shown so after any redraw (`EventsAreShown`), because it is redrawn from what is kept.
- `ReadingPrepared`: once nothing is under way, the section taken to be read and those
  around it are loaded, whatever arrives for views that were left, with the bounds the code
  has (`2 * Ahead <= Limit`, `2 * Behind < Limit`): then what is released is never in the
  window (`WindowIsKept`); and it is the section at the reading line, unless that went
  elsewhere without an event. A jump marks its section's load as under way before it would
  wait for it, so it waits for nothing: it scrolls at once, as far as the list goes. If the
  scroll moves, its event makes the section at the reading line the one being read; if it
  does not, no event comes, and `adrift` says so until the next one. `ContinuousInv` adds
  that a section of the window that is missing is asked for, once, and that the focus is at
  the reading line unless the timer will bring it there or `adrift` is set.
- `FolderIsTrue`: an absent side is named as the folder comparison found it, and Back shows
  the tree as it was left, for all entries and limits. `TreeOk` says of a tree, however much
  of it was placed, opened and closed, that the rows of an open folder were made; so two
  trees of the same entries that agree on the folders both have, show the same of what both
  have placed (`SeenIn`, by induction over the folders above a row). A tree that Back draws
  agrees with the one that was left (`Remembers`): a folder is made as it was left there, and
  a click on one ends what the property speaks of. `FoundSo` is about the other half: what
  an opened entry says of its sides is turned round together with its paths.
- `SearchedResult`: the hits of a finished search are the places a search would find now,
  for all patterns, pages and limits. The property is inductive but for an empty pattern,
  which is not searched for: `EmptyFindsNothing` says that it has no hits.

Proved of `PanelViews`: `OneHistory` (what can be undone, what is chosen and what can be
done again are one line, whatever its length and however much of it is forgotten),
`PreviewFollowsChoices` and the action property `ChoiceGoesOn` (automatic advance goes on
to an undecided conflict, around the end of the list, as long as there is one).
`MergeInv` says that the last preview asked for is the one of the present choices, unless
the timer will ask again, so that an answer with the present token has their lines.

And of the other panels:

- `MessagesStay` (`LanesAreTrue`), for any texts, delay, cap and plan. An identity is one
  message's, and a timer that runs for a message of the lane ends its whole time after the
  message's last post (`InLane`); a stage that is active is the current one, and a tracker
  that was stopped has none (`TrackerInv`), whatever events come late.
- `RequestsFit` (`RequestFitsInspection`): what a request names, in its keys, filter and
  map, are columns of the headers its inspection read. `SetupInv` says it of the form, of
  the calls under way and of the comparisons kept for later.
- `TableIsTrue` (`TableAndProposals`). `Drawn` says what a table on the page is: a page that
  exists, its rows, the pager, and the columns in some order, each once (`Arranged`), which
  a dragged column keeps (`MovedArranged`). `PanelInv` says that no request under way when
  the panel was hidden has the newest token. In `Suggest`, Apply writes the control of the
  proposal's option, if the page has one, and starts a comparison, which comes back with any
  result, or not at all, and then the cards of before stay. `SuggestInv` says that a proposal
  whose Apply was pressed is in effect on the form but for that of whitespace, which never
  is, and that a later one of its option, from new cards or old ones, adds to a list or has
  the same value, or is not made, for which a tolerance must be a number: `GreatestIsThere`
  of the magnitudes of finitely many cells.

## Runs

| Run | Module | Expect | Question |
|---|---|---|---|
| `kept` | MCKept | pass | what can a reader of a replaced file find, and does the form end at what was asked for last, with no call waiting for ever? |
| `engine_run` | EngineRun | pass | is the output the old or the new one as a whole (or taken away by the Windows fallback of a run that fails), the work root as it was found, the cause reported, and does it return? |
| `partition_sort` | MCPartitionSort | pass | is every row routed exactly once, wherever the ranges cut, and does a sort keep the records? |
| `sorted_compare` | MCSortedCompare | pass | one verdict per row, and as many pairs as possible? |
| `live` | MCLive | pass | what happens by itself: is no re-comparison lost, no change unseen, does a quiet screen show the buffers, does the server end with its last tab? |
| `page` | MCPage | pass | is each view true to its data, whatever comes late? |
| `edit_session` | MCEditSession | pass | whose work can a save overwrite, is a clean buffer on the disk, and do hunks, counters and merges fit the texts? |
| `text_merge` | MCEditSession | violation | is a merge with the new side everywhere the new text, with open last lines, too? |
| `result_redraw` | MCResultRender | violation | does a display option show the result again? |
| `line_edit_final` | LineEdit | violation | does a quiet screen show the buffers after a refused comparison, too? |
| `file_watch_reload` | FileWatch | violation | is a change shown in edit mode with nothing unsaved, too? |
| `edit_session_clean` | EditSession | violation | does clean mean saved? |

`MCLive` holds what happens without a user: the coordinator with any caller, the line
editor with a coordinator of its own, the watch, and the leases. They are one run
because they are one question of four components that share no state; a behaviour
is one component's. `page`, `kept` and `edit_session` take between two and three minutes on two
workers, the others a little more than a minute or less.

Fairness is stated where a property is of what must happen: `RunReturns` (every
goroutine that can take a step takes one, and what `Run` calls ends), `StagesEnd`
(some goroutine does, and the sort goes on), `CoordinatorServes` and `ChangeIsShown`
(timers fire, requests are answered, operations end), `CallsEnd` (the same, and a
question is answered). `LeaseDecides` needs none: ticks wait for what is due.

`CHECK_DEADLOCK FALSE` is set where the system stops: all writers, the run, the
range readers, the sort and the comparison return, the machine dies, the stamps of
`EditSession` run out, a page has nothing under way and the user is done.

Every property of a passing run has a mutant: an operator named after what it
does wrong, commented `Faulty:`, that TLC refutes in the place of the right one.

## Findings

1. **A line typed during a save is marked saved** (`edit_session_clean`).
   `saveEditedPane` captures the lines before the request; `buffer.accept` takes
   the lines of the moment of the answer. `editbuffer.js:54-55` says that
   `accept()` "takes what the server confirmed it wrote".
2. **The last edit can stay uncompared** (`line_edit_final`). The coordinator's
   run answers `false` while a line editor is open, and `compare()` answers
   `false` when it loses the lock; neither is "busy", so nothing is retried.
   `optimistic.js:73-75` promises the final edit, `gui.md:219-221` a catch-up run.
3. **In edit mode a foreign write can become the baseline unseen**
   (`file_watch_reload`). The screen shows the buffers, the watcher's baseline is
   the files. `gui.md:351-353` promises a re-comparison.

4. **A display option clears a text result** (`result_redraw`). The object that
   `readDiffStream` returns is filled by none of its callbacks; `runCompare` keeps it
   as `lastData`, so a redraw has no hunks. `app.js:8259-8260` says that it "redraws
   the current result". For the same reason the navigation, the confirmed marks and
   the two-way merge of a streamed text comparison have nothing to work on.
5. **A merge glues two lines** (`text_merge`). A last line without a terminator is
   taken for unchanged when the new text goes on after it (`linediff.go:495-500`), and
   `WriteText` copies it with the terminator it has in the old text, none. Old `a`, new
   `a\na`, every hunk from the right: `aa`. `docs/merge.md:30-31` says that line
   endings "follow the source selected for each range", and
   `TestWriteTextChoicesAndOriginalsUnchanged` (`text_test.go:27-38`) requires the new
   text when every choice is Right.

## Seen while modelling

What the code does, seen in its text and in counterexamples of properties that had
to be weakened; a document that says otherwise is named, where there is one.

- *Leases.* A page that comes back from the browser's cache sends its heartbeat
  while its release may still be under way; if the release arrives last, the server
  may end under the open page, since the grace (5 s) is shorter than the interval
  (30 s). The other way round, a released tab is leased again and keeps the server for
  95 s. A heartbeat that arrives between the goroutine's decision and the shutdown is
  answered `leased: true`.
- *CSV setup.* A comparison with key or filter columns asks for an inspection first,
  and so may Inspect itself, which is refused by what only an inspection provides
  (`app.js:5281-5282`, `5321-5323`, `5846-5847`, against `docs/projects.md:110-111`). A
  project's filter loses `ignore_case` and positions, because the page reads its own
  names for them (`docs/projects.md:80-83`). Apply on the whitespace suggestion throws, since
  there is no control `whitespace` (`app.js:5468`; `index.html:493` has `whitespaceScale`):
  nothing is set and nothing compared, against "writes a proposal's options into the setup
  controls" (`app.js:5463`). An inspection that is answered after the paths were retyped is
  taken for that of the new ones (`app.js:5327-5330`), and a request is not checked against
  it. Inspect stays disabled when a
  comparison takes the lock while an inspection is under way (`app.js:1348-1372`).
- *Row filter.* Where an ordering has a number as its operand and the cell is empty or a
  text, the page compares texts (`rowfilter.js:217-218`) and the engine lets no row pass
  (`engine/rowfilter.go:258-263`), against "the client preview and the server comparison
  cannot drift" (`rowfilter.js:308-310`). `Comparable` leaves these out of
  `FilterMeansTheSame`.
- *Windows replacement.* `Replace` removes the destination before its second rename and does
  not bring it back if that fails (`atomicfile.go:77-87`), against
  `docs/merge.md:68-69` ("failed operations leave both inputs unchanged", where an input
  is overwritten) and `docs/usage.md:383` ("Both write atomically"). With two calls on one
  destination, what is lost may be the file of the call that succeeded.
- *Late answers.* The filter preview's answer is not numbered (`app.js:5086-5100`); a
  request for suggestions that finds none to make keeps the older request's token
  (`app.js:5446-5451`).
- *Cancel.* The render gate's flag is read after a render that may not have reset it
  (`app.js:6432`), and a Cancel between pages may be forgotten (`app.js:6281-6290`).
- *Tabs.* A result that ends after a switch is counted for the tab that is active
  then (`app.js:1630-1634`, `6472`).
- *Folder results.* `directoryData` is never cleared, so the flat list and the
  continuous view draw the tree over a file's text result (`app.js:907`, `934`,
  `8562`). A change of the filter while a file is being opened takes Back away
  (`app.js:5986`), and Back during a comparison is painted over by its answer.
- *Context and search.* Hiding the context while its first load is under way leaves
  gaps; previews that are loaded after an expansion detach the search's hits
  (`app.js:2650`); closing the search does not stop its timer (`app.js:6517`, `6678`).
- *Continuous view.* A jump may exceed the limit of held sections for a while
  (`app.js:1094-1096` says it does not), and a load that fails releases nothing. The
  counter names another file than the one at the reading line after a jump that the end of
  the list cuts off to nothing, after a change of heights, or after a scroll while the list
  is still drawn, until the next scroll event (`app.js:1002`, `1018-1021`, `1256-1262`); and
  after a jump that was cut off but did move, the view goes back to the section at the
  reading line, not to the one that was asked for.
- *Dismissed differences.* An aligned pair that differs is reported without ending the
  run of dismissed pairs before it (`linediff.go:253-265`). With something ignored and a
  coarser `alignWhitespace`, which the page offers together, the run is stored after the
  hunk that follows it and goes on growing across it, against `hunk.go:68` ("in order").
  Only what is shown has dismissed runs; merges and patches do not.
- *Conflict markers.* For the same reason as in finding 5, a marker of a two-way merge
  that follows a last line without a terminator is written onto that line
  (`merge/text.go:167-178`), and then there is no line a tool would know as a marker, against
  `docs/merge.md:37-38` ("writes standard `<<<<<<< LEFT` / `=======` / `>>>>>>> RIGHT`
  blocks so a later pass can resolve them"). `MergesFit` excludes exactly these texts.
- *Sync points.* `mergeSyncSegment` does not carry `LargestHunk` over, which
  `hunk.go:80-82` says is computed for every hunk.
- *Shortcuts.* Closing the keymap dialog while it captures leaves the capture on, and
  the next key is bound (`app.js:7110-7125`). `currentComparisonIdentity` is declared
  twice (`app.js:1919`, `4375`).

## What is proved, and what is only checked

The theorems are in eight modules, from the assumptions named in the modules (positive
numbers of partitions, workers and bytes of a chunk, groups of two files or more, the platform is Windows or not, the original writer is none of the writers, keys and
rests are ordered, equivalence is reflexive and symmetric, a heartbeat comes before
the lease of the one before it ends, a call of the page can wait, more sections are held
than are read ahead and behind, pages and hits are counted by natural numbers, so are the lines
of texts, hunks and context, of which more than none is added at a time, a path is a sequence of names, a page of a
table has a row or more, changed columns are columns of their result, the changed cells of a
result are finitely many, the two whitespace modes differ, and the value for "none" is no value of what it stands beside). TLC evaluates these on
every run. `PROJECT.json` lists the results a reader should know of.

| Module | Proves | By |
|---|---|---|
| KeptProofs | `DestinationWhole`, `InstalledByTheFinished`, `EntriesAgree`, `RestoresSettle` | `FileInv`, `SInv` |
| EngineRunProofs | the pool's invariants, `ImplementsContract`; a run takes steps of the pool; `RunKeepsItsWord`, `FailureKeepsOutput` | `IInv`: where each index is, who holds the cause; `RunInv` |
| PartitionSortProofs | `RoutedOnce`, `EveryRowRouted`, the refinement of `JobContract`; `SortKeepsRecords`; `NothingLost` | `IInv`: how far each range is read; `CountsRight`; `SortInv`: `Named`, `Merging` |
| SortedCompareProofs | `EveryRowOnce` and with which row; `SummaryIsBest` | `Frontier`, `Below`, `Paths`, `Tried`; `Counted`, `Covered`, `DeadEnd` |
| LiveProofs | `EditorSafe`, `WatchSafe`, `LeaseDecides`, the coordinator's promises | `EditorInv`, `WatchInv`; `DeadlineRight`, `Sleeps`, `OnTime` |
| EditSessionProofs | `NoSilentOverwrite`, `CleanMeansOnDisk` | what stamps say of files |
| ResultViewsProofs | `FinishedIsShown`, `ReadingIsReady`, `FolderTrue`, `HitsAreOfScreen`, `ContextWhole` | `RenderInv`, `ContinuousInv`, `FolderInv`: `TreeOk`, `Remembers`, `FoundSo`; `SearchInv`; `ContextInv`: `Sound`, `Whole` |
| PanelViewsProofs | `OneTimeline`, `PreviewOfChoices`, `AdvanceGoesOn`; `LanesAreTrue`; `RequestFitsInspection`; `TableAndProposals` | `MergeInv`: the history is a path, a token has the present choices; `LanesInv`; `SetupInv`; `TableInv`, `PanelInv`, `SuggestInv` |

An invariant that is proved was first checked by TLC, the inductive ones too, with
bounds of their own where those of the run are too small for them (`SInv` with four
actions of the user: 800 037 states).

Only checked by TLC:

- liveness (`RunReturns`, `StagesEnd`, `CoordinatorServes`, `ChangeIsShown`, `CallsEnd`), which is
  beyond the prover;
- `HunksRebuild`, `CountsFit`, `MergesFit` and `FilterMeansTheSame`: the walk of
  `LineDiff` and the filter's tree are recursive operators.

The longest of these arguments is that of `ContextWhole`. What it says of a quiet page
does not carry over a step, so `ContextInv` says what is true while loads are under way.
`Sound` holds always: segments and ranges on their way lie within their region, a load of
an older token can do no harm, and a region waits (`pending`) only for a load of the
present token that will free it. `Whole` holds until a load fails or the context is
hidden with something in flight, which the code does not repair: every line the field
asks for is held or is in a batch still to come (`Covered`), and every gap is named, or is
asked about, or a load is on its way whose end asks about all gaps (`Previewed`). The lemmas before it say what
`missingContextSpans`, `batchContextRanges`, `initialContextRanges` and
`renderContextRegion` do for any segments: gaps are the maximal intervals that are not
held, batches have every range once and in order, and overlapping segments are drawn
without a line twice.

Where a model's operator goes through a list it is written as a recursive function (`Rendered` and
`Conflicts` of `MergeResult`, `FlattenSeq` of the community modules): that it is what it
says for every list is proved by induction over the lengths, as a fact about a set
(`Induction`). An operator of the community modules that takes a lambda, like
`SelectSeq`, cannot be reasoned about: in the panels `Keep` of `Lists` stands for
`Array.prototype.filter`, with `KeepIs` and `KeepHas` about it (what is kept, in which
order, nothing twice, and all of it if all is wanted).

## What is not modelled

- Encodings, parsing, formatting, drawing and the wording of messages; the pure
  helpers of the presentation, with one call at a time and no state.
- `pairBySimilarity` (which unpaired rows are printed as one change), the folder
  walk, the dropped files' store, the three-way comparison and the merges of CSV rows:
  sequential code or code of the shape of the pool, planned below. Of a three-way text
  merge, the origins of its lines and the lines typed over them.
- The 429 answer to a seventeenth watch; the request decoding, tokens and limits of the
  server, whose requests are independent.
- Shortcuts and their presets, the file browser, sync points, the theme: the state of
  one panel, changed by one click at a time.
- Reports and exports; command-line flags; the update's network part.
- Two runs that are given the same empty `--work-dir` at once: the check that it is
  empty and its use are two steps (`createWorkRoot`), and nothing claims more.
- Files of equal size written within the clock's resolution (the stamp cannot tell
  them apart, and the code does not claim to).
- One hazard has no property: a reload that finds the lock taken leaves the page
  without a watcher (`app.js:1522`). `FileWatch` has the step and counts the change as
  missed; a property that forbids it does not hold of the code.

## Plan

In this order:

1. `FolderWalk` (`dircompare`) as another implementation of `JobContract`, and the
   dropped files' store with its quota.
2. The CSV half of `threeway` over `ThreeWay`'s kinds, and `pairBySimilarity`, which takes
   the closest pair first: its comment speaks of "minimizing the total changed columns",
   which a greedy choice need not do.
