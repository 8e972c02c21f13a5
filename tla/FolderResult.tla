------------------------------ MODULE FolderResult ------------------------------
(***************************************************************************)
(* The result of a folder comparison: the tree and the flat list of        *)
(* app.js, with directory.js.                                              *)
(*                                                                         *)
(* A file of the tree is opened as a text comparison in place of the tree, *)
(* and Back draws the tree again from the response that was kept.  Folders *)
(* open and close, a folder's rows are made when it first opens, and every *)
(* change of the filter, the search or the flat list draws anew.  Drawing  *)
(* is done in slices, and comparisons hold a lock that the controls of the *)
(* tree do not know of.  An action is what runs without giving the thread  *)
(* back.                                                                   *)
(*                                                                         *)
(* It begins with a folder comparison on the screen.  Left out: the        *)
(* continuous view, which ContinuousView models, the tab order of the rows *)
(* and the scroll position.                                                *)
(***************************************************************************)
EXTENDS Naturals, FiniteSets, Sequences, SequencesExt

CONSTANTS
  Status,      \* the entries: from a path, a sequence of names, to added, removed, ...
  Found,       \* the paths that the search finds
  Names,       \* the names, in their order
  ExpandLimit, \* DIR_AUTO_EXPAND_LIMIT
  MaxActs      \* bound: user actions

VARIABLES
  mode,        \* "dir" or "text"
  inputs,      \* what the two path fields name
  filter, query, flat,   \* dirStatus, dirSearch, dirFlat
  searchTimer,
  data,        \* directoryData with directoryBody
  tree,        \* what of it is on the screen, or gone
  drawing,     \* the items of it still to be placed, and for whom
  entryView,   \* directoryEntryView
  folderReturn,
  backShown,   \* the button
  backTails,   \* how many returnToFolder wait for their rendering
  filtersShown,
  waiting,     \* comparisons asked for that do not have the lock yet
  call,        \* the one that has it, or idle
  acts

vars == <<mode, inputs, filter, query, flat, searchTimer, data, tree, drawing, entryView,
          folderReturn, backShown, backTails, filtersShown, waiting, call, acts>>

none == [none |-> TRUE]
gone == [open |-> <<>>]
idle == [pc |-> "idle"]
nothing == [by |-> "nobody", left |-> {}]

Paths == DOMAIN Status

--------------------------------------------------------------------------------
(* directory.js *)

\* The two roots, or a file under them; swapped, if the old root is the new one.
folder(reversed) == [path |-> <<>>, swapped |-> reversed]
file(path, reversed) == [path |-> path, swapped |-> reversed]
Swap(i) == [i EXCEPT !.swapped = ~@]

\* An entry's status in a comparison of the roots as given or swapped.
StatusIn(path, reversed) ==
  CASE reversed /\ Status[path] = "added" -> "removed"
    [] reversed /\ Status[path] = "removed" -> "added"
    [] OTHER -> Status[path]

\* directoryEntryRequest
directoryEntryRequest(path, reversed) ==
  [of |-> file(path, reversed),
   oldAbsent |-> StatusIn(path, reversed) = "added",
   newAbsent |-> StatusIn(path, reversed) = "removed"]

\* filterDirectoryEntries, of one entry
Passes(path, status, needle) ==
  /\ status = "different" => Status[path] # "same"
  /\ needle => path \in Found

filterDirectoryEntries(status, needle) == {p \in Paths : Passes(p, status, needle)}

\* buildDirTree: the folders are the prefixes the entries share.
Above(path) == {SubSeq(path, 1, n) : n \in 1 .. Len(path) - 1}
Folders(visible) == UNION {Above(p) : p \in visible}
Under(f, g) == f # g /\ IsPrefix(f, g)

\* Names in their order; sortDirectoryEntries, of paths.
At(name) == CHOOSE n \in DOMAIN Names : Names[n] = name
Precedes(p, q) ==
  \/ Under(p, q)
  \/ \E n \in 1 .. Len(p) : /\ n <= Len(q) /\ SubSeq(p, 1, n - 1) = SubSeq(q, 1, n - 1)
                            /\ At(p[n]) < At(q[n])

--------------------------------------------------------------------------------
(* renderDirectory *)

Visible(t) == filterDirectoryEntries(t.filter, t.query)

\* Whether a folder's row is made open: as the tree that was left had it, or by size.
OpensAt(t, f) ==
  IF f \in DOMAIN t.state THEN t.state[f] ELSE Cardinality(Visible(t)) <= ExpandLimit

\* The folders whose rows are made with those of from, which are made now: each
\* is in a folder that opens at once.
MadeWith(t, from) ==
  {g \in Folders(Visible(t)) :
     \E f \in from : IsPrefix(f, g) /\ \A h \in Above(g) : IsPrefix(f, h) => OpensAt(t, h)}

\* fillChildren and folderRow, for folders of which nothing was made.
Made(t, from) ==
  LET new == MadeWith(t, from) \ DOMAIN t.open
  IN  [t EXCEPT !.open = [f \in DOMAIN t.open \cup new |->
                            IF f \in new THEN OpensAt(t, f) ELSE t.open[f]],
                !.built = @ \cup {f \in new : OpensAt(t, f)}]

\* The rows of the first level; in the flat list, the entries.
TopItems(t) ==
  IF t.flat THEN Visible(t) ELSE {p \in Folders(Visible(t)) \cup Visible(t) : Len(p) = 1}

\* Whose row comes first: in the tree, folders before files.
ComesFirst(t, p, q) ==
  IF ~t.flat /\ (p \in Paths) # (q \in Paths) THEN q \in Paths ELSE Precedes(p, q)

\* setOpen
setOpen(t, f, open) ==
  LET toggled == [t EXCEPT !.open[f] = open, !.built = IF open THEN @ \cup {f} ELSE @]
      children == {g \in Folders(Visible(t)) : Under(f, g) /\ Len(g) = Len(f) + 1}
  IN  IF open /\ f \notin t.built THEN Made(toggled, children) ELSE toggled

\* renderInSlices: one item or more, then the thread is given back, or the end.
Place(t, items, by) ==
  \E placed \in (SUBSET items) \ {{}} :
    /\ \A p \in placed, q \in items \ placed : ComesFirst(t, p, q)
    /\ tree' = [(IF t.flat THEN t ELSE Made(t, placed \cap Folders(Visible(t))))
                  EXCEPT !.placed = @ \cup placed]
    /\ drawing' = IF placed = items THEN nothing ELSE [by |-> by, left |-> items \ placed]

\* A new tree of the response d, seen as the controls say, opened as state has it.
fresh(d, state, controls, memo) ==
  [swapped |-> d.swapped, filter |-> controls.filter, query |-> controls.query,
   flat |-> controls.flat, state |-> state, placed |-> {}, open |-> <<>>, built |-> {},
   memo |-> memo]

\* renderDirectory, up to its first yield: what was being drawn is superseded.
renderDirectory(d, state, controls, memo, by) ==
  LET t == fresh(d, state, controls, memo)
  IN  /\ data' = d
      /\ folderReturn' = none /\ backShown' = FALSE
      /\ entryView' = none
      /\ filtersShown' = TRUE
      /\ IF TopItems(t) = {} THEN tree' = t /\ drawing' = nothing
         ELSE Place(t, TopItems(t), by)

\* Faulty: only the folders that are open are noted.
captureOpenOnly == [f \in {g \in DOMAIN tree.open : tree.open[g]} |-> TRUE]

\* captureFolderTreeState: what the rows on the screen say.
captureFolderTreeState == tree.open

\* What the reader sees of the tree: a row whose folders are all open.
Seen(t) ==
  IF t.flat THEN t.placed
  ELSE {p \in Visible(t) \cup DOMAIN t.open :
          /\ SubSeq(p, 1, 1) \in t.placed
          /\ \A f \in Above(p) : f \in DOMAIN t.open /\ t.open[f]}

--------------------------------------------------------------------------------
(* Comparisons. *)

Controls == [filter |-> filter, query |-> query, flat |-> flat]
Unfolded == <<>>

\* syncFolderReturn
syncFolderReturn == backShown' = (folderReturn' # none)

\* compare, up to the conditions and the baseline it waits for: dropped when another
\* comparison runs.  What openFromFolder does after it is done at once then.
Ask(opening) ==
  IF call = idle THEN waiting' = Append(waiting, opening) /\ UNCHANGED backShown
  ELSE UNCHANGED waiting /\ IF opening THEN syncFolderReturn ELSE UNCHANGED backShown

Done(opening) == IF opening THEN backShown' = (folderReturn # none) ELSE UNCHANGED backShown

\* requestBody: an absent side is named for the very entry that was opened.
absent(side) == entryView # none /\ entryView.of = inputs /\ entryView[side]

\* runExclusive(compare, runCompare): the second look at the lock, and the request.
\* A text comparison clears the screen.
Begin(k) ==
  /\ k \in DOMAIN waiting
  /\ waiting' = RemoveAt(waiting, k)
  /\ IF call # idle THEN Done(waiting[k]) /\ UNCHANGED <<call, tree, drawing>>
     ELSE /\ call' = [pc |-> "asked", mode |-> mode, of |-> inputs, opening |-> waiting[k],
                      oldAbsent |-> mode = "text" /\ absent("oldAbsent"),
                      newAbsent |-> mode = "text" /\ absent("newAbsent")]
          /\ IF mode = "text" THEN tree' = gone /\ drawing' = nothing
             ELSE UNCHANGED <<tree, drawing>>
          /\ UNCHANGED backShown
  /\ UNCHANGED <<mode, inputs, filter, query, flat, searchTimer, data, entryView, folderReturn,
                 backTails, filtersShown, acts>>

\* The text result begins to be painted, whatever is on the screen by now.
TextAnswer ==
  /\ call.pc = "asked" /\ call.mode = "text"
  /\ call' = [call EXCEPT !.pc = "painting"]
  /\ tree' = gone /\ drawing' = nothing
  /\ filtersShown' = FALSE
  /\ UNCHANGED <<mode, inputs, filter, query, flat, searchTimer, data, entryView, folderReturn,
                 backShown, backTails, waiting, acts>>

\* compareDirectory gets its answer.
DirectoryAnswer ==
  /\ call.pc = "asked" /\ call.mode = "dir" /\ call.of.path = <<>>
  /\ call' = [call EXCEPT !.pc = "painting"]
  /\ renderDirectory(folder(call.of.swapped), Unfolded, Controls, none, "compare")
  /\ UNCHANGED <<mode, inputs, filter, query, flat, searchTimer, backTails, waiting, acts>>

\* The comparison is over: painted or superseded, or the request failed.
Finish ==
  /\ call # idle
  /\ drawing.by # "compare"
  /\ call' = idle
  /\ Done(call.opening)
  /\ UNCHANGED <<mode, inputs, filter, query, flat, searchTimer, data, tree, drawing, entryView,
                 folderReturn, backTails, filtersShown, waiting, acts>>

\* The drawing gets the thread again.
Draw ==
  /\ drawing # nothing
  /\ Place(tree, drawing.left, drawing.by)
  /\ UNCHANGED <<mode, inputs, filter, query, flat, searchTimer, data, entryView, folderReturn,
                 backShown, backTails, filtersShown, waiting, call, acts>>

--------------------------------------------------------------------------------
(* The user. *)

Act == acts < MaxActs /\ acts' = acts + 1

\* What Back is to show again: history, for the property.
Leaving(t) == [rows |-> Seen(t), whole |-> t.placed = TopItems(t),
               filter |-> t.filter, query |-> t.query, flat |-> t.flat]

\* openFromFolder
openFromFolder(p) ==
  /\ Act
  /\ tree # gone /\ p \in Seen(tree) \cap Paths /\ Status[p] # "same"
  /\ LET request == directoryEntryRequest(p, tree.swapped)
     IN  /\ entryView' = IF request.oldAbsent \/ request.newAbsent THEN request ELSE none
         /\ inputs' = request.of
  /\ folderReturn' = [data |-> data, expanded |-> captureFolderTreeState, left |-> Leaving(tree)]
  /\ mode' = "text"
  /\ Ask(TRUE)
  /\ UNCHANGED <<filter, query, flat, searchTimer, data, tree, drawing, backTails, filtersShown,
                 call>>

\* returnToFolder, up to the rendering it waits for.
returnToFolder ==
  /\ Act
  /\ backShown /\ folderReturn # none
  /\ mode' = "dir"
  /\ inputs' = folder(folderReturn.data.swapped)
  /\ renderDirectory(folderReturn.data, folderReturn.expanded, Controls, folderReturn.left, "back")
  /\ backTails' = backTails + 1
  /\ UNCHANGED <<filter, query, flat, searchTimer, waiting, call>>

\* The rest of returnToFolder.
BackEnds ==
  /\ backTails > 0
  /\ drawing.by # "back" \/ backTails > 1
  /\ backTails' = backTails - 1
  /\ backShown' = (folderReturn # none)
  /\ UNCHANGED <<mode, inputs, filter, query, flat, searchTimer, data, tree, drawing, entryView,
                 folderReturn, filtersShown, waiting, call, acts>>

\* A click on a folder's row.
toggleFolder(f) ==
  /\ Act
  /\ tree # gone /\ f \in Seen(tree) \cap DOMAIN tree.open
  /\ tree' = [setOpen(tree, f, ~tree.open[f]) EXCEPT !.memo = none]
  /\ UNCHANGED <<mode, inputs, filter, query, flat, searchTimer, data, drawing, entryView,
                 folderReturn, backShown, backTails, filtersShown, waiting, call>>

Redraw(controls) ==
  renderDirectory(data, captureFolderTreeState, controls, none, "redraw")

\* dirStatus, as long as it is there: also beside a file that is being compared.
changeStatus(status) ==
  /\ Act
  /\ filtersShown /\ status # filter
  /\ filter' = status
  /\ Redraw([Controls EXCEPT !.filter = status])
  /\ UNCHANGED <<mode, inputs, query, flat, searchTimer, backTails, waiting, call>>

\* dirSearch: the text, and its timer.
search ==
  /\ Act
  /\ filtersShown
  /\ query' = ~query /\ searchTimer' = TRUE
  /\ UNCHANGED <<mode, inputs, filter, flat, data, tree, drawing, entryView, folderReturn,
                 backShown, backTails, filtersShown, waiting, call>>

SearchTimer ==
  /\ searchTimer
  /\ searchTimer' = FALSE
  /\ IF mode = "dir" THEN Redraw(Controls)
     ELSE UNCHANGED <<data, tree, drawing, entryView, folderReturn, backShown, filtersShown>>
  /\ UNCHANGED <<mode, inputs, filter, query, flat, backTails, waiting, call, acts>>

\* dirFlat, which stays beside the result of a file.
toggleFlat ==
  /\ Act
  /\ flat' = ~flat
  /\ Redraw([Controls EXCEPT !.flat = ~flat])
  /\ UNCHANGED <<mode, inputs, filter, query, searchTimer, backTails, waiting, call>>

swapped(v) ==
  [of |-> Swap(v.of), oldAbsent |-> v.newAbsent, newAbsent |-> v.oldAbsent]

\* swapSides.  A result is there, so that it compares again.
swapSides ==
  /\ Act
  /\ inputs' = Swap(inputs)
  /\ entryView' = IF entryView # none /\ entryView.of = inputs THEN swapped(entryView)
                  ELSE entryView
  /\ UNCHANGED folderReturn /\ Ask(FALSE)
  /\ UNCHANGED <<mode, filter, query, flat, searchTimer, data, tree, drawing, backTails,
                 filtersShown, call>>

\* Another mode, or other paths in the fields; and a click on Compare.
edit(m, i) ==
  /\ Act
  /\ m # mode \/ i # inputs
  /\ mode' = m /\ inputs' = i
  /\ UNCHANGED <<filter, query, flat, searchTimer, data, tree, drawing, entryView, folderReturn,
                 backShown, backTails, filtersShown, waiting, call>>

recompare ==
  /\ Act
  /\ call = idle
  /\ UNCHANGED folderReturn /\ Ask(FALSE)
  /\ UNCHANGED <<mode, inputs, filter, query, flat, searchTimer, data, tree, drawing, entryView,
                 backTails, filtersShown, call>>

\* cancelCurrentOperation: the drawing stops where it is.
cancel ==
  /\ Act
  /\ call # idle
  /\ call' = [call EXCEPT !.pc = "aborted"]
  /\ drawing' = nothing
  /\ tree' = IF drawing = nothing THEN tree ELSE [tree EXCEPT !.memo = none]
  /\ UNCHANGED <<mode, inputs, filter, query, flat, searchTimer, data, entryView, folderReturn,
                 backShown, backTails, filtersShown, waiting>>

--------------------------------------------------------------------------------
Init ==
  /\ mode = "dir" /\ inputs = folder(FALSE)
  /\ filter = "different" /\ query = FALSE /\ flat = FALSE /\ searchTimer = FALSE
  /\ data = folder(FALSE)
  /\ LET t == fresh(data, Unfolded, Controls, none)
     IN  tree = [Made(t, TopItems(t) \cap Folders(Visible(t))) EXCEPT !.placed = TopItems(t)]
  /\ drawing = nothing
  /\ entryView = none /\ folderReturn = none /\ backShown = FALSE /\ backTails = 0
  /\ filtersShown = TRUE
  /\ waiting = <<>> /\ call = idle /\ acts = 0

Next ==
  \/ \E k \in DOMAIN waiting : Begin(k)
  \/ TextAnswer \/ DirectoryAnswer \/ Finish \/ Draw \/ BackEnds \/ SearchTimer
  \/ \E p \in Paths : openFromFolder(p) \/ edit("text", file(p, FALSE))
  \/ \E f \in Folders(Paths) : toggleFolder(f)
  \/ \E status \in {"different", "all"} : changeStatus(status)
  \/ \E m \in {"dir", "text"} : edit(m, inputs)
  \/ returnToFolder \/ search \/ toggleFlat \/ swapSides \/ recompare \/ cancel

Spec == Init /\ [][Next]_vars

--------------------------------------------------------------------------------
(* Properties. *)

\* A comparison is told that a file is absent on one side only if the folder
\* comparison found it so, on that side: after its paths were swapped, retyped or
\* compared again too (app.js:1428-1431, 6819-6853, 7226-7240).
AbsentWasFound ==
  call # idle /\ call.mode = "text" =>
    /\ call.oldAbsent => StatusIn(call.of.path, call.of.swapped) = "added"
    /\ call.newAbsent => StatusIn(call.of.path, call.of.swapped) = "removed"

\* Back shows what was on the screen when a file was opened: the same rows, with the
\* folders that were opened and closed, whatever else was clicked meanwhile, unless the
\* reader changed what the list is to show (app.js:5914-5964, 6092-6129).
BackRestoresTree ==
  tree # gone /\ drawing = nothing /\ tree.memo # none =>
    LET left == tree.memo
    IN  tree.filter = left.filter /\ tree.query = left.query /\ tree.flat = left.flat =>
          IF left.whole THEN Seen(tree) = left.rows ELSE left.rows \subseteq Seen(tree)
================================================================================
