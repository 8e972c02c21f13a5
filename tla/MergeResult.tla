------------------------------ MODULE MergeResult ------------------------------
(***************************************************************************)
(* The merge of a three-way or CSV result in the page: app.js with         *)
(* mergeselect.js, mergeprovenance.js, unresolved.js, threewayview.js,     *)
(* simulate.js and the advance rule of keymap.js.                          *)
(*                                                                         *)
(* Every event that has to be decided holds the set of sides it adopts.    *)
(* The page draws what each event resolves to, asks the server for a       *)
(* preview of the merged lines while its panel is open, and lets the user  *)
(* type over a line of that preview.  An event contributes one line per    *)
(* side, whose key is the event and the side; the server (external) gives  *)
(* the lines of the choices, with what was typed instead of their text.    *)
(*                                                                         *)
(* An action is what runs without giving the thread back; a dialog is      *)
(* modal.  The form keeps the mode of the result: what the handlers do to  *)
(* a result of another mode than the form's is not modelled.               *)
(***************************************************************************)
EXTENDS Integers, Sequences, SequencesExt, FiniteSets

CONSTANTS
  Kinds,      \* the kinds of the result's events, in order: "conflict" or another
  Paths, Output,  \* of the inputs, by role, and of the result
  UndoLimit,  \* choices that can be undone
  MaxActs,    \* bound: user actions
  MaxRequests \* bound: previews

Events == DOMAIN Kinds
None == 0
Typed == {"in", "x"}  \* what a line can be made to say: what its input says, or else

VARIABLES
  kind,      \* of the result: "threeway" or "csv"
  sel,       \* mergeSelection: what each event adopts
  undo, redo,
  drawn,     \* what the pane or row of each event was last drawn for
  current,   \* currentHunk
  advance,   \* mergeAutoAdvance
  open,      \* the preview panel
  timer,     \* mergePreviewTimer
  token,
  requests,  \* previews asked for: token, choices and typed lines
  preview,   \* mergePreview, with the text and the origin of each line by its key; or none
  manual,    \* mergeManual: key -> text
  editor,    \* mergeLineEditor, or none
  save,      \* the dialogs of a save
  saved,     \* history: what the last save sent, or none
  failed,    \* history: the last preview failed
  acts

choosing == <<sel, undo, redo, drawn, current>>
previewing == <<timer, token, requests, preview, manual, editor, failed>>
saving == <<save, saved>>
vars == <<kind, choosing, advance, open, previewing, saving, acts>>

none == [none |-> TRUE]

\* mergeUnitIds, of the result on the screen.
Units == IF kind = "csv" THEN Events ELSE {e \in Events : Kinds[e] = "conflict"}

\* ORDERS
order == IF kind = "csv" THEN <<"left", "right">> ELSE <<"base", "left", "right">>
Sides == ToSet(order)

\* adoptedSides; those of a CSV result have the same order.
sides(choice) == SelectSeq(<<"base", "left", "right">>, LAMBDA s : s \in choice)
unresolved(choices) == {e \in Units : choices[e] = {}}

--------------------------------------------------------------------------------
(* What an event resolves to, in the pane and in the file. *)

\* resultLines: an undecided conflict shows BASE, and is marked.
resultLines(e, choice) ==
  [lines |-> IF Kinds[e] = "conflict"
             THEN IF choice = {} THEN <<"base">> ELSE sides(choice)
             ELSE CASE Kinds[e] = "right_only" -> <<"right">>
                    [] Kinds[e] = "merged" -> <<"combined">>
                    [] Kinds[e] \in {"left_only", "same_change"} -> <<"left">>
                    [] OTHER -> <<"base">>,
   unresolved |-> Kinds[e] = "conflict" /\ choice = {}]

\* panes
panes(e, choice, showBase) ==
  LET input(s) == [role |-> s, shows |-> s]
  IN  (IF showBase THEN <<input("base")>> ELSE <<>>) \o
      <<input("left"), [role |-> "result", shows |-> resultLines(e, choice)], input("right")>>

Draw(e, choices) ==
  LET p == panes(e, choices[e], FALSE)
  IN  [choice |-> choices[e],
       shows |-> IF kind = "csv" THEN sides(choices[e])
                 ELSE p[CHOOSE k \in DOMAIN p : p[k].role = "result"].shows]

\* The lines of the merged file (external: threeway.ResolveLines and ApplyManual).
Lines(choices) ==
  UNION {{<<e, s>> : s \in ToSet(resultLines(e, choices[e]).lines)} : e \in Events}

Served(choices, typed) ==
  [k \in Lines(choices) |->
     IF k \in DOMAIN typed THEN [text |-> typed[k], origin |-> "manual"]
     ELSE [text |-> "in", origin |-> k[2]]]

\* provenanceBreakdown
breakdown(lines) ==
  LET of(o) == Cardinality({k \in DOMAIN lines : lines[k].origin = o})
  IN  [adopted |-> of("base") + of("left") + of("right"), manual |-> of("manual")]

--------------------------------------------------------------------------------
(* The inline editor of the preview. *)

Set(f, k, v) == [x \in DOMAIN f \cup {k} |-> IF x = k THEN v ELSE f[x]]
Drop(f, keys) == [x \in DOMAIN f \ keys |-> f[x]]

\* closeMergeLineEditor, as a change of [preview, manual, editor].  The line may
\* be one of an older preview: then only what was typed is touched.
closeMergeLineEditor(p, how) ==
  LET ed == p.editor
      shown == IF p.preview # none /\ ed # none /\ ed.key \in DOMAIN p.preview.lines
               THEN [p.preview EXCEPT !.lines[ed.key] =
                       IF how = "commit" /\ ed.value # ed.before.text
                       THEN [text |-> ed.value, origin |-> "manual"] ELSE ed.before]
               ELSE p.preview
      typed == IF how = "revert"
               THEN IF ed.before.origin = "manual" THEN Set(p.manual, ed.key, ed.before.text)
                    ELSE Drop(p.manual, {ed.key})
               ELSE IF how = "commit" /\ ed.value # ed.before.text
               THEN Set(p.manual, ed.key, ed.value) ELSE p.manual
  IN  IF ed = none THEN p ELSE [preview |-> shown, manual |-> typed, editor |-> none]

Panel == [preview |-> preview, manual |-> manual, editor |-> editor]
Shows(p) == preview' = p.preview /\ manual' = p.manual /\ editor' = p.editor

\* A click elsewhere takes the focus from the editor, which commits it.
Blurred == closeMergeLineEditor(Panel, "commit")

--------------------------------------------------------------------------------
(* Choosing. *)

Act == acts < MaxActs /\ acts' = acts + 1 /\ save = none

\* updateThreeWayMergeUI and updateCSVMergeUI: the panes follow the choices, and
\* the preview does a little later; only the panes of other sides are drawn again.
updateMergeUI(choices) ==
  /\ drawn' = [e \in Events |-> IF drawn[e].choice = choices[e] THEN drawn[e]
                                ELSE Draw(e, choices)]
  /\ timer' = (timer \/ (kind = "threeway" /\ open))

Limited(list) == IF Len(list) > UndoLimit THEN Tail(list) ELSE list

\* Faulty: what was undone can still be done again.
mutateKeepingRedo(choices) ==
  /\ sel' = choices
  /\ undo' = Limited(Append(undo, sel))
  /\ UNCHANGED redo
  /\ updateMergeUI(choices)

\* mutateMerge
mutateMerge(choices) ==
  /\ sel' = choices
  /\ undo' = Limited(Append(undo, sel))
  /\ redo' = <<>>
  /\ updateMergeUI(choices)

\* activeConflictIndexes, in order; no hunk of a three-way result can be ignored.
Conflicts ==
  LET among[n \in 0 .. Len(Kinds)] ==  \* the first n events
        IF n = 0 THEN <<>>
        ELSE among[n - 1] \o (IF Kinds[n] = "conflict" THEN <<n>> ELSE <<>>)
  IN  among[Len(Kinds)]

\* Faulty: the search ends at the end of the list.
nextWithoutWrap(list, from, choices) ==
  LET found == {k \in DOMAIN list : list[k] > from /\ choices[list[k]] = {}}
  IN  IF found = {} THEN None ELSE list[CHOOSE k \in found : \A d \in found : k <= d]

\* nextUnresolved, forward: the first of the list behind from that is not resolved,
\* around the end of the list.
nextUnresolved(list, from, choices) ==
  LET n == Len(list)
      start == IF from \in ToSet(list) THEN CHOOSE k \in DOMAIN list : list[k] = from ELSE 0
      at(c) == list[((start + c - 1) % n) + 1]
      found == {c \in 1 .. n : choices[at(c)] = {}}
  IN  IF found = {} THEN None ELSE at(CHOOSE c \in found : \A d \in found : c <= d)

\* advanceAfterAdopt
advanceAfterAdopt(e, choices) ==
  LET next == IF kind = "threeway" THEN nextUnresolved(Conflicts, e, choices) ELSE None
  IN  current' = IF advance /\ next # None THEN next ELSE current

\* chooseMerge, by a button of the event or by the keyboard.
chooseMerge(e, side) ==
  LET choices == [sel EXCEPT ![e] =
        IF side = "both" THEN {"left", "right"}
        ELSE IF side \in @ THEN @ \ {side} ELSE @ \cup {side}]
  IN  /\ mutateMerge(choices)
      /\ advanceAfterAdopt(e, choices)
      /\ Shows(Blurred)
      /\ UNCHANGED <<token, requests, failed>>

Choose(e, side) ==
  /\ Act
  /\ e \in Units
  /\ side \in Sides \/ (side = "both" /\ kind = "threeway")
  /\ chooseMerge(e, side)
  /\ UNCHANGED <<kind, advance, open, saving>>

\* The keys adopt for the current conflict, or for the first one.
ChooseByKey(side) ==
  /\ Act
  /\ editor = none /\ kind = "threeway" /\ Conflicts # <<>>
  /\ side \in Sides \cup {"both"}
  /\ chooseMerge(IF current \in ToSet(Conflicts) THEN current ELSE Conflicts[1], side)
  /\ UNCHANGED <<kind, advance, open, saving>>

\* stepConflict and jumpToHunk
stepConflict(delta) ==
  LET at == SelectSeq([k \in DOMAIN Conflicts |-> k], LAMBDA k : Conflicts[k] = current)
      to == IF at = <<>> THEN (IF delta < 0 THEN Len(Conflicts) ELSE 1) ELSE at[1] + delta
  IN  /\ Act
      /\ editor = none /\ kind = "threeway" /\ Conflicts # <<>>
      /\ current' = Conflicts[IF to < 1 THEN 1
                              ELSE IF to > Len(Conflicts) THEN Len(Conflicts) ELSE to]
      /\ UNCHANGED <<kind, sel, undo, redo, drawn, advance, open, previewing, saving>>

\* "All left", "All right" and "All base"
chooseAllMerge(side) ==
  /\ Act
  /\ side \in Sides
  /\ mutateMerge([e \in Events |-> IF e \in Units THEN {side} ELSE sel[e]])
  /\ Shows(Blurred)
  /\ UNCHANGED <<kind, current, advance, open, token, requests, failed, saving>>

undoMerge ==
  /\ Act
  /\ undo # <<>>
  /\ redo' = Append(redo, sel)
  /\ sel' = Last(undo)
  /\ undo' = Front(undo)
  /\ updateMergeUI(sel')
  /\ Shows(Blurred)
  /\ UNCHANGED <<kind, current, advance, open, token, requests, failed, saving>>

redoMerge ==
  /\ Act
  /\ redo # <<>>
  /\ undo' = Append(undo, sel)
  /\ sel' = Last(redo)
  /\ redo' = Front(redo)
  /\ updateMergeUI(sel')
  /\ Shows(Blurred)
  /\ UNCHANGED <<kind, current, advance, open, token, requests, failed, saving>>

setMergeAutoAdvance ==
  /\ Act
  /\ advance' = ~advance
  /\ Shows(Blurred)
  /\ UNCHANGED <<kind, choosing, open, timer, token, requests, failed, saving>>

--------------------------------------------------------------------------------
(* The preview. *)

\* refreshMergePreview, up to its request.
Ask ==
  /\ token' = token + 1
  /\ requests' = requests \cup {[token |-> token + 1, choices |-> sel, manual |-> manual]}

\* The panel is opened, which asks at once, or closed.
TogglePanel ==
  /\ Act
  /\ kind = "threeway"
  /\ open' = ~open
  /\ Shows(Blurred)
  /\ IF open' THEN token' = token + 1 /\ requests' = requests \cup
                     {[token |-> token + 1, choices |-> sel, manual |-> manual']}
     ELSE UNCHANGED <<token, requests>>
  /\ UNCHANGED <<kind, choosing, advance, timer, failed, saving>>

PreviewTimer ==
  /\ timer
  /\ timer' = FALSE
  /\ token < MaxRequests
  /\ IF open THEN Ask ELSE UNCHANGED <<token, requests>>
  /\ UNCHANGED <<kind, choosing, advance, open, preview, manual, editor, failed, saving, acts>>

\* renderMergePreview drops what is being typed, and what was typed over lines that
\* are gone.
Rendered(lines) ==
  LET data == [lines |-> lines]
      typed == Drop(manual, DOMAIN manual \ DOMAIN lines)
      left == closeMergeLineEditor([preview |-> data, manual |-> typed, editor |-> editor], "drop")
  IN  Shows([left EXCEPT !.preview = data])

\* Faulty: every answer is shown.
AnswerWithoutToken(r) ==
  /\ r \in requests
  /\ requests' = requests \ {r}
  /\ IF open THEN Rendered(Served(r.choices, r.manual)) ELSE Shows(Panel)
  /\ UNCHANGED <<kind, choosing, advance, open, timer, token, failed, saving, acts>>

\* The server answers or fails; only the last request counts, and only while the
\* panel is open.
Answer(r) ==
  /\ r \in requests
  /\ requests' = requests \ {r}
  /\ \/ /\ IF r.token = token /\ open
           THEN Rendered(Served(r.choices, r.manual)) ELSE Shows(Panel)
        /\ failed' = (failed /\ r.token # token)
     \/ Shows(Panel) /\ failed' = (failed \/ r.token = token)
  /\ UNCHANGED <<kind, choosing, advance, open, timer, token, saving, acts>>

\* openMergeLineEditor commits the line edited before.
openMergeLineEditor(k) ==
  /\ Act
  /\ open /\ preview # none /\ k \in DOMAIN preview.lines
  /\ LET p == Blurred
     IN  Shows([p EXCEPT !.editor = [key |-> k, value |-> p.preview.lines[k].text,
                                     before |-> p.preview.lines[k]]])
  /\ UNCHANGED <<kind, choosing, advance, open, timer, token, requests, failed, saving>>

\* applyMergeLineEdit, for every key that is typed.
applyMergeLineEdit(v) ==
  /\ Act
  /\ editor # none /\ v # editor.value
  /\ editor' = [editor EXCEPT !.value = v]
  /\ manual' = Set(manual, editor.key, v)
  /\ preview' = [preview EXCEPT !.lines[editor.key] = [text |-> v, origin |-> "manual"]]
  /\ UNCHANGED <<kind, choosing, advance, open, timer, token, requests, failed, saving>>

\* Enter or the loss of the focus commits, Escape takes the line back.
CloseEditor(how) ==
  /\ Act
  /\ editor # none
  /\ Shows(closeMergeLineEditor(Panel, how))
  /\ UNCHANGED <<kind, choosing, advance, open, timer, token, requests, failed, saving>>

--------------------------------------------------------------------------------
(* Saving: up to two questions, then the request. *)

\* mergeImpact: the inputs that the result would replace.
affected == {role \in DOMAIN Paths : Paths[role] = Output}

\* The Save button, or Simulate first, whose list the user agrees to.
SaveClicked(simulated) ==
  /\ Act
  /\ Shows(Blurred)
  /\ \E overwrite \in BOOLEAN :
       save' = [asked |-> simulated, overwrite |-> overwrite, allow |-> FALSE,
                pc |-> IF unresolved(sel) # {} THEN "unresolved" ELSE "overwrite"]
  /\ UNCHANGED <<kind, choosing, advance, open, timer, token, requests, failed, saved>>

\* The question about undecided events, then the one about the file.
Asked(yes) ==
  /\ save # none
  /\ LET sent == [choices |-> [e \in Units |-> sides(sel[e])], manual |-> manual,
                  allow |-> save.allow, overwrite |-> save.overwrite, asked |-> save.asked,
                  counts |-> breakdown(Served(sel, manual))]
         free == save.asked \/ ~save.overwrite
     IN  CASE save.pc = "unresolved" ->
                /\ save' = IF yes THEN [save EXCEPT !.pc = "overwrite", !.allow = TRUE] ELSE none
                /\ UNCHANGED saved
           [] save.pc = "overwrite" ->
                /\ save' = none
                /\ saved' = IF free \/ yes THEN [sent EXCEPT !.asked = @ \/ ~free] ELSE saved
  /\ UNCHANGED <<kind, choosing, advance, open, previewing, acts>>

--------------------------------------------------------------------------------
\* A new result: nothing is chosen, undone or typed.
Init ==
  /\ kind \in {"threeway", "csv"}
  /\ sel = [e \in Events |-> {}]
  /\ undo = <<>> /\ redo = <<>>
  /\ drawn = [e \in Events |-> Draw(e, sel)]
  /\ current = None
  /\ advance = FALSE /\ open = FALSE /\ timer = FALSE
  /\ token = 0 /\ requests = {}
  /\ preview = none /\ manual = <<>> /\ editor = none
  /\ save = none /\ saved = none /\ failed = FALSE /\ acts = 0

Next ==
  \/ \E e \in Events, side \in {"base", "left", "right", "both"} : Choose(e, side)
  \/ \E side \in {"base", "left", "right", "both"} : ChooseByKey(side) \/ chooseAllMerge(side)
  \/ \E delta \in {"next", "prev"} : stepConflict(IF delta = "next" THEN 1 ELSE -1)
  \/ undoMerge \/ redoMerge \/ setMergeAutoAdvance
  \/ TogglePanel \/ PreviewTimer \/ \E r \in requests : Answer(r)
  \/ \E k \in Lines(sel) : openMergeLineEditor(k)
  \/ \E v \in Typed : applyMergeLineEdit(v)
  \/ \E how \in {"commit", "revert"} : CloseEditor(how)
  \/ \E b \in BOOLEAN : SaveClicked(b) \/ Asked(b)

Spec == Init /\ [][Next]_vars

--------------------------------------------------------------------------------
(* Properties. *)

\* What can be undone, what is chosen and what can be done again are one history:
\* each of its states is one choice, or one "All ...", away from the one before
\* (app.js:3471-3491, 3741-3752).
OneTimeline ==
  LET timeline == undo \o <<sel>> \o Reverse(redo)
      OneChoice(a, b) == \/ Cardinality({e \in Events : a[e] # b[e]}) <= 1
                         \/ \E s \in Sides : \A e \in Units : b[e] = {s}
  IN  \A k \in DOMAIN timeline \ {1} : OneChoice(timeline[k - 1], timeline[k])

\* When nothing is under way in an open preview whose last request did not fail,
\* it has exactly the lines of the present choices, whatever the order in which
\* the answers came and although choices went on meanwhile: those that the result
\* panes of the events show.  No line that the choices do not give is kept as typed
\* (app.js:4041-4079).
PreviewOfChoices ==
  (open /\ ~timer /\ ~failed /\ \A r \in requests : r.token # token)
    => /\ preview # none /\ DOMAIN manual \subseteq DOMAIN preview.lines
       /\ DOMAIN preview.lines =
            UNION {{<<e, s>> : s \in ToSet(drawn[e].shows.lines)} : e \in Events}

\* While the user advances automatically, adopting a side for a conflict goes to a
\* conflict that is still undecided whenever there is one, behind or before it
\* (keymap.js:232-243; app.js:3674-3686).
AdvanceGoesOn ==
  [][\A e \in Events, side \in Sides \cup {"both"} :
       Choose(e, side) /\ advance /\ kind = "threeway" /\ unresolved(sel') # {}
         => current' \in unresolved(sel')]_vars
=============================================================================
