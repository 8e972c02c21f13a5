------------------------------- MODULE CsvSetup -------------------------------
(***************************************************************************)
(* The setup form of the CSV mode: the inspection of the headers, the key  *)
(* columns chosen from them, the manual column map, a filter on a named    *)
(* column, the requests built from all of these, and the projects and      *)
(* recent comparisons that fill the form (app.js, columnmap.js).           *)
(*                                                                         *)
(* A path or parser change drops the inspection, and a request that needs  *)
(* one asks for it first.  What the rest of the filter says is in          *)
(* RowFilter, what becomes of an answer in CsvResult.  The key mode        *)
(* "exclude" is left out: the same columns, sent under another name.       *)
(***************************************************************************)
EXTENDS Lists, Integers, FiniteSets, SequencesExt

CONSTANTS none,                 \* no value
          Pairs,                \* pairs of input files
          LeftNames, RightNames,\* the headers of a pair's two sides
          AlignColumns,         \* the name alignment, which stays as it is
          MaxActs,              \* what the user does
          MaxRows               \* rows of the column map

ABSENT == -1

VARIABLES pair, hasHeader,   \* the form's paths and header option
          csvInspection,     \* the pair inspected, or none
          selectable,        \* the columns listed for key selection
          selected,          \* those checked
          keyMode,
          filterColumn,      \* the column a row filter names, or ""
          columnMap, columnMapDirty,
          calls,             \* requests under way
          busyOperation,     \* the exclusive lock is held
          inspectDisabled,   \* the Inspect button
          disabledBefore,    \* controlsDisabledBeforeRun has the button
          recent,            \* comparisons and projects to choose from
          acts

form == <<pair, hasHeader, keyMode, filterColumn>>
keyVars == <<selectable, selected>>
mapVars == <<columnMap, columnMapDirty>>
lock == <<busyOperation, inspectDisabled, disabledBefore>>
vars == <<form, csvInspection, keyVars, mapVars, calls, lock, recent, acts>>

(***************************************************************************)
(* columnmap.js.                                                           *)
(***************************************************************************)
Pairing(left, right) == [left |-> left, right |-> right, ignore |-> FALSE]

positionalMapping(n, m) ==
  [i \in 1..(IF n > m THEN n ELSE m) |->
     Pairing(IF i <= n THEN i - 1 ELSE ABSENT, IF i <= m THEN i - 1 ELSE ABSENT)]

FirstAt(names, name) ==
  CHOOSE i \in DOMAIN names : names[i] = name /\ \A j \in 1..(i - 1) : names[j] # name

initialMapping(left, right, alignByName) ==
  IF alignByName /\ left # <<>> /\ Len(left) <= Len(right) /\ ToSet(left) \subseteq ToSet(right)
    THEN [i \in DOMAIN left |-> Pairing(i - 1, FirstAt(right, left[i]) - 1)]
    ELSE positionalMapping(Len(left), Len(right))

validateMapping(mapping, n, m) ==
  /\ \A i \in DOMAIN mapping :
       /\ mapping[i].left \in ABSENT..(n - 1)
       /\ mapping[i].right \in ABSENT..(m - 1)
       /\ mapping[i].left # ABSENT \/ mapping[i].right # ABSENT
  /\ \A i, j \in DOMAIN mapping :
       i # j => /\ mapping[i].left # mapping[j].left \/ mapping[i].left = ABSENT
                /\ mapping[i].right # mapping[j].right \/ mapping[i].right = ABSENT

mappingToRequest(mapping) ==
  Keep(mapping, {p \in ToSet(mapping) : p.left # ABSENT \/ p.right # ABSENT})

(***************************************************************************)
(* The request.                                                            *)
(***************************************************************************)
Left(p) == IF p = none THEN <<>> ELSE LeftNames[p]
Right(p) == IF p = none THEN <<>> ELSE RightNames[p]

columnMapValid == validateMapping(columnMap, Len(Left(csvInspection)), Len(Right(csvInspection)))

filterStateErrors == /\ hasHeader /\ filterColumn # ""
                     /\ filterColumn \notin ToSet(Left(csvInspection))

\* A faulty form for a check: the map is sent as it is.
csvRequestUnchecked ==
  [pair |-> pair, hasHeader |-> hasHeader,
   keyMode |-> keyMode, keys |-> IF keyMode = "all" THEN {} ELSE selected,
   filter |-> filterColumn,
   map    |-> IF columnMapDirty THEN mappingToRequest(columnMap) ELSE <<>>,
   wrong  |-> filterStateErrors]

\* "wrong" is _validationError, with which no request leaves the page.
csvRequestBody ==
  [pair |-> pair, hasHeader |-> hasHeader,
   keyMode |-> keyMode, keys |-> IF keyMode = "all" THEN {} ELSE selected,
   filter |-> filterColumn,
   map    |-> IF columnMapDirty THEN mappingToRequest(columnMap) ELSE <<>>,
   wrong  |-> filterStateErrors \/ (columnMapDirty /\ ~columnMapValid)]

validateInputs(body) == ~body.wrong /\ ~(body.keyMode = "include" /\ body.keys = {})

ColumnsOf(p) == {[name |-> Left(p)[i], index |-> i - 1] : i \in DOMAIN Left(p)}

(***************************************************************************)
(* The form.  Every change is the user's.                                  *)
(***************************************************************************)
Act == acts < MaxActs /\ acts' = acts + 1

\* The paths and the parser controls void the inspection and hide the keys.
EditInput ==
  /\ Act
  /\ \/ pair' \in Pairs \ {pair} /\ UNCHANGED hasHeader
     \/ hasHeader' = ~hasHeader /\ UNCHANGED pair
  /\ csvInspection' = none
  /\ UNCHANGED <<keyMode, filterColumn, keyVars, mapVars, calls, lock, recent>>

\* The list is shown only under an inspection.
SelectKeys ==
  /\ Act /\ csvInspection # none
  /\ \/ /\ keyMode' \in {"all", "include"} \ {keyMode}
        /\ UNCHANGED selected
     \/ /\ keyMode # "all"
        /\ selected' \in {selectable, selectable \ selected}
                          \cup {selected \cup {c} : c \in selectable}
        /\ UNCHANGED keyMode
  /\ UNCHANGED <<pair, hasHeader, filterColumn, csvInspection, selectable, mapVars, calls, lock, recent>>

TypeFilter ==
  /\ Act
  /\ \E p \in Pairs : filterColumn' \in {""} \cup ToSet(LeftNames[p])
  /\ UNCHANGED <<pair, hasHeader, keyMode, csvInspection, keyVars, mapVars, calls, lock, recent>>

\* The rows of the editor, its Build, Add and Clear.
EditMap ==
  /\ Act /\ columnMapDirty' = TRUE
  /\ \/ columnMap' = initialMapping(Left(csvInspection), Right(csvInspection), AlignColumns)
     \/ columnMap' = <<>>
     \/ /\ Len(columnMap) < MaxRows
        /\ columnMap' = Append(columnMap, Pairing(ABSENT, ABSENT))
     \/ /\ csvInspection # none
        /\ \E i \in DOMAIN columnMap :
             \/ columnMap' = RemoveAt(columnMap, i)
             \/ \E left \in ABSENT..(Len(Left(csvInspection)) - 1) :
                \E right \in ABSENT..(Len(Right(csvInspection)) - 1) :
                  columnMap' = [columnMap EXCEPT ![i] = Pairing(left, right)]
  /\ UNCHANGED <<form, csvInspection, keyVars, calls, lock, recent>>

(***************************************************************************)
(* Requests.  A call that waits for an inspection goes on in the step that *)
(* takes its answer.                                                       *)
(***************************************************************************)
Inspecting(kind, body) == [kind |-> kind, stage |-> "inspect", body |-> body]

\* lockExclusiveControls and its undoing, as far as the Inspect button goes.
Lock == busyOperation' = TRUE /\ disabledBefore' = inspectDisabled

Unlock(kind) ==
  IF kind \in {"run", "load"}
    THEN busyOperation' = FALSE /\ inspectDisabled' = disabledBefore /\ disabledBefore' = FALSE
    ELSE UNCHANGED <<busyOperation, disabledBefore>>

inspectCSV ==
  /\ Act /\ ~inspectDisabled /\ ~csvRequestBody.wrong
  /\ calls' = calls \cup {Inspecting("inspect", csvRequestBody)}
  /\ inspectDisabled' = TRUE
  /\ UNCHANGED <<form, csvInspection, keyVars, mapVars, busyOperation, disabledBefore, recent>>

\* A request leaves; what was inspected by then is kept for the property.
Sent(kind, body) == [kind |-> kind, stage |-> "answer", body |-> body, inspected |-> csvInspection']

\* compareCSV, runExportCSV and runSaveProject, each under the lock.
Run ==
  /\ Act /\ ~busyOperation
  /\ Lock /\ inspectDisabled' = TRUE
  /\ UNCHANGED csvInspection
  /\ IF csvInspection = none
       THEN /\ ~csvRequestBody.wrong
            /\ calls' = calls \cup {Inspecting("run", csvRequestBody)}
       ELSE /\ validateInputs(csvRequestBody)
            /\ calls' = calls \cup {Sent("run", csvRequestBody)}
  /\ UNCHANGED <<form, keyVars, mapVars, recent>>

\* applyColumnMap calls compareCSV without the lock.
ApplyMap ==
  /\ Act
  /\ columnMapDirty => columnMapValid
  /\ columnMapDirty' = TRUE
  /\ UNCHANGED <<form, csvInspection, keyVars, columnMap, busyOperation, disabledBefore, recent>>
  /\ IF csvInspection = none
       THEN /\ ~(csvRequestBody.wrong)'
            /\ calls' = calls \cup {Inspecting("apply", csvRequestBody')}
            /\ inspectDisabled' = TRUE
       ELSE /\ validateInputs(csvRequestBody')
            /\ calls' = calls \cup {Sent("apply", csvRequestBody')}
            /\ UNCHANGED inspectDisabled

\* applyCSVProject up to its inspection, from the list of recent comparisons
\* or, under the lock, from a project file.
ChooseProject(kind, body) ==
  /\ Act
  /\ IF kind = "load" THEN ~busyOperation /\ Lock ELSE UNCHANGED <<busyOperation, disabledBefore>>
  /\ pair' = body.pair /\ hasHeader' = body.hasHeader
  /\ filterColumn' = body.filter
  /\ csvInspection' = none /\ keyMode' = "all"
  /\ inspectDisabled' = TRUE
  /\ UNCHANGED <<keyVars, mapVars, recent>>
  /\ ~(csvRequestBody.wrong)'
  /\ calls' = calls \cup {Inspecting(kind, body)}

\* The same when the form as it now stands is refused: the rest of the
\* project is not applied.
ChooseRefused(kind, body) ==
  /\ Act
  /\ kind = "load" => ~busyOperation
  /\ pair' = body.pair /\ hasHeader' = body.hasHeader
  /\ filterColumn' = body.filter
  /\ csvInspection' = none /\ keyMode' = "all"
  /\ UNCHANGED <<keyVars, mapVars, recent, calls, lock>>
  /\ (csvRequestBody.wrong)'

renderColumnSelection(p) == selectable' = ColumnsOf(p) /\ selected' = {}

\* An empty map is filled with the engine's own pairing.
StartingMap(p) ==
  IF columnMap = <<>>
    THEN /\ columnMap' = initialMapping(Left(p), Right(p), AlignColumns)
         /\ columnMapDirty' = FALSE
    ELSE UNCHANGED mapVars

\* The answer to an inspection, and how its caller goes on.
Inspected(call) ==
  LET p == call.body.pair
      rest == calls \ {call}
  IN
  /\ call.stage = "inspect" /\ csvInspection' = p
  /\ CASE call.kind \in {"recent", "load"} ->
            /\ selectable' = ColumnsOf(p)
            /\ selected' = {c \in ColumnsOf(p) : \E k \in call.body.keys :
                              IF call.body.hasHeader THEN k.name = c.name ELSE k.index = c.index}
            /\ keyMode' = call.body.keyMode
            /\ IF call.body.map # <<>>
                 THEN columnMap' = call.body.map /\ columnMapDirty' = TRUE
                 ELSE StartingMap(p)
       [] OTHER -> renderColumnSelection(p) /\ StartingMap(p) /\ UNCHANGED keyMode
  /\ UNCHANGED <<pair, hasHeader, filterColumn, recent, acts>>
  /\ IF call.kind \in {"run", "apply"} /\ validateInputs(csvRequestBody')
       THEN /\ calls' = rest \cup {Sent(call.kind, csvRequestBody')}
            /\ inspectDisabled' = FALSE /\ UNCHANGED <<busyOperation, disabledBefore>>
       ELSE /\ calls' = rest
            /\ Unlock(call.kind)
            /\ call.kind \notin {"run", "load"} => inspectDisabled' = FALSE

InspectionFailed(call) ==
  /\ call.stage = "inspect" /\ calls' = calls \ {call}
  /\ Unlock(call.kind)
  /\ call.kind \notin {"run", "load"} => inspectDisabled' = FALSE
  /\ UNCHANGED <<form, csvInspection, keyVars, mapVars, recent, acts>>

\* The answer to the request itself; rememberComparison keeps one per pair.
Answered(call, ok) ==
  /\ call.stage = "answer" /\ calls' = calls \ {call}
  /\ recent' = IF ok THEN {b \in recent : b.pair # call.body.pair} \cup {call.body} ELSE recent
  /\ Unlock(call.kind)
  /\ call.kind = "apply" => UNCHANGED inspectDisabled
  /\ UNCHANGED <<form, csvInspection, keyVars, mapVars, acts>>

Init ==
  /\ pair \in Pairs /\ hasHeader = TRUE
  /\ csvInspection = none /\ selectable = {} /\ selected = {} /\ keyMode = "all"
  /\ filterColumn = "" /\ columnMap = <<>> /\ columnMapDirty = FALSE
  /\ calls = {} /\ busyOperation = FALSE /\ inspectDisabled = FALSE /\ disabledBefore = FALSE
  /\ recent = {} /\ acts = 0

Next ==
  \/ EditInput \/ SelectKeys \/ TypeFilter \/ EditMap
  \/ inspectCSV \/ Run \/ ApplyMap
  \/ \E body \in recent, kind \in {"recent", "load"} :
       ChooseProject(kind, body) \/ ChooseRefused(kind, body)
  \/ \E call \in calls :
       \/ Inspected(call) \/ InspectionFailed(call)
       \/ \E ok \in BOOLEAN : Answered(call, ok)

Spec == Init /\ [][Next]_vars

(***************************************************************************)
(* Properties.                                                             *)
(***************************************************************************)
Fits(body, p) ==
  /\ \A k \in body.keys : IF body.hasHeader THEN k.name \in ToSet(Left(p))
                                            ELSE k.index < Len(Left(p))
  /\ validateMapping(body.map, Len(Left(p)), Len(Right(p)))
  /\ body.hasHeader /\ body.filter # "" => body.filter \in ToSet(Left(p))

\* The keys, the column map and the filter of a request name columns of the
\* inspection in effect when it leaves, through every order of edits,
\* inspections, project loads and their late answers: the request is built
\* again after the inspection it waited for, and the key list and the
\* inspection change together.
RequestFitsInspection ==
  \A call \in calls : call.stage = "answer" => Fits(call.body, call.inspected)
=============================================================================
