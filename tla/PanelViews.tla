------------------------------ MODULE PanelViews ------------------------------
(***************************************************************************)
(* What stands beside a result: the merge of it, the messages and the      *)
(* progress, and how a CSV comparison is set up, shown and tuned.  They    *)
(* share no state with one another either, and compose as the views of     *)
(* ResultViews do: panel says whose the behaviour is.                      *)
(***************************************************************************)
EXTENDS Naturals, Sequences, FiniteSets

CONSTANTS
  NoValue,
  MaxPanelActs,                                            \* bounds, by panel
  EventKinds, InputPaths, Output, UndoLimit, MaxRequests,  \* of MergeResult
  MessageTexts, DismissDelay, MaxEntries, Plan,            \* of StatusLanes
  Pairs, LeftNames, RightNames, AlignColumns, MaxRows,     \* of CsvSetup
  TableResults, PageSize,                                  \* of CsvResult
  Switched, WhitespaceChange, WhitespaceAll,               \* of Suggest
  Columns, ChangedCells, Summaries, MaxApplied

ASSUME MergeAssumption == EventKinds \in Seq(STRING)
\* "none" stands for the absent stage.
ASSUME LanesAssumption == "none" \notin {Plan[i] : i \in DOMAIN Plan}
ASSUME SetupAssumption ==
  /\ NoValue \notin Pairs
  /\ LeftNames \in [Pairs -> Seq(STRING)] /\ RightNames \in [Pairs -> Seq(STRING)]
ASSUME TableAssumption ==
  /\ PageSize \in Nat \ {0}
  /\ NoValue \notin TableResults /\ NoValue \notin [data : TableResults, columns : Seq(Nat)]
  /\ \A data \in TableResults :
       data.rows \in Nat /\ data.columns \in Nat /\ data.changed \subseteq 0..(data.columns - 1)
ASSUME SuggestAssumption ==
  /\ NoValue \notin Nat \cup {Switched, WhitespaceChange}
  /\ WhitespaceAll # WhitespaceChange
  /\ IsFiniteSet(ChangedCells)
  /\ \A cell \in ChangedCells : cell.magnitude \in Nat \cup {NoValue}

VARIABLES
  panel,
  kind, sel, undo, redo, drawn, mergeCurrent, advance, mergeOpen, timer,
  mergeToken, mergeRequests, preview, manual, editor, save, saved, mergeFailed,
  mergeActs,
  entries, nextID, timers, now, records, lanesCurrent, finished, status, server,
  lost, lanesActs,
  pair, setupHasHeader, csvInspection, selectable, selected, keyMode,
  filterColumn, columnMap, columnMapDirty, calls, busyOperation,
  inspectDisabled, disabledBefore, recent, setupActs,
  csvData, mode, csvPage, csvView, placed, shownRows, changedOnly, pager,
  suggestionToken, asked, panelHidden, cards, tableActs,
  result, setup, offered, pressed

mergeVars ==
  <<kind, sel, undo, redo, drawn, mergeCurrent, advance, mergeOpen, timer,
    mergeToken, mergeRequests, preview, manual, editor, save, saved,
    mergeFailed, mergeActs>>
lanesVars ==
  <<entries, nextID, timers, now, records, lanesCurrent, finished, status,
    server, lost, lanesActs>>
setupVars ==
  <<pair, setupHasHeader, csvInspection, selectable, selected, keyMode,
    filterColumn, columnMap, columnMapDirty, calls, busyOperation,
    inspectDisabled, disabledBefore, recent, setupActs>>
tableVars ==
  <<csvData, mode, csvPage, csvView, placed, shownRows, changedOnly, pager,
    suggestionToken, asked, panelHidden, cards, tableActs>>
suggestVars ==
  <<result, setup, offered, pressed>>
panelVars == <<panel, mergeVars, lanesVars, setupVars, tableVars, suggestVars>>

--------------------------------------------------------------------------------
(* The panels. *)

Merge == INSTANCE MergeResult WITH
  Kinds <- EventKinds, Paths <- InputPaths, MaxActs <- MaxPanelActs["merge"],
  current <- mergeCurrent, open <- mergeOpen, token <- mergeToken,
  requests <- mergeRequests, failed <- mergeFailed, acts <- mergeActs

Lanes == INSTANCE StatusLanes WITH
  Texts <- MessageTexts, Delay <- DismissDelay, MaxActs <- MaxPanelActs["lanes"],
  current <- lanesCurrent, acts <- lanesActs

Setup == INSTANCE CsvSetup WITH
  none <- NoValue, MaxActs <- MaxPanelActs["setup"],
  hasHeader <- setupHasHeader, acts <- setupActs

Table == INSTANCE CsvResult WITH
  none <- NoValue, Results <- TableResults, MaxActs <- MaxPanelActs["table"], acts <- tableActs

Suggestions == INSTANCE Suggest WITH
  none <- NoValue, on <- Switched, change <- WhitespaceChange, all <- WhitespaceAll,
  Cells <- ChangedCells

--------------------------------------------------------------------------------
(* The page. *)

Panels == {"merge", "lanes", "setup", "table", "suggestions", "none"}

\* What a panel that rests starts with is fixed, so that it adds no states.
PanelsInit ==
  /\ panel \in Panels
  /\ Lanes!Init /\ Table!Init
  /\ Merge!Init /\ (panel # "merge" => kind = "csv")
  /\ Setup!Init /\ (panel # "setup" => pair = CHOOSE p \in Pairs : TRUE)
  /\ IF panel = "suggestions"
     THEN Suggestions!Init
     ELSE result = NoValue /\ setup = NoValue /\ offered = {} /\ pressed = {}

MergeStep ==
  /\ panel = "merge" /\ Merge!Next
  /\ UNCHANGED <<panel, lanesVars, setupVars, tableVars, suggestVars>>
LanesStep ==
  /\ panel = "lanes" /\ Lanes!Next
  /\ UNCHANGED <<panel, mergeVars, setupVars, tableVars, suggestVars>>
SetupStep ==
  /\ panel = "setup" /\ Setup!Next
  /\ UNCHANGED <<panel, mergeVars, lanesVars, tableVars, suggestVars>>
TableStep ==
  /\ panel = "table" /\ Table!Next
  /\ UNCHANGED <<panel, mergeVars, lanesVars, setupVars, suggestVars>>
SuggestionsStep ==
  /\ panel = "suggestions" /\ Suggestions!Next
  /\ UNCHANGED <<panel, mergeVars, lanesVars, setupVars, tableVars>>

PanelsNext ==
  \/ MergeStep
  \/ LanesStep
  \/ SetupStep
  \/ TableStep
  \/ SuggestionsStep

PanelsSpec == PanelsInit /\ [][PanelsNext]_panelVars

--------------------------------------------------------------------------------
(* The properties are the panels' own, each asked of its own behaviours. *)

\* app.js:3465-3510: undo, the choices and redo are one history.
OneTimeline == panel = "merge" => Merge!OneTimeline

\* app.js:3985-4100: a quiet preview has the lines of the present choices.
PreviewOfChoices == panel = "merge" => Merge!PreviewOfChoices

\* keymap.js:224-243, app.js:3683-3694: a choice moves on to an undecided conflict.
AdvanceGoesOn == Merge!AdvanceGoesOn

\* messages.js:83-117, progress.js:110-186: no message leaves before its time, and
\* the lane shows the one stage under way.
LanesAreTrue ==
  panel = "lanes" => Lanes!ReadBeforeItLeaves /\ Lanes!LaneTellsTheStage

\* app.js:5260-5360: a request names columns of the inspection it is sent with.
RequestFitsInspection == panel = "setup" => Setup!RequestFitsInspection

\* csvview.js, app.js:5405-5680, suggest.js:276-320: the table is one page of the result
\* held, the panel's suggestions answer the newest request, and proposals applied one
\* after the other stay in effect (but that of whitespace, which Apply cannot set).
TableAndProposals ==
  /\ panel = "table" => Table!TablePageAndPanel
  /\ panel = "suggestions" => Suggestions!ProposalsStack
===============================================================================
