------------------------------ MODULE ResultViews ------------------------------
(***************************************************************************)
(* The views of a result that share no state: how it is rendered, how its  *)
(* unchanged context is opened, how a folder's files are read one after    *)
(* the other and opened from its tree, and how a result is searched.       *)
(*                                                                         *)
(* Each keeps its variables to itself, so that what holds of one when the  *)
(* others rest holds of it whatever they do.  A behaviour is one view's:   *)
(* part says whose, and the others stay as they began.  A view that is not *)
(* of this module leaves them all alone.                                   *)
(***************************************************************************)
EXTENDS Naturals, Sequences

CONSTANTS
  MaxActs,                                                 \* bounds, by part
  RenderPages, MaxRenders,                                 \* of ResultRender
  Layouts, LineCounts,                                     \* of UnchangedContext
  ExpandChunk, BatchRanges, BatchLines,
  Sizes, Limit, Ahead, Behind,                             \* of ContinuousView
  FolderEntries, FoundIn, Names, ExpandLimit,              \* of FolderResult
  Patterns, Finds, SearchPages, MaxHits, MaxSearches       \* of ResultSearch

ASSUME RenderAssumption == RenderPages \subseteq Seq(Nat)

\* The code holds 12 sections, and reads 2 ahead and 1 behind.
ASSUME ContinuousAssumption ==
  /\ Sizes \subseteq Nat /\ Ahead \in Nat /\ Behind \in Nat /\ Limit \in Nat
  /\ 2 * Ahead <= Limit /\ 2 * Behind < Limit

\* The code expands 50 lines at a time.
ASSUME ContextAssumption ==
  /\ \A d \in Layouts :
       /\ d.hunks \in Seq([oldStart : Nat, oldLen : Nat, newStart : Nat, newLen : Nat])
       /\ d.oldLines \in Nat /\ d.newLines \in Nat
  /\ LineCounts \subseteq Nat /\ ExpandChunk \in Nat \ {0}

ASSUME FolderAssumption == DOMAIN FolderEntries \subseteq Seq({Names[n] : n \in DOMAIN Names})

ASSUME SearchAssumption ==
  /\ Finds \in [Patterns -> [changed : Nat, unchanged : Nat]]
  /\ SearchPages \subseteq Seq(Nat \ {0})
  /\ MaxHits \in Nat \ {0}

VARIABLES
  part,
  runs, run, gate, renders, screen, lastData, threeWay, outcome, disturbed,
  renderActs,
  regions, visible, lines, contextToken, loads, contextFailed, strayed,
  contextActs,
  view, continuousOpen, size, built, loaded, pending, collapsed, focus, top, frame,
  adrift, continuousRequests, continuousActs,
  treeMode, inputs, treeFilter, query, flat, treeTimer, treeData, tree, drawing, entryView,
  folderReturn, backShown, backTails, filtersShown, waiting, call, treeActs,
  searchOpen, input, searchChangedOnly, searchTimer, searchHits, searchIndex,
  counter, cells, searchRun, searchRuns, gap, unsearched, searchActs

renderVars ==
  <<runs, run, gate, renders, screen, lastData, threeWay, outcome,
    disturbed, renderActs>>
contextVars ==
  <<regions, visible, lines, contextToken, loads, contextFailed, strayed,
    contextActs>>
continuousVars ==
  <<view, continuousOpen, size, built, loaded, pending, collapsed, focus, top,
    frame, adrift, continuousRequests, continuousActs>>
folderVars ==
  <<treeMode, inputs, treeFilter, query, flat, treeTimer, treeData, tree, drawing, entryView,
    folderReturn, backShown, backTails, filtersShown, waiting, call, treeActs>>
searchVars ==
  <<searchOpen, input, searchChangedOnly, searchTimer, searchHits, searchIndex,
    counter, cells, searchRun, searchRuns, gap, unsearched, searchActs>>
viewVars == <<part, renderVars, contextVars, continuousVars, folderVars, searchVars>>

--------------------------------------------------------------------------------
(* The views. *)

Render == INSTANCE ResultRender WITH
  PageSets <- RenderPages, MaxRuns <- MaxRenders, MaxActs <- MaxActs["render"],
  acts <- renderActs

Context == INSTANCE UnchangedContext WITH
  MaxActs <- MaxActs["context"], Chunk <- ExpandChunk,
  token <- contextToken, failed <- contextFailed, acts <- contextActs

Continuous == INSTANCE ContinuousView WITH
  MaxActs <- MaxActs["continuous"],
  open <- continuousOpen, requests <- continuousRequests, acts <- continuousActs

Folder == INSTANCE FolderResult WITH
  Status <- FolderEntries, Found <- FoundIn, MaxActs <- MaxActs["folder"],
  mode <- treeMode, filter <- treeFilter, searchTimer <- treeTimer, data <- treeData,
  acts <- treeActs

Search == INSTANCE ResultSearch WITH
  PageSets <- SearchPages, MaxRuns <- MaxSearches, MaxActs <- MaxActs["search"],
  changedOnly <- searchChangedOnly, run <- searchRun, runs <- searchRuns, acts <- searchActs

--------------------------------------------------------------------------------
(* The result. *)

Parts == {"render", "context", "continuous", "folder", "search", "none"}

\* What a view that rests starts with is fixed, so that it adds no states.
ViewsInit ==
  /\ part \in Parts
  /\ Render!Init /\ Continuous!Init /\ Folder!Init /\ Search!Init
  /\ Context!Init /\ (part # "context" => visible /\ lines = CHOOSE n \in LineCounts : TRUE)

RenderStep ==
  /\ part = "render" /\ Render!Next
  /\ UNCHANGED <<part, contextVars, continuousVars, folderVars, searchVars>>
ContextStep ==
  /\ part = "context" /\ Context!Next
  /\ UNCHANGED <<part, renderVars, continuousVars, folderVars, searchVars>>
ContinuousStep ==
  /\ part = "continuous" /\ Continuous!Next
  /\ UNCHANGED <<part, renderVars, contextVars, folderVars, searchVars>>
FolderStep ==
  /\ part = "folder" /\ Folder!Next
  /\ UNCHANGED <<part, renderVars, contextVars, continuousVars, searchVars>>
SearchStep ==
  /\ part = "search" /\ Search!Next
  /\ UNCHANGED <<part, renderVars, contextVars, continuousVars, folderVars>>

ViewsNext ==
  \/ RenderStep
  \/ ContextStep
  \/ ContinuousStep
  \/ FolderStep
  \/ SearchStep

ViewsSpec == ViewsInit /\ [][ViewsNext]_viewVars

--------------------------------------------------------------------------------
(* The properties are the views' own, each asked of its own behaviours. *)

\* app.js:6235-6303, renderqueue.js: what is reported as finished is on the screen.
FinishedIsShown == part = "render" => Render!FinishedIsShown

\* app.js:2435-2457, 2510-2676: each unchanged line is shown once or behind a gap, a
\* gap's controls come back, and a quiet context is complete.
ContextWhole == part = "context" => Context!EachLineOnce /\ Context!ContextSettles

\* app.js:991-1262: a quiet continuous view has what is being read.
ReadingIsReady == part = "continuous" => Continuous!ReadingIsReady

\* app.js:7226-7240, 5914-5964: a side is absent if the folder comparison found it so,
\* and Back shows the tree as it was left.
FolderTrue == part = "folder" => Folder!AbsentWasFound /\ Folder!BackRestoresTree

\* app.js:6500-6680: the hits are lines of the result on the screen.
HitsAreOfScreen == part = "search" => Search!HitsAreOfScreen
===============================================================================
