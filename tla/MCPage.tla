-------------------------------- MODULE MCPage --------------------------------
(***************************************************************************)
(* The views of a result and the panels beside it in one instance for TLC, *)
(* with the row filter of the CSV mode.  A behaviour is one view's, one    *)
(* panel's or the filter's.  The bounds of each are in its values here.    *)
(***************************************************************************)
EXTENDS ResultViews, PanelViews, TLC

CONSTANT NaN  \* a model value

VARIABLES filter, filterHasHeader, rendered, edits

--------------------------------------------------------------------------------
(* The values of the constants. *)

MCMaxActs == [p \in Parts |-> CASE p = "render" -> 2 [] p = "continuous" -> 3 [] OTHER -> 4]
MCMaxPanelActs == [p \in Panels |-> IF p = "table" THEN 5 ELSE 4]

\* No hunk, a page of two, and two pages.
MCRenderPages == {<<0>>, <<2>>, <<2, 1>>}

\* Two conflicts with another event between them; the result goes over one input.
MCEventKinds == <<"conflict", "left_only", "conflict">>
MCInputPaths == [left |-> "a", right |-> "c"]

\* Two hunks with lines before, between and behind them; and a result cut short.
hunk(old, new, oldLen, newLen) ==
  [oldStart |-> old, newStart |-> new, oldLen |-> oldLen, newLen |-> newLen]
MCLayouts ==
  {[hunks |-> <<hunk(1, 1, 1, 0), hunk(7, 6, 0, 1)>>, oldLines |-> 7, newLines |-> 7,
    omitted |-> FALSE],
   [hunks |-> <<hunk(0, 0, 1, 1)>>, oldLines |-> 5, newLines |-> 5, omitted |-> TRUE]}

MCPlan == <<"compare", "result">>

\* A pair whose sides have their columns in another order, and a narrower pair.
MCLeftNames == [wide |-> <<"k", "v">>, narrow |-> <<"id">>]
MCRightNames == [wide |-> <<"v", "k">>, narrow |-> <<"id">>]

\* Full pages, a page that is not full, no difference, and columns to align first.
TableResult(rows, columns, changed, proposals, align) ==
  [rows |-> rows, columns |-> columns, changed |-> changed, proposals |-> proposals,
   align |-> align]
MCTableResults ==
  {TableResult(4, 3, {0, 2}, TRUE, FALSE), TableResult(5, 2, {1}, FALSE, FALSE),
   TableResult(0, 2, {}, FALSE, FALSE), TableResult(2, 2, {0}, TRUE, TRUE)}

\* Two columns with a difference of every cause between them.
ColumnA == [name |-> "a", index |-> 0]
ColumnB == [name |-> "b", index |-> 1]
MCColumns == {ColumnA, ColumnB}
Cell(row, column, sameCollapsed, sameFolded, magnitude) ==
  [row |-> row, column |-> column, sameCollapsed |-> sameCollapsed, sameFolded |-> sameFolded,
   magnitude |-> magnitude]
MCChangedCells ==
  {Cell(1, ColumnA, FALSE, FALSE, 2), Cell(2, ColumnA, FALSE, FALSE, 0),
   Cell(1, ColumnB, FALSE, FALSE, 1), Cell(2, ColumnB, TRUE, FALSE, NoValue),
   Cell(3, ColumnB, FALSE, TRUE, NoValue)}
MCSummaries == {[changed |-> 3, leftOnly |-> 0, rightOnly |-> 0]}

\* A changed file two folders deep, with an equal one above it, and an added file.
MCFolderEntries ==
  <<"d", "e", "x">> :> "changed" @@ <<"d", "y">> :> "same" @@ <<"z">> :> "added"
MCFoundIn == {<<"d", "e", "x">>}
MCNames == <<"d", "e", "x", "y", "z">>

\* One pattern is in every line, one twice in each changed line.
Found(changed, unchanged) == [changed |-> changed, unchanged |-> unchanged]
MCFinds == "" :> Found(0, 0) @@ "a" :> Found(1, 1) @@ "b" :> Found(2, 0)
MCSearchPages == {<<>>, <<2>>, <<1, 1>>}

--------------------------------------------------------------------------------
(* The row filter. *)

\* Numbers whose order as texts is another, and a letter in both cases.
CellTexts == {"", "9", "10", "X", "x"}
Rank == [t \in CellTexts |->
          CASE t = "" -> 0 [] t = "10" -> 1 [] t = "9" -> 2 [] t = "X" -> 3 [] OTHER -> 4]
Number == [t \in CellTexts |-> CASE t = "9" -> 9 [] t = "10" -> 10 [] OTHER -> NaN]
Lower == [t \in CellTexts |-> IF t = "X" THEN "x" ELSE t]
Within == {<<t, t>> : t \in CellTexts} \cup ({""} \X CellTexts)
FilterRows == {<<"10", "X">>, <<"9", "">>, <<"x", "10">>}
Typing(column, op, value, value2, not) ==
  [column |-> column, index |-> IF column = "k" THEN 0 ELSE 1, byIndex |-> FALSE,
   op |-> op, value |-> value, value2 |-> value2, not |-> not]
Typed ==
  {Typing("k", "gt", "9", "", FALSE), Typing("k", "between", "10", "9", TRUE),
   Typing("v", "eq", "x", "", FALSE), Typing("v", "empty", "", "", FALSE),
   Typing("v", "contains", "X", "", TRUE), Typing("k", "le", "x", "", FALSE),
   Typing("k", "ne", "", "", FALSE)}

Filter == INSTANCE RowFilter WITH
  Texts <- CellTexts, Header <- <<"k", "v">>, Rows <- FilterRows,
  MaxConditions <- 2, MaxGroups <- 1, MaxEdits <- 6, hasHeader <- filterHasHeader

--------------------------------------------------------------------------------
filterVars == <<filter, filterHasHeader, rendered, edits>>
Filtering == part = "none" /\ panel = "none"

Init ==
  /\ ViewsInit /\ PanelsInit /\ Filter!Init
  /\ part = "none" \/ panel = "none"
  /\ Filtering \/ filterHasHeader

FilterStep == Filtering /\ Filter!Next /\ UNCHANGED <<viewVars, panelVars>>

Next ==
  \/ ViewsNext /\ UNCHANGED <<panelVars, filterVars>>
  \/ PanelsNext /\ UNCHANGED <<viewVars, filterVars>>
  \/ FilterStep

vars == <<viewVars, panelVars, filterVars>>

Spec == Init /\ [][Next]_vars

--------------------------------------------------------------------------------
\* rowfilter.js:49-344: a filter says the same in the page, the engine and a project.
FilterMeansTheSame == Filtering => Filter!FilterMeansTheSame
===============================================================================
