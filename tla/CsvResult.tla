------------------------------ MODULE CsvResult ------------------------------
(***************************************************************************)
(* The CSV result on the page: the paged table of differences, its columns *)
(* and their order, and the suggestions of what would make the sides match *)
(* (app.js, csvview.js, reorderColumns of columnmap.js).                   *)
(*                                                                         *)
(* A suggestion request runs the engine once per candidate and may answer  *)
(* long after the result it was made for has gone; a token numbers the     *)
(* requests.  What is proposed is in Suggest.                              *)
(***************************************************************************)
EXTENDS Lists, Integers, FiniteSets, SequencesExt

CONSTANTS none,
          Results,     \* records: rows, columns, changed, proposals, align
          PageSize,    \* CSV_PAGE_SIZE
          MaxActs

VARIABLES csvData,          \* the result held
          mode,             \* "csv" or another comparison mode
          csvPage,
          csvView,          \* the table last drawn, or none
          placed,           \* it is on the page
          shownRows,        \* the differences in it
          changedOnly,      \* "changed columns only"
          pager,            \* what the pager's controls say
          suggestionToken,
          asked,            \* suggestion requests under way
          panelHidden, cards,
          acts

table == <<csvPage, csvView, placed, shownRows, pager>>
panel == <<suggestionToken, asked, panelHidden, cards>>
vars == <<csvData, mode, table, changedOnly, panel, acts>>

(***************************************************************************)
(* csvview.js and reorderColumns.                                          *)
(***************************************************************************)
AtLeast(a, b) == IF a > b THEN a ELSE b
AtMost(a, b) == IF a < b THEN a ELSE b

csvPageCount(total) == AtLeast(1, (total + PageSize - 1) \div PageSize)

clampPage(page, pageCount) == AtLeast(0, AtMost(page, pageCount - 1))

visibleColumns(data) ==
  LET every == [i \in 1..data.columns |-> i - 1]
  IN  IF changedOnly' THEN Keep(every, data.changed) ELSE every

\* The differences, by position, of one page.
pageSlice(data, page) ==
  LET start == page * PageSize
  IN  {i \in 0..(data.rows - 1) : start <= i /\ i < start + PageSize}

pagerState(page, pageCount) ==
  [value |-> page + 1, atFirst |-> page = 0, atLast |-> page + 1 >= pageCount]

reorderColumns(columns, from, to) ==
  IF from \notin 0..(Len(columns) - 1) THEN columns
  ELSE InsertAt(RemoveAt(columns, from + 1), AtMost(to, Len(columns) - 1) + 1, columns[from + 1])

(***************************************************************************)
(* The table.                                                              *)
(***************************************************************************)
renderCSVRows(data, page) ==
  /\ shownRows' = pageSlice(data, page)
  /\ pager' = pagerState(page, csvPageCount(data.rows))

renderCSVColumns(data, page) ==
  /\ csvPage' = page
  /\ csvView' = [data |-> data, columns |-> visibleColumns(data)]
  /\ renderCSVRows(data, page)

\* Without differences, or with columns to align first, there is no table.
renderTable(data, page) ==
  IF data.align \/ data.rows = 0
    THEN csvPage' = page /\ csvView' = none /\ placed' = FALSE /\ shownRows' = {} /\ UNCHANGED pager
    ELSE placed' = TRUE /\ renderCSVColumns(data, clampPage(page, csvPageCount(data.rows)))

(***************************************************************************)
(* The suggestions.                                                        *)
(***************************************************************************)
NoCards == [state |-> "none", token |-> 0]

\* A faulty form for a check: an answer under way is still awaited.
hideKeepingToken == panelHidden' = TRUE /\ cards' = NoCards /\ UNCHANGED suggestionToken

hideSuggestions ==
  /\ suggestionToken' = suggestionToken + 1
  /\ panelHidden' = TRUE /\ cards' = NoCards

\* valid: the setup form makes a request with two paths.
refreshSuggestions(data, valid) ==
  IF ~valid THEN hideSuggestions /\ UNCHANGED asked
  ELSE /\ panelHidden' = FALSE
       /\ IF data.proposals
            THEN /\ suggestionToken' = suggestionToken + 1
                 /\ asked' = asked \cup {suggestionToken + 1}
                 /\ cards' = [state |-> "loading", token |-> suggestionToken + 1]
            ELSE cards' = NoCards /\ UNCHANGED <<suggestionToken, asked>>

SuggestionsAnswer ==
  \E token \in asked, ok \in BOOLEAN :
    /\ asked' = asked \ {token}
    /\ cards' = IF token = suggestionToken /\ ok
                  THEN [state |-> "residuals", token |-> token] ELSE cards
    /\ UNCHANGED <<csvData, mode, table, changedOnly, suggestionToken, panelHidden, acts>>

(***************************************************************************)
(* What happens to the result.                                             *)
(***************************************************************************)
Act == acts < MaxActs /\ acts' = acts + 1

\* compareCSV's answer, when no newer request was begun.
Compared ==
  /\ Act /\ mode = "csv"
  /\ \E data \in Results, valid \in BOOLEAN :
       /\ csvData' = data
       /\ UNCHANGED <<mode, changedOnly>>
       /\ renderTable(data, 0)
       /\ refreshSuggestions(data, valid)

\* A change of language draws the held result anew.
renderCSV ==
  /\ Act /\ mode = "csv" /\ csvData # none
  /\ UNCHANGED <<csvData, mode, changedOnly>>
  /\ renderTable(csvData, csvPage)
  /\ \E valid \in BOOLEAN : refreshSuggestions(csvData, valid)

\* The result of another mode takes the page; a folder or three-way result
\* drops the CSV data, a text one keeps it.
OtherResult ==
  /\ Act /\ mode' = "other"
  /\ csvData' \in {csvData, none} /\ hideSuggestions
  /\ placed' = FALSE
  /\ UNCHANGED <<csvPage, csvView, shownRows, pager, changedOnly, asked>>

BackToCSV ==
  /\ Act /\ mode = "other" /\ mode' = "csv"
  /\ UNCHANGED <<csvData, table, changedOnly, panel>>

showCSVPage ==
  /\ Act /\ placed
  /\ \E page \in -1..(csvPageCount(csvView.data.rows)) :
       LET next == clampPage(page, csvPageCount(csvView.data.rows))
       IN  /\ next # csvPage
           /\ csvPage' = next /\ renderCSVRows(csvView.data, next)
  /\ UNCHANGED <<csvData, mode, csvView, placed, changedOnly, panel>>

ToggleChangedOnly ==
  /\ Act /\ changedOnly' = ~changedOnly
  /\ IF csvData # none /\ csvView # none
       THEN renderCSVColumns(csvView.data, 0) /\ UNCHANGED placed
       ELSE UNCHANGED table
  /\ UNCHANGED <<csvData, mode, panel>>

\* The dragged text is a column's position, or anything dragged from elsewhere.
DropColumn ==
  /\ Act /\ placed
  /\ \E from \in 0..Len(csvView.columns), to \in 0..(Len(csvView.columns) - 1) :
       csvView' = [csvView EXCEPT !.columns = reorderColumns(@, from, to)]
  /\ renderCSVRows(csvView.data, csvPage)
  /\ UNCHANGED <<csvData, mode, csvPage, placed, changedOnly, panel>>

Init ==
  /\ csvData = none /\ mode = "csv" /\ csvPage = 0 /\ csvView = none /\ placed = FALSE /\ shownRows = {}
  /\ changedOnly = FALSE /\ pager = none
  /\ suggestionToken = 0 /\ asked = {} /\ panelHidden = TRUE /\ cards = NoCards /\ acts = 0

Next == \/ Compared \/ renderCSV \/ OtherResult \/ BackToCSV
        \/ showCSVPage \/ ToggleChangedOnly \/ DropColumn \/ SuggestionsAnswer

Spec == Init /\ [][Next]_vars

(***************************************************************************)
(* Properties.                                                             *)
(***************************************************************************)
\* After any order of page turns, re-renders, column drops and column toggles the table
\* shows exactly one page that exists, never an empty one, with the pager at it and each
\* visible column once.  The panel above it stays empty once it was hidden, and the
\* residuals it shows answer the newest request, in whatever order the answers come
\* (csvview.js:14-40, app.js:5405-5480).
TablePageAndPanel ==
  /\ placed =>
       LET data == csvView.data
           pages == csvPageCount(data.rows)
       IN  /\ data = csvData
           /\ csvPage \in 0..(pages - 1)
           /\ shownRows # {} /\ shownRows = pageSlice(data, csvPage)
           /\ pager = [value |-> csvPage + 1, atFirst |-> csvPage = 0, atLast |-> csvPage = pages - 1]
           /\ Len(csvView.columns) = Cardinality(ToSet(csvView.columns))
           /\ ToSet(csvView.columns) = IF changedOnly THEN data.changed ELSE 0..(data.columns - 1)
  /\ panelHidden => cards = NoCards
  /\ cards.state = "residuals" => cards.token = suggestionToken
=============================================================================
