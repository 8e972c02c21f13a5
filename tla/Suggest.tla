------------------------------- MODULE Suggest -------------------------------
(***************************************************************************)
(* What would make a CSV result match (suggest.js): the causes read from a *)
(* result, the option changes proposed for them, and what their Apply does *)
(* to the page's setup, one after another (app.js).  A setup names columns *)
(* by their header when it has one and by position otherwise; a Column is  *)
(* the record of both.  A tolerance in a list is told by its column.       *)
(* Proposals are the same in whatever order they are listed, so they are a *)
(* set.                                                                    *)
(***************************************************************************)
EXTENDS Naturals, FiniteSets, FiniteSetsExt

CONSTANTS none, on,     \* an option not set, and one switched on
          change, all,  \* whitespace modes
          Columns,      \* records: name, index
          Cells,        \* changed cells a result may have
          Summaries,    \* records: changed, leftOnly, rightOnly
          MaxApplied    \* proposals whose Apply is pressed

VARIABLES result,       \* records: cells (a set), counts, summary
          setup,        \* the comparison options, as csvRequestBody reads the form
          offered,      \* the proposals on the cards
          pressed       \* those whose Apply was pressed

vars == <<result, setup, offered, pressed>>

\* A cell pair by what tells its cause.
classifyCell(cell) ==
  IF cell.sameCollapsed THEN "whitespace"
  ELSE IF cell.sameFolded THEN "case"
  ELSE IF cell.magnitude # none THEN "numeric"
  ELSE "content"

differenceCount == result.summary.changed + result.summary.leftOnly + result.summary.rightOnly

CellsOf(cause) == {cell \in result.cells : classifyCell(cell) = cause}

ColumnsOf(cause) == {cell.column : cell \in CellsOf(cause)}

\* The cells of one column, and the tolerance that covers them.
CountIn(cause, column) == Cardinality({cell \in CellsOf(cause) : cell.column = column})

MagnitudeIn(cells) == Max({0} \cup {cell.magnitude : cell \in cells})

\* The column with at least half of all changed cells, and two of them.
Concentrated(column) ==
  LET count(c) == Cardinality({cell \in result.cells : cell.column = c})
  IN  /\ count(column) >= 2
      /\ 2 * count(column) >= Cardinality(result.cells)
      /\ \A c \in Columns : count(c) <= count(column)

\* columnOrder, rowOrder and content concern no cell in particular.
estimateCauses ==
  {classifyCell(cell) : cell \in result.cells}
    \cup (IF setup.alignColumnsByName # on /\ differenceCount > 0 THEN {"columnOrder"} ELSE {})
    \cup (IF \E c \in Columns : Concentrated(c) THEN {"columnConcentration"} ELSE {})

columnSelector(column) ==
  IF setup.hasHeader THEN [by |-> "name", name |-> column.name]
                     ELSE [by |-> "index", index |-> column.index]

\* A selector chooses the column, whatever the setup's own way of naming.
Selects(selector, column) ==
  IF selector.by = "name" THEN selector.name = column.name ELSE selector.index = column.index

keyedColumn(column) == \E s \in setup.keys : Selects(s, column)
alreadyIgnored(column) == \E s \in setup.ignoreColumns : Selects(s, column)
alreadyToleranced(column) == \E s \in setup.columnTolerances : Selects(s, column)

\* A proposal: the option it sets, or adds a column to, and the value.
Proposal(option, value) == [option |-> option, selector |-> none, value |-> value]

ColumnProposal(option, column, value) ==
  [option |-> option, selector |-> columnSelector(column), value |-> value]

\* Of the columns with numeric cells, the three with most of them.
ToleranceColumns ==
  LET open == {c \in ColumnsOf("numeric") :
                 ~keyedColumn(c) /\ ~alreadyToleranced(c) /\ ~alreadyIgnored(c)}
  IN  {c \in open :
         Cardinality({d \in open : CountIn("numeric", d) > CountIn("numeric", c)}) < 3}

buildProposals ==
  LET numeric == CellsOf("numeric")
      Numeric(c) == {cell \in numeric : cell.column = c}
  IN
  {Proposal("alignColumnsByName", on) : cause \in estimateCauses \cap {"columnOrder"}}
  \cup {Proposal("whitespace", change) :
          cause \in IF setup.whitespace = none THEN estimateCauses \cap {"whitespace"} ELSE {}}
  \cup {Proposal("ignoreCase", on) :
          cause \in IF setup.ignoreCase = none THEN estimateCauses \cap {"case"} ELSE {}}
  \cup {ColumnProposal("columnTolerances", c, MagnitudeIn(Numeric(c))) : c \in ToleranceColumns}
  \cup (IF Cardinality(ToleranceColumns) > 1 /\ setup.tolerance = none /\ setup.keys # {}
          THEN {Proposal("tolerance", MagnitudeIn(numeric))} ELSE {})
  \cup {ColumnProposal("ignoreColumns", c, none) :
          c \in {d \in Columns : Concentrated(d) /\ ~alreadyIgnored(d)}}

\* An item joins a list unless its column is there.
unionSelectors(existing, added) == existing \cup {added}

ListOptions == {"columnTolerances", "ignoreColumns"}

applyProposal(options, p) ==
  IF p.option \in ListOptions
    THEN [options EXCEPT ![p.option] = unionSelectors(@, p.selector)]
    ELSE [options EXCEPT ![p.option] = p.value]

isApplied(options, p) ==
  IF p.option \in ListOptions THEN p.selector \in options[p.option]
                              ELSE options[p.option] = p.value

(***************************************************************************)
(* The page.  Apply sets the control of the option and compares.  A result *)
(* that comes back is any, and its cards are made from it and the form; a  *)
(* comparison that fails, or is cancelled, leaves the result and the cards *)
(* of before, whose setup is no longer the form's.                         *)
(***************************************************************************)

\* The elements that applySuggestionPatch asks for and index.html has.  The one it
\* asks for whitespace is not there: the scale's id is whitespaceScale.
Controls == {"alignColumnsByName", "ignoreCase", "tolerance"} \cup ListOptions

\* A specification that is in the control's list already is not written again.
applySuggestionPatch(form, p) ==
  IF p.option \in ListOptions
    THEN [form EXCEPT ![p.option] = @ \cup {p.selector}]
    ELSE [form EXCEPT ![p.option] = p.value]

Possible == [cells : SUBSET Cells, summary : Summaries]

Setups == [hasHeader : BOOLEAN, alignColumnsByName : {none, on}, whitespace : {none, all},
           ignoreCase : {none}, tolerance : {none}, columnTolerances : {{}},
           ignoreColumns : {{}}, keys : {{}}]

\* Some columns may be keys, named as the header allows.
WithKeys(s) == {s} \cup {[s EXCEPT !.keys =
  {IF s.hasHeader THEN [by |-> "name", name |-> c.name] ELSE [by |-> "index", index |-> c.index]}] :
     c \in Columns}

Init ==
  /\ result \in Possible
  /\ setup \in UNION {WithKeys(s) : s \in Setups}
  /\ offered = buildProposals
  /\ pressed = {}

Press(p) ==
  /\ Cardinality(pressed) < MaxApplied
  /\ p \in offered
  /\ pressed' = pressed \cup {p}
  /\ UNCHANGED <<result, offered>>

ApplySuggestion(p) ==
  /\ Press(p)
  /\ p.option \in Controls
  /\ setup' = applySuggestionPatch(setup, p)

\* Assigning to the value of no element throws: nothing is set, nothing compared.
ApplyThrows(p) ==
  /\ Press(p)
  /\ p.option \notin Controls
  /\ UNCHANGED setup

\* renderCSV of a comparison's answer, and refreshSuggestions.
Compared ==
  /\ result' \in Possible
  /\ UNCHANGED <<setup, pressed>>
  /\ offered' = buildProposals'

Next ==
  \/ \E p \in offered : ApplySuggestion(p) \/ ApplyThrows(p)
  \/ Compared

Spec == Init /\ [][Next]_vars

(***************************************************************************)
(* Properties.                                                             *)
(***************************************************************************)
\* Whatever results came back, or failed to: every proposal whose Apply was pressed
\* stays in effect, however many others were since, from new cards or from those of
\* before, except that of whitespace, which no Apply brings into effect; no card that
\* was made for the present setup offers what is in effect, and its Apply compares what
\* its residual was counted for (suggest.js:276, "Applied proposals stack: a second
\* call layers onto the first"; app.js:5463-5491).
ProposalsStack ==
  /\ \A p \in pressed : isApplied(setup, p) <=> p.option # "whitespace"
  /\ offered = buildProposals =>
       \A p \in offered :
         /\ ~isApplied(setup, p)
         /\ isApplied(applyProposal(setup, p), p)
         /\ p.option # "whitespace" => applySuggestionPatch(setup, p) = applyProposal(setup, p)
=============================================================================
