------------------------------ MODULE RowFilter ------------------------------
(***************************************************************************)
(* The row filter of the CSV mode: the builder of the setup form, whose    *)
(* controls are rendered from filterState and read back on every edit      *)
(* (app.js), the model and compiler behind it (rowfilter.js), and the      *)
(* engine's evaluation of the compiled filter (engine/rowfilter.go).       *)
(*                                                                         *)
(* A cell or an operand is one of Texts, of which Rank gives the order,    *)
(* Number the value when it reads as one, Lower the folded text and Within *)
(* the pairs one of which contains the other: "contains" stands for all    *)
(* the text relations but equality.  Regular expressions are left out, two *)
(* libraries decide them.                                                  *)
(***************************************************************************)
EXTENDS Naturals, Sequences, FiniteSets, SequencesExt

CONSTANTS Texts, Rank, Number, Lower, Within, NaN,
          Header,         \* the column names of the inspected input
          Rows,           \* rows to filter, sequences of Texts
          Typed,          \* what a condition's controls can be set to
          MaxConditions, MaxGroups, MaxEdits

VARIABLES filter,    \* filterState.rows
          hasHeader, \* the checkbox of the form
          rendered,  \* its value when the builder was last rendered
          edits

vars == <<filter, hasHeader, rendered, edits>>

(***************************************************************************)
(* rowfilter.js: the model.                                                *)
(***************************************************************************)
operatorInfo(op) == CASE op \in {"empty", "not_empty"} -> 0
                      [] op = "between"                -> 2
                      [] OTHER                         -> 1

Ordering == {"gt", "ge", "lt", "le", "between"}

newCondition == [column |-> "", index |-> 0, byIndex |-> FALSE, op |-> "eq",
                 value |-> "", value2 |-> "", not |-> FALSE]

newGroup == [match |-> "all", ignoreCase |-> FALSE, not |-> FALSE,
             conditions |-> <<>>, groups |-> <<>>]

Field(raw, name, default) == IF name \in DOMAIN raw THEN raw[name] ELSE default

\* Only the page's own field names are read; any other field is left behind.
normalizeCondition(raw) ==
  [field \in DOMAIN newCondition |-> Field(raw, field, newCondition[field])]

RECURSIVE normalizeFilter(_)
normalizeFilter(raw) ==
  [match      |-> raw.match,
   ignoreCase |-> Field(raw, "ignoreCase", FALSE),
   not        |-> raw.not,
   conditions |-> [i \in DOMAIN raw.conditions |-> normalizeCondition(raw.conditions[i])],
   groups     |-> [i \in DOMAIN raw.groups |-> normalizeFilter(raw.groups[i])]]

conditionComplete(c) ==
  /\ c.column # "" \/ c.byIndex
  /\ operatorInfo(c.op) > 0 => c.value # ""

filterIsEmpty(group) == group.conditions = <<>> /\ group.groups = <<>>

\* Incomplete conditions go, then the groups left without any.
RECURSIVE pruneFilter(_)
pruneFilter(group) ==
  LET children == [i \in DOMAIN group.groups |-> pruneFilter(group.groups[i])]
  IN  [group EXCEPT
         !.conditions = SelectSeq(@, conditionComplete),
         !.groups     = SelectSeq(children, LAMBDA child : ~filterIsEmpty(child))]

(***************************************************************************)
(* compileFilter: the wire form, with the engine's field names.            *)
(***************************************************************************)
\* A faulty form for a check: the headerless index is the one-based position.
compileOneBased(c) ==
  [op |-> c.op, value |-> c.value, value2 |-> c.value2, not |-> c.not]
    @@ (IF hasHeader THEN [column |-> c.column]
                     ELSE [by_index |-> TRUE, index |-> c.index + 1])

compileCondition(c) ==
  [op |-> c.op, value |-> c.value, value2 |-> c.value2, not |-> c.not]
    @@ (IF hasHeader THEN [column |-> c.column]
                     ELSE [by_index |-> TRUE, index |-> c.index])

RECURSIVE emit(_)
emit(group) ==
  [match |-> group.match, ignore_case |-> group.ignoreCase, not |-> group.not,
   conditions |-> [i \in DOMAIN group.conditions |-> compileCondition(group.conditions[i])],
   groups |-> [i \in DOMAIN group.groups |-> emit(group.groups[i])]]

compileFilter(f) == emit(pruneFilter(f))

(***************************************************************************)
(* matchesRow: the page's own evaluation.                                  *)
(***************************************************************************)
fold(text, ignoreCase) == IF ignoreCase THEN Lower[text] ELSE text

\* x op a, or x between a and b whichever is the lower.
Compare(op, x, a, b) ==
  CASE op = "gt" -> x > a
    [] op = "ge" -> x >= a
    [] op = "lt" -> x < a
    [] op = "le" -> x <= a
    [] OTHER     -> (a <= x /\ x <= b) \/ (b <= x /\ x <= a)

\* Numbers as numbers when cell and operand both are, else texts as texts.
compareCondition(c, text, literal, literal2) ==
  IF Number[text] # NaN /\ Number[literal] # NaN
    THEN /\ c.op = "between" => Number[literal2] # NaN
         /\ Compare(c.op, Number[text], Number[literal], Number[literal2])
    ELSE Compare(c.op, Rank[text], Rank[literal], Rank[literal2])

testCondition(c, value, ignoreCase) ==
  LET text     == fold(value, ignoreCase)
      literal  == fold(c.value, ignoreCase)
      literal2 == fold(c.value2, ignoreCase)
      result   ==
        CASE c.op = "eq"        -> text = literal
          [] c.op = "ne"        -> text # literal
          [] c.op = "contains"  -> <<literal, text>> \in Within
          [] c.op = "empty"     -> value = ""
          [] c.op = "not_empty" -> value # ""
          [] OTHER              -> compareCondition(c, text, literal, literal2)
  IN  result # c.not

ColumnAt(name) == CHOOSE i \in DOMAIN Header : Header[i] = name

CellAt(row, position) == IF position \in DOMAIN row THEN row[position] ELSE ""

valueFor(c, row) ==
  IF c.byIndex \/ ~hasHeader THEN CellAt(row, c.index + 1)
  ELSE IF c.column \in ToSet(Header) THEN CellAt(row, ColumnAt(c.column)) ELSE ""

RECURSIVE testGroup(_, _, _)
testGroup(group, row, inherited) ==
  LET ignoreCase == inherited \/ group.ignoreCase
      verdicts == {testCondition(c, valueFor(c, row), ignoreCase) : c \in ToSet(group.conditions)}
                    \cup {testGroup(child, row, ignoreCase) : child \in ToSet(group.groups)}
      met == IF group.match = "all" THEN FALSE \notin verdicts ELSE TRUE \in verdicts
  IN  met # group.not

matchesRow(f, row) ==
  LET pruned == pruneFilter(f)
  IN  filterIsEmpty(pruned) \/ testGroup(pruned, row, FALSE)

(***************************************************************************)
(* engine/rowfilter.go on the wire form: refusal, then evaluation.  An     *)
(* ordering is one of numbers when the operands are, whatever the cell.    *)
(***************************************************************************)
ConditionRefused(c) ==
  IF Field(c, "by_index", FALSE) THEN c.index >= Len(Header)
                                 ELSE Field(c, "column", "") \notin ToSet(Header)

RECURSIVE Refused(_)
Refused(wire) == \/ \E c \in ToSet(wire.conditions) : ConditionRefused(c)
                 \/ \E child \in ToSet(wire.groups) : Refused(child)

compareCell(c, value, folded, folded2) ==
  IF Number[c.value] # NaN /\ (c.op = "between" => Number[c.value2] # NaN)
    THEN /\ Number[value] # NaN
         /\ Compare(c.op, Number[value], Number[c.value], Number[c.value2])
    ELSE Compare(c.op, Rank[value], Rank[folded], Rank[folded2])

matchCondition(c, cell, ignoreCase) ==
  LET value   == fold(cell, ignoreCase)
      operand == fold(c.value, ignoreCase)
      result  ==
        CASE c.op = "eq"        -> value = operand
          [] c.op = "ne"        -> value # operand
          [] c.op = "contains"  -> <<operand, value>> \in Within
          [] c.op = "empty"     -> value = ""
          [] c.op = "not_empty" -> value # ""
          [] OTHER -> compareCell(c, value, operand, fold(c.value2, ignoreCase))
  IN  IF c.not THEN ~result ELSE result

RECURSIVE matchFilterFields(_, _, _)
matchFilterFields(wire, row, inherited) ==
  LET ignoreCase == inherited \/ wire.ignore_case
      Cell(c) == CellAt(row, IF Field(c, "by_index", FALSE) THEN c.index + 1
                                                            ELSE ColumnAt(c.column))
      Holds(i) == matchCondition(wire.conditions[i], Cell(wire.conditions[i]), ignoreCase)
      Passes(i) == matchFilterFields(wire.groups[i], row, ignoreCase)
      all == /\ \A i \in DOMAIN wire.conditions : Holds(i)
             /\ \A i \in DOMAIN wire.groups : Passes(i)
      any == \/ \E i \in DOMAIN wire.conditions : Holds(i)
             \/ \E i \in DOMAIN wire.groups : Passes(i)
      result == IF wire.match = "all" THEN all ELSE any
  IN  IF wire.not THEN ~result ELSE result

(***************************************************************************)
(* The builder.  An index control gives an index and no name, a column     *)
(* control a name and no index; which of the two is on the page was        *)
(* decided when the builder was rendered.                                  *)
(***************************************************************************)
readFilterCondition(c) ==
  IF rendered THEN [c EXCEPT !.byIndex = FALSE, !.index = 0]
              ELSE [c EXCEPT !.byIndex = TRUE, !.column = ""]

RECURSIVE readFilterGroup(_)
readFilterGroup(group) ==
  [group EXCEPT
     !.conditions = [i \in DOMAIN @ |-> readFilterCondition(@[i])],
     !.groups     = [i \in DOMAIN @ |-> readFilterGroup(@[i])]]

Init == /\ filter = newGroup /\ hasHeader \in BOOLEAN
        /\ rendered = hasHeader /\ edits = 0

Edit == edits < MaxEdits /\ edits' = edits + 1

\* The group at a path: <<>> is the root, <<i>> its i-th group.
Paths == {<<>>} \cup {<<i>> : i \in DOMAIN filter.groups}

At(root, path) == IF path = <<>> THEN root ELSE root.groups[path[1]]

Put(root, path, group) ==
  IF path = <<>> THEN group ELSE [root EXCEPT !.groups[path[1]] = group]

ConditionCount ==
  LET Count(path) == Len(At(filter, path).conditions)
  IN  FoldSet(LAMBDA path, sum : sum + Count(path), 0, Paths)

\* onFilterBuilderClick: the tree is read, changed and rendered anew.
AddCondition(path) ==
  LET read == readFilterGroup(filter)
      group == At(read, path)
  IN  /\ Edit /\ ConditionCount < MaxConditions
      /\ filter' = Put(read, path, [group EXCEPT !.conditions = Append(@, newCondition)])
      /\ rendered' = hasHeader
      /\ UNCHANGED hasHeader

AddGroup ==
  /\ Edit /\ Len(filter.groups) < MaxGroups
  /\ filter' = [readFilterGroup(filter) EXCEPT !.groups = Append(@, newGroup)]
  /\ rendered' = hasHeader
  /\ UNCHANGED hasHeader

RemoveItem(path) ==
  LET read == readFilterGroup(filter)
      group == At(read, path)
  IN  /\ Edit
      /\ \/ \E i \in DOMAIN group.conditions :
              filter' = Put(read, path, [group EXCEPT !.conditions = RemoveAt(@, i)])
         \/ \E i \in DOMAIN group.groups :
              filter' = Put(read, path, [group EXCEPT !.groups = RemoveAt(@, i)])
      /\ rendered' = hasHeader
      /\ UNCHANGED hasHeader

\* syncFilterState: a control changed, the tree is read from all of them.
TypeCondition(path) ==
  /\ Edit
  /\ \E i \in DOMAIN At(filter, path).conditions, typed \in Typed :
       LET group == At(filter, path)
       IN  filter' = readFilterGroup(Put(filter, path, [group EXCEPT !.conditions[i] = typed]))
  /\ UNCHANGED <<hasHeader, rendered>>

SetGroup(path) ==
  /\ Edit
  /\ \E match \in {"all", "any"}, ignoreCase, not \in BOOLEAN :
       LET group == At(filter, path)
       IN  filter' = readFilterGroup(Put(filter, path,
             [group EXCEPT !.match = match, !.ignoreCase = ignoreCase, !.not = not]))
  /\ UNCHANGED <<hasHeader, rendered>>

\* The header checkbox leaves the builder as it is.
ToggleHeader ==
  /\ Edit /\ hasHeader' = ~hasHeader
  /\ UNCHANGED <<filter, rendered>>

Next == \/ \E path \in Paths : \/ AddCondition(path) \/ RemoveItem(path)
                               \/ TypeCondition(path) \/ SetGroup(path)
        \/ AddGroup \/ ToggleHeader

Spec == Init /\ [][Next]_vars

(***************************************************************************)
(* Properties.                                                             *)
(***************************************************************************)
RECURSIVE Leaves(_)
Leaves(group) == ToSet(group.conditions)
                   \cup UNION {Leaves(child) : child \in ToSet(group.groups)}

\* Cell and operands are all numbers or all not.
Comparable(c, row) ==
  c.op \in Ordering =>
    \A text \in {c.value} \cup (IF c.op = "between" THEN {c.value2} ELSE {}) :
      (Number[text] = NaN) = (Number[valueFor(c, row)] = NaN)

\* For every filter the builder can reach, the page's evaluation of a row and
\* the engine's evaluation of the compiled filter agree (rowfilter.js:308:
\* "It mirrors the engine, including AND/OR short-circuiting and whole-group
\* negation").  It takes orderings of numbers with numbers and of texts with
\* texts: where the kinds differ the page compares texts and the engine lets
\* no row pass.
MirrorsEngine ==
  \A row \in Rows :
    (/\ ~Refused(compileFilter(filter))
     /\ \A c \in Leaves(pruneFilter(filter)) : Comparable(c, row))
      => (matchesRow(filter, row)
            <=> filterIsEmpty(pruneFilter(filter))
                  \/ matchFilterFields(compileFilter(filter), row, FALSE))

RECURSIVE FoldsCase(_)
FoldsCase(group) == group.ignoreCase \/ \E child \in ToSet(group.groups) : FoldsCase(child)

\* A filter on named columns comes back from a saved project as it was: its
\* structure, negations and operands.  A filter that ignores case does not, and
\* one on positions is lost altogether, for the page reads its own field names
\* in what the engine wrote with others.
NamedFilterSurvives ==
  hasHeader /\ ~FoldsCase(filter) /\ ~Refused(compileFilter(filter))
    => compileFilter(normalizeFilter(compileFilter(filter))) = compileFilter(filter)

\* A filter says the same in the page, in the engine and in the project it is saved
\* in (app.js:5028-5100, rowfilter.js:49-344, rowfilter.go).
FilterMeansTheSame == MirrorsEngine /\ NamedFilterSurvives
=============================================================================
