--------------------------- MODULE ResultViewsProofs ---------------------------
(***************************************************************************)
(* Proofs about the views of a result, for all values of their constants.  *)
(*                                                                         *)
(* A behaviour of ResultViews is one of each view's specification, since a *)
(* step is one view's and the others rest.  So each view has an inductive  *)
(* invariant of its own.                                                   *)
(***************************************************************************)
EXTENDS ResultViews, Integers, FiniteSetTheorems, SequenceTheorems, WellFoundedInduction, TLAPS

\* A step is one view's, and the others rest.
LEMMA ViewsBehave ==
  ViewsSpec =>
    /\ Render!Init /\ [][Render!Next]_(Render!vars)
    /\ Context!Init /\ [][Context!Next]_(Context!vars)
    /\ Continuous!Init /\ [][Continuous!Next]_(Continuous!vars)
    /\ Folder!Init /\ [][Folder!Next]_(Folder!vars)
    /\ Search!Init /\ [][Search!Next]_(Search!vars)
<1>1. ViewsInit => Render!Init /\ Context!Init /\ Continuous!Init /\ Folder!Init /\ Search!Init
  BY DEF ViewsInit
<1>2. [ViewsNext]_viewVars =>
        /\ Render!Next \/ UNCHANGED renderVars
        /\ Context!Next \/ UNCHANGED contextVars
        /\ Continuous!Next \/ UNCHANGED continuousVars
        /\ Folder!Next \/ UNCHANGED folderVars
        /\ Search!Next \/ UNCHANGED searchVars
  BY DEF ViewsNext, RenderStep, ContextStep, ContinuousStep, FolderStep, SearchStep, viewVars
<1>3. /\ UNCHANGED renderVars => UNCHANGED Render!vars
      /\ UNCHANGED contextVars => UNCHANGED Context!vars
      /\ UNCHANGED continuousVars => UNCHANGED Continuous!vars
      /\ UNCHANGED folderVars => UNCHANGED Folder!vars
      /\ UNCHANGED searchVars => UNCHANGED Search!vars
  BY DEF renderVars, Render!vars, contextVars, Context!vars, continuousVars, Continuous!vars, folderVars, Folder!vars,
         searchVars, Search!vars
<1>4. [ViewsNext]_viewVars =>
        /\ [Render!Next]_(Render!vars)
        /\ [Context!Next]_(Context!vars)
        /\ [Continuous!Next]_(Continuous!vars)
        /\ [Folder!Next]_(Folder!vars)
        /\ [Search!Next]_(Search!vars)
  BY <1>2, <1>3
<1> QED BY <1>1, <1>4, PTL DEF ViewsSpec

--------------------------------------------------------------------------------
(* Sequences. *)

\* Induction, as a fact about a set.
LEMMA Induction ==
  ASSUME NEW S, 0 \in S, \A n \in Nat : n \in S => n + 1 \in S
  PROVE  Nat \subseteq S
<1> DEFINE T == {n \in Nat : n \notin S}
<1>1. SUFFICES ASSUME T # {} PROVE FALSE
  OBVIOUS
<1>2. PICK x \in T : \A y \in T : <<y, x>> \notin OpToRel(<, Nat)
  <2> HIDE DEF T
  <2>1. T \subseteq Nat
    BY DEF T
  <2> QED BY <1>1, <2>1, NatLessThanWellFounded, WFMin
<1>3. x # 0 /\ x - 1 \in Nat /\ x - 1 \in T /\ x - 1 < x
  OBVIOUS
<1>4. <<x - 1, x>> \in OpToRel(<, Nat)
  BY <1>3 DEF OpToRel
<1> QED BY <1>2, <1>3, <1>4

\* The beginning of any list.
LEMMA BeginningIsSeq ==
  ASSUME NEW S, NEW s \in Seq(S), NEW n \in 0 .. Len(s)
  PROVE  /\ SubSeq(s, 1, n) \in Seq(S) /\ Len(SubSeq(s, 1, n)) = n
         /\ \A k \in 1 .. n : SubSeq(s, 1, n)[k] = s[k]
OBVIOUS

\* What FlattenSeq folds with: g(i) is the first i lists of ss together.
Joining(ss, g, m) == g = [i \in 1 .. m |-> IF i = 1 THEN ss[i] ELSE g[i - 1] \o ss[i]]

LEMMA JoiningExists ==
  ASSUME NEW S, NEW ss \in Seq(Seq(S)), NEW m \in Nat, m + 1 <= Len(ss),
         NEW g \in [1 .. m -> Seq(S)], Joining(ss, g, m)
  PROVE  \E h \in [1 .. m + 1 -> Seq(S)] : Joining(ss, h, m + 1)
<1> DEFINE h == [i \in 1 .. m + 1 |->
                   IF i = 1 THEN ss[i] ELSE IF i <= m THEN g[i] ELSE g[m] \o ss[i]]
<1>1. \A i \in 1 .. m + 1 : ss[i] \in Seq(S)
  OBVIOUS
<1>2. \A i \in 1 .. m : g[i] = IF i = 1 THEN ss[i] ELSE g[i - 1] \o ss[i]
  BY DEF Joining
<1>3. \A i \in 1 .. m + 1 : h[i] \in Seq(S)
  <2> SUFFICES ASSUME NEW i \in 1 .. m + 1 PROVE h[i] \in Seq(S)
    OBVIOUS
  <2>1. CASE i = 1
    BY <2>1, <1>1
  <2>2. CASE i # 1 /\ i <= m
    BY <2>2
  <2>3. CASE i # 1 /\ ~(i <= m)
    <3>1. m \in 1 .. m /\ i = m + 1
      BY <2>3
    <3>2. g[m] \in Seq(S) /\ ss[i] \in Seq(S)
      BY <3>1, <1>1
    <3> QED BY <2>3, <3>2, ConcatProperties
  <2> QED BY <2>1, <2>2, <2>3
<1>4. \A i \in 1 .. m : h[i] = g[i]
  <2> SUFFICES ASSUME NEW i \in 1 .. m PROVE h[i] = g[i]
    OBVIOUS
  <2>1. CASE i = 1
    <3>1. 1 \in 1 .. m /\ 1 \in 1 .. m + 1
      BY <2>1
    <3>2. g[1] = ss[1]
      BY <3>1, <1>2
    <3> QED BY <2>1, <3>1, <3>2
  <2> QED BY <2>1
<1>5. m >= 1 => h[m + 1] = g[m] \o ss[m + 1]
  OBVIOUS
<1>6. h[1] = ss[1] /\ DOMAIN h = 1 .. m + 1
  OBVIOUS
<1>7. h \in [1 .. m + 1 -> Seq(S)]
  BY <1>3
<1> HIDE DEF h
<1>8. \A i \in 1 .. m + 1 : h[i] = IF i = 1 THEN ss[i] ELSE h[i - 1] \o ss[i]
  <2> SUFFICES ASSUME NEW i \in 1 .. m + 1, i # 1 PROVE h[i] = h[i - 1] \o ss[i]
    BY <1>6
  <2>1. i - 1 \in 1 .. m /\ h[i - 1] = g[i - 1]
    BY <1>4
  <2>2. CASE i <= m
    <3>1. i \in 1 .. m
      BY <2>2
    <3>2. h[i] = g[i] /\ g[i] = g[i - 1] \o ss[i]
      BY <3>1, <1>2, <1>4
    <3> QED BY <2>1, <3>2
  <2>3. CASE i = m + 1
    <3>1. m >= 1 /\ i - 1 = m
      BY <2>3
    <3> QED BY <2>1, <2>3, <3>1, <1>5
  <2>4. i <= m \/ i = m + 1
    OBVIOUS
  <2> QED BY <2>2, <2>3, <2>4
<1>9. h = [i \in 1 .. m + 1 |-> IF i = 1 THEN ss[i] ELSE h[i - 1] \o ss[i]]
  BY <1>7, <1>8
<1> QED BY <1>7, <1>9 DEF Joining

\* A list of lists, one after the other.
LEMMA FlattenIsSeq ==
  ASSUME NEW S, NEW ss \in Seq(Seq(S))
  PROVE  Search!FlattenSeq(ss) \in Seq(S)
<1> DEFINE Good == {m \in Nat : m <= Len(ss) => \E g \in [1 .. m -> Seq(S)] : Joining(ss, g, m)}
<1>1. 0 \in Good
  <2> DEFINE e == [i \in 1 .. 0 |-> <<>>]
  <2>1. e \in [1 .. 0 -> Seq(S)] /\ Joining(ss, e, 0)
    BY DEF Joining
  <2> QED BY <2>1
<1>2. ASSUME NEW m \in Nat, m \in Good
      PROVE  m + 1 \in Good
  <2>1. CASE m + 1 <= Len(ss)
    <3>1. m <= Len(ss)
      BY <2>1
    <3>2. PICK g \in [1 .. m -> Seq(S)] : Joining(ss, g, m)
      BY <1>2, <3>1
    <3>3. \E h \in [1 .. m + 1 -> Seq(S)] : Joining(ss, h, m + 1)
      BY <2>1, <3>2, JoiningExists
    <3> QED BY <3>3
  <2> QED BY <2>1
<1>3. Nat \subseteq Good
  <2> HIDE DEF Good
  <2> QED BY <1>1, <1>2, Induction
<1>4. CASE Len(ss) = 0
  BY <1>4 DEF Search!FlattenSeq
<1>5. CASE Len(ss) # 0
  <2> DEFINE n == Len(ss)
             flatten == CHOOSE g : Joining(ss, g, n)
  <2>1. n \in Nat /\ n \in 1 .. n /\ n <= n
    BY <1>5
  <2>2. \E g \in [1 .. n -> Seq(S)] : Joining(ss, g, n)
    <3>1. n \in Good
      BY <1>3, <2>1
    <3> QED BY <2>1, <3>1
  <2>3. Joining(ss, flatten, n)
    BY <2>2
  <2> DEFINE Right == {i \in Nat : i \in 1 .. n => flatten[i] \in Seq(S)}
  <2>9. Search!FlattenSeq(ss) = flatten[n]
    BY <1>5 DEF Search!FlattenSeq, Joining
  <2> HIDE DEF flatten
  <2>4. \A i \in 1 .. n : flatten[i] = IF i = 1 THEN ss[i] ELSE flatten[i - 1] \o ss[i]
    BY <2>3 DEF Joining
  <2>5. 0 \in Right
    OBVIOUS
  <2>6. ASSUME NEW i \in Nat, i \in Right PROVE i + 1 \in Right
    <3> SUFFICES ASSUME i + 1 \in 1 .. n PROVE flatten[i + 1] \in Seq(S)
      OBVIOUS
    <3>1. ss[i + 1] \in Seq(S)
      OBVIOUS
    <3>2. CASE i = 0
      BY <3>1, <3>2, <2>4
    <3>3. CASE i # 0
      <4>1. flatten[i] \in Seq(S)
        BY <2>6, <3>3
      <4>2. i + 1 # 1 /\ (i + 1) - 1 = i
        BY <3>3
      <4>3. flatten[i + 1] = flatten[i] \o ss[i + 1]
        BY <2>4, <4>2
      <4> QED BY <3>1, <4>1, <4>3, ConcatProperties
    <3> QED BY <3>2, <3>3
  <2>7. Nat \subseteq Right
    <3> HIDE DEF Right
    <3> QED BY <2>5, <2>6, Induction
  <2>8. flatten[n] \in Seq(S)
    BY <2>1, <2>7
  <2> QED BY <2>8, <2>9
<1> QED BY <1>4, <1>5

--------------------------------------------------------------------------------
(* The search. *)

SearchLines == [kind : {"changed", "unchanged"}, run : Nat, at : Nat, version : Nat]
SearchMarks == [cell : SearchLines, k : Nat]
SearchInputs == Patterns \cup {""}

SearchTypes ==
  /\ input \in SearchInputs
  /\ cells \in Seq(SearchLines)
  /\ searchRuns \in Nat
  /\ searchRun \in [pc : {"idle", "context", "previews"}] \cup
                   [pc : {"pages"}, pages : Seq(Nat \ {0}), left : Nat]
  /\ searchHits \in Seq(SearchMarks)

\* What the search shows is what a search would find now.
SearchedNow ==
  /\ searchHits = Search!matches(cells, input, searchChangedOnly)
  /\ counter = [current |-> searchIndex, total |-> Len(searchHits)]
  /\ searchIndex \in (IF searchHits = <<>> THEN {0} ELSE 1 .. Len(searchHits))

\* An empty pattern has been searched for, or will be.
EmptyFindsNothing ==
  input = "" /\ ~searchTimer =>
    searchHits = <<>> /\ searchIndex = 0 /\ counter = [current |-> 0, total |-> 0]

SearchInv == SearchTypes /\ EmptyFindsNothing /\ Search!HitsAreOfScreen

\* What is found is a list of places in the lines.
LEMMA MatchesType ==
  ASSUME NEW m \in Seq(SearchLines), NEW p \in SearchInputs, NEW only
  PROVE  /\ Search!matches(m, p, only) \in Seq(SearchMarks)
         /\ p = "" => Search!matches(m, p, only) = <<>>
<1> DEFINE found == [i \in DOMAIN m |-> IF Search!searchable(m[i], only)
                                        THEN Search!markMatchesIn(m[i], p) ELSE <<>>]
           all == Search!FlattenSeq(found)
           n == IF Len(all) > MaxHits THEN MaxHits ELSE Len(all)
<1>1. Search!matches(m, p, only) = IF p = "" THEN <<>> ELSE SubSeq(all, 1, n)
  BY DEF Search!matches
<1>2. <<>> \in Seq(SearchMarks)
  OBVIOUS
<1>3. ASSUME p # "" PROVE SubSeq(all, 1, n) \in Seq(SearchMarks)
  <2>1. ASSUME NEW i \in 1 .. Len(m) PROVE found[i] \in Seq(SearchMarks)
    <3>1. m[i] \in SearchLines
      OBVIOUS
    <3> DEFINE F == Finds[p][m[i].kind]
    <3>2. F \in Nat
      BY <1>3, <3>1, SearchAssumption DEF SearchLines, SearchInputs
    <3>3. Search!markMatchesIn(m[i], p) = [k \in 1 .. F |-> [cell |-> m[i], k |-> k]]
      BY DEF Search!markMatchesIn
    <3>4. \A k \in 1 .. F : [cell |-> m[i], k |-> k] \in SearchMarks
      BY <3>1, <3>2 DEF SearchMarks
    <3>5. [k \in 1 .. F |-> [cell |-> m[i], k |-> k]] \in Seq(SearchMarks)
      <4> HIDE DEF F
      <4> QED BY <3>2, <3>4, IsASeq
    <3>6. found[i] = IF Search!searchable(m[i], only) THEN Search!markMatchesIn(m[i], p) ELSE <<>>
      OBVIOUS
    <3> QED BY <1>2, <3>3, <3>5, <3>6
  <2>2. found = [i \in 1 .. Len(m) |-> found[i]]
    OBVIOUS
  <2>3. found \in Seq(Seq(SearchMarks))
    <3> HIDE DEF found
    <3> QED BY <2>1, <2>2, IsASeq
  <2>4. all \in Seq(SearchMarks)
    <3> HIDE DEF found
    <3> QED BY <2>3, FlattenIsSeq
  <2>5. n \in 0 .. Len(all)
    <3> HIDE DEF all
    <3> QED BY <2>4, SearchAssumption
  <2> HIDE DEF all, n
  <2> QED BY <2>4, <2>5, BeginningIsSeq
<1> HIDE DEF all, n
<1> QED BY <1>1, <1>2, <1>3

\* A search is up to date, with the pattern and the option it is for.
LEMMA SearchIsNow ==
  ASSUME NEW m \in Seq(SearchLines), NEW p \in SearchInputs, NEW only,
         Search!runSearch(m, p, only)
  PROVE  /\ searchHits' \in Seq(SearchMarks)
         /\ searchHits' = Search!matches(m, p, only)
         /\ counter' = [current |-> searchIndex', total |-> Len(searchHits')]
         /\ searchIndex' \in (IF searchHits' = <<>> THEN {0} ELSE 1 .. Len(searchHits'))
         /\ p = "" => searchHits' = <<>> /\ searchIndex' = 0
                      /\ counter' = [current |-> 0, total |-> 0]
<1>1. searchHits' = Search!matches(m, p, only) /\ searchHits' \in Seq(SearchMarks)
  BY MatchesType DEF Search!runSearch
<1>2. searchIndex' = IF searchHits' = <<>> THEN 0 ELSE 1
  BY DEF Search!runSearch
<1>3. counter' = [current |-> searchIndex', total |-> Len(searchHits')]
  BY DEF Search!runSearch, Search!setSearchCounter
<1>4. searchHits' # <<>> => 1 \in 1 .. Len(searchHits')
  BY <1>1
<1>5. ASSUME p = ""
      PROVE  /\ searchHits' = <<>> /\ searchIndex' = 0
             /\ counter' = [current |-> 0, total |-> 0]
  <2>1. searchHits' = <<>>
    BY <1>1, <1>5, MatchesType
  <2>2. Len(<<>>) = 0
    OBVIOUS
  <2> QED BY <1>2, <1>3, <2>1, <2>2
<1> QED BY <1>1, <1>2, <1>3, <1>4, <1>5

\* The lines of the hunks are lines of the screen.
LEMMA HunksType ==
  ASSUME SearchTypes
  PROVE  Search!Hunks \in Seq(SearchLines) /\ Len(Search!Hunks) <= Len(cells)
<1> DEFINE K == {k \in DOMAIN cells : cells[k].kind = "changed"}
           n == Cardinality(K)
<1>1. DOMAIN cells = 1 .. Len(cells) /\ Len(cells) \in Nat /\ cells \in Seq(SearchLines)
  BY DEF SearchTypes
<1>2. IsFiniteSet(1 .. Len(cells)) /\ Cardinality(1 .. Len(cells)) = Len(cells)
  BY <1>1, FS_Interval
<1>3. K \subseteq 1 .. Len(cells)
  BY <1>1
<1>4. n \in 0 .. Len(cells)
  <2> HIDE DEF K
  <2>1. IsFiniteSet(K) /\ n <= Len(cells)
    BY <1>2, <1>3, FS_Subset
  <2>2. n \in Nat
    BY <2>1, FS_CardinalityType
  <2> QED BY <2>1, <2>2, <1>1
<1>5. SubSeq(cells, 1, n) \in Seq(SearchLines) /\ Len(SubSeq(cells, 1, n)) = n
  <2> HIDE DEF n
  <2> QED BY <1>1, <1>4, BeginningIsSeq
<1>6. Search!Hunks = SubSeq(cells, 1, n)
  BY DEF Search!Hunks, Search!Cardinality, Cardinality
<1> HIDE DEF n
<1> QED BY <1>4, <1>5, <1>6

\* A region drawn anew.
LEMMA RedrawnType ==
  ASSUME SearchTypes, NEW more \in Nat
  PROVE  Search!Redrawn(more) \in Seq(SearchLines)
<1> DEFINE h == Search!Hunks
           n == Len(cells) - Len(h) + more
           v == IF Len(cells) = Len(h) THEN 0 ELSE Search!Last(cells).version + 1
           u == [k \in 1 .. n |-> Search!unchanged(k, v)]
<1>1. h \in Seq(SearchLines) /\ Len(h) <= Len(cells) /\ cells \in Seq(SearchLines)
  BY HunksType DEF SearchTypes
<1>2. n \in Nat
  <2> HIDE DEF h
  <2> QED BY <1>1
<1>3. v \in Nat
  <2> HIDE DEF h
  <2>1. Len(cells) # Len(h) => cells[Len(cells)] \in SearchLines
    BY <1>1
  <2> QED BY <2>1 DEF Search!Last, SearchLines
<1>4. u \in Seq(SearchLines)
  <2> HIDE DEF n, v
  <2>1. \A k \in 1 .. n : Search!unchanged(k, v) \in SearchLines
    BY <1>2, <1>3 DEF Search!unchanged, SearchLines, SearchTypes
  <2> QED BY <1>2, <2>1
<1>5. Search!Redrawn(more) = h \o u
  BY DEF Search!Redrawn
<1> HIDE DEF h, u
<1> QED BY <1>1, <1>4, <1>5, ConcatProperties

\* Lines painted below the hunks.
LEMMA PaintedType ==
  ASSUME SearchTypes, NEW n \in Nat
  PROVE  cells \o [k \in 1 .. n |-> Search!changed(Len(Search!Hunks) + k)] \in Seq(SearchLines)
<1> DEFINE h == Search!Hunks
           u == [k \in 1 .. n |-> Search!changed(Len(h) + k)]
<1>1. Len(h) \in Nat /\ cells \in Seq(SearchLines)
  <2>1. h \in Seq(SearchLines) /\ cells \in Seq(SearchLines)
    BY HunksType DEF SearchTypes
  <2> HIDE DEF h
  <2> QED BY <2>1
<1>2. u \in Seq(SearchLines)
  <2> HIDE DEF h
  <2>1. \A k \in 1 .. n : Search!changed(Len(h) + k) \in SearchLines
    BY <1>1 DEF Search!changed, SearchLines, SearchTypes
  <2> QED BY <2>1
<1>3. cells \o u \in Seq(SearchLines)
  <2> HIDE DEF u
  <2> QED BY <1>1, <1>2, ConcatProperties
<1> QED BY <1>3

LEMMA SearchInit == Search!Init => SearchInv
<1> SUFFICES ASSUME Search!Init PROVE SearchInv
  OBVIOUS
<1>1. /\ input = "" /\ searchHits = <<>> /\ searchIndex = 0
      /\ counter = [current |-> 0, total |-> 0]
      /\ cells = <<>> /\ searchRun = [pc |-> "idle"] /\ searchRuns = 0 /\ ~searchOpen
  BY DEF Search!Init, Search!idle
<1>2. SearchTypes
  <2>1. <<>> \in Seq(SearchMarks) /\ <<>> \in Seq(SearchLines)
    OBVIOUS
  <2>2. searchRun \in [pc : {"idle", "context", "previews"}]
    BY <1>1
  <2> QED BY <1>1, <2>1, <2>2 DEF SearchTypes, SearchInputs
<1>3. EmptyFindsNothing
  BY <1>1 DEF EmptyFindsNothing
<1>4. Search!HitsAreOfScreen
  BY <1>1 DEF Search!HitsAreOfScreen
<1> QED BY <1>2, <1>3, <1>4 DEF SearchInv

\* After a search everything holds.
LEMMA AfterSearch ==
  ASSUME cells' \in Seq(SearchLines), input' \in SearchInputs, searchRuns' \in Nat,
         searchRun' \in [pc : {"idle", "context", "previews"}] \cup
                        [pc : {"pages"}, pages : Seq(Nat \ {0}), left : Nat],
         Search!runSearch(cells', input', searchChangedOnly')
  PROVE  SearchInv'
<1>1. /\ searchHits' \in Seq(SearchMarks)
      /\ searchHits' = Search!matches(cells', input', searchChangedOnly')
      /\ counter' = [current |-> searchIndex', total |-> Len(searchHits')]
      /\ searchIndex' \in (IF searchHits' = <<>> THEN {0} ELSE 1 .. Len(searchHits'))
      /\ input' = "" => searchHits' = <<>> /\ searchIndex' = 0
                         /\ counter' = [current |-> 0, total |-> 0]
  <2> DEFINE m == cells'
             p == input'
             only == searchChangedOnly'
  <2>1. m \in Seq(SearchLines) /\ p \in SearchInputs /\ Search!runSearch(m, p, only)
    OBVIOUS
  <2> HIDE DEF m, p, only
  <2>2. /\ searchHits' \in Seq(SearchMarks)
        /\ searchHits' = Search!matches(m, p, only)
        /\ counter' = [current |-> searchIndex', total |-> Len(searchHits')]
        /\ searchIndex' \in (IF searchHits' = <<>> THEN {0} ELSE 1 .. Len(searchHits'))
        /\ p = "" => searchHits' = <<>> /\ searchIndex' = 0
                     /\ counter' = [current |-> 0, total |-> 0]
    BY <2>1, SearchIsNow
  <2> QED BY <2>2 DEF m, p, only
<1>2. SearchTypes'
  BY <1>1 DEF SearchTypes
<1>3. EmptyFindsNothing'
  BY <1>1 DEF EmptyFindsNothing
<1>4. Search!HitsAreOfScreen'
  BY <1>1 DEF Search!HitsAreOfScreen
<1> QED BY <1>2, <1>3, <1>4 DEF SearchInv

\* Lines are replaced, and searched if the search is open.
LEMMA AfterSearchAgain ==
  ASSUME SearchInv, cells' \in Seq(SearchLines), Search!SearchAgain(cells'),
         searchRun' \in [pc : {"idle", "context", "previews"}] \cup
                        [pc : {"pages"}, pages : Seq(Nat \ {0}), left : Nat],
         UNCHANGED <<searchOpen, input, searchChangedOnly, searchTimer, searchRuns>>
  PROVE  SearchInv'
<1>1. input' \in SearchInputs /\ searchRuns' \in Nat
  BY DEF SearchInv, SearchTypes
<1>2. CASE searchOpen
  <2>1. Search!runSearch(cells', input', searchChangedOnly')
    BY <1>2 DEF Search!SearchAgain
  <2> QED BY <1>1, <2>1, AfterSearch
<1>3. CASE ~searchOpen
  <2>1. UNCHANGED <<searchHits, searchIndex, counter>>
    BY <1>3 DEF Search!SearchAgain, Search!hits
  <2>2. SearchTypes'
    BY <1>1, <2>1 DEF SearchInv, SearchTypes
  <2>3. EmptyFindsNothing'
    BY <2>1 DEF SearchInv, EmptyFindsNothing
  <2>4. Search!HitsAreOfScreen'
    BY <1>3 DEF Search!HitsAreOfScreen
  <2> QED BY <2>2, <2>3, <2>4 DEF SearchInv
<1> QED BY <1>2, <1>3

LEMMA SearchNext == SearchInv /\ [Search!Next]_(Search!vars) => SearchInv'
<1> SUFFICES ASSUME SearchInv, [Search!Next]_(Search!vars) PROVE SearchInv'
  OBVIOUS
<1> DEFINE Runs == [pc : {"idle", "context", "previews"}] \cup
                   [pc : {"pages"}, pages : Seq(Nat \ {0}), left : Nat]
<1>0. /\ input \in SearchInputs /\ cells \in Seq(SearchLines) /\ searchRuns \in Nat
      /\ searchRun \in Runs /\ searchHits \in Seq(SearchMarks)
      /\ SearchTypes /\ EmptyFindsNothing /\ Search!HitsAreOfScreen
  BY DEF SearchInv, SearchTypes
<1>e. <<>> \in Seq(SearchMarks) /\ <<>> \in Seq(SearchLines)
  OBVIOUS
<1>1. CASE Search!openSearch
  <2>0. UNCHANGED <<input, searchTimer, cells, searchRun, searchRuns>>
    BY <1>1 DEF Search!openSearch, Search!page
  <2>1. CASE input # ""
    <3>1. Search!runSearch(cells', input', searchChangedOnly')
      BY <1>1, <2>1 DEF Search!openSearch, Search!page
    <3> QED BY <1>0, <2>0, <3>1, AfterSearch
  <2>2. CASE input = ""
    <3>1. UNCHANGED <<searchHits, searchIndex, counter, searchChangedOnly>>
      BY <1>1, <2>2 DEF Search!openSearch, Search!hits
    <3>2. SearchTypes' /\ EmptyFindsNothing'
      BY <1>0, <2>0, <3>1 DEF SearchTypes, EmptyFindsNothing
    <3>3. Search!matches(cells', input', searchChangedOnly') = <<>>
      <4>1. Search!matches(cells, input, searchChangedOnly) = <<>>
        BY <1>0, <2>2, MatchesType
      <4> QED BY <4>1, <3>1, <2>0
    <3>4. Len(<<>>) = 0
      OBVIOUS
    <3>5. Search!HitsAreOfScreen'
      BY <2>0, <3>1, <3>2, <3>3, <3>4, <2>2 DEF EmptyFindsNothing, Search!HitsAreOfScreen
    <3> QED BY <3>2, <3>5 DEF SearchInv
  <2> QED BY <2>1, <2>2
<1>2. CASE Search!closeSearch
  <2>1. /\ ~searchOpen' /\ searchHits' = <<>> /\ searchIndex' = 0
        /\ counter' = [current |-> 0, total |-> 0]
        /\ UNCHANGED <<input, cells, searchRun, searchRuns>>
    BY <1>2 DEF Search!closeSearch, Search!clearSearchHits, Search!setSearchCounter, Search!page
  <2> QED BY <1>0, <1>e, <2>1 DEF SearchInv, SearchTypes, EmptyFindsNothing, Search!HitsAreOfScreen
<1>3. CASE Search!Timer
  <2>1. Search!runSearch(cells', input', searchChangedOnly') /\ cells' = cells
        /\ UNCHANGED <<input, searchRun, searchRuns>>
    BY <1>3 DEF Search!Timer, Search!page
  <2> QED BY <1>0, <2>1, AfterSearch
<1>4. CASE Search!option
  <2>1. Search!runSearch(cells', input', searchChangedOnly') /\ cells' = cells
        /\ UNCHANGED <<input, searchRun, searchRuns>>
    BY <1>4 DEF Search!option, Search!page
  <2> QED BY <1>0, <2>1, AfterSearch
<1>5. CASE \E pattern \in Patterns : Search!type(pattern)
  <2>1. /\ input' \in Patterns /\ searchTimer'
        /\ UNCHANGED <<searchHits, cells, searchRun, searchRuns>>
    BY <1>5 DEF Search!type, Search!hits, Search!page
  <2> QED BY <1>0, <2>1
        DEF SearchInv, SearchTypes, SearchInputs, EmptyFindsNothing, Search!HitsAreOfScreen
<1>6. CASE \E delta \in {-1, 1} : Search!stepSearch(delta)
  <2>1. PICK delta \in {-1, 1} : Search!stepSearch(delta)
    BY <1>6
  <2> DEFINE n == Len(searchHits)
             i == searchIndex
             j == ((i - 1 + n + delta) % n) + 1
  <2>2. /\ searchHits # <<>> /\ UNCHANGED <<searchHits, searchOpen, input, searchChangedOnly>>
        /\ UNCHANGED <<searchTimer, cells, searchRun, searchRuns, gap, unsearched>>
        /\ searchIndex' = j /\ counter' = [current |-> searchIndex', total |-> n]
    BY <2>1 DEF Search!stepSearch, Search!setSearchCounter, Search!search, Search!page
  <2>3. n \in Nat \ {0}
    BY <1>0, <2>2
  <2>4. i \in 1 .. n => j \in 1 .. n
    <3> HIDE DEF n, i
    <3> QED BY <2>3
  <2>5. SearchTypes' /\ EmptyFindsNothing'
    BY <1>0, <2>2 DEF SearchTypes, EmptyFindsNothing
  <2>6. Search!HitsAreOfScreen'
    <3> HIDE DEF j
    <3> QED BY <1>0, <2>2, <2>4 DEF Search!HitsAreOfScreen
  <2> QED BY <2>5, <2>6 DEF SearchInv
<1>7. CASE Search!Compare
  <2>1. PICK pages \in SearchPages : searchRun' = [pc |-> "pages", pages |-> pages, left |-> 0]
    BY <1>7 DEF Search!Compare
  <2>2. /\ cells' = <<>> /\ searchRuns' = searchRuns + 1
        /\ UNCHANGED <<searchHits, searchIndex, counter, input, searchTimer>>
    BY <1>7 DEF Search!Compare, Search!hits, Search!search
  <2>3. pages \in Seq(Nat \ {0})
    BY SearchAssumption
  <2>4. searchRun' \in Runs /\ searchRun' # Search!idle
    BY <2>1, <2>3 DEF Search!idle
  <2>5. SearchTypes'
    <3> HIDE DEF Runs
    <3> QED BY <1>0, <1>e, <2>2, <2>4 DEF SearchTypes, Runs
  <2>6. EmptyFindsNothing' /\ Search!HitsAreOfScreen'
    <3> HIDE DEF Runs
    <3> QED BY <1>0, <2>2, <2>4 DEF EmptyFindsNothing, Search!HitsAreOfScreen
  <2> QED BY <2>5, <2>6 DEF SearchInv
<1>8. CASE Search!Page
  <2> DEFINE pages == searchRun.pages
  <2>1. searchRun.pc = "pages" /\ pages # <<>>
    BY <1>8 DEF Search!Page
  <2>2. searchRun \in [pc : {"pages"}, pages : Seq(Nat \ {0}), left : Nat]
    BY <1>0, <2>1
  <2>3. Head(pages) \in Nat \ {0} /\ Tail(pages) \in Seq(Nat \ {0})
    <3>1. pages \in Seq(Nat \ {0})
      BY <2>2
    <3> HIDE DEF pages
    <3> QED BY <2>1, <3>1
  <2>4. PICK n \in 1 .. Head(pages) :
          /\ cells' = cells \o [k \in 1 .. n |-> Search!changed(Len(Search!Hunks) + k)]
          /\ searchRun' = [searchRun EXCEPT !.pages = Tail(@), !.left = Head(pages) - n]
    BY <1>8 DEF Search!Page
  <2>5. n \in Nat /\ Head(pages) - n \in Nat
    BY <2>3
  <2>6. cells' \in Seq(SearchLines)
    BY <1>0, <2>4, <2>5, PaintedType
  <2>7. searchRun' = [pc |-> "pages", pages |-> Tail(pages), left |-> Head(pages) - n]
    BY <2>2, <2>4
  <2>8. searchRun' \in Runs /\ searchRun' # Search!idle
    <3> HIDE DEF pages
    <3> QED BY <2>3, <2>5, <2>7 DEF Search!idle
  <2>9. searchHits' = <<>> /\ searchIndex' = 0
        /\ UNCHANGED <<counter, input, searchTimer, searchRuns>>
    BY <1>8 DEF Search!Page, Search!clearSearchHits, Search!search
  <2> QED BY <1>0, <1>e, <2>6, <2>8, <2>9
        DEF SearchInv, SearchTypes, EmptyFindsNothing, Search!HitsAreOfScreen
<1>9. CASE Search!Resume
  <2>1. searchRun.pc = "pages"
    BY <1>9 DEF Search!Resume
  <2>2. searchRun \in [pc : {"pages"}, pages : Seq(Nat \ {0}), left : Nat]
    BY <1>0, <2>1
  <2> DEFINE left == searchRun.left
  <2>3. left \in Nat
    BY <2>2
  <2>4. PICK n \in 1 .. left :
          /\ cells' = cells \o [k \in 1 .. n |-> Search!changed(Len(Search!Hunks) + k)]
          /\ searchRun' = [searchRun EXCEPT !.left = left - n]
    BY <1>9 DEF Search!Resume, Search!Slice
  <2>5. n \in Nat /\ left - n \in Nat
    <3> HIDE DEF left
    <3> QED BY <2>3
  <2>6. cells' \in Seq(SearchLines)
    BY <1>0, <2>4, <2>5, PaintedType
  <2>7. searchRun' = [pc |-> "pages", pages |-> searchRun.pages, left |-> left - n]
    BY <2>2, <2>4
  <2>8. searchRun' \in Runs /\ searchRun' # Search!idle
    <3> HIDE DEF left
    <3> QED BY <2>2, <2>5, <2>7 DEF Search!idle
  <2>9. UNCHANGED <<searchHits, searchIndex, counter, input, searchTimer, searchRuns>>
    BY <1>9 DEF Search!Resume, Search!hits, Search!search
  <2> QED BY <1>0, <2>6, <2>8, <2>9
        DEF SearchInv, SearchTypes, EmptyFindsNothing, Search!HitsAreOfScreen
<1>10. CASE Search!StreamEnds
  <2>1. /\ UNCHANGED <<searchHits, searchIndex, counter, input, searchTimer, searchRuns, cells>>
        /\ \/ searchRun' = [pc |-> "idle"] /\ unsearched'
           \/ searchRun' = [pc |-> "context"]
    BY <1>10 DEF Search!StreamEnds, Search!hits, Search!search, Search!idle
  <2>2. searchRun' \in Runs /\ (searchRun' # Search!idle \/ unsearched')
    BY <2>1 DEF Search!idle
  <2> QED BY <1>0, <2>1, <2>2
        DEF SearchInv, SearchTypes, EmptyFindsNothing, Search!HitsAreOfScreen
<1>11. CASE Search!Fails
  <2>1. /\ UNCHANGED <<searchHits, searchIndex, counter, input, searchTimer, searchRuns, cells>>
        /\ searchRun' = [pc |-> "idle"] /\ unsearched'
    BY <1>11 DEF Search!Fails, Search!hits, Search!search, Search!idle
  <2>2. searchRun' \in Runs
    BY <2>1
  <2> QED BY <1>0, <2>1, <2>2
        DEF SearchInv, SearchTypes, EmptyFindsNothing, Search!HitsAreOfScreen
<1>12. CASE Search!ContextLines
  <2>1. cells' \in Seq(SearchLines)
    BY <1>0, <1>12, RedrawnType DEF Search!ContextLines
  <2>2. searchRun' \in Runs
    BY <1>12 DEF Search!ContextLines
  <2>3. Search!SearchAgain(cells')
        /\ UNCHANGED <<searchOpen, input, searchChangedOnly, searchTimer, searchRuns>>
    BY <1>12 DEF Search!ContextLines, Search!search
  <2> QED BY <2>1, <2>2, <2>3, AfterSearchAgain
<1>13. CASE Search!Finish
  <2>1. cells' \in Seq(SearchLines)
    BY <1>0, <1>13, RedrawnType DEF Search!Finish
  <2>2. searchRun' \in Runs
    BY <1>13 DEF Search!Finish, Search!idle
  <2>3. Search!SearchAgain(cells')
        /\ UNCHANGED <<searchOpen, input, searchChangedOnly, searchTimer, searchRuns>>
    BY <1>13 DEF Search!Finish, Search!search
  <2> QED BY <2>1, <2>2, <2>3, AfterSearchAgain
<1>14. CASE Search!Expand
  <2>1. /\ UNCHANGED <<searchHits, searchIndex, counter, input, searchTimer, searchRuns, cells>>
        /\ UNCHANGED searchRun /\ gap' # "none"
    BY <1>14 DEF Search!Expand, Search!hits, Search!search
  <2> QED BY <1>0, <2>1 DEF SearchInv, SearchTypes, EmptyFindsNothing, Search!HitsAreOfScreen
<1>15. CASE Search!ExpandedPreviews
  <2>1. cells' \in Seq(SearchLines)
    BY <1>0, <1>15, RedrawnType DEF Search!ExpandedPreviews
  <2>2. /\ UNCHANGED <<searchHits, searchIndex, counter, input, searchTimer, searchRuns>>
        /\ UNCHANGED searchRun /\ unsearched'
    BY <1>15 DEF Search!ExpandedPreviews, Search!hits, Search!search
  <2> QED BY <1>0, <2>1, <2>2 DEF SearchInv, SearchTypes, EmptyFindsNothing, Search!HitsAreOfScreen
<1>16. CASE \E previews \in BOOLEAN : Search!ExpandedLines(previews)
  <2>1. cells' \in Seq(SearchLines)
    BY <1>0, <1>16, RedrawnType DEF Search!ExpandedLines
  <2>2. /\ Search!SearchAgain(cells') /\ UNCHANGED searchRun
        /\ UNCHANGED <<searchOpen, input, searchChangedOnly, searchTimer, searchRuns>>
    BY <1>16 DEF Search!ExpandedLines, Search!search
  <2> QED BY <1>0, <2>1, <2>2, AfterSearchAgain
<1>17. CASE UNCHANGED Search!vars
  <2>1. UNCHANGED <<searchOpen, input, searchChangedOnly, searchTimer, searchHits, searchIndex,
                    counter, cells, searchRun, searchRuns, gap, unsearched>>
    BY <1>17 DEF Search!vars
  <2> QED BY <1>0, <2>1 DEF SearchInv, SearchTypes, EmptyFindsNothing, Search!HitsAreOfScreen
<1> QED BY <1>1, <1>2, <1>3, <1>4, <1>5, <1>6, <1>7, <1>8, <1>9, <1>10, <1>11, <1>12, <1>13,
           <1>14, <1>15, <1>16, <1>17 DEF Search!Next

\* Whatever is typed, whatever pages the server answers with and however they are
\* sliced, once the reader's search is done and the result is painted the hits are the
\* places a search finds now, and the counter is at one of them.
THEOREM SearchedResult == ViewsSpec => []HitsAreOfScreen
<1>1. SearchInv => HitsAreOfScreen
  BY DEF SearchInv, HitsAreOfScreen
<1>2. ViewsSpec => Search!Init /\ [][Search!Next]_(Search!vars)
  BY ViewsBehave
<1> QED BY <1>1, <1>2, SearchInit, SearchNext, PTL

--------------------------------------------------------------------------------
(* The continuous view. *)

ContinuousRequests == [view : Nat, section : Nat]

ContinuousTypes ==
  /\ view \in Nat /\ size \in Nat /\ built \in 0 .. size
  /\ loaded \subseteq Continuous!Sections /\ pending \subseteq Continuous!Sections
  /\ focus \in Continuous!Sections \cup {0} /\ top \in Continuous!Sections \cup {0}
  /\ continuousRequests \subseteq ContinuousRequests

\* No request is ahead of its view, a section of the view waits for one of them, and
\* what is waited for is marked as such.
OneRequestEach ==
  /\ \A r \in continuousRequests : r.view <= view
  /\ \A r \in continuousRequests : r.view = view => r.section \in pending
  /\ \A r, s \in continuousRequests : r.view = view /\ s.view = view /\ r.section = s.section => r = s

\* The window of a list that is drawn is there or on its way.
WindowComes ==
  continuousOpen /\ built = size =>
    Continuous!windowAround(focus) \ collapsed \subseteq loaded \cup pending

\* The reading line is where the focus is, or went elsewhere unnoticed, or the timer will
\* see to it.
FocusFollows == continuousOpen /\ ~frame => adrift \/ focus = top

ContinuousInv == ContinuousTypes /\ OneRequestEach /\ WindowComes /\ FocusFollows

\* Whatever is released, nothing of the window is: it is not farther than Ahead in front
\* or Behind, and Limit leaves room for all that is as near.
LEMMA WindowIsKept ==
  ASSUME size \in Nat, NEW held \in SUBSET Continuous!Sections, NEW at \in Int
  PROVE  Continuous!windowAround(at) \cap Continuous!unloadTargets(held, at) = {}
<1> DEFINE Farther(a, b) ==
      \/ Continuous!Dist(a, at) > Continuous!Dist(b, at)
      \/ Continuous!Dist(a, at) = Continuous!Dist(b, at) /\ a < b
<1>1. SUFFICES ASSUME NEW k \in Continuous!windowAround(at), k \in Continuous!unloadTargets(held, at)
               PROVE  FALSE
  OBVIOUS
<1> DEFINE F == {b \in held \ {at} : Farther(b, k)}
<1>2. k \in held \ {at} /\ Cardinality(F) < Cardinality(held) - Limit
  BY <1>1 DEF Continuous!unloadTargets, Continuous!Cardinality, Cardinality
<1>3. held \subseteq 0 .. size - 1 /\ k \in Int /\ at - Behind <= k /\ k <= at + Ahead
  BY <1>1 DEF Continuous!windowAround, Continuous!Sections
<1>4. IsFiniteSet(0 .. size - 1)
  BY FS_Interval
<1>5. IsFiniteSet(held)
  BY <1>3, <1>4, FS_Subset
<1>6. IsFiniteSet(F)
  <2>1. F \subseteq held
    OBVIOUS
  <2> HIDE DEF F
  <2> QED BY <1>5, <2>1, FS_Subset
<1>7. Cardinality(F) \in Nat /\ Cardinality(held) \in Nat
  <2> HIDE DEF F
  <2> QED BY <1>5, <1>6, FS_CardinalityType
<1> DEFINE d == IF k < at THEN at - k ELSE k - at
           I == IF k < at THEN k .. at + d ELSE at - d + 1 .. k
<1>8. d \in Nat
  BY <1>3
<1>9. IsFiniteSet(I) /\ Cardinality(I) = IF k < at THEN 2 * d + 1 ELSE 2 * d
  <2>1. CASE k < at
    <3>1. at + d \in Int /\ ~(k > at + d) /\ (at + d) - k + 1 = 2 * d + 1
      BY <1>3, <1>8, <2>1
    <3>2. IsFiniteSet(k .. at + d) /\ Cardinality(k .. at + d) = 2 * d + 1
      <4> HIDE DEF d
      <4> QED BY <1>3, <3>1, FS_Interval
    <3> QED BY <2>1, <3>2
  <2>2. CASE ~(k < at)
    <3>1. at - d + 1 \in Int /\ k - (at - d + 1) + 1 = 2 * d /\ k > at
      BY <1>2, <1>3, <1>8, <2>2
    <3>2. ~(at - d + 1 > k)
      BY <1>3, <3>1, <2>2
    <3>3. IsFiniteSet(at - d + 1 .. k) /\ Cardinality(at - d + 1 .. k) = 2 * d
      <4> HIDE DEF d
      <4> QED BY <1>3, <3>1, <3>2, FS_Interval
    <3> QED BY <2>2, <3>3
  <2> QED BY <2>1, <2>2
<1>10. held \subseteq F \cup I
  <2> SUFFICES ASSUME NEW b \in held, b \notin F PROVE b \in I
    OBVIOUS
  <2>1. b \in Int /\ k # at
    BY <1>2, <1>3
  <2>2. b = at \/ ~Farther(b, k)
    OBVIOUS
  <2>3. CASE b = at
    BY <1>3, <2>1, <2>3
  <2>4. CASE ~Farther(b, k)
    <3>1. ~(Continuous!Dist(b, at) > Continuous!Dist(k, at))
          /\ ~(Continuous!Dist(b, at) = Continuous!Dist(k, at) /\ b < k)
      BY <2>4
    <3> HIDE DEF F
    <3> QED BY <1>3, <2>1, <3>1 DEF Continuous!Dist
  <2> QED BY <2>2, <2>3, <2>4
<1>11. Cardinality(held) <= Cardinality(F) + Cardinality(I)
  <2> HIDE DEF F, I
  <2>1. IsFiniteSet(F \cap I) /\ Cardinality(F \cap I) \in Nat
    <3>1. IsFiniteSet(F \cap I)
      BY <1>6, FS_Subset
    <3> QED BY <3>1, FS_CardinalityType
  <2>2. IsFiniteSet(F \cup I)
        /\ Cardinality(F \cup I) = Cardinality(F) + Cardinality(I) - Cardinality(F \cap I)
    BY <1>6, <1>9, FS_Union
  <2>3. Cardinality(held) <= Cardinality(F \cup I)
    BY <1>10, <2>2, FS_Subset
  <2>4. Cardinality(I) \in Nat /\ Cardinality(F \cup I) \in Nat
    <3>1. IsFiniteSet(I)
      BY <1>9
    <3> QED BY <2>2, <3>1, FS_CardinalityType
  <2> QED BY <1>7, <2>1, <2>2, <2>3, <2>4
<1>12. Cardinality(I) <= Limit
  <2>1. IF k < at THEN d <= Behind ELSE d <= Ahead
    BY <1>3, ContinuousAssumption
  <2> HIDE DEF I, d
  <2> QED BY <1>8, <1>9, <2>1, ContinuousAssumption
<1>13. Cardinality(I) \in Nat /\ Limit \in Nat
  <2> HIDE DEF I, d
  <2> QED BY <1>8, <1>9, ContinuousAssumption
<1> HIDE DEF F, I
<1> QED BY <1>2, <1>7, <1>11, <1>12, <1>13

LEMMA ContinuousInit == Continuous!Init => ContinuousInv
BY DEF Continuous!Init, ContinuousInv, ContinuousTypes, OneRequestEach, WindowComes, FocusFollows,
       Continuous!Sections

\* Sections are asked for: each that is not there is then on its way, once.
LEMMA AfterLoading ==
  ASSUME ContinuousTypes, OneRequestEach, NEW which \in SUBSET Continuous!Sections,
         Continuous!Loading(which, loaded), view' = view, size' = size
  PROVE  /\ pending' \subseteq Continuous!Sections
         /\ continuousRequests' \subseteq ContinuousRequests
         /\ OneRequestEach'
         /\ which \ collapsed \subseteq loaded \cup pending'
<1> DEFINE new == {k \in which : k \notin loaded /\ k \notin pending /\ k \notin collapsed}
           Q == {[view |-> view, section |-> k] : k \in new}
<1>1. pending' = pending \cup new /\ continuousRequests' = continuousRequests \cup Q
  BY DEF Continuous!Loading
<1>2. new \subseteq Continuous!Sections /\ new \subseteq Nat /\ new \cap pending = {}
  <2>1. Continuous!Sections \subseteq Nat
    BY DEF Continuous!Sections, ContinuousTypes
  <2> QED BY <2>1
<1>3. \A r \in Q : r \in ContinuousRequests /\ r.view = view /\ r.section \in new
  <2> SUFFICES ASSUME NEW k \in new
               PROVE  LET r == [view |-> view, section |-> k]
                      IN  r \in ContinuousRequests /\ r.view = view /\ r.section \in new
    OBVIOUS
  <2>1. k \in Nat /\ view \in Nat
    BY <1>2 DEF ContinuousTypes
  <2> HIDE DEF new
  <2> QED BY <2>1 DEF ContinuousRequests
<1>4. \A r, s \in Q : r.section = s.section => r = s
  <2> SUFFICES ASSUME NEW k \in new, NEW l \in new, k = l
               PROVE  [view |-> view, section |-> k] = [view |-> view, section |-> l]
    OBVIOUS
  <2> QED OBVIOUS
<1>5. which \ collapsed \subseteq loaded \cup pending \cup new
  OBVIOUS
<1> HIDE DEF new, Q
<1>6. OneRequestEach'
  <2>1. \A r \in continuousRequests' : r.view <= view'
    BY <1>1, <1>3 DEF OneRequestEach, ContinuousTypes
  <2>2. \A r \in continuousRequests' : r.view = view' => r.section \in pending'
    BY <1>1, <1>3 DEF OneRequestEach
  <2>3. \A r, s \in continuousRequests' :
          r.view = view' /\ s.view = view' /\ r.section = s.section => r = s
    BY <1>1, <1>2, <1>3, <1>4 DEF OneRequestEach
  <2> QED BY <2>1, <2>2, <2>3 DEF OneRequestEach
<1>7. pending' \subseteq Continuous!Sections /\ continuousRequests' \subseteq ContinuousRequests
  BY <1>1, <1>2, <1>3 DEF ContinuousTypes
<1> QED BY <1>1, <1>5, <1>6, <1>7

\* The focus moves to a section: its window, as far as it is drawn, is there or comes.
LEMMA AfterFocus ==
  ASSUME ContinuousTypes, OneRequestEach, NEW k \in Continuous!Sections,
         NEW drawn \in SUBSET Continuous!Sections, Continuous!focusContinuousSection(k, drawn),
         view' = view, size' = size, built' \in 0 .. size,
         built' = size => drawn = Continuous!Sections,
         collapsed' = collapsed, top' \in Continuous!Sections \cup {0}
  PROVE  ContinuousTypes' /\ OneRequestEach' /\ WindowComes' /\ focus' = k
<1> DEFINE W == Continuous!windowAround(k)
           which == W \cap drawn
<1>1. /\ focus' = k /\ Continuous!Loading(which, loaded)
      /\ loaded' = loaded \ Continuous!unloadTargets(loaded, k)
  BY DEF Continuous!focusContinuousSection
<1>2. W \subseteq Continuous!Sections /\ which \subseteq Continuous!Sections
  BY DEF Continuous!windowAround
<1>3. k \in Int /\ size \in Nat /\ loaded \subseteq Continuous!Sections
  BY DEF ContinuousTypes, Continuous!Sections
<1>4. W \cap Continuous!unloadTargets(loaded, k) = {}
  BY <1>3, WindowIsKept
<1> HIDE DEF which
<1>5. /\ pending' \subseteq Continuous!Sections
      /\ continuousRequests' \subseteq ContinuousRequests
      /\ OneRequestEach'
      /\ which \ collapsed \subseteq loaded \cup pending'
  BY <1>1, <1>2, AfterLoading
<1>6. Continuous!Sections' = Continuous!Sections /\ Continuous!windowAround(focus)' = W
  BY <1>1 DEF Continuous!windowAround, Continuous!Sections
<1>7. ContinuousTypes'
  BY <1>1, <1>3, <1>5, <1>6 DEF ContinuousTypes
<1>8. WindowComes'
  <2> SUFFICES ASSUME built' = size
               PROVE  W \ collapsed \subseteq loaded' \cup pending'
    BY <1>6 DEF WindowComes
  <2>1. which = W
    BY <1>2 DEF which
  <2> QED BY <1>1, <1>4, <1>5, <2>1
<1> QED BY <1>1, <1>5, <1>7, <1>8

\* Nothing is asked for, nothing is released, and the view stays.
LEMMA ContinuousRests ==
  ASSUME ContinuousTypes, OneRequestEach, WindowComes,
         UNCHANGED <<view, continuousOpen, size, built, loaded, pending, collapsed, focus>>,
         UNCHANGED continuousRequests, top' \in Continuous!Sections \cup {0}
  PROVE  ContinuousTypes' /\ OneRequestEach' /\ WindowComes'
<1>1. Continuous!Sections' = Continuous!Sections
      /\ Continuous!windowAround(focus)' = Continuous!windowAround(focus)
  BY DEF Continuous!windowAround, Continuous!Sections
<1>2. ContinuousTypes'
  BY <1>1 DEF ContinuousTypes
<1>3. OneRequestEach'
  BY DEF OneRequestEach
<1>4. WindowComes'
  BY <1>1 DEF WindowComes
<1> QED BY <1>2, <1>3, <1>4

\* A scroll to a section, however far it gets, ends in the list, and if it does not end at
\* the focus the timer or adrift knows.
LEMMA ContinuousScrolls ==
  ASSUME ContinuousTypes, NEW k \in Continuous!Sections \cup {0},
         Continuous!scrollContinuousInto(k)
  PROVE  top' \in Continuous!Sections \cup {0} /\ FocusFollows'
<1>1. PICK to \in IF k < top THEN {k} ELSE top .. k, event \in BOOLEAN :
        (to # top => event) /\ Continuous!LineAt(to, event)
  BY DEF Continuous!scrollContinuousInto
<1>2. to \in Continuous!Sections \cup {0}
  BY <1>1 DEF ContinuousTypes, Continuous!Sections
<1>3. top' = to /\ frame' = (frame \/ event) /\ adrift' = (adrift \/ (~event /\ to # focus'))
  BY <1>1 DEF Continuous!LineAt
<1> QED BY <1>2, <1>3 DEF FocusFollows

LEMMA ContinuousGoTo ==
  ASSUME ContinuousInv, NEW k \in Continuous!Sections, Continuous!continuousGoToSection(k),
         UNCHANGED <<view, continuousOpen, size, built, collapsed>>
  PROVE  ContinuousInv'
<1>1. ContinuousTypes /\ OneRequestEach
  BY DEF ContinuousInv
<1>2. /\ Continuous!focusContinuousSection(k, Continuous!Built)
      /\ Continuous!scrollContinuousInto(k)
  BY DEF Continuous!continuousGoToSection
<1>3. top' \in Continuous!Sections \cup {0} /\ FocusFollows'
  BY <1>1, <1>2, ContinuousScrolls
<1>4. /\ Continuous!Built \subseteq Continuous!Sections /\ built' \in 0 .. size
      /\ built' = size => Continuous!Built = Continuous!Sections
  BY <1>1 DEF ContinuousTypes, Continuous!Built, Continuous!Sections
<1>5. ContinuousTypes' /\ OneRequestEach' /\ WindowComes'
  BY <1>1, <1>2, <1>3, <1>4, AfterFocus
<1> QED BY <1>3, <1>5 DEF ContinuousInv

LEMMA ContinuousNext == ContinuousInv /\ [Continuous!Next]_(Continuous!vars) => ContinuousInv'
<1> SUFFICES ASSUME ContinuousInv, [Continuous!Next]_(Continuous!vars) PROVE ContinuousInv'
  OBVIOUS
<1>0. ContinuousTypes /\ OneRequestEach /\ WindowComes /\ FocusFollows
  BY DEF ContinuousInv
<1>s. size \in Nat /\ view \in Nat /\ Continuous!Sections = 0 .. size - 1
  BY <1>0 DEF ContinuousTypes, Continuous!Sections
<1>b. /\ built \in 0 .. size /\ Continuous!Built \subseteq Continuous!Sections
      /\ built = size => Continuous!Built = Continuous!Sections
  BY <1>0 DEF ContinuousTypes, Continuous!Built, Continuous!Sections
<1>1. CASE \E n \in Sizes : Continuous!Open(n)
  <2>1. PICK n \in Sizes : Continuous!Open(n)
    BY <1>1
  <2> DEFINE P == IF built' = n THEN {k \in 0 .. n - 1 : k <= Ahead} ELSE {}
             Q == {[view |-> view + 1, section |-> k] : k \in P}
  <2>2. /\ view' = view + 1 /\ size' = n /\ focus' = 0 /\ loaded' = {}
        /\ pending' = P /\ continuousRequests' = continuousRequests \cup Q
        /\ adrift' = (top' # 0)
    BY <2>1 DEF Continuous!Open
  <2>t. /\ built' \in IF n = 0 THEN {0} ELSE 1 .. n
        /\ top' = 0 \/ top' \in 0 .. built' - 1
    BY <2>1 DEF Continuous!Open, Continuous!Built
  <2>3. n \in Nat /\ P \subseteq 0 .. n - 1 /\ Continuous!Sections' = 0 .. n - 1
    BY <2>2, ContinuousAssumption DEF Continuous!Sections
  <2>u. built' \in 0 .. n /\ top' \in Continuous!Sections' \cup {0}
    BY <2>3, <2>t
  <2>4. \A r \in Q : r \in ContinuousRequests /\ r.view = view + 1 /\ r.section \in P
    <3> SUFFICES ASSUME NEW k \in P
                 PROVE  LET r == [view |-> view + 1, section |-> k]
                        IN  r \in ContinuousRequests /\ r.view = view + 1 /\ r.section \in P
      OBVIOUS
    <3>1. k \in Nat /\ view + 1 \in Nat
      BY <1>s
    <3> HIDE DEF P
    <3> QED BY <3>1 DEF ContinuousRequests
  <2>5. \A r, s \in Q : r.section = s.section => r = s
    <3> SUFFICES ASSUME NEW k \in P, NEW l \in P, k = l
                 PROVE  [view |-> view + 1, section |-> k]
                        = [view |-> view + 1, section |-> l]
      OBVIOUS
    <3> QED OBVIOUS
  <2>6. built' = n => Continuous!windowAround(focus)' \subseteq P
    BY <2>2, <2>3, ContinuousAssumption DEF Continuous!windowAround
  <2> HIDE DEF P, Q
  <2>7. ContinuousTypes'
    BY <1>0, <1>s, <2>2, <2>3, <2>4, <2>u DEF ContinuousTypes
  <2>8. OneRequestEach'
    <3>1. \A r \in continuousRequests : r.view \in Nat /\ r.view <= view /\ r.view # view + 1
      BY <1>0, <1>s DEF ContinuousTypes, ContinuousRequests, OneRequestEach
    <3>2. \A r \in continuousRequests' : r.view <= view'
      BY <1>s, <2>2, <2>4, <3>1
    <3>3. \A r \in continuousRequests' : r.view = view' => r.section \in pending'
      BY <2>2, <2>4, <3>1
    <3>4. \A r, s \in continuousRequests' :
            r.view = view' /\ s.view = view' /\ r.section = s.section => r = s
      BY <2>2, <2>4, <2>5, <3>1
    <3> QED BY <3>2, <3>3, <3>4 DEF OneRequestEach
  <2>9. WindowComes' /\ FocusFollows'
    BY <2>2, <2>6 DEF WindowComes, FocusFollows
  <2> QED BY <2>7, <2>8, <2>9 DEF ContinuousInv
<1>2. CASE Continuous!Close
  <2>1. ~continuousOpen' /\ UNCHANGED <<view, size, built, loaded, pending, collapsed, focus, top>>
        /\ UNCHANGED continuousRequests
    BY <1>2 DEF Continuous!Close
  <2>2. Continuous!Sections' = Continuous!Sections
    BY <2>1 DEF Continuous!Sections
  <2>3. ContinuousTypes' /\ OneRequestEach'
    BY <1>0, <2>1, <2>2 DEF ContinuousTypes, OneRequestEach
  <2> QED BY <2>1, <2>3 DEF ContinuousInv, WindowComes, FocusFollows
<1>3. CASE Continuous!trackContinuousScroll
  <2>1. UNCHANGED <<view, continuousOpen, size, built, collapsed, top>> /\ continuousOpen
    BY <1>3 DEF Continuous!trackContinuousScroll
  <2>2. CASE top # focus
    <3>1. Continuous!focusContinuousSection(top, Continuous!Built)
      BY <1>3, <2>2 DEF Continuous!trackContinuousScroll
    <3>2. top \in Continuous!Sections /\ top' \in Continuous!Sections \cup {0}
      BY <1>0, <1>s, <2>1, <2>2 DEF ContinuousTypes
    <3>3. ContinuousTypes' /\ OneRequestEach' /\ WindowComes' /\ focus' = top
      BY <1>0, <1>b, <2>1, <3>1, <3>2, AfterFocus
    <3> QED BY <2>1, <3>3 DEF ContinuousInv, FocusFollows
  <2>3. CASE top = focus
    <3> DEFINE W == Continuous!windowAround(focus)
    <3>1. /\ Continuous!Loading(W \cap Continuous!Built, loaded)
          /\ UNCHANGED <<focus, loaded>>
      BY <1>3, <2>3 DEF Continuous!trackContinuousScroll
    <3>2. W \subseteq Continuous!Sections
      BY DEF Continuous!windowAround
    <3>3. Continuous!Sections' = Continuous!Sections
      BY <2>1 DEF Continuous!Sections
    <3>4. W' = W
      BY <2>1, <3>1, <3>3 DEF Continuous!windowAround
    <3> HIDE DEF W
    <3>5. /\ pending' \subseteq Continuous!Sections
          /\ continuousRequests' \subseteq ContinuousRequests
          /\ OneRequestEach'
          /\ (W \cap Continuous!Built) \ collapsed \subseteq loaded \cup pending'
      <4>1. W \cap Continuous!Built \in SUBSET Continuous!Sections
        BY <3>2
      <4> QED BY <1>0, <2>1, <3>1, <4>1, AfterLoading
    <3>6. ContinuousTypes'
      BY <1>0, <2>1, <3>1, <3>3, <3>5 DEF ContinuousTypes
    <3>7. WindowComes'
      <4> SUFFICES ASSUME built' = size' PROVE W \ collapsed' \subseteq loaded' \cup pending'
        BY <3>4 DEF WindowComes, W
      <4>1. W \cap Continuous!Built = W
        BY <1>b, <2>1, <3>2
      <4> QED BY <2>1, <3>1, <3>5, <4>1
    <3> QED BY <2>1, <2>3, <3>1, <3>5, <3>6, <3>7 DEF ContinuousInv, FocusFollows
  <2> QED BY <2>2, <2>3
<1>4. CASE \E k \in Continuous!Built, event \in BOOLEAN : Continuous!Scroll(k, event)
  <2>1. PICK k \in Continuous!Built, event \in BOOLEAN : Continuous!Scroll(k, event)
    BY <1>4
  <2>2. /\ UNCHANGED <<view, continuousOpen, size, built, loaded, pending, collapsed, focus>>
        /\ UNCHANGED continuousRequests /\ top' = k /\ frame' = (frame \/ event)
        /\ adrift' = (adrift \/ (~event /\ k # focus'))
    BY <2>1 DEF Continuous!Scroll, Continuous!LineAt
  <2>3. top' \in Continuous!Sections \cup {0}
    BY <1>b, <2>1, <2>2
  <2>4. ContinuousTypes' /\ OneRequestEach' /\ WindowComes'
    BY <1>0, <2>2, <2>3, ContinuousRests
  <2> QED BY <2>2, <2>4 DEF ContinuousInv, FocusFollows
<1>5. CASE \E k \in Continuous!Built : Continuous!Jump(k)
  <2>1. PICK k \in Continuous!Built : Continuous!Jump(k)
    BY <1>5
  <2>2. /\ Continuous!continuousGoToSection(k)
        /\ UNCHANGED <<view, continuousOpen, size, built, collapsed>>
    BY <2>1 DEF Continuous!Jump
  <2>3. k \in Continuous!Sections
    BY <1>b, <2>1
  <2> QED BY <2>2, <2>3, ContinuousGoTo
<1>6. CASE \E direction \in {-1, 1} : Continuous!continuousStep(direction)
  <2>1. PICK direction \in {-1, 1} : Continuous!continuousStep(direction)
    BY <1>6
  <2>2. CASE \E k \in Continuous!Built : Continuous!continuousGoToSection(k)
    <3>1. UNCHANGED <<view, continuousOpen, size, built, collapsed>>
      BY <2>1 DEF Continuous!continuousStep
    <3>2. \E k \in Continuous!Sections : Continuous!continuousGoToSection(k)
      BY <1>b, <2>2
    <3> QED BY <3>1, <3>2, ContinuousGoTo
  <2>3. CASE /\ UNCHANGED <<loaded, pending, focus, continuousRequests>>
             /\ Continuous!scrollContinuousInto(focus)
    <3>1. UNCHANGED <<view, continuousOpen, size, built, collapsed>>
      BY <2>1 DEF Continuous!continuousStep
    <3>2. focus \in Continuous!Sections \cup {0}
      BY <1>0 DEF ContinuousTypes
    <3>3. top' \in Continuous!Sections \cup {0} /\ FocusFollows'
      BY <1>0, <2>3, <3>2, ContinuousScrolls
    <3>4. ContinuousTypes' /\ OneRequestEach' /\ WindowComes'
      BY <1>0, <2>3, <3>1, <3>3, ContinuousRests
    <3> QED BY <3>3, <3>4 DEF ContinuousInv
  <2> QED BY <2>1, <2>2, <2>3 DEF Continuous!continuousStep
<1>7. CASE \E k \in Continuous!Built : Continuous!toggleContinuousSection(k)
  <2>1. PICK k \in Continuous!Built : Continuous!toggleContinuousSection(k)
    BY <1>7
  <2>k. k \in Continuous!Sections
    BY <1>b, <2>1
  <2>2. UNCHANGED <<view, continuousOpen, size, built, focus, top, frame, adrift>>
    BY <2>1 DEF Continuous!toggleContinuousSection
  <2>3. Continuous!Sections' = Continuous!Sections
    BY <2>2 DEF Continuous!Sections
  <2>w. Continuous!windowAround(focus)' = Continuous!windowAround(focus)
    BY <2>2, <2>3 DEF Continuous!windowAround
  <2>4. CASE UNCHANGED <<pending, continuousRequests>>
    <3>1. \/ collapsed' = collapsed \ {k} /\ k \in loaded \cup pending /\ loaded' = loaded
          \/ collapsed' = collapsed \cup {k} /\ loaded' = loaded \ {k}
          \/ /\ pending' = pending \cup {k} /\ collapsed' = collapsed \ {k} /\ loaded' = loaded
             /\ k \notin loaded \cup pending
      BY <2>1 DEF Continuous!toggleContinuousSection
    <3>2. ContinuousTypes'
      BY <1>0, <2>2, <2>k, <2>3, <2>4, <3>1 DEF ContinuousTypes
    <3>3. OneRequestEach' /\ FocusFollows'
      BY <1>0, <2>2, <2>4 DEF OneRequestEach, FocusFollows
    <3>4. WindowComes'
      BY <1>0, <2>2, <2>w, <2>4, <3>1 DEF WindowComes
    <3> QED BY <3>2, <3>3, <3>4 DEF ContinuousInv
  <2>5. CASE /\ k \notin loaded \cup pending /\ collapsed' = collapsed \ {k} /\ loaded' = loaded
             /\ pending' = pending \cup {k}
             /\ continuousRequests' = continuousRequests
                  \cup {[view |-> view, section |-> k]}
    <3> DEFINE q == [view |-> view, section |-> k]
    <3>1. q \in ContinuousRequests /\ q.view = view /\ q.section = k
      BY <1>s, <2>k DEF ContinuousRequests
    <3>2. continuousRequests' = continuousRequests \cup {q}
      BY <2>5
    <3> HIDE DEF q
    <3>3. ContinuousTypes'
      BY <1>0, <2>2, <2>k, <2>3, <2>5, <3>1, <3>2 DEF ContinuousTypes
    <3>4. OneRequestEach'
      <4>1. \A r \in continuousRequests' : r.view <= view'
        BY <1>0, <1>s, <2>2, <3>1, <3>2 DEF OneRequestEach
      <4>2. \A r \in continuousRequests' : r.view = view' => r.section \in pending'
        BY <1>0, <2>2, <2>5, <3>1, <3>2 DEF OneRequestEach
      <4>3. \A r \in continuousRequests : r.view = view => r.section # k
        BY <1>0, <2>5 DEF OneRequestEach
      <4>4. \A r, s \in continuousRequests' :
              r.view = view' /\ s.view = view' /\ r.section = s.section => r = s
        BY <1>0, <2>2, <3>1, <3>2, <4>3 DEF OneRequestEach
      <4> QED BY <4>1, <4>2, <4>4 DEF OneRequestEach
    <3>5. WindowComes'
      BY <1>0, <2>2, <2>w, <2>5 DEF WindowComes
    <3>6. FocusFollows'
      BY <1>0, <2>2, <3>2 DEF FocusFollows
    <3> QED BY <3>3, <3>4, <3>5, <3>6 DEF ContinuousInv
  <2> QED BY <2>1, <2>4, <2>5 DEF Continuous!toggleContinuousSection
<1>8. CASE \E r \in continuousRequests, ok \in BOOLEAN : Continuous!Answer(r, ok)
  <2>1. PICK r \in continuousRequests, ok \in BOOLEAN : Continuous!Answer(r, ok)
    BY <1>8
  <2>2. UNCHANGED <<view, continuousOpen, size, built, collapsed, focus, top, frame, adrift>>
        /\ continuousRequests' = continuousRequests \ {r}
    BY <2>1 DEF Continuous!Answer
  <2>3. Continuous!Sections' = Continuous!Sections
    BY <2>2 DEF Continuous!Sections
  <2>w. Continuous!windowAround(focus)' = Continuous!windowAround(focus)
    BY <2>2, <2>3 DEF Continuous!windowAround
  <2>4. CASE ~(continuousOpen /\ r.view = view)
    <3>1. UNCHANGED <<loaded, pending>>
      BY <2>1, <2>4 DEF Continuous!Answer
    <3>2. ContinuousTypes'
      BY <1>0, <2>2, <2>3, <3>1 DEF ContinuousTypes
    <3>3. OneRequestEach'
      BY <1>0, <2>2, <3>1 DEF OneRequestEach
    <3>4. WindowComes' /\ FocusFollows'
      BY <1>0, <2>2, <2>w, <2>4, <3>1 DEF WindowComes, FocusFollows
    <3> QED BY <3>2, <3>3, <3>4 DEF ContinuousInv
  <2>5. CASE continuousOpen /\ r.view = view
    <3> DEFINE held == loaded \cup {r.section}
               gone == Continuous!unloadTargets(held, focus)
    <3>1. /\ loaded' = held \/ loaded' = held \ gone
          /\ pending' = pending \ {r.section}
      BY <2>1, <2>5 DEF Continuous!Answer
    <3>2. r.section \in pending /\ r.section \in Continuous!Sections
      BY <1>0, <2>5 DEF OneRequestEach, ContinuousTypes
    <3>3. held \subseteq Continuous!Sections /\ focus \in Int
      <4>1. focus \in 0 .. size - 1 \cup {0}
        BY <1>0, <1>s DEF ContinuousTypes
      <4>2. loaded \subseteq Continuous!Sections
        BY <1>0 DEF ContinuousTypes
      <4> QED BY <3>2, <4>1, <4>2
    <3>4. Continuous!windowAround(focus) \cap gone = {}
      <4> HIDE DEF held
      <4> QED BY <1>s, <3>3, WindowIsKept
    <3>5. held \ gone \subseteq held /\ loaded \subseteq held /\ r.section \in held
      OBVIOUS
    <3> HIDE DEF held, gone
    <3>6. ContinuousTypes'
      BY <1>0, <2>2, <2>3, <3>1, <3>2, <3>3 DEF ContinuousTypes
    <3>7. OneRequestEach'
      BY <1>0, <2>2, <2>5, <3>1 DEF OneRequestEach
    <3>8. WindowComes'
      BY <1>0, <2>2, <2>w, <3>1, <3>4, <3>5 DEF WindowComes
    <3>9. FocusFollows'
      BY <1>0, <2>2 DEF FocusFollows
    <3> QED BY <3>6, <3>7, <3>8, <3>9 DEF ContinuousInv
  <2> QED BY <2>4, <2>5
<1>9. CASE \E n \in built + 1 .. size : Continuous!Draw(n)
  <2>1. PICK n \in built + 1 .. size : Continuous!Draw(n)
    BY <1>9
  <2>2. /\ UNCHANGED <<view, continuousOpen, size, collapsed, top, frame>>
        /\ built' = n /\ n \in 0 .. size /\ size > 0
    BY <1>b, <1>s, <2>1 DEF Continuous!Draw
  <2>3. CASE n = size
    <3>1. /\ Continuous!focusContinuousSection(0, Continuous!Sections)
          /\ adrift' = (adrift \/ top # 0)
      BY <2>1, <2>3 DEF Continuous!Draw
    <3>2. 0 \in Continuous!Sections /\ top' \in Continuous!Sections \cup {0}
      BY <1>0, <1>s, <2>2 DEF ContinuousTypes
    <3>3. ContinuousTypes' /\ OneRequestEach' /\ WindowComes' /\ focus' = 0
      BY <1>0, <2>2, <3>1, <3>2, AfterFocus
    <3> QED BY <2>2, <3>1, <3>3 DEF ContinuousInv, FocusFollows
  <2>4. CASE n # size
    <3>1. UNCHANGED <<loaded, pending, focus, continuousRequests, adrift>>
      BY <2>1, <2>4 DEF Continuous!Draw
    <3>2. Continuous!Sections' = Continuous!Sections
      BY <2>2 DEF Continuous!Sections
    <3>3. ContinuousTypes'
      BY <1>0, <2>2, <3>1, <3>2 DEF ContinuousTypes
    <3>4. OneRequestEach' /\ WindowComes' /\ FocusFollows'
      BY <1>0, <2>2, <2>4, <3>1 DEF OneRequestEach, WindowComes, FocusFollows
    <3> QED BY <3>3, <3>4 DEF ContinuousInv
  <2> QED BY <2>3, <2>4
<1>10. CASE UNCHANGED Continuous!vars
  <2>1. /\ UNCHANGED <<view, continuousOpen, size, built, loaded, pending, collapsed, focus>>
        /\ UNCHANGED <<frame, adrift>> /\ UNCHANGED continuousRequests /\ top' = top
    BY <1>10 DEF Continuous!vars
  <2>2. top' \in Continuous!Sections \cup {0}
    BY <1>0, <2>1 DEF ContinuousTypes
  <2>3. ContinuousTypes' /\ OneRequestEach' /\ WindowComes'
    BY <1>0, <2>1, <2>2, ContinuousRests
  <2>4. FocusFollows'
    BY <1>0, <2>1 DEF FocusFollows
  <2> QED BY <2>3, <2>4 DEF ContinuousInv
<1> QED
  BY <1>1, <1>2, <1>3, <1>4, <1>5, <1>6, <1>7, <1>8, <1>9, <1>10 DEF Continuous!Next

\* However the reader scrolls, jumps and collapses, in whatever order the files arrive
\* and whatever older view they were for: once nothing is under way, what is taken to be
\* read is there with the sections around it, and it is at the reading line unless that
\* went elsewhere without an event.
THEOREM ReadingPrepared == ViewsSpec => []ReadingIsReady
<1>1. ContinuousInv => ReadingIsReady
  <2> SUFFICES ASSUME ContinuousInv, Continuous!Quiet, size > 0
               PROVE  /\ adrift \/ focus = top
                      /\ Continuous!windowAround(focus) \ collapsed \subseteq loaded
    BY DEF ReadingIsReady, Continuous!ReadingIsReady
  <2>1. continuousOpen /\ built = size /\ ~frame /\ pending = {}
    BY DEF Continuous!Quiet
  <2> QED BY <2>1 DEF ContinuousInv, WindowComes, FocusFollows
<1>2. ViewsSpec => Continuous!Init /\ [][Continuous!Next]_(Continuous!vars)
  BY ViewsBehave
<1> QED BY <1>1, <1>2, ContinuousInit, ContinuousNext, PTL

--------------------------------------------------------------------------------
(* Rendering. *)

Painted == [run : Nat, at : Nat]
Comparing ==
  [pc : {"reading", "context"}, kind : {"text", "three"}, pages : Seq(Nat), buffer : Nat,
   handled : Nat, got : Seq(Painted), rendered : Nat, aborted : BOOLEAN]
Unpainted == [by : {"run", "display"}, token : Nat, left : Seq(Painted), clears : {FALSE}]
Response == [hunks : Seq(Painted)]

RenderTypes ==
  /\ runs \in Nat
  /\ run \in Comparing \cup {Render!idle}
  /\ run # Render!idle => run.buffer + run.handled <= Len(run.pages)
  /\ run # Render!idle /\ run.kind = "three" =>
       run.pc = "reading" /\ run.buffer = 0 /\ run.handled = 0 /\ Len(run.pages) = 1
  /\ gate \in [token : Nat, cancelled : BOOLEAN]
  /\ renders \subseteq Unpainted
  /\ screen \in Seq(Painted)
  /\ lastData \in Response \cup {Render!none}
  /\ threeWay \in Response \cup {Render!none}
  /\ outcome \in [what : {"running"}] \cup
       [what : {"finished", "cancelled", "failed"}, kind : {"text", "three"}, result : Seq(Painted)]
  /\ disturbed \subseteq {"cancel", "redraw", "toggle"}

\* A render is known by its token, and something of it is left.
OneRenderEach ==
  /\ \A r \in renders : r.token <= gate.token /\ r.left # <<>>
  /\ \A q, r \in renders : q.token = r.token => q = r

\* A comparison's own render is of the comparison that runs.
RunPaints ==
  Render!Painting("run") =>
    /\ run # Render!idle /\ run.pc = "reading"
    /\ IF run.kind = "text" THEN run.handled > 0 ELSE run.got # <<>>

\* The screen and what the render that is not stale has left are these hunks.
Shows(hunks) ==
  \/ screen = hunks /\ \A r \in renders : r.token # gate.token
  \/ \E r \in renders : r.token = gate.token /\ screen \o r.left = hunks

\* Undisturbed, every render is the comparison's and not stale, and what was received
\* is on the screen or in it.
TextIsShown ==
  disturbed = {} =>
    /\ \A r \in renders : r.by = "run" /\ r.token = gate.token
    /\ run = Render!idle /\ outcome.what = "finished" => screen = outcome.result
    /\ run # Render!idle /\ run.kind = "text" =>
         /\ Shows(run.got)
         /\ run.handled = 0 => run.got = <<>>
         /\ Len(run.got) =
              run.rendered + IF Render!Painting("run") THEN run.pages[run.handled] ELSE 0
    /\ run # Render!idle /\ run.pc = "context" => renders = {}

\* A three-way result that has events is redrawn as it is, whatever is stale.
EventsAreShown ==
  "cancel" \notin disturbed =>
    /\ run = Render!idle /\ outcome.what = "finished" /\ outcome.kind = "three"
         /\ outcome.result # <<>> =>
         threeWay = [hunks |-> outcome.result] /\ Shows(outcome.result)
    /\ run # Render!idle /\ run.kind = "three" /\ run.got # <<>> =>
         threeWay = [hunks |-> run.got] /\ Shows(run.got)

RenderInv == RenderTypes /\ OneRenderEach /\ RunPaints /\ TextIsShown /\ EventsAreShown

\* A list is its beginning and its rest.
LEMMA CutInTwo ==
  ASSUME NEW S, NEW s \in Seq(S), NEW n \in 1 .. Len(s)
  PROVE  /\ SubSeq(s, 1, n) \in Seq(S) /\ SubSeq(s, n + 1, Len(s)) \in Seq(S)
         /\ s = SubSeq(s, 1, n) \o SubSeq(s, n + 1, Len(s))
         /\ n = Len(s) => s = SubSeq(s, 1, n)
         /\ n # Len(s) => SubSeq(s, n + 1, Len(s)) # <<>>
<1> DEFINE a == SubSeq(s, 1, n)
           b == SubSeq(s, n + 1, Len(s))
<1>1. a \in Seq(S) /\ Len(a) = n /\ \A k \in 1 .. n : a[k] = s[k]
  BY BeginningIsSeq
<1>2. /\ b \in Seq(S) /\ Len(b) = Len(s) - n
      /\ \A k \in 1 .. Len(s) - n : b[k] = s[n + k]
  <2>1. CASE n = Len(s)
    BY <2>1
  <2>2. CASE n < Len(s)
    BY <2>2
  <2> QED BY <2>1, <2>2
<1>3. s = a \o b
  <2> HIDE DEF a, b
  <2>1. a \o b \in Seq(S) /\ Len(a \o b) = Len(s)
    BY <1>1, <1>2, ConcatProperties
  <2>2. ASSUME NEW k \in 1 .. Len(s) PROVE (a \o b)[k] = s[k]
    <3>1. (a \o b)[k] = IF k <= Len(a) THEN a[k] ELSE b[k - Len(a)]
      BY <1>1, <1>2, ConcatProperties
    <3>2. CASE k <= n
      BY <3>1, <3>2, <1>1
    <3>3. CASE ~(k <= n)
      <4>1. k - n \in 1 .. Len(s) - n /\ n + (k - n) = k
        BY <3>3
      <4>2. (a \o b)[k] = b[k - n]
        BY <3>1, <3>3, <1>1
      <4> QED BY <4>1, <4>2, <1>2
    <3> QED BY <3>2, <3>3
  <2> QED BY <2>1, <2>2, SeqEqual
<1>4. n = Len(s) => s = a
  <2> HIDE DEF a
  <2> QED BY <1>1, SeqEqual
<1>5. n # Len(s) => b # <<>>
  <2> HIDE DEF b
  <2> QED BY <1>2
<1> QED BY <1>1, <1>2, <1>3, <1>4, <1>5

\* Lists of what is painted are joined in either order.
LEMMA JoinedInAnyOrder ==
  \A p, q, r \in Seq(Painted) : (p \o q) \o r = p \o (q \o r)
<1> SUFFICES ASSUME NEW S, NEW p \in Seq(S), NEW q \in Seq(S), NEW r \in Seq(S)
             PROVE  (p \o q) \o r = p \o (q \o r)
  OBVIOUS
<1> QED BY ConcatAssociative

\* A render that begins makes the others stale, and shows what it was given.
LEMMA RenderBegins ==
  ASSUME RenderTypes, OneRenderEach, NEW by \in {"run", "display"}, NEW clears \in BOOLEAN,
         NEW items \in Seq(Painted), Render!renderInSlices(by, clears, items),
         NEW hunks, hunks = (IF clears THEN <<>> ELSE screen) \o items
  PROVE  /\ gate' \in [token : Nat, cancelled : BOOLEAN] /\ ~gate'.cancelled
         /\ gate'.token = gate.token + 1
         /\ screen' \in Seq(Painted) /\ renders' \subseteq Unpainted /\ OneRenderEach'
         /\ renders \subseteq renders'
         /\ \A r \in renders' : r \in renders \/ (r.by = by /\ r.token = gate'.token)
         /\ Shows(hunks)'
<1> DEFINE b == [by |-> by, clears |-> clears]
<1>0. PICK old : old = IF clears THEN <<>> ELSE screen
  OBVIOUS
<1>1. /\ gate' = [token |-> gate.token + 1, cancelled |-> FALSE]
      /\ Render!Slice(b, gate.token + 1, items)
  BY DEF Render!renderInSlices, Render!begin
<1>2. b \notin renders
  <2> SUFFICES ASSUME b \in Unpainted PROVE FALSE
    BY DEF RenderTypes
  <2>1. DOMAIN b = {"by", "token", "left", "clears"}
    BY DEF Unpainted
  <2>2. DOMAIN b = {"by", "clears"}
    OBVIOUS
  <2>3. "token" \in DOMAIN b
    BY <2>1
  <2> QED BY <2>2, <2>3
<1>3. PICK n \in 1 .. Len(items) :
        /\ screen' = (IF b.clears THEN <<>> ELSE screen) \o SubSeq(items, 1, n)
        /\ renders' = (renders \ {b}) \cup
             (IF n = Len(items) THEN {}
              ELSE {[by |-> b.by, token |-> gate.token + 1, left |-> SubSeq(items, n + 1, Len(items)),
                     clears |-> FALSE]})
  BY <1>1 DEF Render!Slice
<1> DEFINE a == SubSeq(items, 1, n)
           c == SubSeq(items, n + 1, Len(items))
           new == [by |-> by, token |-> gate.token + 1, left |-> c, clears |-> FALSE]
<1>4. b.clears = clears /\ b.by = by
  OBVIOUS
<1>5. /\ screen' = old \o a
      /\ renders' = renders \cup (IF n = Len(items) THEN {} ELSE {new})
  <2> HIDE DEF b
  <2> QED BY <1>0, <1>2, <1>3, <1>4
<1>6. /\ a \in Seq(Painted) /\ c \in Seq(Painted) /\ items = a \o c
      /\ n = Len(items) => items = a
      /\ n # Len(items) => c # <<>>
  BY CutInTwo
<1>7. gate.token \in Nat /\ old \in Seq(Painted) /\ screen \in Seq(Painted)
      /\ renders \subseteq Unpainted
  <2>1. <<>> \in Seq(Painted)
    OBVIOUS
  <2> QED BY <1>0, <2>1 DEF RenderTypes
<1>8. /\ new \in Unpainted /\ new.token = gate.token + 1 /\ new.left = c /\ new.by = by
  <2> HIDE DEF c
  <2> QED BY <1>6, <1>7 DEF Unpainted
<1>9. gate'.token = gate.token + 1 /\ gate'.cancelled = FALSE
      /\ gate' \in [token : Nat, cancelled : BOOLEAN]
  BY <1>1, <1>7
<1> HIDE DEF new, a, c, b
<1>10. screen' \in Seq(Painted) /\ renders' \subseteq Unpainted
  <2>1. screen' \in Seq(Painted)
    BY <1>5, <1>6, <1>7
  <2> QED BY <2>1, <1>5, <1>7, <1>8
<1>11. \A r \in renders : r.token \in Nat /\ r.token <= gate.token /\ r.left # <<>>
  BY <1>7 DEF OneRenderEach, Unpainted
<1>12. OneRenderEach'
  <2>1. \A r \in renders' : r.token <= gate'.token /\ r.left # <<>>
    BY <1>5, <1>6, <1>7, <1>8, <1>9, <1>11
  <2>2. \A q, r \in renders' : q.token = r.token => q = r
    <3>1. \A q, r \in renders : q.token = r.token => q = r
      BY DEF OneRenderEach
    <3> QED BY <3>1, <1>5, <1>7, <1>8, <1>11
  <2> QED BY <2>1, <2>2 DEF OneRenderEach
<1>13. Shows(hunks)'
  <2>1. CASE n = Len(items)
    <3>1. screen' = hunks
      BY <2>1, <1>0, <1>5, <1>6
    <3>2. renders' = renders
      BY <2>1, <1>5
    <3>3. \A r \in renders' : r.token # gate'.token
      BY <3>2, <1>7, <1>9, <1>11
    <3> QED BY <3>1, <3>3 DEF Shows
  <2>2. CASE n # Len(items)
    <3>1. new \in renders' /\ new.token = gate'.token
      BY <2>2, <1>5, <1>8, <1>9
    <3>2. screen' \o new.left = hunks
      <4>1. (old \o a) \o c = old \o (a \o c)
        <5>1. old \in Seq(Painted) /\ a \in Seq(Painted) /\ c \in Seq(Painted)
          BY <1>6, <1>7
        <5> HIDE DEF a, c, new
        <5> QED BY <5>1, JoinedInAnyOrder
      <4>2. hunks = old \o items
        BY <1>0
      <4> QED BY <4>1, <4>2, <1>5, <1>6, <1>8
    <3> QED BY <3>1, <3>2 DEF Shows
  <2> QED BY <2>1, <2>2
<1>14. \A r \in renders' : r \in renders \/ (r.by = by /\ r.token = gate'.token)
  BY <1>5, <1>8, <1>9
<1>15. renders \subseteq renders'
  BY <1>5
<1> QED BY <1>9, <1>10, <1>12, <1>13, <1>14, <1>15

\* A render that is not stale goes on: what it shows stays what it was to show.
LEMMA RenderGoesOn ==
  ASSUME RenderTypes, OneRenderEach, NEW r \in renders, r.token = gate.token, gate' = gate,
         Render!Slice(r, r.token, r.left), NEW hunks, Shows(hunks)
  PROVE  /\ screen' \in Seq(Painted) /\ renders' \subseteq Unpainted /\ OneRenderEach'
         /\ \A q \in renders' : \E p \in renders : q.by = p.by /\ q.token = p.token
         /\ Shows(hunks)'
<1>1. PICK n \in 1 .. Len(r.left) :
        /\ screen' = (IF r.clears THEN <<>> ELSE screen) \o SubSeq(r.left, 1, n)
        /\ renders' = (renders \ {r}) \cup
             (IF n = Len(r.left) THEN {}
              ELSE {[by |-> r.by, token |-> r.token, left |-> SubSeq(r.left, n + 1, Len(r.left)),
                     clears |-> FALSE]})
  BY DEF Render!Slice
<1> DEFINE a == SubSeq(r.left, 1, n)
           c == SubSeq(r.left, n + 1, Len(r.left))
           new == [by |-> r.by, token |-> r.token, left |-> c, clears |-> FALSE]
<1>2. /\ r \in Unpainted /\ r.by \in {"run", "display"} /\ r.token \in Nat
      /\ r.left \in Seq(Painted) /\ r.clears = FALSE
      /\ renders \subseteq Unpainted /\ screen \in Seq(Painted) /\ gate.token \in Nat
  BY DEF RenderTypes, Unpainted
<1>3. /\ a \in Seq(Painted) /\ c \in Seq(Painted) /\ r.left = a \o c
      /\ n = Len(r.left) => r.left = a
      /\ n # Len(r.left) => c # <<>>
  BY <1>2, CutInTwo
<1>4. /\ new \in Unpainted /\ new.token = r.token /\ new.left = c /\ new.by = r.by
  <2> HIDE DEF c
  <2> QED BY <1>2, <1>3 DEF Unpainted
<1>5. /\ screen' = screen \o a
      /\ renders' = (renders \ {r}) \cup (IF n = Len(r.left) THEN {} ELSE {new})
  BY <1>1, <1>2
<1> HIDE DEF new, a, c
<1>6. screen' \in Seq(Painted)
  BY <1>2, <1>3, <1>5
<1>7. renders' \subseteq Unpainted
  BY <1>2, <1>4, <1>5
<1>8. /\ \A q \in renders : q.token <= gate.token /\ q.left # <<>>
      /\ \A p, q \in renders : p.token = q.token => p = q
  BY DEF OneRenderEach
<1>9. OneRenderEach'
  <2>1. \A q \in renders' : q.token <= gate'.token /\ q.left # <<>>
    BY <1>2, <1>3, <1>4, <1>5, <1>8
  <2>2. \A p, q \in renders' : p.token = q.token => p = q
    BY <1>4, <1>5, <1>8
  <2> QED BY <2>1, <2>2 DEF OneRenderEach
<1>10. \A q \in renders' : \E p \in renders : q.by = p.by /\ q.token = p.token
  BY <1>4, <1>5
<1>11. screen \o r.left = hunks
  BY <1>8 DEF Shows
<1>12. Shows(hunks)'
  <2>1. CASE n = Len(r.left)
    <3>1. screen' = hunks
      BY <2>1, <1>3, <1>5, <1>11
    <3>2. renders' = renders \ {r}
      BY <2>1, <1>5
    <3>3. \A q \in renders' : q.token # gate'.token
      BY <3>2, <1>8
    <3> QED BY <3>1, <3>3 DEF Shows
  <2>2. CASE n # Len(r.left)
    <3>1. new \in renders' /\ new.token = gate'.token
      BY <2>2, <1>4, <1>5
    <3>2. screen' \o new.left = hunks
      <4>1. (screen \o a) \o c = screen \o (a \o c)
        BY <1>2, <1>3, ConcatAssociative
      <4> QED BY <4>1, <1>3, <1>4, <1>5, <1>11
    <3> QED BY <3>1, <3>2 DEF Shows
  <2> QED BY <2>1, <2>2
<1> QED BY <1>6, <1>7, <1>9, <1>10, <1>12

\* renderResult and renderThreeWay show what they are given, an empty result at once.
LEMMA RenderedAnew ==
  ASSUME RenderTypes, OneRenderEach, NEW by \in {"run", "display"}, NEW items \in Seq(Painted),
         Render!renderAll(by, items)
  PROVE  /\ gate' \in [token : Nat, cancelled : BOOLEAN]
         /\ screen' \in Seq(Painted) /\ renders' \subseteq Unpainted /\ OneRenderEach'
         /\ renders \subseteq renders'
         /\ \A r \in renders' : r \in renders \/ (r.by = by /\ r.token = gate'.token)
         /\ items # <<>> => Shows(items)'
         /\ items = <<>> => screen' = <<>> /\ renders' = renders
<1>1. CASE items = <<>>
  <2>1. screen' = <<>> /\ gate' = gate /\ renders' = renders
    BY <1>1 DEF Render!renderAll
  <2>2. <<>> \in Seq(Painted)
    OBVIOUS
  <2> QED BY <1>1, <2>1, <2>2 DEF RenderTypes, OneRenderEach
<1>2. CASE items # <<>>
  <2>1. Render!renderInSlices(by, TRUE, items)
    BY <1>2 DEF Render!renderAll
  <2>2. items = (IF TRUE THEN <<>> ELSE screen) \o items
    BY ConcatEmptySeq
  <2> QED BY <1>2, <2>1, <2>2, RenderBegins
<1> QED BY <1>1, <1>2

LEMMA RunningIsNotIdle == \A p \in Comparing : p # Render!idle /\ p.pc # "idle"
BY DEF Comparing, Render!idle

\* Hunks of the comparison that runs.
LEMMA OfIsSeq ==
  ASSUME RenderTypes, NEW m \in Nat, NEW n \in Nat
  PROVE  Render!Of(m, n) \in Seq(Painted) /\ Len(Render!Of(m, n)) = n
<1>1. \A k \in 1 .. n : [run |-> runs, at |-> m + k] \in Painted
  BY DEF RenderTypes, Painted
<1>2. Render!Of(m, n) = [k \in 1 .. n |-> [run |-> runs, at |-> m + k]]
  BY DEF Render!Of
<1>3. [k \in 1 .. n |-> [run |-> runs, at |-> m + k]] \in Seq(Painted)
  BY <1>1, IsASeq
<1> DEFINE f == [k \in 1 .. n |-> [run |-> runs, at |-> m + k]]
<1>4. DOMAIN f = 1 .. n /\ f \in Seq(Painted)
  BY <1>3
<1>5. Len(f) = n
  <2> HIDE DEF f
  <2> QED BY <1>4, LenProperties
<1> QED BY <1>2, <1>4, <1>5

LEMMA LineHandled ==
  ASSUME NEW p \in Comparing, NEW b \in Nat, NEW h \in Nat, NEW g \in Seq(Painted), NEW x \in Nat
  PROVE  [p EXCEPT !.buffer = b, !.handled = h, !.got = g, !.rendered = x] \in Comparing
BY DEF Comparing

\* A page is painted behind what was received before it.
LEMMA PagePainted ==
  ASSUME RenderInv, Render!Line
  PROVE  RenderInv'
<1> DEFINE n == run.pages[run.handled + 1]
           items == Render!Of(run.rendered, n)
           got == run.got \o Render!Of(Len(run.got), n)
           first == run.handled = 0
<1>1. RenderTypes /\ OneRenderEach /\ RunPaints /\ TextIsShown /\ EventsAreShown
  BY DEF RenderInv
<1>2. /\ run.pc = "reading" /\ ~Render!Painting("run") /\ run.buffer > 0
      /\ IF n = 0
         THEN gate' = gate /\ renders' = renders /\ screen' = IF first THEN <<>> ELSE screen
         ELSE Render!renderInSlices("run", first, items)
      /\ run' = [run EXCEPT !.buffer = run.buffer - 1, !.handled = run.handled + 1, !.got = got,
                   !.rendered = IF Render!Painting("run")' THEN run.rendered
                                ELSE run.rendered + n]
      /\ runs' = runs /\ lastData' = lastData /\ threeWay' = threeWay /\ outcome' = outcome
      /\ disturbed' = disturbed
  BY DEF Render!Line, Render!Reading, Render!Page
<1>3. run # Render!idle /\ run \in Comparing
  BY <1>1, <1>2 DEF RenderTypes, Render!idle
<1>4. /\ run.pages \in Seq(Nat) /\ run.buffer \in Nat /\ run.handled \in Nat
      /\ run.rendered \in Nat /\ run.got \in Seq(Painted)
      /\ run.buffer + run.handled <= Len(run.pages)
      /\ run.kind \in {"text", "three"} /\ run.kind # "three"
  BY <1>1, <1>2, <1>3 DEF RenderTypes, Comparing
<1>5. run.kind = "text" /\ run.handled + 1 \in 1 .. Len(run.pages) /\ n \in Nat
  <2>1. run.kind = "text" /\ run.buffer > 0
    BY <1>2, <1>4
  <2>2. run.handled + 1 \in 1 .. Len(run.pages)
    BY <1>4, <2>1
  <2>3. n \in Nat
    BY <1>4, <2>2
  <2> HIDE DEF n
  <2> QED BY <2>1, <2>2, <2>3
<1>6. /\ items \in Seq(Painted) /\ Len(items) = n
      /\ Render!Of(Len(run.got), n) \in Seq(Painted) /\ Len(Render!Of(Len(run.got), n)) = n
      /\ got \in Seq(Painted) /\ Len(got) = Len(run.got) + n
  <2>1. Len(run.got) \in Nat
    BY <1>4
  <2> HIDE DEF n
  <2>2. /\ items \in Seq(Painted) /\ Len(items) = n
    BY <1>1, <1>4, <1>5, OfIsSeq
  <2> DEFINE more == Render!Of(Len(run.got), n)
  <2>3. more \in Seq(Painted) /\ Len(more) = n
    BY <1>1, <1>5, <2>1, OfIsSeq
  <2> HIDE DEF more
  <2>4. run.got \o more \in Seq(Painted) /\ Len(run.got \o more) = Len(run.got) + n
    BY <1>4, <2>3, ConcatProperties
  <2> QED BY <2>2, <2>3, <2>4 DEF more
<1>7. /\ run' \in Comparing /\ run' # Render!idle /\ run'.pc = "reading" /\ run'.kind = "text"
      /\ run'.handled = run.handled + 1 /\ run'.pages = run.pages /\ run'.got = got
      /\ run'.buffer = run.buffer - 1
      /\ run'.rendered = IF Render!Painting("run")' THEN run.rendered ELSE run.rendered + n
  <2> HIDE DEF n, got
  <2>1. run.buffer - 1 \in Nat
    BY <1>2, <1>4
  <2>4. PICK next : next = IF Render!Painting("run")' THEN run.rendered ELSE run.rendered + n
    OBVIOUS
  <2>5. next \in Nat
    BY <1>4, <1>5, <2>4
  <2>6. run' = [run EXCEPT !.buffer = run.buffer - 1, !.handled = run.handled + 1, !.got = got,
                  !.rendered = next]
    BY <1>2, <2>4
  <2>2. run' \in Comparing
    <3>1. run.handled + 1 \in Nat /\ got \in Seq(Painted)
      BY <1>4, <1>6
    <3> QED BY <1>3, <2>1, <2>5, <2>6, <3>1, LineHandled
  <2>3. run' # Render!idle
    BY <2>2, RunningIsNotIdle
  <2> QED BY <1>2, <1>3, <1>5, <2>2, <2>3 DEF Comparing
<1> HIDE DEF n, items, got, first
<1>8. PICK hunks : hunks = (IF first THEN <<>> ELSE screen) \o items
  OBVIOUS
<1>9. /\ gate' \in [token : Nat, cancelled : BOOLEAN]
      /\ screen' \in Seq(Painted) /\ renders' \subseteq Unpainted /\ OneRenderEach'
      /\ \A r \in renders' : r \in renders \/ (n # 0 /\ r.by = "run" /\ r.token = gate'.token)
      /\ n = 0 => renders' = renders
      /\ renders = {} => Shows(hunks)'
  <2>1. CASE n = 0
    <3>1. gate' = gate /\ renders' = renders /\ screen' = IF first THEN <<>> ELSE screen
      BY <1>2, <2>1
    <3>2. <<>> \in Seq(Painted) /\ screen \in Seq(Painted)
      BY <1>1 DEF RenderTypes
    <3>3. screen' = hunks
      <4>1. items = <<>>
        BY <1>6, <2>1, EmptySeq
      <4>2. screen' \o items = screen'
        BY <3>1, <3>2, <4>1, ConcatEmptySeq
      <4> QED BY <1>8, <3>1, <4>2
    <3>4. renders = {} => Shows(hunks)'
      BY <3>1, <3>3 DEF Shows
    <3> QED BY <1>1, <2>1, <3>1, <3>2, <3>4 DEF RenderTypes, OneRenderEach
  <2>2. CASE n # 0
    <3>1. Render!renderInSlices("run", first, items) /\ first \in BOOLEAN
      BY <1>2, <2>2 DEF first
    <3> QED BY <1>1, <1>6, <1>8, <2>2, <3>1, RenderBegins
  <2> QED BY <2>1, <2>2
<1>10. RenderTypes'
  <2>1. run'.buffer + run'.handled <= Len(run'.pages)
    BY <1>2, <1>4, <1>7
  <2> QED BY <1>1, <1>2, <1>7, <1>9, <2>1 DEF RenderTypes
<1>11. RunPaints'
  <2>1. run'.handled > 0
    BY <1>4, <1>7
  <2> QED BY <1>7, <2>1 DEF RunPaints
<1>12. EventsAreShown'
  BY <1>7 DEF EventsAreShown
<1>13. TextIsShown'
  <2> SUFFICES ASSUME disturbed = {} PROVE TextIsShown'
    BY <1>2 DEF TextIsShown
  <2>1. renders = {}
    BY <1>1, <1>2 DEF TextIsShown, Render!Painting
  <2>2. /\ Shows(run.got) /\ (first => run.got = <<>>) /\ Len(run.got) = run.rendered
    <3>1. Len(run.got) = run.rendered + 0
      BY <1>1, <1>2, <1>3, <1>5 DEF TextIsShown
    <3> QED BY <1>1, <1>3, <1>4, <1>5, <3>1 DEF TextIsShown, first
  <2>3. screen = run.got
    BY <2>1, <2>2 DEF Shows
  <2>4. hunks = got
    <3>1. items = Render!Of(Len(run.got), n)
      BY <2>2 DEF items
    <3> QED BY <1>8, <2>2, <2>3, <3>1 DEF got
  <2>5. Shows(run.got)'
    <3>1. Shows(hunks)' /\ run'.got = hunks
      BY <1>7, <1>9, <2>1, <2>4
    <3> QED BY <3>1 DEF Shows
  <2>6. Len(run'.got) = run'.rendered + IF Render!Painting("run")' THEN run'.pages[run'.handled] ELSE 0
    <3>1. run'.pages[run'.handled] = n
      BY <1>7 DEF n
    <3> QED BY <1>4, <1>5, <1>6, <1>7, <2>2, <3>1
  <2>7. \A r \in renders' : r.by = "run" /\ r.token = gate'.token
    BY <1>9, <2>1
  <2>8. run'.handled # 0
    BY <1>4, <1>7
  <2> QED BY <1>7, <2>5, <2>6, <2>7, <2>8 DEF TextIsShown
<1> QED BY <1>9, <1>10, <1>11, <1>12, <1>13 DEF RenderInv

\* A comparison begins.
LEMMA ComparisonBegins ==
  ASSUME RenderInv, NEW how \in {"text", "three"}, NEW restoring \in BOOLEAN,
         Render!Compare(how, restoring)
  PROVE  RenderInv'
<1>1. RenderTypes /\ OneRenderEach /\ RunPaints
  BY DEF RenderInv
<1>2. PICK pages \in RenderPages :
        /\ how = "three" => Len(pages) = 1
        /\ run' = [pc |-> "reading", kind |-> how, pages |-> pages, buffer |-> 0, handled |-> 0,
                   got |-> <<>>, rendered |-> 0, aborted |-> FALSE]
  BY DEF Render!Compare
<1>3. /\ run = Render!idle /\ runs' = runs + 1
      /\ screen' = IF how = "text" THEN <<>> ELSE screen
      /\ lastData' = IF how = "text" THEN Render!none ELSE lastData
      /\ gate' = IF restoring THEN [token |-> gate.token + 1, cancelled |-> TRUE] ELSE gate
      /\ outcome' = [what |-> "running"]
      /\ disturbed' = IF renders = {} THEN {} ELSE {"toggle"}
      /\ renders' = renders /\ threeWay' = threeWay
  BY DEF Render!Compare, Render!cancel
<1>4. pages \in Seq(Nat) /\ Len(pages) \in Nat
  BY RenderAssumption
<1>5. /\ run' \in Comparing /\ run' # Render!idle /\ run'.pc = "reading" /\ run'.kind = how
      /\ run'.got = <<>> /\ run'.handled = 0 /\ run'.buffer = 0 /\ run'.rendered = 0
      /\ run'.pages = pages
  <2>1. run' \in Comparing
    BY <1>2, <1>4 DEF Comparing
  <2> QED BY <1>2, <2>1, RunningIsNotIdle
<1>6. RenderTypes'
  <2>1. screen' \in Seq(Painted)
    BY <1>1, <1>3 DEF RenderTypes
  <2>2. gate' \in [token : Nat, cancelled : BOOLEAN]
    BY <1>1, <1>3 DEF RenderTypes
  <2>3. disturbed' \subseteq {"cancel", "redraw", "toggle"}
    BY <1>3
  <2>4. run'.buffer + run'.handled <= Len(run'.pages)
    BY <1>4, <1>5
  <2>5. runs' \in Nat
    BY <1>1, <1>3 DEF RenderTypes
  <2>6. run'.kind = "three" => Len(run'.pages) = 1
    BY <1>2, <1>5
  <2> QED BY <1>1, <1>3, <1>5, <2>1, <2>2, <2>3, <2>4, <2>5, <2>6 DEF RenderTypes
<1>7. OneRenderEach'
  <2>1. gate.token \in Nat /\ \A r \in renders : r.token \in Nat
    BY <1>1 DEF RenderTypes, Unpainted
  <2>2. gate.token <= gate'.token
    BY <1>3, <2>1
  <2>3. gate'.token \in Nat
    BY <1>3, <2>1
  <2> QED BY <1>1, <1>3, <2>1, <2>2, <2>3 DEF OneRenderEach
<1>8. ~Render!Painting("run")'
  BY <1>1, <1>3 DEF RunPaints, Render!Painting
<1>9. RunPaints'
  BY <1>8 DEF RunPaints
<1>10. TextIsShown'
  <2> SUFFICES ASSUME disturbed' = {} PROVE TextIsShown'
    BY DEF TextIsShown
  <2>1. renders' = {}
    BY <1>3
  <2>2. run'.kind = "text" => Shows(run.got)'
    BY <1>3, <1>5, <2>1 DEF Shows
  <2>3. Len(run'.got) = run'.rendered + 0
    BY <1>5
  <2> QED BY <1>5, <1>8, <2>1, <2>2, <2>3 DEF TextIsShown
<1>11. EventsAreShown'
  BY <1>5 DEF EventsAreShown
<1> QED BY <1>6, <1>7, <1>9, <1>10, <1>11 DEF RenderInv

\* The answers that change no hunk on the screen.
LEMMA QuietStep ==
  ASSUME RenderInv,
         Render!Chunk \/ Render!StreamEnds \/ Render!ContextLoaded \/ Render!Fails
  PROVE  RenderInv'
<1>1. RenderTypes /\ OneRenderEach /\ RunPaints /\ TextIsShown /\ EventsAreShown
  BY DEF RenderInv
<1>2. /\ runs' = runs /\ gate' = gate /\ renders' = renders /\ screen' = screen
      /\ disturbed' = disturbed
  BY DEF Render!Chunk, Render!StreamEnds, Render!ContextLoaded, Render!Fails
<1>3. OneRenderEach'
  BY <1>1, <1>2 DEF OneRenderEach
<1>4. \A hunks : Shows(hunks) => Shows(hunks)'
  BY <1>2 DEF Shows
<1>5. Render!Painting("run")' <=> Render!Painting("run")
  BY <1>2 DEF Render!Painting
<1>6. run # Render!idle /\ run \in Comparing
  <2>1. run # Render!idle
    BY DEF Render!Chunk, Render!StreamEnds, Render!ContextLoaded, Render!Fails, Render!Reading,
           Render!idle
  <2> QED BY <1>1, <2>1 DEF RenderTypes
<1>7. run.kind \in {"text", "three"} /\ run.got \in Seq(Painted)
  BY <1>6 DEF Comparing
<1>8. CASE Render!Chunk
  <2>1. PICK n \in 1 .. Len(run.pages) - run.handled : run' = [run EXCEPT !.buffer = n]
    BY <1>8 DEF Render!Chunk
  <2>2. /\ lastData' = lastData /\ threeWay' = threeWay /\ outcome' = outcome
        /\ run.kind = "text"
    BY <1>8 DEF Render!Chunk
  <2>3. run.handled \in Nat /\ Len(run.pages) \in Nat
    BY <1>6 DEF Comparing
  <2>4. n \in Nat /\ n + run.handled <= Len(run.pages)
    BY <2>3
  <2>5. /\ run' \in Comparing /\ run' # Render!idle /\ run'.pc = run.pc /\ run'.kind = "text"
        /\ run'.got = run.got /\ run'.handled = run.handled /\ run'.pages = run.pages
        /\ run'.rendered = run.rendered /\ run'.buffer = n
    <3>1. run' \in Comparing
      BY <1>6, <2>1, <2>4 DEF Comparing
    <3>2. run' # Render!idle
      BY <3>1, RunningIsNotIdle
    <3> QED BY <1>6, <2>1, <2>2, <3>1, <3>2 DEF Comparing
  <2>6. RenderTypes'
    BY <1>1, <1>2, <2>2, <2>4, <2>5 DEF RenderTypes
  <2>7. RunPaints'
    BY <1>1, <1>5, <1>6, <2>2, <2>5 DEF RunPaints
  <2>8. disturbed = {} => Shows(run.got)'
    <3>1. PICK hunks : hunks = run.got
      OBVIOUS
    <3>2. disturbed = {} => Shows(hunks)
      BY <1>1, <1>6, <2>2, <3>1 DEF TextIsShown
    <3>3. hunks = run'.got
      BY <2>5, <3>1
    <3> QED BY <1>4, <3>2, <3>3 DEF Shows
  <2>9. TextIsShown'
    BY <1>1, <1>2, <1>5, <1>6, <2>2, <2>5, <2>8 DEF TextIsShown
  <2>10. EventsAreShown'
    BY <2>5 DEF EventsAreShown
  <2> QED BY <1>3, <2>6, <2>7, <2>9, <2>10 DEF RenderInv
<1>9. ASSUME run' = Render!idle, ~Render!Painting("run"), threeWay' \in Response \cup {Render!none},
             lastData' \in Response \cup {Render!none},
             NEW w \in {"finished", "cancelled", "failed"},
             outcome' = [what |-> w, kind |-> run.kind, result |-> run.got],
             w = "finished" => run.kind = "text"
      PROVE  RenderInv'
  <2>1. /\ outcome' \in [what : {"finished", "cancelled", "failed"}, kind : {"text", "three"},
                         result : Seq(Painted)]
        /\ outcome'.what = w /\ outcome'.kind = run.kind /\ outcome'.result = run.got
    BY <1>7, <1>9
  <2>2. RenderTypes'
    BY <1>1, <1>2, <1>9, <2>1 DEF RenderTypes
  <2>3. RunPaints'
    BY <1>5, <1>9 DEF RunPaints
  <2>4. TextIsShown'
    <3> SUFFICES ASSUME disturbed = {} PROVE TextIsShown'
      BY <1>2 DEF TextIsShown
    <3>1. renders = {}
      BY <1>1, <1>9 DEF TextIsShown, Render!Painting
    <3>2. w = "finished" => screen = run.got
      BY <1>1, <1>6, <1>9, <3>1 DEF TextIsShown, Shows
    <3> QED BY <1>2, <1>9, <2>1, <3>1, <3>2 DEF TextIsShown
  <2>5. EventsAreShown'
    BY <1>9, <2>1 DEF EventsAreShown
  <2> QED BY <1>3, <2>2, <2>3, <2>4, <2>5 DEF RenderInv
<1>10. CASE Render!StreamEnds
  <2>1. /\ lastData' = [hunks |-> <<>>] /\ threeWay' = Render!none
        /\ run.kind = "text" /\ run.pc = "reading" /\ ~Render!Painting("run")
    BY <1>10 DEF Render!StreamEnds, Render!Reading
  <2>2. lastData' \in Response
    <3>1. <<>> \in Seq(Painted)
      OBVIOUS
    <3> QED BY <2>1, <3>1 DEF Response
  <2>3. CASE run.got = <<>>
    <3>1. PICK w : w = IF gate.cancelled THEN "cancelled" ELSE "finished"
      OBVIOUS
    <3>2. run' = Render!idle /\ outcome' = [what |-> w, kind |-> run.kind, result |-> run.got]
      BY <1>10, <2>3, <3>1 DEF Render!StreamEnds, Render!End
    <3> QED BY <1>9, <2>1, <2>2, <3>1, <3>2
  <2>4. CASE run.got # <<>>
    <3>1. run' = [run EXCEPT !.pc = "context"] /\ outcome' = outcome
      BY <1>10, <2>4 DEF Render!StreamEnds
    <3>2. /\ run' \in Comparing /\ run' # Render!idle /\ run'.pc = "context" /\ run'.kind = "text"
          /\ run'.got = run.got /\ run'.handled = run.handled /\ run'.pages = run.pages
          /\ run'.rendered = run.rendered /\ run'.buffer = run.buffer
      <4>1. run' \in Comparing
        BY <1>6, <3>1 DEF Comparing
      <4>2. run' # Render!idle
        BY <4>1, RunningIsNotIdle
      <4> QED BY <1>6, <2>1, <3>1, <4>1, <4>2 DEF Comparing
    <3>3. RenderTypes'
      BY <1>1, <1>2, <1>6, <2>1, <2>2, <3>1, <3>2 DEF RenderTypes
    <3>4. RunPaints'
      BY <1>5, <2>1 DEF RunPaints
    <3>5. disturbed = {} => Shows(run.got)'
      <4>1. PICK hunks : hunks = run.got
        OBVIOUS
      <4>2. disturbed = {} => Shows(hunks)
        BY <1>1, <1>6, <2>1, <4>1 DEF TextIsShown
      <4>3. hunks = run'.got
        BY <3>2, <4>1
      <4> QED BY <1>4, <4>2, <4>3 DEF Shows
    <3>6. disturbed = {} => renders' = {}
      BY <1>1, <1>2, <2>1 DEF TextIsShown, Render!Painting
    <3>7. TextIsShown'
      BY <1>1, <1>2, <1>5, <1>6, <2>1, <3>2, <3>5, <3>6 DEF TextIsShown
    <3>8. EventsAreShown'
      BY <3>2 DEF EventsAreShown
    <3> QED BY <1>3, <3>3, <3>4, <3>7, <3>8 DEF RenderInv
  <2> QED BY <2>3, <2>4
<1>11. CASE Render!ContextLoaded
  <2>1. PICK w : w = IF gate.cancelled THEN "cancelled" ELSE "finished"
    OBVIOUS
  <2>2. /\ run' = Render!idle /\ outcome' = [what |-> w, kind |-> run.kind, result |-> run.got]
        /\ lastData' = lastData /\ threeWay' = threeWay /\ run.pc = "context"
    BY <1>11, <2>1 DEF Render!ContextLoaded, Render!End
  <2>3. ~Render!Painting("run")
    BY <1>1, <2>2 DEF RunPaints
  <2>4. run.kind = "text"
    BY <1>1, <1>6, <1>7, <2>2 DEF RenderTypes
  <2>5. threeWay' \in Response \cup {Render!none} /\ lastData' \in Response \cup {Render!none}
    BY <1>1, <2>2 DEF RenderTypes
  <2> QED BY <1>9, <2>1, <2>2, <2>3, <2>4, <2>5
<1>12. CASE Render!Fails
  <2>1. PICK w : w = IF run.aborted THEN "cancelled" ELSE "failed"
    OBVIOUS
  <2>2. /\ run' = Render!idle /\ outcome' = [what |-> w, kind |-> run.kind, result |-> run.got]
        /\ lastData' = lastData /\ threeWay' = threeWay /\ ~Render!Painting("run")
    BY <1>12, <2>1 DEF Render!Fails, Render!Reading, Render!End
  <2>3. threeWay' \in Response \cup {Render!none} /\ lastData' \in Response \cup {Render!none}
    BY <1>1, <2>2 DEF RenderTypes
  <2> QED BY <1>9, <2>1, <2>2, <2>3
<1> QED BY <1>8, <1>10, <1>11, <1>12

\* Responses that are there are not none.
LEMMA ResponseIsThere ==
  ASSUME NEW hunks PROVE [hunks |-> hunks] # Render!none
<1>1. DOMAIN [hunks |-> hunks] = {"hunks"} /\ DOMAIN Render!none = {"none"}
  BY DEF Render!none
<1> QED BY <1>1

\* A three-way response is painted in the place of what was there.
LEMMA ThreeWayAnswered ==
  ASSUME RenderInv, Render!ThreeWayAnswer
  PROVE  RenderInv'
<1>1. RenderTypes /\ OneRenderEach /\ RunPaints /\ TextIsShown /\ EventsAreShown
  BY DEF RenderInv
<1>2. PICK events : events = Render!Of(0, run.pages[1])
  OBVIOUS
<1>3. /\ run.pc = "reading" /\ ~Render!Painting("run") /\ run.kind = "three"
      /\ threeWay' = [hunks |-> events] /\ lastData' = [hunks |-> events]
      /\ Render!renderAll("run", events)
      /\ IF Render!Painting("run")'
         THEN run' = [run EXCEPT !.got = events] /\ outcome' = outcome
         ELSE run' = Render!idle
              /\ outcome' = [what |-> "finished", kind |-> "three", result |-> events]
      /\ runs' = runs /\ disturbed' = disturbed
  BY <1>2 DEF Render!ThreeWayAnswer, Render!Reading
<1>4. run # Render!idle /\ run \in Comparing
  BY <1>1, <1>3 DEF RenderTypes, Render!idle
<1>5. events \in Seq(Painted)
  <2>1. run.pages \in Seq(Nat) /\ Len(run.pages) = 1
    BY <1>1, <1>3, <1>4 DEF RenderTypes, Comparing
  <2>2. run.pages[1] \in Nat
    BY <2>1
  <2> QED BY <1>1, <1>2, <2>2, OfIsSeq
<1>6. /\ gate' \in [token : Nat, cancelled : BOOLEAN]
      /\ screen' \in Seq(Painted) /\ renders' \subseteq Unpainted /\ OneRenderEach'
      /\ renders \subseteq renders'
      /\ \A r \in renders' : r \in renders \/ (r.by = "run" /\ r.token = gate'.token)
      /\ events # <<>> => Shows(events)'
      /\ events = <<>> => screen' = <<>> /\ renders' = renders
  BY <1>1, <1>3, <1>5, RenderedAnew
<1>7. threeWay' \in Response /\ lastData' \in Response
  BY <1>3, <1>5 DEF Response
<1>8. events = <<>> => ~Render!Painting("run")'
  BY <1>3, <1>6 DEF Render!Painting
<1>9. CASE Render!Painting("run")'
  <2>1. run' = [run EXCEPT !.got = events] /\ outcome' = outcome /\ events # <<>>
    BY <1>3, <1>8, <1>9
  <2>2. /\ run' \in Comparing /\ run' # Render!idle /\ run'.pc = "reading" /\ run'.kind = "three"
        /\ run'.got = events /\ run'.buffer = run.buffer /\ run'.handled = run.handled
        /\ run'.pages = run.pages
    <3>1. run' \in Comparing
      BY <1>4, <1>5, <2>1 DEF Comparing
    <3>2. run' # Render!idle
      BY <3>1, RunningIsNotIdle
    <3> QED BY <1>3, <1>4, <2>1, <3>1, <3>2 DEF Comparing
  <2>3. RenderTypes'
    BY <1>1, <1>3, <1>4, <1>6, <1>7, <2>1, <2>2 DEF RenderTypes
  <2>4. RunPaints'
    BY <2>1, <2>2 DEF RunPaints
  <2>5. TextIsShown'
    <3>1. disturbed = {} => renders = {}
      BY <1>1, <1>3 DEF TextIsShown, Render!Painting
    <3>2. disturbed = {} => \A r \in renders' : r.by = "run" /\ r.token = gate'.token
      BY <1>6, <3>1
    <3> QED BY <1>3, <2>2, <3>2 DEF TextIsShown
  <2>6. EventsAreShown'
    <3>1. run'.got = events /\ Shows(events)'
      BY <1>6, <2>1, <2>2
    <3>2. Shows(run.got)'
      BY <3>1 DEF Shows
    <3> QED BY <1>3, <2>2, <3>2 DEF EventsAreShown
  <2> QED BY <1>6, <2>3, <2>4, <2>5, <2>6 DEF RenderInv
<1>10. CASE ~Render!Painting("run")'
  <2>1. /\ run' = Render!idle
        /\ outcome' = [what |-> "finished", kind |-> "three", result |-> events]
    BY <1>3, <1>10
  <2>2. /\ outcome' \in [what : {"finished", "cancelled", "failed"}, kind : {"text", "three"},
                         result : Seq(Painted)]
        /\ outcome'.what = "finished" /\ outcome'.kind = "three" /\ outcome'.result = events
    BY <1>5, <2>1
  <2>3. RenderTypes'
    BY <1>1, <1>3, <1>6, <1>7, <2>1, <2>2 DEF RenderTypes
  <2>4. RunPaints'
    BY <1>10 DEF RunPaints
  <2>5. TextIsShown'
    <3> SUFFICES ASSUME disturbed = {} PROVE TextIsShown'
      BY <1>3 DEF TextIsShown
    <3>1. renders = {}
      BY <1>1, <1>3 DEF TextIsShown, Render!Painting
    <3>2. renders' = {}
      BY <1>6, <1>10, <3>1 DEF Render!Painting
    <3>3. screen' = events
      BY <1>6, <3>2 DEF Shows
    <3> QED BY <1>3, <2>1, <2>2, <3>2, <3>3 DEF TextIsShown
  <2>6. EventsAreShown'
    <3>1. events # <<>> => Shows(outcome.result)'
      BY <1>6, <2>2 DEF Shows
    <3> QED BY <1>3, <2>1, <2>2, <3>1 DEF EventsAreShown
  <2> QED BY <1>6, <2>3, <2>4, <2>5, <2>6 DEF RenderInv
<1> QED BY <1>9, <1>10

\* A change of the display options draws the last response.
LEMMA DisplayChanged ==
  ASSUME RenderInv, Render!DisplayChange
  PROVE  RenderInv'
<1>1. RenderTypes /\ OneRenderEach /\ RunPaints /\ EventsAreShown
  BY DEF RenderInv
<1>2. /\ disturbed' = disturbed \cup {IF run = Render!idle THEN "redraw" ELSE "toggle"}
      /\ IF threeWay # Render!none THEN Render!renderAll("display", threeWay.hunks)
         ELSE IF lastData # Render!none THEN Render!renderAll("display", lastData.hunks)
         ELSE gate' = gate /\ renders' = renders /\ screen' = screen
      /\ lastData' = IF threeWay # Render!none THEN threeWay ELSE lastData
      /\ runs' = runs /\ run' = run /\ threeWay' = threeWay /\ outcome' = outcome
  BY DEF Render!DisplayChange
<1>3. /\ gate' \in [token : Nat, cancelled : BOOLEAN]
      /\ screen' \in Seq(Painted) /\ renders' \subseteq Unpainted /\ OneRenderEach'
      /\ \A r \in renders' : r \in renders \/ r.by = "display"
      /\ threeWay # Render!none /\ threeWay.hunks # <<>> => Shows(threeWay.hunks)'
  <2>1. ASSUME NEW hunks \in Seq(Painted), Render!renderAll("display", hunks)
        PROVE  /\ gate' \in [token : Nat, cancelled : BOOLEAN]
               /\ screen' \in Seq(Painted) /\ renders' \subseteq Unpainted /\ OneRenderEach'
               /\ \A r \in renders' : r \in renders \/ r.by = "display"
               /\ hunks # <<>> => Shows(hunks)'
    BY <1>1, <2>1, RenderedAnew
  <2>2. CASE threeWay # Render!none
    <3>1. PICK hunks : hunks = threeWay.hunks
      OBVIOUS
    <3>2. hunks \in Seq(Painted)
      BY <1>1, <2>2, <3>1 DEF RenderTypes, Response
    <3>3. Render!renderAll("display", hunks)
      BY <1>2, <2>2, <3>1
    <3>4. hunks # <<>> => Shows(hunks)'
      BY <2>1, <3>2, <3>3
    <3>5. threeWay.hunks # <<>> => Shows(threeWay.hunks)'
      BY <1>2, <3>1, <3>4 DEF Shows
    <3> QED BY <2>1, <3>2, <3>3, <3>5
  <2>3. CASE threeWay = Render!none /\ lastData # Render!none
    <3>1. PICK hunks : hunks = lastData.hunks
      OBVIOUS
    <3>2. hunks \in Seq(Painted)
      BY <1>1, <2>3, <3>1 DEF RenderTypes, Response
    <3>3. Render!renderAll("display", hunks)
      BY <1>2, <2>3, <3>1
    <3> QED BY <2>1, <2>3, <3>2, <3>3
  <2>4. CASE threeWay = Render!none /\ lastData = Render!none
    <3>1. gate' = gate /\ renders' = renders /\ screen' = screen
      BY <1>2, <2>4
    <3> QED BY <1>1, <2>4, <3>1 DEF RenderTypes, OneRenderEach
  <2> QED BY <2>2, <2>3, <2>4
<1>4. RenderTypes'
  BY <1>1, <1>2, <1>3 DEF RenderTypes
<1>5. Render!Painting("run")' => Render!Painting("run")
  BY <1>3 DEF Render!Painting
<1>6. RunPaints'
  BY <1>1, <1>2, <1>5 DEF RunPaints
<1>7. TextIsShown'
  BY <1>2 DEF TextIsShown
<1>8. EventsAreShown'
  <2> SUFFICES ASSUME "cancel" \notin disturbed PROVE EventsAreShown'
    BY <1>2 DEF EventsAreShown
  <2>1. ASSUME NEW hunks, hunks # <<>>, threeWay = [hunks |-> hunks] PROVE Shows(hunks)'
    <3>1. threeWay # Render!none /\ threeWay.hunks = hunks
      BY <2>1, ResponseIsThere
    <3> QED BY <1>2, <1>3, <2>1, <3>1 DEF Shows
  <2>2. ASSUME run = Render!idle, outcome.what = "finished", outcome.kind = "three",
               outcome.result # <<>>
        PROVE  threeWay = [hunks |-> outcome.result] /\ Shows(outcome.result)'
    <3>1. PICK hunks : hunks = outcome.result
      OBVIOUS
    <3>2. threeWay = [hunks |-> hunks] /\ hunks # <<>>
      BY <1>1, <2>2, <3>1 DEF EventsAreShown
    <3>3. Shows(hunks)'
      BY <2>1, <3>2
    <3> QED BY <1>2, <3>1, <3>2, <3>3 DEF Shows
  <2>3. ASSUME run # Render!idle, run.kind = "three", run.got # <<>>
        PROVE  threeWay = [hunks |-> run.got] /\ Shows(run.got)'
    <3>1. PICK hunks : hunks = run.got
      OBVIOUS
    <3>2. threeWay = [hunks |-> hunks] /\ hunks # <<>>
      BY <1>1, <2>3, <3>1 DEF EventsAreShown
    <3>3. Shows(hunks)'
      BY <2>1, <3>2
    <3> QED BY <1>2, <3>1, <3>2, <3>3 DEF Shows
  <2> QED BY <1>2, <2>2, <2>3 DEF EventsAreShown
<1> QED BY <1>3, <1>4, <1>6, <1>7, <1>8 DEF RenderInv

\* Cancel makes every render stale.
LEMMA Cancelled ==
  ASSUME RenderInv, Render!Cancel
  PROVE  RenderInv'
<1>1. RenderTypes /\ OneRenderEach /\ RunPaints
  BY DEF RenderInv
<1>2. /\ run # Render!idle /\ run' = [run EXCEPT !.aborted = TRUE]
      /\ gate' = [token |-> gate.token + 1, cancelled |-> TRUE]
      /\ disturbed' = disturbed \cup {"cancel"}
      /\ runs' = runs /\ renders' = renders /\ screen' = screen /\ lastData' = lastData
      /\ threeWay' = threeWay /\ outcome' = outcome
  BY DEF Render!Cancel, Render!cancel
<1>3. run \in Comparing
  BY <1>1, <1>2 DEF RenderTypes
<1>4. /\ run' \in Comparing /\ run' # Render!idle /\ run'.pc = run.pc /\ run'.kind = run.kind
      /\ run'.got = run.got /\ run'.buffer = run.buffer /\ run'.handled = run.handled
      /\ run'.pages = run.pages
  <2>1. run' \in Comparing
    BY <1>2, <1>3 DEF Comparing
  <2>2. run' # Render!idle
    BY <2>1, RunningIsNotIdle
  <2> QED BY <1>2, <1>3, <2>1, <2>2 DEF Comparing
<1>5. gate.token \in Nat /\ gate'.token = gate.token + 1
      /\ gate' \in [token : Nat, cancelled : BOOLEAN]
  BY <1>1, <1>2 DEF RenderTypes
<1>6. RenderTypes'
  BY <1>1, <1>2, <1>4, <1>5 DEF RenderTypes
<1>7. OneRenderEach'
  <2>1. \A r \in renders : r.token \in Nat
    BY <1>1 DEF RenderTypes, Unpainted
  <2> QED BY <1>1, <1>2, <1>5, <2>1 DEF OneRenderEach
<1>8. RunPaints'
  BY <1>1, <1>2, <1>4 DEF RunPaints, Render!Painting
<1>9. TextIsShown' /\ EventsAreShown'
  BY <1>2 DEF TextIsShown, EventsAreShown
<1> QED BY <1>6, <1>7, <1>8, <1>9 DEF RenderInv

\* A render that gets the thread again goes on, or stops because it is stale.
LEMMA Resumed ==
  ASSUME RenderInv, NEW r \in renders, Render!Resume(r)
  PROVE  RenderInv'
<1>1. RenderTypes /\ OneRenderEach /\ RunPaints /\ TextIsShown /\ EventsAreShown
  BY DEF RenderInv
<1> DEFINE stopped == r.token # gate.token
           n == IF run.kind = "text" THEN run.pages[run.handled] ELSE 0
<1>2. /\ IF stopped THEN renders' = renders \ {r} /\ screen' = screen
         ELSE Render!Slice(r, r.token, r.left)
      /\ IF r.by = "display" \/ Render!Painting("run")' THEN run' = run /\ outcome' = outcome
         ELSE IF run.kind = "text"
         THEN run' = [run EXCEPT !.rendered = IF stopped THEN run.rendered ELSE run.rendered + n]
              /\ outcome' = outcome
         ELSE \E w \in {"finished", "cancelled"} :
                /\ run' = Render!idle
                /\ outcome' = [what |-> w, kind |-> run.kind, result |-> run.got]
      /\ runs' = runs /\ gate' = gate /\ lastData' = lastData /\ threeWay' = threeWay
      /\ disturbed' = disturbed
  BY DEF Render!Resume, Render!isCurrent, Render!End
<1>3. r \in Unpainted /\ r.by \in {"run", "display"} /\ screen \in Seq(Painted)
      /\ renders \subseteq Unpainted
  BY <1>1 DEF RenderTypes, Unpainted
<1>4. ASSUME NEW hunks, Shows(hunks)
      PROVE  Shows(hunks)'
  <2>1. CASE stopped
    <3>1. renders' = renders \ {r} /\ screen' = screen /\ gate' = gate
      BY <1>2, <2>1
    <3> QED BY <1>4, <2>1, <3>1 DEF Shows
  <2>2. CASE ~stopped
    BY <1>1, <1>2, <1>4, <2>2, RenderGoesOn
  <2> QED BY <2>1, <2>2
<1>5. /\ screen' \in Seq(Painted) /\ renders' \subseteq Unpainted /\ OneRenderEach'
      /\ \A q \in renders' : \E p \in renders : q.by = p.by /\ q.token = p.token
  <2>1. CASE stopped
    <3>1. renders' = renders \ {r} /\ screen' = screen /\ gate' = gate
      BY <1>2, <2>1
    <3> QED BY <1>1, <1>3, <3>1 DEF OneRenderEach
  <2>2. CASE ~stopped
    <3>1. PICK hunks : hunks = screen \o r.left
      OBVIOUS
    <3>2. Shows(hunks)
      BY <2>2, <3>1 DEF Shows
    <3> QED BY <1>1, <1>2, <2>2, <3>2, RenderGoesOn
  <2> QED BY <2>1, <2>2
<1>6. Render!Painting("run")' => Render!Painting("run")
  BY <1>5 DEF Render!Painting
<1>7. disturbed = {} =>
        /\ ~stopped /\ r.by = "run"
        /\ \A q \in renders' : q.by = "run" /\ q.token = gate'.token
  BY <1>1, <1>2, <1>5 DEF TextIsShown
<1>8. CASE r.by = "display" \/ Render!Painting("run")'
  <2>1. run' = run /\ outcome' = outcome
    BY <1>2, <1>8
  <2>2. RenderTypes'
    BY <1>1, <1>2, <1>5, <2>1 DEF RenderTypes
  <2>3. RunPaints'
    BY <1>1, <1>6, <2>1 DEF RunPaints
  <2>4. \A hunks : Shows(hunks) => Shows(hunks)'
    BY <1>4
  <2>5. (Shows(run.got) => Shows(run.got)') /\ (Shows(outcome.result) => Shows(outcome.result)')
    BY <2>1, <2>4 DEF Shows
  <2>6. TextIsShown'
    <3> SUFFICES ASSUME disturbed = {} PROVE TextIsShown'
      BY <1>2 DEF TextIsShown
    <3>1. Render!Painting("run")' /\ Render!Painting("run")
      BY <1>6, <1>7, <1>8
    <3>2. run # Render!idle /\ run.pc = "reading"
      BY <1>1, <3>1 DEF RunPaints
    <3> QED BY <1>1, <1>7, <2>1, <2>5, <3>1, <3>2 DEF TextIsShown
  <2>7. EventsAreShown'
    BY <1>1, <1>2, <2>1, <2>5 DEF EventsAreShown
  <2> QED BY <1>5, <2>2, <2>3, <2>6, <2>7 DEF RenderInv
<1>9. CASE r.by # "display" /\ ~Render!Painting("run")'
  <2>1. r.by = "run" /\ Render!Painting("run") /\ ~Render!Painting("run")'
    BY <1>3, <1>9 DEF Render!Painting
  <2>2. /\ run # Render!idle /\ run \in Comparing /\ run.pc = "reading"
        /\ IF run.kind = "text" THEN run.handled > 0 ELSE run.got # <<>>
    BY <1>1, <2>1 DEF RunPaints, RenderTypes
  <2>3. /\ run.kind \in {"text", "three"} /\ run.handled \in Nat /\ run.buffer \in Nat
        /\ run.pages \in Seq(Nat) /\ run.got \in Seq(Painted) /\ run.rendered \in Nat
        /\ run.buffer + run.handled <= Len(run.pages) /\ Len(run.pages) \in Nat
    BY <1>1, <2>2 DEF Comparing, RenderTypes
  <2>4. RunPaints'
    BY <2>1 DEF RunPaints
  <2>5. CASE run.kind = "text"
    <3>1. n \in Nat /\ n = run.pages[run.handled]
      <4>1. run.handled \in 1 .. Len(run.pages)
        <5>1. run.handled > 0
          BY <2>2, <2>5
        <5> QED BY <2>3, <5>1
      <4>2. run.pages[run.handled] \in Nat
        BY <2>3, <4>1
      <4>3. n = run.pages[run.handled]
        BY <2>2, <2>5
      <4> QED BY <4>2, <4>3
    <3>2. PICK next : next = IF stopped THEN run.rendered ELSE run.rendered + n
      OBVIOUS
    <3>3. next \in Nat
      <4> HIDE DEF n
      <4> QED BY <2>3, <3>1, <3>2
    <3>4. run' = [run EXCEPT !.rendered = next] /\ outcome' = outcome
      BY <1>2, <1>9, <2>5, <3>2
    <3>5. /\ run' \in Comparing /\ run' # Render!idle /\ run'.pc = "reading"
          /\ run'.kind = "text" /\ run'.got = run.got /\ run'.buffer = run.buffer
          /\ run'.handled = run.handled /\ run'.pages = run.pages /\ run'.rendered = next
      <4>1. run' \in Comparing
        BY <2>2, <3>3, <3>4 DEF Comparing
      <4>2. run' # Render!idle
        BY <4>1, RunningIsNotIdle
      <4> QED BY <2>2, <2>5, <3>4, <4>1, <4>2 DEF Comparing
    <3>6. RenderTypes'
      BY <1>1, <1>2, <1>5, <2>3, <3>4, <3>5 DEF RenderTypes
    <3>7. TextIsShown'
      <4> SUFFICES ASSUME disturbed = {} PROVE TextIsShown'
        BY <1>2 DEF TextIsShown
      <4>1. PICK hunks : hunks = run.got
        OBVIOUS
      <4>2. Shows(hunks)
        BY <1>1, <2>2, <2>5, <4>1 DEF TextIsShown
      <4>3. Shows(run.got)'
        BY <1>4, <3>5, <4>1, <4>2 DEF Shows
      <4>4. Len(run.got) = run.rendered + run.pages[run.handled]
        BY <1>1, <2>1, <2>2, <2>5 DEF TextIsShown
      <4>5. Len(run'.got) = run'.rendered + 0
        <5>1. next = run.rendered + n
          BY <1>7, <3>2
        <5> HIDE DEF n
        <5> QED BY <2>3, <3>1, <3>5, <4>4, <5>1
      <4>6. run'.handled # 0
        BY <2>2, <2>3, <2>5, <3>5
      <4> QED BY <1>7, <2>1, <3>5, <4>3, <4>5, <4>6 DEF TextIsShown
    <3>8. EventsAreShown'
      BY <3>5 DEF EventsAreShown
    <3> QED BY <1>5, <2>4, <3>6, <3>7, <3>8 DEF RenderInv
  <2>6. CASE run.kind # "text"
    <3>1. PICK w \in {"finished", "cancelled"} :
            /\ run' = Render!idle
            /\ outcome' = [what |-> w, kind |-> run.kind, result |-> run.got]
      BY <1>2, <1>9, <2>6
    <3>2. run.kind = "three" /\ run.got # <<>>
      BY <2>2, <2>3, <2>6
    <3>3. /\ outcome' \in [what : {"finished", "cancelled", "failed"}, kind : {"text", "three"},
                           result : Seq(Painted)]
          /\ outcome'.kind = "three" /\ outcome'.result = run.got
      BY <2>3, <3>1, <3>2
    <3>4. RenderTypes'
      BY <1>1, <1>2, <1>5, <3>1, <3>3 DEF RenderTypes
    <3>5. PICK hunks : hunks = run.got
      OBVIOUS
    <3>6. "cancel" \notin disturbed => threeWay = [hunks |-> hunks] /\ Shows(hunks)'
      BY <1>1, <1>4, <2>2, <3>2, <3>5 DEF EventsAreShown
    <3>7. EventsAreShown'
      <4>1. "cancel" \notin disturbed => Shows(outcome.result)'
        BY <3>3, <3>5, <3>6 DEF Shows
      <4> QED BY <1>2, <3>1, <3>3, <3>5, <3>6, <4>1 DEF EventsAreShown
    <3>8. TextIsShown'
      <4> SUFFICES ASSUME disturbed = {} PROVE TextIsShown'
        BY <1>2 DEF TextIsShown
      <4>1. renders' = {}
        BY <1>7, <2>1 DEF Render!Painting
      <4>2. screen' = hunks
        <5>1. Shows(hunks)'
          BY <3>6
        <5> QED BY <4>1, <5>1 DEF Shows
      <4> QED BY <1>7, <3>1, <3>3, <3>5, <4>1, <4>2 DEF TextIsShown
    <3> QED BY <1>5, <2>4, <3>4, <3>7, <3>8 DEF RenderInv
  <2> QED BY <2>5, <2>6
<1> QED BY <1>3, <1>8, <1>9

LEMMA RenderInit == Render!Init => RenderInv
<1> SUFFICES ASSUME Render!Init PROVE RenderInv
  OBVIOUS
<1>1. /\ runs = 0 /\ run = Render!idle /\ gate = [token |-> 0, cancelled |-> FALSE]
      /\ renders = {} /\ screen = <<>> /\ lastData = Render!none /\ threeWay = Render!none
      /\ outcome = [what |-> "running"] /\ disturbed = {}
  BY DEF Render!Init
<1>2. RenderTypes
  BY <1>1 DEF RenderTypes
<1>3. OneRenderEach /\ RunPaints
  BY <1>1 DEF OneRenderEach, RunPaints, Render!Painting
<1>4. TextIsShown /\ EventsAreShown
  BY <1>1 DEF TextIsShown, EventsAreShown
<1> QED BY <1>2, <1>3, <1>4 DEF RenderInv

LEMMA RenderNext == RenderInv /\ [Render!Next]_(Render!vars) => RenderInv'
<1> SUFFICES ASSUME RenderInv, [Render!Next]_(Render!vars) PROVE RenderInv'
  OBVIOUS
<1>1. CASE UNCHANGED Render!vars
  <2>1. /\ runs' = runs /\ run' = run /\ gate' = gate /\ renders' = renders /\ screen' = screen
        /\ lastData' = lastData /\ threeWay' = threeWay /\ outcome' = outcome
        /\ disturbed' = disturbed
    BY <1>1 DEF Render!vars
  <2>2. RenderTypes' /\ OneRenderEach' /\ RunPaints'
    BY <2>1 DEF RenderInv, RenderTypes, OneRenderEach, RunPaints, Render!Painting
  <2>3. (Shows(run.got) => Shows(run.got)') /\ (Shows(outcome.result) => Shows(outcome.result)')
    BY <2>1 DEF Shows
  <2>4. Render!Painting("run")' <=> Render!Painting("run")
    BY <2>1 DEF Render!Painting
  <2>5. TextIsShown'
    BY <2>1, <2>3, <2>4 DEF RenderInv, TextIsShown
  <2>6. EventsAreShown'
    BY <2>1, <2>3 DEF RenderInv, EventsAreShown
  <2> QED BY <2>2, <2>5, <2>6 DEF RenderInv
<1>2. ASSUME NEW how \in {"text", "three"}, NEW restoring \in BOOLEAN,
             Render!Compare(how, restoring)
      PROVE  RenderInv'
  BY <1>2, ComparisonBegins
<1>3. CASE Render!Chunk \/ Render!StreamEnds \/ Render!ContextLoaded \/ Render!Fails
  BY <1>3, QuietStep
<1>4. CASE Render!Line
  BY <1>4, PagePainted
<1>5. CASE Render!ThreeWayAnswer
  BY <1>5, ThreeWayAnswered
<1>6. ASSUME NEW r \in renders, Render!Resume(r) PROVE RenderInv'
  BY <1>6, Resumed
<1>7. CASE Render!Cancel
  BY <1>7, Cancelled
<1>8. CASE Render!DisplayChange
  BY <1>8, DisplayChanged
<1> QED BY <1>1, <1>2, <1>3, <1>4, <1>5, <1>6, <1>7, <1>8 DEF Render!Next

\* For all pages, slices, cancellations and changes of the display: what is reported as
\* finished is on the screen when nothing is being painted any more, where the
\* property says so (app.js:6235-6449, renderqueue.js:26-72).
THEOREM FinishedShown == ViewsSpec => []FinishedIsShown
<1>1. RenderInv => FinishedIsShown
  <2> SUFFICES ASSUME RenderInv, Render!Settled,
                      disturbed = {} \/ (outcome.kind = "three" /\ outcome.result # <<>>
                                         /\ "cancel" \notin disturbed)
               PROVE  screen = outcome.result
    BY DEF FinishedIsShown, Render!FinishedIsShown
  <2>1. run = Render!idle /\ renders = {} /\ outcome.what = "finished"
    BY DEF Render!Settled
  <2> QED BY <2>1 DEF RenderInv, TextIsShown, EventsAreShown, Shows
<1> QED BY <1>1, RenderInit, RenderNext, ViewsBehave, PTL

--------------------------------------------------------------------------------
(* The paths of a folder. *)

Name == {Names[n] : n \in DOMAIN Names}

\* The beginning of a beginning.
LEMMA BeginningTwice ==
  ASSUME NEW S, NEW s \in Seq(S), NEW n \in 0 .. Len(s), NEW m \in 0 .. n
  PROVE  SubSeq(SubSeq(s, 1, n), 1, m) = SubSeq(s, 1, m)
<1> DEFINE b == SubSeq(s, 1, n)
<1>1. b \in Seq(S) /\ Len(b) = n /\ \A k \in 1 .. n : b[k] = s[k]
  BY BeginningIsSeq
<1> HIDE DEF b
<1>2. m \in 0 .. Len(b) /\ m \in 0 .. Len(s)
  BY <1>1
<1>3. /\ SubSeq(b, 1, m) \in Seq(S) /\ Len(SubSeq(b, 1, m)) = m
      /\ \A k \in 1 .. m : SubSeq(b, 1, m)[k] = b[k]
  BY <1>1, <1>2, BeginningIsSeq
<1>4. /\ SubSeq(s, 1, m) \in Seq(S) /\ Len(SubSeq(s, 1, m)) = m
      /\ \A k \in 1 .. m : SubSeq(s, 1, m)[k] = s[k]
  BY <1>2, BeginningIsSeq
<1>5. \A k \in 1 .. m : SubSeq(b, 1, m)[k] = SubSeq(s, 1, m)[k]
  BY <1>1, <1>3, <1>4
<1>6. SubSeq(b, 1, m) = SubSeq(s, 1, m)
  BY <1>3, <1>4, <1>5, SeqEqual
<1> QED BY <1>6 DEF b

\* A folder above a path is shorter and begins it, and what is above it is above the path.
LEMMA AboveIs ==
  ASSUME NEW S, NEW p \in Seq(S), NEW f \in Folder!Above(p)
  PROVE  /\ f \in Seq(S) /\ Len(f) \in 1 .. Len(p) - 1 /\ f = SubSeq(p, 1, Len(f))
         /\ Folder!Above(f) \subseteq Folder!Above(p)
<1>1. PICK n \in 1 .. Len(p) - 1 : f = SubSeq(p, 1, n)
  BY DEF Folder!Above
<1>2. n \in 0 .. Len(p)
  BY <1>1
<1>3. f \in Seq(S) /\ Len(f) = n
  BY <1>1, <1>2, BeginningIsSeq
<1>4. ASSUME NEW m \in 1 .. Len(f) - 1
      PROVE  SubSeq(f, 1, m) \in Folder!Above(p)
  <2>1. m \in 0 .. n /\ m \in 1 .. Len(p) - 1
    BY <1>3
  <2>2. SubSeq(f, 1, m) = SubSeq(p, 1, m)
    BY <1>1, <1>2, <2>1, BeginningTwice
  <2> QED BY <2>1, <2>2 DEF Folder!Above
<1> QED BY <1>1, <1>3, <1>4 DEF Folder!Above

\* Directly in a folder is what has that folder above it, and what is above the folder.
LEMMA AboveChild ==
  ASSUME NEW S, NEW f \in Seq(S), NEW g \in Seq(S), Folder!IsPrefix(f, g),
         Len(g) = Len(f) + 1, NEW h \in Folder!Above(g)
  PROVE  h = f \/ h \in Folder!Above(f)
<1>1. PICK n \in 1 .. Len(g) - 1 : h = SubSeq(g, 1, n)
  BY DEF Folder!Above
<1>2. SubSeq(f, 1, Len(f)) = SubSeq(g, 1, Len(f)) /\ SubSeq(f, 1, Len(f)) = f
  BY SubSeqFull DEF Folder!IsPrefix
<1>3. CASE n = Len(f)
  BY <1>1, <1>2, <1>3
<1>4. CASE n # Len(f)
  <2>1. n \in 1 .. Len(f) - 1 /\ n \in 0 .. Len(f) /\ Len(f) \in 0 .. Len(g)
    BY <1>1, <1>4
  <2>2. SubSeq(SubSeq(g, 1, Len(f)), 1, n) = SubSeq(g, 1, n)
    BY <2>1, BeginningTwice
  <2>3. h = SubSeq(f, 1, n)
    BY <1>1, <1>2, <2>2
  <2> QED BY <2>1, <2>3 DEF Folder!Above
<1> QED BY <1>3, <1>4

\* Prefixes, as the paths use them.
LEMMA PrefixFacts ==
  ASSUME NEW S, NEW f \in Seq(S), NEW g \in Seq(S)
  PROVE  /\ Folder!IsPrefix(f, f)
         /\ Folder!IsPrefix(f, g) => Len(f) <= Len(g)
         /\ \A h \in Seq(S) : Folder!IsPrefix(f, g) /\ Folder!IsPrefix(g, h) =>
              Folder!IsPrefix(f, h)
         /\ \A n \in 1 .. Len(g) : Folder!IsPrefix(SubSeq(g, 1, n), g)
<1>1. Folder!IsPrefix(f, f)
  BY DEF Folder!IsPrefix
<1>2. Folder!IsPrefix(f, g) => Len(f) <= Len(g)
  BY DEF Folder!IsPrefix
<1>3. ASSUME NEW h \in Seq(S), Folder!IsPrefix(f, g), Folder!IsPrefix(g, h)
      PROVE  Folder!IsPrefix(f, h)
  <2>1. /\ Len(f) <= Len(g) /\ SubSeq(f, 1, Len(f)) = SubSeq(g, 1, Len(f))
        /\ Len(g) <= Len(h) /\ SubSeq(g, 1, Len(g)) = SubSeq(h, 1, Len(g))
    BY <1>3 DEF Folder!IsPrefix
  <2>2. g = SubSeq(h, 1, Len(g))
    BY <2>1, SubSeqFull
  <2>3. Len(f) \in 0 .. Len(g) /\ Len(g) \in 0 .. Len(h)
    BY <2>1
  <2>4. SubSeq(SubSeq(h, 1, Len(g)), 1, Len(f)) = SubSeq(h, 1, Len(f))
    BY <2>3, BeginningTwice
  <2>5. Len(f) <= Len(h)
    BY <2>1
  <2> QED BY <2>1, <2>2, <2>4, <2>5 DEF Folder!IsPrefix
<1>4. ASSUME NEW n \in 1 .. Len(g)
      PROVE  Folder!IsPrefix(SubSeq(g, 1, n), g)
  <2>1. n \in 0 .. Len(g) /\ n <= Len(g)
    OBVIOUS
  <2>2. Len(SubSeq(g, 1, n)) = n
    BY <2>1, BeginningIsSeq
  <2>3. SubSeq(SubSeq(g, 1, n), 1, n) = SubSeq(g, 1, n)
    BY <2>1, BeginningTwice
  <2> QED BY <2>1, <2>2, <2>3 DEF Folder!IsPrefix
<1> QED BY <1>1, <1>2, <1>3, <1>4

LEMMA VisibleArePaths ==
  ASSUME NEW t
  PROVE  /\ Folder!Visible(t) \subseteq Seq(Name) /\ Folder!Folders(Folder!Visible(t)) \subseteq Seq(Name)
         /\ \A f \in Folder!Folders(Folder!Visible(t)) : Len(f) >= 1
         /\ \A p \in Folder!Visible(t) \cup Folder!Folders(Folder!Visible(t)) :
              Folder!Above(p) \subseteq Folder!Folders(Folder!Visible(t))
<1> DEFINE V == Folder!Visible(t)
           F == Folder!Folders(V)
<1>1. V \subseteq Seq(Name)
  BY FolderAssumption DEF Name, Folder!Visible, Folder!filterDirectoryEntries, Folder!Paths
<1> HIDE DEF V
<1>2. ASSUME NEW f \in F
      PROVE  f \in Seq(Name) /\ Len(f) >= 1 /\ Folder!Above(f) \subseteq F
  <2>1. PICK p \in V : f \in Folder!Above(p)
    BY <1>2 DEF Folder!Folders
  <2>2. p \in Seq(Name)
    BY <1>1, <2>1
  <2>3. /\ f \in Seq(Name) /\ Len(f) \in 1 .. Len(p) - 1
        /\ Folder!Above(f) \subseteq Folder!Above(p)
    BY <2>1, <2>2, AboveIs
  <2>4. Folder!Above(p) \subseteq F
    BY <2>1 DEF Folder!Folders
  <2>5. Len(f) >= 1
    BY <2>2, <2>3
  <2> QED BY <2>3, <2>4, <2>5
<1>3. \A p \in V : Folder!Above(p) \subseteq F
  BY DEF Folder!Folders
<1> QED BY <1>1, <1>2, <1>3 DEF V

--------------------------------------------------------------------------------
(* The tree. *)

TreeFields ==
  {"swapped", "filter", "query", "flat", "state", "placed", "open", "built", "memo"}

\* The rows made are folders'; the rows in an open folder were made, or are coming.
FoldersOk(t, coming) ==
  /\ DOMAIN t.open \subseteq Folder!Folders(Folder!Visible(t))
  /\ \A f \in DOMAIN t.open : t.open[f] => f \in t.built
  /\ \A f \in t.built, g \in Folder!Folders(Folder!Visible(t)) :
       Folder!Under(f, g) /\ Len(g) = Len(f) + 1 => g \in DOMAIN t.open \cup coming

\* What Made makes of a tree.
IsMade(t, from, m) ==
  /\ DOMAIN m = TreeFields
  /\ m.swapped = t.swapped /\ m.filter = t.filter /\ m.query = t.query /\ m.flat = t.flat
  /\ m.state = t.state /\ m.placed = t.placed /\ m.memo = t.memo
  /\ DOMAIN t.open \cup from \subseteq DOMAIN m.open
  /\ \A f \in DOMAIN m.open :
       m.open[f] = IF f \in DOMAIN t.open THEN t.open[f] ELSE Folder!OpensAt(t, f)
  /\ FoldersOk(m, {})

\* The fields of a tree whose rows were made.
LEMMA MadeFields ==
  ASSUME NEW t, NEW from, DOMAIN t = TreeFields
  PROVE  LET m == Folder!Made(t, from)
             new == Folder!MadeWith(t, from) \ DOMAIN t.open
         IN  /\ DOMAIN m = TreeFields
             /\ m.swapped = t.swapped /\ m.filter = t.filter /\ m.query = t.query
             /\ m.flat = t.flat /\ m.state = t.state /\ m.placed = t.placed
             /\ m.memo = t.memo
             /\ m.open = [f \in DOMAIN t.open \cup new |->
                            IF f \in new THEN Folder!OpensAt(t, f) ELSE t.open[f]]
             /\ m.built = t.built \cup {f \in new : Folder!OpensAt(t, f)}
<1> DEFINE new == Folder!MadeWith(t, from) \ DOMAIN t.open
           open == [f \in DOMAIN t.open \cup new |->
                            IF f \in new THEN Folder!OpensAt(t, f) ELSE t.open[f]]
           opened == {f \in new : Folder!OpensAt(t, f)}
           m == Folder!Made(t, from)
<1>1. m = [t EXCEPT !.open = open, !.built = @ \cup opened]
  BY DEF Folder!Made
<1> HIDE DEF open, opened, m
<1>2. /\ DOMAIN m = TreeFields
      /\ m.swapped = t.swapped /\ m.filter = t.filter /\ m.query = t.query
      /\ m.flat = t.flat /\ m.state = t.state /\ m.placed = t.placed
      /\ m.memo = t.memo /\ m.open = open /\ m.built = t.built \cup opened
  BY <1>1 DEF TreeFields
<1> QED BY <1>2 DEF m, open, opened

LEMMA MadeIs ==
  ASSUME NEW t, DOMAIN t = TreeFields,
         NEW from \in SUBSET Folder!Folders(Folder!Visible(t)), FoldersOk(t, from)
  PROVE  IsMade(t, from, Folder!Made(t, from))
<1> DEFINE F == Folder!Folders(Folder!Visible(t))
           with == Folder!MadeWith(t, from)
           new == with \ DOMAIN t.open
           m == Folder!Made(t, from)
<1>1. /\ DOMAIN m = TreeFields
      /\ m.swapped = t.swapped /\ m.filter = t.filter /\ m.query = t.query
      /\ m.flat = t.flat /\ m.state = t.state /\ m.placed = t.placed
      /\ m.memo = t.memo
      /\ m.open = [f \in DOMAIN t.open \cup new |->
                     IF f \in new THEN Folder!OpensAt(t, f) ELSE t.open[f]]
      /\ m.built = t.built \cup {f \in new : Folder!OpensAt(t, f)}
  BY MadeFields
<1> HIDE DEF m
<1>2. F \subseteq Seq(Name) /\ \A f \in F : Len(f) >= 1
  BY VisibleArePaths
<1>3. with = {g \in F : \E f \in from : Folder!IsPrefix(f, g) /\
                \A h \in Folder!Above(g) : Folder!IsPrefix(f, h) => Folder!OpensAt(t, h)}
  BY DEF Folder!MadeWith
<1>4. Folder!Visible(m) = Folder!Visible(t)
  BY <1>1 DEF Folder!Visible
<1>5. from \subseteq with
  <2> SUFFICES ASSUME NEW f \in from PROVE f \in with
    OBVIOUS
  <2>1. f \in F /\ f \in Seq(Name)
    BY <1>2
  <2>2. ASSUME NEW h \in Folder!Above(f) PROVE ~Folder!IsPrefix(f, h)
    <3>1. h \in Seq(Name) /\ Len(h) \in 1 .. Len(f) - 1
      BY <2>1, AboveIs
    <3>2. Len(f) \in Nat /\ Len(h) \in Nat /\ ~(Len(f) <= Len(h))
      BY <2>1, <3>1
    <3> QED BY <2>1, <3>1, <3>2, PrefixFacts
  <2>3. Folder!IsPrefix(f, f)
    BY <2>1, PrefixFacts
  <2> QED BY <1>3, <2>1, <2>2, <2>3
<1>6. DOMAIN m.open = DOMAIN t.open \cup new
  BY <1>1
<1>7. \A f \in DOMAIN m.open :
        m.open[f] = IF f \in DOMAIN t.open THEN t.open[f] ELSE Folder!OpensAt(t, f)
  BY <1>1
<1>8. with \subseteq F
  BY <1>3
<1>9. DOMAIN t.open \cup from \subseteq DOMAIN m.open
  BY <1>5, <1>6
<1>10. FoldersOk(m, {})
  <2>1. DOMAIN m.open \subseteq Folder!Folders(Folder!Visible(m))
    BY <1>4, <1>6, <1>8 DEF FoldersOk
  <2>2. ASSUME NEW f \in DOMAIN m.open, m.open[f] PROVE f \in m.built
    <3>1. CASE f \in DOMAIN t.open
      BY <1>1, <1>7, <2>2, <3>1 DEF FoldersOk
    <3>2. CASE f \notin DOMAIN t.open
      <4>1. f \in new /\ Folder!OpensAt(t, f)
        BY <1>6, <1>7, <2>2, <3>2
      <4> QED BY <1>1, <4>1
    <3> QED BY <3>1, <3>2
  <2>3. ASSUME NEW f \in m.built, NEW g \in F, Folder!Under(f, g), Len(g) = Len(f) + 1
        PROVE  g \in DOMAIN m.open
    <3>1. CASE f \in t.built
      BY <1>9, <2>3, <3>1 DEF FoldersOk
    <3>2. CASE f \notin t.built
      <4>1. f \in with /\ Folder!OpensAt(t, f)
        BY <1>1, <3>2
      <4>2. PICK e \in from : /\ Folder!IsPrefix(e, f)
                              /\ \A h \in Folder!Above(f) :
                                   Folder!IsPrefix(e, h) => Folder!OpensAt(t, h)
        BY <1>3, <4>1
      <4>3. e \in Seq(Name) /\ f \in Seq(Name) /\ g \in Seq(Name) /\ Folder!IsPrefix(f, g)
        BY <1>2, <1>8, <2>3, <4>1 DEF Folder!Under
      <4>4. Folder!IsPrefix(e, g)
        BY <4>2, <4>3, PrefixFacts
      <4>5. ASSUME NEW h \in Folder!Above(g), Folder!IsPrefix(e, h)
            PROVE  Folder!OpensAt(t, h)
        <5>1. h = f \/ h \in Folder!Above(f)
          BY <2>3, <4>3, AboveChild
        <5> QED BY <4>1, <4>2, <4>5, <5>1
      <4>6. g \in with
        BY <1>3, <4>4, <4>5
      <4> QED BY <1>6, <4>6
    <3> QED BY <3>1, <3>2
  <2> QED BY <1>4, <2>1, <2>2, <2>3 DEF FoldersOk
<1> QED BY <1>1, <1>7, <1>9, <1>10 DEF IsMade, m
\* A tree on the screen, however much of it was placed and opened.
TreeOk(t) ==
  /\ DOMAIN t = TreeFields
  /\ t.swapped \in BOOLEAN
  /\ t.placed \subseteq Folder!TopItems(t)
  /\ ~t.flat => t.placed \cap Folder!Folders(Folder!Visible(t)) \subseteq DOMAIN t.open
  /\ FoldersOk(t, {})

\* Two trees of the same entries that agree on their folders show the same of what
\* both have placed.
LEMMA SeenIn ==
  ASSUME NEW T, NEW t, TreeOk(T), TreeOk(t),
         T.filter = t.filter, T.query = t.query, T.flat = t.flat, T.placed \subseteq t.placed,
         \A f \in DOMAIN T.open \cap DOMAIN t.open : T.open[f] = t.open[f]
  PROVE  Folder!Seen(T) \subseteq Folder!Seen(t)
<1> DEFINE V == Folder!Visible(t)
           F == Folder!Folders(V)
<1>1. CASE t.flat
  BY <1>1 DEF Folder!Seen
<1>2. CASE ~t.flat
  <2>1. Folder!Visible(T) = V
    BY DEF Folder!Visible
  <2>2. SUFFICES ASSUME NEW p \in V \cup DOMAIN T.open, SubSeq(p, 1, 1) \in T.placed,
                        \A f \in Folder!Above(p) : f \in DOMAIN T.open /\ T.open[f]
                 PROVE  p \in Folder!Seen(t)
    BY <1>2, <2>1 DEF Folder!Seen
  <2>3. DOMAIN T.open \subseteq F
    BY <2>1 DEF TreeOk, FoldersOk
  <2> HIDE DEF V
  <2>4. /\ F \subseteq Seq(Name) /\ V \subseteq Seq(Name) /\ \A f \in F : Len(f) >= 1
        /\ \A q \in V \cup F : Folder!Above(q) \subseteq F
    BY VisibleArePaths DEF V
  <2>5. p \in Seq(Name) /\ Folder!Above(p) \subseteq F /\ Len(p) \in Nat
    BY <2>2, <2>3, <2>4
  \* A folder of the first level is placed, and its row was made.
  <2>6. \A f \in F : f = SubSeq(p, 1, 1) => f \in DOMAIN t.open
    BY <1>2, <2>2 DEF TreeOk, V
  \* What is in an open folder was made.
  <2>7. ASSUME NEW f \in DOMAIN t.open, t.open[f], NEW g \in F, f \in Seq(Name),
               f = SubSeq(g, 1, Len(f)), Len(g) = Len(f) + 1
        PROVE  g \in DOMAIN t.open
    <3>1. f \in t.built
      BY <2>7 DEF TreeOk, FoldersOk
    <3>2. Len(f) \in 1 .. Len(g) /\ g \in Seq(Name)
      <4>1. Len(f) >= 1 /\ g \in Seq(Name) /\ Len(f) \in Nat
        BY <2>4, <2>7 DEF TreeOk, FoldersOk, V
      <4> QED BY <2>7, <4>1
    <3>3. Folder!IsPrefix(f, g)
      BY <2>7, <3>2, PrefixFacts
    <3>4. f # g
      BY <2>7
    <3> QED BY <2>7, <3>1, <3>3, <3>4 DEF TreeOk, FoldersOk, Folder!Under, V
  \* So the folders above the row are open, one after the other.
  <2> DEFINE Good == {n \in Nat : n + 1 <= Len(p) - 1 => SubSeq(p, 1, n + 1) \in DOMAIN t.open}
  <2>8. \A n \in 1 .. Len(p) - 1 : SubSeq(p, 1, n) \in F /\ SubSeq(p, 1, n) \in DOMAIN T.open
                                     /\ T.open[SubSeq(p, 1, n)]
    <3>1. \A n \in 1 .. Len(p) - 1 : SubSeq(p, 1, n) \in Folder!Above(p)
      BY DEF Folder!Above
    <3> QED BY <2>2, <2>5, <3>1
  <2>9. 0 \in Good
    <3> SUFFICES ASSUME 1 <= Len(p) - 1 PROVE SubSeq(p, 1, 1) \in DOMAIN t.open
      OBVIOUS
    <3>1. 1 \in 1 .. Len(p) - 1
      BY <2>5
    <3>2. SubSeq(p, 1, 1) \in F
      BY <2>8, <3>1
    <3> QED BY <2>6, <3>2
  <2>10. ASSUME NEW n \in Nat, n \in Good PROVE n + 1 \in Good
    <3> SUFFICES ASSUME n + 2 <= Len(p) - 1 PROVE SubSeq(p, 1, n + 2) \in DOMAIN t.open
      BY DEF Good
    <3> DEFINE f == SubSeq(p, 1, n + 1)
               g == SubSeq(p, 1, n + 2)
    <3>1. n + 1 <= Len(p) - 1 /\ n + 1 \in 1 .. Len(p) - 1 /\ n + 2 \in 1 .. Len(p) - 1
      BY <2>5
    <3>2. f \in DOMAIN t.open
      BY <2>10, <3>1
    <3>3. f \in DOMAIN T.open /\ T.open[f] /\ g \in F
      BY <2>8, <3>1
    <3>4. n + 1 \in 0 .. Len(p) /\ n + 2 \in 0 .. Len(p) /\ n + 1 \in 0 .. n + 2
      BY <2>5, <3>1
    <3>5. f \in Seq(Name) /\ Len(f) = n + 1 /\ Len(g) = n + 2
      BY <2>5, <3>4, BeginningIsSeq
    <3>6. SubSeq(g, 1, n + 1) = f
      BY <2>5, <3>4, BeginningTwice
    <3> HIDE DEF f, g
    <3>7. t.open[f]
      BY <3>2, <3>3
    <3>8. Len(g) = Len(f) + 1 /\ f = SubSeq(g, 1, Len(f))
      BY <3>5, <3>6
    <3>9. g \in DOMAIN t.open
      BY <2>7, <3>2, <3>3, <3>5, <3>7, <3>8
    <3> QED BY <3>9 DEF g
  <2>11. Nat \subseteq Good
    <3> HIDE DEF Good
    <3> QED BY <2>9, <2>10, Induction
  <2>12. \A n \in 1 .. Len(p) - 1 : SubSeq(p, 1, n) \in DOMAIN t.open /\ t.open[SubSeq(p, 1, n)]
    <3> SUFFICES ASSUME NEW n \in 1 .. Len(p) - 1
                 PROVE  SubSeq(p, 1, n) \in DOMAIN t.open /\ t.open[SubSeq(p, 1, n)]
      OBVIOUS
    <3>1. n - 1 \in Nat /\ (n - 1) + 1 = n /\ n <= Len(p) - 1
      BY <2>5
    <3>2. n - 1 \in Good
      BY <2>11, <3>1
    <3>3. SubSeq(p, 1, n) \in DOMAIN t.open
      BY <3>1, <3>2
    <3> QED BY <2>8, <3>3
  <2>13. \A f \in Folder!Above(p) : f \in DOMAIN t.open /\ t.open[f]
    BY <2>12 DEF Folder!Above
  <2>14. p \in V \cup DOMAIN t.open
    <3> SUFFICES ASSUME p \in DOMAIN T.open, p \in F PROVE p \in DOMAIN t.open
      BY <2>3
    <3>1. Len(p) >= 1
      BY <2>4
    <3>2. CASE Len(p) = 1
      <4>1. SubSeq(p, 1, 1) = p
        BY <2>5, <3>2, SubSeqFull
      <4> QED BY <2>6, <4>1
    <3>3. CASE Len(p) # 1
      <4> DEFINE f == SubSeq(p, 1, Len(p) - 1)
      <4>1. Len(p) - 1 \in 1 .. Len(p) - 1 /\ Len(p) - 1 \in 0 .. Len(p)
        <5>1. \A n \in Nat : n >= 1 /\ n # 1 => n - 1 \in 1 .. n - 1 /\ n - 1 \in 0 .. n
          OBVIOUS
        <5>2. Len(p) \in Nat
          BY <2>5
        <5> HIDE DEF f
        <5> QED BY <3>1, <3>3, <5>1, <5>2
      <4>2. f \in DOMAIN t.open /\ t.open[f]
        BY <2>12, <4>1
      <4>3. f \in Seq(Name) /\ Len(f) = Len(p) - 1
        BY <2>5, <4>1, BeginningIsSeq
      <4>4. Len(p) = Len(f) + 1 /\ f = SubSeq(p, 1, Len(f))
        BY <2>5, <4>3
      <4> HIDE DEF f
      <4> QED BY <2>7, <4>2, <4>3, <4>4
    <3> QED BY <3>2, <3>3
  <2>15. SubSeq(p, 1, 1) \in t.placed
    BY <2>2
  <2> QED BY <1>2, <2>13, <2>14, <2>15 DEF Folder!Seen, V
<1> QED BY <1>1, <1>2

\* The tree of Back that is being drawn: as the tree T was left, and no folder
\* opened or closed since.
Remembers(t, T) ==
  /\ TreeOk(T)
  /\ t.state = T.open /\ t.memo = Folder!Leaving(T)
  /\ \A f \in DOMAIN t.open : t.open[f] = Folder!OpensAt(t, f)

\* When all of it is placed, it shows what was left.
LEMMA RememberedIsSeen ==
  ASSUME NEW t, NEW T, TreeOk(t), Remembers(t, T), t.placed = Folder!TopItems(t),
         t.filter = T.filter, t.query = T.query, t.flat = T.flat
  PROVE  IF T.placed = Folder!TopItems(T) THEN Folder!Seen(t) = Folder!Seen(T)
         ELSE Folder!Seen(T) \subseteq Folder!Seen(t)
<1>1. Folder!TopItems(T) = Folder!TopItems(t)
  <2>1. Folder!Visible(T) = Folder!Visible(t)
    BY DEF Folder!Visible
  <2> QED BY <2>1 DEF Folder!TopItems
<1>2. \A f \in DOMAIN T.open \cap DOMAIN t.open : T.open[f] = t.open[f]
  BY DEF Remembers, Folder!OpensAt
<1>3. TreeOk(T) /\ T.placed \subseteq t.placed
  BY <1>1 DEF Remembers, TreeOk
<1>4. Folder!Seen(T) \subseteq Folder!Seen(t)
  BY <1>2, <1>3, SeenIn
<1>5. ASSUME T.placed = Folder!TopItems(T) PROVE Folder!Seen(t) \subseteq Folder!Seen(T)
  <2>1. t.placed \subseteq T.placed /\ \A f \in DOMAIN t.open \cap DOMAIN T.open : t.open[f] = T.open[f]
    BY <1>1, <1>2, <1>5
  <2> QED BY <1>3, <2>1, SeenIn
<1> QED BY <1>4, <1>5
\* More of a tree is placed.
Placed(t, placed, m) ==
  /\ TreeOk(m)
  /\ m.memo = t.memo /\ m.placed = t.placed \cup placed
  /\ Folder!TopItems(m) = Folder!TopItems(t)
  /\ \A T : Remembers(t, T) => Remembers(m, T)

LEMMA AfterPlacing ==
  ASSUME NEW t, TreeOk(t), NEW placed \in SUBSET Folder!TopItems(t), NEW m,
         m = [(IF t.flat THEN t
               ELSE Folder!Made(t, placed \cap Folder!Folders(Folder!Visible(t))))
                EXCEPT !.placed = @ \cup placed]
  PROVE  Placed(t, placed, m)
<1> DEFINE F == Folder!Folders(Folder!Visible(t))
           n == IF t.flat THEN t ELSE Folder!Made(t, placed \cap F)
<1>1. CASE t.flat
  <2>1. m = [t EXCEPT !.placed = @ \cup placed] /\ DOMAIN t = TreeFields
    BY <1>1 DEF TreeOk
  <2>2. /\ DOMAIN m = TreeFields /\ m.swapped = t.swapped /\ m.filter = t.filter
        /\ m.query = t.query /\ m.flat = t.flat /\ m.state = t.state /\ m.memo = t.memo
        /\ m.open = t.open /\ m.built = t.built /\ m.placed = t.placed \cup placed
    BY <2>1 DEF TreeFields
  <2>3. Folder!Visible(m) = Folder!Visible(t)
    BY <2>2 DEF Folder!Visible
  <2>4. Folder!TopItems(m) = Folder!TopItems(t)
    BY <2>2, <2>3 DEF Folder!TopItems
  <2>5. FoldersOk(m, {})
    BY <2>2, <2>3 DEF TreeOk, FoldersOk
  <2>6. TreeOk(m)
    BY <1>1, <2>2, <2>4, <2>5 DEF TreeOk
  <2>7. \A f : Folder!OpensAt(m, f) = Folder!OpensAt(t, f)
    BY <2>2, <2>3 DEF Folder!OpensAt
  <2>8. \A T : Remembers(t, T) => Remembers(m, T)
    BY <2>2, <2>7 DEF Remembers
  <2> QED BY <2>2, <2>4, <2>6, <2>8 DEF Placed
<1>2. CASE ~t.flat
  <2> DEFINE from == placed \cap F
             k == Folder!Made(t, from)
  <2>1. DOMAIN t = TreeFields /\ FoldersOk(t, from) /\ from \in SUBSET F
    BY DEF TreeOk, FoldersOk
  <2>2. IsMade(t, from, k)
    BY <2>1, MadeIs
  <2>3. m = [k EXCEPT !.placed = @ \cup placed]
    BY <1>2
  <2> HIDE DEF k
  <2>4. /\ DOMAIN k = TreeFields
        /\ k.swapped = t.swapped /\ k.filter = t.filter /\ k.query = t.query
        /\ k.flat = t.flat /\ k.state = t.state /\ k.placed = t.placed /\ k.memo = t.memo
        /\ DOMAIN t.open \cup from \subseteq DOMAIN k.open
        /\ \A f \in DOMAIN k.open :
             k.open[f] = IF f \in DOMAIN t.open THEN t.open[f] ELSE Folder!OpensAt(t, f)
        /\ FoldersOk(k, {})
    BY <2>2 DEF IsMade
  <2>5. /\ DOMAIN m = TreeFields /\ m.swapped = t.swapped /\ m.filter = t.filter
        /\ m.query = t.query /\ m.flat = t.flat /\ m.state = t.state /\ m.memo = t.memo
        /\ m.open = k.open /\ m.built = k.built /\ m.placed = t.placed \cup placed
    BY <2>3, <2>4 DEF TreeFields
  <2>6. Folder!Visible(m) = Folder!Visible(t) /\ Folder!Visible(m) = Folder!Visible(k)
    BY <2>4, <2>5 DEF Folder!Visible
  <2>7. Folder!TopItems(m) = Folder!TopItems(t)
    BY <2>5, <2>6 DEF Folder!TopItems
  <2>8. FoldersOk(m, {})
    BY <2>4, <2>5, <2>6 DEF FoldersOk
  <2>9. m.placed \cap F \subseteq DOMAIN m.open
    BY <1>2, <2>4, <2>5 DEF TreeOk
  <2>10. TreeOk(m)
    BY <2>5, <2>6, <2>7, <2>8, <2>9 DEF TreeOk
  <2>11. \A f : Folder!OpensAt(m, f) = Folder!OpensAt(t, f)
    BY <2>5, <2>6 DEF Folder!OpensAt
  <2>12. ASSUME NEW T, Remembers(t, T) PROVE Remembers(m, T)
    <3>1. \A f \in DOMAIN m.open : m.open[f] = Folder!OpensAt(t, f)
      BY <2>4, <2>5, <2>12 DEF Remembers
    <3> QED BY <2>5, <2>11, <2>12, <3>1 DEF Remembers
  <2> QED BY <2>5, <2>7, <2>10, <2>12 DEF Placed
<1> QED BY <1>1, <1>2

\* A click on a folder's row.
LEMMA AfterSetOpen ==
  ASSUME NEW t, TreeOk(t), NEW f \in DOMAIN t.open, NEW open \in BOOLEAN, NEW m,
         m = [Folder!setOpen(t, f, open) EXCEPT !.memo = Folder!none]
  PROVE  /\ TreeOk(m) /\ m.memo = Folder!none
         /\ Folder!TopItems(m) = Folder!TopItems(t)
<1> DEFINE toggled == [t EXCEPT !.open[f] = open,
                                !.built = IF open THEN @ \cup {f} ELSE @]
           F == Folder!Folders(Folder!Visible(t))
           children == {g \in F : Folder!Under(f, g) /\ Len(g) = Len(f) + 1}
           k == Folder!setOpen(t, f, open)
<1>1. DOMAIN t = TreeFields
  BY DEF TreeOk
<1>2. /\ DOMAIN toggled = TreeFields /\ toggled.swapped = t.swapped
      /\ toggled.filter = t.filter /\ toggled.query = t.query /\ toggled.flat = t.flat
      /\ toggled.state = t.state /\ toggled.placed = t.placed /\ toggled.memo = t.memo
      /\ toggled.open = [t.open EXCEPT ![f] = open]
      /\ toggled.built = IF open THEN t.built \cup {f} ELSE t.built
  BY <1>1 DEF TreeFields
<1>3. k = IF open /\ f \notin t.built THEN Folder!Made(toggled, children) ELSE toggled
  <2>1. Folder!Visible(toggled) = Folder!Visible(t)
    BY <1>2 DEF Folder!Visible
  <2> QED BY DEF Folder!setOpen
<1> HIDE DEF toggled, k
<1>4. Folder!Visible(toggled) = Folder!Visible(t)
  BY <1>2 DEF Folder!Visible
<1>5. DOMAIN toggled.open = DOMAIN t.open
  BY <1>2
<1>6. FoldersOk(toggled, children) /\ (~open \/ f \in t.built => FoldersOk(toggled, {}))
  <2>1. DOMAIN toggled.open \subseteq Folder!Folders(Folder!Visible(toggled))
    BY <1>4, <1>5 DEF TreeOk, FoldersOk
  <2>2. \A e \in DOMAIN toggled.open : toggled.open[e] => e \in toggled.built
    BY <1>2, <1>5 DEF TreeOk, FoldersOk
  <2>3. \A e \in toggled.built, g \in F :
          Folder!Under(e, g) /\ Len(g) = Len(e) + 1 => g \in DOMAIN toggled.open \cup children
    BY <1>2, <1>5 DEF TreeOk, FoldersOk
  <2>4. ASSUME ~open \/ f \in t.built PROVE toggled.built = t.built
    BY <1>2, <2>4
  <2>5. ASSUME ~open \/ f \in t.built
        PROVE  \A e \in toggled.built, g \in F :
                 Folder!Under(e, g) /\ Len(g) = Len(e) + 1 => g \in DOMAIN toggled.open
    BY <1>5, <2>4, <2>5 DEF TreeOk, FoldersOk
  <2> QED BY <1>4, <2>1, <2>2, <2>3, <2>5 DEF FoldersOk
<1>7. /\ DOMAIN k = TreeFields /\ k.swapped = t.swapped
      /\ k.filter = t.filter /\ k.query = t.query /\ k.flat = t.flat
      /\ k.placed = t.placed /\ DOMAIN t.open \subseteq DOMAIN k.open /\ FoldersOk(k, {})
  <2>1. CASE open /\ f \notin t.built
    <3>1. IsMade(toggled, children, Folder!Made(toggled, children))
      <4>1. children \in SUBSET Folder!Folders(Folder!Visible(toggled))
        BY <1>4
      <4> QED BY <1>2, <1>6, <4>1, MadeIs
    <3>2. IsMade(toggled, children, k)
      BY <1>3, <2>1, <3>1
    <3> QED BY <1>2, <1>5, <3>2 DEF IsMade
  <2>2. CASE ~open \/ f \in t.built
    BY <1>2, <1>3, <1>5, <1>6, <2>2
  <2> QED BY <2>1, <2>2
<1>8. m = [k EXCEPT !.memo = Folder!none]
  BY DEF k
<1>9. /\ DOMAIN m = TreeFields /\ m.swapped = t.swapped
      /\ m.filter = t.filter /\ m.query = t.query /\ m.flat = t.flat
      /\ m.placed = t.placed /\ m.open = k.open /\ m.built = k.built
      /\ m.memo = Folder!none
  BY <1>7, <1>8 DEF TreeFields
<1>10. Folder!Visible(m) = Folder!Visible(t) /\ Folder!Visible(m) = Folder!Visible(k)
  BY <1>7, <1>9 DEF Folder!Visible
<1>11. Folder!TopItems(m) = Folder!TopItems(t)
  BY <1>9, <1>10 DEF Folder!TopItems
<1>12. FoldersOk(m, {})
  BY <1>7, <1>9, <1>10 DEF FoldersOk
<1>13. TreeOk(m)
  BY <1>7, <1>9, <1>10, <1>11, <1>12 DEF TreeOk
<1> QED BY <1>9, <1>11, <1>13
--------------------------------------------------------------------------------
(* What the folder's view keeps. *)

\* What is on the screen, with d still to be placed.
Screen(t, d) ==
  \/ t = Folder!gone /\ d = Folder!nothing
  \/ /\ TreeOk(t) /\ d.left \subseteq Folder!TopItems(t)
     /\ t.memo # Folder!none =>
          /\ t.placed \cup d.left = Folder!TopItems(t)
          /\ \E T : Remembers(t, T)

\* What Back comes back to.
Left(state, memo) == \E T : TreeOk(T) /\ state = T.open /\ memo = Folder!Leaving(T)
Return(r) ==
  r = Folder!none \/ (r.data.swapped \in BOOLEAN /\ Left(r.expanded, r.left))

\* An absent side is as the folder comparison found it.
IsInput(i) == DOMAIN i = {"path", "swapped"} /\ i.swapped \in BOOLEAN
FoundSo(x) ==
  /\ IsInput(x.of)
  /\ x.oldAbsent => Folder!StatusIn(x.of.path, x.of.swapped) = "added"
  /\ x.newAbsent => Folder!StatusIn(x.of.path, x.of.swapped) = "removed"
Named(v) ==
  v = Folder!none \/ (DOMAIN v = {"of", "oldAbsent", "newAbsent"} /\ FoundSo(v))
Told(c) ==
  \/ c = Folder!idle
  \/ DOMAIN c = {"pc", "mode", "of", "opening", "oldAbsent", "newAbsent"} /\ FoundSo(c)

FolderInv ==
  /\ treeData.swapped \in BOOLEAN /\ IsInput(inputs)
  /\ Screen(tree, drawing) /\ Return(folderReturn)
  /\ Named(entryView) /\ Told(call)

LEMMA NothingIsLeft == Folder!nothing.left = {}
BY DEF Folder!nothing

LEMMA PlaceIsScreen ==
  ASSUME NEW t, TreeOk(t), NEW items \in SUBSET Folder!TopItems(t), NEW by,
         t.memo # Folder!none =>
           t.placed \cup items = Folder!TopItems(t) /\ \E T : Remembers(t, T),
         Folder!Place(t, items, by)
  PROVE  Screen(tree', drawing')
<1>1. PICK placed \in SUBSET items :
        /\ tree' = [(IF t.flat THEN t
                     ELSE Folder!Made(t, placed \cap Folder!Folders(Folder!Visible(t))))
                      EXCEPT !.placed = @ \cup placed]
        /\ drawing' = IF placed = items THEN Folder!nothing
                      ELSE [by |-> by, left |-> items \ placed]
  BY DEF Folder!Place
<1>2. placed \in SUBSET Folder!TopItems(t)
  BY <1>1
<1>3. Placed(t, placed, tree')
  BY <1>1, <1>2, AfterPlacing
<1>4. drawing'.left = items \ placed
  BY <1>1, NothingIsLeft
<1>5. TreeOk(tree') /\ Folder!TopItems(tree') = Folder!TopItems(t) /\ tree'.memo = t.memo
      /\ tree'.placed = t.placed \cup placed
  BY <1>3 DEF Placed
<1>6. \A T : Remembers(t, T) => Remembers(tree', T)
  BY <1>3 DEF Placed
<1>7. drawing'.left \subseteq Folder!TopItems(tree')
  BY <1>4, <1>5
<1>8. ASSUME tree'.memo # Folder!none
      PROVE  tree'.placed \cup drawing'.left = Folder!TopItems(tree') /\ \E T : Remembers(tree', T)
  BY <1>1, <1>4, <1>5, <1>6, <1>8
<1> QED BY <1>5, <1>7, <1>8 DEF Screen

LEMMA Rendered ==
  ASSUME NEW d, d.swapped \in BOOLEAN, NEW state, NEW controls, NEW memo, NEW by,
         memo = Folder!none \/ Left(state, memo),
         Folder!renderDirectory(d, state, controls, memo, by)
  PROVE  /\ treeData' = d /\ Screen(tree', drawing')
         /\ folderReturn' = Folder!none /\ entryView' = Folder!none
<1> DEFINE t == Folder!fresh(d, state, controls, memo)
<1>1. /\ treeData' = d /\ folderReturn' = Folder!none /\ entryView' = Folder!none
      /\ IF Folder!TopItems(t) = {} THEN tree' = t /\ drawing' = Folder!nothing
         ELSE Folder!Place(t, Folder!TopItems(t), by)
  BY DEF Folder!renderDirectory
<1>2. /\ DOMAIN t = TreeFields /\ t.swapped = d.swapped /\ t.state = state /\ t.memo = memo
      /\ t.placed = {} /\ DOMAIN t.open = {} /\ t.built = {}
  BY DEF Folder!fresh, TreeFields
<1> HIDE DEF t
<1>3. TreeOk(t)
  BY <1>2 DEF TreeOk, FoldersOk
<1>4. memo # Folder!none => \E T : Remembers(t, T)
  BY <1>2 DEF Left, Remembers
<1>5. Screen(tree', drawing')
  <2>1. CASE Folder!TopItems(t) = {}
    BY <1>1, <1>2, <1>3, <1>4, <2>1, NothingIsLeft DEF Screen
  <2>2. CASE Folder!TopItems(t) # {}
    <3>1. Folder!Place(t, Folder!TopItems(t), by)
      BY <1>1, <2>2
    <3>2. t.placed \cup Folder!TopItems(t) = Folder!TopItems(t)
      BY <1>2
    <3> QED BY <1>2, <1>3, <1>4, <3>1, <3>2, PlaceIsScreen
  <2> QED BY <2>1, <2>2
<1> QED BY <1>1, <1>5

\* Swapped with its roots, an entry that was added is one that was removed.
LEMMA SwappedStatus ==
  ASSUME NEW path, NEW s \in BOOLEAN
  PROVE  /\ Folder!StatusIn(path, s) = "added" => Folder!StatusIn(path, ~s) = "removed"
         /\ Folder!StatusIn(path, s) = "removed" => Folder!StatusIn(path, ~s) = "added"
<1>1. CASE s = TRUE
  BY <1>1 DEF Folder!StatusIn
<1>2. CASE s = FALSE
  BY <1>2 DEF Folder!StatusIn
<1> QED BY <1>1, <1>2

LEMMA SwapIs ==
  ASSUME NEW i, IsInput(i)
  PROVE  IsInput(Folder!Swap(i)) /\ Folder!Swap(i).path = i.path
         /\ Folder!Swap(i).swapped = ~i.swapped
<1> DEFINE j == Folder!Swap(i)
<1>1. j = [i EXCEPT !.swapped = ~@]
  BY DEF Folder!Swap
<1> HIDE DEF j
<1>2. DOMAIN j = {"path", "swapped"} /\ j.path = i.path /\ j.swapped = ~i.swapped
  BY <1>1 DEF IsInput
<1> QED BY <1>2 DEF IsInput, j

LEMMA FolderInit == Folder!Init => FolderInv
<1> SUFFICES ASSUME Folder!Init PROVE FolderInv
  OBVIOUS
<1> DEFINE controls == Folder!Controls
           t == Folder!fresh(treeData, Folder!Unfolded, controls, Folder!none)
           first == Folder!TopItems(t)
           k == Folder!Made(t, first \cap Folder!Folders(Folder!Visible(t)))
<1>1. /\ inputs = Folder!folder(FALSE) /\ treeData = Folder!folder(FALSE)
      /\ drawing = Folder!nothing /\ entryView = Folder!none /\ folderReturn = Folder!none
      /\ call = Folder!idle /\ flat = FALSE
      /\ tree = [k EXCEPT !.placed = first]
  BY DEF Folder!Init
<1>2. treeData.swapped = FALSE /\ IsInput(inputs)
  BY <1>1 DEF Folder!folder, IsInput
<1>3. /\ DOMAIN t = TreeFields /\ t.swapped = treeData.swapped /\ t.memo = Folder!none
      /\ t.placed = {} /\ DOMAIN t.open = {} /\ t.built = {} /\ t.flat = FALSE
  BY <1>1 DEF Folder!fresh, TreeFields, Folder!Unfolded, Folder!Controls
<1> HIDE DEF t
<1>4. TreeOk(t)
  BY <1>2, <1>3 DEF TreeOk, FoldersOk
<1>5. DOMAIN k = TreeFields /\ k.placed = {}
  <2> DEFINE from == first \cap Folder!Folders(Folder!Visible(t))
  <2> HIDE DEF from
  <2>1. /\ DOMAIN Folder!Made(t, from) = TreeFields
        /\ Folder!Made(t, from).placed = t.placed
    BY <1>3, MadeFields
  <2> QED BY <1>3, <2>1 DEF from
<1>6. tree = [(IF t.flat THEN t ELSE k) EXCEPT !.placed = @ \cup first]
  <2> HIDE DEF k
  <2>1. k.placed \cup first = first
    BY <1>5
  <2> QED BY <1>1, <1>3, <2>1
<1>7. Placed(t, first, tree)
  <2>1. first \in SUBSET Folder!TopItems(t)
    OBVIOUS
  <2> QED BY <1>4, <1>6, <2>1, AfterPlacing
<1>8. Screen(tree, drawing)
  BY <1>1, <1>3, <1>7, NothingIsLeft DEF Placed, Screen
<1> QED BY <1>1, <1>2, <1>8 DEF FolderInv, Return, Named, Told
LEMMA AfterFolder ==
  ASSUME treeData'.swapped \in BOOLEAN, IsInput(inputs'), Screen(tree', drawing'),
         Return(folderReturn'), Named(entryView'), Told(call')
  PROVE  FolderInv'
BY DEF FolderInv

LEMMA FolderBegin ==
  ASSUME FolderInv, NEW k, Folder!Begin(k)
  PROVE  FolderInv'
<1>1. UNCHANGED <<treeData, inputs, entryView, folderReturn>>
  BY DEF Folder!Begin
<1>2. CASE call # Folder!idle
  <2>1. UNCHANGED <<call, tree, drawing>>
    BY <1>2 DEF Folder!Begin
  <2> QED BY <1>1, <2>1 DEF FolderInv
<1>3. CASE call = Folder!idle
  <2>1. /\ call' = [pc |-> "asked", mode |-> treeMode, of |-> inputs, opening |-> waiting[k],
                    oldAbsent |-> treeMode = "text" /\ Folder!absent("oldAbsent"),
                    newAbsent |-> treeMode = "text" /\ Folder!absent("newAbsent")]
        /\ \/ tree' = Folder!gone /\ drawing' = Folder!nothing
           \/ UNCHANGED <<tree, drawing>>
    BY <1>3 DEF Folder!Begin
  <2>2. Screen(tree', drawing')
    BY <2>1 DEF FolderInv, Screen
  <2>3. /\ Folder!absent("oldAbsent") =>
             Folder!StatusIn(inputs.path, inputs.swapped) = "added"
        /\ Folder!absent("newAbsent") =>
             Folder!StatusIn(inputs.path, inputs.swapped) = "removed"
    BY DEF Folder!absent, FolderInv, Named, FoundSo
  <2>4. Told(call')
    <3>1. /\ DOMAIN call' = {"pc", "mode", "of", "opening", "oldAbsent", "newAbsent"}
          /\ call'.of = inputs
          /\ call'.oldAbsent => Folder!absent("oldAbsent")
          /\ call'.newAbsent => Folder!absent("newAbsent")
      BY <2>1
    <3> QED BY <2>3, <3>1 DEF FolderInv, FoundSo, Told
  <2> QED BY <1>1, <2>2, <2>4, AfterFolder DEF FolderInv
<1> QED BY <1>2, <1>3

\* What a comparison is told stays as it was, whatever becomes of it.
LEMMA ToldStays ==
  ASSUME Told(call), call # Folder!idle, NEW pc, call' = [call EXCEPT !.pc = pc]
  PROVE  Told(call')
<1>1. DOMAIN call = {"pc", "mode", "of", "opening", "oldAbsent", "newAbsent"} /\ FoundSo(call)
  BY DEF Told
<1>2. /\ DOMAIN call' = {"pc", "mode", "of", "opening", "oldAbsent", "newAbsent"}
      /\ call'.of = call.of /\ call'.oldAbsent = call.oldAbsent
      /\ call'.newAbsent = call.newAbsent
  BY <1>1
<1> QED BY <1>1, <1>2 DEF FoundSo, Told

LEMMA AskedIsNotIdle == \A pc \in {"asked"} : call.pc = pc => call # Folder!idle
BY DEF Folder!idle

LEMMA FolderAnswers ==
  ASSUME FolderInv, Folder!TextAnswer \/ Folder!DirectoryAnswer \/ Folder!Finish
  PROVE  FolderInv'
<1>1. CASE Folder!TextAnswer
  <2>1. /\ call.pc = "asked" /\ call' = [call EXCEPT !.pc = "painting"]
        /\ tree' = Folder!gone /\ drawing' = Folder!nothing
        /\ UNCHANGED <<treeData, inputs, entryView, folderReturn>>
    BY <1>1 DEF Folder!TextAnswer
  <2>2. Told(call')
    BY <2>1, AskedIsNotIdle, ToldStays DEF FolderInv
  <2>3. Screen(tree', drawing')
    BY <2>1 DEF Screen
  <2> QED BY <2>1, <2>2, <2>3, AfterFolder DEF FolderInv
<1>2. CASE Folder!DirectoryAnswer
  <2> DEFINE d == Folder!folder(call.of.swapped)
  <2>1. /\ call.pc = "asked" /\ call' = [call EXCEPT !.pc = "painting"]
        /\ Folder!renderDirectory(d, Folder!Unfolded, Folder!Controls, Folder!none, "compare")
        /\ UNCHANGED inputs
    BY <1>2 DEF Folder!DirectoryAnswer
  <2>2. call # Folder!idle /\ Told(call')
    BY <2>1, AskedIsNotIdle, ToldStays DEF FolderInv
  <2>3. d.swapped \in BOOLEAN
    <3>1. FoundSo(call)
      BY <2>2 DEF FolderInv, Told
    <3> QED BY <3>1 DEF FoundSo, IsInput, Folder!folder
  <2> HIDE DEF d
  <2>4. /\ treeData' = d /\ Screen(tree', drawing')
        /\ folderReturn' = Folder!none /\ entryView' = Folder!none
    BY <2>1, <2>3, Rendered
  <2> QED BY <2>1, <2>2, <2>3, <2>4, AfterFolder DEF FolderInv, Return, Named
<1>3. CASE Folder!Finish
  <2>1. /\ call' = Folder!idle
        /\ UNCHANGED <<treeData, inputs, entryView, folderReturn, tree, drawing>>
    BY <1>3 DEF Folder!Finish
  <2> QED BY <2>1, AfterFolder DEF FolderInv, Told
<1> QED BY <1>1, <1>2, <1>3

\* The screen's tree, when there is one.
LEMMA TreeIsOk ==
  ASSUME Screen(tree, drawing), tree # Folder!gone \/ drawing # Folder!nothing
  PROVE  /\ TreeOk(tree) /\ drawing.left \subseteq Folder!TopItems(tree)
         /\ tree.memo # Folder!none =>
              /\ tree.placed \cup drawing.left = Folder!TopItems(tree)
              /\ \E T : Remembers(tree, T)
BY DEF Screen

LEMMA FolderDraws ==
  ASSUME FolderInv, Folder!Draw
  PROVE  FolderInv'
<1>1. /\ drawing # Folder!nothing /\ Folder!Place(tree, drawing.left, drawing.by)
      /\ UNCHANGED <<treeData, inputs, entryView, folderReturn, call>>
  BY DEF Folder!Draw
<1> DEFINE items == drawing.left
           by == drawing.by
<1>2. /\ TreeOk(tree) /\ items \in SUBSET Folder!TopItems(tree)
      /\ tree.memo # Folder!none =>
              /\ tree.placed \cup items = Folder!TopItems(tree)
              /\ \E T : Remembers(tree, T)
  BY <1>1, TreeIsOk DEF FolderInv
<1>3. Folder!Place(tree, items, by)
  BY <1>1
<1> HIDE DEF items, by
<1>4. Screen(tree', drawing')
  BY <1>2, <1>3, PlaceIsScreen
<1> QED BY <1>1, <1>4, AfterFolder DEF FolderInv

\* The list drawn anew from the same response.
LEMMA FolderRedrawn ==
  ASSUME FolderInv, NEW controls, Folder!Redraw(controls), UNCHANGED <<inputs, call>>
  PROVE  FolderInv'
<1> DEFINE state == Folder!captureFolderTreeState
<1>1. Folder!renderDirectory(treeData, state, controls, Folder!none, "redraw")
  BY DEF Folder!Redraw
<1>2. treeData.swapped \in BOOLEAN
  BY DEF FolderInv
<1> HIDE DEF state
<1>3. /\ treeData' = treeData /\ Screen(tree', drawing')
      /\ folderReturn' = Folder!none /\ entryView' = Folder!none
  BY <1>1, <1>2, Rendered
<1> QED BY <1>3, AfterFolder DEF FolderInv, Return, Named

LEMMA FolderOpens ==
  ASSUME FolderInv, NEW p, Folder!openFromFolder(p)
  PROVE  FolderInv'
<1> DEFINE request == Folder!directoryEntryRequest(p, tree.swapped)
<1>1. /\ tree # Folder!gone
      /\ entryView' = IF request.oldAbsent \/ request.newAbsent THEN request ELSE Folder!none
      /\ inputs' = request.of
      /\ folderReturn' = [data |-> treeData, expanded |-> Folder!captureFolderTreeState,
                          left |-> Folder!Leaving(tree)]
      /\ UNCHANGED <<treeData, tree, drawing, call>>
  BY DEF Folder!openFromFolder
<1>2. TreeOk(tree) /\ tree.swapped \in BOOLEAN
  BY <1>1, TreeIsOk DEF FolderInv, TreeOk
<1>3. /\ DOMAIN request = {"of", "oldAbsent", "newAbsent"}
      /\ request.of = [path |-> p, swapped |-> tree.swapped]
      /\ request.oldAbsent = (Folder!StatusIn(p, tree.swapped) = "added")
      /\ request.newAbsent = (Folder!StatusIn(p, tree.swapped) = "removed")
  BY DEF Folder!directoryEntryRequest, Folder!file
<1> HIDE DEF request
<1>4. FoundSo(request) /\ IsInput(inputs')
  <2>1. IsInput(request.of) /\ request.of.path = p /\ request.of.swapped = tree.swapped
    BY <1>2, <1>3 DEF IsInput
  <2>2. /\ request.oldAbsent => Folder!StatusIn(p, tree.swapped) = "added"
        /\ request.newAbsent => Folder!StatusIn(p, tree.swapped) = "removed"
    BY <1>3
  <2>3. FoundSo(request)
    BY <2>1, <2>2 DEF FoundSo
  <2> QED BY <1>1, <2>1, <2>3
<1>5. Named(entryView')
  BY <1>1, <1>3, <1>4 DEF Named
<1>6. Return(folderReturn')
  <2>1. /\ folderReturn'.data = treeData /\ folderReturn'.expanded = tree.open
        /\ folderReturn'.left = Folder!Leaving(tree)
    BY <1>1 DEF Folder!captureFolderTreeState
  <2>2. Left(folderReturn'.expanded, folderReturn'.left)
    BY <1>2, <2>1 DEF Left
  <2> QED BY <2>1, <2>2 DEF FolderInv, Return
<1>7. Screen(tree', drawing') /\ Told(call') /\ treeData'.swapped \in BOOLEAN
  BY <1>1 DEF FolderInv
<1> QED BY <1>4, <1>5, <1>6, <1>7, AfterFolder

LEMMA FolderComesBack ==
  ASSUME FolderInv, Folder!returnToFolder
  PROVE  FolderInv'
<1> DEFINE d == folderReturn.data
           state == folderReturn.expanded
           memo == folderReturn.left
<1>1. /\ folderReturn # Folder!none
      /\ inputs' = Folder!folder(d.swapped)
      /\ Folder!renderDirectory(d, state, Folder!Controls, memo, "back")
      /\ UNCHANGED call
  BY DEF Folder!returnToFolder
<1>2. d.swapped \in BOOLEAN /\ Left(state, memo)
  BY <1>1 DEF FolderInv, Return
<1> HIDE DEF d, state, memo
<1>3. /\ treeData' = d /\ Screen(tree', drawing')
      /\ folderReturn' = Folder!none /\ entryView' = Folder!none
  BY <1>1, <1>2, Rendered
<1>4. IsInput(inputs')
  BY <1>1, <1>2 DEF IsInput, Folder!folder
<1> QED BY <1>1, <1>2, <1>3, <1>4, AfterFolder DEF FolderInv, Return, Named

LEMMA FolderToggled ==
  ASSUME FolderInv, NEW f, Folder!toggleFolder(f)
  PROVE  FolderInv'
<1> DEFINE open == ~tree.open[f]
<1>1. /\ tree # Folder!gone /\ f \in DOMAIN tree.open
      /\ tree' = [Folder!setOpen(tree, f, open) EXCEPT !.memo = Folder!none]
      /\ UNCHANGED <<treeData, inputs, entryView, folderReturn, drawing, call>>
  BY DEF Folder!toggleFolder
<1>2. TreeOk(tree) /\ drawing.left \subseteq Folder!TopItems(tree)
  BY <1>1, TreeIsOk DEF FolderInv
<1>3. open \in BOOLEAN
  OBVIOUS
<1> HIDE DEF open
<1>4. /\ TreeOk(tree') /\ tree'.memo = Folder!none
      /\ Folder!TopItems(tree') = Folder!TopItems(tree)
  BY <1>1, <1>2, <1>3, AfterSetOpen
<1>5. Screen(tree', drawing')
  BY <1>1, <1>2, <1>4 DEF Screen
<1> QED BY <1>1, <1>5, AfterFolder DEF FolderInv

LEMMA FolderSwapped ==
  ASSUME FolderInv, Folder!swapSides
  PROVE  FolderInv'
<1>1. /\ inputs' = Folder!Swap(inputs)
      /\ entryView' = IF entryView # Folder!none /\ entryView.of = inputs
                      THEN Folder!swapped(entryView) ELSE entryView
      /\ UNCHANGED <<treeData, folderReturn, tree, drawing, call>>
  BY DEF Folder!swapSides
<1>2. IsInput(inputs')
  BY <1>1, SwapIs DEF FolderInv
<1>3. Named(entryView')
  <2>1. CASE entryView # Folder!none /\ entryView.of = inputs
    <3> DEFINE of == entryView.of
    <3>1. FoundSo(entryView) /\ IsInput(of) /\ of.swapped \in BOOLEAN
      BY <2>1 DEF FolderInv, Named, FoundSo, IsInput
    <3>2. /\ IsInput(Folder!Swap(of)) /\ Folder!Swap(of).path = of.path
          /\ Folder!Swap(of).swapped = ~of.swapped
      BY <3>1, SwapIs
    <3>3. /\ DOMAIN entryView' = {"of", "oldAbsent", "newAbsent"}
          /\ entryView'.of = Folder!Swap(of)
          /\ entryView'.oldAbsent = entryView.newAbsent
          /\ entryView'.newAbsent = entryView.oldAbsent
      BY <1>1, <2>1 DEF Folder!swapped
    <3>4. /\ entryView.oldAbsent => Folder!StatusIn(of.path, ~of.swapped) = "removed"
          /\ entryView.newAbsent => Folder!StatusIn(of.path, ~of.swapped) = "added"
      BY <3>1, SwappedStatus DEF FoundSo
    <3>5. FoundSo(entryView')
      BY <3>2, <3>3, <3>4 DEF FoundSo
    <3> QED BY <3>3, <3>5 DEF Named
  <2>2. CASE ~(entryView # Folder!none /\ entryView.of = inputs)
    BY <1>1, <2>2 DEF FolderInv
  <2> QED BY <2>1, <2>2
<1> QED BY <1>1, <1>2, <1>3, AfterFolder DEF FolderInv

LEMMA FolderCancels ==
  ASSUME FolderInv, Folder!cancel
  PROVE  FolderInv'
<1>1. /\ call # Folder!idle /\ call' = [call EXCEPT !.pc = "aborted"]
      /\ drawing' = Folder!nothing
      /\ tree' = IF drawing = Folder!nothing THEN tree ELSE [tree EXCEPT !.memo = Folder!none]
      /\ UNCHANGED <<treeData, inputs, entryView, folderReturn>>
  BY DEF Folder!cancel
<1>2. Told(call')
  BY <1>1, ToldStays DEF FolderInv
<1>3. Screen(tree', drawing')
  <2>1. CASE drawing = Folder!nothing
    BY <1>1, <2>1 DEF FolderInv
  <2>2. CASE drawing # Folder!nothing
    <3>1. TreeOk(tree)
      BY <2>2, TreeIsOk DEF FolderInv
    <3>2. /\ DOMAIN tree' = TreeFields /\ tree'.swapped = tree.swapped
          /\ tree'.filter = tree.filter /\ tree'.query = tree.query /\ tree'.flat = tree.flat
          /\ tree'.placed = tree.placed /\ tree'.open = tree.open /\ tree'.built = tree.built
          /\ tree'.memo = Folder!none
      BY <1>1, <2>2, <3>1 DEF TreeOk, TreeFields
    <3>3. Folder!Visible(tree') = Folder!Visible(tree)
      BY <3>2 DEF Folder!Visible
    <3>4. Folder!TopItems(tree') = Folder!TopItems(tree)
      BY <3>2, <3>3 DEF Folder!TopItems
    <3>5. FoldersOk(tree', {})
      BY <3>1, <3>2, <3>3 DEF TreeOk, FoldersOk
    <3>6. TreeOk(tree')
      BY <3>1, <3>2, <3>3, <3>4, <3>5 DEF TreeOk
    <3> QED BY <1>1, <3>2, <3>6, NothingIsLeft DEF Screen
  <2> QED BY <2>1, <2>2
<1> QED BY <1>1, <1>2, <1>3, AfterFolder DEF FolderInv

LEMMA FolderNext == FolderInv /\ [Folder!Next]_(Folder!vars) => FolderInv'
<1> SUFFICES ASSUME FolderInv, [Folder!Next]_(Folder!vars) PROVE FolderInv'
  OBVIOUS
<1>1. ASSUME NEW k \in DOMAIN waiting, Folder!Begin(k) PROVE FolderInv'
  BY <1>1, FolderBegin
<1>2. CASE Folder!TextAnswer \/ Folder!DirectoryAnswer \/ Folder!Finish
  BY <1>2, FolderAnswers
<1>3. CASE Folder!Draw
  BY <1>3, FolderDraws
<1>4. CASE Folder!BackEnds \/ Folder!search \/ Folder!recompare
  <2>1. UNCHANGED <<treeData, inputs, tree, drawing, entryView, folderReturn, call>>
    BY <1>4 DEF Folder!BackEnds, Folder!search, Folder!recompare
  <2> QED BY <2>1 DEF FolderInv
<1>5. CASE Folder!SearchTimer
  <2>1. CASE treeMode = "dir"
    BY <1>5, <2>1, FolderRedrawn DEF Folder!SearchTimer
  <2>2. CASE treeMode # "dir"
    <3>1. UNCHANGED <<treeData, inputs, tree, drawing, entryView, folderReturn, call>>
      BY <1>5, <2>2 DEF Folder!SearchTimer
    <3> QED BY <3>1 DEF FolderInv
  <2> QED BY <2>1, <2>2
<1>6. ASSUME NEW p, Folder!openFromFolder(p) PROVE FolderInv'
  BY <1>6, FolderOpens
<1>7. ASSUME NEW m, NEW i, Folder!edit(m, i), IsInput(i) PROVE FolderInv'
  <2>1. inputs' = i /\ UNCHANGED <<treeData, tree, drawing, entryView, folderReturn, call>>
    BY <1>7 DEF Folder!edit
  <2> QED BY <1>7, <2>1, AfterFolder DEF FolderInv
<1>8. ASSUME NEW f, Folder!toggleFolder(f) PROVE FolderInv'
  BY <1>8, FolderToggled
<1>9. ASSUME NEW status, Folder!changeStatus(status) PROVE FolderInv'
  BY <1>9, FolderRedrawn DEF Folder!changeStatus
<1>10. CASE Folder!toggleFlat
  BY <1>10, FolderRedrawn DEF Folder!toggleFlat
<1>11. CASE Folder!returnToFolder
  BY <1>11, FolderComesBack
<1>12. CASE Folder!swapSides
  BY <1>12, FolderSwapped
<1>13. CASE Folder!cancel
  BY <1>13, FolderCancels
<1>14. CASE UNCHANGED Folder!vars
  BY <1>14 DEF FolderInv, Folder!vars
<1>15. IsInput(inputs) /\ \A p : IsInput(Folder!file(p, FALSE))
  BY DEF FolderInv, IsInput, Folder!file
<1>16. \/ \E k \in DOMAIN waiting : Folder!Begin(k)
       \/ Folder!TextAnswer \/ Folder!DirectoryAnswer \/ Folder!Finish \/ Folder!Draw
       \/ Folder!BackEnds \/ Folder!SearchTimer
       \/ \E p : Folder!openFromFolder(p) \/ Folder!edit("text", Folder!file(p, FALSE))
       \/ \E f : Folder!toggleFolder(f)
       \/ \E status : Folder!changeStatus(status)
       \/ \E m : Folder!edit(m, inputs)
       \/ Folder!returnToFolder \/ Folder!search \/ Folder!toggleFlat \/ Folder!swapSides
       \/ Folder!recompare \/ Folder!cancel \/ UNCHANGED Folder!vars
  BY DEF Folder!Next
<1> QED BY <1>1, <1>2, <1>3, <1>4, <1>5, <1>6, <1>7, <1>8, <1>9, <1>10, <1>11, <1>12, <1>13,
           <1>14, <1>15, <1>16

LEMMA FolderInvIsTrue == FolderInv => Folder!AbsentWasFound /\ Folder!BackRestoresTree
<1> SUFFICES ASSUME FolderInv PROVE Folder!AbsentWasFound /\ Folder!BackRestoresTree
  OBVIOUS
<1>1. Folder!AbsentWasFound
  BY DEF FolderInv, Told, FoundSo, Folder!AbsentWasFound
<1>2. ASSUME tree # Folder!gone, drawing = Folder!nothing, tree.memo # Folder!none,
             tree.filter = tree.memo.filter, tree.query = tree.memo.query,
             tree.flat = tree.memo.flat
      PROVE  IF tree.memo.whole THEN Folder!Seen(tree) = tree.memo.rows
             ELSE tree.memo.rows \subseteq Folder!Seen(tree)
  <2>1. /\ TreeOk(tree)
        /\ tree.placed \cup drawing.left = Folder!TopItems(tree)
        /\ \E T : Remembers(tree, T)
    BY <1>2, TreeIsOk DEF FolderInv
  <2>2. tree.placed = Folder!TopItems(tree)
    BY <1>2, <2>1, NothingIsLeft
  <2>3. PICK T : Remembers(tree, T)
    BY <2>1
  <2>4. /\ tree.memo.rows = Folder!Seen(T) /\ tree.memo.filter = T.filter
        /\ tree.memo.query = T.query /\ tree.memo.flat = T.flat
        /\ tree.memo.whole = (T.placed = Folder!TopItems(T))
    BY <2>3 DEF Remembers, Folder!Leaving
  <2>5. IF T.placed = Folder!TopItems(T) THEN Folder!Seen(tree) = Folder!Seen(T)
        ELSE Folder!Seen(T) \subseteq Folder!Seen(tree)
    BY <1>2, <2>1, <2>2, <2>3, <2>4, RememberedIsSeen
  <2> QED BY <2>4, <2>5
<1>3. Folder!BackRestoresTree
  BY <1>2 DEF Folder!BackRestoresTree
<1> QED BY <1>1, <1>3

\* An absent side is named as the folder comparison found it, and Back shows the tree as
\* it was left (app.js:7226-7240, 5914-5964).
THEOREM FolderIsTrue == ViewsSpec => []FolderTrue
<1>1. FolderInv => FolderTrue
  BY FolderInvIsTrue DEF FolderTrue
<1> QED BY <1>1, ViewsBehave, FolderInit, FolderNext, PTL

--------------------------------------------------------------------------------
(* The members of a set in an order. *)

Orders(R, S) ==
  /\ \A x, y \in S : x # y => <<x, y>> \in R \/ <<y, x>> \in R
  /\ \A x \in S : <<x, x>> \notin R
  /\ \A x, y, z \in S : <<x, y>> \in R /\ <<y, z>> \in R => <<x, z>> \in R

IsArranged(a, S, R) ==
  /\ a \in [1 .. Cardinality(S) -> S]
  /\ \A x \in S : \E k \in 1 .. Cardinality(S) : a[k] = x
  /\ \A j, k \in 1 .. Cardinality(S) : j < k => <<a[j], a[k]>> \in R

\* As many come before a member as its place says.
LEMMA ArrangeIs ==
  ASSUME NEW S, IsFiniteSet(S), NEW R, Orders(R, S)
  PROVE  IsArranged(Context!Arrange(S, R), S, R)
<1> DEFINE n == Cardinality(S)
           before(x) == {y \in S : <<y, x>> \in R}
           place(x) == Cardinality(before(x))
           a == Context!Arrange(S, R)
<1>1. n \in Nat
  BY FS_CardinalityType
<1>2. \A x \in S : IsFiniteSet(before(x)) /\ place(x) \in Nat
  <2> SUFFICES ASSUME NEW x \in S PROVE IsFiniteSet(before(x)) /\ place(x) \in Nat
    OBVIOUS
  <2>1. before(x) \in SUBSET S
    OBVIOUS
  <2> HIDE DEF before
  <2> QED BY <2>1, FS_Subset, FS_CardinalityType
<1>3. ASSUME NEW x \in S PROVE place(x) \in 0 .. n - 1
  <2>1. before(x) \in SUBSET (S \ {x})
    BY DEF Orders
  <2>2. IsFiniteSet(S \ {x}) /\ Cardinality(S \ {x}) = n - 1
    BY FS_RemoveElement
  <2> HIDE DEF before
  <2>3. Cardinality(before(x)) <= Cardinality(S \ {x})
    BY <2>1, <2>2, FS_Subset
  <2> HIDE DEF n
  <2> QED BY <1>1, <1>2, <2>2, <2>3
<1>4. ASSUME NEW x \in S, NEW y \in S, <<x, y>> \in R PROVE place(x) < place(y)
  <2>1. before(x) \cup {x} \in SUBSET before(y) /\ x \notin before(x)
    BY <1>4 DEF Orders
  <2>2. IsFiniteSet(before(x)) /\ IsFiniteSet(before(y))
    BY <1>2
  <2>3. place(x) \in Nat /\ place(y) \in Nat
    BY <1>2
  <2> HIDE DEF before
  <2>4. Cardinality(before(x) \cup {x}) = Cardinality(before(x)) + 1
    BY <2>1, <2>2, FS_AddElement
  <2>5. Cardinality(before(x) \cup {x}) <= Cardinality(before(y))
    BY <2>1, <2>2, FS_Subset
  <2> QED BY <2>3, <2>4, <2>5
<1>5. \A x, y \in S : place(x) = place(y) => x = y
  <2> SUFFICES ASSUME NEW x \in S, NEW y \in S, place(x) = place(y), x # y PROVE FALSE
    OBVIOUS
  <2>1. <<x, y>> \in R \/ <<y, x>> \in R
    BY DEF Orders
  <2>2. place(x) < place(y) \/ place(y) < place(x)
    <3> HIDE DEF place
    <3> QED BY <1>4, <2>1
  <2>3. place(x) \in Nat /\ place(y) \in Nat
    BY <1>2
  <2> HIDE DEF place
  <2> QED BY <2>2, <2>3
<1> HIDE DEF place, before
<1>6. \A k \in 1 .. n : \E x \in S : place(x) = k - 1
  <2> DEFINE f == [x \in S |-> place(x)]
             T == 0 .. n - 1
  <2>1. f \in Injection(S, T)
    <3>1. f \in [S -> T]
      BY <1>3
    <3> QED BY <1>5, <3>1 DEF Injection, IsInjective
  <2>2. IsFiniteSet(T) /\ Cardinality(T) = n
    <3>1. 0 \in Int /\ n - 1 \in Int /\ Cardinality(T) = IF 0 > n - 1 THEN 0 ELSE n - 1 - 0 + 1
      <4> HIDE DEF n
      <4> QED BY <1>1, FS_Interval
    <3>2. IsFiniteSet(T)
      <4> HIDE DEF n
      <4> QED BY <1>1, FS_Interval
    <3> HIDE DEF n, T
    <3> QED BY <1>1, <3>1, <3>2
  <2>3. f \in Surjection(S, T)
    <3> HIDE DEF f, T
    <3> QED BY <2>1, <2>2, FS_Injection
  <2>4. \A t \in T : \E x \in S : f[x] = t
    <3> HIDE DEF f, T
    <3> QED BY <2>3 DEF Surjection
  <2>5. \A k \in 1 .. n : k - 1 \in T
    <3> HIDE DEF n
    <3> QED BY <1>1
  <2> QED BY <2>4, <2>5
<1>7. a = [k \in 1 .. n |-> CHOOSE x \in S : place(x) = k - 1]
  BY DEF Context!Arrange, place, before, Cardinality, Context!Cardinality
<1> HIDE DEF a
<1>8. \A k \in 1 .. n : a[k] \in S /\ place(a[k]) = k - 1
  BY <1>6, <1>7
<1>9. a \in [1 .. n -> S]
  BY <1>7, <1>8
<1>10. ASSUME NEW x \in S PROVE \E k \in 1 .. n : a[k] = x
  <2>1. place(x) \in 0 .. n - 1
    BY <1>3
  <2>2. PICK k \in 1 .. n : place(x) = k - 1
    <3> HIDE DEF n
    <3>1. place(x) + 1 \in 1 .. n /\ place(x) = (place(x) + 1) - 1
      BY <1>1, <2>1
    <3> QED BY <3>1
  <2>3. a[k] \in S /\ place(a[k]) = place(x)
    BY <1>8, <2>2
  <2> QED BY <1>5, <2>3
<1>11. ASSUME NEW j \in 1 .. n, NEW k \in 1 .. n, j < k PROVE <<a[j], a[k]>> \in R
  <2>1. a[j] \in S /\ a[k] \in S /\ place(a[j]) = j - 1 /\ place(a[k]) = k - 1
    BY <1>8
  <2> HIDE DEF n
  <2>2. place(a[j]) < place(a[k])
    BY <1>1, <1>11, <2>1
  <2>3. a[j] # a[k] /\ ~(place(a[k]) < place(a[j]))
    BY <1>1, <1>11, <2>1
  <2>4. <<a[j], a[k]>> \in R \/ <<a[k], a[j]>> \in R
    BY <2>1, <2>3 DEF Orders
  <2> QED BY <1>4, <2>1, <2>3, <2>4
<1> QED BY <1>9, <1>10, <1>11 DEF IsArranged, a

--------------------------------------------------------------------------------
(* Batches. *)

Spans == [region : Nat, offset : Nat, count : Nat]
SpansIn(bs) == {g \in Spans : \E b \in DOMAIN bs : \E k \in DOMAIN bs[b] : bs[b][k] = g}

\* What one more range does to the batches.
LEMMA BatchedIs ==
  ASSUME NEW bs \in Seq(Seq(Spans)), NEW g \in Spans
  PROVE  /\ Context!Batched(bs, g) \in Seq(Seq(Spans))
         /\ SpansIn(Context!Batched(bs, g)) = SpansIn(bs) \cup (IF g.count = 0 THEN {} ELSE {g})
<1> DEFINE r == Context!Batched(bs, g)
           n == Len(bs)
           one == <<g>>
<1>0. one \in Seq(Spans) /\ Len(one) = 1 /\ one[1] = g /\ n \in Nat /\ DOMAIN bs = 1 .. n
  OBVIOUS
<1>1. CASE g.count = 0
  BY <1>1 DEF Context!Batched
<1>2. CASE g.count # 0 /\ r = Append(bs, one)
  <2> HIDE DEF r, one
  <2>1. r \in Seq(Seq(Spans)) /\ Len(r) = n + 1 /\ r[n + 1] = one
        /\ \A k \in 1 .. n : r[k] = bs[k]
    BY <1>0, <1>2
  <2>2. DOMAIN r = 1 .. n + 1 /\ DOMAIN one = 1 .. 1
    BY <1>0, <2>1
  <2>3. SpansIn(r) \subseteq SpansIn(bs) \cup {g}
    <3> SUFFICES ASSUME NEW h \in Spans, NEW b \in DOMAIN r, NEW k \in DOMAIN r[b], r[b][k] = h
                 PROVE  h \in SpansIn(bs) \cup {g}
      BY DEF SpansIn
    <3>1. CASE b = n + 1
      BY <1>0, <2>1, <2>2, <3>1
    <3>2. CASE b # n + 1
      <4>1. b \in DOMAIN bs /\ r[b] = bs[b]
        BY <1>0, <2>1, <2>2, <3>2
      <4> QED BY <4>1 DEF SpansIn
    <3> QED BY <3>1, <3>2
  <2>4. g \in SpansIn(r)
    <3>1. n + 1 \in DOMAIN r /\ 1 \in DOMAIN r[n + 1] /\ r[n + 1][1] = g
      BY <1>0, <2>1, <2>2
    <3> QED BY <3>1 DEF SpansIn
  <2>5. SpansIn(bs) \subseteq SpansIn(r)
    <3>1. \A b \in DOMAIN bs : b \in DOMAIN r /\ r[b] = bs[b]
      BY <1>0, <2>1, <2>2
    <3> QED BY <3>1 DEF SpansIn
  <2> QED BY <1>2, <2>1, <2>3, <2>4, <2>5 DEF r
<1>3. CASE g.count # 0 /\ bs # <<>> /\ r = Append(Context!Front(bs), Append(Context!Last(bs), g))
  <2> DEFINE last == bs[n]
             longer == Append(last, g)
             front == SubSeq(bs, 1, n - 1)
  <2>1. n >= 1 /\ n \in 1 .. n /\ last \in Seq(Spans) /\ n - 1 \in 0 .. n
    BY <1>0, <1>3
  <2>2. longer \in Seq(Spans) /\ Len(longer) = Len(last) + 1 /\ longer[Len(last) + 1] = g
        /\ \A k \in 1 .. Len(last) : longer[k] = last[k]
    BY <2>1
  <2>3. front \in Seq(Seq(Spans)) /\ Len(front) = n - 1 /\ \A k \in 1 .. n - 1 : front[k] = bs[k]
    BY <2>1, BeginningIsSeq
  <2>4. r = Append(front, longer)
    BY <1>3 DEF Context!Front, Context!Last
  <2>5. DOMAIN last = 1 .. Len(last) /\ DOMAIN longer = 1 .. Len(last) + 1 /\ Len(last) \in Nat
    BY <2>1, <2>2
  <2> HIDE DEF r, longer, front, last
  <2>6. r \in Seq(Seq(Spans)) /\ Len(r) = n /\ r[n] = longer /\ \A k \in 1 .. n - 1 : r[k] = bs[k]
    <3>1. Append(front, longer) \in Seq(Seq(Spans)) /\ Len(Append(front, longer)) = Len(front) + 1
          /\ \A k \in 1 .. Len(front) : Append(front, longer)[k] = front[k]
          /\ Append(front, longer)[Len(front) + 1] = longer
      BY <2>2, <2>3
    <3> HIDE DEF n
    <3> QED BY <1>0, <2>3, <2>4, <3>1
  <2> HIDE DEF n
  <2>7. DOMAIN r = 1 .. n /\ \A k \in 1 .. n : k = n \/ k \in 1 .. n - 1
    BY <1>0, <2>6
  <2>8. SpansIn(r) \subseteq SpansIn(bs) \cup {g}
    <3> SUFFICES ASSUME NEW h \in Spans, NEW b \in DOMAIN r, NEW k \in DOMAIN r[b], r[b][k] = h
                 PROVE  h \in SpansIn(bs) \cup {g}
      BY DEF SpansIn
    <3>1. CASE b = n
      <4>1. k \in 1 .. Len(last) + 1 /\ longer[k] = h
        BY <2>5, <2>6, <3>1
      <4>2. CASE k = Len(last) + 1
        BY <2>2, <4>1, <4>2
      <4>3. CASE k # Len(last) + 1
        <5>1. k \in DOMAIN last /\ last[k] = h
          BY <2>2, <2>5, <4>1, <4>3
        <5>2. n \in DOMAIN bs /\ k \in DOMAIN bs[n] /\ bs[n][k] = h
          BY <1>0, <2>1, <5>1 DEF last
        <5> QED BY <5>2 DEF SpansIn
      <4> QED BY <4>2, <4>3
    <3>2. CASE b # n
      <4>1. b \in DOMAIN bs /\ r[b] = bs[b]
        BY <1>0, <2>6, <2>7, <3>2
      <4> QED BY <4>1 DEF SpansIn
    <3> QED BY <3>1, <3>2
  <2>9. g \in SpansIn(r)
    <3>1. n \in DOMAIN r /\ Len(last) + 1 \in DOMAIN r[n] /\ r[n][Len(last) + 1] = g
      BY <2>1, <2>2, <2>5, <2>6, <2>7
    <3> QED BY <3>1 DEF SpansIn
  <2>10. SpansIn(bs) \subseteq SpansIn(r)
    <3> SUFFICES ASSUME NEW h \in Spans, NEW b \in DOMAIN bs, NEW k \in DOMAIN bs[b], bs[b][k] = h
                 PROVE  \E c \in DOMAIN r : \E m \in DOMAIN r[c] : r[c][m] = h
      BY DEF SpansIn
    <3>1. CASE b = n
      <4>1. k \in DOMAIN last /\ last[k] = h
        BY <3>1 DEF last
      <4>2. k \in DOMAIN longer /\ longer[k] = h
        BY <2>2, <2>5, <4>1
      <4> QED BY <2>1, <2>6, <2>7, <4>2
    <3>2. CASE b # n
      BY <1>0, <2>6, <2>7, <3>2
    <3> QED BY <3>1, <3>2
  <2> QED BY <1>3, <2>6, <2>8, <2>9, <2>10 DEF r
<1>4. \/ g.count = 0 \/ (g.count # 0 /\ r = Append(bs, one))
      \/ (g.count # 0 /\ bs # <<>> /\ r = Append(Context!Front(bs), Append(Context!Last(bs), g)))
  BY DEF Context!Batched
<1> QED BY <1>1, <1>2, <1>3, <1>4

Batching(ranges, f, n) ==
  f = [k \in 0 .. n |-> IF k = 0 THEN <<>> ELSE Context!Batched(f[k - 1], ranges[k])]

LEMMA BatchingGoesOn ==
  ASSUME NEW ranges, NEW n \in Nat, NEW f, Batching(ranges, f, n)
  PROVE  \E h : Batching(ranges, h, n + 1)
<1> DEFINE h == [k \in 0 .. n + 1 |->
                   IF k = n + 1 THEN Context!Batched(f[n], ranges[n + 1]) ELSE f[k]]
<1>1. \A k \in 0 .. n : f[k] = IF k = 0 THEN <<>> ELSE Context!Batched(f[k - 1], ranges[k])
  BY DEF Batching
<1>2. DOMAIN h = 0 .. n + 1 /\ h[n + 1] = Context!Batched(f[n], ranges[n + 1])
      /\ \A k \in 0 .. n : h[k] = f[k]
  OBVIOUS
<1>3. h = [k \in 0 .. n + 1 |-> h[k]]
  OBVIOUS
<1> HIDE DEF h
<1>4. ASSUME NEW k \in 0 .. n + 1
      PROVE  h[k] = IF k = 0 THEN <<>> ELSE Context!Batched(h[k - 1], ranges[k])
  <2>1. CASE k = n + 1
    <3>1. k # 0 /\ k - 1 = n /\ n \in 0 .. n
      BY <2>1
    <3> QED BY <1>2, <2>1, <3>1
  <2>2. CASE k \in 0 .. n /\ k # 0
    <3>1. k - 1 \in 0 .. n
      BY <2>2
    <3> QED BY <1>1, <1>2, <2>2, <3>1
  <2>3. CASE k = 0
    <3>1. 0 \in 0 .. n
      OBVIOUS
    <3> QED BY <1>1, <1>2, <2>3, <3>1
  <2> QED BY <2>1, <2>2, <2>3
<1>5. h = [k \in 0 .. n + 1 |-> IF k = 0 THEN <<>> ELSE Context!Batched(h[k - 1], ranges[k])]
  BY <1>3, <1>4
<1> QED BY <1>5 DEF Batching

LEMMA BatchesHold ==
  ASSUME NEW ranges \in Seq(Spans)
  PROVE  /\ Context!batchContextRanges(ranges) \in Seq(Seq(Spans))
         /\ SpansIn(Context!batchContextRanges(ranges)) =
              {ranges[k] : k \in {k \in DOMAIN ranges : ranges[k].count # 0}}
<1> DEFINE N == Len(ranges)
           Good == {n \in Nat : \E f : Batching(ranges, f, n)}
           f == CHOOSE f : Batching(ranges, f, N)
<1>1. N \in Nat /\ DOMAIN ranges = 1 .. N
  OBVIOUS
<1>2. Nat \subseteq Good
  <2>1. 0 \in Good
    <3>1. Batching(ranges, [k \in 0 .. 0 |-> <<>>], 0)
      BY DEF Batching
    <3> QED BY <3>1
  <2>2. \A n \in Nat : n \in Good => n + 1 \in Good
    BY BatchingGoesOn
  <2> HIDE DEF Good
  <2> QED BY <2>1, <2>2, Induction
<1>3. Batching(ranges, f, N)
  <2> HIDE DEF N
  <2>1. \E g : Batching(ranges, g, N)
    BY <1>1, <1>2
  <2> QED BY <2>1
<1>4. Context!batchContextRanges(ranges) = f[N]
  BY DEF Context!batchContextRanges, Batching
<1> HIDE DEF f, N
<1>5. \A k \in 0 .. N : f[k] = IF k = 0 THEN <<>> ELSE Context!Batched(f[k - 1], ranges[k])
  BY <1>3 DEF Batching
<1> DEFINE upto(n) == {ranges[k] : k \in {k \in 1 .. n : ranges[k].count # 0}}
           Right == {n \in Nat : n <= N => f[n] \in Seq(Seq(Spans)) /\ SpansIn(f[n]) = upto(n)}
<1>6. 0 \in Right
  <2>1. f[0] = <<>>
    <3>1. 0 \in 0 .. N
      BY <1>1
    <3> QED BY <1>5, <3>1
  <2>2. <<>> \in Seq(Seq(Spans)) /\ SpansIn(<<>>) = {} /\ upto(0) = {}
    <3>1. <<>> \in Seq(Seq(Spans))
      OBVIOUS
    <3>2. SpansIn(<<>>) = {}
      BY DEF SpansIn
    <3> QED BY <3>1, <3>2
  <2> QED BY <2>1, <2>2
<1>7. ASSUME NEW n \in Nat, n \in Right PROVE n + 1 \in Right
  <2> SUFFICES ASSUME n + 1 <= N
               PROVE  f[n + 1] \in Seq(Seq(Spans)) /\ SpansIn(f[n + 1]) = upto(n + 1)
    OBVIOUS
  <2> DEFINE g == ranges[n + 1]
  <2>1. f[n] \in Seq(Seq(Spans)) /\ SpansIn(f[n]) = upto(n)
    BY <1>1, <1>7
  <2>2. n + 1 \in 0 .. N /\ n + 1 \in 1 .. N /\ n + 1 # 0 /\ (n + 1) - 1 = n
    BY <1>1
  <2>3. g \in Spans
    BY <1>1, <2>2
  <2>4. f[n + 1] = Context!Batched(f[n], g)
    <3> HIDE DEF Right
    <3> QED BY <1>5, <2>2
  <2>5. upto(n + 1) = upto(n) \cup (IF g.count = 0 THEN {} ELSE {g})
    <3>1. 1 .. n + 1 = (1 .. n) \cup {n + 1}
      OBVIOUS
    <3> QED BY <3>1
  <2> HIDE DEF g, upto, Right
  <2> QED BY <2>1, <2>3, <2>4, <2>5, BatchedIs
<1>8. N \in Right
  <2> HIDE DEF Right
  <2>1. Nat \subseteq Right
    BY <1>6, <1>7, Induction
  <2> QED BY <1>1, <2>1
<1>9. f[N] \in Seq(Seq(Spans)) /\ SpansIn(f[N]) = upto(N)
  BY <1>1, <1>8
<1> QED BY <1>1, <1>4, <1>9

Segments == [offset : Nat, count : Nat]
Regions ==
  [oldStart : Nat, newStart : Nat, count : Nat, segments : Seq(Segments),
   previews : SUBSET Nat, pending : BOOLEAN]
\* The lines of a span, of a segment or of a gap.
LinesOf(g) == {x \in Nat : g.offset <= x /\ x < g.offset + g.count}
Held(segments) == {x \in Nat : \E n \in DOMAIN segments : x \in LinesOf(segments[n])}

LEMMA SmallestNumber ==
  ASSUME NEW S, S \subseteq Nat, S # {}
  PROVE  \E x \in S : \A y \in S : x <= y
<1>1. PICK x \in S : \A y \in S : <<y, x>> \notin OpToRel(<, Nat)
  BY NatLessThanWellFounded, WFMin
<1>2. \A y \in S : ~(y < x)
  BY <1>1 DEF OpToRel
<1> QED BY <1>2

\* The gaps of a region are runs of lines that no segment has, and together all of them.
LEMMA GapsAre ==
  ASSUME NEW count \in Nat, NEW segments \in Seq(Segments)
  PROVE  /\ \A g \in Context!missingContextSpans(count, segments) :
              g \in Segments /\ g.count > 0 /\ g.offset + g.count <= count
              /\ \A x \in LinesOf(g) : x \notin Held(segments)
         /\ \A x \in Nat : x < count /\ x \notin Held(segments) =>
              \E g \in Context!missingContextSpans(count, segments) : x \in LinesOf(g)
<1> DEFINE held == {k \in 0 .. count - 1 : \E s \in Context!ToSet(segments) :
                      s.offset <= k /\ k < s.offset + s.count}
           free == (0 .. count - 1) \ held
           starts == {k \in free : k = 0 \/ k - 1 \in held}
           after(k) == {j \in k .. count : j = count \/ j \in held}
           end(k) == Context!Min(after(k))
           gaps == Context!missingContextSpans(count, segments)
<1>1. gaps = {[offset |-> k, count |-> end(k) - k] : k \in starts}
  BY DEF Context!missingContextSpans
<1>2. held = (0 .. count - 1) \cap Held(segments)
  <2>1. \A n \in DOMAIN segments : segments[n] \in Segments
    OBVIOUS
  <2>2. \A k \in 0 .. count - 1 : (\E s \in Context!ToSet(segments) : s.offset <= k /\ k < s.offset + s.count)
                                  <=> k \in Held(segments)
    BY DEF Held, LinesOf, Context!ToSet
  <2> HIDE DEF gaps
  <2> QED BY <2>2
<1> HIDE DEF held, gaps
<1>3. ASSUME NEW k \in free
      PROVE  end(k) \in k + 1 .. count /\ (end(k) = count \/ end(k) \in held)
             /\ \A j \in k .. end(k) - 1 : j \notin held
  <2> DEFINE M == after(k)
             e == Context!Min(M)
  <2>1. M \subseteq Nat /\ count \in M /\ k \in Nat /\ k < count /\ k \notin held
    OBVIOUS
  <2>2. \E x \in M : \A y \in M : x <= y
    <3> HIDE DEF M
    <3> QED BY <2>1, SmallestNumber
  <2>3. e \in M /\ \A y \in M : e <= y
    <3> HIDE DEF M
    <3> QED BY <2>2 DEF Context!Min
  <2> HIDE DEF e
  <2>4. e \in k .. count /\ (e = count \/ e \in held)
    BY <2>3
  <2>5. e # k
    BY <2>1, <2>4
  <2>6. \A j \in k .. e - 1 : j \notin held
    BY <2>1, <2>3, <2>4
  <2>7. e \in k + 1 .. count
    BY <2>1, <2>4, <2>5
  <2>8. end(k) = e
    BY DEF e
  <2> HIDE DEF end
  <2> QED BY <2>4, <2>6, <2>7, <2>8
<1> HIDE DEF end
<1>4. ASSUME NEW g \in gaps
      PROVE  g \in Segments /\ g.count > 0 /\ g.offset + g.count <= count
             /\ \A x \in LinesOf(g) : x \notin Held(segments)
  <2>1. PICK k \in starts : g = [offset |-> k, count |-> end(k) - k]
    BY <1>1
  <2>2. k \in free /\ k \in Nat
    OBVIOUS
  <2>3. end(k) \in k + 1 .. count /\ \A j \in k .. end(k) - 1 : j \notin held
    BY <1>3, <2>2
  <2>4. g.offset = k /\ g.count = end(k) - k /\ end(k) - k \in Nat
    BY <2>1, <2>2, <2>3
  <2>5. g \in Segments
    BY <2>1, <2>2, <2>4 DEF Segments
  <2>6. ASSUME NEW x \in LinesOf(g) PROVE x \notin Held(segments)
    <3>1. x \in Nat /\ k <= x /\ x < end(k)
      BY <2>2, <2>3, <2>4 DEF LinesOf
    <3>2. x \in k .. end(k) - 1 /\ x \in 0 .. count - 1
      BY <2>2, <2>3, <3>1
    <3> QED BY <1>2, <2>3, <3>2
  <2> QED BY <2>2, <2>3, <2>4, <2>5, <2>6
<1>5. ASSUME NEW x \in Nat, x < count, x \notin Held(segments)
      PROVE  \E g \in gaps : x \in LinesOf(g)
  <2> DEFINE P == {k \in 0 .. x : \A j \in k .. x : j \notin held}
  <2>1. x \in 0 .. count - 1 /\ x \in free
    BY <1>2, <1>5
  <2>2. x \in P /\ P \subseteq Nat
    BY <2>1
  <2>3. PICK k \in P : \A y \in P : k <= y
    <3> HIDE DEF P
    <3> QED BY <2>2, SmallestNumber
  <2>4. k \in 0 .. x /\ \A j \in k .. x : j \notin held
    OBVIOUS
  <2>5. k \in free
    BY <1>5, <2>4
  <2>6. k = 0 \/ k - 1 \in held
    <3> SUFFICES ASSUME k # 0, k - 1 \notin held PROVE FALSE
      OBVIOUS
    <3>1. k - 1 \in 0 .. x /\ \A j \in k - 1 .. x : j = k - 1 \/ j \in k .. x
      BY <2>4
    <3>2. k - 1 \in P
      BY <2>4, <3>1
    <3>3. k <= k - 1
      BY <2>3, <3>2
    <3> QED BY <2>4, <3>3
  <2> HIDE DEF P
  <2>7. end(k) \in k + 1 .. count /\ (end(k) = count \/ end(k) \in held)
    BY <1>3, <2>5
  <2>8. x < end(k)
    <3> SUFFICES ASSUME ~(x < end(k)) PROVE FALSE
      OBVIOUS
    <3>1. end(k) \in k .. x /\ end(k) # count
      BY <1>5, <2>4, <2>7
    <3> QED BY <2>4, <2>7, <3>1
  <2>9. [offset |-> k, count |-> end(k) - k] \in gaps
    BY <1>1, <2>5, <2>6
  <2>10. x \in LinesOf([offset |-> k, count |-> end(k) - k])
    BY <2>4, <2>7, <2>8 DEF LinesOf
  <2> QED BY <2>9, <2>10
<1> QED BY <1>4, <1>5 DEF gaps

--------------------------------------------------------------------------------
(* What is on the screen. *)

\* The segments in the order of their offsets: the same ones, none twice.
LEMMA SortedIs ==
  ASSUME NEW segments \in Seq(Segments)
  PROVE  /\ Context!Sorted(segments) \in Seq(Segments)
         /\ Len(Context!Sorted(segments)) = Len(segments)
         /\ \A j, k \in 1 .. Len(segments) : j < k =>
              Context!Sorted(segments)[j].offset <= Context!Sorted(segments)[k].offset
         /\ \A k \in 1 .. Len(segments) : \E m \in 1 .. Len(segments) :
              Context!Sorted(segments)[k] = segments[m]
         /\ \A m \in 1 .. Len(segments) : \E k \in 1 .. Len(segments) :
              Context!Sorted(segments)[k] = segments[m]
<1> DEFINE N == Len(segments)
           all == DOMAIN segments
           order == {p \in all \X all :
              \/ segments[p[1]].offset < segments[p[2]].offset
              \/ segments[p[1]].offset = segments[p[2]].offset /\ p[1] < p[2]}
           at == Context!Arrange(all, order)
           sorted == Context!Sorted(segments)
<1>1. N \in Nat /\ all = 1 .. N
  OBVIOUS
<1>2. IsFiniteSet(all) /\ Cardinality(all) = N
  <2>1. 1 \in Int /\ N \in Int /\ IsFiniteSet(1 .. N)
        /\ Cardinality(1 .. N) = IF 1 > N THEN 0 ELSE N - 1 + 1
    <3> HIDE DEF N
    <3> QED BY <1>1, FS_Interval
  <2> HIDE DEF N, all
  <2> QED BY <1>1, <2>1
<1>3. \A n \in all : segments[n].offset \in Nat /\ n \in Nat /\ segments[n] \in Segments
  <2>1. \A n \in all : n \in Nat /\ segments[n] \in Segments
    OBVIOUS
  <2> HIDE DEF all
  <2> QED BY <2>1 DEF Segments
<1>4. Orders(order, all)
  <2>1. \A x, y \in all : <<x, y>> \in order <=>
          \/ segments[x].offset < segments[y].offset
          \/ segments[x].offset = segments[y].offset /\ x < y
    OBVIOUS
  <2> HIDE DEF order, all
  <2>2. \A x \in all : segments[x].offset \in Nat /\ x \in Nat
    BY <1>3
  <2>3. ASSUME NEW x \in all, NEW y \in all, x # y PROVE <<x, y>> \in order \/ <<y, x>> \in order
    BY <2>1, <2>2, <2>3
  <2>4. \A x \in all : <<x, x>> \notin order
    BY <2>1, <2>2
  <2>5. ASSUME NEW x \in all, NEW y \in all, NEW z \in all, <<x, y>> \in order, <<y, z>> \in order
        PROVE  <<x, z>> \in order
    BY <2>1, <2>2, <2>5
  <2> QED BY <2>3, <2>4, <2>5 DEF Orders
<1>5. sorted = [n \in all |-> segments[at[n]]]
  BY DEF Context!Sorted
<1>6. IsArranged(at, all, order)
  <2> HIDE DEF all, order
  <2> QED BY <1>2, <1>4, ArrangeIs
<1>7. /\ at \in [1 .. N -> all] /\ \A x \in all : \E k \in 1 .. N : at[k] = x
      /\ \A j, k \in 1 .. N : j < k => <<at[j], at[k]>> \in order
  <2> HIDE DEF at, all, order, N
  <2> QED BY <1>2, <1>6 DEF IsArranged
<1>8. \A j, k \in all : <<j, k>> \in order => segments[j].offset <= segments[k].offset
  BY <1>3
<1> HIDE DEF order, at
<1>9. sorted \in [1 .. N -> Segments] /\ \A k \in 1 .. N : sorted[k] = segments[at[k]] /\ at[k] \in all
  <2> HIDE DEF sorted, N, all
  <2>1. \A k \in 1 .. N : at[k] \in all /\ k \in all
    BY <1>1, <1>7
  <2> QED BY <1>1, <1>3, <1>5, <2>1
<1>10. sorted \in Seq(Segments) /\ Len(sorted) = N
  <2> HIDE DEF sorted, N
  <2> QED BY <1>1, <1>9
<1> HIDE DEF sorted
<1>11. \A j, k \in 1 .. N : j < k => sorted[j].offset <= sorted[k].offset
  <2> HIDE DEF N, all
  <2> QED BY <1>7, <1>8, <1>9
<1> HIDE DEF N, all
<1>12. \A m \in 1 .. N : \E k \in 1 .. N : sorted[k] = segments[m]
  <2> SUFFICES ASSUME NEW m \in 1 .. N PROVE \E k \in 1 .. N : sorted[k] = segments[m]
    OBVIOUS
  <2>1. PICK k \in 1 .. N : at[k] = m
    BY <1>1, <1>7
  <2>2. sorted[k] = segments[m]
    BY <1>9, <2>1
  <2> QED BY <2>2
<1> QED BY <1>1, <1>9, <1>10, <1>11, <1>12 DEF sorted, N

\* What has been put on the screen up to the cursor: the lines of the segments, in
\* order, and behind gaps the lines of none.
Painting(s, sorted, n, count) ==
  /\ s.cursor \in Nat /\ s.cursor <= count
  /\ s.shown \in Seq(Nat)
  /\ \A j, k \in DOMAIN s.shown : j < k => s.shown[j] < s.shown[k]
  /\ \A k \in DOMAIN s.shown : s.shown[k] < s.cursor /\ s.shown[k] \in Held(sorted)
  /\ \A x \in s.hidden : x \in Nat /\ x < s.cursor /\ x \notin Held(sorted)
  /\ \A x \in Nat : x < s.cursor => x \in s.hidden \/ \E k \in DOMAIN s.shown : s.shown[k] = x
  /\ \A m \in 1 .. n : sorted[m].offset + sorted[m].count <= s.cursor

LEMMA PaintingGoesOn ==
  ASSUME NEW region, NEW sorted \in Seq(Segments), NEW n \in Nat, n < Len(sorted), NEW s,
         region.count \in Nat,
         \A j, k \in 1 .. Len(sorted) : j < k => sorted[j].offset <= sorted[k].offset,
         \A k \in 1 .. Len(sorted) : sorted[k].offset + sorted[k].count <= region.count,
         Painting(s, sorted, n, region.count)
  PROVE  Painting(Context!Shown(region, s, sorted[n + 1]), sorted, n + 1, region.count)
<1> DEFINE seg == sorted[n + 1]
           o == seg.offset
           c == seg.count
           r == Context!Shown(region, s, seg)
           end == Context!Least(region.count, o + c)
           skip == Context!Less(s.cursor, o)
           new == [k \in 1 .. c - skip |-> o + skip + k - 1]
<1>1. n + 1 \in 1 .. Len(sorted) /\ DOMAIN sorted = 1 .. Len(sorted) /\ Len(sorted) \in Nat
  OBVIOUS
<1>2. seg \in Segments /\ o \in Nat /\ c \in Nat /\ o + c <= region.count
  <2>1. seg \in Segments /\ o + c <= region.count
    BY <1>1
  <2> HIDE DEF seg
  <2> QED BY <2>1 DEF Segments
<1>3. end = o + c
  <2> HIDE DEF o, c
  <2> QED BY <1>2 DEF Context!Least
<1>4. s.cursor \in Nat /\ s.cursor <= region.count
  BY DEF Painting
<1>5. skip \in Nat /\ (s.cursor <= o => skip = 0) /\ (o < s.cursor => skip = s.cursor - o)
  <2> HIDE DEF o
  <2> QED BY <1>2, <1>4 DEF Context!Less
<1>6. \A m \in 1 .. n + 1 : m \in 1 .. n \/ m = n + 1
  OBVIOUS
<1>7. CASE o + c <= s.cursor
  <2>1. r = s
    BY <1>3, <1>7 DEF Context!Shown
  <2>2. \A m \in 1 .. n : sorted[m].offset + sorted[m].count <= s.cursor
    BY DEF Painting
  <2>3. \A m \in 1 .. n + 1 : sorted[m].offset + sorted[m].count <= s.cursor
    BY <1>6, <1>7, <2>2
  <2> HIDE DEF r
  <2>4. Painting(s, sorted, n + 1, region.count)
    BY <2>3 DEF Painting
  <2> QED BY <2>1, <2>4 DEF r
<1>8. CASE s.cursor < o + c
  <2>1. r = [cursor |-> o + c, shown |-> s.shown \o new, hidden |-> s.hidden \cup (s.cursor .. o - 1)]
    <3>1. ~(end <= s.cursor)
      <4> HIDE DEF end, o, c
      <4> QED BY <1>2, <1>3, <1>4, <1>8
    <3>2. r = [cursor |-> end, shown |-> s.shown \o new, hidden |-> s.hidden \cup (s.cursor .. o - 1)]
      BY <3>1 DEF Context!Shown
    <3> HIDE DEF r, new, end
    <3> QED BY <1>3, <3>2
  <2> DEFINE L == Len(s.shown)
             M == c - skip
             both == s.shown \o new
  <2>2. s.shown \in Seq(Nat) /\ L \in Nat /\ DOMAIN s.shown = 1 .. L
    BY DEF Painting
  <2>3. M \in Nat
    <3> HIDE DEF o, c, skip
    <3> QED BY <1>2, <1>4, <1>5, <1>8
  <2>4. new \in Seq(Nat) /\ Len(new) = M /\ \A k \in 1 .. M : new[k] = o + skip + k - 1
    <3> HIDE DEF o, c, skip
    <3>1. \A k \in 1 .. c - skip : o + skip + k - 1 \in Nat
      BY <1>2, <1>5
    <3> QED BY <2>3, <3>1
  <2> HIDE DEF new
  <2>5. both \in Seq(Nat) /\ Len(both) = L + M /\ (\A k \in 1 .. L : both[k] = s.shown[k])
        /\ \A k \in L + 1 .. L + M : both[k] = new[k - L]
    <3> HIDE DEF M, L
    <3>1. both \in Seq(Nat) /\ Len(both) = L + M
          /\ \A k \in 1 .. L + M : both[k] = IF k <= L THEN s.shown[k] ELSE new[k - L]
      <4> HIDE DEF both
      <4>1. /\ s.shown \o new \in Seq(Nat)
            /\ Len(s.shown \o new) = Len(s.shown) + Len(new)
            /\ \A k \in 1 .. Len(s.shown) + Len(new) :
                 (s.shown \o new)[k] = IF k <= Len(s.shown) THEN s.shown[k] ELSE new[k - Len(s.shown)]
        BY <2>2, <2>4, ConcatProperties, Zenon
      <4> QED BY <2>4, <4>1 DEF both, L
    <3> HIDE DEF both
    <3>2. ASSUME NEW k \in 1 .. L PROVE both[k] = s.shown[k]
      <4>1. k \in 1 .. L + M /\ k <= L
        BY <2>2, <2>3
      <4> QED BY <3>1, <4>1
    <3>3. ASSUME NEW k \in L + 1 .. L + M PROVE both[k] = new[k - L]
      <4>1. k \in 1 .. L + M /\ ~(k <= L)
        BY <2>2, <2>3
      <4> QED BY <3>1, <4>1
    <3> QED BY <3>1, <3>2, <3>3
  <2>6. \A k \in L + 1 .. L + M : both[k] = o + skip + (k - L) - 1
    <3> HIDE DEF o, skip, both
    <3> SUFFICES ASSUME NEW k \in L + 1 .. L + M PROVE both[k] = o + skip + (k - L) - 1
      OBVIOUS
    <3>1. k - L \in 1 .. M
      <4> HIDE DEF L, M
      <4> QED BY <2>2, <2>3
    <3> HIDE DEF L, M
    <3> QED BY <2>4, <2>5, <3>1
  <2> HIDE DEF both, r, L, o, c, skip
  <2>7. r.cursor = o + c /\ r.shown = both /\ r.hidden = s.hidden \cup (s.cursor .. o - 1)
    BY <2>1 DEF both
  <2>8. DOMAIN both = 1 .. L + M /\ \A k \in 1 .. L + M : k \in 1 .. L \/ k \in L + 1 .. L + M
    <3> HIDE DEF M
    <3> QED BY <2>2, <2>3, <2>5
  <2>9. \A k \in L + 1 .. L + M : s.cursor <= both[k] /\ o <= both[k] /\ both[k] < o + c
    BY <1>2, <1>4, <1>5, <2>2, <2>3, <2>6
  <2>10. \A k \in 1 .. L : both[k] \in Nat /\ both[k] < s.cursor /\ both[k] \in Held(sorted)
    <3>1. \A k \in 1 .. L : s.shown[k] \in Nat
      BY <2>2
    <3> QED BY <2>2, <2>5, <3>1 DEF Painting
  <2>11. \A k \in L + 1 .. L + M : both[k] \in Held(sorted)
    <3> SUFFICES ASSUME NEW k \in L + 1 .. L + M PROVE both[k] \in Held(sorted)
      OBVIOUS
    <3>1. both[k] \in Nat
      <4> HIDE DEF M
      <4> QED BY <2>2, <2>3, <2>5
    <3>2. both[k] \in LinesOf(seg)
      BY <2>9, <3>1 DEF LinesOf, o, c
    <3> QED BY <1>1, <3>1, <3>2 DEF Held
  <2>12. \A j, k \in DOMAIN both : j < k => both[j] < both[k]
    <3> SUFFICES ASSUME NEW j \in 1 .. L + M, NEW k \in 1 .. L + M, j < k PROVE both[j] < both[k]
      BY <2>8
    <3>1. CASE k \in 1 .. L
      <4>1. j \in 1 .. L
        BY <2>2, <3>1
      <4> QED BY <2>2, <2>5, <3>1, <4>1 DEF Painting
    <3>2. CASE j \in 1 .. L /\ k \in L + 1 .. L + M
      <4>1. both[j] \in Nat /\ both[j] < s.cursor /\ s.cursor <= both[k]
        BY <2>9, <2>10, <3>2
      <4>2. both[k] \in Nat
        BY <2>5, <2>8
      <4> QED BY <1>4, <4>1, <4>2
    <3>3. CASE j \in L + 1 .. L + M /\ k \in L + 1 .. L + M
      <4>1. both[j] = o + skip + (j - L) - 1 /\ both[k] = o + skip + (k - L) - 1
        BY <2>6, <3>3
      <4> QED BY <1>2, <1>5, <2>2, <4>1
    <3>4. j \in 1 .. L \/ j \in L + 1 .. L + M
      BY <2>8
    <3>5. k \in 1 .. L \/ k \in L + 1 .. L + M
      BY <2>8
    <3>6. ~(j \in L + 1 .. L + M /\ k \in 1 .. L)
      BY <2>2, <2>3
    <3> QED BY <3>1, <3>2, <3>3, <3>4, <3>5, <3>6
  <2>13. \A k \in DOMAIN both : both[k] < o + c /\ both[k] \in Held(sorted)
    <3> SUFFICES ASSUME NEW k \in 1 .. L + M PROVE both[k] < o + c /\ both[k] \in Held(sorted)
      BY <2>8
    <3>1. CASE k \in 1 .. L
      BY <1>2, <1>4, <1>8, <2>10, <3>1
    <3>2. CASE k \in L + 1 .. L + M
      BY <2>9, <2>11, <3>2
    <3> QED BY <2>8, <3>1, <3>2
  <2>14. ASSUME NEW x \in r.hidden PROVE x \in Nat /\ x < o + c /\ x \notin Held(sorted)
    <3>1. CASE x \in s.hidden
      <4>1. x \in Nat /\ x < s.cursor /\ x \notin Held(sorted)
        BY <3>1 DEF Painting
      <4> QED BY <1>2, <1>4, <1>8, <4>1
    <3>2. CASE x \in s.cursor .. o - 1
      <4>1. x \in Nat /\ s.cursor <= x /\ x < o /\ x < o + c
        BY <1>2, <1>4, <3>2
      <4>2. ASSUME NEW m \in 1 .. Len(sorted) PROVE x \notin LinesOf(sorted[m])
        <5>1. sorted[m].offset \in Nat /\ sorted[m].count \in Nat
          <6>1. sorted[m] \in Segments
            OBVIOUS
          <6> QED BY <6>1 DEF Segments
        <5>2. CASE m \in 1 .. n
          <6>1. sorted[m].offset + sorted[m].count <= s.cursor
            BY <5>2 DEF Painting
          <6> QED BY <1>4, <4>1, <5>1, <6>1 DEF LinesOf
        <5>3. CASE m = n + 1
          BY <1>2, <4>1, <5>3 DEF LinesOf, o
        <5>4. CASE n + 1 < m
          <6>1. o <= sorted[m].offset
            BY <1>1, <5>4 DEF o
          <6> QED BY <1>2, <4>1, <5>1, <6>1 DEF LinesOf
        <5> QED BY <1>1, <5>2, <5>3, <5>4
      <4> QED BY <1>1, <4>1, <4>2 DEF Held
    <3> QED BY <2>7, <3>1, <3>2
  <2>15. ASSUME NEW x \in Nat, x < o + c PROVE x \in r.hidden \/ \E k \in DOMAIN both : both[k] = x
    <3>1. CASE x < s.cursor
      <4>1. CASE x \in s.hidden
        BY <2>7, <4>1
      <4>2. CASE \E k \in DOMAIN s.shown : s.shown[k] = x
        <5>1. PICK k \in 1 .. L : s.shown[k] = x
          BY <2>2, <4>2
        <5>2. k \in 1 .. L + M
          BY <2>2, <2>3
        <5> QED BY <2>5, <2>8, <5>1, <5>2
      <4> QED BY <3>1, <4>1, <4>2 DEF Painting
    <3>2. CASE s.cursor <= x /\ x < o
      <4>1. x \in s.cursor .. o - 1
        BY <1>2, <1>4, <3>2
      <4> QED BY <2>7, <4>1
    <3>3. CASE s.cursor <= x /\ o <= x
      <4> DEFINE k == L + (x - (o + skip)) + 1
      <4>1. o + skip <= x
        BY <1>2, <1>4, <1>5, <3>3
      <4>2. k \in L + 1 .. L + M /\ o + skip + (k - L) - 1 = x
        BY <1>2, <1>5, <2>2, <2>3, <2>15, <4>1
      <4> HIDE DEF k
      <4>3. k \in 1 .. L + M
        BY <2>2, <2>3, <4>2
      <4> QED BY <2>6, <2>8, <4>2, <4>3
    <3> QED BY <1>2, <1>4, <3>1, <3>2, <3>3
  <2>16. \A m \in 1 .. n + 1 : sorted[m].offset + sorted[m].count <= o + c
    <3>1. ASSUME NEW m \in 1 .. n PROVE sorted[m].offset + sorted[m].count <= o + c
      <4>1. sorted[m].offset \in Nat /\ sorted[m].count \in Nat
        <5>1. m \in 1 .. Len(sorted) /\ sorted[m] \in Segments
          BY <1>1
        <5> QED BY <5>1 DEF Segments
      <4>2. sorted[m].offset + sorted[m].count <= s.cursor
        BY DEF Painting
      <4> QED BY <1>2, <1>4, <1>8, <4>1, <4>2
    <3>2. sorted[n + 1].offset + sorted[n + 1].count <= o + c
      BY <1>2 DEF o, c
    <3> QED BY <1>6, <3>1, <3>2
  <2>17. o + c \in Nat /\ o + c <= region.count
    BY <1>2
  <2> HIDE DEF M, end, seg
  <2> QED BY <2>5, <2>7, <2>12, <2>13, <2>14, <2>15, <2>16, <2>17 DEF Painting, r, seg
<1> QED BY <1>2, <1>4, <1>7, <1>8

Nothing == [cursor |-> 0, shown |-> <<>>, hidden |-> {}]
Rendering(region, sorted, f, n) ==
  f = [k \in 0 .. n |-> IF k = 0 THEN Nothing ELSE Context!Shown(region, f[k - 1], sorted[k])]

LEMMA RenderingGoesOn ==
  ASSUME NEW region, NEW sorted, NEW n \in Nat, NEW f, Rendering(region, sorted, f, n)
  PROVE  \E h : Rendering(region, sorted, h, n + 1)
<1> DEFINE h == [k \in 0 .. n + 1 |->
                   IF k = n + 1 THEN Context!Shown(region, f[n], sorted[n + 1]) ELSE f[k]]
<1>1. \A k \in 0 .. n : f[k] = IF k = 0 THEN Nothing ELSE Context!Shown(region, f[k - 1], sorted[k])
  BY DEF Rendering
<1>2. DOMAIN h = 0 .. n + 1 /\ h[n + 1] = Context!Shown(region, f[n], sorted[n + 1])
      /\ \A k \in 0 .. n : h[k] = f[k]
  OBVIOUS
<1>3. h = [k \in 0 .. n + 1 |-> h[k]]
  OBVIOUS
<1> HIDE DEF h
<1>4. ASSUME NEW k \in 0 .. n + 1
      PROVE  h[k] = IF k = 0 THEN Nothing ELSE Context!Shown(region, h[k - 1], sorted[k])
  <2>1. CASE k = n + 1
    <3>1. k # 0 /\ k - 1 = n /\ n \in 0 .. n
      BY <2>1
    <3> QED BY <1>2, <2>1, <3>1
  <2>2. CASE k \in 0 .. n /\ k # 0
    <3>1. k - 1 \in 0 .. n
      BY <2>2
    <3> QED BY <1>1, <1>2, <2>2, <3>1
  <2>3. CASE k = 0
    <3>1. 0 \in 0 .. n
      OBVIOUS
    <3> QED BY <1>1, <1>2, <2>3, <3>1
  <2> QED BY <2>1, <2>2, <2>3
<1>5. h = [k \in 0 .. n + 1 |-> IF k = 0 THEN Nothing ELSE Context!Shown(region, h[k - 1], sorted[k])]
  BY <1>3, <1>4
<1> QED BY <1>5 DEF Rendering

Fitting(region) ==
  /\ region.count \in Nat /\ region.segments \in Seq(Segments)
  /\ \A k \in DOMAIN region.segments :
       region.segments[k].offset + region.segments[k].count <= region.count

OnScreen(on, region) ==
  /\ \A j, k \in DOMAIN on.shown : j < k => on.shown[j] < on.shown[k]
  /\ Context!ToSet(on.shown) = Held(region.segments)
  /\ on.hidden = {x \in Nat : x < region.count /\ x \notin Held(region.segments)}

LEMMA RenderedIs ==
  ASSUME NEW region, Fitting(region)
  PROVE  OnScreen(Context!renderContextRegion(region), region)
<1> DEFINE segments == region.segments
           sorted == Context!Sorted(segments)
           N == Len(sorted)
           Good == {n \in Nat : \E f : Rendering(region, sorted, f, n)}
           f == CHOOSE f : Rendering(region, sorted, f, N)
           on == Context!renderContextRegion(region)
<1>1. region.count \in Nat /\ segments \in Seq(Segments)
      /\ \A k \in DOMAIN segments : segments[k].offset + segments[k].count <= region.count
  BY DEF Fitting
<1> HIDE DEF segments
<1>2. /\ sorted \in Seq(Segments) /\ N = Len(segments)
      /\ \A j, k \in 1 .. N : j < k => sorted[j].offset <= sorted[k].offset
      /\ \A k \in 1 .. N : \E m \in 1 .. N : sorted[k] = segments[m]
      /\ \A m \in 1 .. N : \E k \in 1 .. N : sorted[k] = segments[m]
  BY <1>1, SortedIs
<1> HIDE DEF sorted
<1>3. N \in Nat /\ DOMAIN sorted = 1 .. N /\ DOMAIN segments = 1 .. N
  BY <1>1, <1>2
<1>4. Held(sorted) = Held(segments)
  <2> HIDE DEF N
  <2>1. ASSUME NEW x \in Held(sorted) PROVE x \in Held(segments)
    <3>1. x \in Nat /\ \E n \in 1 .. N : x \in LinesOf(sorted[n])
      BY <1>3 DEF Held
    <3>2. \E m \in 1 .. N : x \in LinesOf(segments[m])
      BY <1>2, <3>1
    <3> QED BY <1>3, <3>1, <3>2 DEF Held
  <2>2. ASSUME NEW x \in Held(segments) PROVE x \in Held(sorted)
    <3>1. x \in Nat /\ \E n \in 1 .. N : x \in LinesOf(segments[n])
      BY <1>3 DEF Held
    <3>2. \E m \in 1 .. N : x \in LinesOf(sorted[m])
      BY <1>2, <3>1
    <3> QED BY <1>3, <3>1, <3>2 DEF Held
  <2> QED BY <2>1, <2>2
<1>5. \A k \in 1 .. N : sorted[k].offset + sorted[k].count <= region.count
  <2> HIDE DEF N
  <2> QED BY <1>1, <1>2, <1>3
<1>6. Nat \subseteq Good
  <2>1. 0 \in Good
    <3>1. Rendering(region, sorted, [k \in 0 .. 0 |-> Nothing], 0)
      BY DEF Rendering
    <3> QED BY <3>1
  <2>2. \A n \in Nat : n \in Good => n + 1 \in Good
    BY RenderingGoesOn
  <2> HIDE DEF Good
  <2> QED BY <2>1, <2>2, Induction
<1>7. Rendering(region, sorted, f, N)
  <2> HIDE DEF N
  <2>1. \E g : Rendering(region, sorted, g, N)
    BY <1>3, <1>6
  <2> QED BY <2>1
<1>8. on = [shown |-> f[N].shown, hidden |-> f[N].hidden \cup (f[N].cursor .. region.count - 1)]
  BY DEF Context!renderContextRegion, Rendering, Nothing, sorted, segments
<1> HIDE DEF f, N, on
<1>9. \A k \in 0 .. N : f[k] = IF k = 0 THEN Nothing ELSE Context!Shown(region, f[k - 1], sorted[k])
  BY <1>7 DEF Rendering
<1> DEFINE Right == {n \in Nat : n <= N => Painting(f[n], sorted, n, region.count)}
<1>10. 0 \in Right
  <2>1. f[0] = Nothing
    <3>1. 0 \in 0 .. N
      BY <1>3
    <3> QED BY <1>9, <3>1
  <2>2. Painting(Nothing, sorted, 0, region.count)
    <3>1. <<>> \in Seq(Nat) /\ DOMAIN <<>> = {}
      OBVIOUS
    <3> QED BY <1>1, <3>1 DEF Painting, Nothing
  <2> QED BY <2>1, <2>2
<1>11. ASSUME NEW n \in Nat, n \in Right PROVE n + 1 \in Right
  <2> SUFFICES ASSUME n + 1 <= N PROVE Painting(f[n + 1], sorted, n + 1, region.count)
    OBVIOUS
  <2>1. Painting(f[n], sorted, n, region.count) /\ n < Len(sorted)
    BY <1>3, <1>11 DEF N
  <2>2. n + 1 \in 0 .. N /\ n + 1 # 0 /\ (n + 1) - 1 = n
    BY <1>3
  <2>3. f[n + 1] = Context!Shown(region, f[n], sorted[n + 1])
    <3> HIDE DEF Right
    <3> QED BY <1>9, <2>2
  <2> HIDE DEF Right
  <2>4. Painting(Context!Shown(region, f[n], sorted[n + 1]), sorted, n + 1, region.count)
    BY <1>1, <1>2, <1>5, <2>1, PaintingGoesOn DEF N
  <2> QED BY <2>3, <2>4
<1>12. Painting(f[N], sorted, N, region.count)
  <2>1. Nat \subseteq Right
    <3> HIDE DEF Right
    <3> QED BY <1>10, <1>11, Induction
  <2> QED BY <1>3, <2>1
<1> DEFINE s == f[N]
<1>13. on.shown = s.shown /\ on.hidden = s.hidden \cup (s.cursor .. region.count - 1)
  BY <1>8
<1>14. \A j, k \in DOMAIN s.shown : j < k => s.shown[j] < s.shown[k]
  BY <1>12 DEF Painting
<1>15. s.cursor \in Nat /\ s.cursor <= region.count
  BY <1>12 DEF Painting
<1>16. \A k \in DOMAIN s.shown : s.shown[k] \in Held(sorted)
  BY <1>12 DEF Painting
<1>17. \A x \in s.hidden : x \in Nat /\ x < s.cursor /\ x \notin Held(sorted)
  BY <1>12 DEF Painting
<1>18. \A x \in Nat : x < s.cursor => x \in s.hidden \/ \E k \in DOMAIN s.shown : s.shown[k] = x
  BY <1>12 DEF Painting
<1>19. \A x \in Held(sorted) : x \in Nat /\ x < s.cursor
  <2> SUFFICES ASSUME NEW x \in Held(sorted) PROVE x \in Nat /\ x < s.cursor
    OBVIOUS
  <2>1. PICK m \in 1 .. N : x \in LinesOf(sorted[m])
    BY <1>3 DEF Held
  <2>2. sorted[m] \in Segments
    BY <1>2, <1>3
  <2>3. sorted[m].offset + sorted[m].count <= s.cursor
    BY <1>12 DEF Painting
  <2>4. x \in Nat /\ x < sorted[m].offset + sorted[m].count
    BY <2>1 DEF LinesOf
  <2> HIDE DEF s
  <2> QED BY <1>15, <2>2, <2>3, <2>4 DEF Segments
<1> HIDE DEF s, Right
<1>20. Context!ToSet(on.shown) = Held(sorted)
  <2>1. Context!ToSet(on.shown) = {s.shown[k] : k \in DOMAIN s.shown}
    BY <1>13 DEF Context!ToSet
  <2>2. ASSUME NEW x \in Held(sorted) PROVE \E k \in DOMAIN s.shown : s.shown[k] = x
    BY <1>17, <1>18, <1>19
  <2> QED BY <1>16, <2>1, <2>2
<1>21. on.hidden = {x \in Nat : x < region.count /\ x \notin Held(sorted)}
  <2>1. ASSUME NEW x \in on.hidden PROVE x \in Nat /\ x < region.count /\ x \notin Held(sorted)
    <3>1. CASE x \in s.hidden
      BY <1>1, <1>15, <1>17, <3>1
    <3>2. CASE x \in s.cursor .. region.count - 1
      <4>1. x \in Nat /\ s.cursor <= x /\ x < region.count
        BY <1>1, <1>15, <3>2
      <4> QED BY <1>15, <1>19, <4>1
    <3> QED BY <1>13, <3>1, <3>2
  <2>2. ASSUME NEW x \in Nat, x < region.count, x \notin Held(sorted) PROVE x \in on.hidden
    <3>1. CASE x < s.cursor
      BY <1>13, <1>16, <1>18, <2>2, <3>1
    <3>2. CASE ~(x < s.cursor)
      BY <1>1, <1>13, <1>15, <2>2, <3>2
    <3> QED BY <3>1, <3>2
  <2> QED BY <2>1, <2>2
<1>22. \A j, k \in DOMAIN on.shown : j < k => on.shown[j] < on.shown[k]
  BY <1>13, <1>14
<1> QED BY <1>4, <1>20, <1>21, <1>22 DEF OnScreen, on, segments

--------------------------------------------------------------------------------
(* The ranges that are asked for. *)

OneOffsetEach(S) == \A g, h \in S : g.region = h.region /\ g.offset = h.offset => g = h
HasMembers(list, S) ==
  /\ list \in Seq(Spans)
  /\ \A k \in DOMAIN list : list[k] \in S
  /\ \A g \in S : \E k \in DOMAIN list : list[k] = g

LEMMA InTextIs ==
  ASSUME NEW S, S \subseteq Spans, IsFiniteSet(S), OneOffsetEach(S)
  PROVE  HasMembers(Context!InText(S), S)
<1> DEFINE order == {p \in S \X S :
              \/ p[1].region < p[2].region
              \/ p[1].region = p[2].region /\ p[1].offset < p[2].offset}
           n == Cardinality(S)
           list == Context!Arrange(S, order)
<1>1. \A x, y \in S : <<x, y>> \in order <=>
          \/ x.region < y.region
          \/ x.region = y.region /\ x.offset < y.offset
  OBVIOUS
<1>2. \A x \in S : x.region \in Nat /\ x.offset \in Nat
  BY DEF Spans
<1>3. Orders(order, S)
  <2> HIDE DEF order
  <2>1. ASSUME NEW x \in S, NEW y \in S, x # y PROVE <<x, y>> \in order \/ <<y, x>> \in order
    <3>1. ~(x.region = y.region /\ x.offset = y.offset)
      BY <2>1 DEF OneOffsetEach
    <3> QED BY <1>1, <1>2, <3>1
  <2>2. \A x \in S : <<x, x>> \notin order
    BY <1>1, <1>2
  <2>3. ASSUME NEW x \in S, NEW y \in S, NEW z \in S, <<x, y>> \in order, <<y, z>> \in order
        PROVE  <<x, z>> \in order
    BY <1>1, <1>2, <2>3
  <2> QED BY <2>1, <2>2, <2>3 DEF Orders
<1>4. IsArranged(list, S, order)
  <2> HIDE DEF order
  <2> QED BY <1>3, ArrangeIs
<1>5. Context!InText(S) = list
  BY DEF Context!InText
<1> HIDE DEF list, order
<1>6. n \in Nat /\ list \in [1 .. n -> S] /\ \A x \in S : \E k \in 1 .. n : list[k] = x
  BY <1>4, FS_CardinalityType DEF IsArranged
<1> HIDE DEF n
<1>7. list \in Seq(Spans) /\ DOMAIN list = 1 .. n
  <2>1. list \in [1 .. n -> Spans]
    BY <1>6
  <2> QED BY <1>6, <2>1
<1> QED BY <1>5, <1>6, <1>7 DEF HasMembers

\* A region has no range twice, and none beyond its end.
LEMMA EdgesAre ==
  ASSUME NEW rs, NEW r \in Nat, rs[r].count \in Nat, rs[r].count # 0, NEW wanted \in Nat
  PROVE  /\ Context!Edges(rs, r, wanted) \subseteq Spans
         /\ IsFiniteSet(Context!Edges(rs, r, wanted))
         /\ OneOffsetEach(Context!Edges(rs, r, wanted))
         /\ \A g \in Context!Edges(rs, r, wanted) :
              g.region = r /\ g.count # 0 /\ g.offset + g.count <= rs[r].count
<1> DEFINE count == rs[r].count
           lower == IF r > 1 THEN Context!Least(wanted, count) ELSE 0
           upper == IF r < Len(rs) THEN Context!Least(wanted, count - lower) ELSE 0
           E == Context!Edges(rs, r, wanted)
           a == Context!Span(r, 0, lower)
           b == Context!Span(r, count - upper, upper)
           all == Context!Span(r, 0, count)
<1>1. count \in Nat /\ count # 0
  OBVIOUS
<1> HIDE DEF count
<1>2. lower \in Nat /\ lower <= count
  BY <1>1 DEF Context!Least
<1> HIDE DEF lower
<1>3. upper \in Nat /\ upper <= count - lower
  BY <1>1, <1>2 DEF Context!Least
<1>4. E = IF lower + upper >= count THEN {all} ELSE {g \in {a, b} : g.count > 0}
  BY DEF Context!Edges, count, lower
<1> HIDE DEF upper, E
<1>5. all \in Spans /\ all.region = r /\ all.offset = 0 /\ all.count = count
  BY <1>1 DEF Spans, Context!Span
<1>6. a \in Spans /\ a.region = r /\ a.offset = 0 /\ a.count = lower
  BY <1>2 DEF Spans, Context!Span
<1>7. b \in Spans /\ b.region = r /\ b.offset = count - upper /\ b.count = upper
  <2>1. count - upper \in Nat
    BY <1>1, <1>2, <1>3
  <2> QED BY <1>3, <2>1 DEF Spans, Context!Span
<1> HIDE DEF a, b, all
<1>8. CASE lower + upper >= count
  <2>1. E = {all}
    BY <1>4, <1>8
  <2>2. IsFiniteSet({all})
    BY FS_Singleton
  <2> QED BY <1>1, <1>5, <2>1, <2>2 DEF OneOffsetEach, count, E
<1>9. CASE lower + upper < count
  <2>1. E = {g \in {a, b} : g.count > 0}
    BY <1>1, <1>2, <1>3, <1>4, <1>9
  <2>2. IsFiniteSet({a, b})
    <3>1. IsFiniteSet({a})
      BY FS_Singleton
    <3>2. IsFiniteSet({a} \cup {b})
      BY <3>1, FS_AddElement
    <3>3. {a, b} = {a} \cup {b}
      OBVIOUS
    <3> QED BY <3>2, <3>3
  <2>3. IsFiniteSet(E)
    <3>1. E \in SUBSET {a, b}
      BY <2>1
    <3> QED BY <2>2, <3>1, FS_Subset
  <2>4. a.offset # b.offset
    BY <1>1, <1>2, <1>3, <1>6, <1>7, <1>9
  <2>5. OneOffsetEach(E)
    BY <2>1, <2>4 DEF OneOffsetEach
  <2>6. \A g \in E : g \in Spans /\ g.region = r /\ g.count # 0 /\ g.offset + g.count <= count
    <3> SUFFICES ASSUME NEW g \in E
                 PROVE  g \in Spans /\ g.region = r /\ g.count # 0 /\ g.offset + g.count <= count
      OBVIOUS
    <3>1. g.count > 0 /\ (g = a \/ g = b)
      BY <2>1
    <3> QED BY <1>1, <1>2, <1>3, <1>6, <1>7, <3>1
  <2> QED BY <2>3, <2>5, <2>6 DEF E, count
<1> QED BY <1>1, <1>2, <1>3, <1>8, <1>9

\* The ranges that the field asks for.
InitialSpan(rs, wanted, g) ==
  /\ wanted # 0 /\ Len(rs) >= 2
  /\ \E r \in DOMAIN rs : rs[r].count # 0 /\ g \in Context!Edges(rs, r, wanted)

AreRegions(rs) == rs \in Seq(Regions) /\ \A r \in DOMAIN rs : Fitting(rs[r])

LEMMA InitialIs ==
  ASSUME NEW rs, AreRegions(rs), NEW wanted \in Nat
  PROVE  /\ Context!initialContextRanges(rs, wanted) \in Seq(Spans)
         /\ \A k \in DOMAIN Context!initialContextRanges(rs, wanted) :
              InitialSpan(rs, wanted, Context!initialContextRanges(rs, wanted)[k])
         /\ \A g : InitialSpan(rs, wanted, g) =>
              \E k \in DOMAIN Context!initialContextRanges(rs, wanted) :
                Context!initialContextRanges(rs, wanted)[k] = g
         /\ \A g : InitialSpan(rs, wanted, g) =>
              /\ g \in Spans /\ g.region \in DOMAIN rs /\ g.count # 0
              /\ g.offset + g.count <= rs[g.region].count
<1> DEFINE D == {r \in DOMAIN rs : rs[r].count # 0}
           parts == {Context!Edges(rs, r, wanted) : r \in D}
           S == UNION parts
           list == Context!initialContextRanges(rs, wanted)
<1>1. rs \in Seq(Regions) /\ DOMAIN rs = 1 .. Len(rs) /\ Len(rs) \in Nat
      /\ \A r \in DOMAIN rs : r \in Nat /\ rs[r].count \in Nat
  BY DEF AreRegions, Fitting
<1>2. \A r \in D : /\ Context!Edges(rs, r, wanted) \subseteq Spans
                   /\ IsFiniteSet(Context!Edges(rs, r, wanted))
                   /\ OneOffsetEach(Context!Edges(rs, r, wanted))
                   /\ \A g \in Context!Edges(rs, r, wanted) :
                        g.region = r /\ g.count # 0 /\ g.offset + g.count <= rs[r].count
  <2> SUFFICES ASSUME NEW r \in D
               PROVE  /\ Context!Edges(rs, r, wanted) \subseteq Spans
                      /\ IsFiniteSet(Context!Edges(rs, r, wanted))
                      /\ OneOffsetEach(Context!Edges(rs, r, wanted))
                      /\ \A g \in Context!Edges(rs, r, wanted) :
                           g.region = r /\ g.count # 0 /\ g.offset + g.count <= rs[r].count
    OBVIOUS
  <2>1. r \in Nat /\ rs[r].count \in Nat /\ rs[r].count # 0
    BY <1>1
  <2> HIDE DEF D
  <2> QED BY <2>1, EdgesAre
<1>3. D \subseteq DOMAIN rs
  OBVIOUS
<1>4. IsFiniteSet(D)
  <2>1. IsFiniteSet(1 .. Len(rs))
    <3>1. 1 \in Int /\ Len(rs) \in Int
      BY <1>1
    <3> QED BY <3>1, FS_Interval
  <2>2. D \in SUBSET (1 .. Len(rs))
    BY <1>1
  <2> HIDE DEF D
  <2> QED BY <2>1, <2>2, FS_Subset
<1>5. ASSUME NEW g
      PROVE  g \in S <=> \E r \in D : g \in Context!Edges(rs, r, wanted)
  OBVIOUS
<1>6. CASE wanted = 0 \/ Len(rs) < 2
  <2>1. list = <<>>
    BY <1>6 DEF Context!initialContextRanges
  <2>2. \A g : ~InitialSpan(rs, wanted, g)
    BY <1>1, <1>6 DEF InitialSpan
  <2> HIDE DEF list
  <2>3. <<>> \in Seq(Spans) /\ DOMAIN <<>> = {}
    OBVIOUS
  <2> QED BY <2>1, <2>2, <2>3 DEF list
<1>7. CASE wanted # 0 /\ Len(rs) >= 2
  <2>1. list = Context!InText(S)
    <3>1. ~(wanted = 0 \/ Len(rs) < 2)
      BY <1>1, <1>7
    <3> QED BY <3>1 DEF Context!initialContextRanges
  <2>2. \A g : g \in S <=> InitialSpan(rs, wanted, g)
    BY <1>5, <1>7 DEF InitialSpan
  <2> HIDE DEF D
  <2>3. IsFiniteSet(parts) /\ \A T \in parts : IsFiniteSet(T)
    <3>1. IsFiniteSet(parts)
      <4> DEFINE f == [r \in D |-> Context!Edges(rs, r, wanted)]
      <4>1. f \in Surjection(D, parts)
        BY DEF Surjection
      <4> HIDE DEF f, parts
      <4> QED BY <1>4, <4>1, FS_Surjection
    <3>2. \A T \in parts : IsFiniteSet(T)
      BY <1>2
    <3> QED BY <3>1, <3>2
  <2>4. IsFiniteSet(S)
    <3> HIDE DEF parts
    <3> QED BY <2>3, FS_UNION
  <2> HIDE DEF S, list
  <2>5. \A g \in S : g \in Spans /\ g.region \in DOMAIN rs /\ g.count # 0
                     /\ g.offset + g.count <= rs[g.region].count
    BY <1>2, <1>3, <1>5
  <2>6. OneOffsetEach(S)
    <3> SUFFICES ASSUME NEW g \in S, NEW h \in S, g.region = h.region, g.offset = h.offset
                 PROVE  g = h
      BY DEF OneOffsetEach
    <3>1. PICK r \in D : g \in Context!Edges(rs, r, wanted)
      BY <1>5
    <3>2. PICK q \in D : h \in Context!Edges(rs, q, wanted)
      BY <1>5
    <3>3. r = q
      BY <1>2, <3>1, <3>2
    <3> QED BY <1>2, <3>1, <3>2, <3>3 DEF OneOffsetEach
  <2>7. HasMembers(list, S)
    BY <2>1, <2>4, <2>5, <2>6, InTextIs
  <2> QED BY <2>2, <2>5, <2>7 DEF HasMembers, list
<1> QED BY <1>1, <1>6, <1>7

--------------------------------------------------------------------------------
(* Regions and loads. *)

LoadFields == {"kind", "token", "batches", "affected", "id"}
IsLoad(l) ==
  /\ DOMAIN l = LoadFields
  /\ l.kind \in {"initial", "expand", "previews"} /\ l.token \in Nat
  /\ l.batches \in Seq(Seq(Spans)) /\ l.batches # <<>>
Reads(l) == l.kind # "previews"
SpansOf(l) == SpansIn(l.batches)
SpanFits(rs, g) == g.region \in DOMAIN rs /\ g.offset + g.count <= rs[g.region].count

LoadsFit(rs, ls, token) ==
  \A l \in ls : /\ IsLoad(l) /\ l.token <= token
                /\ l.token = token => \A g \in SpansOf(l) : SpanFits(rs, g)
Busy(ls, token) == \E l \in ls : l.token = token /\ Reads(l)
\* A load of the present regions will enable a region's controls.
Frees(ls, token, r) == \E l \in ls : l.token = token /\ Reads(l) /\ r \in l.affected
Pends(rs, ls, token) == \A r \in DOMAIN rs : rs[r].pending => Frees(ls, token, r)
Sound(rs, ls, token) ==
  AreRegions(rs) /\ LoadsFit(rs, ls, token) /\ Pends(rs, ls, token)

\* What the field asks for is there or comes.
Comes(ls, token, r, x) ==
  \E l \in ls : l.token = token /\ Reads(l) /\ \E g \in SpansOf(l) : g.region = r /\ x \in LinesOf(g)
Covered(rs, ls, token, wanted) ==
  \A g : InitialSpan(rs, wanted, g) =>
    \A x \in LinesOf(g) : x \in Held(rs[g.region].segments) \/ Comes(ls, token, g.region, x)

\* Every gap is named, or will be.
Asked(ls, token, r, k) ==
  \E l \in ls : l.token = token /\ ~Reads(l) /\ Context!Span(r, k, 1) \in SpansOf(l)
Previewed(rs, ls, token) ==
  \A r \in DOMAIN rs : \A k \in Context!Gaps(rs[r]) :
    k \in rs[r].previews \/ Busy(ls, token) \/ Asked(ls, token, r, k)

IsState(s) == DOMAIN s = {"regions", "loads"}

\* The same regions, but for what is behind gaps and whether they wait.
Alike(rs, qs) ==
  /\ qs \in Seq(Regions) /\ DOMAIN qs = DOMAIN rs /\ Len(qs) = Len(rs)
  /\ \A r \in DOMAIN rs : qs[r].count = rs[r].count /\ qs[r].segments = rs[r].segments

LEMMA AlikeIsSame ==
  ASSUME NEW rs, AreRegions(rs), NEW qs, Alike(rs, qs)
  PROVE  /\ AreRegions(qs)
         /\ \A ls, token : LoadsFit(rs, ls, token) => LoadsFit(qs, ls, token)
         /\ \A w, g : InitialSpan(qs, w, g) => InitialSpan(rs, w, g)
         /\ \A r \in DOMAIN rs : Context!Gaps(qs[r]) = Context!Gaps(rs[r])
         /\ \A ls, ms, token, w : Covered(rs, ls, token, w) /\ ls \subseteq ms => Covered(qs, ms, token, w)
<1>1. AreRegions(qs)
  BY DEF AreRegions, Alike, Fitting
<1>2. ASSUME NEW ls, NEW token, LoadsFit(rs, ls, token) PROVE LoadsFit(qs, ls, token)
  <2>1. \A g : SpanFits(rs, g) => SpanFits(qs, g)
    BY DEF SpanFits, Alike
  <2> QED BY <1>2, <2>1 DEF LoadsFit
<1>3. ASSUME NEW w, NEW g, InitialSpan(qs, w, g) PROVE InitialSpan(rs, w, g)
  <2>1. PICK r \in DOMAIN qs : qs[r].count # 0 /\ g \in Context!Edges(qs, r, w)
    BY <1>3 DEF InitialSpan
  <2>2. r \in DOMAIN rs /\ qs[r].count = rs[r].count /\ Len(qs) = Len(rs)
    BY <2>1 DEF Alike
  <2>3. Context!Edges(qs, r, w) = Context!Edges(rs, r, w)
    BY <2>2 DEF Context!Edges
  <2> QED BY <1>3, <2>1, <2>2, <2>3 DEF InitialSpan
<1>4. \A r \in DOMAIN rs : Context!Gaps(qs[r]) = Context!Gaps(rs[r])
  BY DEF Context!Gaps, Alike
<1>5. ASSUME NEW ls, NEW ms, NEW token, NEW w, Covered(rs, ls, token, w), ls \subseteq ms
      PROVE  Covered(qs, ms, token, w)
  <2> SUFFICES ASSUME NEW g, InitialSpan(qs, w, g), NEW x \in LinesOf(g)
               PROVE  x \in Held(qs[g.region].segments) \/ Comes(ms, token, g.region, x)
    BY DEF Covered
  <2>1. InitialSpan(rs, w, g)
    BY <1>3
  <2>2. g.region \in DOMAIN rs
    <3>1. PICK r \in DOMAIN rs : rs[r].count # 0 /\ g \in Context!Edges(rs, r, w)
      BY <2>1 DEF InitialSpan
    <3>2. g.region = r
      BY <3>1 DEF Context!Edges, Context!Span
    <3> QED BY <3>2
  <2>3. x \in Held(rs[g.region].segments) \/ Comes(ls, token, g.region, x)
    BY <1>5, <2>1 DEF Covered
  <2>4. qs[g.region].segments = rs[g.region].segments
    BY <2>2 DEF Alike
  <2> QED BY <1>5, <2>3, <2>4 DEF Comes
<1> QED BY <1>1, <1>2, <1>3, <1>4, <1>5

LEMMA PendingIs ==
  ASSUME NEW rs, AreRegions(rs), NEW which, NEW is \in BOOLEAN,
         NEW qs, qs = Context!Pending(rs, which, is)
  PROVE  /\ Alike(rs, qs)
         /\ \A r \in DOMAIN rs :
              /\ qs[r].previews = rs[r].previews
              /\ r \in which => qs[r].pending = is
              /\ r \notin which => qs[r].pending = rs[r].pending
<1>1. rs \in Seq(Regions) /\ DOMAIN rs = 1 .. Len(rs) /\ Len(rs) \in Nat
  BY DEF AreRegions
<1>2. qs = [r \in DOMAIN rs |-> IF r \in which THEN [rs[r] EXCEPT !.pending = is] ELSE rs[r]]
  BY DEF Context!Pending
<1>3. ASSUME NEW r \in DOMAIN rs
      PROVE  /\ qs[r] \in Regions /\ qs[r].count = rs[r].count /\ qs[r].segments = rs[r].segments
             /\ qs[r].previews = rs[r].previews
             /\ r \in which => qs[r].pending = is
             /\ r \notin which => qs[r].pending = rs[r].pending
  <2>1. rs[r] \in Regions
    BY <1>1
  <2>2. qs[r] = IF r \in which THEN [rs[r] EXCEPT !.pending = is] ELSE rs[r]
    BY <1>2
  <2> QED BY <2>1, <2>2 DEF Regions
<1>4. qs \in Seq(Regions) /\ DOMAIN qs = DOMAIN rs /\ Len(qs) = Len(rs)
  BY <1>1, <1>2, <1>3
<1> QED BY <1>3, <1>4 DEF Alike

\* A new load with the ranges.
Added(s, t, kind, token, ranges) ==
  \E m : /\ t.loads = s.loads \cup {m}
         /\ IsLoad(m) /\ m.kind = kind /\ m.token = token
         /\ \A k \in DOMAIN ranges : ranges[k] \in SpansOf(m) /\ ranges[k].region \in m.affected
         /\ \A g \in SpansOf(m) : \E k \in DOMAIN ranges : ranges[k] = g

LEMMA StartingIs ==
  ASSUME NEW s, IsState(s), NEW kind \in {"initial", "expand", "previews"}, NEW token \in Nat,
         NEW ranges \in Seq(Spans), ranges # <<>>, \A k \in DOMAIN ranges : ranges[k].count # 0,
         NEW t, t = Context!Starting(s, Context!Load(kind, token, ranges))
  PROVE  /\ IsState(t) /\ t.regions = s.regions
         /\ Added(s, t, kind, token, ranges)
<1> DEFINE l == Context!Load(kind, token, ranges)
           number == 1 + Context!Max({0} \cup {m.id : m \in s.loads})
           m == [l EXCEPT !.id = number]
           bs == Context!batchContextRanges(ranges)
<1>1. bs \in Seq(Seq(Spans))
      /\ SpansIn(bs) = {ranges[k] : k \in {k \in DOMAIN ranges : ranges[k].count # 0}}
  BY BatchesHold
<1>2. l = [kind |-> kind, token |-> token, batches |-> bs,
           affected |-> {g.region : g \in Context!ToSet(ranges)}, id |-> 0]
  BY DEF Context!Load
<1>3. t = [s EXCEPT !.loads = s.loads \cup {m}]
  BY DEF Context!Starting
<1> HIDE DEF l, bs, number
<1>4. IsState(t) /\ t.regions = s.regions /\ t.loads = s.loads \cup {m}
  <2> HIDE DEF m
  <2> QED BY <1>3 DEF IsState
<1>5. /\ DOMAIN m = LoadFields /\ m.kind = kind /\ m.token = token /\ m.batches = bs
      /\ m.affected = {g.region : g \in Context!ToSet(ranges)}
  BY <1>2 DEF LoadFields
<1> HIDE DEF m
<1>6. DOMAIN ranges # {}
  BY DEF Spans
<1>7. bs # <<>>
  <2>1. PICK k \in DOMAIN ranges : TRUE
    BY <1>6
  <2>2. ranges[k] \in SpansIn(bs)
    BY <1>1
  <2> QED BY <2>2 DEF SpansIn
<1>8. IsLoad(m)
  BY <1>1, <1>5, <1>7 DEF IsLoad
<1>9. \A k \in DOMAIN ranges : ranges[k] \in SpansOf(m) /\ ranges[k].region \in m.affected
  BY <1>1, <1>5 DEF SpansOf, Context!ToSet
<1>10. \A g \in SpansOf(m) : \E k \in DOMAIN ranges : ranges[k] = g
  BY <1>1, <1>5 DEF SpansOf
<1> QED BY <1>4, <1>5, <1>8, <1>9, <1>10 DEF Added

LEMMA LoadingIs ==
  ASSUME NEW s, IsState(s), NEW token \in Nat, Sound(s.regions, s.loads, token),
         NEW kind \in {"initial", "expand"}, NEW ranges \in Seq(Spans), ranges # <<>>,
         \A k \in DOMAIN ranges : ranges[k].count # 0 /\ SpanFits(s.regions, ranges[k]),
         NEW t, t = Context!loadContextRanges(s, kind, token, ranges)
  PROVE  /\ IsState(t) /\ Sound(t.regions, t.loads, token) /\ Alike(s.regions, t.regions)
         /\ s.loads \subseteq t.loads /\ Busy(t.loads, token)
         /\ \A k \in DOMAIN ranges : \A x \in LinesOf(ranges[k]) :
              Comes(t.loads, token, ranges[k].region, x)
<1> DEFINE which == {g.region : g \in Context!ToSet(ranges)}
           qs == Context!Pending(s.regions, which, TRUE)
           u == [s EXCEPT !.regions = qs]
<1>1. t = Context!Starting(u, Context!Load(kind, token, ranges))
  BY DEF Context!loadContextRanges
<1>2. AreRegions(s.regions) /\ LoadsFit(s.regions, s.loads, token) /\ Pends(s.regions, s.loads, token)
  BY DEF Sound
<1>3. Alike(s.regions, qs)
      /\ \A r \in DOMAIN s.regions : r \notin which => qs[r].pending = s.regions[r].pending
  <2> DEFINE yes == TRUE
  <2>1. yes \in BOOLEAN /\ qs = Context!Pending(s.regions, which, yes)
    OBVIOUS
  <2> HIDE DEF which, qs, yes
  <2> QED BY <1>2, <2>1, PendingIs
<1>4. \A q \in which : \E k \in DOMAIN ranges : ranges[k].region = q
  BY DEF Context!ToSet
<1> HIDE DEF which, qs
<1>5. IsState(u) /\ u.regions = qs /\ u.loads = s.loads
  BY DEF IsState
<1> HIDE DEF u
<1>6. /\ IsState(t) /\ t.regions = u.regions
      /\ Added(u, t, kind, token, ranges)
  <2>1. kind \in {"initial", "expand", "previews"} /\ \A k \in DOMAIN ranges : ranges[k].count # 0
    OBVIOUS
  <2>2. token \in Nat /\ ranges \in Seq(Spans) /\ ranges # <<>>
    OBVIOUS
  <2> QED BY <1>1, <1>5, <2>1, <2>2, StartingIs
<1>7. PICK m : /\ t.loads = u.loads \cup {m}
               /\ IsLoad(m) /\ m.kind = kind /\ m.token = token
               /\ \A k \in DOMAIN ranges : ranges[k] \in SpansOf(m) /\ ranges[k].region \in m.affected
               /\ \A g \in SpansOf(m) : \E k \in DOMAIN ranges : ranges[k] = g
  BY <1>6 DEF Added
<1>8. t.regions = qs /\ t.loads = s.loads \cup {m}
  BY <1>5, <1>6, <1>7
<1>9. Reads(m)
  BY <1>7 DEF Reads
<1>10. AreRegions(qs) /\ LoadsFit(qs, s.loads, token)
  BY <1>2, <1>3, AlikeIsSame
<1>11. LoadsFit(qs, t.loads, token)
  <2>1. \A g \in SpansOf(m) : SpanFits(qs, g)
    BY <1>3, <1>7 DEF SpanFits, Alike
  <2>2. m.token <= token
    BY <1>7
  <2> QED BY <1>7, <1>8, <1>10, <2>1, <2>2 DEF LoadsFit
<1>12. Pends(qs, t.loads, token)
  <2> SUFFICES ASSUME NEW r \in DOMAIN qs, qs[r].pending PROVE Frees(t.loads, token, r)
    BY DEF Pends
  <2>1. r \in DOMAIN s.regions
    BY <1>3 DEF Alike
  <2>2. CASE r \in which
    BY <1>4, <1>7, <1>8, <1>9, <2>2 DEF Frees
  <2>3. CASE r \notin which
    <3>1. Frees(s.loads, token, r)
      BY <1>2, <1>3, <2>1, <2>3 DEF Pends
    <3> QED BY <1>8, <3>1 DEF Frees
  <2> QED BY <2>2, <2>3
<1>13. Busy(t.loads, token)
  BY <1>7, <1>8, <1>9 DEF Busy
<1>14. \A k \in DOMAIN ranges : \A x \in LinesOf(ranges[k]) : Comes(t.loads, token, ranges[k].region, x)
  BY <1>7, <1>8, <1>9 DEF Comes
<1>15. Sound(t.regions, t.loads, token) /\ Alike(s.regions, t.regions)
  BY <1>3, <1>8, <1>10, <1>11, <1>12 DEF Sound
<1> QED BY <1>6, <1>8, <1>13, <1>14, <1>15

LEMMA GapsIn ==
  ASSUME NEW region, Fitting(region)
  PROVE  /\ \A k \in Context!Gaps(region) : k \in Nat /\ k < region.count
         /\ IsFiniteSet(Context!Gaps(region))
<1> DEFINE K == Context!Gaps(region)
<1>1. region.count \in Nat /\ region.segments \in Seq(Segments)
  BY DEF Fitting
<1>2. \A g \in Context!missingContextSpans(region.count, region.segments) :
        g \in Segments /\ g.count > 0 /\ g.offset + g.count <= region.count
  BY <1>1, GapsAre
<1>3. \A k \in K : k \in Nat /\ k < region.count
  <2> SUFFICES ASSUME NEW k \in K PROVE k \in Nat /\ k < region.count
    OBVIOUS
  <2>1. PICK g \in Context!missingContextSpans(region.count, region.segments) : k = g.offset
    BY DEF Context!Gaps
  <2>2. g.offset \in Nat /\ g.count \in Nat /\ g.count > 0 /\ g.offset + g.count <= region.count
    BY <1>2 DEF Segments
  <2> QED BY <1>1, <2>1, <2>2
<1> HIDE DEF K
<1>4. IsFiniteSet(0 .. region.count)
  <2>1. 0 \in Int /\ region.count \in Int
    BY <1>1
  <2> QED BY <2>1, FS_Interval
<1>5. K \in SUBSET (0 .. region.count)
  BY <1>1, <1>3
<1>6. IsFiniteSet(K)
  BY <1>4, <1>5, FS_Subset
<1> QED BY <1>3, <1>6 DEF K

\* Afterwards every gap is named, or asked for.
LEMMA HiddenIs ==
  ASSUME NEW s, IsState(s), NEW token \in Nat, Sound(s.regions, s.loads, token),
         NEW shown \in BOOLEAN, shown, NEW t, t = Context!loadHiddenPreviews(s, token, shown)
  PROVE  /\ IsState(t) /\ Sound(t.regions, t.loads, token) /\ Alike(s.regions, t.regions)
         /\ s.loads \subseteq t.loads /\ Previewed(t.regions, t.loads, token)
<1> DEFINE rs == s.regions
           live == [r \in DOMAIN rs |-> [rs[r] EXCEPT !.previews = @ \cap Context!Gaps(rs[r])]]
           ones(r) == {Context!Span(r, k, 1) : k \in Context!Gaps(live[r]) \ live[r].previews}
           all == {ones(r) : r \in DOMAIN live}
           asked == UNION all
           u == [s EXCEPT !.regions = live]
<1>1. t = IF asked = {} THEN u
          ELSE Context!Starting(u, Context!Load("previews", token, Context!InText(asked)))
  BY DEF Context!loadHiddenPreviews
<1>2. IsState(u) /\ u.regions = live /\ u.loads = s.loads
  BY DEF IsState
<1> HIDE DEF u
<1>3. AreRegions(rs) /\ LoadsFit(rs, s.loads, token) /\ Pends(rs, s.loads, token)
  BY DEF Sound
<1> HIDE DEF rs
<1>4. rs \in Seq(Regions) /\ DOMAIN rs = 1 .. Len(rs) /\ Len(rs) \in Nat
  BY <1>3 DEF AreRegions
<1>5. ASSUME NEW r \in DOMAIN rs
      PROVE  /\ live[r] \in Regions /\ live[r].count = rs[r].count /\ live[r].segments = rs[r].segments
             /\ live[r].pending = rs[r].pending
             /\ live[r].previews = rs[r].previews \cap Context!Gaps(rs[r])
  <2>1. rs[r] \in Regions
    BY <1>4
  <2>2. live[r] = [rs[r] EXCEPT !.previews = rs[r].previews \cap Context!Gaps(rs[r])]
    OBVIOUS
  <2> HIDE DEF live
  <2> QED BY <2>1, <2>2 DEF Regions
<1>6. DOMAIN live = DOMAIN rs /\ live \in Seq(Regions) /\ Len(live) = Len(rs)
  <2>1. live = [r \in DOMAIN rs |-> live[r]]
    OBVIOUS
  <2> HIDE DEF live
  <2> QED BY <1>4, <1>5, <2>1
<1> HIDE DEF live
<1>7. Alike(rs, live)
  BY <1>5, <1>6 DEF Alike
<1>8. AreRegions(live) /\ LoadsFit(live, s.loads, token)
  BY <1>3, <1>7, AlikeIsSame
<1>9. Pends(live, s.loads, token)
  BY <1>3, <1>5, <1>6 DEF Pends
<1>10. \A r \in DOMAIN live :
         /\ \A k \in Context!Gaps(live[r]) : k \in Nat /\ k < live[r].count
         /\ IsFiniteSet(Context!Gaps(live[r]))
  BY <1>8, GapsIn DEF AreRegions
<1>11. \A g : g \in asked <=>
         \E r \in DOMAIN live : \E k \in Context!Gaps(live[r]) : k \notin live[r].previews /\ g = Context!Span(r, k, 1)
  OBVIOUS
<1>12. CASE asked = {}
  <2>1. t = u
    BY <1>1, <1>12
  <2>2. Previewed(live, s.loads, token)
    <3>1. \A r \in DOMAIN live : \A k \in Context!Gaps(live[r]) : k \in live[r].previews
      <4> HIDE DEF asked
      <4> QED BY <1>11, <1>12
    <3> QED BY <3>1 DEF Previewed
  <2> HIDE DEF asked
  <2> QED BY <1>2, <1>7, <1>8, <1>9, <2>1, <2>2 DEF Sound, rs
<1>13. CASE asked # {}
  <2> DEFINE ranges == Context!InText(asked)
  <2>1. t = Context!Starting(u, Context!Load("previews", token, ranges))
    BY <1>1, <1>13
  <2>2. IsFiniteSet(all)
    <3> DEFINE f == [r \in DOMAIN live |-> ones(r)]
    <3>1. f \in Surjection(DOMAIN live, all)
      BY DEF Surjection
    <3>2. IsFiniteSet(DOMAIN live)
      <4>1. 1 \in Int /\ Len(rs) \in Int
        BY <1>4
      <4> HIDE DEF f, all, ones, asked
      <4> QED BY <1>4, <1>6, <4>1, FS_Interval
    <3> HIDE DEF f, all
    <3> QED BY <3>1, <3>2, FS_Surjection
  <2>3. \A T \in all : IsFiniteSet(T)
    <3> SUFFICES ASSUME NEW r \in DOMAIN live PROVE IsFiniteSet(ones(r))
      OBVIOUS
    <3> DEFINE K == Context!Gaps(live[r]) \ live[r].previews
               P == ones(r)
               f == [k \in K |-> Context!Span(r, k, 1)]
    <3>1. f \in Surjection(K, P)
      BY DEF Surjection
    <3>2. IsFiniteSet(K)
      <4>1. K \in SUBSET Context!Gaps(live[r])
        OBVIOUS
      <4>2. IsFiniteSet(Context!Gaps(live[r]))
        BY <1>10
      <4> HIDE DEF K
      <4> QED BY <4>1, <4>2, FS_Subset
    <3>3. IsFiniteSet(P)
      <4> HIDE DEF f, K, P
      <4> QED BY <3>1, <3>2, FS_Surjection
    <3> QED BY <3>3
  <2>4. IsFiniteSet(asked)
    <3> HIDE DEF all
    <3> QED BY <2>2, <2>3, FS_UNION
  <2> HIDE DEF asked
  <2>5. ASSUME NEW g \in asked
        PROVE  g \in Spans /\ g.count = 1 /\ SpanFits(live, g)
    <3>1. PICK r \in DOMAIN live : \E k \in Context!Gaps(live[r]) : g = Context!Span(r, k, 1)
      BY <1>11
    <3>2. PICK k \in Context!Gaps(live[r]) : g = Context!Span(r, k, 1)
      BY <3>1
    <3>3. k \in Nat /\ k < live[r].count /\ r \in Nat /\ live[r].count \in Nat
      BY <1>4, <1>6, <1>8, <1>10 DEF AreRegions, Fitting
    <3>4. g = [region |-> r, offset |-> k, count |-> 1]
      BY <3>2 DEF Context!Span
    <3>5. g \in Spans
      BY <3>3, <3>4 DEF Spans
    <3>6. k + 1 <= live[r].count
      BY <3>3
    <3> QED BY <3>4, <3>5, <3>6 DEF SpanFits
  <2>6. OneOffsetEach(asked)
    <3> SUFFICES ASSUME NEW g \in asked, NEW h \in asked, g.region = h.region, g.offset = h.offset
                 PROVE  g = h
      BY DEF OneOffsetEach
    <3>1. PICK r \in DOMAIN live : \E k \in Context!Gaps(live[r]) : g = Context!Span(r, k, 1)
      BY <1>11
    <3>2. PICK q \in DOMAIN live : \E k \in Context!Gaps(live[q]) : h = Context!Span(q, k, 1)
      BY <1>11
    <3> QED BY <3>1, <3>2 DEF Context!Span
  <2>7. HasMembers(ranges, asked)
    <3>1. asked \subseteq Spans
      BY <2>5
    <3> QED BY <2>4, <2>6, <3>1, InTextIs
  <2> HIDE DEF ranges
  <2>8. ranges \in Seq(Spans) /\ (\A k \in DOMAIN ranges : ranges[k] \in asked)
        /\ \A g \in asked : \E k \in DOMAIN ranges : ranges[k] = g
    BY <2>7 DEF HasMembers
  <2>9. ranges # <<>>
    BY <1>13, <2>8
  <2>10. \A k \in DOMAIN ranges : ranges[k].count # 0
    BY <2>5, <2>8
  <2>11. IsState(t) /\ t.regions = u.regions /\ Added(u, t, "previews", token, ranges)
    BY <1>2, <2>1, <2>8, <2>9, <2>10, StartingIs
  <2>12. PICK m : /\ t.loads = u.loads \cup {m}
                  /\ IsLoad(m) /\ m.kind = "previews" /\ m.token = token
                  /\ \A k \in DOMAIN ranges : ranges[k] \in SpansOf(m) /\ ranges[k].region \in m.affected
                  /\ \A g \in SpansOf(m) : \E k \in DOMAIN ranges : ranges[k] = g
    BY <2>11 DEF Added
  <2>13. t.regions = live /\ t.loads = s.loads \cup {m}
    BY <1>2, <2>11, <2>12
  <2>14. LoadsFit(live, t.loads, token)
    <3>1. \A g \in SpansOf(m) : SpanFits(live, g)
      BY <2>5, <2>8, <2>12
    <3>2. m.token <= token
      BY <2>12
    <3> QED BY <1>8, <2>12, <2>13, <3>1, <3>2 DEF LoadsFit
  <2>15. Pends(live, t.loads, token)
    BY <1>9, <2>13 DEF Pends, Frees
  <2>16. Previewed(live, t.loads, token)
    <3> SUFFICES ASSUME NEW r \in DOMAIN live, NEW k \in Context!Gaps(live[r]), k \notin live[r].previews
                 PROVE  Asked(t.loads, token, r, k)
      BY DEF Previewed
    <3>1. Context!Span(r, k, 1) \in asked
      BY <1>11
    <3>2. Context!Span(r, k, 1) \in SpansOf(m)
      BY <2>8, <2>12, <3>1
    <3>3. ~Reads(m)
      BY <2>12 DEF Reads
    <3> QED BY <2>12, <2>13, <3>2, <3>3 DEF Asked
  <2> QED BY <1>7, <1>8, <2>11, <2>13, <2>14, <2>15, <2>16 DEF Sound, rs
<1> QED BY <1>12, <1>13

\* Afterwards what the field asks for comes, and every gap is named then.
LEMMA InitialLoadIs ==
  ASSUME NEW s, IsState(s), NEW token \in Nat, Sound(s.regions, s.loads, token),
         NEW shown \in BOOLEAN, NEW wanted \in Nat,
         NEW t, t = Context!loadInitialContext(s, token, shown, wanted)
  PROVE  /\ IsState(t) /\ Sound(t.regions, t.loads, token) /\ Alike(s.regions, t.regions)
         /\ s.loads \subseteq t.loads
         /\ ~shown => t = s
         /\ shown /\ s.regions # <<>> =>
              Covered(t.regions, t.loads, token, wanted) /\ Previewed(t.regions, t.loads, token)
<1> DEFINE rs == s.regions
           ranges == Context!initialContextRanges(rs, wanted)
<1>1. t = IF ~shown \/ rs = <<>> THEN s
          ELSE IF ranges = <<>> THEN Context!loadHiddenPreviews(s, token, shown)
          ELSE Context!loadContextRanges(s, "initial", token, ranges)
  BY DEF Context!loadInitialContext
<1>2. AreRegions(rs)
  BY DEF Sound
<1> HIDE DEF rs
<1>3. /\ ranges \in Seq(Spans)
      /\ \A k \in DOMAIN ranges : InitialSpan(rs, wanted, ranges[k])
      /\ \A g : InitialSpan(rs, wanted, g) => \E k \in DOMAIN ranges : ranges[k] = g
      /\ \A g : InitialSpan(rs, wanted, g) =>
           /\ g \in Spans /\ g.region \in DOMAIN rs /\ g.count # 0
           /\ g.offset + g.count <= rs[g.region].count
  BY <1>2, InitialIs
<1> HIDE DEF ranges
<1>4. Alike(rs, rs)
  BY <1>2 DEF Alike, AreRegions
<1>5. CASE ~shown \/ rs = <<>>
  <2>1. t = s
    BY <1>1, <1>5
  <2> QED BY <1>4, <1>5, <2>1 DEF rs
<1>6. CASE shown /\ rs # <<>> /\ ranges = <<>>
  <2>1. t = Context!loadHiddenPreviews(s, token, shown)
    BY <1>1, <1>6
  <2>2. /\ IsState(t) /\ Sound(t.regions, t.loads, token) /\ Alike(s.regions, t.regions)
        /\ s.loads \subseteq t.loads /\ Previewed(t.regions, t.loads, token)
    BY <1>6, <2>1, HiddenIs
  <2>3. \A g : ~InitialSpan(rs, wanted, g)
    <3>1. DOMAIN ranges = {}
      BY <1>6
    <3> QED BY <1>3, <3>1
  <2>4. Covered(t.regions, t.loads, token, wanted)
    <3>1. \A g : ~InitialSpan(t.regions, wanted, g)
      BY <1>2, <2>2, <2>3, AlikeIsSame DEF rs
    <3> QED BY <3>1 DEF Covered
  <2> QED BY <1>6, <2>2, <2>4
<1>7. CASE shown /\ rs # <<>> /\ ranges # <<>>
  <2>1. t = Context!loadContextRanges(s, "initial", token, ranges)
    BY <1>1, <1>7
  <2>2. \A k \in DOMAIN ranges : ranges[k].count # 0 /\ SpanFits(s.regions, ranges[k])
    BY <1>3 DEF SpanFits, rs
  <2>3. "initial" \in {"initial", "expand"}
    OBVIOUS
  <2>4. /\ IsState(t) /\ Sound(t.regions, t.loads, token) /\ Alike(s.regions, t.regions)
        /\ s.loads \subseteq t.loads /\ Busy(t.loads, token)
        /\ \A k \in DOMAIN ranges : \A x \in LinesOf(ranges[k]) :
              Comes(t.loads, token, ranges[k].region, x)
    BY <1>3, <1>7, <2>1, <2>2, <2>3, LoadingIs
  <2>5. Covered(t.regions, t.loads, token, wanted)
    <3> SUFFICES ASSUME NEW g, InitialSpan(t.regions, wanted, g), NEW x \in LinesOf(g)
                 PROVE  Comes(t.loads, token, g.region, x)
      BY DEF Covered
    <3>1. InitialSpan(rs, wanted, g)
      BY <1>2, <2>4, AlikeIsSame DEF rs
    <3>2. PICK k \in DOMAIN ranges : ranges[k] = g
      BY <1>3, <3>1
    <3> QED BY <2>4, <3>2
  <2>6. Previewed(t.regions, t.loads, token)
    BY <2>4 DEF Previewed
  <2> QED BY <1>7, <2>4, <2>5, <2>6
<1> QED BY <1>5, <1>6, <1>7

--------------------------------------------------------------------------------
(* A batch is answered. *)

LEMMA AscendingIs ==
  ASSUME NEW K, K \subseteq Nat, IsFiniteSet(K)
  PROVE  \E n \in Nat : /\ Context!Ascending(K) \in [1 .. n -> K]
                        /\ \A x \in K : \E k \in 1 .. n : Context!Ascending(K)[k] = x
<1> DEFINE order == {p \in K \X K : p[1] < p[2]}
           n == Cardinality(K)
           a == Context!Arrange(K, order)
<1>1. Context!Ascending(K) = a
  BY DEF Context!Ascending
<1>2. \A x, y \in K : <<x, y>> \in order <=> x < y
  OBVIOUS
<1>3. Orders(order, K)
  <2> HIDE DEF order
  <2>1. ASSUME NEW x \in K, NEW y \in K, x # y PROVE <<x, y>> \in order \/ <<y, x>> \in order
    BY <1>2, <2>1
  <2>2. \A x \in K : <<x, x>> \notin order
    BY <1>2
  <2>3. ASSUME NEW x \in K, NEW y \in K, NEW z \in K, <<x, y>> \in order, <<y, z>> \in order
        PROVE  <<x, z>> \in order
    BY <1>2, <2>3
  <2> QED BY <2>1, <2>2, <2>3 DEF Orders
<1>4. IsArranged(a, K, order)
  <2> HIDE DEF order
  <2> QED BY <1>3, ArrangeIs
<1> HIDE DEF a, order
<1>5. n \in Nat
  BY FS_CardinalityType
<1> QED BY <1>1, <1>4, <1>5 DEF IsArranged

LEMMA HeldTogether ==
  ASSUME NEW s \in Seq(Segments), NEW t \in Seq(Segments)
  PROVE  /\ s \o t \in Seq(Segments)
         /\ Held(s) \subseteq Held(s \o t) /\ Held(t) \subseteq Held(s \o t)
         /\ \A k \in DOMAIN (s \o t) : \/ \E j \in DOMAIN s : (s \o t)[k] = s[j]
                                       \/ \E j \in DOMAIN t : (s \o t)[k] = t[j]
<1> DEFINE L == Len(s)
           M == Len(t)
           b == s \o t
<1>1. /\ b \in Seq(Segments) /\ Len(b) = L + M
      /\ \A k \in 1 .. L + M : b[k] = IF k <= L THEN s[k] ELSE t[k - L]
  <2>1. /\ s \o t \in Seq(Segments)
        /\ Len(s \o t) = Len(s) + Len(t)
        /\ \A k \in 1 .. Len(s) + Len(t) : (s \o t)[k] = IF k <= Len(s) THEN s[k] ELSE t[k - Len(s)]
    BY ConcatProperties, Zenon
  <2> QED BY <2>1
<1>2. L \in Nat /\ M \in Nat /\ DOMAIN s = 1 .. L /\ DOMAIN t = 1 .. M
  OBVIOUS
<1> HIDE DEF b, L, M
<1>3. DOMAIN b = 1 .. L + M
  BY <1>1, <1>2
<1>4. ASSUME NEW x \in Held(s) PROVE x \in Held(b)
  <2>1. PICK j \in 1 .. L : x \in LinesOf(s[j])
    BY <1>2 DEF Held
  <2>2. j \in 1 .. L + M /\ j <= L
    BY <1>2
  <2>3. b[j] = s[j]
    BY <1>1, <2>2
  <2> QED BY <1>3, <1>4, <2>1, <2>2, <2>3 DEF Held
<1>5. ASSUME NEW x \in Held(t) PROVE x \in Held(b)
  <2>1. PICK j \in 1 .. M : x \in LinesOf(t[j])
    BY <1>2 DEF Held
  <2>2. L + j \in 1 .. L + M /\ ~(L + j <= L) /\ (L + j) - L = j
    BY <1>2
  <2>3. b[L + j] = t[j]
    BY <1>1, <2>2
  <2> QED BY <1>3, <1>5, <2>1, <2>2, <2>3 DEF Held
<1>6. ASSUME NEW k \in DOMAIN b
      PROVE  \/ \E j \in DOMAIN s : b[k] = s[j]
             \/ \E j \in DOMAIN t : b[k] = t[j]
  <2>1. CASE k <= L
    <3>1. k \in 1 .. L /\ k \in 1 .. L + M
      BY <1>2, <1>3, <2>1
    <3> QED BY <1>1, <1>2, <2>1, <3>1
  <2>2. CASE ~(k <= L)
    <3>1. k - L \in 1 .. M /\ k \in 1 .. L + M
      BY <1>2, <1>3, <2>2
    <3> QED BY <1>1, <1>2, <2>2, <3>1
  <2> QED BY <2>1, <2>2
<1> QED BY <1>1, <1>4, <1>5, <1>6 DEF b

\* The first batch of a load has become segments, or previews.
Took(rs, qs, l) ==
  /\ AreRegions(qs) /\ DOMAIN qs = DOMAIN rs /\ Len(qs) = Len(rs)
  /\ \A r \in DOMAIN rs :
       /\ qs[r].count = rs[r].count /\ qs[r].pending = rs[r].pending
       /\ Held(rs[r].segments) \subseteq Held(qs[r].segments)
       /\ rs[r].previews \subseteq qs[r].previews
       /\ ~Reads(l) => qs[r].segments = rs[r].segments
       /\ \A k \in DOMAIN l.batches[1] : l.batches[1][k].region = r =>
            IF Reads(l) THEN LinesOf(l.batches[1][k]) \subseteq Held(qs[r].segments)
            ELSE l.batches[1][k].offset \in qs[r].previews

LEMMA ReceivedIs ==
  ASSUME NEW rs, AreRegions(rs), NEW l, IsLoad(l), \A g \in SpansOf(l) : SpanFits(rs, g),
         NEW qs, qs = Context!Received(rs, l)
  PROVE  Took(rs, qs, l)
<1> DEFINE batch == l.batches[1]
           K(r) == {k \in DOMAIN batch : batch[k].region = r}
           of(r) == Context!Ascending(K(r))
           offsets(r) == {batch[k].offset : k \in Context!ToSet(of(r))}
           new(r) == [n \in DOMAIN of(r) |-> Context!Segment(batch[of(r)[n]])]
<1>1. qs = [r \in DOMAIN rs |->
              IF l.kind = "previews" THEN [rs[r] EXCEPT !.previews = @ \cup offsets(r)]
              ELSE [rs[r] EXCEPT !.segments = @ \o new(r)]]
  BY DEF Context!Received
<1>2. rs \in Seq(Regions) /\ DOMAIN rs = 1 .. Len(rs) /\ Len(rs) \in Nat
      /\ \A r \in DOMAIN rs : Fitting(rs[r])
  BY DEF AreRegions
<1>3. batch \in Seq(Spans) /\ 1 \in DOMAIN l.batches
  BY DEF IsLoad
<1> HIDE DEF batch
<1>4. ASSUME NEW k \in DOMAIN batch PROVE batch[k] \in Spans /\ SpanFits(rs, batch[k])
  <2>1. batch[k] \in Spans
    BY <1>3
  <2>2. batch[k] \in SpansOf(l)
    BY <1>3, <2>1 DEF SpansOf, SpansIn, batch
  <2> QED BY <2>1, <2>2
<1>5. ASSUME NEW r \in DOMAIN rs
      PROVE  \E n \in Nat : /\ of(r) \in [1 .. n -> K(r)]
                            /\ \A x \in K(r) : \E k \in 1 .. n : of(r)[k] = x
  <2> DEFINE J == K(r)
  <2>1. J \subseteq DOMAIN batch /\ J \in SUBSET (1 .. Len(batch)) /\ J \subseteq Nat
    BY <1>3
  <2>2. IsFiniteSet(1 .. Len(batch))
    <3>1. 1 \in Int /\ Len(batch) \in Int
      BY <1>3
    <3> QED BY <3>1, FS_Interval
  <2>3. \E n \in Nat : /\ Context!Ascending(J) \in [1 .. n -> J]
                       /\ \A x \in J : \E k \in 1 .. n : Context!Ascending(J)[k] = x
    <3> HIDE DEF J
    <3>1. IsFiniteSet(J)
      BY <2>1, <2>2, FS_Subset
    <3> QED BY <2>1, <3>1, AscendingIs
  <2> QED BY <2>3
<1>6. \A r \in DOMAIN rs : \A k \in K(r) : k \in DOMAIN batch /\ batch[k].region = r
  OBVIOUS
<1>7. \A r \in DOMAIN rs : \A k \in DOMAIN batch : batch[k].region = r => k \in K(r)
  OBVIOUS
<1> HIDE DEF K, of
<1>8. ASSUME NEW r \in DOMAIN rs
      PROVE  /\ offsets(r) \subseteq Nat
             /\ \A k \in DOMAIN batch : batch[k].region = r => batch[k].offset \in offsets(r)
             /\ new(r) \in Seq(Segments)
             /\ \A j \in DOMAIN new(r) : new(r)[j].offset + new(r)[j].count <= rs[r].count
             /\ \A k \in DOMAIN batch : batch[k].region = r => LinesOf(batch[k]) \subseteq Held(new(r))
  <2>1. PICK n \in Nat : /\ of(r) \in [1 .. n -> K(r)]
                         /\ \A x \in K(r) : \E k \in 1 .. n : of(r)[k] = x
    BY <1>5
  <2>2. DOMAIN of(r) = 1 .. n /\ Context!ToSet(of(r)) = K(r)
    BY <2>1 DEF Context!ToSet
  <2>3. offsets(r) \subseteq Nat
    <3>1. \A k \in K(r) : batch[k].offset \in Nat
      BY <1>4, <1>6 DEF Spans
    <3> QED BY <2>2, <3>1
  <2>4. ASSUME NEW k \in DOMAIN batch, batch[k].region = r PROVE batch[k].offset \in offsets(r)
    BY <1>7, <2>2, <2>4
  <2> DEFINE N == new(r)
  <2>5. ASSUME NEW j \in 1 .. n
        PROVE  /\ N[j] = Context!Segment(batch[of(r)[j]]) /\ of(r)[j] \in DOMAIN batch
               /\ batch[of(r)[j]].region = r
    <3>1. of(r)[j] \in K(r)
      BY <2>1
    <3> QED BY <1>6, <2>2, <3>1
  <2>6. N = [j \in 1 .. n |-> N[j]]
    BY <2>2
  <2> HIDE DEF N
  <2>7. ASSUME NEW j \in 1 .. n PROVE N[j] \in Segments /\ N[j].offset + N[j].count <= rs[r].count
    <3> DEFINE g == batch[of(r)[j]]
    <3>1. N[j] = Context!Segment(g) /\ g.region = r /\ g \in Spans /\ SpanFits(rs, g)
      BY <1>4, <2>5
    <3> HIDE DEF g
    <3> QED BY <3>1 DEF Context!Segment, Segments, Spans, SpanFits
  <2>8. N \in Seq(Segments) /\ DOMAIN N = 1 .. n
    BY <2>6, <2>7
  <2>9. ASSUME NEW k \in DOMAIN batch, batch[k].region = r, NEW x \in LinesOf(batch[k])
        PROVE  x \in Held(N)
    <3>1. PICK j \in 1 .. n : of(r)[j] = k
      BY <1>7, <2>1, <2>9
    <3>2. N[j] = Context!Segment(batch[k])
      BY <2>5, <3>1
    <3>3. x \in LinesOf(N[j]) /\ x \in Nat
      BY <2>9, <3>2 DEF LinesOf, Context!Segment
    <3> QED BY <2>8, <3>3 DEF Held
  <2> QED BY <2>3, <2>4, <2>7, <2>8, <2>9 DEF N
<1> HIDE DEF offsets, new
<1>9. ASSUME NEW r \in DOMAIN rs
      PROVE  /\ qs[r] \in Regions /\ Fitting(qs[r])
             /\ qs[r].count = rs[r].count /\ qs[r].pending = rs[r].pending
             /\ Held(rs[r].segments) \subseteq Held(qs[r].segments)
             /\ rs[r].previews \subseteq qs[r].previews
             /\ ~Reads(l) => qs[r].segments = rs[r].segments
             /\ \A k \in DOMAIN batch : batch[k].region = r =>
                  IF Reads(l) THEN LinesOf(batch[k]) \subseteq Held(qs[r].segments)
                  ELSE batch[k].offset \in qs[r].previews
  <2>1. rs[r] \in Regions /\ Fitting(rs[r])
    BY <1>2
  <2>2. qs[r] = IF l.kind = "previews" THEN [rs[r] EXCEPT !.previews = @ \cup offsets(r)]
                ELSE [rs[r] EXCEPT !.segments = @ \o new(r)]
    BY <1>1
  <2>3. CASE ~Reads(l)
    <3>1. /\ qs[r] \in Regions /\ qs[r].count = rs[r].count /\ qs[r].pending = rs[r].pending
          /\ qs[r].segments = rs[r].segments /\ qs[r].previews = rs[r].previews \cup offsets(r)
      <4>1. qs[r] = [rs[r] EXCEPT !.previews = rs[r].previews \cup offsets(r)]
        BY <2>2, <2>3 DEF Reads
      <4>2. rs[r].previews \cup offsets(r) \in SUBSET Nat
        BY <1>8, <2>1 DEF Regions
      <4> QED BY <2>1, <4>1, <4>2 DEF Regions
    <3>2. Fitting(qs[r])
      BY <2>1, <3>1 DEF Fitting
    <3>3. \A k \in DOMAIN batch : batch[k].region = r => batch[k].offset \in offsets(r)
      BY <1>8
    <3> QED BY <2>3, <3>1, <3>2, <3>3
  <2>4. CASE Reads(l)
    <3> DEFINE old == rs[r].segments
               N == new(r)
               both == old \o N
    <3>1. old \in Seq(Segments) /\ N \in Seq(Segments)
          /\ \A j \in DOMAIN old : old[j].offset + old[j].count <= rs[r].count
      BY <1>8, <2>1 DEF Fitting
    <3>2. \A j \in DOMAIN N : N[j].offset + N[j].count <= rs[r].count
      BY <1>8
    <3>3. \A k \in DOMAIN batch : batch[k].region = r => LinesOf(batch[k]) \subseteq Held(N)
      BY <1>8
    <3>4. qs[r] = [rs[r] EXCEPT !.segments = both]
      BY <2>2, <2>4 DEF Reads
    <3> HIDE DEF old, N
    <3>5. /\ both \in Seq(Segments)
          /\ Held(old) \subseteq Held(both) /\ Held(N) \subseteq Held(both)
          /\ \A k \in DOMAIN both : (\E j \in DOMAIN old : both[k] = old[j]) \/ \E j \in DOMAIN N : both[k] = N[j]
      BY <3>1, HeldTogether
    <3> HIDE DEF both
    <3>6. \A k \in DOMAIN both : both[k].offset + both[k].count <= rs[r].count
      BY <3>1, <3>2, <3>5
    <3>7. /\ qs[r] \in Regions /\ qs[r].count = rs[r].count /\ qs[r].pending = rs[r].pending
          /\ qs[r].segments = both /\ qs[r].previews = rs[r].previews
      BY <2>1, <3>4, <3>5 DEF Regions
    <3>8. Fitting(qs[r])
      BY <2>1, <3>5, <3>6, <3>7 DEF Fitting
    <3>9. \A k \in DOMAIN batch : batch[k].region = r => LinesOf(batch[k]) \subseteq Held(both)
      BY <3>3, <3>5
    <3> QED BY <2>4, <3>5, <3>7, <3>8, <3>9 DEF old
  <2> QED BY <2>3, <2>4
<1>10. qs \in Seq(Regions) /\ DOMAIN qs = DOMAIN rs /\ Len(qs) = Len(rs)
  <2>1. qs = [r \in DOMAIN rs |-> qs[r]]
    BY <1>1
  <2> QED BY <1>2, <1>9, <2>1
<1> QED BY <1>9, <1>10 DEF Took, AreRegions, batch

Hunks == [oldStart : Nat, oldLen : Nat, newStart : Nat, newLen : Nat]
--------------------------------------------------------------------------------
(* Loads end, and the text begins. *)

\* The end of a load keeps the others, and asks again for what is not named.
EndsWell(s, t, l, ok) ==
  /\ IsState(t) /\ Sound(t.regions, t.loads, contextToken) /\ Alike(s.regions, t.regions)
  /\ (s.loads \ {l}) \subseteq t.loads
  /\ \/ visible /\ Previewed(t.regions, t.loads, contextToken)
     \/ /\ t.loads = s.loads \ {l}
        /\ \A r \in DOMAIN s.regions : t.regions[r].previews = s.regions[r].previews
  /\ visible /\ Reads(l) /\ ok => Previewed(t.regions, t.loads, contextToken)

LEMMA EndedIs ==
  ASSUME NEW s, IsState(s), contextToken \in Nat, visible \in BOOLEAN,
         Sound(s.regions, s.loads, contextToken), NEW l, IsLoad(l), NEW ok \in BOOLEAN,
         NEW t, t = Context!Ended(s, l, ok)
  PROVE  EndsWell(s, t, l, ok)
<1> DEFINE current == l.token = contextToken /\ l.kind # "previews"
           rest == s.loads \ {l}
           without == [s EXCEPT !.loads = rest]
           qs == Context!Pending(s.regions, l.affected, FALSE)
           freed == IF current THEN [without EXCEPT !.regions = Context!Pending(@, l.affected, FALSE)]
                    ELSE without
           asks == l.kind = "expand" \/ (l.kind = "initial" /\ ok)
<1>1. t = IF asks THEN Context!loadHiddenPreviews(freed, contextToken, visible) ELSE freed
  BY DEF Context!Ended
<1>2. /\ IsState(freed) /\ freed.loads = rest
      /\ freed.regions = IF current THEN qs ELSE s.regions
  BY DEF IsState
<1> HIDE DEF freed, without
<1>3. AreRegions(s.regions) /\ LoadsFit(s.regions, s.loads, contextToken)
      /\ Pends(s.regions, s.loads, contextToken)
  BY DEF Sound
<1>4. /\ Alike(s.regions, qs)
      /\ \A r \in DOMAIN s.regions :
           /\ qs[r].previews = s.regions[r].previews
           /\ r \in l.affected => qs[r].pending = FALSE
           /\ r \notin l.affected => qs[r].pending = s.regions[r].pending
  <2> DEFINE no == FALSE
  <2>1. no \in BOOLEAN /\ qs = Context!Pending(s.regions, l.affected, no)
    OBVIOUS
  <2>2. /\ Alike(s.regions, qs)
        /\ \A r \in DOMAIN s.regions :
             /\ qs[r].previews = s.regions[r].previews
             /\ r \in l.affected => qs[r].pending = no
             /\ r \notin l.affected => qs[r].pending = s.regions[r].pending
    <3> HIDE DEF qs, no
    <3> QED BY <1>3, <2>1, PendingIs
  <2> QED BY <2>2
<1> HIDE DEF qs
<1>5. Alike(s.regions, s.regions)
  BY <1>3 DEF Alike, AreRegions
<1>6. LoadsFit(s.regions, rest, contextToken)
  BY <1>3 DEF LoadsFit
<1>7. /\ Alike(s.regions, freed.regions)
      /\ \A r \in DOMAIN s.regions : freed.regions[r].previews = s.regions[r].previews
  BY <1>2, <1>4, <1>5
<1>8. Pends(freed.regions, rest, contextToken)
  <2> SUFFICES ASSUME NEW r \in DOMAIN freed.regions, freed.regions[r].pending
               PROVE  Frees(rest, contextToken, r)
    BY DEF Pends
  <2>1. r \in DOMAIN s.regions
    BY <1>7 DEF Alike
  <2>2. CASE current
    <3>1. freed.regions = qs
      BY <1>2, <2>2
    <3>2. r \notin l.affected
      BY <1>4, <2>1, <3>1
    <3>3. s.regions[r].pending
      BY <1>4, <2>1, <3>1, <3>2
    <3>4. Frees(s.loads, contextToken, r)
      BY <1>3, <2>1, <3>3 DEF Pends
    <3> QED BY <3>2, <3>4 DEF Frees
  <2>3. CASE ~current
    <3>1. freed.regions = s.regions
      BY <1>2, <2>3
    <3>2. Frees(s.loads, contextToken, r)
      BY <1>3, <2>1, <3>1 DEF Pends
    <3>3. PICK m \in s.loads : m.token = contextToken /\ Reads(m) /\ r \in m.affected
      BY <3>2 DEF Frees
    <3>4. m # l
      BY <2>3, <3>3 DEF Reads
    <3> QED BY <3>3, <3>4 DEF Frees
  <2> QED BY <2>2, <2>3
<1>9. Sound(freed.regions, freed.loads, contextToken)
  <2>1. AreRegions(freed.regions) /\ LoadsFit(freed.regions, rest, contextToken)
    BY <1>3, <1>6, <1>7, AlikeIsSame
  <2> QED BY <1>2, <1>8, <2>1 DEF Sound
<1> HIDE DEF current
<1>10. Reads(l) /\ ok => asks
  BY DEF Reads, IsLoad
<1> HIDE DEF asks
<1>11. CASE asks /\ visible
  <2>1. t = Context!loadHiddenPreviews(freed, contextToken, visible)
    BY <1>1, <1>11
  <2>2. /\ IsState(t) /\ Sound(t.regions, t.loads, contextToken) /\ Alike(freed.regions, t.regions)
        /\ freed.loads \subseteq t.loads /\ Previewed(t.regions, t.loads, contextToken)
    BY <1>2, <1>9, <1>11, <2>1, HiddenIs
  <2>3. Alike(s.regions, t.regions)
    BY <1>7, <2>2 DEF Alike
  <2> HIDE DEF rest
  <2> QED BY <1>2, <1>11, <2>2, <2>3 DEF rest, EndsWell
<1>12. CASE ~asks \/ ~visible
  <2>1. t = freed
    BY <1>1, <1>12 DEF Context!loadHiddenPreviews
  <2> QED BY <1>2, <1>7, <1>9, <1>10, <1>12, <2>1 DEF EndsWell
<1> QED BY <1>11, <1>12

LEMMA NewToken ==
  ASSUME NEW rs, NEW ls, NEW token \in Nat, LoadsFit(rs, ls, token),
         NEW qs, AreRegions(qs), \A r \in DOMAIN qs : ~qs[r].pending
  PROVE  Sound(qs, ls, token + 1) /\ \A l \in ls : l.token # token + 1
<1>1. ASSUME NEW l \in ls PROVE IsLoad(l) /\ l.token <= token + 1 /\ l.token # token + 1
  <2>1. IsLoad(l) /\ l.token <= token /\ l.token \in Nat
    BY DEF LoadsFit, IsLoad
  <2> QED BY <2>1
<1>2. LoadsFit(qs, ls, token + 1)
  BY <1>1 DEF LoadsFit
<1>3. Pends(qs, ls, token + 1)
  BY DEF Pends
<1> QED BY <1>1, <1>2, <1>3 DEF Sound

LEMMA BuiltIs ==
  ASSUME NEW d \in Layouts, NEW rs, rs = Context!buildUnchangedRegions(d)
  PROVE  /\ AreRegions(rs) /\ rs # <<>>
         /\ \A r \in DOMAIN rs : ~rs[r].pending /\ rs[r].segments = <<>>
<1> DEFINE hunks == d.hunks
           n == Len(hunks)
           end(k) == IF k = 0 THEN [old |-> 0, new |-> 0]
                     ELSE [old |-> hunks[k].oldStart + hunks[k].oldLen,
                           new |-> hunks[k].newStart + hunks[k].newLen]
           oldCount(k) == IF k <= n THEN Context!Less(hunks[k].oldStart, end(k - 1).old)
                          ELSE IF d.omitted THEN 0 ELSE Context!Less(d.oldLines, end(n).old)
           newCount(k) == IF k <= n THEN Context!Less(hunks[k].newStart, end(k - 1).new)
                          ELSE IF d.omitted THEN 0 ELSE Context!Less(d.newLines, end(n).new)
<1>1. rs = [k \in 1 .. n + 1 |->
         [oldStart |-> end(k - 1).old, newStart |-> end(k - 1).new,
          count |-> Context!Least(oldCount(k), newCount(k)),
          segments |-> <<>>, previews |-> {}, pending |-> FALSE]]
  BY DEF Context!buildUnchangedRegions
<1>2. hunks \in Seq(Hunks) /\ d.oldLines \in Nat /\ d.newLines \in Nat
  BY ContextAssumption DEF Hunks
<1> HIDE DEF hunks
<1>3. n \in Nat /\ \A k \in 1 .. n : hunks[k] \in Hunks
  BY <1>2
<1> HIDE DEF n
<1>4. \A a, b \in Nat : Context!Less(a, b) \in Nat /\ Context!Least(a, b) \in Nat
  BY DEF Context!Less, Context!Least
<1>5. ASSUME NEW k \in 0 .. n PROVE end(k).old \in Nat /\ end(k).new \in Nat
  <2>1. CASE k = 0
    BY <2>1
  <2>2. CASE k # 0
    <3>1. k \in 1 .. n
      BY <1>3, <2>2
    <3>2. hunks[k] \in Hunks
      BY <1>3, <3>1
    <3> QED BY <2>2, <3>2 DEF Hunks
  <2> QED BY <2>1, <2>2
<1> HIDE DEF end
<1>6. ASSUME NEW k \in 1 .. n + 1 PROVE Context!Least(oldCount(k), newCount(k)) \in Nat
  <2>1. k - 1 \in 0 .. n /\ n \in 0 .. n
    BY <1>3
  <2>2. end(k - 1).old \in Nat /\ end(k - 1).new \in Nat /\ end(n).old \in Nat /\ end(n).new \in Nat
    BY <1>5, <2>1
  <2>3. k <= n => hunks[k].oldStart \in Nat /\ hunks[k].newStart \in Nat
    BY <1>3 DEF Hunks
  <2>4. oldCount(k) \in Nat
    BY <1>2, <1>4, <2>2, <2>3
  <2>5. newCount(k) \in Nat
    BY <1>2, <1>4, <2>2, <2>3
  <2> HIDE DEF oldCount, newCount
  <2> QED BY <1>4, <2>4, <2>5
<1> HIDE DEF oldCount, newCount
<1>7. DOMAIN rs = 1 .. n + 1 /\ n + 1 \in Nat /\ n + 1 # 0
  BY <1>1, <1>3
<1>8. ASSUME NEW k \in 1 .. n + 1
      PROVE  rs[k] \in Regions /\ Fitting(rs[k]) /\ rs[k].pending = FALSE /\ rs[k].segments = <<>>
  <2> DEFINE a == end(k - 1).old
             b == end(k - 1).new
             c == Context!Least(oldCount(k), newCount(k))
  <2>1. rs[k] = [oldStart |-> a, newStart |-> b, count |-> c,
                 segments |-> <<>>, previews |-> {}, pending |-> FALSE]
    BY <1>1
  <2>2. k - 1 \in 0 .. n
    BY <1>3
  <2>3. a \in Nat /\ b \in Nat /\ c \in Nat
    BY <1>5, <1>6, <2>2
  <2> HIDE DEF a, b, c
  <2>4. <<>> \in Seq(Segments) /\ {} \in SUBSET Nat /\ FALSE \in BOOLEAN /\ DOMAIN <<>> = {}
    OBVIOUS
  <2>5. rs[k] \in Regions
    BY <2>1, <2>3, <2>4 DEF Regions
  <2>6. Fitting(rs[k])
    BY <2>1, <2>3, <2>4 DEF Fitting
  <2> QED BY <2>1, <2>5, <2>6
<1>9. rs \in Seq(Regions) /\ rs # <<>>
  <2>1. rs = [k \in 1 .. n + 1 |-> rs[k]]
    BY <1>1
  <2>2. rs \in Seq(Regions)
    <3> DEFINE N == n + 1
    <3>1. N \in Nat /\ rs = [k \in 1 .. N |-> rs[k]] /\ \A k \in 1 .. N : rs[k] \in Regions
      BY <1>7, <1>8, <2>1
    <3> HIDE DEF N
    <3> QED BY <3>1
  <2>3. 1 \in DOMAIN rs
    BY <1>7
  <2>4. rs # <<>>
    BY <2>3
  <2> QED BY <2>2, <2>4
<1> QED BY <1>7, <1>8, <1>9 DEF AreRegions

Whole(rs, ls, token, shown, wanted) ==
  /\ ~shown => \A l \in ls : l.token # token
  /\ shown \/ (\E r \in DOMAIN rs : rs[r].segments # <<>>) =>
       Covered(rs, ls, token, wanted) /\ Previewed(rs, ls, token)
ContextTypes ==
  /\ contextToken \in Nat /\ visible \in BOOLEAN /\ lines \in Nat
  /\ contextFailed \in BOOLEAN /\ strayed \in BOOLEAN
ContextInv ==
  /\ ContextTypes
  /\ Sound(regions, loads, contextToken)
  /\ ~contextFailed /\ ~strayed /\ regions # <<>> => Whole(regions, loads, contextToken, visible, lines)

LEMMA NowIs ==
  IsState(Context!Now) /\ Context!Now.regions = regions /\ Context!Now.loads = loads
BY DEF IsState, Context!Now

LEMMA ContextInit == Context!Init => ContextInv
<1> SUFFICES ASSUME Context!Init PROVE ContextInv
  OBVIOUS
<1>1. ContextTypes
  BY ContextAssumption DEF Context!Init, ContextTypes
<1>2. AreRegions(<<>>)
  <2>1. <<>> \in Seq(Regions) /\ DOMAIN <<>> = {}
    OBVIOUS
  <2> QED BY <2>1 DEF AreRegions
<1>3. Sound(regions, loads, contextToken)
  <2>1. regions = <<>> /\ loads = {}
    BY DEF Context!Init
  <2>2. DOMAIN <<>> = {}
    OBVIOUS
  <2> QED BY <1>2, <2>1, <2>2 DEF Sound, LoadsFit, Pends
<1> QED BY <1>1, <1>3 DEF ContextInv, Context!Init

LEMMA ContextCleared == ContextInv /\ Context!clearUnchangedContext => ContextInv'
<1> SUFFICES ASSUME ContextInv, Context!clearUnchangedContext PROVE ContextInv'
  OBVIOUS
<1>1. ContextTypes /\ LoadsFit(regions, loads, contextToken)
  BY DEF ContextInv, Sound
<1>2. /\ contextToken' = contextToken + 1 /\ regions' = <<>>
      /\ UNCHANGED <<visible, lines, loads, contextFailed, strayed>>
  BY DEF Context!clearUnchangedContext
<1>3. ContextTypes'
  BY <1>1, <1>2 DEF ContextTypes
<1>4. AreRegions(<<>>) /\ DOMAIN <<>> = {}
  <2>1. <<>> \in Seq(Regions) /\ DOMAIN <<>> = {}
    OBVIOUS
  <2> QED BY <2>1 DEF AreRegions
<1>5. Sound(<<>>, loads, contextToken + 1)
  <2>1. contextToken \in Nat /\ \A r \in DOMAIN <<>> : ~(<<>>[r]).pending
    BY <1>1, <1>4 DEF ContextTypes
  <2> QED BY <1>1, <1>4, <2>1, NewToken
<1> QED BY <1>2, <1>3, <1>5 DEF ContextInv

\* A load of new regions, under a new token.
LEMMA BeginsAnew ==
  ASSUME ContextInv, NEW qs, AreRegions(qs),
         \A r \in DOMAIN qs : ~qs[r].pending /\ qs[r].segments = <<>>,
         NEW wanted \in Nat, NEW t,
         t = Context!loadInitialContext([Context!Now EXCEPT !.regions = qs], contextToken + 1, visible, wanted)
  PROVE  /\ Sound(t.regions, t.loads, contextToken + 1)
         /\ t.regions # <<>> => Whole(t.regions, t.loads, contextToken + 1, visible, wanted)
<1> DEFINE s == [Context!Now EXCEPT !.regions = qs]
           token == contextToken + 1
<1>1. IsState(s) /\ s.regions = qs /\ s.loads = loads
  BY DEF IsState, Context!Now
<1>2. t = Context!loadInitialContext(s, token, visible, wanted)
  OBVIOUS
<1> HIDE DEF s
<1>3. contextToken \in Nat /\ visible \in BOOLEAN /\ LoadsFit(regions, loads, contextToken)
  BY DEF ContextInv, ContextTypes, Sound
<1>4. Sound(qs, loads, token) /\ \A l \in loads : l.token # token
  BY <1>3, NewToken
<1>5. token \in Nat
  BY <1>3
<1> HIDE DEF token
<1>6. /\ IsState(t) /\ Sound(t.regions, t.loads, token) /\ Alike(qs, t.regions)
      /\ ~visible => t = s
      /\ visible /\ qs # <<>> =>
           Covered(t.regions, t.loads, token, wanted) /\ Previewed(t.regions, t.loads, token)
  BY <1>1, <1>2, <1>3, <1>4, <1>5, InitialLoadIs
<1>7. t.regions # <<>> => qs # <<>>
  <2> SUFFICES ASSUME qs = <<>> PROVE t.regions = <<>>
    OBVIOUS
  <2>1. t.regions \in Seq(Regions) /\ Len(t.regions) = Len(qs)
    BY <1>6 DEF Alike
  <2> QED BY <2>1
<1>8. CASE visible
  BY <1>6, <1>7, <1>8 DEF Whole, token
<1>9. CASE ~visible
  <2>1. t.regions = qs /\ t.loads = loads
    BY <1>1, <1>6, <1>9
  <2> QED BY <1>4, <1>6, <1>9, <2>1 DEF Whole, token
<1> QED BY <1>3, <1>8, <1>9

LEMMA ContextBegins ==
  ASSUME ContextInv, NEW d \in Layouts, Context!finishStreamRender(d)
  PROVE  ContextInv'
<1> DEFINE qs == Context!buildUnchangedRegions(d)
           t == Context!loadInitialContext([Context!Now EXCEPT !.regions = qs], contextToken + 1, visible, lines)
<1>1. /\ contextToken' = contextToken + 1 /\ regions' = t.regions /\ loads' = t.loads
      /\ contextFailed' = FALSE /\ strayed' = FALSE /\ visible' = visible /\ lines' = lines
  BY DEF Context!finishStreamRender, Context!Becomes
<1>2. AreRegions(qs) /\ \A r \in DOMAIN qs : ~qs[r].pending /\ qs[r].segments = <<>>
  <2> HIDE DEF qs
  <2>1. qs = Context!buildUnchangedRegions(d)
    BY DEF qs
  <2> QED BY <2>1, BuiltIs
<1>3. ContextTypes
  BY DEF ContextInv
<1>4. ContextTypes'
  <2> HIDE DEF t
  <2>1. contextToken' \in Nat /\ lines' \in Nat
    BY <1>1, <1>3 DEF ContextTypes
  <2>2. visible' \in BOOLEAN
    BY <1>1, <1>3 DEF ContextTypes
  <2>3. contextFailed' \in BOOLEAN /\ strayed' \in BOOLEAN
    BY <1>1, <1>3, Zenon DEF ContextTypes
  <2> QED BY <2>1, <2>2, <2>3 DEF ContextTypes
<1>5. t = Context!loadInitialContext([Context!Now EXCEPT !.regions = qs], contextToken + 1, visible, lines)
      /\ lines \in Nat
  BY <1>3 DEF ContextTypes
<1> HIDE DEF qs, t
<1>6. /\ Sound(t.regions, t.loads, contextToken + 1)
      /\ t.regions # <<>> => Whole(t.regions, t.loads, contextToken + 1, visible, lines)
  BY <1>2, <1>5, BeginsAnew
<1> QED BY <1>1, <1>4, <1>6 DEF ContextInv

LEMMA ContextReset ==
  ASSUME ContextInv, NEW n \in LineCounts, Context!resetContextRanges(n)
  PROVE  ContextInv'
<1> DEFINE qs == [r \in DOMAIN regions |->
                    [regions[r] EXCEPT !.segments = <<>>, !.previews = {}, !.pending = FALSE]]
           t == Context!loadInitialContext([Context!Now EXCEPT !.regions = qs], contextToken + 1, visible, n)
<1>1. /\ contextToken' = contextToken + 1 /\ regions' = t.regions /\ loads' = t.loads
      /\ contextFailed' = FALSE /\ strayed' = strayed /\ visible' = visible /\ lines' = n
  BY DEF Context!resetContextRanges, Context!Becomes, Context!Now
<1>2. AreRegions(qs) /\ \A r \in DOMAIN qs : ~qs[r].pending /\ qs[r].segments = <<>>
  <2>1. regions \in Seq(Regions) /\ DOMAIN regions = 1 .. Len(regions) /\ Len(regions) \in Nat
        /\ \A r \in DOMAIN regions : Fitting(regions[r])
    BY DEF ContextInv, Sound, AreRegions
  <2>2. \A r \in DOMAIN regions :
          qs[r] = [regions[r] EXCEPT !.segments = <<>>, !.previews = {}, !.pending = FALSE]
    OBVIOUS
  <2>3. qs = [r \in DOMAIN regions |-> qs[r]]
    OBVIOUS
  <2> HIDE DEF qs
  <2>4. <<>> \in Seq(Segments) /\ {} \in SUBSET Nat /\ FALSE \in BOOLEAN /\ DOMAIN <<>> = {}
    OBVIOUS
  <2>5. ASSUME NEW r \in DOMAIN regions
        PROVE  /\ qs[r] \in Regions /\ Fitting(qs[r])
               /\ qs[r].pending = FALSE /\ qs[r].segments = <<>>
    <3>1. regions[r] \in Regions /\ Fitting(regions[r])
      BY <2>1
    <3>2. /\ qs[r] \in Regions /\ qs[r].count = regions[r].count
          /\ qs[r].pending = FALSE /\ qs[r].segments = <<>>
      BY <2>2, <2>4, <3>1 DEF Regions
    <3>3. Fitting(qs[r])
      BY <2>4, <3>1, <3>2 DEF Fitting
    <3> QED BY <3>2, <3>3
  <2>6. qs \in Seq(Regions) /\ DOMAIN qs = DOMAIN regions
    <3> DEFINE N == Len(regions)
    <3>1. N \in Nat /\ qs = [r \in 1 .. N |-> qs[r]] /\ \A r \in 1 .. N : qs[r] \in Regions
      BY <2>1, <2>3, <2>5
    <3>2. DOMAIN regions = 1 .. N
      BY <2>1
    <3> HIDE DEF N
    <3> QED BY <3>1, <3>2
  <2> QED BY <2>5, <2>6 DEF AreRegions
<1>3. ContextTypes /\ n \in Nat
  BY ContextAssumption DEF ContextInv
<1>4. ContextTypes'
  <2> HIDE DEF t
  <2>1. contextToken' \in Nat /\ lines' \in Nat
    BY <1>1, <1>3 DEF ContextTypes
  <2>2. visible' \in BOOLEAN
    BY <1>1, <1>3 DEF ContextTypes
  <2>3. contextFailed' \in BOOLEAN /\ strayed' \in BOOLEAN
    BY <1>1, <1>3, Zenon DEF ContextTypes
  <2> QED BY <2>1, <2>2, <2>3 DEF ContextTypes
<1>5. t = Context!loadInitialContext([Context!Now EXCEPT !.regions = qs], contextToken + 1, visible, n)
  OBVIOUS
<1> HIDE DEF qs, t
<1>6. /\ Sound(t.regions, t.loads, contextToken + 1)
      /\ t.regions # <<>> => Whole(t.regions, t.loads, contextToken + 1, visible, n)
  BY <1>2, <1>3, <1>5, BeginsAnew
<1> QED BY <1>1, <1>4, <1>6 DEF ContextInv

LEMMA ContextShown == ContextInv /\ Context!setContextVisibility => ContextInv'
<1> SUFFICES ASSUME ContextInv, Context!setContextVisibility PROVE ContextInv'
  OBVIOUS
<1>1. /\ contextToken' = contextToken /\ visible' = ~visible /\ lines' = lines
      /\ contextFailed' = contextFailed /\ strayed' = (strayed \/ (visible /\ loads # {}))
  BY DEF Context!setContextVisibility
<1>2. ContextTypes /\ Sound(regions, loads, contextToken)
  BY DEF ContextInv
<1>3. ContextTypes'
  BY <1>1, <1>2 DEF ContextTypes
<1>4. CASE visible' /\ \A r \in DOMAIN regions : regions[r].segments = <<>>
  <2> DEFINE t == Context!loadInitialContext(Context!Now, contextToken, TRUE, lines)
             yes == TRUE
  <2>1. regions' = t.regions /\ loads' = t.loads
    BY <1>4 DEF Context!setContextVisibility, Context!Becomes
  <2>2. t = Context!loadInitialContext(Context!Now, contextToken, yes, lines) /\ yes \in BOOLEAN /\ yes
    OBVIOUS
  <2> HIDE DEF t, yes
  <2>3. contextToken \in Nat /\ lines \in Nat
    BY <1>2 DEF ContextTypes
  <2>4. /\ Sound(t.regions, t.loads, contextToken) /\ Alike(regions, t.regions)
        /\ regions # <<>> =>
             Covered(t.regions, t.loads, contextToken, lines) /\ Previewed(t.regions, t.loads, contextToken)
    <3> DEFINE now == Context!Now
    <3>1. IsState(now) /\ now.regions = regions /\ now.loads = loads
      BY NowIs
    <3> HIDE DEF now
    <3>2. t = Context!loadInitialContext(now, contextToken, yes, lines)
      BY <2>2 DEF now
    <3>3. Sound(now.regions, now.loads, contextToken)
      BY <1>2, <3>1
    <3> QED BY <2>2, <2>3, <3>1, <3>2, <3>3, InitialLoadIs
  <2>5. t.regions # <<>> => regions # <<>>
    <3>1. regions = <<>> => t.regions = <<>>
      BY <2>4 DEF Alike
    <3> QED BY <3>1
  <2> QED BY <1>1, <1>3, <1>4, <2>1, <2>4, <2>5 DEF ContextInv, Whole
<1>5. CASE ~(visible' /\ \A r \in DOMAIN regions : regions[r].segments = <<>>)
  <2>1. regions' = regions /\ loads' = loads
    BY <1>5 DEF Context!setContextVisibility
  <2>2. ~contextFailed' /\ ~strayed' /\ regions' # <<>> => Whole(regions, loads, contextToken, visible', lines)
    <3> SUFFICES ASSUME ~contextFailed', ~strayed', regions' # <<>>
                 PROVE  Whole(regions, loads, contextToken, visible', lines)
      OBVIOUS
    <3>1. Whole(regions, loads, contextToken, visible, lines)
      BY <1>1, <2>1 DEF ContextInv
    <3>2. CASE visible
      <4>1. ~visible' /\ loads = {}
        BY <1>1, <3>2
      <4> QED BY <3>1, <3>2, <4>1 DEF Whole
    <3>3. CASE ~visible
      <4>1. visible' /\ \E r \in DOMAIN regions : regions[r].segments # <<>>
        BY <1>1, <1>2, <1>5, <3>3 DEF ContextTypes
      <4> QED BY <3>1, <4>1 DEF Whole
    <3> QED BY <3>2, <3>3
  <2> QED BY <1>1, <1>2, <1>3, <2>1, <2>2 DEF ContextInv
<1> QED BY <1>4, <1>5

LEMMA ContextExpanded ==
  ASSUME ContextInv, NEW r \in DOMAIN regions,
         NEW span \in Context!missingContextSpans(regions[r].count, regions[r].segments),
         NEW direction \in {"up", "down", "both"}, Context!expandContextSpan(r, span, direction)
  PROVE  ContextInv'
<1> DEFINE count == Context!Least(ExpandChunk, span.count)
           upper == Context!Span(r, span.offset + span.count - count, count)
           lower == Context!Span(r, span.offset, count)
           all == Context!Span(r, span.offset, span.count)
           ranges == IF direction = "up" THEN <<upper>>
                     ELSE IF direction = "down" THEN <<lower>>
                     ELSE IF span.count <= count * 2 THEN <<all>>
                     ELSE <<lower, upper>>
           now == Context!Now
           t == Context!loadContextRanges(now, "expand", contextToken, ranges)
           kind == "expand"
<1>1. /\ regions' = t.regions /\ loads' = t.loads /\ visible
      /\ UNCHANGED <<visible, lines, contextToken, contextFailed, strayed>>
  BY DEF Context!expandContextSpan, Context!Becomes
<1>2. ContextTypes /\ Sound(regions, loads, contextToken)
  BY DEF ContextInv
<1>3. regions[r].count \in Nat /\ regions[r].segments \in Seq(Segments) /\ r \in Nat
  BY <1>2 DEF Sound, AreRegions, Fitting
<1>4. span \in Segments /\ span.count > 0 /\ span.offset + span.count <= regions[r].count
  BY <1>3, GapsAre
<1>5. span.offset \in Nat /\ span.count \in Nat
  BY <1>4 DEF Segments
<1>6. count \in Nat /\ count > 0 /\ count <= span.count
  BY <1>4, <1>5, ContextAssumption DEF Context!Least
<1> HIDE DEF count
<1>7. ASSUME NEW g \in {upper, lower, all}
      PROVE  g \in Spans /\ g.count # 0 /\ SpanFits(regions, g)
  <2>1. CASE g = upper
    <3>1. span.offset + span.count - count \in Nat
          /\ span.offset + span.count - count + count <= regions[r].count
      BY <1>3, <1>4, <1>5, <1>6
    <3> QED BY <1>3, <1>6, <2>1, <3>1 DEF Context!Span, Spans, SpanFits
  <2>2. CASE g = lower
    <3>1. span.offset + count <= regions[r].count
      BY <1>3, <1>4, <1>5, <1>6
    <3> QED BY <1>3, <1>5, <1>6, <2>2, <3>1 DEF Context!Span, Spans, SpanFits
  <2>3. CASE g = all
    BY <1>3, <1>4, <1>5, <2>3 DEF Context!Span, Spans, SpanFits
  <2> QED BY <2>1, <2>2, <2>3
<1>8. ranges \in {<<upper>>, <<lower>>, <<all>>, <<lower, upper>>}
  <2> HIDE DEF upper, lower, all
  <2> QED OBVIOUS
<1>9. t = Context!loadContextRanges(now, kind, contextToken, ranges)
  OBVIOUS
<1> HIDE DEF upper, lower, all, ranges, t, now, kind
<1>10. ranges \in Seq(Spans) /\ ranges # <<>>
       /\ \A k \in DOMAIN ranges : ranges[k].count # 0 /\ SpanFits(regions, ranges[k])
  <2>1. CASE \E g \in {upper, lower, all} : ranges = <<g>>
    BY <1>7, <2>1
  <2>2. CASE ranges = <<lower, upper>>
    <3>1. DOMAIN ranges = {1, 2} /\ ranges[1] = lower /\ ranges[2] = upper
      BY <2>2
    <3>2. ranges \in Seq(Spans) /\ ranges # <<>>
      BY <1>7, <2>2
    <3> QED BY <1>7, <3>1, <3>2
  <2> QED BY <1>8, <2>1, <2>2
<1>11. IsState(now) /\ now.regions = regions /\ now.loads = loads
  BY NowIs DEF now
<1>12. /\ Sound(t.regions, t.loads, contextToken) /\ Alike(regions, t.regions)
       /\ loads \subseteq t.loads /\ Busy(t.loads, contextToken)
  <2>1. contextToken \in Nat /\ kind \in {"initial", "expand"}
    BY <1>2 DEF ContextTypes, kind
  <2>2. Sound(now.regions, now.loads, contextToken)
    BY <1>2, <1>11
  <2> QED BY <1>9, <1>10, <1>11, <2>1, <2>2, LoadingIs
<1>13. ContextTypes'
  BY <1>1, <1>2 DEF ContextTypes
<1>14. regions # <<>> /\ AreRegions(regions)
  BY <1>2 DEF Sound
<1>15. ~contextFailed /\ ~strayed => Whole(t.regions, t.loads, contextToken, visible, lines)
  <2> SUFFICES ASSUME ~contextFailed, ~strayed
               PROVE  Whole(t.regions, t.loads, contextToken, visible, lines)
    OBVIOUS
  <2>1. Covered(regions, loads, contextToken, lines)
    BY <1>1, <1>14 DEF ContextInv, Whole
  <2>2. Covered(t.regions, t.loads, contextToken, lines)
    BY <1>12, <1>14, <2>1, AlikeIsSame
  <2>3. Previewed(t.regions, t.loads, contextToken)
    BY <1>12 DEF Previewed
  <2> QED BY <1>1, <2>2, <2>3 DEF Whole
<1> QED BY <1>1, <1>12, <1>13, <1>15 DEF ContextInv

--------------------------------------------------------------------------------
(* Answers. *)

LEMMA FirstBatch ==
  ASSUME NEW bs \in Seq(Seq(Spans)), bs # <<>>
  PROVE  /\ Len(bs) # 1 => /\ Tail(bs) \in Seq(Seq(Spans)) /\ Tail(bs) # <<>>
                           /\ SpansIn(Tail(bs)) \subseteq SpansIn(bs)
         /\ \A g \in SpansIn(bs) : \/ \E k \in DOMAIN bs[1] : bs[1][k] = g
                                   \/ Len(bs) # 1 /\ g \in SpansIn(Tail(bs))
<1> DEFINE n == Len(bs)
           u == Tail(bs)
<1>1. n \in Nat /\ n >= 1 /\ DOMAIN bs = 1 .. n
  OBVIOUS
<1>2. u \in Seq(Seq(Spans)) /\ Len(u) = n - 1 /\ \A k \in 1 .. n - 1 : u[k] = bs[k + 1]
  OBVIOUS
<1> HIDE DEF u
<1>3. DOMAIN u = 1 .. n - 1
  BY <1>2
<1> HIDE DEF n
<1>4. n # 1 => u # <<>>
  <2> SUFFICES ASSUME n # 1 PROVE u # <<>>
    OBVIOUS
  <2>1. 1 \in DOMAIN u
    BY <1>1, <1>3
  <2> QED BY <2>1
<1>5. ASSUME NEW g \in SpansIn(u) PROVE g \in SpansIn(bs)
  <2>1. PICK b \in 1 .. n - 1 : \E k \in DOMAIN u[b] : u[b][k] = g
    BY <1>3 DEF SpansIn
  <2>2. b + 1 \in 1 .. n /\ u[b] = bs[b + 1]
    BY <1>1, <1>2
  <2> QED BY <1>1, <1>5, <2>1, <2>2 DEF SpansIn
<1>6. ASSUME NEW g \in SpansIn(bs)
      PROVE  (\E k \in DOMAIN bs[1] : bs[1][k] = g) \/ (n # 1 /\ g \in SpansIn(u))
  <2>1. PICK b \in 1 .. n : \E k \in DOMAIN bs[b] : bs[b][k] = g
    BY <1>1 DEF SpansIn
  <2>2. CASE b = 1
    BY <2>1, <2>2
  <2>3. CASE b # 1
    <3>1. b - 1 \in 1 .. n - 1 /\ (b - 1) + 1 = b /\ n # 1
      BY <1>1, <2>3
    <3>2. u[b - 1] = bs[b]
      BY <1>2, <3>1
    <3>3. g \in SpansIn(u)
      BY <1>3, <1>6, <2>1, <3>1, <3>2 DEF SpansIn
    <3> QED BY <3>1, <3>3
  <2> QED BY <2>2, <2>3
<1> QED BY <1>2, <1>4, <1>5, <1>6 DEF u, n

LEMMA InitialStays ==
  ASSUME NEW rs, NEW qs, DOMAIN qs = DOMAIN rs, Len(qs) = Len(rs),
         \A r \in DOMAIN rs : qs[r].count = rs[r].count, NEW w, NEW g, InitialSpan(qs, w, g)
  PROVE  InitialSpan(rs, w, g) /\ g.region \in DOMAIN rs
<1>1. PICK r \in DOMAIN qs : qs[r].count # 0 /\ g \in Context!Edges(qs, r, w)
  BY DEF InitialSpan
<1>2. r \in DOMAIN rs /\ qs[r].count = rs[r].count
  BY <1>1
<1>3. Context!Edges(qs, r, w) = Context!Edges(rs, r, w)
  BY <1>2 DEF Context!Edges
<1>4. g.region = r
  BY <1>1 DEF Context!Edges, Context!Span
<1> QED BY <1>1, <1>2, <1>3, <1>4 DEF InitialSpan

\* What was to come is there with the answer, or still comes.
LEMMA AnsweredKeeps ==
  ASSUME NEW rs, AreRegions(rs), NEW l, IsLoad(l), NEW ls, l \in ls, NEW token, l.token = token,
         NEW qs, Took(rs, qs, l), NEW ms, (ls \ {l}) \subseteq ms,
         Len(l.batches) # 1 =>
           \E m \in ms : m.token = token /\ m.kind = l.kind /\ m.batches = Tail(l.batches)
  PROVE  /\ \A w : Covered(rs, ls, token, w) => Covered(qs, ms, token, w)
         /\ ~Reads(l) /\ Previewed(rs, ls, token) => Previewed(qs, ms, token)
         /\ Len(l.batches) # 1 /\ Reads(l) => Previewed(qs, ms, token)
<1>1. l.batches \in Seq(Seq(Spans)) /\ l.batches # <<>>
  BY DEF IsLoad
<1>2. \A g \in SpansOf(l) : \/ \E k \in DOMAIN l.batches[1] : l.batches[1][k] = g
                            \/ \E m \in ms : m.token = token /\ m.kind = l.kind /\ g \in SpansOf(m)
  BY <1>1, FirstBatch DEF SpansOf
<1>3. ASSUME NEW w, Covered(rs, ls, token, w) PROVE Covered(qs, ms, token, w)
  <2> SUFFICES ASSUME NEW g, InitialSpan(qs, w, g), NEW x \in LinesOf(g)
               PROVE  x \in Held(qs[g.region].segments) \/ Comes(ms, token, g.region, x)
    BY DEF Covered
  <2>1. InitialSpan(rs, w, g) /\ g.region \in DOMAIN rs
    BY InitialStays DEF Took
  <2>2. CASE x \in Held(rs[g.region].segments)
    BY <2>1, <2>2 DEF Took
  <2>3. CASE Comes(ls, token, g.region, x)
    <3>1. PICK m \in ls : /\ m.token = token /\ Reads(m)
                          /\ \E h \in SpansOf(m) : h.region = g.region /\ x \in LinesOf(h)
      BY <2>3 DEF Comes
    <3>2. CASE m # l
      BY <3>1, <3>2 DEF Comes
    <3>3. CASE m = l
      <4>1. PICK h \in SpansOf(l) : h.region = g.region /\ x \in LinesOf(h)
        BY <3>1, <3>3
      <4>2. CASE \E k \in DOMAIN l.batches[1] : l.batches[1][k] = h
        <5>1. x \in Held(qs[g.region].segments)
          BY <2>1, <3>1, <3>3, <4>1, <4>2 DEF Took
        <5> QED BY <5>1
      <4>3. CASE \E v \in ms : v.token = token /\ v.kind = l.kind /\ h \in SpansOf(v)
        BY <3>1, <3>3, <4>1, <4>3 DEF Comes, Reads
      <4> QED BY <1>2, <4>2, <4>3
    <3> QED BY <3>2, <3>3
  <2> QED BY <1>3, <2>1, <2>2, <2>3 DEF Covered
<1>4. ASSUME ~Reads(l), Previewed(rs, ls, token) PROVE Previewed(qs, ms, token)
  <2> SUFFICES ASSUME NEW r \in DOMAIN qs, NEW k \in Context!Gaps(qs[r])
               PROVE  k \in qs[r].previews \/ Busy(ms, token) \/ Asked(ms, token, r, k)
    BY DEF Previewed
  <2>1. r \in DOMAIN rs /\ k \in Context!Gaps(rs[r]) /\ rs[r].previews \subseteq qs[r].previews
    BY <1>4 DEF Took, Context!Gaps
  <2>2. CASE k \in rs[r].previews
    BY <2>1, <2>2
  <2>3. CASE Busy(ls, token)
    BY <1>4, <2>3 DEF Busy
  <2>4. CASE Asked(ls, token, r, k)
    <3> DEFINE g == Context!Span(r, k, 1)
    <3>1. PICK m \in ls : m.token = token /\ ~Reads(m) /\ g \in SpansOf(m)
      BY <2>4 DEF Asked
    <3>2. CASE m # l
      BY <3>1, <3>2 DEF Asked
    <3>3. CASE m = l /\ \E j \in DOMAIN l.batches[1] : l.batches[1][j] = g
      <4>1. PICK j \in DOMAIN l.batches[1] : l.batches[1][j] = g
        BY <3>3
      <4>2. l.batches[1][j].region = r /\ l.batches[1][j].offset = k
        BY <4>1 DEF Context!Span
      <4> HIDE DEF g
      <4> QED BY <1>4, <2>1, <4>1, <4>2 DEF Took
    <3>4. CASE \E v \in ms : v.token = token /\ v.kind = l.kind /\ g \in SpansOf(v)
      BY <1>4, <3>4 DEF Asked, Reads
    <3> QED BY <1>2, <3>1, <3>2, <3>3, <3>4
  <2> QED BY <1>4, <2>1, <2>2, <2>3, <2>4 DEF Previewed
<1>5. ASSUME Len(l.batches) # 1, Reads(l) PROVE Previewed(qs, ms, token)
  <2>1. Busy(ms, token)
    BY <1>5 DEF Busy, Reads
  <2> QED BY <2>1 DEF Previewed
<1> QED BY <1>3, <1>4, <1>5

LEMMA NoneLeft == ASSUME NEW a \in Seq(Regions), Len(a) = 0 PROVE a = <<>>
OBVIOUS

LEMMA ContextDropped ==
  ASSUME ContextInv, NEW l \in loads, l.token # contextToken,
         NEW t, t = Context!Ended(Context!Now, l, FALSE),
         regions' = t.regions, loads' = t.loads,
         UNCHANGED <<visible, lines, contextToken, contextFailed, strayed>>
  PROVE  ContextInv'
<1> DEFINE now == Context!Now
           no == FALSE
<1>1. IsState(now) /\ now.regions = regions /\ now.loads = loads
  BY NowIs
<1>2. t = Context!Ended(now, l, no) /\ no \in BOOLEAN
  OBVIOUS
<1> HIDE DEF now, no
<1>3. ContextTypes /\ Sound(regions, loads, contextToken)
  BY DEF ContextInv
<1>4. /\ contextToken \in Nat /\ visible \in BOOLEAN /\ IsLoad(l) /\ AreRegions(regions)
  BY <1>3 DEF ContextTypes, Sound, LoadsFit
<1>5. /\ Sound(t.regions, t.loads, contextToken) /\ Alike(regions, t.regions)
      /\ (loads \ {l}) \subseteq t.loads
      /\ \/ visible /\ Previewed(t.regions, t.loads, contextToken)
         \/ /\ t.loads = loads \ {l}
            /\ \A r \in DOMAIN regions : t.regions[r].previews = regions[r].previews
  <2>1. Sound(now.regions, now.loads, contextToken)
    BY <1>1, <1>3
  <2>2. EndsWell(now, t, l, no)
    BY <1>1, <1>2, <1>4, <2>1, EndedIs
  <2> QED BY <1>1, <2>2 DEF EndsWell
<1>6. ContextTypes'
  BY <1>3 DEF ContextTypes
<1>7. ASSUME Whole(regions, loads, contextToken, visible, lines)
      PROVE  Whole(t.regions, t.loads, contextToken, visible, lines)
  <2>1. ~visible => \A m \in t.loads : m.token # contextToken
    BY <1>5, <1>7 DEF Whole
  <2>2. ASSUME visible \/ \E r \in DOMAIN t.regions : t.regions[r].segments # <<>>
        PROVE  Covered(t.regions, t.loads, contextToken, lines) /\ Previewed(t.regions, t.loads, contextToken)
    <3>1. Covered(regions, loads, contextToken, lines) /\ Previewed(regions, loads, contextToken)
      BY <1>5, <1>7, <2>2 DEF Whole, Alike
    <3>2. Covered(regions, loads \ {l}, contextToken, lines)
      <4>1. \A r, x : Comes(loads, contextToken, r, x) => Comes(loads \ {l}, contextToken, r, x)
        BY DEF Comes
      <4> QED BY <3>1, <4>1 DEF Covered
    <3>3. Covered(t.regions, t.loads, contextToken, lines)
      BY <1>4, <1>5, <3>2, AlikeIsSame
    <3>4. CASE \A r \in DOMAIN regions : t.regions[r].previews = regions[r].previews
      <4> SUFFICES ASSUME NEW r \in DOMAIN t.regions, NEW k \in Context!Gaps(t.regions[r])
                   PROVE  k \in t.regions[r].previews \/ Busy(t.loads, contextToken)
                          \/ Asked(t.loads, contextToken, r, k)
        BY <3>3 DEF Previewed
      <4>1. r \in DOMAIN regions /\ k \in Context!Gaps(regions[r])
        <5>1. DOMAIN t.regions = DOMAIN regions
          BY <1>5 DEF Alike
        <5> QED BY <1>4, <1>5, <5>1, AlikeIsSame
      <4>2. k \in regions[r].previews \/ Busy(loads, contextToken) \/ Asked(loads, contextToken, r, k)
        BY <3>1, <4>1 DEF Previewed
      <4>3. Busy(loads, contextToken) => Busy(t.loads, contextToken)
        BY <1>5 DEF Busy
      <4>4. Asked(loads, contextToken, r, k) => Asked(t.loads, contextToken, r, k)
        BY <1>5 DEF Asked
      <4> QED BY <3>4, <4>1, <4>2, <4>3, <4>4
    <3> QED BY <1>5, <3>3, <3>4
  <2> QED BY <2>1, <2>2 DEF Whole
<1>8. regions' # <<>> => regions # <<>>
  <2> SUFFICES ASSUME regions = <<>> PROVE t.regions = <<>>
    OBVIOUS
  <2>1. t.regions \in Seq(Regions) /\ Len(t.regions) = Len(regions)
    BY <1>5 DEF Alike
  <2>2. Len(t.regions) = 0
    BY <2>1
  <2> QED BY <2>1, <2>2, NoneLeft
<1> QED BY <1>5, <1>6, <1>7, <1>8 DEF ContextInv

LEMMA TookIsSound ==
  ASSUME NEW rs, NEW ls, NEW token, Sound(rs, ls, token), NEW l \in ls, NEW qs, Took(rs, qs, l)
  PROVE  Sound(qs, ls, token)
<1>1. AreRegions(qs) /\ DOMAIN qs = DOMAIN rs
      /\ \A r \in DOMAIN rs : qs[r].count = rs[r].count /\ qs[r].pending = rs[r].pending
  BY DEF Took
<1>2. LoadsFit(qs, ls, token)
  <2>1. \A g : SpanFits(rs, g) => SpanFits(qs, g)
    BY <1>1 DEF SpanFits
  <2> QED BY <2>1 DEF Sound, LoadsFit
<1>3. Pends(qs, ls, token)
  BY <1>1 DEF Sound, Pends
<1> QED BY <1>1, <1>2, <1>3 DEF Sound

\* The last batch of a load.
LEMMA ContextLastAnswer ==
  ASSUME ContextInv, NEW l \in loads, l.token = contextToken, Len(l.batches) = 1,
         NEW qs, Took(regions, qs, l),
         NEW t, t = Context!Ended([Context!Now EXCEPT !.regions = qs], l, TRUE),
         regions' = t.regions, loads' = t.loads,
         UNCHANGED <<visible, lines, contextToken, contextFailed, strayed>>
  PROVE  ContextInv'
<1> DEFINE s == [Context!Now EXCEPT !.regions = qs]
           yes == TRUE
<1>1. IsState(s) /\ s.regions = qs /\ s.loads = loads
  BY DEF IsState, Context!Now
<1>2. t = Context!Ended(s, l, yes) /\ yes \in BOOLEAN /\ yes
  OBVIOUS
<1> HIDE DEF s, yes
<1>3. ContextTypes /\ Sound(regions, loads, contextToken)
  BY DEF ContextInv
<1>4. contextToken \in Nat /\ visible \in BOOLEAN /\ IsLoad(l) /\ AreRegions(regions)
  BY <1>3 DEF ContextTypes, Sound, LoadsFit
<1>5. Sound(qs, loads, contextToken) /\ AreRegions(qs)
  <2>1. Sound(qs, loads, contextToken)
    BY <1>3, TookIsSound
  <2> QED BY <2>1 DEF Sound
<1>6. /\ Sound(t.regions, t.loads, contextToken) /\ Alike(qs, t.regions)
      /\ (loads \ {l}) \subseteq t.loads
      /\ \/ visible /\ Previewed(t.regions, t.loads, contextToken)
         \/ /\ t.loads = loads \ {l}
            /\ \A r \in DOMAIN qs : t.regions[r].previews = qs[r].previews
      /\ visible /\ Reads(l) => Previewed(t.regions, t.loads, contextToken)
  <2>1. Sound(s.regions, s.loads, contextToken)
    BY <1>1, <1>5
  <2>2. EndsWell(s, t, l, yes)
    BY <1>1, <1>2, <1>4, <2>1, EndedIs
  <2> QED BY <1>1, <1>2, <2>2 DEF EndsWell
<1>7. ContextTypes'
  BY <1>3 DEF ContextTypes
<1> DEFINE rest == loads \ {l}
<1>8. /\ \A w : Covered(regions, loads, contextToken, w) => Covered(qs, rest, contextToken, w)
      /\ ~Reads(l) /\ Previewed(regions, loads, contextToken) => Previewed(qs, rest, contextToken)
  <2>1. (loads \ {l}) \subseteq rest
    OBVIOUS
  <2> HIDE DEF rest
  <2> QED BY <1>4, <2>1, AnsweredKeeps
<1>9. ASSUME Whole(regions, loads, contextToken, visible, lines)
      PROVE  Whole(t.regions, t.loads, contextToken, visible, lines)
  <2>1. visible
    BY <1>9 DEF Whole
  <2>2. Covered(regions, loads, contextToken, lines) /\ Previewed(regions, loads, contextToken)
    BY <1>9, <2>1 DEF Whole
  <2>3. Covered(t.regions, t.loads, contextToken, lines)
    BY <1>5, <1>6, <1>8, <2>2, AlikeIsSame
  <2>4. CASE ~Reads(l) /\ t.loads = rest /\ \A r \in DOMAIN qs : t.regions[r].previews = qs[r].previews
    <3>1. Previewed(qs, rest, contextToken)
      BY <1>8, <2>2, <2>4
    <3>2. \A r \in DOMAIN qs : Context!Gaps(t.regions[r]) = Context!Gaps(qs[r])
      BY <1>5, <1>6, AlikeIsSame
    <3>3. DOMAIN t.regions = DOMAIN qs
      BY <1>6 DEF Alike
    <3>4. Previewed(t.regions, t.loads, contextToken)
      <4> SUFFICES ASSUME NEW r \in DOMAIN t.regions, NEW k \in Context!Gaps(t.regions[r])
                   PROVE  k \in t.regions[r].previews \/ Busy(t.loads, contextToken)
                          \/ Asked(t.loads, contextToken, r, k)
        BY DEF Previewed
      <4>1. r \in DOMAIN qs /\ k \in Context!Gaps(qs[r])
        BY <3>2, <3>3
      <4>2. k \in qs[r].previews \/ Busy(rest, contextToken) \/ Asked(rest, contextToken, r, k)
        BY <3>1, <4>1 DEF Previewed
      <4> HIDE DEF rest
      <4> QED BY <2>4, <4>1, <4>2
    <3> QED BY <2>1, <2>3, <3>4 DEF Whole
  <2>5. CASE Previewed(t.regions, t.loads, contextToken)
    BY <2>1, <2>3, <2>5 DEF Whole
  <2> QED BY <1>6, <2>1, <2>4, <2>5
<1>10. regions' # <<>> => regions # <<>>
  <2> SUFFICES ASSUME regions = <<>> PROVE t.regions = <<>>
    OBVIOUS
  <2>1. t.regions \in Seq(Regions) /\ Len(t.regions) = Len(regions)
    BY <1>6 DEF Alike, Took
  <2>2. Len(t.regions) = 0
    BY <2>1
  <2> QED BY <2>1, <2>2, NoneLeft
<1> QED BY <1>6, <1>7, <1>9, <1>10 DEF ContextInv

\* A batch with more to come.
LEMMA ContextMoreToCome ==
  ASSUME ContextInv, NEW l \in loads, l.token = contextToken, Len(l.batches) # 1,
         Took(regions, regions', l),
         loads' = (loads \ {l}) \cup {[l EXCEPT !.batches = Tail(@)]},
         UNCHANGED <<visible, lines, contextToken, contextFailed, strayed>>
  PROVE  ContextInv'
<1> DEFINE m == [l EXCEPT !.batches = Tail(@)]
<1>1. ContextTypes /\ Sound(regions, loads, contextToken)
  BY DEF ContextInv
<1>2. /\ contextToken \in Nat /\ visible \in BOOLEAN /\ IsLoad(l) /\ AreRegions(regions)
      /\ \A g \in SpansOf(l) : SpanFits(regions, g)
  BY <1>1 DEF ContextTypes, Sound, LoadsFit
<1>3. /\ DOMAIN m = DOMAIN l /\ m.batches = Tail(l.batches) /\ m.kind = l.kind /\ m.token = l.token
      /\ m.affected = l.affected
  BY <1>2 DEF IsLoad, LoadFields
<1>4. loads' = (loads \ {l}) \cup {m}
  OBVIOUS
<1> HIDE DEF m
<1>5. /\ Tail(l.batches) \in Seq(Seq(Spans)) /\ Tail(l.batches) # <<>>
      /\ SpansOf(m) \subseteq SpansOf(l)
  BY <1>2, <1>3, FirstBatch DEF IsLoad, SpansOf
<1>6. IsLoad(m) /\ (Reads(m) <=> Reads(l))
  BY <1>2, <1>3, <1>5 DEF IsLoad, Reads
<1>7. ContextTypes'
  BY <1>1 DEF ContextTypes
<1>8. Sound(regions', loads, contextToken)
  BY <1>1, TookIsSound
<1>9. Sound(regions', loads', contextToken)
  <2>1. AreRegions(regions') /\ LoadsFit(regions', loads, contextToken) /\ Pends(regions', loads, contextToken)
    BY <1>8 DEF Sound
  <2>2. LoadsFit(regions', loads', contextToken)
    <3> SUFFICES ASSUME NEW v \in loads'
                 PROVE  /\ IsLoad(v) /\ v.token <= contextToken
                        /\ v.token = contextToken => \A g \in SpansOf(v) : SpanFits(regions', g)
      BY DEF LoadsFit
    <3>1. CASE v \in loads
      BY <2>1, <3>1 DEF LoadsFit
    <3>2. CASE v = m
      <4>1. m.token <= contextToken /\ \A g \in SpansOf(l) : SpanFits(regions', g)
        BY <1>2, <1>3, <2>1 DEF LoadsFit
      <4> QED BY <1>5, <1>6, <3>2, <4>1
    <3> QED BY <1>4, <3>1, <3>2
  <2>3. Pends(regions', loads', contextToken)
    <3> SUFFICES ASSUME NEW r \in DOMAIN regions', regions'[r].pending
                 PROVE  Frees(loads', contextToken, r)
      BY DEF Pends
    <3>1. PICK v \in loads : v.token = contextToken /\ Reads(v) /\ r \in v.affected
      BY <2>1 DEF Pends, Frees
    <3>2. CASE v = l
      BY <1>3, <1>4, <1>6, <3>1, <3>2 DEF Frees
    <3>3. CASE v # l
      BY <1>4, <3>1, <3>3 DEF Frees
    <3> QED BY <3>2, <3>3
  <2> QED BY <2>1, <2>2, <2>3 DEF Sound
<1>10. /\ \A w : Covered(regions, loads, contextToken, w) => Covered(regions', loads', contextToken, w)
       /\ ~Reads(l) /\ Previewed(regions, loads, contextToken) => Previewed(regions', loads', contextToken)
       /\ Reads(l) => Previewed(regions', loads', contextToken)
  <2> DEFINE qs == regions'
             ms == loads'
  <2>1. (loads \ {l}) \subseteq ms
        /\ \E v \in ms : v.token = contextToken /\ v.kind = l.kind /\ v.batches = Tail(l.batches)
    BY <1>3, <1>4
  <2>2. Took(regions, qs, l)
    OBVIOUS
  <2> HIDE DEF qs, ms
  <2>3. /\ \A w : Covered(regions, loads, contextToken, w) => Covered(qs, ms, contextToken, w)
        /\ ~Reads(l) /\ Previewed(regions, loads, contextToken) => Previewed(qs, ms, contextToken)
        /\ Len(l.batches) # 1 /\ Reads(l) => Previewed(qs, ms, contextToken)
    BY <1>2, <2>1, <2>2, AnsweredKeeps
  <2> QED BY <2>3 DEF qs, ms
<1>11. ASSUME Whole(regions, loads, contextToken, visible, lines)
       PROVE  Whole(regions', loads', contextToken, visible, lines)
  <2>1. visible
    BY <1>11 DEF Whole
  <2>2. Covered(regions, loads, contextToken, lines) /\ Previewed(regions, loads, contextToken)
    BY <1>11, <2>1 DEF Whole
  <2> QED BY <1>10, <2>1, <2>2 DEF Whole
<1>12. regions' # <<>> => regions # <<>>
  <2>1. Len(regions') = Len(regions) /\ regions' \in Seq(Regions) /\ regions \in Seq(Regions)
    BY <1>2 DEF Took, AreRegions
  <2> QED BY <2>1
<1> QED BY <1>7, <1>9, <1>11, <1>12 DEF ContextInv

LEMMA ContextAnswered ==
  ASSUME ContextInv, NEW l \in loads, Context!Answer(l)
  PROVE  ContextInv'
<1> DEFINE qs == Context!Received(regions, l)
           more == [l EXCEPT !.batches = Tail(@)]
<1>1. UNCHANGED <<visible, lines, contextToken, contextFailed, strayed>>
  BY DEF Context!Answer
<1>2. CASE l.token # contextToken
  <2> DEFINE t == Context!Ended(Context!Now, l, FALSE)
  <2>1. regions' = t.regions /\ loads' = t.loads
    BY <1>2 DEF Context!Answer, Context!Becomes
  <2>2. t = Context!Ended(Context!Now, l, FALSE)
    OBVIOUS
  <2> HIDE DEF t
  <2> QED BY <1>1, <1>2, <2>1, <2>2, ContextDropped
<1>3. CASE l.token = contextToken
  <2>1. Took(regions, qs, l)
    <3>1. AreRegions(regions) /\ IsLoad(l) /\ \A g \in SpansOf(l) : SpanFits(regions, g)
      BY <1>3 DEF ContextInv, Sound, LoadsFit
    <3>2. qs = Context!Received(regions, l)
      OBVIOUS
    <3> HIDE DEF qs
    <3> QED BY <3>1, <3>2, ReceivedIs
  <2>2. CASE Len(l.batches) = 1
    <3> DEFINE t == Context!Ended([Context!Now EXCEPT !.regions = qs], l, TRUE)
    <3>1. regions' = t.regions /\ loads' = t.loads
      BY <1>3, <2>2 DEF Context!Answer, Context!Becomes, Context!Now
    <3>2. t = Context!Ended([Context!Now EXCEPT !.regions = qs], l, TRUE)
      OBVIOUS
    <3> HIDE DEF t, qs
    <3> QED BY <1>1, <1>3, <2>1, <2>2, <3>1, <3>2, ContextLastAnswer
  <2>3. CASE Len(l.batches) # 1
    <3>1. regions' = qs /\ loads' = (loads \ {l}) \cup {more}
      BY <1>3, <2>3 DEF Context!Answer, Context!Becomes, Context!Now
    <3> HIDE DEF qs
    <3>2. Took(regions, regions', l)
      BY <2>1, <3>1
    <3> QED BY <1>1, <1>3, <2>3, <3>1, <3>2, ContextMoreToCome
  <2> QED BY <2>2, <2>3
<1> QED BY <1>2, <1>3

LEMMA ContextRefused ==
  ASSUME ContextInv, NEW l \in loads, Context!Refused(l)
  PROVE  ContextInv'
<1> DEFINE t == Context!Ended(Context!Now, l, FALSE)
<1>1. /\ regions' = t.regions /\ loads' = t.loads
      /\ contextFailed' = (contextFailed \/ l.token = contextToken)
      /\ UNCHANGED <<visible, lines, contextToken, strayed>>
  BY DEF Context!Refused, Context!Becomes
<1>2. t = Context!Ended(Context!Now, l, FALSE)
  OBVIOUS
<1> HIDE DEF t
<1>3. ContextTypes /\ Sound(regions, loads, contextToken)
  BY DEF ContextInv
<1>4. CASE l.token # contextToken
  <2>1. contextFailed' = contextFailed
    BY <1>1, <1>3, <1>4 DEF ContextTypes
  <2> QED BY <1>1, <1>2, <1>4, <2>1, ContextDropped
<1>5. CASE l.token = contextToken
  <2> DEFINE now == Context!Now
             no == FALSE
  <2>1. IsState(now) /\ now.regions = regions /\ now.loads = loads
    BY NowIs
  <2>2. t = Context!Ended(now, l, no) /\ no \in BOOLEAN
    BY <1>2
  <2> HIDE DEF now, no
  <2>3. contextToken \in Nat /\ visible \in BOOLEAN /\ IsLoad(l)
    BY <1>3 DEF ContextTypes, Sound, LoadsFit
  <2>4. Sound(t.regions, t.loads, contextToken)
    <3>1. Sound(now.regions, now.loads, contextToken)
      BY <1>3, <2>1
    <3>2. EndsWell(now, t, l, no)
      BY <2>1, <2>2, <2>3, <3>1, EndedIs
    <3> QED BY <3>2 DEF EndsWell
  <2>5. contextFailed'
    BY <1>1, <1>5
  <2>6. ContextTypes'
    BY <1>1, <1>3, <2>5 DEF ContextTypes
  <2> QED BY <1>1, <2>4, <2>5, <2>6 DEF ContextInv
<1> QED BY <1>4, <1>5

LEMMA ContextNext == ContextInv /\ [Context!Next]_(Context!vars) => ContextInv'
<1> SUFFICES ASSUME ContextInv, [Context!Next]_(Context!vars) PROVE ContextInv'
  OBVIOUS
<1>1. CASE UNCHANGED Context!vars
  <2>1. UNCHANGED <<regions, visible, lines, contextToken, loads, contextFailed, strayed>>
    BY <1>1 DEF Context!vars
  <2>2. ContextTypes'
    BY <2>1 DEF ContextInv, ContextTypes
  <2> QED BY <2>1, <2>2 DEF ContextInv
<1>2. CASE Context!clearUnchangedContext
  BY <1>2, ContextCleared
<1>3. CASE \E d \in Layouts : Context!finishStreamRender(d)
  BY <1>3, ContextBegins
<1>4. CASE Context!setContextVisibility
  BY <1>4, ContextShown
<1>5. CASE \E n \in LineCounts : Context!resetContextRanges(n)
  BY <1>5, ContextReset
<1>6. CASE \E r \in DOMAIN regions :
             \E span \in Context!missingContextSpans(regions[r].count, regions[r].segments),
                direction \in {"up", "down", "both"} : Context!expandContextSpan(r, span, direction)
  BY <1>6, ContextExpanded
<1>7. CASE \E l \in loads : Context!Answer(l) \/ Context!Refused(l)
  BY <1>7, ContextAnswered, ContextRefused
<1> QED BY <1>1, <1>2, <1>3, <1>4, <1>5, <1>6, <1>7 DEF Context!Next

\* What the invariant says of the screen.
LEMMA ContextInvIsWhole == ContextInv => Context!EachLineOnce /\ Context!ContextSettles
<1> SUFFICES ASSUME ContextInv PROVE Context!EachLineOnce /\ Context!ContextSettles
  OBVIOUS
<1>1. ContextTypes /\ AreRegions(regions) /\ Pends(regions, loads, contextToken)
  BY DEF ContextInv, Sound
<1>2. ASSUME NEW r \in DOMAIN regions
      PROVE  /\ OnScreen(Context!renderContextRegion(regions[r]), regions[r])
             /\ Fitting(regions[r])
  BY <1>1, RenderedIs DEF AreRegions
<1>3. Context!EachLineOnce
  <2> DEFINE Lines(g) == g.offset .. g.offset + g.count - 1
             gaps(r) == Context!missingContextSpans(regions[r].count, regions[r].segments)
             on(r) == Context!renderContextRegion(regions[r])
  <2> SUFFICES ASSUME NEW r \in DOMAIN regions
               PROVE  /\ \A j, k \in DOMAIN on(r).shown : j < k => on(r).shown[j] < on(r).shown[k]
                      /\ Context!ToSet(on(r).shown) \cup on(r).hidden = 0 .. regions[r].count - 1
                      /\ Context!ToSet(on(r).shown) \cap on(r).hidden = {}
                      /\ on(r).hidden = UNION {Lines(g) : g \in gaps(r)}
    BY DEF Context!EachLineOnce
  <2> DEFINE o == on(r)
             G == gaps(r)
             count == regions[r].count
             held == Held(regions[r].segments)
  <2>1. /\ \A j, k \in DOMAIN o.shown : j < k => o.shown[j] < o.shown[k]
        /\ Context!ToSet(o.shown) = held
        /\ o.hidden = {x \in Nat : x < count /\ x \notin held}
    BY <1>2 DEF OnScreen
  <2>2. count \in Nat /\ regions[r].segments \in Seq(Segments)
        /\ \A k \in DOMAIN regions[r].segments :
             regions[r].segments[k].offset + regions[r].segments[k].count <= count
    BY <1>2 DEF Fitting
  <2>3. /\ \A g \in G :
             g \in Segments /\ g.count > 0 /\ g.offset + g.count <= count
             /\ \A x \in LinesOf(g) : x \notin held
        /\ \A x \in Nat : x < count /\ x \notin held => \E g \in G : x \in LinesOf(g)
    BY <2>2, GapsAre
  <2>4. \A x \in held : x \in Nat /\ x < count
    <3> SUFFICES ASSUME NEW x \in held PROVE x \in Nat /\ x < count
      OBVIOUS
    <3>1. PICK k \in DOMAIN regions[r].segments : x \in Nat /\ x \in LinesOf(regions[r].segments[k])
      BY DEF Held
    <3>2. regions[r].segments[k] \in Segments
      BY <2>2
    <3> QED BY <2>2, <3>1, <3>2 DEF LinesOf, Segments
  <2> HIDE DEF o, G, count, held
  <2>5. \A g \in G : Lines(g) = LinesOf(g)
    <3> SUFFICES ASSUME NEW g \in G PROVE Lines(g) = LinesOf(g)
      OBVIOUS
    <3>1. g.offset \in Nat /\ g.count \in Nat
      BY <2>3 DEF Segments
    <3> QED BY <3>1 DEF LinesOf
  <2>6. \A g \in G : \A x \in LinesOf(g) : x \in Nat /\ x < count /\ x \notin held
    <3> SUFFICES ASSUME NEW g \in G, NEW x \in LinesOf(g) PROVE x \in Nat /\ x < count /\ x \notin held
      OBVIOUS
    <3>1. g.offset \in Nat /\ g.count \in Nat /\ g.offset + g.count <= count
      BY <2>3 DEF Segments
    <3> QED BY <2>2, <2>3, <3>1 DEF LinesOf
  <2> HIDE DEF Lines
  <2>7. o.hidden = UNION {Lines(g) : g \in G}
    BY <2>1, <2>3, <2>5, <2>6
  <2>8. Context!ToSet(o.shown) \cup o.hidden = 0 .. count - 1
    BY <2>1, <2>2, <2>4
  <2>9. Context!ToSet(o.shown) \cap o.hidden = {}
    BY <2>1
  <2> QED BY <2>1, <2>7, <2>8, <2>9 DEF o, G, count, Lines
<1>4. Context!ContextSettles
  <2>1. \A r \in DOMAIN regions : regions[r].pending =>
          \E l \in loads : l.token = contextToken /\ l.kind # "previews" /\ r \in l.affected
    BY <1>1 DEF Pends, Frees, Reads
  <2>2. ASSUME regions # <<>>, visible, loads = {}, ~contextFailed, ~strayed, NEW r \in DOMAIN regions
        PROVE  LET on == Context!ToSet(Context!renderContextRegion(regions[r]).shown)
               IN  /\ \A g \in Context!ToSet(Context!initialContextRanges(regions, lines)) :
                        g.region = r => g.offset .. g.offset + g.count - 1 \subseteq on
                   /\ \A g \in Context!missingContextSpans(regions[r].count, regions[r].segments) :
                        g.offset \in regions[r].previews
    <3> DEFINE on == Context!ToSet(Context!renderContextRegion(regions[r]).shown)
               ranges == Context!initialContextRanges(regions, lines)
    <3>1. Covered(regions, loads, contextToken, lines) /\ Previewed(regions, loads, contextToken)
      BY <2>2 DEF ContextInv, Whole
    <3>2. on = Held(regions[r].segments)
      BY <1>2 DEF OnScreen
    <3>3. lines \in Nat
      BY <1>1 DEF ContextTypes
    <3>4. /\ \A k \in DOMAIN ranges : InitialSpan(regions, lines, ranges[k])
          /\ \A g : InitialSpan(regions, lines, g) => g \in Spans
      BY <1>1, <3>3, InitialIs
    <3> HIDE DEF on, ranges
    <3>5. ASSUME NEW g \in Context!ToSet(ranges), g.region = r,
                 NEW x \in g.offset .. g.offset + g.count - 1
          PROVE  x \in on
      <4>1. InitialSpan(regions, lines, g) /\ g \in Spans
        BY <3>4 DEF Context!ToSet
      <4>2. x \in LinesOf(g)
        BY <3>5, <4>1 DEF LinesOf, Spans
      <4>3. ~Comes(loads, contextToken, r, x)
        BY <2>2 DEF Comes
      <4> QED BY <3>1, <3>2, <3>5, <4>1, <4>2, <4>3 DEF Covered
    <3>6. ASSUME NEW g \in Context!missingContextSpans(regions[r].count, regions[r].segments)
          PROVE  g.offset \in regions[r].previews
      <4>1. g.offset \in Context!Gaps(regions[r])
        BY DEF Context!Gaps
      <4>2. ~Busy(loads, contextToken) /\ ~Asked(loads, contextToken, r, g.offset)
        BY <2>2 DEF Busy, Asked
      <4> QED BY <3>1, <4>1, <4>2 DEF Previewed
    <3> QED BY <3>5, <3>6 DEF on, ranges
  <2> QED BY <2>1, <2>2 DEF Context!ContextSettles
<1> QED BY <1>3, <1>4

\* Each unchanged line is shown once, in its place, or behind a gap that can be
\* expanded; the controls of a region wait only for a load that will free them; and
\* when the visible context is quiet and nothing failed, it has the lines that the field
\* asks for and names every gap (app.js:2435-2457, 2510-2676).  So for any result, any
\* number of context lines, and answers in any order, late, cut in batches or refused.
THEOREM ContextIsWhole == ViewsSpec => []ContextWhole
<1>1. ContextInv => ContextWhole
  BY ContextInvIsWhole DEF ContextWhole
<1> QED BY <1>1, ViewsBehave, ContextInit, ContextNext, PTL
===============================================================================
