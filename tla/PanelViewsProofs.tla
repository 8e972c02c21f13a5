--------------------------- MODULE PanelViewsProofs ---------------------------
(***************************************************************************)
(* Proofs about the panels beside a result, for all values of their        *)
(* constants.  Each panel has an inductive invariant of its own.           *)
(***************************************************************************)
EXTENDS PanelViews, Lists, Integers, FiniteSetTheorems, SequenceTheorems, WellFoundedInduction, TLAPS

\* A step is one panel's, and the others rest.
LEMMA PanelsBehave ==
  PanelsSpec =>
    /\ Merge!Init /\ [][Merge!Next]_(Merge!vars)
    /\ Lanes!Init /\ [][Lanes!Next]_(Lanes!vars)
    /\ Setup!Init /\ [][Setup!Next]_(Setup!vars)
    /\ Table!Init /\ [][Table!Next]_(Table!vars)
<1>1. PanelsInit => Merge!Init /\ Lanes!Init /\ Setup!Init /\ Table!Init
  BY DEF PanelsInit
<1>2. [PanelsNext]_panelVars =>
        /\ Merge!Next \/ UNCHANGED mergeVars
        /\ Lanes!Next \/ UNCHANGED lanesVars
        /\ Setup!Next \/ UNCHANGED setupVars
        /\ Table!Next \/ UNCHANGED tableVars
  BY DEF PanelsNext, MergeStep, LanesStep, SetupStep, TableStep, SuggestionsStep, panelVars
<1>3. /\ UNCHANGED mergeVars => UNCHANGED Merge!vars
      /\ UNCHANGED lanesVars => UNCHANGED Lanes!vars
      /\ UNCHANGED setupVars => UNCHANGED Setup!vars
      /\ UNCHANGED tableVars => UNCHANGED Table!vars
  <2>1. UNCHANGED mergeVars => UNCHANGED Merge!vars
    BY DEF mergeVars, Merge!vars, Merge!choosing, Merge!previewing, Merge!saving
  <2>2. UNCHANGED lanesVars => UNCHANGED Lanes!vars
    BY DEF lanesVars, Lanes!vars, Lanes!messages, Lanes!tracker
  <2>3. UNCHANGED setupVars => UNCHANGED Setup!vars
    BY DEF setupVars, Setup!vars, Setup!form, Setup!keyVars, Setup!mapVars, Setup!lock
  <2>4. UNCHANGED tableVars => UNCHANGED Table!vars
    BY DEF tableVars, Table!vars, Table!table, Table!panel
  <2> QED BY <2>1, <2>2, <2>3, <2>4
<1>4. [PanelsNext]_panelVars =>
        /\ [Merge!Next]_(Merge!vars) /\ [Lanes!Next]_(Lanes!vars)
        /\ [Setup!Next]_(Setup!vars) /\ [Table!Next]_(Table!vars)
  BY <1>2, <1>3
<1> QED BY <1>1, <1>4, PTL DEF PanelsSpec

--------------------------------------------------------------------------------
(* Sequences. *)

\* Induction, as a fact about a set.
LEMMA Induction ==
  ASSUME NEW S, 0 \in S, \A n \in Nat : n \in S => n + 1 \in S
  PROVE  Nat \subseteq S
<1> DEFINE T == {n \in Nat : n \notin S}
<1>1. SUFFICES ASSUME T # {} PROVE FALSE
  OBVIOUS
<1>2. PICK x \in T : \A y \in T : <<y, x>> \notin OpToRel(<, Nat)
  <2> HIDE DEF T
  <2>1. T \subseteq Nat
    BY DEF T
  <2> QED BY <1>1, <2>1, NatLessThanWellFounded, WFMin
<1>3. x # 0 /\ x - 1 \in Nat /\ x - 1 \in T /\ x - 1 < x
  OBVIOUS
<1>4. <<x - 1, x>> \in OpToRel(<, Nat)
  BY <1>3 DEF OpToRel
<1> QED BY <1>2, <1>3, <1>4

\* The beginning of any list.
LEMMA BeginningIsSeq ==
  ASSUME NEW S, NEW s \in Seq(S), NEW n \in 0 .. Len(s)
  PROVE  /\ SubSeq(s, 1, n) \in Seq(S) /\ Len(SubSeq(s, 1, n)) = n
         /\ \A k \in 1 .. n : SubSeq(s, 1, n)[k] = s[k]
OBVIOUS

--------------------------------------------------------------------------------
(* What is kept of a list. *)

\* What Keep is defined with: the items kept of the first k.
Begun(f, n, list, set) ==
  f = [k \in 0 .. n |-> IF k = 0 THEN <<>>
                        ELSE f[k - 1] \o (IF list[k] \in set THEN <<list[k]>> ELSE <<>>)]

LEMMA BegunGoesOn ==
  ASSUME NEW S, NEW list \in Seq(S), NEW set, NEW n \in Nat, n + 1 <= Len(list),
         NEW f \in [0 .. n -> Seq(S)], Begun(f, n, list, set)
  PROVE  \E g \in [0 .. n + 1 -> Seq(S)] : Begun(g, n + 1, list, set)
<1> DEFINE more(k) == IF list[k] \in set THEN <<list[k]>> ELSE <<>>
           g == [k \in 0 .. n + 1 |-> IF k <= n THEN f[k] ELSE f[n] \o more(n + 1)]
<1>1. \A k \in 0 .. n : f[k] = IF k = 0 THEN <<>> ELSE f[k - 1] \o more(k)
  BY DEF Begun
<1>2. more(n + 1) \in Seq(S)
  <2>1. n + 1 \in 1 .. Len(list)
    OBVIOUS
  <2>2. list[n + 1] \in S
    BY <2>1
  <2>3. <<list[n + 1]>> \in Seq(S) /\ <<>> \in Seq(S)
    BY <2>2
  <2> QED BY <2>3
<1> HIDE DEF more
<1>3. \A k \in 0 .. n : g[k] = f[k]
  OBVIOUS
<1>4. g[n + 1] = f[n] \o more(n + 1) /\ f[n] \in Seq(S)
  OBVIOUS
<1>5. g \in [0 .. n + 1 -> Seq(S)]
  <2>1. g[n + 1] \in Seq(S)
    BY <1>2, <1>4, ConcatProperties
  <2> QED BY <1>3, <2>1
<1>6. \A k \in 0 .. n + 1 : g[k] = IF k = 0 THEN <<>> ELSE g[k - 1] \o more(k)
  <2> HIDE DEF g
  <2> SUFFICES ASSUME NEW k \in 0 .. n + 1 PROVE g[k] = IF k = 0 THEN <<>> ELSE g[k - 1] \o more(k)
    OBVIOUS
  <2>1. CASE k = 0
    <3>1. k \in 0 .. n
      BY <2>1
    <3> QED BY <1>1, <1>3, <2>1, <3>1
  <2>2. CASE k # 0 /\ k <= n
    <3>1. k \in 0 .. n /\ k - 1 \in 0 .. n
      BY <2>2
    <3> QED BY <1>1, <1>3, <2>2, <3>1
  <2>3. CASE k = n + 1
    <3>1. k # 0 /\ k - 1 = n /\ n \in 0 .. n
      BY <2>3
    <3> QED BY <1>3, <1>4, <2>3, <3>1
  <2> QED BY <2>1, <2>2, <2>3
<1> HIDE DEF g
<1>7. g = [k \in 0 .. n + 1 |-> IF k = 0 THEN <<>> ELSE g[k - 1] \o more(k)]
  BY <1>5, <1>6
<1> QED BY <1>5, <1>7 DEF Begun, more

\* The items of r are those of the first n of list that are in set, in their order.
Places(e, m, r, n, list, set) ==
  /\ \A i, j \in 1 .. m : i < j => e[i] < e[j]
  /\ \A i \in 1 .. m : r[i] = list[e[i]] /\ r[i] \in set
  /\ \A k \in 1 .. n : list[k] \in set => \E i \in 1 .. m : e[i] = k
  /\ (\A k \in 1 .. n : list[k] \in set) => m = n /\ \A i \in 1 .. n : e[i] = i
Picks(r, n, list, set) ==
  \E e \in [1 .. Len(r) -> 1 .. n] : Places(e, Len(r), r, n, list, set)

LEMMA PicksOneMore ==
  ASSUME NEW S, NEW list \in Seq(S), NEW set, NEW n \in Nat, n + 1 <= Len(list),
         NEW r \in Seq(S), Picks(r, n, list, set), NEW q,
         q = r \o (IF list[n + 1] \in set THEN <<list[n + 1]>> ELSE <<>>)
  PROVE  q \in Seq(S) /\ Picks(q, n + 1, list, set)
<1> DEFINE m == Len(r)
<1>0. m \in Nat /\ list[n + 1] \in S
  OBVIOUS
<1>1. PICK e \in [1 .. m -> 1 .. n] :
        /\ \A i, j \in 1 .. m : i < j => e[i] < e[j]
        /\ \A i \in 1 .. m : r[i] = list[e[i]] /\ r[i] \in set
        /\ \A k \in 1 .. n : list[k] \in set => \E i \in 1 .. m : e[i] = k
        /\ (\A k \in 1 .. n : list[k] \in set) => m = n /\ \A i \in 1 .. n : e[i] = i
  BY DEF Picks, Places
<1>2. CASE list[n + 1] \notin set
  <2>1. q = r
    <3>1. q = r \o <<>>
      BY <1>2
    <3> QED BY <3>1, ConcatEmptySeq
  <2>2. e \in [1 .. m -> 1 .. n + 1]
    BY <1>0
  <2>3. \A k \in 1 .. n + 1 : list[k] \in set => k \in 1 .. n
    BY <1>2
  <2>4. ~(\A k \in 1 .. n + 1 : list[k] \in set)
    <3>1. n + 1 \in 1 .. n + 1
      OBVIOUS
    <3> QED BY <3>1, <1>2
  <2>5. \A k \in 1 .. n + 1 : list[k] \in set => \E i \in 1 .. m : e[i] = k
    BY <1>1, <2>3
  <2>6. Places(e, m, r, n + 1, list, set)
    BY <1>1, <2>4, <2>5 DEF Places
  <2>7. Picks(q, n + 1, list, set)
    BY <2>1, <2>2, <2>6 DEF Picks
  <2> QED BY <2>1, <2>7
<1>3. CASE list[n + 1] \in set
  <2> DEFINE d == [i \in 1 .. m + 1 |-> IF i <= m THEN e[i] ELSE n + 1]
  <2>1. q \in Seq(S) /\ Len(q) = m + 1 /\ q[m + 1] = list[n + 1] /\ \A i \in 1 .. m : q[i] = r[i]
    <3>1. q = r \o <<list[n + 1]>>
      BY <1>3
    <3> QED BY <1>0, <3>1
  <2>2. /\ d \in [1 .. m + 1 -> 1 .. n + 1] /\ d[m + 1] = n + 1
        /\ \A i \in 1 .. m : d[i] = e[i] /\ d[i] < n + 1
    <3>1. \A i \in 1 .. m : e[i] \in 1 .. n
      OBVIOUS
    <3>2. \A i \in 1 .. m + 1 : i \in 1 .. m \/ ~(i <= m)
      BY <1>0
    <3>3. \A i \in 1 .. m : i <= m /\ i \in 1 .. m + 1
      BY <1>0
    <3>4. \A i \in 1 .. n : i \in 1 .. n + 1 /\ i < n + 1
      OBVIOUS
    <3>5. m + 1 \in 1 .. m + 1 /\ ~(m + 1 <= m) /\ n + 1 \in 1 .. n + 1
      BY <1>0
    <3> HIDE DEF m
    <3>6. \A i \in 1 .. m + 1 : d[i] = IF i <= m THEN e[i] ELSE n + 1
      OBVIOUS
    <3>7. \A i \in 1 .. m : d[i] = e[i] /\ d[i] < n + 1
      BY <3>1, <3>3, <3>4, <3>6
    <3> QED BY <3>1, <3>2, <3>3, <3>4, <3>5, <3>6, <3>7
  <2> HIDE DEF d, m
  <2>3. \A i, j \in 1 .. m + 1 : i < j => d[i] < d[j]
    <3> SUFFICES ASSUME NEW i \in 1 .. m + 1, NEW j \in 1 .. m + 1, i < j PROVE d[i] < d[j]
      OBVIOUS
    <3>1. CASE j = m + 1
      <4>1. i \in 1 .. m
        BY <1>0, <3>1
      <4> QED BY <3>1, <4>1, <2>2
    <3>2. CASE j # m + 1
      <4>1. i \in 1 .. m /\ j \in 1 .. m
        BY <1>0, <3>2
      <4> QED BY <4>1, <1>1, <2>2
    <3> QED BY <3>1, <3>2
  <2>4. \A i \in 1 .. m + 1 : i = m + 1 \/ i \in 1 .. m
    BY <1>0
  <2>5. \A i \in 1 .. m + 1 : q[i] = list[d[i]] /\ q[i] \in set
    BY <1>1, <1>3, <2>1, <2>2, <2>4
  <2>6. \A k \in 1 .. n + 1 : k = n + 1 \/ k \in 1 .. n
    OBVIOUS
  <2>7. m + 1 \in 1 .. m + 1 /\ \A i \in 1 .. m : i \in 1 .. m + 1
    BY <1>0
  <2>8. \A k \in 1 .. n + 1 : list[k] \in set => \E i \in 1 .. m + 1 : d[i] = k
    <3> SUFFICES ASSUME NEW k \in 1 .. n + 1, list[k] \in set PROVE \E i \in 1 .. m + 1 : d[i] = k
      OBVIOUS
    <3>1. CASE k = n + 1
      BY <3>1, <2>2, <2>7
    <3>2. CASE k \in 1 .. n
      <4>1. PICK i \in 1 .. m : e[i] = k
        BY <1>1, <3>2
      <4> QED BY <4>1, <2>2, <2>7
    <3> QED BY <2>6, <3>1, <3>2
  <2>9. ASSUME \A k \in 1 .. n + 1 : list[k] \in set
        PROVE  m + 1 = n + 1 /\ \A i \in 1 .. n + 1 : d[i] = i
    <3>1. \A k \in 1 .. n : k \in 1 .. n + 1
      OBVIOUS
    <3>2. m = n /\ \A i \in 1 .. n : e[i] = i
      BY <1>1, <2>9, <3>1
    <3> QED BY <3>2, <2>2, <2>6
  <2>10. Places(d, m + 1, q, n + 1, list, set)
    BY <2>3, <2>5, <2>8, <2>9 DEF Places
  <2>11. Picks(q, n + 1, list, set)
    BY <2>1, <2>2, <2>10 DEF Picks
  <2> QED BY <2>1, <2>11
<1> QED BY <1>2, <1>3

\* What is kept of a list.
LEMMA KeepIs ==
  ASSUME NEW S, NEW list \in Seq(S), NEW set
  PROVE  Keep(list, set) \in Seq(S) /\ Picks(Keep(list, set), Len(list), list, set)
<1> DEFINE N == Len(list)
           Good == {n \in Nat : n <= N => \E f \in [0 .. n -> Seq(S)] : Begun(f, n, list, set)}
<1>0. N \in Nat
  OBVIOUS
<1>1. 0 \in Good
  <2> DEFINE f == [k \in 0 .. 0 |-> <<>>]
  <2>1. <<>> \in Seq(S)
    OBVIOUS
  <2>2. f \in [0 .. 0 -> Seq(S)]
    BY <2>1
  <2>3. Begun(f, 0, list, set)
    BY DEF Begun
  <2> QED BY <2>2, <2>3
<1>2. ASSUME NEW n \in Nat, n \in Good PROVE n + 1 \in Good
  <2> HIDE DEF N
  <2> SUFFICES ASSUME n + 1 <= N PROVE \E g \in [0 .. n + 1 -> Seq(S)] : Begun(g, n + 1, list, set)
    OBVIOUS
  <2>1. PICK f \in [0 .. n -> Seq(S)] : Begun(f, n, list, set)
    BY <1>0, <1>2
  <2> QED BY <2>1, BegunGoesOn DEF N
<1>3. Nat \subseteq Good
  <2> HIDE DEF Good
  <2> QED BY <1>1, <1>2, Induction
<1> DEFINE kept == CHOOSE f : Begun(f, N, list, set)
<1>4. Begun(kept, N, list, set)
  <2>1. \E f : Begun(f, N, list, set)
    <3> HIDE DEF N
    <3> QED BY <1>0, <1>3
  <2> HIDE DEF N
  <2> QED BY <2>1
<1>5. Keep(list, set) = kept[N]
  BY DEF Keep, Begun
<1> HIDE DEF kept, N
<1>6. \A k \in 0 .. N : kept[k] = IF k = 0 THEN <<>>
        ELSE kept[k - 1] \o (IF list[k] \in set THEN <<list[k]>> ELSE <<>>)
  BY <1>4 DEF Begun
<1> DEFINE Right == {n \in Nat : n <= N => kept[n] \in Seq(S) /\ Picks(kept[n], n, list, set)}
<1>7. 0 \in Right
  <2>1. kept[0] = <<>>
    <3>1. 0 \in 0 .. N
      BY <1>0
    <3> HIDE DEF Right
    <3> QED BY <1>6, <3>1
  <2>2. <<>> \in Seq(S) /\ Len(<<>>) = 0
    OBVIOUS
  <2>3. Picks(<<>>, 0, list, set)
    <3> DEFINE e == [i \in 1 .. 0 |-> 0]
    <3>1. e \in [1 .. Len(<<>>) -> 1 .. 0] /\ 1 .. 0 = {}
      BY <2>2
    <3> HIDE DEF e
    <3> QED BY <2>2, <3>1 DEF Picks, Places
  <2> QED BY <2>1, <2>2, <2>3
<1>8. ASSUME NEW n \in Nat, n \in Right PROVE n + 1 \in Right
  <2> SUFFICES ASSUME n + 1 <= N PROVE kept[n + 1] \in Seq(S) /\ Picks(kept[n + 1], n + 1, list, set)
    OBVIOUS
  <2>1. kept[n] \in Seq(S) /\ Picks(kept[n], n, list, set)
    BY <1>0, <1>8
  <2>2. kept[n + 1] = kept[n] \o (IF list[n + 1] \in set THEN <<list[n + 1]>> ELSE <<>>)
    <3>1. n + 1 \in 0 .. N /\ n + 1 # 0 /\ (n + 1) - 1 = n
      BY <1>0
    <3> HIDE DEF Right
    <3> QED BY <1>6, <3>1
  <2> HIDE DEF Right
  <2> QED BY <2>1, <2>2, PicksOneMore DEF N
<1>9. Nat \subseteq Right
  <2> HIDE DEF Right
  <2> QED BY <1>7, <1>8, Induction
<1>10. kept[N] \in Seq(S) /\ Picks(kept[N], N, list, set)
  BY <1>0, <1>9
<1> QED BY <1>5, <1>10 DEF N

\* Nothing else is kept, nothing twice that is not there twice, and everything if all is wanted.
KeptIs(r, S, list, set) ==
  /\ r \in Seq(S)
  /\ {r[i] : i \in DOMAIN r} = {list[k] : k \in DOMAIN list} \cap set
  /\ \A i, j \in DOMAIN r : i # j =>
       \E k, l \in DOMAIN list : k # l /\ r[i] = list[k] /\ r[j] = list[l]
  /\ (\A k \in DOMAIN list : list[k] \in set) => r = list

LEMMA KeepHas ==
  ASSUME NEW S, NEW list \in Seq(S), NEW set
  PROVE  KeptIs(Keep(list, set), S, list, set)
<1> DEFINE r == Keep(list, set)
           m == Len(r)
           n == Len(list)
<1>1. r \in Seq(S) /\ Picks(r, n, list, set)
  BY KeepIs
<1> HIDE DEF r
<1>2. m \in Nat /\ n \in Nat /\ DOMAIN r = 1 .. m /\ DOMAIN list = 1 .. n
  BY <1>1
<1>3. PICK e \in [1 .. m -> 1 .. n] :
        /\ \A i, j \in 1 .. m : i < j => e[i] < e[j]
        /\ \A i \in 1 .. m : r[i] = list[e[i]] /\ r[i] \in set
        /\ \A k \in 1 .. n : list[k] \in set => \E i \in 1 .. m : e[i] = k
        /\ (\A k \in 1 .. n : list[k] \in set) => m = n /\ \A i \in 1 .. n : e[i] = i
  BY <1>1 DEF Picks, Places
<1> HIDE DEF m, n
<1>4. {r[i] : i \in DOMAIN r} = {list[k] : k \in DOMAIN list} \cap set
  <2>1. \A i \in 1 .. m : e[i] \in 1 .. n /\ r[i] = list[e[i]] /\ r[i] \in set
    BY <1>3
  <2>2. \A k \in 1 .. n : list[k] \in set => \E i \in 1 .. m : r[i] = list[k]
    BY <1>3
  <2>3. {r[i] : i \in 1 .. m} = {list[k] : k \in 1 .. n} \cap set
    <3>1. ASSUME NEW i \in 1 .. m PROVE r[i] \in {list[k] : k \in 1 .. n} \cap set
      BY <2>1
    <3>2. ASSUME NEW k \in 1 .. n, list[k] \in set PROVE list[k] \in {r[i] : i \in 1 .. m}
      BY <2>2, <3>2
    <3> QED BY <3>1, <3>2
  <2> QED BY <1>2, <2>3
<1>5. ASSUME NEW i \in DOMAIN r, NEW j \in DOMAIN r, i # j
      PROVE  \E k, l \in DOMAIN list : k # l /\ r[i] = list[k] /\ r[j] = list[l]
  <2>1. i \in 1 .. m /\ j \in 1 .. m /\ (i < j \/ j < i)
    BY <1>2, <1>5
  <2>2. e[i] \in 1 .. n /\ e[j] \in 1 .. n /\ e[i] # e[j]
    <3>1. e[i] < e[j] \/ e[j] < e[i]
      BY <1>3, <2>1
    <3>2. e[i] \in 1 .. n /\ e[j] \in 1 .. n
      BY <2>1
    <3> QED BY <1>2, <3>1, <3>2
  <2> QED BY <1>2, <1>3, <2>1, <2>2
<1>6. ASSUME \A k \in DOMAIN list : list[k] \in set PROVE r = list
  <2>1. m = n /\ \A i \in 1 .. n : e[i] = i
    BY <1>2, <1>3, <1>6
  <2>2. \A i \in 1 .. n : r[i] = list[i]
    BY <1>3, <2>1
  <2> QED BY <1>1, <1>2, <2>1, <2>2, SeqEqual DEF m, n
<1> QED BY <1>1, <1>4, <1>5, <1>6 DEF r, KeptIs

--------------------------------------------------------------------------------
(* The merge of a result: its history. *)

\* A state, what comes before it in the order of u and what comes after it in the
\* reverse order of r: each is related to the next one.
Path(R, u, s, r) ==
  /\ \A k \in 1 .. Len(u) - 1 : <<u[k], u[k + 1]>> \in R
  /\ Len(u) > 0 => <<u[Len(u)], s>> \in R
  /\ Len(r) > 0 => <<s, r[Len(r)]>> \in R
  /\ \A k \in 1 .. Len(r) - 1 : <<r[k + 1], r[k]>> \in R

LEMMA ChosenPath ==
  ASSUME NEW C, NEW R, NEW u \in Seq(C), NEW s \in C, NEW r, NEW t \in C,
         Path(R, u, s, r), <<s, t>> \in R
  PROVE  /\ Append(u, s) \in Seq(C) /\ Tail(Append(u, s)) \in Seq(C)
         /\ Path(R, Append(u, s), t, <<>>) /\ Path(R, Tail(Append(u, s)), t, <<>>)
<1> DEFINE a == Append(u, s)
           b == Tail(a)
<1>1. a \in Seq(C) /\ Len(a) = Len(u) + 1 /\ a[Len(u) + 1] = s
      /\ \A k \in 1 .. Len(u) : a[k] = u[k]
  OBVIOUS
<1>3. Len(u) \in Nat
  OBVIOUS
<1>2. b \in Seq(C) /\ Len(b) = Len(u) /\ \A k \in 1 .. Len(u) : b[k] = a[k + 1]
  <2> HIDE DEF a
  <2>1. a # <<>>
    BY <1>1, <1>3
  <2>2. b \in Seq(C) /\ Len(b) = Len(a) - 1 /\ \A k \in 1 .. Len(b) : b[k] = a[k + 1]
    BY <1>1, <2>1, HeadTailProperties
  <2> HIDE DEF b
  <2> QED BY <1>1, <1>3, <2>2
<1> HIDE DEF a, b
<1>4. \A k \in 1 .. Len(a) - 1 : <<a[k], a[k + 1]>> \in R
  <2> SUFFICES ASSUME NEW k \in 1 .. Len(a) - 1 PROVE <<a[k], a[k + 1]>> \in R
    OBVIOUS
  <2>1. CASE k < Len(u)
    <3>1. k \in 1 .. Len(u) - 1 /\ k + 1 \in 1 .. Len(u) /\ k \in 1 .. Len(u)
      BY <1>1, <1>3, <2>1
    <3> QED BY <3>1, <1>1 DEF Path
  <2>2. CASE k = Len(u)
    <3>1. Len(u) > 0 /\ k \in 1 .. Len(u)
      BY <2>2
    <3> QED BY <3>1, <2>2, <1>1 DEF Path
  <2> QED BY <1>1, <1>3, <2>1, <2>2
<1>5. <<a[Len(a)], t>> \in R
  BY <1>1
<1>6. Path(R, a, t, <<>>)
  BY <1>4, <1>5 DEF Path
<1>7. \A k \in 1 .. Len(b) - 1 : <<b[k], b[k + 1]>> \in R
  <2> SUFFICES ASSUME NEW k \in 1 .. Len(b) - 1 PROVE <<b[k], b[k + 1]>> \in R
    OBVIOUS
  <2>1. k \in 1 .. Len(u) /\ k + 1 \in 1 .. Len(u) /\ k + 1 \in 1 .. Len(a) - 1
    BY <1>1, <1>2, <1>3
  <2>2. b[k] = a[k + 1] /\ b[k + 1] = a[(k + 1) + 1]
    BY <1>2, <2>1
  <2> QED BY <2>1, <2>2, <1>4
<1>8. Len(b) > 0 => <<b[Len(b)], t>> \in R
  BY <1>1, <1>2, <1>3, <1>5
<1>9. Path(R, b, t, <<>>)
  BY <1>7, <1>8 DEF Path
<1> QED BY <1>1, <1>2, <1>6, <1>9 DEF a, b

\* One step back, and by symmetry one step on again.
LEMMA UndonePath ==
  ASSUME NEW C, NEW R, NEW u \in Seq(C), NEW s \in C, NEW r \in Seq(C), Len(u) > 0,
         Path(R, u, s, r)
  PROVE  /\ Merge!Front(u) \in Seq(C) /\ Merge!Last(u) \in C /\ Append(r, s) \in Seq(C)
         /\ Path(R, Merge!Front(u), Merge!Last(u), Append(r, s))
<1> DEFINE f == SubSeq(u, 1, Len(u) - 1)
           l == u[Len(u)]
           a == Append(r, s)
<1>1. f \in Seq(C) /\ Len(f) = Len(u) - 1 /\ \A k \in 1 .. Len(u) - 1 : f[k] = u[k]
  <2>1. Len(u) - 1 \in 0 .. Len(u)
    OBVIOUS
  <2> QED BY <2>1, BeginningIsSeq
<1>2. l \in C
  OBVIOUS
<1>3. a \in Seq(C) /\ Len(a) = Len(r) + 1 /\ a[Len(r) + 1] = s
      /\ \A k \in 1 .. Len(r) : a[k] = r[k]
  OBVIOUS
<1>4. Len(u) \in Nat /\ Len(r) \in Nat /\ <<l, s>> \in R
  BY DEF Path
<1>5. Merge!Front(u) = f /\ Merge!Last(u) = l
  BY DEF Merge!Front, Merge!Last
<1>6. Len(f) > 0 => <<f[Len(f)], l>> \in R
  <2> SUFFICES ASSUME Len(f) > 0 PROVE <<f[Len(f)], l>> \in R
    OBVIOUS
  <2> DEFINE k == Len(u) - 1
  <2>1. k \in 1 .. Len(u) - 1 /\ k + 1 = Len(u) /\ Len(f) = k
    BY <1>1, <1>4
  <2>2. <<u[k], u[k + 1]>> \in R
    <3> HIDE DEF k
    <3> QED BY <2>1 DEF Path
  <2> QED BY <1>1, <2>1, <2>2
<1> HIDE DEF f, l, a
<1>7. \A k \in 1 .. Len(f) - 1 : <<f[k], f[k + 1]>> \in R
  <2> SUFFICES ASSUME NEW k \in 1 .. Len(f) - 1 PROVE <<f[k], f[k + 1]>> \in R
    OBVIOUS
  <2>1. k \in 1 .. Len(u) - 1 /\ k + 1 \in 1 .. Len(u) - 1
    BY <1>1, <1>4
  <2> QED BY <1>1, <2>1 DEF Path
<1>8. \A k \in 1 .. Len(a) - 1 : <<a[k + 1], a[k]>> \in R
  <2> SUFFICES ASSUME NEW k \in 1 .. Len(a) - 1 PROVE <<a[k + 1], a[k]>> \in R
    OBVIOUS
  <2>1. CASE k < Len(r)
    <3>1. k \in 1 .. Len(r) - 1 /\ k + 1 \in 1 .. Len(r) /\ k \in 1 .. Len(r)
      BY <1>3, <1>4, <2>1
    <3> QED BY <3>1, <1>3 DEF Path
  <2>2. CASE k = Len(r)
    <3>1. Len(r) > 0 /\ k \in 1 .. Len(r)
      BY <2>2
    <3> QED BY <3>1, <2>2, <1>3 DEF Path
  <2> QED BY <1>3, <1>4, <2>1, <2>2
<1>9. Len(a) > 0 => <<l, a[Len(a)]>> \in R
  BY <1>3, <1>4
<1>10. Path(R, f, l, a)
  BY <1>6, <1>7, <1>8, <1>9 DEF Path
<1> QED BY <1>1, <1>2, <1>3, <1>5, <1>10 DEF a

LEMMA RedonePath ==
  ASSUME NEW C, NEW R, NEW u \in Seq(C), NEW s \in C, NEW r \in Seq(C), Len(r) > 0,
         Path(R, u, s, r)
  PROVE  /\ Merge!Front(r) \in Seq(C) /\ Merge!Last(r) \in C /\ Append(u, s) \in Seq(C)
         /\ Path(R, Append(u, s), Merge!Last(r), Merge!Front(r))
<1> DEFINE Back == {p \in (C \X C) : <<p[2], p[1]>> \in R}
<1>1. \A x \in C, y \in C : <<x, y>> \in Back <=> <<y, x>> \in R
  OBVIOUS
<1> HIDE DEF Back
<1>2. \A v \in Seq(C), x \in C, w \in Seq(C) : Path(Back, w, x, v) <=> Path(R, v, x, w)
  <2> SUFFICES ASSUME NEW v \in Seq(C), NEW x \in C, NEW w \in Seq(C)
               PROVE  Path(Back, w, x, v) <=> Path(R, v, x, w)
    OBVIOUS
  <2>1. \A k \in 1 .. Len(v) - 1 : v[k] \in C /\ v[k + 1] \in C
    OBVIOUS
  <2>2. \A k \in 1 .. Len(w) - 1 : w[k] \in C /\ w[k + 1] \in C
    OBVIOUS
  <2>3. (Len(v) > 0 => v[Len(v)] \in C) /\ (Len(w) > 0 => w[Len(w)] \in C)
    OBVIOUS
  <2> QED BY <1>1, <2>1, <2>2, <2>3 DEF Path
<1>3. Path(Back, r, s, u)
  BY <1>2
<1>4. /\ Merge!Front(r) \in Seq(C) /\ Merge!Last(r) \in C /\ Append(u, s) \in Seq(C)
      /\ Path(Back, Merge!Front(r), Merge!Last(r), Append(u, s))
  BY <1>3, UndonePath
<1> QED BY <1>2, <1>4

\* The whole of it, in order.
LEMMA PathInOrder ==
  ASSUME NEW C, NEW R, NEW u \in Seq(C), NEW s \in C, NEW r \in Seq(C), Path(R, u, s, r)
  PROVE  LET t == u \o <<s>> \o Merge!Reverse(r)
         IN  \A k \in DOMAIN t \ {1} : <<t[k - 1], t[k]>> \in R
<1> DEFINE v == Merge!Reverse(r)
           a == u \o <<s>>
           t == a \o v
           m == Len(u)
           n == Len(r)
<1>1. v \in Seq(C) /\ Len(v) = n /\ \A i \in 1 .. n : v[i] = r[(n - i) + 1]
  BY DEF Merge!Reverse
<1>2. a \in Seq(C) /\ Len(a) = m + 1 /\ a[m + 1] = s /\ \A k \in 1 .. m : a[k] = u[k]
  OBVIOUS
<1>3. m \in Nat /\ n \in Nat
  OBVIOUS
<1> HIDE DEF v, a
<1>4. t \in Seq(C) /\ Len(t) = m + 1 + n
      /\ (\A k \in 1 .. m + 1 : t[k] = a[k]) /\ \A k \in 1 .. n : t[m + 1 + k] = v[k]
  <2>1. t \in Seq(C) /\ Len(t) = Len(a) + Len(v)
        /\ \A i \in 1 .. Len(a) + Len(v) : t[i] = IF i <= Len(a) THEN a[i] ELSE v[i - Len(a)]
    <3>1. a \in Seq(C) /\ v \in Seq(C)
      BY <1>1, <1>2
    <3> QED BY <3>1, ConcatProperties, Zenon
  <2> HIDE DEF t, m, n
  <2>2. \A k \in 1 .. m + 1 : k \in 1 .. Len(a) + Len(v) /\ k <= Len(a)
    BY <1>1, <1>2, <1>3
  <2>3. \A k \in 1 .. n : /\ m + 1 + k \in 1 .. Len(a) + Len(v) /\ ~(m + 1 + k <= Len(a))
                          /\ (m + 1 + k) - Len(a) = k
    BY <1>1, <1>2, <1>3
  <2> QED BY <1>1, <1>2, <2>1, <2>2, <2>3
<1>5. DOMAIN t = 1 .. m + 1 + n
  BY <1>4
<1> HIDE DEF t, m, n
<1>6. ASSUME NEW k \in 2 .. m + 1 + n PROVE <<t[k - 1], t[k]>> \in R
  <2>1. CASE k <= m
    <3>1. k - 1 \in 1 .. m - 1 /\ (k - 1) + 1 = k /\ k \in 1 .. m /\ k - 1 \in 1 .. m
          /\ k \in 1 .. m + 1 /\ k - 1 \in 1 .. m + 1
      BY <1>3, <2>1
    <3>2. <<u[k - 1], u[(k - 1) + 1]>> \in R
      BY <3>1 DEF Path, m
    <3> QED BY <3>1, <3>2, <1>2, <1>4
  <2>2. CASE k = m + 1
    <3>1. m > 0 /\ k - 1 = m /\ m \in 1 .. m /\ m \in 1 .. m + 1 /\ m + 1 \in 1 .. m + 1
      BY <1>3, <2>2
    <3>2. <<u[m], s>> \in R
      BY <3>1 DEF Path, m
    <3> QED BY <2>2, <3>1, <3>2, <1>2, <1>4
  <2>3. CASE k = m + 2
    <3>1. n > 0 /\ k - 1 = m + 1 /\ m + 1 \in 1 .. m + 1 /\ 1 \in 1 .. n /\ k = m + 1 + 1
      BY <1>3, <2>3
    <3>2. <<s, r[n]>> \in R
      BY <3>1 DEF Path, n
    <3>3. t[k] = r[(n - 1) + 1] /\ t[k - 1] = s /\ (n - 1) + 1 = n
      BY <3>1, <1>1, <1>2, <1>3, <1>4
    <3> QED BY <3>2, <3>3
  <2>4. CASE k > m + 2
    <3> DEFINE i == k - m - 1
               j == n - i + 1
    <3>1. i \in 2 .. n /\ k = m + 1 + i /\ k - 1 = m + 1 + (i - 1) /\ i - 1 \in 1 .. n
          /\ i \in 1 .. n
      BY <1>3, <2>4
    <3> HIDE DEF i
    <3>2. j \in 1 .. n - 1 /\ (n - i) + 1 = j /\ (n - (i - 1)) + 1 = j + 1
      BY <1>3, <3>1
    <3> HIDE DEF j
    <3>3. <<r[j + 1], r[j]>> \in R
      BY <3>2 DEF Path, n
    <3>4. t[k] = r[j]
      <4>1. t[m + 1 + i] = v[i]
        BY <3>1, <1>4
      <4>2. v[i] = r[(n - i) + 1]
        BY <3>1, <1>1
      <4> QED BY <3>1, <3>2, <4>1, <4>2
    <3>5. t[k - 1] = r[j + 1]
      <4>1. PICK q \in 1 .. n : q = i - 1
        BY <3>1
      <4>2. t[m + 1 + q] = v[q]
        BY <1>4
      <4>3. v[q] = r[(n - q) + 1]
        BY <1>1
      <4> QED BY <3>1, <3>2, <4>1, <4>2, <4>3
    <3> QED BY <3>3, <3>4, <3>5
  <2> QED BY <1>3, <2>1, <2>2, <2>3, <2>4
<1>7. \A k \in DOMAIN t \ {1} : k \in 2 .. m + 1 + n
  BY <1>3, <1>5
<1>8. \A k \in DOMAIN t \ {1} : <<t[k - 1], t[k]>> \in R
  BY <1>6, <1>7
<1> QED BY <1>8 DEF t, a, v

--------------------------------------------------------------------------------
(* The merge of a result. *)

MergeChoices == [Merge!Events -> SUBSET {"base", "left", "right"}]

\* Those that differ in one event, or in what "All ..." sets.
Alternatives ==
  {p \in MergeChoices \X MergeChoices :
     \/ Merge!Cardinality({e \in Merge!Events : p[1][e] # p[2][e]}) <= 1
     \/ \E s \in Merge!Sides : \A e \in Merge!Units : p[2][e] = {s}}

MergeHistory ==
  /\ kind \in {"threeway", "csv"}
  /\ sel \in MergeChoices /\ undo \in Seq(MergeChoices) /\ redo \in Seq(MergeChoices)
  /\ Path(Alternatives, undo, sel, redo)

\* The panes are those of the present choices.
MergeDrawn ==
  kind = "threeway" =>
    drawn = [e \in Merge!Events |->
               [choice |-> sel[e], shows |-> Merge!resultLines(e, sel[e])]]

\* What is edited is a line of the preview.
EditorFits ==
  /\ preview = Merge!none \/ preview = [lines |-> preview.lines]
  /\ editor = Merge!none
     \/ /\ editor = [key |-> editor.key, value |-> editor.value, before |-> editor.before]
        /\ preview # Merge!none /\ editor.key \in DOMAIN preview.lines

\* The last preview asked for is the one of the choices, or will be asked for again.
PreviewAsked ==
  /\ mergeToken \in Nat
  /\ \A r \in mergeRequests :
       /\ r.token \in Nat /\ r.token <= mergeToken
       /\ r.token = mergeToken /\ mergeOpen /\ ~timer => r.choices = sel
  /\ mergeOpen => kind = "threeway"

PreviewAnswered == mergeOpen /\ ~timer /\ ~mergeFailed /\ \A r \in mergeRequests : r.token # mergeToken
PreviewFits ==
  PreviewAnswered =>
    /\ preview # Merge!none /\ DOMAIN manual \subseteq DOMAIN preview.lines
    /\ DOMAIN preview.lines = Merge!Lines(sel)

MergeInv == MergeHistory /\ MergeDrawn /\ EditorFits /\ PreviewAsked /\ PreviewFits

\* What the pane of an event shows.
LEMMA DrawIs ==
  ASSUME kind = "threeway", NEW e, NEW c
  PROVE  Merge!Draw(e, c) = [choice |-> c[e], shows |-> Merge!resultLines(e, c[e])]
<1> DEFINE res == Merge!resultLines(e, c[e])
           p == Merge!panes(e, c[e], FALSE)
           at == CHOOSE k \in DOMAIN p : p[k].role = "result"
<1>1. p = <<>> \o <<[role |-> "left", shows |-> "left"], [role |-> "result", shows |-> res],
                    [role |-> "right", shows |-> "right"]>>
  BY DEF Merge!panes
<1> HIDE DEF res, p
<1>2. p = <<[role |-> "left", shows |-> "left"], [role |-> "result", shows |-> res],
            [role |-> "right", shows |-> "right"]>>
  BY <1>1
<1>3. DOMAIN p = {1, 2, 3} /\ p[1].role = "left" /\ p[2].role = "result" /\ p[3].role = "right"
      /\ p[2].shows = res
  BY <1>2
<1>4. at = 2
  BY <1>3
<1>5. Merge!Draw(e, c) = [choice |-> c[e], shows |-> p[at].shows]
  BY DEF Merge!Draw, p
<1> HIDE DEF at
<1> QED BY <1>3, <1>4, <1>5 DEF res

\* The editor is closed: the preview has its lines as before, and what is typed is of them.
LEMMA ClosedPanel ==
  ASSUME EditorFits, NEW how \in {"commit", "revert"}
  PROVE  LET N == Merge!closeMergeLineEditor(Merge!Panel, how)
         IN  /\ N = [preview |-> N.preview, manual |-> N.manual, editor |-> Merge!none]
             /\ N.preview = Merge!none \/ N.preview = [lines |-> N.preview.lines]
             /\ preview # Merge!none =>
                  /\ N.preview # Merge!none /\ DOMAIN N.preview.lines = DOMAIN preview.lines
                  /\ DOMAIN manual \subseteq DOMAIN preview.lines =>
                       DOMAIN N.manual \subseteq DOMAIN preview.lines
<1> DEFINE P == Merge!Panel
           N == Merge!closeMergeLineEditor(P, how)
<1>1. P = [preview |-> preview, manual |-> manual, editor |-> editor]
  BY DEF Merge!Panel
<1>2. P.preview = preview /\ P.manual = manual /\ P.editor = editor
  BY DEF Merge!Panel
<1> HIDE DEF P
<1>3. CASE editor = Merge!none
  <2>1. N = P
    BY <1>2, <1>3 DEF Merge!closeMergeLineEditor
  <2> QED BY <1>1, <1>2, <1>3, <2>1 DEF EditorFits, P
<1>4. CASE editor # Merge!none
  <2>1. preview # Merge!none /\ editor.key \in DOMAIN preview.lines
        /\ preview = [lines |-> preview.lines]
    BY <1>4 DEF EditorFits
  <2> DEFINE K == editor.key
             L == preview.lines
             v == IF how = "commit" /\ editor.value # editor.before.text
                  THEN [text |-> editor.value, origin |-> "manual"] ELSE editor.before
             shown == [preview EXCEPT !.lines[K] = v]
  <2>2. \E m : /\ N = [preview |-> shown, manual |-> m, editor |-> Merge!none]
               /\ m = manual \/ m = Merge!Drop(manual, {K}) \/ \E x : m = Merge!Set(manual, K, x)
    BY <1>2, <1>4, <2>1 DEF Merge!closeMergeLineEditor
  <2> HIDE DEF v, N
  <2>3. shown = [lines |-> [L EXCEPT ![K] = v]]
    BY <2>1
  <2> HIDE DEF shown
  <2>4. PICK m : /\ N = [preview |-> shown, manual |-> m, editor |-> Merge!none]
                 /\ m = manual \/ m = Merge!Drop(manual, {K}) \/ \E x : m = Merge!Set(manual, K, x)
    BY <2>2
  <2>5. N.preview = shown /\ N.manual = m /\ N = [preview |-> N.preview, manual |-> N.manual,
                                                  editor |-> Merge!none]
    BY <2>4
  <2>6. shown.lines = [L EXCEPT ![K] = v] /\ shown # Merge!none /\ shown = [lines |-> shown.lines]
    BY <2>3 DEF Merge!none
  <2>7. DOMAIN shown.lines = DOMAIN L /\ DOMAIN m \subseteq DOMAIN manual \cup {K}
    BY <2>4, <2>6 DEF Merge!Set, Merge!Drop
  <2>8. /\ N = [preview |-> N.preview, manual |-> N.manual, editor |-> Merge!none]
        /\ N.preview = [lines |-> N.preview.lines]
        /\ N.preview # Merge!none /\ DOMAIN N.preview.lines = DOMAIN preview.lines
        /\ DOMAIN manual \subseteq DOMAIN preview.lines => DOMAIN N.manual \subseteq DOMAIN preview.lines
    BY <2>1, <2>5, <2>6, <2>7
  <2> QED BY <2>8 DEF N, P
<1> QED BY <1>3, <1>4

LEMMA EditorClosed ==
  ASSUME EditorFits, NEW how \in {"commit", "revert"},
         Merge!Shows(Merge!closeMergeLineEditor(Merge!Panel, how))
  PROVE  /\ EditorFits' /\ editor' = Merge!none
         /\ preview # Merge!none =>
              /\ preview' # Merge!none /\ DOMAIN preview'.lines = DOMAIN preview.lines
              /\ DOMAIN manual \subseteq DOMAIN preview.lines =>
                   DOMAIN manual' \subseteq DOMAIN preview.lines
<1> DEFINE N == Merge!closeMergeLineEditor(Merge!Panel, how)
<1>1. /\ N = [preview |-> N.preview, manual |-> N.manual, editor |-> Merge!none]
      /\ N.preview = Merge!none \/ N.preview = [lines |-> N.preview.lines]
      /\ preview # Merge!none =>
           /\ N.preview # Merge!none /\ DOMAIN N.preview.lines = DOMAIN preview.lines
           /\ DOMAIN manual \subseteq DOMAIN preview.lines =>
                DOMAIN N.manual \subseteq DOMAIN preview.lines
  BY ClosedPanel
<1>2. Merge!Shows(N)
  OBVIOUS
<1> HIDE DEF N
<1>3. preview' = N.preview /\ manual' = N.manual /\ editor' = Merge!none
  BY <1>1, <1>2 DEF Merge!Shows
<1> QED BY <1>1, <1>3 DEF EditorFits

LEMMA MergeInit == Merge!Init => MergeInv
<1> SUFFICES ASSUME Merge!Init PROVE MergeInv
  OBVIOUS
<1> DEFINE c == [e \in Merge!Events |-> {}]
<1>1. /\ kind \in {"threeway", "csv"} /\ sel = c /\ undo = <<>> /\ redo = <<>>
      /\ drawn = [e \in Merge!Events |-> Merge!Draw(e, sel)]
      /\ ~mergeOpen /\ mergeToken = 0 /\ mergeRequests = {}
      /\ preview = Merge!none /\ editor = Merge!none
  BY DEF Merge!Init
<1>2. c \in MergeChoices
  BY DEF MergeChoices
<1> HIDE DEF c
<1>3. <<>> \in Seq(MergeChoices) /\ Path(Alternatives, <<>>, c, <<>>)
  BY DEF Path
<1>4. MergeHistory
  BY <1>1, <1>2, <1>3 DEF MergeHistory
<1>5. MergeDrawn
  BY <1>1, DrawIs DEF MergeDrawn
<1> QED BY <1>1, <1>4, <1>5 DEF MergeInv, EditorFits, PreviewAsked, PreviewFits, PreviewAnswered

\* The choices change: the panes are drawn again and the preview will be asked for.
LEMMA AfterChoice ==
  ASSUME MergeInv, NEW c \in MergeChoices, sel' = c, Merge!updateMergeUI(c),
         Merge!Shows(Merge!Blurred), UNCHANGED <<kind, mergeOpen, mergeToken, mergeRequests>>,
         undo' \in Seq(MergeChoices), redo' \in Seq(MergeChoices),
         Path(Alternatives, undo', c, redo')
  PROVE  MergeInv'
<1>1. Alternatives' = Alternatives
  BY DEF Alternatives, Merge!Units, Merge!Sides, Merge!order
<1>2. MergeHistory'
  BY <1>1 DEF MergeInv, MergeHistory
<1>3. MergeDrawn'
  <2> SUFFICES ASSUME kind = "threeway"
               PROVE  drawn' = [e \in Merge!Events |->
                                  [choice |-> c[e], shows |-> Merge!resultLines(e, c[e])]]
    BY DEF MergeDrawn
  <2>1. drawn' = [e \in Merge!Events |->
                    IF drawn[e].choice = c[e] THEN drawn[e] ELSE Merge!Draw(e, c)]
    BY DEF Merge!updateMergeUI
  <2>2. ASSUME NEW e \in Merge!Events
        PROVE  (IF drawn[e].choice = c[e] THEN drawn[e] ELSE Merge!Draw(e, c))
               = [choice |-> c[e], shows |-> Merge!resultLines(e, c[e])]
    <3>1. drawn[e] = [choice |-> sel[e], shows |-> Merge!resultLines(e, sel[e])]
      BY DEF MergeInv, MergeDrawn
    <3>2. drawn[e].choice = sel[e]
      BY <3>1
    <3>3. CASE sel[e] = c[e]
      BY <3>1, <3>2, <3>3
    <3>4. CASE sel[e] # c[e]
      BY <3>2, <3>4, DrawIs
    <3> QED BY <3>3, <3>4
  <2> QED BY <2>1, <2>2
<1>4. EditorFits'
  BY EditorClosed DEF MergeInv, Merge!Blurred
<1>5. mergeOpen => timer'
  BY DEF MergeInv, PreviewAsked, Merge!updateMergeUI
<1>6. PreviewAsked' /\ PreviewFits'
  BY <1>5 DEF MergeInv, PreviewAsked, PreviewFits, PreviewAnswered
<1> QED BY <1>2, <1>3, <1>4, <1>6 DEF MergeInv

\* The choices stay: what was drawn and their history stay.
LEMMA ChoicesStay ==
  ASSUME MergeInv, UNCHANGED <<kind, sel, undo, redo, drawn>>
  PROVE  MergeHistory' /\ MergeDrawn' /\ Merge!Lines(sel') = Merge!Lines(sel)
<1>1. Alternatives' = Alternatives
  BY DEF Alternatives, Merge!Units, Merge!Sides, Merge!order
<1> QED BY <1>1 DEF MergeInv, MergeHistory, MergeDrawn

\* Only the editor closes.
LEMMA AfterClosing ==
  ASSUME MergeInv, NEW how \in {"commit", "revert"},
         Merge!Shows(Merge!closeMergeLineEditor(Merge!Panel, how)),
         UNCHANGED <<kind, sel, undo, redo, drawn>>,
         UNCHANGED <<mergeOpen, timer, mergeToken, mergeRequests, mergeFailed>>
  PROVE  MergeInv'
<1>1. MergeHistory' /\ MergeDrawn' /\ Merge!Lines(sel') = Merge!Lines(sel)
  BY ChoicesStay
<1>2. EditorFits /\ PreviewFits
  BY DEF MergeInv
<1>3. /\ EditorFits'
      /\ preview # Merge!none =>
           /\ preview' # Merge!none /\ DOMAIN preview'.lines = DOMAIN preview.lines
           /\ DOMAIN manual \subseteq DOMAIN preview.lines =>
                DOMAIN manual' \subseteq DOMAIN preview.lines
  BY <1>2, EditorClosed
<1>4. PreviewAsked'
  BY DEF MergeInv, PreviewAsked
<1>5. PreviewAnswered' <=> PreviewAnswered
  BY DEF PreviewAnswered
<1>6. PreviewFits'
  BY <1>1, <1>2, <1>3, <1>5 DEF PreviewFits
<1> QED BY <1>1, <1>3, <1>4, <1>6 DEF MergeInv

\* One event is decided otherwise.
LEMMA OneEventDiffers ==
  ASSUME NEW c \in MergeChoices, NEW d \in MergeChoices, NEW e,
         \A x \in Merge!Events : x # e => c[x] = d[x]
  PROVE  <<c, d>> \in Alternatives
<1> DEFINE D == {x \in Merge!Events : c[x] # d[x]}
<1>1. IsFiniteSet({e}) /\ Cardinality({e}) = 1 /\ D \subseteq {e}
  BY FS_Singleton
<1>2. Cardinality(D) <= 1
  <2> HIDE DEF D
  <2> QED BY <1>1, FS_Subset
<1>3. Merge!Cardinality(D) = Cardinality(D)
  BY DEF Merge!Cardinality, Cardinality
<1>4. <<c, d>> \in MergeChoices \X MergeChoices /\ <<c, d>>[1] = c /\ <<c, d>>[2] = d
  OBVIOUS
<1> QED BY <1>2, <1>3, <1>4 DEF Alternatives

\* A choice is made: it follows the present one, and there is nothing to do again.
LEMMA AfterMutate ==
  ASSUME MergeInv, NEW c \in MergeChoices, <<sel, c>> \in Alternatives, Merge!mutateMerge(c),
         Merge!Shows(Merge!Blurred), UNCHANGED <<kind, mergeOpen, mergeToken, mergeRequests>>
  PROVE  MergeInv'
<1> DEFINE a == Append(undo, sel)
<1>1. /\ sel' = c /\ redo' = <<>> /\ Merge!updateMergeUI(c)
      /\ undo' = a \/ undo' = Tail(a)
  BY DEF Merge!mutateMerge, Merge!Limited
<1>2. /\ a \in Seq(MergeChoices) /\ Tail(a) \in Seq(MergeChoices)
      /\ Path(Alternatives, a, c, <<>>) /\ Path(Alternatives, Tail(a), c, <<>>)
  BY ChosenPath DEF MergeInv, MergeHistory
<1>3. <<>> \in Seq(MergeChoices)
  OBVIOUS
<1> HIDE DEF a
<1> QED BY <1>1, <1>2, <1>3, AfterChoice

LEMMA AfterChooseMerge ==
  ASSUME MergeInv, NEW e, NEW side \in {"base", "left", "right", "both"},
         Merge!chooseMerge(e, side), UNCHANGED <<kind, mergeOpen>>
  PROVE  MergeInv'
<1> DEFINE adopts == IF side = "both" THEN {"left", "right"}
                     ELSE IF side \in sel[e] THEN sel[e] \ {side} ELSE sel[e] \cup {side}
           c == [sel EXCEPT ![e] = adopts]
<1>1. sel \in MergeChoices
  BY DEF MergeInv, MergeHistory
<1>2. c \in MergeChoices
  BY <1>1 DEF MergeChoices
<1>3. \A x \in Merge!Events : x # e => sel[x] = c[x]
  BY <1>1 DEF MergeChoices
<1>4. /\ Merge!mutateMerge(c) /\ Merge!Shows(Merge!Blurred)
      /\ UNCHANGED <<mergeToken, mergeRequests>>
  BY DEF Merge!chooseMerge
<1> HIDE DEF c
<1>5. <<sel, c>> \in Alternatives
  BY <1>1, <1>2, <1>3, OneEventDiffers
<1> QED BY <1>2, <1>4, <1>5, AfterMutate

\* The preview and the choices stay.
LEMMA AfterPreviewRests ==
  ASSUME MergeInv, UNCHANGED <<kind, sel, undo, redo, drawn, mergeOpen, timer, mergeToken>>,
         UNCHANGED <<mergeRequests, preview, manual, editor, mergeFailed>>
  PROVE  MergeInv'
<1>1. MergeHistory' /\ MergeDrawn' /\ Merge!Lines(sel') = Merge!Lines(sel)
  BY ChoicesStay
<1>2. EditorFits' /\ PreviewAsked'
  BY DEF MergeInv, EditorFits, PreviewAsked
<1>3. PreviewFits'
  BY <1>1 DEF MergeInv, PreviewFits, PreviewAnswered
<1> QED BY <1>1, <1>2, <1>3 DEF MergeInv

LEMMA MergeNext == MergeInv /\ [Merge!Next]_(Merge!vars) => MergeInv'
<1> SUFFICES ASSUME MergeInv, [Merge!Next]_(Merge!vars) PROVE MergeInv'
  OBVIOUS
<1>0. /\ MergeHistory /\ MergeDrawn /\ EditorFits /\ PreviewAsked /\ PreviewFits
      /\ sel \in MergeChoices /\ undo \in Seq(MergeChoices) /\ redo \in Seq(MergeChoices)
      /\ Path(Alternatives, undo, sel, redo)
  BY DEF MergeInv, MergeHistory
<1>1. CASE \E e \in Merge!Events, side \in {"base", "left", "right", "both"} : Merge!Choose(e, side)
  <2>1. PICK e \in Merge!Events, side \in {"base", "left", "right", "both"} : Merge!Choose(e, side)
    BY <1>1
  <2>2. Merge!chooseMerge(e, side) /\ UNCHANGED <<kind, mergeOpen>>
    BY <2>1 DEF Merge!Choose
  <2> QED BY <2>2, AfterChooseMerge
<1>2. CASE \E side \in {"base", "left", "right", "both"} : Merge!ChooseByKey(side)
  <2>1. PICK side \in {"base", "left", "right", "both"} : Merge!ChooseByKey(side)
    BY <1>2
  <2> DEFINE e == IF mergeCurrent \in Merge!ToSet(Merge!Conflicts) THEN mergeCurrent
                  ELSE Merge!Conflicts[1]
  <2>2. Merge!chooseMerge(e, side) /\ UNCHANGED <<kind, mergeOpen>>
    BY <2>1 DEF Merge!ChooseByKey
  <2> HIDE DEF e
  <2> QED BY <2>2, AfterChooseMerge
<1>3. CASE \E side \in {"base", "left", "right", "both"} : Merge!chooseAllMerge(side)
  <2>1. PICK side \in {"base", "left", "right", "both"} : Merge!chooseAllMerge(side)
    BY <1>3
  <2> DEFINE c == [e \in Merge!Events |-> IF e \in Merge!Units THEN {side} ELSE sel[e]]
  <2>2. /\ side \in Merge!Sides /\ Merge!mutateMerge(c) /\ Merge!Shows(Merge!Blurred)
        /\ UNCHANGED <<kind, mergeOpen, mergeToken, mergeRequests>>
    BY <2>1 DEF Merge!chooseAllMerge
  <2>3. c \in MergeChoices
    <3>1. Merge!Sides \subseteq {"base", "left", "right"}
      BY DEF Merge!Sides, Merge!order, Merge!ToSet
    <3>2. side \in {"base", "left", "right"}
      BY <2>2, <3>1
    <3> QED BY <1>0, <3>2 DEF MergeChoices
  <2>4. \A e \in Merge!Units : c[e] = {side}
    BY DEF Merge!Units
  <2> HIDE DEF c
  <2>5. <<sel, c>> \in MergeChoices \X MergeChoices /\ <<sel, c>>[2] = c
    BY <1>0, <2>3
  <2>6. <<sel, c>> \in Alternatives
    BY <2>2, <2>4, <2>5 DEF Alternatives
  <2> QED BY <2>2, <2>3, <2>6, AfterMutate
<1>4. CASE Merge!undoMerge
  <2> DEFINE u == Merge!Front(undo)
             c == Merge!Last(undo)
             r == Append(redo, sel)
  <2>1. /\ undo # <<>> /\ undo' = u /\ sel' = c /\ redo' = r /\ Merge!updateMergeUI(sel')
        /\ Merge!Shows(Merge!Blurred)
        /\ UNCHANGED <<kind, mergeOpen, mergeToken, mergeRequests>>
    BY <1>4 DEF Merge!undoMerge
  <2>2. Len(undo) > 0
    BY <1>0, <2>1
  <2>3. /\ u \in Seq(MergeChoices) /\ c \in MergeChoices /\ r \in Seq(MergeChoices)
        /\ Path(Alternatives, u, c, r)
    BY <1>0, <2>2, UndonePath
  <2> HIDE DEF u, c, r
  <2>4. Merge!updateMergeUI(c)
    BY <2>1
  <2> QED BY <2>1, <2>3, <2>4, AfterChoice
<1>5. CASE Merge!redoMerge
  <2> DEFINE u == Append(undo, sel)
             c == Merge!Last(redo)
             r == Merge!Front(redo)
  <2>1. /\ redo # <<>> /\ undo' = u /\ sel' = c /\ redo' = r /\ Merge!updateMergeUI(sel')
        /\ Merge!Shows(Merge!Blurred)
        /\ UNCHANGED <<kind, mergeOpen, mergeToken, mergeRequests>>
    BY <1>5 DEF Merge!redoMerge
  <2>2. Len(redo) > 0
    BY <1>0, <2>1
  <2>3. /\ u \in Seq(MergeChoices) /\ c \in MergeChoices /\ r \in Seq(MergeChoices)
        /\ Path(Alternatives, u, c, r)
    BY <1>0, <2>2, RedonePath
  <2> HIDE DEF u, c, r
  <2>4. Merge!updateMergeUI(c)
    BY <2>1
  <2> QED BY <2>1, <2>3, <2>4, AfterChoice
<1>6. CASE Merge!setMergeAutoAdvance
  BY <1>6, AfterClosing DEF Merge!setMergeAutoAdvance, Merge!Blurred, Merge!choosing
<1>7. CASE Merge!TogglePanel
  <2> DEFINE q == [token |-> mergeToken + 1, choices |-> sel, manual |-> manual']
  <2>1. /\ kind = "threeway" /\ mergeOpen' = ~mergeOpen
        /\ Merge!Shows(Merge!closeMergeLineEditor(Merge!Panel, "commit"))
        /\ IF mergeOpen' THEN mergeToken' = mergeToken + 1
                              /\ mergeRequests' = mergeRequests \cup {q}
           ELSE UNCHANGED <<mergeToken, mergeRequests>>
        /\ UNCHANGED <<kind, sel, undo, redo, drawn, timer, mergeFailed>>
    BY <1>7 DEF Merge!TogglePanel, Merge!Blurred, Merge!choosing
  <2>2. MergeHistory' /\ MergeDrawn'
    BY <2>1, ChoicesStay
  <2>3. EditorFits'
    BY <1>0, <2>1, EditorClosed
  <2>4. q.token = mergeToken + 1 /\ q.choices = sel
    OBVIOUS
  <2> HIDE DEF q
  <2>5. PreviewAsked'
    BY <1>0, <2>1, <2>4 DEF PreviewAsked
  <2>6. PreviewFits'
    BY <2>1, <2>4 DEF PreviewFits, PreviewAnswered
  <2> QED BY <2>2, <2>3, <2>5, <2>6 DEF MergeInv
<1>8. CASE Merge!PreviewTimer
  <2> DEFINE q == [token |-> mergeToken + 1, choices |-> sel, manual |-> manual]
  <2>1. /\ IF mergeOpen THEN mergeToken' = mergeToken + 1
                             /\ mergeRequests' = mergeRequests \cup {q}
           ELSE UNCHANGED <<mergeToken, mergeRequests>>
        /\ UNCHANGED <<kind, sel, undo, redo, drawn, mergeOpen, preview, manual, editor>>
        /\ UNCHANGED mergeFailed
    BY <1>8 DEF Merge!PreviewTimer, Merge!choosing, Merge!Ask
  <2>2. MergeHistory' /\ MergeDrawn'
    BY <2>1, ChoicesStay
  <2>3. EditorFits'
    BY <1>0, <2>1 DEF EditorFits
  <2>4. q.token = mergeToken + 1 /\ q.choices = sel
    OBVIOUS
  <2> HIDE DEF q
  <2>5. PreviewAsked'
    BY <1>0, <2>1, <2>4 DEF PreviewAsked
  <2>6. PreviewFits'
    BY <2>1, <2>4 DEF PreviewFits, PreviewAnswered
  <2> QED BY <2>2, <2>3, <2>5, <2>6 DEF MergeInv
<1>9. CASE \E r \in mergeRequests : Merge!Answer(r)
  <2>1. PICK r \in mergeRequests : Merge!Answer(r)
    BY <1>9
  <2>2. /\ mergeRequests' = mergeRequests \ {r}
        /\ UNCHANGED <<kind, sel, undo, redo, drawn, mergeOpen, timer, mergeToken>>
    BY <2>1 DEF Merge!Answer, Merge!choosing
  <2>3. MergeHistory' /\ MergeDrawn' /\ Merge!Lines(sel') = Merge!Lines(sel)
    BY <2>2, ChoicesStay
  <2>4. PreviewAsked'
    BY <1>0, <2>2 DEF PreviewAsked
  <2>5. CASE Merge!Shows(Merge!Panel)
             /\ \/ mergeFailed' = (mergeFailed \/ r.token = mergeToken)
                \/ /\ ~(r.token = mergeToken /\ mergeOpen)
                   /\ mergeFailed' = (mergeFailed /\ r.token # mergeToken)
    <3>1. UNCHANGED <<preview, manual, editor>>
      BY <2>5 DEF Merge!Shows, Merge!Panel
    <3>2. EditorFits'
      BY <1>0, <3>1 DEF EditorFits
    <3>3. PreviewAnswered' => PreviewAnswered
      BY <2>2, <2>5 DEF PreviewAnswered
    <3>4. PreviewFits'
      BY <1>0, <2>3, <3>1, <3>3 DEF PreviewFits
    <3> QED BY <2>3, <2>4, <3>2, <3>4 DEF MergeInv
  <2>6. CASE /\ r.token = mergeToken /\ mergeOpen
             /\ Merge!Rendered(Merge!Served(r.choices, r.manual))
    <3> DEFINE served == Merge!Served(r.choices, r.manual)
               typed == Merge!Drop(manual, DOMAIN manual \ DOMAIN served)
               data == [lines |-> served]
               P == [preview |-> data, manual |-> typed, editor |-> editor]
               N == Merge!closeMergeLineEditor(P, "drop")
    <3>1. DOMAIN served = Merge!Lines(r.choices)
      BY DEF Merge!Served
    <3>2. DOMAIN typed \subseteq DOMAIN served
      BY DEF Merge!Drop
    <3> HIDE DEF served, typed
    <3>4. N.manual = typed /\ N.editor = Merge!none /\ DOMAIN N = {"preview", "manual", "editor"}
      <4>1. P.manual = typed /\ P.editor = editor /\ DOMAIN P = {"preview", "manual", "editor"}
        OBVIOUS
      <4> HIDE DEF P
      <4> QED BY <4>1 DEF Merge!closeMergeLineEditor
    <3>5. preview' = data /\ manual' = typed /\ editor' = Merge!none
      <4>1. Merge!Shows([N EXCEPT !.preview = data])
        BY <2>6 DEF Merge!Rendered, served, typed
      <4> HIDE DEF N, data
      <4> QED BY <3>4, <4>1 DEF Merge!Shows
    <3>6. preview'.lines = served /\ preview' # Merge!none /\ preview' = [lines |-> preview'.lines]
      BY <3>5 DEF Merge!none
    <3>7. EditorFits'
      BY <3>5, <3>6 DEF EditorFits
    <3>8. PreviewFits'
      <4> SUFFICES ASSUME PreviewAnswered'
                   PROVE  DOMAIN manual' \subseteq DOMAIN preview'.lines
                          /\ DOMAIN preview'.lines = Merge!Lines(sel')
        BY <3>6 DEF PreviewFits
      <4>1. mergeOpen /\ ~timer
        BY <2>2 DEF PreviewAnswered
      <4>2. r.choices = sel
        BY <1>0, <2>6, <4>1 DEF PreviewAsked
      <4> QED BY <2>2, <3>1, <3>2, <3>5, <3>6, <4>2
    <3> QED BY <2>3, <2>4, <3>7, <3>8 DEF MergeInv
  <2>7. \/ Merge!Shows(Merge!Panel)
           /\ \/ mergeFailed' = (mergeFailed \/ r.token = mergeToken)
              \/ /\ ~(r.token = mergeToken /\ mergeOpen)
                 /\ mergeFailed' = (mergeFailed /\ r.token # mergeToken)
        \/ /\ r.token = mergeToken /\ mergeOpen
           /\ Merge!Rendered(Merge!Served(r.choices, r.manual))
    BY <2>1 DEF Merge!Answer
  <2> QED BY <2>5, <2>6, <2>7
<1>10. CASE \E k \in Merge!Lines(sel) : Merge!openMergeLineEditor(k)
  <2>1. PICK k \in Merge!Lines(sel) : Merge!openMergeLineEditor(k)
    BY <1>10
  <2> DEFINE P == Merge!Blurred
             was == P.preview.lines[k]
  <2>2. /\ preview # Merge!none /\ k \in DOMAIN preview.lines
        /\ Merge!Shows([P EXCEPT !.editor = [key |-> k, value |-> was.text, before |-> was]])
        /\ UNCHANGED <<kind, sel, undo, redo, drawn, mergeOpen, timer, mergeToken>>
        /\ UNCHANGED <<mergeRequests, mergeFailed>>
    BY <2>1 DEF Merge!openMergeLineEditor, Merge!choosing
  <2>3. MergeHistory' /\ MergeDrawn' /\ Merge!Lines(sel') = Merge!Lines(sel)
    BY <2>2, ChoicesStay
  <2>4. PreviewAsked'
    BY <1>0, <2>2 DEF PreviewAsked
  <2>5. /\ P = [preview |-> P.preview, manual |-> P.manual, editor |-> P.editor]
        /\ P.preview # Merge!none /\ P.preview = [lines |-> P.preview.lines]
        /\ DOMAIN P.preview.lines = DOMAIN preview.lines
        /\ DOMAIN manual \subseteq DOMAIN preview.lines => DOMAIN P.manual \subseteq DOMAIN preview.lines
    BY <1>0, <2>2, ClosedPanel DEF Merge!Blurred
  <2> HIDE DEF P
  <2>6. /\ preview' = P.preview /\ manual' = P.manual
        /\ editor' = [key |-> k, value |-> was.text, before |-> was]
    <3> HIDE DEF was
    <3> QED BY <2>2, <2>5 DEF Merge!Shows
  <2>7. EditorFits'
    <3> HIDE DEF was
    <3> QED BY <2>2, <2>5, <2>6 DEF EditorFits
  <2>8. PreviewAnswered' => PreviewAnswered
    BY <2>2 DEF PreviewAnswered
  <2>9. PreviewFits'
    BY <1>0, <2>3, <2>5, <2>6, <2>8 DEF PreviewFits
  <2> QED BY <2>3, <2>4, <2>7, <2>9 DEF MergeInv
<1>11. CASE \E v \in Merge!Typed : Merge!applyMergeLineEdit(v)
  <2>1. PICK v \in Merge!Typed : Merge!applyMergeLineEdit(v)
    BY <1>11
  <2> DEFINE K == editor.key
             L == preview.lines
             l == [text |-> v, origin |-> "manual"]
  <2>2. /\ editor # Merge!none /\ editor' = [editor EXCEPT !.value = v]
        /\ manual' = Merge!Set(manual, K, v) /\ preview' = [preview EXCEPT !.lines[K] = l]
        /\ UNCHANGED <<kind, sel, undo, redo, drawn, mergeOpen, timer, mergeToken>>
        /\ UNCHANGED <<mergeRequests, mergeFailed>>
    BY <2>1 DEF Merge!applyMergeLineEdit, Merge!choosing
  <2>3. /\ preview # Merge!none /\ preview = [lines |-> L] /\ K \in DOMAIN L
        /\ editor = [key |-> K, value |-> editor.value, before |-> editor.before]
    BY <1>0, <2>2 DEF EditorFits
  <2>4. MergeHistory' /\ MergeDrawn' /\ Merge!Lines(sel') = Merge!Lines(sel)
    BY <2>2, ChoicesStay
  <2>5. PreviewAsked'
    BY <1>0, <2>2 DEF PreviewAsked
  <2> HIDE DEF l
  <2>6. preview' = [lines |-> [L EXCEPT ![K] = l]]
        /\ editor' = [key |-> K, value |-> v, before |-> editor.before]
    BY <2>2, <2>3
  <2>7. preview'.lines = [L EXCEPT ![K] = l] /\ preview' # Merge!none /\ editor'.key = K
        /\ preview' = [lines |-> preview'.lines]
        /\ editor' = [key |-> editor'.key, value |-> editor'.value, before |-> editor'.before]
    BY <2>6 DEF Merge!none
  <2>8. DOMAIN preview'.lines = DOMAIN L /\ DOMAIN manual' = DOMAIN manual \cup {K}
    BY <2>2, <2>7 DEF Merge!Set
  <2>9. EditorFits'
    BY <2>3, <2>7, <2>8 DEF EditorFits
  <2>10. PreviewAnswered' => PreviewAnswered
    BY <2>2 DEF PreviewAnswered
  <2>11. PreviewFits'
    BY <1>0, <2>3, <2>4, <2>7, <2>8, <2>10 DEF PreviewFits
  <2> QED BY <2>4, <2>5, <2>9, <2>11 DEF MergeInv
<1>12. CASE \E how \in {"commit", "revert"} : Merge!CloseEditor(how)
  <2>1. PICK how \in {"commit", "revert"} : Merge!CloseEditor(how)
    BY <1>12
  <2> QED BY <2>1, AfterClosing DEF Merge!CloseEditor, Merge!choosing
<1>13. CASE \E b \in BOOLEAN : Merge!SaveClicked(b)
  BY <1>13, AfterClosing DEF Merge!SaveClicked, Merge!Blurred, Merge!choosing
<1>14. CASE \E b \in BOOLEAN : Merge!Asked(b)
  BY <1>14, AfterPreviewRests DEF Merge!Asked, Merge!choosing, Merge!previewing
<1>15. CASE \E delta \in {"next", "prev"} : Merge!stepConflict(IF delta = "next" THEN 1 ELSE -1)
  <2>1. PICK d \in {1, -1} : Merge!stepConflict(d)
    BY <1>15
  <2> QED BY <2>1, AfterPreviewRests DEF Merge!stepConflict, Merge!previewing
<1>16. CASE UNCHANGED Merge!vars
  BY <1>16, AfterPreviewRests DEF Merge!vars, Merge!choosing, Merge!previewing
<1> QED BY <1>1, <1>2, <1>3, <1>4, <1>5, <1>6, <1>7, <1>8, <1>9, <1>10, <1>11, <1>12, <1>13,
           <1>14, <1>15, <1>16 DEF Merge!Next

\* Whatever is chosen by button or key, undone and done again, and although the oldest
\* choices are forgotten: what can be undone, what is chosen and what can be done again
\* are one line of choices.
THEOREM OneHistory == PanelsSpec => []OneTimeline
<1>1. MergeInv => OneTimeline
  <2> SUFFICES ASSUME MergeInv PROVE Merge!OneTimeline
    BY DEF OneTimeline
  <2> DEFINE t == undo \o <<sel>> \o Merge!Reverse(redo)
  <2>1. \A k \in DOMAIN t \ {1} : <<t[k - 1], t[k]>> \in Alternatives
    BY PathInOrder DEF MergeInv, MergeHistory
  <2> HIDE DEF t
  <2>2. \A k \in DOMAIN t \ {1} :
          \/ Merge!Cardinality({e \in Merge!Events : t[k - 1][e] # t[k][e]}) <= 1
          \/ \E s \in Merge!Sides : \A e \in Merge!Units : t[k][e] = {s}
    <3> SUFFICES ASSUME NEW k \in DOMAIN t \ {1}
                 PROVE  \/ Merge!Cardinality({e \in Merge!Events : t[k - 1][e] # t[k][e]}) <= 1
                        \/ \E s \in Merge!Sides : \A e \in Merge!Units : t[k][e] = {s}
      OBVIOUS
    <3> DEFINE p == <<t[k - 1], t[k]>>
    <3>1. p \in Alternatives /\ p[1] = t[k - 1] /\ p[2] = t[k]
      BY <2>1
    <3> HIDE DEF p
    <3>2. \/ Merge!Cardinality({e \in Merge!Events : p[1][e] # p[2][e]}) <= 1
          \/ \E s \in Merge!Sides : \A e \in Merge!Units : p[2][e] = {s}
      BY <3>1 DEF Alternatives
    <3> QED BY <3>1, <3>2
  <2> QED BY <2>2 DEF Merge!OneTimeline, t
<1>2. PanelsSpec => Merge!Init /\ [][Merge!Next]_(Merge!vars)
  BY PanelsBehave
<1> QED BY <1>1, <1>2, MergeInit, MergeNext, PTL

\* In whatever order the previews are answered, and whatever is chosen, typed, opened or
\* refused meanwhile: a quiet preview has the lines of the present choices.
THEOREM PreviewFollowsChoices == PanelsSpec => []PreviewOfChoices
<1>1. MergeInv => PreviewOfChoices
  <2> SUFFICES ASSUME MergeInv, PreviewAnswered
               PROVE  /\ preview # Merge!none /\ DOMAIN manual \subseteq DOMAIN preview.lines
                      /\ DOMAIN preview.lines =
                           UNION {{<<e, s>> : s \in Merge!ToSet(drawn[e].shows.lines)}
                                    : e \in Merge!Events}
    BY DEF PreviewOfChoices, Merge!PreviewOfChoices, PreviewAnswered
  <2>1. kind = "threeway"
    BY DEF MergeInv, PreviewAsked, PreviewAnswered
  <2>2. \A e \in Merge!Events : drawn[e].shows = Merge!resultLines(e, sel[e])
    BY <2>1 DEF MergeInv, MergeDrawn
  <2>3. /\ preview # Merge!none /\ DOMAIN manual \subseteq DOMAIN preview.lines
        /\ DOMAIN preview.lines = Merge!Lines(sel)
    BY DEF MergeInv, PreviewFits
  <2>4. \A e \in Merge!Events : {<<e, s>> : s \in Merge!ToSet(drawn[e].shows.lines)}
                                = {<<e, s>> : s \in Merge!ToSet(Merge!resultLines(e, sel[e]).lines)}
    BY <2>2
  <2>5. Merge!Lines(sel) = UNION {{<<e, s>> : s \in Merge!ToSet(drawn[e].shows.lines)}
                                    : e \in Merge!Events}
    BY <2>4 DEF Merge!Lines
  <2> QED BY <2>3, <2>5
<1>2. PanelsSpec => Merge!Init /\ [][Merge!Next]_(Merge!vars)
  BY PanelsBehave
<1> QED BY <1>1, <1>2, MergeInit, MergeNext, PTL

--------------------------------------------------------------------------------
(* The merge of a result: where a choice goes on to. *)

\* Going round a list from any place comes to each of its places, and to no other.
LEMMA RoundComesToEach ==
  ASSUME NEW n \in Nat \ {0}, NEW start \in 0 .. n, NEW k \in 1 .. n
  PROVE  \E c \in 1 .. n : ((start + c - 1) % n) + 1 = k
<1> DEFINE c == IF k > start THEN k - start ELSE k - start + n
<1>1. c \in 1 .. n
  OBVIOUS
<1>2. start + c - 1 = k - 1 \/ start + c - 1 = (k - 1) + n
  OBVIOUS
<1>3. (k - 1) % n = k - 1 /\ ((k - 1) + n) % n = k - 1
  <2>1. k - 1 \in 0 .. n - 1
    OBVIOUS
  <2> QED BY <2>1
<1> HIDE DEF c
<1>4. ((start + c - 1) % n) + 1 = k
  BY <1>1, <1>2, <1>3
<1> QED BY <1>1, <1>4

LEMMA RoundStaysIn ==
  ASSUME NEW n \in Nat \ {0}, NEW start \in 0 .. n, NEW c \in 1 .. n
  PROVE  ((start + c - 1) % n) + 1 \in 1 .. n
OBVIOUS

\* One more behind a list.
LEMMA LongerByOne ==
  ASSUME NEW S, NEW s \in Seq(S), NEW x \in S
  PROVE  /\ s \o <<x>> \in Seq(S)
         /\ Merge!ToSet(s \o <<x>>) = Merge!ToSet(s) \cup {x}
<1> DEFINE t == s \o <<x>>
<1>1. t \in Seq(S) /\ Len(t) = Len(s) + 1 /\ t[Len(s) + 1] = x
      /\ \A i \in 1 .. Len(s) : t[i] = s[i]
  OBVIOUS
<1>2. DOMAIN t = 1 .. Len(s) + 1 /\ DOMAIN s = 1 .. Len(s) /\ Len(s) \in Nat
  BY <1>1
<1> HIDE DEF t
<1>3. \A i \in DOMAIN t : i = Len(s) + 1 \/ i \in DOMAIN s
  BY <1>2
<1>4. Len(s) + 1 \in DOMAIN t /\ DOMAIN s \subseteq DOMAIN t
  BY <1>2
<1>5. {t[i] : i \in DOMAIN t} = {s[i] : i \in DOMAIN s} \cup {x}
  BY <1>1, <1>2, <1>3, <1>4
<1>6. Merge!ToSet(t) = Merge!ToSet(s) \cup {x}
  BY <1>5 DEF Merge!ToSet
<1> QED BY <1>1, <1>6 DEF t

LEMMA LeastExists ==
  ASSUME NEW S \in SUBSET Nat, S # {}
  PROVE  \E m \in S : \A x \in S : m <= x
<1>1. PICK m \in S : \A y \in S : <<y, m>> \notin OpToRel(<, Nat)
  BY NatLessThanWellFounded, WFMin
<1>2. \A y \in S : ~(y < m)
  <2>1. \A y \in S : y \in Nat /\ m \in Nat
    OBVIOUS
  <2> QED BY <1>1, <2>1 DEF OpToRel
<1> QED BY <1>2

\* An undecided one of a list is gone to, if there is one.
LEMMA NextIsUnresolved ==
  ASSUME NEW list \in Seq(Nat \ {0}), NEW from, NEW c,
         \E k \in DOMAIN list : c[list[k]] = {}
  PROVE  LET next == Merge!nextUnresolved(list, from, c)
         IN  next # Merge!None /\ c[next] = {} /\ next \in Merge!ToSet(list)
<1> DEFINE n == Len(list)
           start == IF from \in Merge!ToSet(list) THEN CHOOSE k \in DOMAIN list : list[k] = from ELSE 0
           place(i) == ((start + i - 1) % n) + 1
           found == {i \in 1 .. n : c[list[place(i)]] = {}}
           first == CHOOSE i \in found : \A d \in found : i <= d
<1>1. n \in Nat \ {0} /\ DOMAIN list = 1 .. n
  OBVIOUS
<1>2. start \in 0 .. n
  <2>1. CASE from \in Merge!ToSet(list)
    <3>1. \E k \in DOMAIN list : list[k] = from
      BY <2>1 DEF Merge!ToSet
    <3>2. start \in DOMAIN list
      BY <2>1, <3>1
    <3> HIDE DEF start
    <3> QED BY <1>1, <3>2
  <2>2. CASE from \notin Merge!ToSet(list)
    BY <1>1, <2>2
  <2> QED BY <2>1, <2>2
<1>3. PICK k \in 1 .. n : c[list[k]] = {}
  BY <1>1
<1>4. found # {}
  <2> HIDE DEF start
  <2>1. PICK i \in 1 .. n : place(i) = k
    BY <1>1, <1>2, RoundComesToEach
  <2> QED BY <1>3, <2>1
<1>5. found \in SUBSET Nat
  OBVIOUS
<1>6. first \in found
  <2> HIDE DEF found
  <2>1. \E i \in found : \A d \in found : i <= d
    BY <1>4, <1>5, LeastExists
  <2> QED BY <2>1
<1>7. first \in 1 .. n /\ c[list[place(first)]] = {}
  <2> HIDE DEF first, start
  <2> QED BY <1>6
<1>8. place(first) \in 1 .. n
  <2> HIDE DEF first, start
  <2> QED BY <1>1, <1>2, <1>7, RoundStaysIn
<1>9. list[place(first)] \in Nat \ {0} /\ list[place(first)] \in Merge!ToSet(list)
  <2>1. \A i \in 1 .. n : list[i] \in Nat \ {0} /\ list[i] \in Merge!ToSet(list)
    BY <1>1 DEF Merge!ToSet
  <2> HIDE DEF place
  <2> QED BY <1>8, <2>1
<1>10. Merge!nextUnresolved(list, from, c) = IF found = {} THEN Merge!None ELSE list[place(first)]
  BY DEF Merge!nextUnresolved
<1> HIDE DEF found, first, place
<1> QED BY <1>4, <1>7, <1>9, <1>10 DEF Merge!None

\* What Conflicts is defined with: the conflicts among the first k events.
Among(c, n) == c = [k \in 0 .. n |-> IF k = 0 THEN <<>>
                      ELSE c[k - 1] \o (IF EventKinds[k] = "conflict" THEN <<k>> ELSE <<>>)]

LEMMA AmongExists ==
  ASSUME NEW n \in Nat, NEW c \in [0 .. n -> Seq(Nat \ {0})], Among(c, n)
  PROVE  \E d \in [0 .. n + 1 -> Seq(Nat \ {0})] : Among(d, n + 1)
<1> DEFINE more(k) == IF EventKinds[k] = "conflict" THEN <<k>> ELSE <<>>
           d == [k \in 0 .. n + 1 |-> IF k <= n THEN c[k] ELSE c[n] \o more(n + 1)]
<1>1. \A k \in 0 .. n : c[k] = IF k = 0 THEN <<>> ELSE c[k - 1] \o more(k)
  BY DEF Among
<1>2. \A k \in 1 .. n + 1 : more(k) \in Seq(Nat \ {0})
  <2> SUFFICES ASSUME NEW k \in 1 .. n + 1 PROVE more(k) \in Seq(Nat \ {0})
    OBVIOUS
  <2>1. k \in Nat \ {0}
    OBVIOUS
  <2>2. <<k>> \in Seq(Nat \ {0}) /\ <<>> \in Seq(Nat \ {0})
    BY <2>1
  <2> QED BY <2>2
<1> HIDE DEF more
<1>3. \A k \in 0 .. n : d[k] = c[k]
  OBVIOUS
<1>4. d[n + 1] = c[n] \o more(n + 1) /\ c[n] \in Seq(Nat \ {0}) /\ more(n + 1) \in Seq(Nat \ {0})
  BY <1>2
<1>5. d \in [0 .. n + 1 -> Seq(Nat \ {0})]
  <2>1. d[n + 1] \in Seq(Nat \ {0})
    BY <1>4, ConcatProperties
  <2> QED BY <1>3, <2>1
<1>6. \A k \in 0 .. n + 1 : d[k] = IF k = 0 THEN <<>> ELSE d[k - 1] \o more(k)
  <2> HIDE DEF d
  <2> SUFFICES ASSUME NEW k \in 0 .. n + 1 PROVE d[k] = IF k = 0 THEN <<>> ELSE d[k - 1] \o more(k)
    OBVIOUS
  <2>1. CASE k = 0
    <3>1. k \in 0 .. n
      BY <2>1
    <3> QED BY <1>1, <1>3, <2>1, <3>1
  <2>2. CASE k # 0 /\ k <= n
    <3>1. k \in 0 .. n /\ k - 1 \in 0 .. n
      BY <2>2
    <3> QED BY <1>1, <1>3, <2>2, <3>1
  <2>3. CASE k = n + 1
    <3>1. k # 0 /\ k - 1 = n /\ n \in 0 .. n
      BY <2>3
    <3> QED BY <1>3, <1>4, <2>3, <3>1
  <2> QED BY <2>1, <2>2, <2>3
<1> HIDE DEF d
<1>7. d = [k \in 0 .. n + 1 |-> IF k = 0 THEN <<>> ELSE d[k - 1] \o more(k)]
  BY <1>5, <1>6
<1> QED BY <1>5, <1>7 DEF Among, more

\* The list of the conflicts has them all, and only them.
LEMMA ConflictsAre ==
  /\ Merge!Conflicts \in Seq(Nat \ {0})
  /\ Merge!ToSet(Merge!Conflicts) = {e \in DOMAIN EventKinds : EventKinds[e] = "conflict"}
<1> DEFINE N == Len(EventKinds)
           Good == {n \in Nat : \E c \in [0 .. n -> Seq(Nat \ {0})] : Among(c, n)}
<1>1. N \in Nat /\ DOMAIN EventKinds = 1 .. N
  BY MergeAssumption
<1>2. 0 \in Good
  <2> DEFINE c == [k \in 0 .. 0 |-> <<>>]
  <2>1. <<>> \in Seq(Nat \ {0})
    OBVIOUS
  <2>2. c \in [0 .. 0 -> Seq(Nat \ {0})]
    BY <2>1
  <2>3. Among(c, 0)
    BY DEF Among
  <2> QED BY <2>2, <2>3
<1>3. ASSUME NEW n \in Nat, n \in Good PROVE n + 1 \in Good
  <2>1. PICK c \in [0 .. n -> Seq(Nat \ {0})] : Among(c, n)
    BY <1>3
  <2>2. \E d \in [0 .. n + 1 -> Seq(Nat \ {0})] : Among(d, n + 1)
    BY <2>1, AmongExists
  <2> QED BY <2>2
<1>4. Nat \subseteq Good
  <2> HIDE DEF Good
  <2> QED BY <1>2, <1>3, Induction
<1> DEFINE among == CHOOSE c : Among(c, N)
<1>5. Among(among, N)
  <2>1. \E c \in [0 .. N -> Seq(Nat \ {0})] : Among(c, N)
    <3> HIDE DEF N
    <3> QED BY <1>1, <1>4
  <2> HIDE DEF N
  <2> QED BY <2>1
<1>6. Merge!Conflicts = among[N]
  BY DEF Merge!Conflicts, Among
<1> HIDE DEF among, N
<1>7. \A k \in 0 .. N : among[k] = IF k = 0 THEN <<>>
        ELSE among[k - 1] \o (IF EventKinds[k] = "conflict" THEN <<k>> ELSE <<>>)
  BY <1>5 DEF Among
<1> DEFINE Of(k) == {e \in 1 .. k : EventKinds[e] = "conflict"}
           Right == {k \in Nat : k \in 0 .. N => among[k] \in Seq(Nat \ {0}) /\ Merge!ToSet(among[k]) = Of(k)}
<1>8. 0 \in Right
  <2>1. among[0] = <<>>
    <3>1. 0 \in 0 .. N
      BY <1>1
    <3> HIDE DEF Right
    <3> QED BY <1>7, <3>1
  <2>2. <<>> \in Seq(Nat \ {0}) /\ Merge!ToSet(<<>>) = {} /\ Of(0) = {}
    BY DEF Merge!ToSet
  <2> QED BY <2>1, <2>2
<1>9. ASSUME NEW k \in Nat, k \in Right PROVE k + 1 \in Right
  <2> SUFFICES ASSUME k + 1 \in 0 .. N
               PROVE  among[k + 1] \in Seq(Nat \ {0}) /\ Merge!ToSet(among[k + 1]) = Of(k + 1)
    OBVIOUS
  <2> DEFINE s == among[k]
  <2>1. s \in Seq(Nat \ {0}) /\ Merge!ToSet(s) = Of(k)
    BY <1>1, <1>9
  <2>2. among[k + 1] = s \o (IF EventKinds[k + 1] = "conflict" THEN <<k + 1>> ELSE <<>>)
    <3>1. k + 1 \in 0 .. N /\ k + 1 # 0 /\ (k + 1) - 1 = k
      OBVIOUS
    <3> HIDE DEF Right
    <3> QED BY <1>7, <3>1
  <2>3. CASE EventKinds[k + 1] = "conflict"
    <3>1. among[k + 1] = s \o <<k + 1>>
      BY <2>2, <2>3
    <3>2. Of(k + 1) = Of(k) \cup {k + 1}
      BY <2>3
    <3> HIDE DEF s, Of
    <3>3. k + 1 \in Nat \ {0}
      OBVIOUS
    <3>4. s \o <<k + 1>> \in Seq(Nat \ {0}) /\ Merge!ToSet(s \o <<k + 1>>) = Merge!ToSet(s) \cup {k + 1}
      BY <2>1, <3>3, LongerByOne
    <3> QED BY <2>1, <3>1, <3>2, <3>4
  <2>4. CASE EventKinds[k + 1] # "conflict"
    <3>1. among[k + 1] = s \o <<>>
      BY <2>2, <2>4
    <3>2. Of(k + 1) = Of(k)
      BY <2>4
    <3> HIDE DEF s, Of
    <3>3. s \o <<>> = s
      BY <2>1, ConcatEmptySeq
    <3> QED BY <2>1, <3>1, <3>2, <3>3
  <2> QED BY <2>3, <2>4
<1>10. Nat \subseteq Right
  <2> HIDE DEF Right
  <2> QED BY <1>8, <1>9, Induction
<1>11. among[N] \in Seq(Nat \ {0}) /\ Merge!ToSet(among[N]) = Of(N)
  BY <1>1, <1>10
<1> QED BY <1>1, <1>6, <1>11

\* While the reader advances automatically, a choice goes on to an undecided conflict as
\* long as there is one, around the end of the list.
THEOREM ChoiceGoesOn == PanelsSpec => AdvanceGoesOn
<1> DEFINE Goes ==
      \A e \in Merge!Events, side \in Merge!Sides \cup {"both"} :
        Merge!Choose(e, side) /\ advance /\ kind = "threeway" /\ Merge!unresolved(sel') # {}
          => mergeCurrent' \in Merge!unresolved(sel')
<1>1. Goes
  <2> SUFFICES ASSUME NEW e \in Merge!Events, NEW side \in Merge!Sides \cup {"both"},
                      Merge!Choose(e, side), advance, kind = "threeway",
                      Merge!unresolved(sel') # {}
               PROVE  mergeCurrent' \in Merge!unresolved(sel')
    OBVIOUS
  <2> DEFINE list == Merge!Conflicts
             next == Merge!nextUnresolved(list, e, sel')
  <2>1. mergeCurrent' = IF next # Merge!None THEN next ELSE mergeCurrent
    BY DEF Merge!Choose, Merge!chooseMerge, Merge!mutateMerge, Merge!advanceAfterAdopt
  <2>2. Merge!Units = Merge!ToSet(list) /\ list \in Seq(Nat \ {0})
    BY ConflictsAre DEF Merge!Units, Merge!Events
  <2>3. \E k \in DOMAIN list : sel'[list[k]] = {}
    <3> HIDE DEF list
    <3> QED BY <2>2 DEF Merge!unresolved, Merge!ToSet
  <2>4. next # Merge!None /\ sel'[next] = {} /\ next \in Merge!ToSet(list)
    <3> DEFINE c == sel'
    <3> HIDE DEF list, c
    <3>1. \E k \in DOMAIN list : c[list[k]] = {}
      BY <2>3 DEF c
    <3>2. LET x == Merge!nextUnresolved(list, e, c)
          IN  x # Merge!None /\ c[x] = {} /\ x \in Merge!ToSet(list)
      BY <2>2, <3>1, NextIsUnresolved
    <3> QED BY <3>2 DEF c
  <2> QED BY <2>1, <2>2, <2>4 DEF Merge!unresolved
<1> HIDE DEF Goes
<1>2. PanelsSpec => [][Goes]_(Merge!vars)
  BY <1>1, PTL
<1> QED BY <1>2 DEF AdvanceGoesOn, Merge!AdvanceGoesOn, Goes

--------------------------------------------------------------------------------
(* Messages and progress. *)

\* A message of the lane, and what is true of those that are there: an identity is one
\* message's, and a timer that runs for it ends its whole time after its last post.
Message ==
  [id : Nat, text : MessageTexts, tone : Lanes!Tones, count : {1, 2}, at : Nat]

InLane(E, next, running) ==
  /\ E \subseteq Message /\ next \in Nat
  /\ \A x, y \in E : x.id = y.id => x = y
  /\ \A x \in E : x.id < next
  /\ \A m \in running, x \in E :
       m.id = x.id => Lanes!selfClearing(x.tone) /\ m.due = x.at + DismissDelay

MessagesInv ==
  /\ entries \in Seq(Message) /\ now \in Nat /\ lost = {}
  /\ InLane(Lanes!ToSet(entries), nextID, timers)

StageRecord == [state : {"pending", "active", "done"}, done : Nat, total : Nat]

\* One stage is under way at most, the current one; a tracker that was stopped has none.
TrackerInv ==
  /\ records \in [Lanes!Stages -> StageRecord]
  /\ \A k \in Lanes!Stages : records[k].state = "active" => k = lanesCurrent
  /\ finished => lanesCurrent = "none" /\ status = {}

LanesInv == MessagesInv /\ TrackerInv

LEMMA LanesKeep ==
  ASSUME NEW S, NEW list \in Seq(S), NEW set
  PROVE  /\ Lanes!Keep(list, set) \in Seq(S)
         /\ Lanes!ToSet(Lanes!Keep(list, set)) = Lanes!ToSet(list) \cap set
<1>1. Lanes!Keep(list, set) = Keep(list, set)
  BY DEF Lanes!Keep, Keep
<1>2. Keep(list, set) \in Seq(S)
      /\ {Keep(list, set)[i] : i \in DOMAIN Keep(list, set)} = {list[k] : k \in DOMAIN list} \cap set
  BY KeepHas DEF KeptIs
<1> QED BY <1>1, <1>2 DEF Lanes!ToSet

\* Those of a lane without some identities.
LEMMA LanesWithout ==
  ASSUME NEW list \in Seq(Message), NEW ids
  PROVE  /\ Lanes!Without(list, ids) \in Seq(Message)
         /\ Lanes!ToSet(Lanes!Without(list, ids)) = {e \in Lanes!ToSet(list) : e.id \notin ids}
<1> DEFINE set == {e \in Lanes!ToSet(list) : e.id \notin ids}
<1>1. set \subseteq Lanes!ToSet(list)
  OBVIOUS
<1> HIDE DEF set
<1>2. /\ Lanes!Keep(list, set) \in Seq(Message)
      /\ Lanes!ToSet(Lanes!Keep(list, set)) = Lanes!ToSet(list) \cap set
  BY LanesKeep
<1>3. Lanes!Without(list, ids) = Lanes!Keep(list, set)
  BY DEF Lanes!Without, set
<1>4. Lanes!ToSet(list) \cap set = set
  BY <1>1
<1> QED BY <1>2, <1>3, <1>4 DEF set

LEMMA LanesItems ==
  ASSUME NEW S, NEW list \in Seq(S)
  PROVE  /\ Lanes!ToSet(list) \subseteq S
         /\ list # <<>> => list[1] \in Lanes!ToSet(list) /\ Lanes!Last(list) \in Lanes!ToSet(list)
         /\ list = <<>> => Lanes!ToSet(list) = {}
         /\ \A x \in S : Append(list, x) \in Seq(S)
                         /\ Lanes!ToSet(Append(list, x)) = Lanes!ToSet(list) \cup {x}
<1>1. Len(list) \in Nat /\ DOMAIN list = 1 .. Len(list) /\ \A i \in DOMAIN list : list[i] \in S
  OBVIOUS
<1>2. ASSUME list # <<>> PROVE 1 \in DOMAIN list /\ Len(list) \in DOMAIN list
  BY <1>2
<1>3. ASSUME NEW x \in S
      PROVE  Append(list, x) \in Seq(S) /\ Lanes!ToSet(Append(list, x)) = Lanes!ToSet(list) \cup {x}
  <2> DEFINE a == Append(list, x)
  <2>1. a \in Seq(S) /\ Len(a) = Len(list) + 1 /\ DOMAIN a = 1 .. Len(list) + 1
        /\ a[Len(list) + 1] = x /\ \A i \in 1 .. Len(list) : a[i] = list[i]
    OBVIOUS
  <2> HIDE DEF a
  <2>2. \A i \in DOMAIN a : i = Len(list) + 1 \/ i \in DOMAIN list
    BY <1>1, <2>1
  <2>3. Len(list) + 1 \in DOMAIN a /\ DOMAIN list \subseteq DOMAIN a
    BY <1>1, <2>1
  <2>4. {a[i] : i \in DOMAIN a} = {list[i] : i \in DOMAIN list} \cup {x}
    BY <1>1, <2>1, <2>2, <2>3
  <2> QED BY <2>1, <2>4 DEF a, Lanes!ToSet
<1>4. Lanes!ToSet(list) \subseteq S
  BY <1>1 DEF Lanes!ToSet
<1>5. list # <<>> => list[1] \in Lanes!ToSet(list) /\ Lanes!Last(list) \in Lanes!ToSet(list)
  BY <1>2 DEF Lanes!ToSet, Lanes!Last
<1>6. list = <<>> => Lanes!ToSet(list) = {}
  BY DEF Lanes!ToSet
<1> QED BY <1>3, <1>4, <1>5, <1>6

\* A message is removed, with its timer or not.
LEMMA LaneShrinks ==
  ASSUME NEW E, NEW next, NEW running, InLane(E, next, running),
         NEW F \in SUBSET E, NEW left \in SUBSET running
  PROVE  InLane(F, next, left)
BY DEF InLane

\* A message is posted: it takes its own place, or one that was never used, and a timer.
LEMMA LaneGrows ==
  ASSUME NEW E, NEW next, NEW running, InLane(E, next, running), now \in Nat,
         NEW e \in Message, e.at = now, NEW after \in Nat, next <= after, e.id < after
  PROVE  InLane({x \in E : x.id # e.id} \cup {e}, after, Lanes!startTimer(running, e))
<1> DEFINE L == {x \in E : x.id # e.id} \cup {e}
<1>1. L \subseteq Message /\ \A x, y \in L : x.id = y.id => x = y
  BY DEF InLane
<1>2. \A x \in L : x.id < after
  BY DEF InLane, Message
<1>3. ASSUME NEW m \in Lanes!startTimer(running, e), NEW x \in L, m.id = x.id
      PROVE  Lanes!selfClearing(x.tone) /\ m.due = x.at + DismissDelay
  <2>1. CASE m \in running /\ m.id # e.id
    BY <1>3, <2>1 DEF InLane
  <2>2. CASE Lanes!selfClearing(e.tone) /\ m = [id |-> e.id, due |-> now + DismissDelay]
    BY <1>3, <2>2
  <2> QED BY <1>3, <2>1, <2>2 DEF Lanes!startTimer
<1> QED BY <1>1, <1>2, <1>3 DEF InLane

LEMMA PostedAgain ==
  ASSUME NEW x \in Message, now \in Nat
  PROVE  LET e == [x EXCEPT !.count = 2, !.at = now]
         IN  e \in Message /\ e.id = x.id /\ e.at = now /\ e.tone = x.tone
BY DEF Message

\* What the cap drops is there; a failure only if there is nothing else.
LEMMA OverCap ==
  ASSUME NEW list \in Seq(Message), \A x, y \in Lanes!ToSet(list) : x.id = y.id => x = y,
         NEW x \in Lanes!ToSet(list), x.id \in Lanes!overCap(list), x.tone = "error",
         NEW y \in Lanes!ToSet(list), Lanes!selfClearing(y.tone)
  PROVE  FALSE
<1> DEFINE set == {e \in Lanes!ToSet(list) : Lanes!selfClearing(e.tone)}
           clearing == Lanes!Keep(list, set)
<1>1. clearing \in Seq(Message) /\ Lanes!ToSet(clearing) = Lanes!ToSet(list) \cap set
  <2> HIDE DEF set
  <2> QED BY LanesKeep
<1>2. x.id = (IF clearing # <<>> THEN clearing[1] ELSE list[1]).id
  BY DEF Lanes!overCap
<1>3. y \in set
  OBVIOUS
<1>4. set \subseteq Lanes!ToSet(list) /\ \A e \in set : Lanes!selfClearing(e.tone)
  OBVIOUS
<1> HIDE DEF set, clearing
<1>5. clearing # <<>> /\ clearing[1] \in Lanes!ToSet(clearing)
  BY <1>1, <1>3, LanesItems
<1>6. clearing[1] \in set /\ x.id = clearing[1].id
  BY <1>1, <1>2, <1>5
<1>7. x = clearing[1]
  BY <1>4, <1>6
<1> QED BY <1>4, <1>6, <1>7 DEF Lanes!selfClearing

LEMMA AfterPost ==
  ASSUME MessagesInv, NEW text \in MessageTexts, NEW tone \in Lanes!Tones,
         Lanes!post(text, tone), now' = now
  PROVE  MessagesInv'
<1> DEFINE wanted == {e \in Lanes!ToSet(entries) : e.text = text /\ e.tone = tone}
           same == Lanes!Keep(entries, wanted)
           entry == IF same # <<>>
                    THEN [Lanes!Last(same) EXCEPT !.count = 2, !.at = now]
                    ELSE [id |-> nextID, text |-> text, tone |-> tone, count |-> 1, at |-> now]
           list == Append(Lanes!Without(entries, {entry.id}), entry)
           victims == Lanes!overCap(list)
<1>1. /\ entries' = Lanes!Without(list, victims)
      /\ timers' = {m \in Lanes!startTimer(timers, entry) : m.id \notin victims}
      /\ nextID' = IF same # <<>> THEN nextID ELSE nextID + 1
      /\ lost' = lost \cup {e.text : e \in {x \in Lanes!ToSet(list) :
                               x.id \in victims /\ x.tone = "error"
                               /\ \E y \in Lanes!ToSet(list) : Lanes!selfClearing(y.tone)}}
  BY DEF Lanes!post
<1>2. /\ entries \in Seq(Message) /\ now \in Nat /\ lost = {} /\ nextID \in Nat
      /\ InLane(Lanes!ToSet(entries), nextID, timers)
  BY DEF MessagesInv, InLane
<1>3. same \in Seq(Message) /\ Lanes!ToSet(same) \subseteq Lanes!ToSet(entries)
  <2> HIDE DEF wanted
  <2> QED BY <1>2, LanesKeep
<1> HIDE DEF same
<1>4. entry \in Message /\ entry.at = now /\ entry.id < nextID' /\ nextID <= nextID' /\ nextID' \in Nat
  <2>1. CASE same # <<>>
    <3> DEFINE x == Lanes!Last(same)
    <3>1. x \in Lanes!ToSet(entries)
      BY <1>3, <2>1, LanesItems
    <3>2. x \in Message /\ x.id < nextID
      BY <1>2, <3>1 DEF InLane
    <3> HIDE DEF x
    <3>3. [x EXCEPT !.count = 2, !.at = now] \in Message
          /\ [x EXCEPT !.count = 2, !.at = now].id = x.id
          /\ [x EXCEPT !.count = 2, !.at = now].at = now
      BY <1>2, <3>2, PostedAgain
    <3>4. entry = [x EXCEPT !.count = 2, !.at = now]
      BY <2>1 DEF x
    <3> HIDE DEF entry
    <3> QED BY <1>1, <1>2, <2>1, <3>2, <3>3, <3>4
  <2>2. CASE same = <<>>
    <3>1. entry = [id |-> nextID, text |-> text, tone |-> tone, count |-> 1, at |-> now]
      BY <2>2
    <3> HIDE DEF entry
    <3> QED BY <1>1, <1>2, <2>2, <3>1 DEF Message
  <2> QED BY <2>1, <2>2
<1> HIDE DEF entry
<1> DEFINE others == Lanes!Without(entries, {entry.id})
<1>5. others \in Seq(Message)
      /\ Lanes!ToSet(others) = {e \in Lanes!ToSet(entries) : e.id # entry.id}
  <2>1. others \in Seq(Message)
        /\ Lanes!ToSet(others) = {e \in Lanes!ToSet(entries) : e.id \notin {entry.id}}
    BY <1>2, LanesWithout
  <2> QED BY <2>1
<1> HIDE DEF others
<1>6. list \in Seq(Message)
      /\ Lanes!ToSet(list) = {e \in Lanes!ToSet(entries) : e.id # entry.id} \cup {entry}
  <2>1. list = Append(others, entry)
    BY DEF others
  <2>2. Append(others, entry) \in Seq(Message)
        /\ Lanes!ToSet(Append(others, entry)) = Lanes!ToSet(others) \cup {entry}
    BY <1>4, <1>5, LanesItems
  <2> QED BY <1>5, <2>1, <2>2
<1> HIDE DEF list
<1>7. InLane(Lanes!ToSet(list), nextID', Lanes!startTimer(timers, entry))
  BY <1>2, <1>4, <1>6, LaneGrows
<1>8. \A x, y \in Lanes!ToSet(list) : x.id = y.id => x = y
  BY <1>7 DEF InLane
<1>9. {x \in Lanes!ToSet(list) : x.id \in victims /\ x.tone = "error"
                                 /\ \E y \in Lanes!ToSet(list) : Lanes!selfClearing(y.tone)} = {}
  BY <1>6, <1>8, OverCap
<1>10. lost' = {}
  BY <1>1, <1>2, <1>9
<1> HIDE DEF victims
<1>11. entries' \in Seq(Message)
       /\ Lanes!ToSet(entries') = {e \in Lanes!ToSet(list) : e.id \notin victims}
  BY <1>1, <1>6, LanesWithout
<1>12. InLane(Lanes!ToSet(entries'), nextID', timers')
  BY <1>1, <1>7, <1>11, LaneShrinks
<1> QED BY <1>2, <1>10, <1>11, <1>12 DEF MessagesInv, Lanes!ToSet

LEMMA AfterRemove ==
  ASSUME MessagesInv, NEW id, Lanes!remove(id), nextID' = nextID, now' = now, lost' = lost
  PROVE  MessagesInv'
<1>1. entries' \in Seq(Message)
      /\ Lanes!ToSet(entries') = {e \in Lanes!ToSet(entries) : e.id \notin {id}}
  BY LanesWithout DEF MessagesInv, Lanes!remove
<1>2. InLane(Lanes!ToSet(entries'), nextID', timers')
  BY <1>1, LaneShrinks DEF MessagesInv, Lanes!remove
<1> QED BY <1>1, <1>2 DEF MessagesInv, Lanes!ToSet

\* A stage begins, ends or is counted, or the tracker is stopped.
TrackerFits(s) ==
  /\ s = [records |-> s.records, current |-> s.current]
  /\ s.records \in [Lanes!Stages -> StageRecord]
  /\ \A k \in Lanes!Stages : s.records[k].state = "active" => k = s.current

LEMMA RecordSet ==
  ASSUME NEW f \in [Lanes!Stages -> StageRecord], NEW k, NEW how \in {"active", "done"}
  PROVE  LET g == [f EXCEPT ![k].state = how]
         IN  /\ g \in [Lanes!Stages -> StageRecord]
             /\ \A j \in Lanes!Stages : g[j].state = IF j = k THEN how ELSE f[j].state
<1> DEFINE g == [f EXCEPT ![k].state = how]
<1>1. ASSUME NEW j \in Lanes!Stages
      PROVE  g[j] \in StageRecord /\ g[j].state = IF j = k THEN how ELSE f[j].state
  <2>1. g[j] = IF j = k THEN [f[j] EXCEPT !.state = how] ELSE f[j]
    OBVIOUS
  <2>2. f[j] \in StageRecord
    OBVIOUS
  <2>3. [f[j] EXCEPT !.state = how] \in StageRecord /\ [f[j] EXCEPT !.state = how].state = how
    BY <2>2 DEF StageRecord
  <2> HIDE DEF g
  <2> QED BY <2>1, <2>2, <2>3
<1>2. g \in [Lanes!Stages -> StageRecord]
  <2>1. g = [j \in Lanes!Stages |-> g[j]]
    OBVIOUS
  <2> HIDE DEF g
  <2> QED BY <1>1, <2>1
<1> QED BY <1>1, <1>2

LEMMA CurrentFinished ==
  ASSUME NEW s, TrackerFits(s)
  PROVE  /\ TrackerFits(Lanes!finishCurrent(s)) /\ Lanes!finishCurrent(s).current = "none"
         /\ \A k \in Lanes!Stages : Lanes!finishCurrent(s).records[k].state # "active"
<1>1. CASE s.current = "none"
  <2>1. "none" \notin Lanes!Stages
    BY LanesAssumption DEF Lanes!Stages, Lanes!ToSet
  <2> QED BY <1>1, <2>1 DEF Lanes!finishCurrent, TrackerFits
<1>2. CASE s.current # "none"
  <2> DEFINE g == [s.records EXCEPT ![s.current].state = "done"]
  <2>1. Lanes!finishCurrent(s) = [records |-> g, current |-> "none"]
    BY <1>2 DEF Lanes!finishCurrent
  <2>2. /\ g \in [Lanes!Stages -> StageRecord]
        /\ \A j \in Lanes!Stages : g[j].state = IF j = s.current THEN "done" ELSE s.records[j].state
    <3>1. s.records \in [Lanes!Stages -> StageRecord]
      BY DEF TrackerFits
    <3> QED BY <3>1, RecordSet
  <2> HIDE DEF g
  <2>3. \A j \in Lanes!Stages : g[j].state # "active"
    BY <2>2 DEF TrackerFits
  <2> QED BY <2>1, <2>2, <2>3 DEF TrackerFits
<1> QED BY <1>1, <1>2

LEMMA StageBegun ==
  ASSUME NEW s, TrackerFits(s), NEW key \in Lanes!Stages
  PROVE  TrackerFits(Lanes!begin(s, key)) /\ (finished => Lanes!begin(s, key) = s)
<1>1. CASE finished \/ s.current = key
  BY <1>1 DEF Lanes!begin
<1>2. CASE ~finished /\ s.current # key
  <2> DEFINE f == Lanes!finishCurrent(s)
             g == [f.records EXCEPT ![key].state = "active"]
  <2>1. Lanes!begin(s, key) = [records |-> g, current |-> key]
    BY <1>2 DEF Lanes!begin
  <2>2. TrackerFits(f) /\ \A k \in Lanes!Stages : f.records[k].state # "active"
    BY CurrentFinished
  <2> HIDE DEF f
  <2>3. /\ g \in [Lanes!Stages -> StageRecord]
        /\ \A j \in Lanes!Stages : g[j].state = IF j = key THEN "active" ELSE f.records[j].state
    <3>1. f.records \in [Lanes!Stages -> StageRecord]
      BY <2>2 DEF TrackerFits
    <3> QED BY <3>1, RecordSet
  <2> HIDE DEF g
  <2> QED BY <1>2, <2>1, <2>2, <2>3 DEF TrackerFits
<1> QED BY <1>1, <1>2

LEMMA StageEnded ==
  ASSUME NEW s, TrackerFits(s), NEW key \in Lanes!Stages
  PROVE  /\ TrackerFits(Lanes!finish(s, key))
         /\ s.current = "none" => Lanes!finish(s, key).current = "none"
<1> DEFINE g == [s.records EXCEPT ![key].state = "done"]
           c == IF s.current = key THEN "none" ELSE s.current
<1>1. Lanes!finish(s, key) = [records |-> g, current |-> c]
  BY DEF Lanes!finish
<1>2. /\ g \in [Lanes!Stages -> StageRecord]
      /\ \A j \in Lanes!Stages : g[j].state = IF j = key THEN "done" ELSE s.records[j].state
  <2>1. s.records \in [Lanes!Stages -> StageRecord]
    BY DEF TrackerFits
  <2> QED BY <2>1, RecordSet
<1> HIDE DEF g
<1>3. \A j \in Lanes!Stages : g[j].state = "active" => j = c
  BY <1>2 DEF TrackerFits
<1> HIDE DEF c
<1>4. TrackerFits(Lanes!finish(s, key))
  BY <1>1, <1>2, <1>3 DEF TrackerFits
<1>5. s.current = "none" => c = "none"
  BY DEF c
<1> QED BY <1>1, <1>4, <1>5

LEMMA CountedIs ==
  ASSUME NEW r \in StageRecord
  PROVE  LET q == [r EXCEPT !.done = 1, !.total = 2]
         IN  q \in StageRecord /\ q.state = r.state
BY DEF StageRecord

LEMMA StageCounted ==
  ASSUME NEW s, TrackerFits(s)
  PROVE  TrackerFits(Lanes!progress(s, 1, 2)) /\ Lanes!progress(s, 1, 2).current = s.current
<1>1. CASE s.current = "none" \/ finished
  BY <1>1 DEF Lanes!progress
<1>2. CASE ~(s.current = "none" \/ finished)
  <2> DEFINE c == s.current
             f == s.records
             more(r) == [r EXCEPT !.done = 1, !.total = 2]
             g == [f EXCEPT ![c] = more(f[c])]
  <2>1. Lanes!progress(s, 1, 2) = [s EXCEPT !.records[s.current] = [@ EXCEPT !.done = 1, !.total = 2]]
    BY <1>2 DEF Lanes!progress
  <2>2. s = [records |-> f, current |-> c] /\ f \in [Lanes!Stages -> StageRecord]
    BY DEF TrackerFits
  <2>3. Lanes!progress(s, 1, 2) = [records |-> g, current |-> c]
    BY <2>1, <2>2
  <2>4. \A j \in Lanes!Stages : /\ more(f[j]) \in StageRecord /\ more(f[j]).state = f[j].state
                                /\ f[j] \in StageRecord
    BY <2>2, CountedIs
  <2>5. \A j \in Lanes!Stages : f[j].state = "active" => j = c
    BY DEF TrackerFits
  <2> HIDE DEF more, c, f
  <2>6. \A j \in Lanes!Stages : g[j] = IF j = c THEN more(f[j]) ELSE f[j]
    BY <2>2
  <2>7. g = [j \in Lanes!Stages |-> g[j]]
    BY <2>2
  <2> HIDE DEF g
  <2>8. \A j \in Lanes!Stages : g[j] \in StageRecord /\ g[j].state = f[j].state
    BY <2>4, <2>6
  <2>9. g \in [Lanes!Stages -> StageRecord]
    BY <2>7, <2>8
  <2>10. TrackerFits(Lanes!progress(s, 1, 2))
    BY <2>3, <2>5, <2>8, <2>9 DEF TrackerFits
  <2>11. Lanes!progress(s, 1, 2).current = s.current
    BY <2>3 DEF c
  <2> QED BY <2>10, <2>11
<1> QED BY <1>1, <1>2

LEMMA AfterTracked ==
  ASSUME NEW s, TrackerFits(s), Lanes!Tracked(s), finished' => s.current = "none"
  PROVE  TrackerInv'
<1>1. finished' => lanesCurrent' = "none" /\ status' = {}
  BY DEF Lanes!Tracked, Lanes!renderProgress
<1> QED BY <1>1 DEF TrackerInv, TrackerFits, Lanes!Tracked, Lanes!Stages, Lanes!ToSet

LEMMA LanesInit == Lanes!Init => LanesInv
<1> SUFFICES ASSUME Lanes!Init PROVE LanesInv
  OBVIOUS
<1>1. entries = <<>> /\ nextID = 1 /\ timers = {} /\ now = 0 /\ lost = {}
  BY DEF Lanes!Init
<1>2. <<>> \in Seq(Message) /\ Lanes!ToSet(<<>>) = {}
  BY DEF Lanes!ToSet
<1>3. MessagesInv
  BY <1>1, <1>2 DEF MessagesInv, InLane
<1>4. Lanes!pending \in StageRecord /\ Lanes!pending.state = "pending"
  BY DEF Lanes!pending, StageRecord
<1>5. records = [k \in Lanes!Stages |-> Lanes!pending]
  BY DEF Lanes!Init
<1>6. finished = TRUE /\ lanesCurrent = "none" /\ status = {}
  BY DEF Lanes!Init
<1>7. TrackerInv
  <2> HIDE DEF Lanes!pending
  <2> QED BY <1>4, <1>5, <1>6 DEF TrackerInv
<1> QED BY <1>3, <1>7 DEF LanesInv

LEMMA MessagesRest ==
  ASSUME MessagesInv, UNCHANGED <<entries, nextID, timers, lost>>, now' = now
  PROVE  MessagesInv'
BY DEF MessagesInv, InLane, Lanes!ToSet, Lanes!selfClearing

LEMMA TrackerRests ==
  ASSUME TrackerInv, UNCHANGED <<records, lanesCurrent, finished>>, status' = status \/ status' = {}
  PROVE  TrackerInv'
BY DEF TrackerInv, Lanes!Stages, Lanes!ToSet

LEMMA LanesNext == LanesInv /\ [Lanes!Next]_(Lanes!vars) => LanesInv'
<1> SUFFICES ASSUME LanesInv, [Lanes!Next]_(Lanes!vars) PROVE LanesInv'
  OBVIOUS
<1>0. MessagesInv /\ TrackerInv
  BY DEF LanesInv
<1>1. CASE \E text \in MessageTexts, tone \in {"success", "error"} : Lanes!setStatus(text, tone)
  <2>1. PICK text \in MessageTexts, tone \in {"success", "error"} : Lanes!setStatus(text, tone)
    BY <1>1
  <2>2. tone \in Lanes!Tones
    BY DEF Lanes!Tones
  <2>3. Lanes!post(text, tone) /\ now' = now
    BY <2>1 DEF Lanes!setStatus
  <2>4. MessagesInv'
    BY <1>0, <2>2, <2>3, AfterPost
  <2>5. TrackerInv'
    BY <1>0, <2>1, TrackerRests DEF Lanes!setStatus
  <2> QED BY <2>4, <2>5 DEF LanesInv
<1>2. CASE \E id \in Lanes!Ids : Lanes!dismissMessage(id)
  <2>1. PICK id : Lanes!dismissMessage(id)
    BY <1>2
  <2>2. Lanes!remove(id) /\ nextID' = nextID /\ now' = now /\ lost' = lost
    BY <2>1 DEF Lanes!dismissMessage
  <2>3. MessagesInv'
    BY <1>0, <2>2, AfterRemove
  <2>4. TrackerInv'
    BY <1>0, <2>1, TrackerRests DEF Lanes!dismissMessage, Lanes!tracker
  <2> QED BY <2>3, <2>4 DEF LanesInv
<1>3. CASE \E m \in timers : Lanes!Withdraw(m)
  <2>1. PICK m \in timers : Lanes!Withdraw(m)
    BY <1>3
  <2>2. \A x \in Lanes!ToSet(entries) : x.id = m.id =>
          x.tone # "error" /\ ~(now < x.at + DismissDelay)
    <3> SUFFICES ASSUME NEW x \in Lanes!ToSet(entries), x.id = m.id
                 PROVE  x.tone # "error" /\ ~(now < x.at + DismissDelay)
      OBVIOUS
    <3>1. Lanes!selfClearing(x.tone) /\ m.due = x.at + DismissDelay
      BY <1>0 DEF MessagesInv, InLane
    <3>2. m.due = now /\ now \in Nat
      BY <1>0, <2>1 DEF Lanes!Withdraw, MessagesInv
    <3>3. ~(now < now)
      BY <3>2
    <3> QED BY <3>1, <3>2, <3>3 DEF Lanes!selfClearing
  <2>3. {x \in Lanes!ToSet(entries) :
           x.id = m.id /\ (x.tone = "error" \/ now < x.at + DismissDelay)} = {}
    BY <2>2
  <2>4. lost' = lost \cup {e.text : e \in {x \in Lanes!ToSet(entries) :
           x.id = m.id /\ (x.tone = "error" \/ now < x.at + DismissDelay)}}
    BY <2>1 DEF Lanes!Withdraw
  <2>5. lost' = lost
    BY <2>3, <2>4
  <2>6. Lanes!remove(m.id) /\ nextID' = nextID /\ now' = now
    BY <2>1 DEF Lanes!Withdraw
  <2>7. MessagesInv'
    BY <1>0, <2>5, <2>6, AfterRemove
  <2>8. TrackerInv'
    BY <1>0, <2>1, TrackerRests DEF Lanes!Withdraw, Lanes!tracker
  <2> QED BY <2>7, <2>8 DEF LanesInv
<1>4. CASE Lanes!Tick
  <2>1. now' = now + 1 /\ UNCHANGED <<entries, nextID, timers, lost>>
    BY <1>4 DEF Lanes!Tick, Lanes!messages
  <2>2. MessagesInv'
    BY <1>0, <2>1 DEF MessagesInv, InLane, Lanes!ToSet, Lanes!selfClearing
  <2>3. TrackerInv'
    BY <1>0, <1>4, TrackerRests DEF Lanes!Tick, Lanes!tracker
  <2> QED BY <2>2, <2>3 DEF LanesInv
<1>5. CASE Lanes!Start
  <2>1. records' = [k \in Lanes!Stages |-> Lanes!pending] /\ finished' = FALSE
    BY <1>5 DEF Lanes!Start
  <2>2. Lanes!pending \in StageRecord /\ Lanes!pending.state = "pending"
    BY DEF Lanes!pending, StageRecord
  <2>3. TrackerInv'
    <3> HIDE DEF Lanes!pending
    <3> QED BY <2>1, <2>2 DEF TrackerInv, Lanes!Stages, Lanes!ToSet
  <2>4. MessagesInv'
    BY <1>0, <1>5, MessagesRest DEF Lanes!Start, Lanes!messages
  <2> QED BY <2>3, <2>4 DEF LanesInv
<1> DEFINE known == Lanes!Known
<1>6. TrackerFits(known) /\ known.current = lanesCurrent
  BY <1>0 DEF TrackerFits, TrackerInv, Lanes!Known
<1>7. CASE Lanes!Stop
  <2>1. Lanes!Tracked(Lanes!finishCurrent(known)) /\ finished' = TRUE
    BY <1>7 DEF Lanes!Stop
  <2>2. TrackerFits(Lanes!finishCurrent(known)) /\ Lanes!finishCurrent(known).current = "none"
    <3> HIDE DEF known
    <3> QED BY <1>6, CurrentFinished
  <2>3. TrackerInv'
    <3> HIDE DEF known
    <3> QED BY <2>1, <2>2, AfterTracked
  <2>4. MessagesInv'
    BY <1>0, <1>7, MessagesRest DEF Lanes!Stop, Lanes!messages
  <2> QED BY <2>3, <2>4 DEF LanesInv
<1>8. CASE \E k \in Lanes!Stages, what \in {"begin", "end", "count"} : Lanes!Event(k, what)
  <2>1. PICK k \in Lanes!Stages, what \in {"begin", "end", "count"} : Lanes!Event(k, what)
    BY <1>8
  <2> DEFINE s == IF what = "begin" THEN Lanes!begin(known, k)
                  ELSE IF what = "end" THEN Lanes!finish(known, k) ELSE Lanes!progress(known, 1, 2)
  <2>2. Lanes!Tracked(s) /\ finished' = finished
    BY <2>1 DEF Lanes!Event
  <2>3. finished => known.current = "none"
    BY <1>0, <1>6 DEF TrackerInv
  <2> HIDE DEF known
  <2>4. TrackerFits(s) /\ (finished => s.current = "none")
    BY <1>6, <2>3, StageBegun, StageEnded, StageCounted
  <2>5. TrackerInv'
    <3> HIDE DEF s
    <3> QED BY <2>2, <2>4, AfterTracked
  <2>6. MessagesInv'
    BY <1>0, <2>1, MessagesRest DEF Lanes!Event, Lanes!messages
  <2> QED BY <2>5, <2>6 DEF LanesInv
<1>9. CASE UNCHANGED Lanes!vars
  <2>1. UNCHANGED <<entries, nextID, timers, lost>> /\ now' = now
        /\ UNCHANGED <<records, lanesCurrent, finished, status>>
    BY <1>9 DEF Lanes!vars, Lanes!messages, Lanes!tracker
  <2> QED BY <1>0, <2>1, MessagesRest, TrackerRests DEF LanesInv
<1> QED BY <1>1, <1>2, <1>3, <1>4, <1>5, <1>7, <1>8, <1>9 DEF Lanes!Next

\* Whatever is posted, repeated, dropped and dismissed while the timers run: no message
\* leaves the lane before its time; and in whatever order the stages of a comparison are
\* reported, also after it ended, one is shown under way at most.
THEOREM MessagesStay == PanelsSpec => []LanesAreTrue
<1>1. LanesInv => LanesAreTrue
  <2> SUFFICES ASSUME LanesInv PROVE Lanes!ReadBeforeItLeaves /\ Lanes!LaneTellsTheStage
    BY DEF LanesAreTrue
  <2>1. Lanes!ReadBeforeItLeaves
    BY DEF LanesInv, MessagesInv, Lanes!ReadBeforeItLeaves
  <2> DEFINE active == {k \in Lanes!Stages : records[k].state = "active"}
  <2>2. active \subseteq {lanesCurrent}
    BY DEF LanesInv, TrackerInv
  <2>3. Cardinality(active) <= 1
    <3> HIDE DEF active
    <3>1. active = {} \/ active = {lanesCurrent}
      BY <2>2
    <3>2. Cardinality({}) = 0 /\ Cardinality({lanesCurrent}) = 1
      BY FS_EmptySet, FS_Singleton
    <3> QED BY <3>1, <3>2
  <2>4. Lanes!Cardinality(active) = Cardinality(active)
    BY DEF Cardinality, Lanes!Cardinality
  <2> QED BY <2>1, <2>3, <2>4 DEF Lanes!LaneTellsTheStage, LanesInv, TrackerInv
<1>2. PanelsSpec => Lanes!Init /\ [][Lanes!Next]_(Lanes!vars)
  BY PanelsBehave
<1> QED BY <1>1, <1>2, LanesInit, LanesNext, PTL

--------------------------------------------------------------------------------
(* The CSV setup and its requests. *)

\* A sequence of whatever is in it.
IsList(x) == x \in Seq({x[i] : i \in DOMAIN x})

LEMMA SeqIsList ==
  ASSUME NEW S, NEW x \in Seq(S)
  PROVE  IsList(x)
<1> DEFINE T == {x[i] : i \in DOMAIN x}
<1>1. Len(x) \in Nat /\ x \in [1 .. Len(x) -> S] /\ DOMAIN x = 1 .. Len(x)
  BY LenProperties
<1>2. x \in [1 .. Len(x) -> T]
  BY <1>1
<1> HIDE DEF T
<1>3. x \in Seq(T)
  BY <1>1, <1>2, SeqDef
<1> QED BY <1>3 DEF IsList, T

LEMMA EmptyList == DOMAIN <<>> = {} /\ IsList(<<>>)
<1>1. <<>> \in Seq({}) /\ Len(<<>>) = 0
  OBVIOUS
<1>2. DOMAIN <<>> = 1 .. Len(<<>>)
  BY <1>1, LenProperties
<1>3. 1 .. 0 = {}
  OBVIOUS
<1>4. IsList(<<>>)
  BY <1>1, SeqIsList
<1> QED BY <1>1, <1>2, <1>3, <1>4

LEMMA IndexBelow == \A n \in Nat : \A j \in 1 .. n : j - 1 < n
OBVIOUS

LEMMA MapIsList ==
  ASSUME NEW n \in Nat, NEW f, f = [i \in 1 .. n |-> f[i]]
  PROVE  IsList(f)
<1> DEFINE S == {f[i] : i \in 1 .. n}
<1>1. f \in [1 .. n -> S]
  OBVIOUS
<1> HIDE DEF S
<1>2. f \in Seq(S)
  BY <1>1, SeqDef
<1> QED BY <1>2, SeqIsList

LEMMA ListChanges ==
  ASSUME NEW x, IsList(x)
  PROVE  /\ \A v : IsList(Append(x, v))
         /\ \A i \in DOMAIN x : IsList(Setup!RemoveAt(x, i))
         /\ \A i \in DOMAIN x : \A v : IsList([x EXCEPT ![i] = v])
<1> DEFINE S == {x[i] : i \in DOMAIN x}
<1>1. x \in Seq(S) /\ DOMAIN x = 1 .. Len(x) /\ Len(x) \in Nat
  <2>1. x \in Seq(S)
    BY DEF IsList
  <2> HIDE DEF S
  <2> QED BY <2>1, LenProperties
<1> HIDE DEF S
<1>2. ASSUME NEW v PROVE IsList(Append(x, v))
  <2>1. x \in Seq(S \cup {v})
    BY <1>1, SeqMonotonic
  <2>2. Append(x, v) \in Seq(S \cup {v})
    BY <2>1
  <2> QED BY <2>2, SeqIsList
<1>3. ASSUME NEW i \in DOMAIN x PROVE IsList(Setup!RemoveAt(x, i))
  <2>1. i \in 1 .. Len(x)
    BY <1>1
  <2>2. SubSeq(x, 1, i - 1) \in Seq(S) /\ SubSeq(x, i + 1, Len(x)) \in Seq(S)
    BY <1>1, <2>1
  <2>3. SubSeq(x, 1, i - 1) \o SubSeq(x, i + 1, Len(x)) \in Seq(S)
    BY <2>2, ConcatProperties
  <2> QED BY <2>3, SeqIsList DEF Setup!RemoveAt
<1>4. ASSUME NEW i \in DOMAIN x, NEW v PROVE IsList([x EXCEPT ![i] = v])
  <2>1. x \in Seq(S \cup {v})
    BY <1>1, SeqMonotonic
  <2>2. [x EXCEPT ![i] = v] \in Seq(S \cup {v})
    BY <1>1, <2>1, ExceptSeq
  <2> QED BY <2>2, SeqIsList
<1> QED BY <1>2, <1>3, <1>4

LEMMA HeadersAre ==
  ASSUME NEW p \in Pairs \cup {NoValue}
  PROVE  Setup!Left(p) \in Seq(STRING) /\ Setup!Right(p) \in Seq(STRING)
<1>1. <<>> \in Seq(STRING)
  OBVIOUS
<1>2. CASE p = NoValue
  BY <1>1, <1>2 DEF Setup!Left, Setup!Right
<1>3. CASE p # NoValue
  BY <1>3, SetupAssumption DEF Setup!Left, Setup!Right
<1> QED BY <1>2, <1>3

LEMMA StartingMapIsList ==
  ASSUME NEW p \in Pairs \cup {NoValue}
  PROVE  IsList(Setup!initialMapping(Setup!Left(p), Setup!Right(p), AlignColumns))
<1> DEFINE l == Setup!Left(p)
           r == Setup!Right(p)
           f == Setup!initialMapping(l, r, AlignColumns)
           n == IF Len(l) > Len(r) THEN Len(l) ELSE Len(r)
<1>1. l \in Seq(STRING) /\ r \in Seq(STRING)
  BY HeadersAre
<1> HIDE DEF l, r
<1>2. Len(l) \in Nat /\ Len(r) \in Nat /\ DOMAIN l = 1 .. Len(l) /\ n \in Nat
  BY <1>1
<1>3. CASE AlignColumns /\ l # <<>> /\ Len(l) <= Len(r)
           /\ Setup!ToSet(l) \subseteq Setup!ToSet(r)
  <2>1. f = [i \in DOMAIN l |-> Setup!Pairing(i - 1, Setup!FirstAt(r, l[i]) - 1)]
    BY <1>3 DEF Setup!initialMapping
  <2> HIDE DEF f
  <2>2. f = [i \in 1 .. Len(l) |-> f[i]]
    BY <1>2, <2>1
  <2> QED BY <1>2, <2>2, MapIsList DEF f, l, r
<1>4. CASE ~(AlignColumns /\ l # <<>> /\ Len(l) <= Len(r)
             /\ Setup!ToSet(l) \subseteq Setup!ToSet(r))
  <2>1. f = Setup!positionalMapping(Len(l), Len(r))
    BY <1>4 DEF Setup!initialMapping
  <2> HIDE DEF f
  <2>2. f = [i \in 1 .. n |-> f[i]]
    BY <2>1 DEF Setup!positionalMapping
  <2> HIDE DEF n
  <2> QED BY <1>2, <2>2, MapIsList DEF f, l, r
<1> QED BY <1>3, <1>4

\* A map whose rows all name a column is sent as it is.
LEMMA MapSentWhole ==
  ASSUME NEW x, IsList(x), NEW n, NEW m, Setup!validateMapping(x, n, m)
  PROVE  Setup!mappingToRequest(x) = x
<1> DEFINE S == {x[i] : i \in DOMAIN x}
           wanted == {p \in Setup!ToSet(x) : p.left # Setup!ABSENT \/ p.right # Setup!ABSENT}
<1>1. x \in Seq(S)
  BY DEF IsList
<1>2. \A k \in DOMAIN x : x[k] \in wanted
  BY DEF Setup!validateMapping, Setup!ToSet
<1>3. Setup!mappingToRequest(x) = Setup!Keep(x, wanted)
  BY DEF Setup!mappingToRequest
<1> HIDE DEF S, wanted
<1>4. Setup!Keep(x, wanted) = Keep(x, wanted)
  BY DEF Setup!Keep, Keep
<1>5. Keep(x, wanted) = x
  BY <1>1, <1>2, KeepHas DEF KeptIs
<1> QED BY <1>3, <1>4, <1>5

LEMMA SentMapIsList ==
  ASSUME NEW x, IsList(x)
  PROVE  IsList(Setup!mappingToRequest(x))
<1> DEFINE S == {x[i] : i \in DOMAIN x}
           wanted == {p \in Setup!ToSet(x) : p.left # Setup!ABSENT \/ p.right # Setup!ABSENT}
<1>1. x \in Seq(S)
  BY DEF IsList
<1>3. Setup!mappingToRequest(x) = Setup!Keep(x, wanted)
  BY DEF Setup!mappingToRequest
<1> HIDE DEF S, wanted
<1>4. Setup!Keep(x, wanted) = Keep(x, wanted)
  BY DEF Setup!Keep, Keep
<1>5. Keep(x, wanted) \in Seq(S)
  BY <1>1, KeepHas DEF KeptIs
<1> QED BY <1>3, <1>4, <1>5, SeqIsList

\* A request that is right under an inspection fits it.
LEMMA RequestFits ==
  ASSUME NEW p \in Pairs \cup {NoValue}, NEW keys, keys \subseteq Setup!ColumnsOf(p),
         NEW map, IsList(map), NEW dirty,
         NEW b, b.keys \subseteq keys,
         b.map = IF dirty THEN Setup!mappingToRequest(map) ELSE <<>>,
         dirty => Setup!validateMapping(map, Len(Setup!Left(p)), Len(Setup!Right(p))),
         ~(b.hasHeader /\ b.filter # "" /\ b.filter \notin Setup!ToSet(Setup!Left(p)))
  PROVE  Setup!Fits(b, p)
<1> DEFINE l == Setup!Left(p)
           r == Setup!Right(p)
<1>1. l \in Seq(STRING) /\ r \in Seq(STRING)
  BY HeadersAre
<1>0. DOMAIN l = 1 .. Len(l) /\ Len(l) \in Nat
  <2> HIDE DEF l
  <2> QED BY <1>1, LenProperties
<1>2. \A k \in b.keys : \E i \in DOMAIN l : k = [name |-> l[i], index |-> i - 1]
  BY DEF Setup!ColumnsOf
<1> HIDE DEF l, r
<1>3. ASSUME NEW k \in b.keys PROVE k.name \in Setup!ToSet(l) /\ k.index < Len(l)
  <2>1. PICK i \in DOMAIN l : k = [name |-> l[i], index |-> i - 1]
    BY <1>2
  <2>2. i - 1 < Len(l)
    BY <1>0, IndexBelow
  <2>3. k.name = l[i] /\ k.index = i - 1
    BY <2>1
  <2> QED BY <2>1, <2>2, <2>3 DEF Setup!ToSet
<1>4. Setup!validateMapping(b.map, Len(l), Len(r))
  <2>1. CASE dirty
    BY <2>1, MapSentWhole DEF l, r
  <2>2. CASE ~dirty
    <3>1. b.map = <<>>
      BY <2>2
    <3>2. DOMAIN <<>> = {}
      BY EmptyList
    <3> QED BY <3>1, <3>2 DEF Setup!validateMapping
  <2> QED BY <2>1, <2>2
<1> QED BY <1>3, <1>4 DEF Setup!Fits, l, r

\* What a call carries, and what its request was built under.
BodyOk(b) == b.pair \in Pairs /\ IsList(b.map)
CallOk(call) ==
  BodyOk(call.body) /\ (call.stage = "answer" => Setup!Fits(call.body, call.inspected))

FormInv == /\ pair \in Pairs /\ csvInspection \in Pairs \cup {NoValue}
           /\ selected \subseteq selectable
           /\ csvInspection # NoValue => selectable = Setup!ColumnsOf(csvInspection)
           /\ IsList(columnMap)

SetupInv ==
  /\ FormInv
  /\ \A b \in recent : BodyOk(b)
  /\ \A call \in calls : CallOk(call)

\* The request of the form, as it is or, under an inspection, as it may leave.
LEMMA BodyIsOk ==
  FormInv => BodyOk(Setup!csvRequestBody)
<1> SUFFICES ASSUME FormInv PROVE BodyOk(Setup!csvRequestBody)
  OBVIOUS
<1>1. IsList(columnMap) /\ pair \in Pairs
  BY DEF FormInv
<1>2. IsList(<<>>)
  BY EmptyList
<1>3. IsList(Setup!mappingToRequest(columnMap))
  BY <1>1, SentMapIsList
<1> QED BY <1>1, <1>2, <1>3 DEF BodyOk, Setup!csvRequestBody

LEMMA BodyFits ==
  FormInv /\ csvInspection # NoValue /\ Setup!validateInputs(Setup!csvRequestBody)
    => Setup!Fits(Setup!csvRequestBody, csvInspection)
<1> SUFFICES ASSUME FormInv, csvInspection # NoValue,
                    Setup!validateInputs(Setup!csvRequestBody)
             PROVE  Setup!Fits(Setup!csvRequestBody, csvInspection)
  OBVIOUS
<1> DEFINE b == Setup!csvRequestBody
<1>1. /\ b.keys \subseteq selected
      /\ b.map = IF columnMapDirty THEN Setup!mappingToRequest(columnMap) ELSE <<>>
      /\ b.hasHeader = setupHasHeader /\ b.filter = filterColumn
      /\ b.wrong = (Setup!filterStateErrors \/ (columnMapDirty /\ ~Setup!columnMapValid))
  BY DEF Setup!csvRequestBody
<1>2. ~Setup!filterStateErrors /\ (columnMapDirty => Setup!columnMapValid)
  BY <1>1 DEF Setup!validateInputs
<1> HIDE DEF b
<1>3. ~(b.hasHeader /\ b.filter # "" /\ b.filter \notin Setup!ToSet(Setup!Left(csvInspection)))
  BY <1>1, <1>2 DEF Setup!filterStateErrors
<1>4. columnMapDirty => Setup!validateMapping(columnMap, Len(Setup!Left(csvInspection)),
                                              Len(Setup!Right(csvInspection)))
  BY <1>2 DEF Setup!columnMapValid
<1>5. selected \subseteq Setup!ColumnsOf(csvInspection) /\ IsList(columnMap)
      /\ csvInspection \in Pairs \cup {NoValue}
  BY DEF FormInv
<1>6. Setup!Fits(b, csvInspection)
  BY <1>1, <1>3, <1>4, <1>5, RequestFits
<1> QED BY <1>6 DEF b

\* The form changes: the requests rest, or one joins them.
LEMMA SetupGoesOn ==
  ASSUME SetupInv, FormInv', \A b \in recent' : BodyOk(b), \A call \in calls' : CallOk(call)
  PROVE  SetupInv'
BY DEF SetupInv

LEMMA InspectingOk ==
  ASSUME NEW kind_, NEW b, BodyOk(b)
  PROVE  CallOk(Setup!Inspecting(kind_, b))
BY DEF CallOk, Setup!Inspecting

LEMMA SetupInit == Setup!Init => SetupInv
<1> SUFFICES ASSUME Setup!Init PROVE SetupInv
  OBVIOUS
<1> QED BY EmptyList DEF SetupInv, FormInv, Setup!Init

LEMMA FormRests ==
  ASSUME FormInv, UNCHANGED <<pair, csvInspection, selectable, selected, columnMap>>
  PROVE  FormInv'
BY DEF FormInv, IsList, Setup!ColumnsOf, Setup!Left

\* An edit of the form.
LEMMA AfterEdit ==
  ASSUME SetupInv, Setup!EditInput \/ Setup!SelectKeys \/ Setup!TypeFilter \/ Setup!EditMap
  PROVE  SetupInv'
<1>0. FormInv
  BY DEF SetupInv
<1>1. FormInv'
  <2>1. CASE Setup!EditInput
    <3>1. pair' \in Pairs /\ csvInspection' = NoValue
          /\ UNCHANGED <<selectable, selected, columnMap>>
      BY <1>0, <2>1 DEF FormInv, Setup!EditInput, Setup!keyVars, Setup!mapVars
    <3> QED BY <1>0, <3>1 DEF FormInv, IsList
  <2>2. CASE Setup!SelectKeys
    <3>1. UNCHANGED <<pair, csvInspection, selectable, columnMap>>
      BY <2>2 DEF Setup!SelectKeys, Setup!mapVars
    <3>2. selected' \subseteq selectable
      BY <1>0, <2>2 DEF FormInv, Setup!SelectKeys
    <3> QED BY <1>0, <3>1, <3>2 DEF FormInv, IsList, Setup!ColumnsOf, Setup!Left
  <2>3. CASE Setup!TypeFilter
    BY <1>0, <2>3, FormRests DEF Setup!TypeFilter, Setup!keyVars, Setup!mapVars
  <2>4. CASE Setup!EditMap
    <3>1. UNCHANGED <<pair, csvInspection, selectable, selected>>
      BY <2>4 DEF Setup!EditMap, Setup!form, Setup!keyVars
    <3>2. IsList(columnMap')
      <4> DEFINE l == Setup!Left(csvInspection)
                 r == Setup!Right(csvInspection)
                 start == Setup!initialMapping(l, r, AlignColumns)
      <4>1. IsList(start) /\ IsList(<<>>)
        BY <1>0, EmptyList, StartingMapIsList DEF FormInv
      <4>2. \/ columnMap' = start
            \/ columnMap' = <<>>
            \/ columnMap' = Append(columnMap, Setup!Pairing(Setup!ABSENT, Setup!ABSENT))
            \/ \E i \in DOMAIN columnMap : \/ columnMap' = Setup!RemoveAt(columnMap, i)
                                          \/ \E v : columnMap' = [columnMap EXCEPT ![i] = v]
        BY <2>4 DEF Setup!EditMap
      <4> HIDE DEF start
      <4>3. IsList(columnMap)
        BY <1>0 DEF FormInv
      <4>4. CASE columnMap' = start
        BY <4>1, <4>4
      <4>5. CASE columnMap' = <<>>
        BY <4>1, <4>5
      <4>6. CASE columnMap' = Append(columnMap, Setup!Pairing(Setup!ABSENT, Setup!ABSENT))
        BY <4>3, <4>6, ListChanges
      <4>7. CASE \E i \in DOMAIN columnMap : \/ columnMap' = Setup!RemoveAt(columnMap, i)
                                             \/ \E v : columnMap' = [columnMap EXCEPT ![i] = v]
        BY <4>3, <4>7, ListChanges
      <4> QED BY <4>2, <4>4, <4>5, <4>6, <4>7
    <3> QED BY <1>0, <3>1, <3>2 DEF FormInv, Setup!ColumnsOf, Setup!Left
  <2> QED BY <2>1, <2>2, <2>3, <2>4
<1>2. UNCHANGED <<calls, recent>>
  BY DEF Setup!EditInput, Setup!SelectKeys, Setup!TypeFilter, Setup!EditMap
<1> QED BY <1>1, <1>2, SetupGoesOn DEF SetupInv

\* An inspection or a comparison is asked for.
LEMMA AfterRequest ==
  ASSUME SetupInv, Setup!inspectCSV \/ Setup!Run \/ Setup!ApplyMap
  PROVE  SetupInv'
<1>0. FormInv
  BY DEF SetupInv
<1>1. FormInv' /\ UNCHANGED <<csvInspection, recent>>
  <2>1. UNCHANGED <<pair, csvInspection, selectable, selected, columnMap, recent>>
    BY DEF Setup!inspectCSV, Setup!Run, Setup!ApplyMap, Setup!form, Setup!keyVars, Setup!mapVars
  <2> QED BY <1>0, <2>1, FormRests
<1>2. BodyOk(Setup!csvRequestBody) /\ BodyOk(Setup!csvRequestBody')
  <2>1. BodyOk(Setup!csvRequestBody)
    BY <1>0, BodyIsOk
  <2>2. FormInv' => BodyOk(Setup!csvRequestBody)'
    BY BodyIsOk, PTL
  <2>3. BodyOk(Setup!csvRequestBody)' <=> BodyOk(Setup!csvRequestBody')
    BY DEF BodyOk, IsList
  <2> QED BY <1>1, <2>1, <2>2, <2>3
<1>3. \A call \in calls' : CallOk(call)
  <2>1. CASE Setup!inspectCSV
    <3>1. calls' = calls \cup {Setup!Inspecting("inspect", Setup!csvRequestBody)}
      BY <2>1 DEF Setup!inspectCSV
    <3> QED BY <1>2, <3>1, InspectingOk DEF SetupInv
  <2>2. CASE Setup!Run
    <3>1. CASE csvInspection = NoValue
      <4>1. calls' = calls \cup {Setup!Inspecting("run", Setup!csvRequestBody)}
        BY <2>2, <3>1 DEF Setup!Run
      <4> QED BY <1>2, <4>1, InspectingOk DEF SetupInv
    <3>2. CASE csvInspection # NoValue
      <4>1. calls' = calls \cup {Setup!Sent("run", Setup!csvRequestBody)}
            /\ Setup!validateInputs(Setup!csvRequestBody)
        BY <2>2, <3>2 DEF Setup!Run
      <4>2. Setup!Fits(Setup!csvRequestBody, csvInspection')
        BY <1>0, <1>1, <3>2, <4>1, BodyFits
      <4>3. CallOk(Setup!Sent("run", Setup!csvRequestBody))
        BY <1>2, <4>2 DEF CallOk, Setup!Sent
      <4> QED BY <4>1, <4>3 DEF SetupInv
    <3> QED BY <3>1, <3>2
  <2>3. CASE Setup!ApplyMap
    <3>1. CASE csvInspection = NoValue
      <4>1. calls' = calls \cup {Setup!Inspecting("apply", Setup!csvRequestBody')}
        BY <2>3, <3>1 DEF Setup!ApplyMap
      <4> QED BY <1>2, <4>1, InspectingOk DEF SetupInv
    <3>2. CASE csvInspection # NoValue
      <4>1. calls' = calls \cup {Setup!Sent("apply", Setup!csvRequestBody')}
            /\ Setup!validateInputs(Setup!csvRequestBody')
        BY <2>3, <3>2 DEF Setup!ApplyMap
      <4>2. Setup!Fits(Setup!csvRequestBody', csvInspection')
        <5>1. (FormInv /\ csvInspection # NoValue /\ Setup!validateInputs(Setup!csvRequestBody)
                 => Setup!Fits(Setup!csvRequestBody, csvInspection))'
          BY BodyFits, PTL
        <5>2. Setup!validateInputs(Setup!csvRequestBody') <=> Setup!validateInputs(Setup!csvRequestBody)'
          BY DEF Setup!validateInputs
        <5>3. Setup!Fits(Setup!csvRequestBody, csvInspection)'
          BY <1>1, <3>2, <4>1, <5>1, <5>2
        <5> QED BY <5>3 DEF Setup!Fits
      <4>3. CallOk(Setup!Sent("apply", Setup!csvRequestBody'))
        BY <1>2, <4>2 DEF CallOk, Setup!Sent
      <4> QED BY <4>1, <4>3 DEF SetupInv
    <3> QED BY <3>1, <3>2
  <2> QED BY <2>1, <2>2, <2>3
<1> QED BY <1>1, <1>3, SetupGoesOn DEF SetupInv

\* A project is chosen: its inputs come into the form, and its body into the call.
LEMMA AfterProject ==
  ASSUME SetupInv, NEW b \in recent, NEW kind_ \in {"recent", "load"},
         Setup!ChooseProject(kind_, b) \/ Setup!ChooseRefused(kind_, b)
  PROVE  SetupInv'
<1>1. BodyOk(b)
  BY DEF SetupInv
<1>2. pair' = b.pair /\ csvInspection' = NoValue /\ UNCHANGED <<selectable, selected, columnMap, recent>>
  BY DEF Setup!ChooseProject, Setup!ChooseRefused, Setup!keyVars, Setup!mapVars
<1>3. FormInv'
  BY <1>1, <1>2 DEF SetupInv, FormInv, IsList, BodyOk
<1>4. calls' = calls \/ calls' = calls \cup {Setup!Inspecting(kind_, b)}
  BY DEF Setup!ChooseProject, Setup!ChooseRefused
<1>5. \A call \in calls' : CallOk(call)
  BY <1>1, <1>4, InspectingOk DEF SetupInv
<1> QED BY <1>2, <1>3, <1>5, SetupGoesOn DEF SetupInv

\* An inspection is answered: the key list and the inspection change together, and the
\* request that waited is built again.
LEMMA AfterInspected ==
  ASSUME SetupInv, NEW call \in calls, Setup!Inspected(call)
  PROVE  SetupInv'
<1> DEFINE p == call.body.pair
           rest == calls \ {call}
<1>1. p \in Pairs /\ IsList(call.body.map)
  BY DEF SetupInv, CallOk, BodyOk
<1>2. csvInspection' = p /\ UNCHANGED <<pair, recent>>
  BY DEF Setup!Inspected
<1>3. selectable' = Setup!ColumnsOf(p) /\ selected' \subseteq Setup!ColumnsOf(p)
  BY DEF Setup!Inspected, Setup!renderColumnSelection
<1>4. columnMap' \in {columnMap, call.body.map,
                      Setup!initialMapping(Setup!Left(p), Setup!Right(p), AlignColumns)}
  BY DEF Setup!Inspected, Setup!StartingMap, Setup!mapVars
<1>5. IsList(columnMap')
  <2>1. IsList(columnMap)
    BY DEF SetupInv, FormInv
  <2>2. IsList(Setup!initialMapping(Setup!Left(p), Setup!Right(p), AlignColumns))
    BY <1>1, StartingMapIsList
  <2> QED BY <1>1, <1>4, <2>1, <2>2
<1>6. FormInv'
  <2>1. pair \in Pairs
    BY DEF SetupInv, FormInv
  <2>2. Setup!ColumnsOf(p) = Setup!ColumnsOf(csvInspection)'
    BY <1>2 DEF Setup!ColumnsOf, Setup!Left
  <2> QED BY <1>1, <1>2, <1>3, <1>5, <2>1, <2>2 DEF FormInv, IsList
<1>7. calls' = rest \/ (/\ calls' = rest \cup {Setup!Sent(call.kind, Setup!csvRequestBody')}
                        /\ Setup!validateInputs(Setup!csvRequestBody'))
  BY DEF Setup!Inspected
<1>8. \A c \in calls' : CallOk(c)
  <2>1. \A c \in rest : CallOk(c)
    BY DEF SetupInv
  <2>2. CASE calls' = rest
    BY <2>1, <2>2
  <2>3. CASE /\ calls' = rest \cup {Setup!Sent(call.kind, Setup!csvRequestBody')}
             /\ Setup!validateInputs(Setup!csvRequestBody')
    <3>1. (FormInv => BodyOk(Setup!csvRequestBody))'
      BY BodyIsOk, PTL
    <3>2. BodyOk(Setup!csvRequestBody)' <=> BodyOk(Setup!csvRequestBody')
      BY DEF BodyOk, IsList
    <3>3. Setup!Fits(Setup!csvRequestBody', csvInspection')
      <4>1. CASE csvInspection' # NoValue
        <5>1. (FormInv /\ csvInspection # NoValue /\ Setup!validateInputs(Setup!csvRequestBody)
                 => Setup!Fits(Setup!csvRequestBody, csvInspection))'
          BY BodyFits, PTL
        <5>2. Setup!validateInputs(Setup!csvRequestBody') <=> Setup!validateInputs(Setup!csvRequestBody)'
          BY DEF Setup!validateInputs
        <5>3. Setup!Fits(Setup!csvRequestBody, csvInspection)'
          BY <1>6, <2>3, <4>1, <5>1, <5>2
        <5> QED BY <5>3 DEF Setup!Fits
      <4>2. CASE csvInspection' = NoValue
        BY <4>2, <1>1, <1>2, SetupAssumption
      <4> QED BY <4>1, <4>2
    <3>4. CallOk(Setup!Sent(call.kind, Setup!csvRequestBody'))
      BY <1>6, <3>1, <3>2, <3>3 DEF CallOk, Setup!Sent
    <3> QED BY <2>1, <2>3, <3>4
  <2> QED BY <1>7, <2>2, <2>3
<1> QED BY <1>2, <1>6, <1>8, SetupGoesOn DEF SetupInv

LEMMA SetupNext == SetupInv /\ [Setup!Next]_(Setup!vars) => SetupInv'
<1> SUFFICES ASSUME SetupInv, [Setup!Next]_(Setup!vars) PROVE SetupInv'
  OBVIOUS
<1>1. CASE Setup!EditInput \/ Setup!SelectKeys \/ Setup!TypeFilter \/ Setup!EditMap
  BY <1>1, AfterEdit
<1>2. CASE Setup!inspectCSV \/ Setup!Run \/ Setup!ApplyMap
  BY <1>2, AfterRequest
<1>3. CASE \E b \in recent, k \in {"recent", "load"} :
             Setup!ChooseProject(k, b) \/ Setup!ChooseRefused(k, b)
  BY <1>3, AfterProject
<1>4. CASE \E call \in calls : Setup!Inspected(call)
  BY <1>4, AfterInspected
<1>5. CASE \E call \in calls : Setup!InspectionFailed(call) \/ \E ok \in BOOLEAN : Setup!Answered(call, ok)
  <2>1. PICK call \in calls : Setup!InspectionFailed(call) \/ \E ok \in BOOLEAN : Setup!Answered(call, ok)
    BY <1>5
  <2>2. UNCHANGED <<pair, csvInspection, selectable, selected, columnMap>>
        /\ calls' = calls \ {call}
    BY <2>1 DEF Setup!InspectionFailed, Setup!Answered, Setup!form, Setup!keyVars, Setup!mapVars
  <2>3. recent' \subseteq recent \cup {call.body}
    BY <2>1 DEF Setup!InspectionFailed, Setup!Answered
  <2>4. FormInv'
    BY <2>2, FormRests DEF SetupInv
  <2>5. BodyOk(call.body)
    BY DEF SetupInv, CallOk
  <2> QED BY <2>2, <2>3, <2>4, <2>5, SetupGoesOn DEF SetupInv
<1>6. CASE UNCHANGED Setup!vars
  <2>1. UNCHANGED <<pair, csvInspection, selectable, selected, columnMap, calls, recent>>
    BY <1>6 DEF Setup!vars, Setup!form, Setup!keyVars, Setup!mapVars
  <2>2. FormInv'
    BY <2>1, FormRests DEF SetupInv
  <2> QED BY <2>1, <2>2, SetupGoesOn DEF SetupInv
<1> QED BY <1>1, <1>2, <1>3, <1>4, <1>5, <1>6 DEF Setup!Next

\* In whatever order the form is edited, inspected, filled from a project and asked, and
\* its answers come: a request names columns of the inspection it is sent with.
THEOREM RequestsFit == PanelsSpec => []RequestFitsInspection
<1>1. SetupInv => RequestFitsInspection
  BY DEF SetupInv, CallOk, RequestFitsInspection, Setup!RequestFitsInspection
<1>2. PanelsSpec => Setup!Init /\ [][Setup!Next]_(Setup!vars)
  BY PanelsBehave
<1> QED BY <1>1, <1>2, SetupInit, SetupNext, PTL

--------------------------------------------------------------------------------
(* Columns in an order, and pages. *)

\* Taking an item out of a list and putting it in elsewhere.
Moved(f, t, i) ==
  IF i = t THEN f
  ELSE LET j == IF i < t THEN i ELSE i - 1 IN IF j < f THEN j ELSE j + 1

Rearranges(f, t, n) ==
  /\ \A i \in 1 .. n : Moved(f, t, i) \in 1 .. n
  /\ \A i, j \in 1 .. n : Moved(f, t, i) = Moved(f, t, j) => i = j
  /\ \A k \in 1 .. n : \E i \in 1 .. n : Moved(f, t, i) = k

LEMMA MovedIs ==
  ASSUME NEW n \in Nat, NEW f \in 1 .. n, NEW t \in 1 .. n
  PROVE  Rearranges(f, t, n)
<1>1. \A i \in 1 .. n : Moved(f, t, i) \in 1 .. n
  BY DEF Moved
<1>2. \A i, j \in 1 .. n : Moved(f, t, i) = Moved(f, t, j) => i = j
  BY DEF Moved
<1>3. ASSUME NEW k \in 1 .. n PROVE \E i \in 1 .. n : Moved(f, t, i) = k
  <2> DEFINE j == IF k < f THEN k ELSE k - 1
             i == IF k = f THEN t ELSE IF j < t THEN j ELSE j + 1
  <2>1. i \in 1 .. n
    OBVIOUS
  <2>2. Moved(f, t, i) = k
    BY DEF Moved
  <2> QED BY <2>1, <2>2
<1> QED BY <1>1, <1>2, <1>3 DEF Rearranges

LEMMA SubSeqIs ==
  ASSUME NEW S, NEW s \in Seq(S), NEW m \in 1 .. Len(s) + 1, NEW n \in m - 1 .. Len(s)
  PROVE  /\ SubSeq(s, m, n) \in Seq(S) /\ Len(SubSeq(s, m, n)) = n - m + 1
         /\ \A i \in 1 .. n - m + 1 : SubSeq(s, m, n)[i] = s[m + i - 1]
<1>1. \A i \in m .. n : s[i] \in S
  OBVIOUS
<1>2. /\ SubSeq(s, m, n) \in Seq(S)
      /\ Len(SubSeq(s, m, n)) = IF m <= n THEN n - m + 1 ELSE 0
      /\ \A i \in 1 .. n - m + 1 : SubSeq(s, m, n)[i] = s[m + i - 1]
  BY <1>1, SubSeqProperties
<1> QED BY <1>2

LEMMA TakenOut ==
  ASSUME NEW S, NEW s \in Seq(S), NEW f \in 1 .. Len(s)
  PROVE  LET r == Table!RemoveAt(s, f)
         IN  /\ r \in Seq(S) /\ Len(r) = Len(s) - 1
             /\ \A i \in 1 .. Len(s) - 1 : r[i] = s[IF i < f THEN i ELSE i + 1]
<1> DEFINE a == SubSeq(s, 1, f - 1)
           b == SubSeq(s, f + 1, Len(s))
           r == a \o b
           n == Len(s)
<1>0. n \in Nat /\ f \in 1 .. n
  OBVIOUS
<1>1. a \in Seq(S) /\ Len(a) = f - 1 /\ \A i \in 1 .. f - 1 : a[i] = s[i]
  <2>1. /\ a \in Seq(S) /\ Len(a) = (f - 1) - 1 + 1
        /\ \A i \in 1 .. (f - 1) - 1 + 1 : a[i] = s[1 + i - 1]
    <3>1. 1 \in 1 .. Len(s) + 1 /\ f - 1 \in 1 - 1 .. Len(s)
      OBVIOUS
    <3> QED BY <3>1, SubSeqIs
  <2> HIDE DEF a, n
  <2> QED BY <2>1, <1>0
<1>2. b \in Seq(S) /\ Len(b) = n - f /\ \A i \in 1 .. n - f : b[i] = s[f + i]
  <2>1. /\ b \in Seq(S) /\ Len(b) = n - (f + 1) + 1
        /\ \A i \in 1 .. n - (f + 1) + 1 : b[i] = s[(f + 1) + i - 1]
    <3>1. f + 1 \in 1 .. Len(s) + 1 /\ Len(s) \in (f + 1) - 1 .. Len(s)
      OBVIOUS
    <3> QED BY <3>1, SubSeqIs
  <2> HIDE DEF b, n
  <2>2. n - (f + 1) + 1 = n - f /\ \A i \in 1 .. n - f : (f + 1) + i - 1 = f + i
    BY <1>0
  <2> QED BY <2>1, <2>2
<1> HIDE DEF a, b, n
<1>3. /\ r \in Seq(S) /\ Len(r) = Len(a) + Len(b)
      /\ \A i \in 1 .. Len(a) + Len(b) : r[i] = IF i <= Len(a) THEN a[i] ELSE b[i - Len(a)]
  <2>1. a \in Seq(S) /\ b \in Seq(S)
    BY <1>1, <1>2
  <2> QED BY <2>1, ConcatProperties, Zenon
<1> HIDE DEF r
<1>4. Len(r) = n - 1
  BY <1>0, <1>1, <1>2, <1>3
<1>5. ASSUME NEW i \in 1 .. n - 1 PROVE r[i] = s[IF i < f THEN i ELSE i + 1]
  <2>0. i \in 1 .. Len(a) + Len(b)
    BY <1>0, <1>1, <1>2
  <2>1. CASE i < f
    <3>1. i \in 1 .. f - 1 /\ i <= Len(a)
      BY <1>0, <1>1, <2>1
    <3>2. r[i] = a[i]
      BY <1>3, <2>0, <3>1
    <3> QED BY <1>1, <2>1, <3>1, <3>2
  <2>2. CASE ~(i < f)
    <3>1. PICK q \in 1 .. n - f : q = i - (f - 1)
      BY <1>0, <2>2
    <3>2. ~(i <= Len(a)) /\ i - Len(a) = q /\ f + q = i + 1
      BY <1>0, <1>1, <2>2, <3>1
    <3>3. r[i] = b[q]
      BY <1>3, <2>0, <3>2
    <3>4. b[q] = s[f + q]
      BY <1>2
    <3> QED BY <2>2, <3>2, <3>3, <3>4
  <2> QED BY <2>1, <2>2
<1> QED BY <1>3, <1>4, <1>5 DEF Table!RemoveAt, r, a, b, n

Inserted(r, S, s, t, x) ==
  /\ r \in Seq(S) /\ Len(r) = Len(s) + 1
  /\ \A i \in 1 .. Len(s) + 1 : r[i] = IF i < t THEN s[i] ELSE IF i = t THEN x ELSE s[i - 1]

LEMMA PutIn ==
  ASSUME NEW S, NEW s \in Seq(S), NEW t \in 1 .. Len(s) + 1, NEW x \in S
  PROVE  Inserted(Table!InsertAt(s, t, x), S, s, t, x)
<1> DEFINE a == SubSeq(s, 1, t - 1)
           b == SubSeq(s, t, Len(s))
           c == a \o <<x>>
           r == c \o b
           n == Len(s)
<1>0. n \in Nat /\ t \in 1 .. n + 1
  OBVIOUS
<1>1. a \in Seq(S) /\ Len(a) = t - 1 /\ \A i \in 1 .. t - 1 : a[i] = s[i]
  <2>1. /\ a \in Seq(S) /\ Len(a) = (t - 1) - 1 + 1
        /\ \A i \in 1 .. (t - 1) - 1 + 1 : a[i] = s[1 + i - 1]
    <3>1. 1 \in 1 .. Len(s) + 1 /\ t - 1 \in 1 - 1 .. Len(s)
      OBVIOUS
    <3> QED BY <3>1, SubSeqIs
  <2> HIDE DEF a, n
  <2> QED BY <2>1, <1>0
<1>2. b \in Seq(S) /\ Len(b) = n - t + 1 /\ \A i \in 1 .. n - t + 1 : b[i] = s[t + i - 1]
  <2>1. t \in 1 .. Len(s) + 1 /\ Len(s) \in t - 1 .. Len(s)
    OBVIOUS
  <2> QED BY <2>1, SubSeqIs
<1> HIDE DEF a, b, n
<1>3. c \in Seq(S) /\ Len(c) = t /\ c[t] = x /\ \A i \in 1 .. t - 1 : c[i] = a[i]
  <2>1. c \in Seq(S) /\ Len(c) = Len(a) + 1 /\ c[Len(a) + 1] = x
        /\ \A i \in 1 .. Len(a) : c[i] = a[i]
    BY <1>1
  <2> HIDE DEF c
  <2> QED BY <1>0, <1>1, <2>1
<1> HIDE DEF c
<1>4. /\ r \in Seq(S) /\ Len(r) = Len(c) + Len(b)
      /\ \A i \in 1 .. Len(c) + Len(b) : r[i] = IF i <= Len(c) THEN c[i] ELSE b[i - Len(c)]
  <2>1. c \in Seq(S) /\ b \in Seq(S)
    BY <1>2, <1>3
  <2> QED BY <2>1, ConcatProperties, Zenon
<1> HIDE DEF r
<1>5. Len(r) = n + 1
  BY <1>0, <1>2, <1>3, <1>4
<1>6. ASSUME NEW i \in 1 .. n + 1
      PROVE  r[i] = IF i < t THEN s[i] ELSE IF i = t THEN x ELSE s[i - 1]
  <2>0. i \in 1 .. Len(c) + Len(b)
    BY <1>0, <1>2, <1>3
  <2>1. CASE i < t
    <3>1. i \in 1 .. t - 1 /\ i <= Len(c)
      BY <1>0, <1>3, <2>1
    <3>2. r[i] = c[i]
      BY <1>4, <2>0, <3>1
    <3> QED BY <1>1, <1>3, <2>1, <3>1, <3>2
  <2>2. CASE i = t
    <3>1. i <= Len(c) /\ ~(i < t)
      BY <1>0, <1>3, <2>2
    <3>2. r[i] = c[t]
      BY <1>4, <2>0, <2>2, <3>1
    <3> QED BY <1>3, <2>2, <3>1, <3>2
  <2>3. CASE i > t
    <3>1. PICK q \in 1 .. n - t + 1 : q = i - t
      BY <1>0, <2>3
    <3>2. ~(i <= Len(c)) /\ i - Len(c) = q /\ t + q - 1 = i - 1 /\ ~(i < t) /\ i # t
      BY <1>0, <1>3, <2>3, <3>1
    <3>3. r[i] = b[q]
      BY <1>4, <2>0, <3>2
    <3>4. b[q] = s[t + q - 1]
      BY <1>2
    <3> QED BY <3>2, <3>3, <3>4
  <2> QED BY <1>0, <2>1, <2>2, <2>3
<1> QED BY <1>4, <1>5, <1>6 DEF Inserted, Table!InsertAt, r, c, a, b, n

\* Columns in some order, each once.
Arranged(columns, all) ==
  /\ columns \in Seq(Nat)
  /\ \A i, j \in DOMAIN columns : columns[i] = columns[j] => i = j
  /\ {columns[i] : i \in DOMAIN columns} = all

LEMMA MovedArranged ==
  ASSUME NEW c, NEW all, Arranged(c, all), NEW f \in 1 .. Len(c), NEW t \in 1 .. Len(c)
  PROVE  Arranged(Table!InsertAt(Table!RemoveAt(c, f), t, c[f]), all)
<1> DEFINE n == Len(c)
<1>0. c \in Seq(Nat) /\ n \in Nat /\ DOMAIN c = 1 .. n /\ f \in 1 .. n /\ t \in 1 .. n
  BY DEF Arranged
<1>1. PICK s : s = Table!RemoveAt(c, f)
  OBVIOUS
<1>2. PICK x \in Nat : x = c[f]
  BY <1>0
<1>3. PICK q : q = Table!InsertAt(s, t, x)
  OBVIOUS
<1>4. s \in Seq(Nat) /\ Len(s) = n - 1
      /\ \A i \in 1 .. n - 1 : s[i] = c[IF i < f THEN i ELSE i + 1]
  BY <1>0, <1>1, TakenOut
<1> HIDE DEF n
<1>5. q \in Seq(Nat) /\ Len(q) = n
      /\ \A i \in 1 .. n : q[i] = IF i < t THEN s[i] ELSE IF i = t THEN x ELSE s[i - 1]
  <2>1. Len(s) + 1 = n /\ t \in 1 .. Len(s) + 1
    BY <1>0, <1>4
  <2>2. /\ q \in Seq(Nat) /\ Len(q) = Len(s) + 1
        /\ \A i \in 1 .. Len(s) + 1 : q[i] = IF i < t THEN s[i] ELSE IF i = t THEN x ELSE s[i - 1]
    <3>1. s \in Seq(Nat)
      BY <1>4
    <3>2. Inserted(Table!InsertAt(s, t, x), Nat, s, t, x)
      BY <3>1, <2>1, PutIn
    <3> QED BY <1>3, <3>2 DEF Inserted
  <2> QED BY <2>1, <2>2
<1>6. ASSUME NEW i \in 1 .. n PROVE q[i] = c[Moved(f, t, i)]
  <2>1. CASE i < t
    <3>1. i \in 1 .. n - 1 /\ Moved(f, t, i) = IF i < f THEN i ELSE i + 1
      BY <1>0, <2>1 DEF Moved
    <3> QED BY <1>4, <1>5, <2>1, <3>1
  <2>2. CASE i = t
    <3>1. Moved(f, t, i) = f /\ ~(i < t)
      BY <1>0, <2>2 DEF Moved
    <3> QED BY <1>2, <1>5, <2>2, <3>1
  <2>3. CASE i > t
    <3>1. PICK k \in 1 .. n - 1 : k = i - 1
      BY <1>0, <2>3
    <3>2. ~(i < t) /\ i # t /\ Moved(f, t, i) = IF k < f THEN k ELSE k + 1
      BY <1>0, <2>3, <3>1 DEF Moved
    <3>3. q[i] = s[k]
      BY <1>5, <3>1, <3>2
    <3> QED BY <1>4, <3>2, <3>3
  <2> QED BY <1>0, <2>1, <2>2, <2>3
<1>7. /\ \A i \in 1 .. n : Moved(f, t, i) \in 1 .. n
      /\ \A i, j \in 1 .. n : Moved(f, t, i) = Moved(f, t, j) => i = j
      /\ \A k \in 1 .. n : \E i \in 1 .. n : Moved(f, t, i) = k
  <2>1. Rearranges(f, t, n)
    BY <1>0, MovedIs
  <2> QED BY <2>1 DEF Rearranges
<1>8. DOMAIN q = 1 .. n
  BY <1>5
<1>9. ASSUME NEW i \in 1 .. n, NEW j \in 1 .. n, q[i] = q[j] PROVE i = j
  <2>1. PICK a \in 1 .. n : a = Moved(f, t, i)
    BY <1>7
  <2>2. PICK b \in 1 .. n : b = Moved(f, t, j)
    BY <1>7
  <2>3. c[a] = c[b]
    BY <1>6, <1>9, <2>1, <2>2
  <2>4. a = b
    BY <1>0, <2>3 DEF Arranged
  <2> QED BY <1>7, <2>1, <2>2, <2>4
<1>10. {q[i] : i \in 1 .. n} = {c[k] : k \in 1 .. n}
  <2>1. ASSUME NEW i \in 1 .. n PROVE q[i] \in {c[k] : k \in 1 .. n}
    BY <1>6, <1>7
  <2>2. ASSUME NEW k \in 1 .. n PROVE c[k] \in {q[i] : i \in 1 .. n}
    <3>1. PICK i \in 1 .. n : Moved(f, t, i) = k
      BY <1>7
    <3> QED BY <1>6, <3>1
  <2> QED BY <2>1, <2>2
<1>11. {q[i] : i \in DOMAIN q} = all
  BY <1>0, <1>8, <1>10 DEF Arranged
<1>12. Arranged(q, all)
  BY <1>5, <1>8, <1>9, <1>11 DEF Arranged
<1> QED BY <1>1, <1>2, <1>3, <1>12

LEMMA ReorderedArranged ==
  ASSUME NEW c, NEW all, Arranged(c, all), NEW from \in Nat, NEW to \in Nat
  PROVE  Arranged(Table!reorderColumns(c, from, to), all)
<1> DEFINE n == Len(c)
<1>0. n \in Nat
  BY DEF Arranged
<1>1. CASE from \notin 0 .. (n - 1)
  BY <1>1 DEF Table!reorderColumns
<1>2. CASE from \in 0 .. (n - 1)
  <2>1. PICK f : f = from + 1
    OBVIOUS
  <2>2. PICK t : t = Table!AtMost(to, n - 1) + 1
    OBVIOUS
  <2>3. f \in 1 .. n /\ t \in 1 .. n
    BY <1>0, <1>2, <2>1, <2>2 DEF Table!AtMost
  <2>4. Table!reorderColumns(c, from, to) = Table!InsertAt(Table!RemoveAt(c, f), t, c[f])
    BY <1>2, <2>1, <2>2 DEF Table!reorderColumns
  <2> QED BY <2>3, <2>4, MovedArranged
<1> QED BY <1>1, <1>2

LEMMA ArrangedCount ==
  ASSUME NEW c, NEW all, Arranged(c, all)
  PROVE  Cardinality(all) = Len(c)
<1> DEFINE n == Len(c)
<1>1. c \in Seq(Nat) /\ n \in Nat /\ DOMAIN c = 1 .. n
  BY DEF Arranged
<1> HIDE DEF n
<1>2. /\ c \in [1 .. n -> all]
      /\ \A i, j \in 1 .. n : c[i] = c[j] => i = j
      /\ \A x \in all : \E i \in 1 .. n : c[i] = x
  <2>1. c \in [1 .. n -> Nat]
    BY <1>1, LenProperties DEF n
  <2> QED BY <1>1, <2>1 DEF Arranged
<1>3. c \in Bijection(1 .. n, all)
  BY <1>2 DEF Bijection, Injection, Surjection, IsInjective
<1> QED BY <1>1, <1>3, FS_CountingElements DEF ExistsBijection, n

\* The columns of a result, or those that changed.
LEMMA VisibleArranged ==
  ASSUME NEW data, data.columns \in Nat, data.changed \subseteq 0 .. (data.columns - 1)
  PROVE  LET every == [i \in 1 .. data.columns |-> i - 1]
         IN  /\ Arranged(every, 0 .. (data.columns - 1))
             /\ Arranged(Table!Keep(every, data.changed), data.changed)
<1> DEFINE n == data.columns
           every == [i \in 1 .. n |-> i - 1]
           kept == Keep(every, data.changed)
<1>0. n \in Nat /\ data.changed \subseteq 0 .. (n - 1)
  OBVIOUS
<1> HIDE DEF n
<1>1. every \in [1 .. n -> Nat] /\ \A i \in 1 .. n : every[i] = i - 1
  BY <1>0
<1> HIDE DEF every
<1>2. every \in Seq(Nat)
  BY <1>0, <1>1, SeqDef
<1>3. \A i, j \in 1 .. n : every[i] = every[j] => i = j
  BY <1>0, <1>1
<1>4. {every[i] : i \in 1 .. n} = 0 .. (n - 1)
  <2>1. ASSUME NEW i \in 1 .. n PROVE every[i] \in 0 .. (n - 1)
    BY <1>0, <1>1
  <2>2. ASSUME NEW k \in 0 .. (n - 1) PROVE k \in {every[i] : i \in 1 .. n}
    <3>1. k + 1 \in 1 .. n /\ (k + 1) - 1 = k
      BY <1>0
    <3> QED BY <1>1, <3>1
  <2> QED BY <2>1, <2>2
<1>5. DOMAIN every = 1 .. n
  BY <1>1
<1>6. Arranged(every, 0 .. (n - 1))
  BY <1>2, <1>3, <1>4, <1>5 DEF Arranged
<1>7. /\ kept \in Seq(Nat)
      /\ {kept[i] : i \in DOMAIN kept} = {every[k] : k \in DOMAIN every} \cap data.changed
      /\ \A i, j \in DOMAIN kept : i # j =>
           \E k, l \in DOMAIN every : k # l /\ kept[i] = every[k] /\ kept[j] = every[l]
  <2>1. KeptIs(kept, Nat, every, data.changed)
    BY <1>2, KeepHas
  <2> QED BY <2>1 DEF KeptIs
<1> HIDE DEF kept
<1>8. \A i, j \in DOMAIN kept : kept[i] = kept[j] => i = j
  BY <1>3, <1>5, <1>7
<1>9. {every[k] : k \in DOMAIN every} \cap data.changed = data.changed
  BY <1>0, <1>4, <1>5
<1>10. Arranged(kept, data.changed)
  BY <1>7, <1>8, <1>9 DEF Arranged
<1>11. kept = Table!Keep(every, data.changed)
  BY DEF kept, Keep, Table!Keep
<1> QED BY <1>6, <1>10, <1>11 DEF every, n

\* The pages of a result.
LEMMA PagesAre ==
  ASSUME NEW rows \in Nat
  PROVE  /\ Table!csvPageCount(rows) \in Nat \ {0}
         /\ rows # 0 => \A page \in 0 .. (Table!csvPageCount(rows) - 1) :
              page * PageSize \in 0 .. (rows - 1)
<1> DEFINE P == PageSize
           q == (rows + P - 1) \div P
           C == Table!csvPageCount(rows)
<1>0. P \in Nat /\ P > 0
  BY TableAssumption
<1> HIDE DEF P
<1>1. rows + P - 1 \in Nat
  BY <1>0
<1>2. q \in Nat /\ q * P <= rows + P - 1 /\ rows + P - 1 < (q + 1) * P
  BY <1>0, <1>1
<1>3. C = IF 1 > q THEN 1 ELSE q
  BY DEF Table!csvPageCount, Table!AtLeast, P
<1> HIDE DEF q, C
<1>4. C \in Nat \ {0}
  BY <1>2, <1>3
<1>5. ASSUME rows # 0, NEW page \in 0 .. (C - 1) PROVE page * P \in 0 .. (rows - 1)
  <2>1. CASE 1 > q
    <3>1. page = 0
      BY <1>2, <1>3, <2>1
    <3>2. page * P = 0
      BY <1>0, <3>1
    <3> QED BY <1>5, <3>2
  <2>2. CASE ~(1 > q)
    <3>1. page \in Nat /\ page + 1 <= q
      BY <1>2, <1>3, <2>2
    <3>2. PICK d \in Nat : q = page + 1 + d
      <4>1. q - (page + 1) \in Nat /\ q = page + 1 + (q - (page + 1))
        BY <1>2, <3>1
      <4> QED BY <4>1
    <3>3. q * P = page * P + P + d * P /\ d * P \in Nat /\ page * P \in Nat
      BY <1>0, <3>1, <3>2
    <3> QED BY <1>0, <1>2, <3>3
  <2> QED BY <2>1, <2>2
<1> QED BY <1>4, <1>5 DEF C, P

LEMMA ClampedPage ==
  ASSUME NEW page \in Int, NEW count \in Nat \ {0}
  PROVE  Table!clampPage(page, count) \in 0 .. (count - 1)
BY DEF Table!clampPage, Table!AtLeast, Table!AtMost

--------------------------------------------------------------------------------
(* The table of a result and its suggestions. *)

\* A table drawn for a result: one of its pages, and each of the columns to show once.
Drawn(data, view, page, rows, said, only) ==
  /\ data \in TableResults /\ data.rows # 0
  /\ view = [data |-> data, columns |-> view.columns]
  /\ Arranged(view.columns, IF only THEN data.changed ELSE 0 .. (data.columns - 1))
  /\ page \in 0 .. (Table!csvPageCount(data.rows) - 1)
  /\ rows = Table!pageSlice(data, page)
  /\ said = Table!pagerState(page, Table!csvPageCount(data.rows))

TableInv ==
  /\ csvData \in TableResults \cup {NoValue} /\ csvPage \in Nat
  /\ placed => Drawn(csvData, csvView, csvPage, shownRows, pager, changedOnly)

\* A request under way when the panel was hidden is not the newest any more.
PanelInv ==
  /\ suggestionToken \in Nat
  /\ \A token \in asked : token \in Nat /\ token <= suggestionToken
  /\ panelHidden => cards = Table!NoCards /\ \A token \in asked : token < suggestionToken
  /\ cards.state = "residuals" => cards.token = suggestionToken

LEMMA DrawnAnew ==
  ASSUME NEW data \in TableResults, NEW page \in Int, Table!renderCSVColumns(data, page),
         data.rows # 0, page \in 0 .. (Table!csvPageCount(data.rows) - 1)
  PROVE  Drawn(data, csvView', csvPage', shownRows', pager', changedOnly')
<1>1. data.columns \in Nat /\ data.changed \subseteq 0 .. (data.columns - 1)
  BY TableAssumption
<1>2. Arranged(Table!visibleColumns(data),
               IF changedOnly' THEN data.changed ELSE 0 .. (data.columns - 1))
  BY <1>1, VisibleArranged DEF Table!visibleColumns
<1>3. csvView' = [data |-> data, columns |-> Table!visibleColumns(data)] /\ csvPage' = page
      /\ shownRows' = Table!pageSlice(data, page)
      /\ pager' = Table!pagerState(page, Table!csvPageCount(data.rows))
  BY DEF Table!renderCSVColumns, Table!renderCSVRows
<1>4. csvView'.columns = Table!visibleColumns(data)
  BY <1>3
<1> QED BY <1>2, <1>3, <1>4 DEF Drawn

LEMMA Rendered ==
  ASSUME NEW data \in TableResults, NEW page \in Nat, Table!renderTable(data, page), csvData' = data
  PROVE  TableInv'
<1>1. CASE data.align \/ data.rows = 0
  BY <1>1 DEF Table!renderTable, TableInv
<1>2. CASE ~(data.align \/ data.rows = 0)
  <2>1. data.rows \in Nat
    BY TableAssumption
  <2>2. Table!csvPageCount(data.rows) \in Nat \ {0}
    BY <2>1, PagesAre
  <2>3. PICK next : next = Table!clampPage(page, Table!csvPageCount(data.rows))
    OBVIOUS
  <2>4. next \in 0 .. (Table!csvPageCount(data.rows) - 1)
    BY <2>2, <2>3, ClampedPage
  <2>5. Table!renderCSVColumns(data, next) /\ placed' = TRUE
    BY <1>2, <2>3 DEF Table!renderTable
  <2>6. Drawn(data, csvView', csvPage', shownRows', pager', changedOnly')
    BY <1>2, <2>2, <2>4, <2>5, DrawnAnew
  <2>7. csvPage' \in Nat
    BY <2>2, <2>4, <2>5 DEF Table!renderCSVColumns
  <2> QED BY <2>6, <2>7 DEF TableInv
<1> QED BY <1>1, <1>2

LEMMA PanelGoesOn ==
  ASSUME PanelInv
  PROVE  /\ Table!hideSuggestions /\ asked' = asked => PanelInv'
         /\ \A data, valid : Table!refreshSuggestions(data, valid) => PanelInv'
         /\ Table!SuggestionsAnswer => PanelInv'
<1>1. ASSUME Table!hideSuggestions, asked' = asked PROVE PanelInv'
  BY <1>1 DEF PanelInv, Table!hideSuggestions, Table!NoCards
<1>2. ASSUME NEW data, NEW valid, Table!refreshSuggestions(data, valid) PROVE PanelInv'
  <2>1. CASE ~valid
    BY <1>1, <1>2, <2>1 DEF Table!refreshSuggestions
  <2>2. CASE valid /\ data.proposals
    BY <1>2, <2>2 DEF PanelInv, Table!refreshSuggestions
  <2>3. CASE valid /\ ~data.proposals
    BY <1>2, <2>3 DEF PanelInv, Table!refreshSuggestions, Table!NoCards
  <2> QED BY <2>1, <2>2, <2>3
<1>3. ASSUME Table!SuggestionsAnswer PROVE PanelInv'
  BY <1>3 DEF PanelInv, Table!SuggestionsAnswer
<1> QED BY <1>1, <1>2, <1>3

LEMMA TableInit == Table!Init => TableInv /\ PanelInv
BY DEF Table!Init, TableInv, PanelInv, Table!NoCards

LEMMA TableNext == TableInv /\ PanelInv /\ [Table!Next]_(Table!vars) => (TableInv /\ PanelInv)'
<1> SUFFICES ASSUME TableInv, PanelInv, [Table!Next]_(Table!vars) PROVE TableInv' /\ PanelInv'
  OBVIOUS
<1>0. UNCHANGED Table!panel => PanelInv'
  BY DEF Table!panel, PanelInv
<1>1. CASE Table!Compared
  <2>1. PICK data \in TableResults, valid \in BOOLEAN :
          csvData' = data /\ Table!renderTable(data, 0) /\ Table!refreshSuggestions(data, valid)
    BY <1>1 DEF Table!Compared
  <2>2. TableInv'
    BY <2>1, Rendered
  <2> QED BY <2>1, <2>2, PanelGoesOn
<1>2. CASE Table!renderCSV
  <2>1. csvData \in TableResults /\ csvData' = csvData /\ Table!renderTable(csvData, csvPage)
    BY <1>2 DEF Table!renderCSV, TableInv
  <2>2. TableInv'
    BY <2>1, Rendered DEF TableInv
  <2>3. PanelInv'
    BY <1>2, PanelGoesOn DEF Table!renderCSV
  <2> QED BY <2>2, <2>3
<1>3. CASE Table!OtherResult
  <2>1. TableInv'
    BY <1>3 DEF Table!OtherResult, TableInv
  <2>2. PanelInv'
    BY <1>3, PanelGoesOn DEF Table!OtherResult
  <2> QED BY <2>1, <2>2
<1>4. CASE Table!BackToCSV
  <2>1. TableInv'
    BY <1>4 DEF Table!BackToCSV, TableInv, Table!table
  <2>2. PanelInv'
    BY <1>0, <1>4 DEF Table!BackToCSV
  <2> QED BY <2>1, <2>2
<1>5. CASE Table!showCSVPage
  <2>1. Drawn(csvData, csvView, csvPage, shownRows, pager, changedOnly)
    BY <1>5 DEF Table!showCSVPage, TableInv
  <2>2. csvView.data = csvData /\ csvData.rows \in Nat
    BY <2>1, TableAssumption DEF Drawn
  <2>3. PICK count \in Nat \ {0} : count = Table!csvPageCount(csvData.rows)
    BY <2>2, PagesAre
  <2>4. PICK page \in -1 .. count :
          LET next == Table!clampPage(page, count)
          IN  csvPage' = next /\ Table!renderCSVRows(csvData, next)
    BY <1>5, <2>2, <2>3 DEF Table!showCSVPage
  <2>5. csvPage' \in 0 .. (count - 1)
    BY <2>4, ClampedPage
  <2>6. shownRows' = Table!pageSlice(csvData, csvPage') /\ pager' = Table!pagerState(csvPage', count)
    BY <2>3, <2>4 DEF Table!renderCSVRows
  <2>7. csvData' = csvData /\ csvView' = csvView /\ changedOnly' = changedOnly
    BY <1>5 DEF Table!showCSVPage
  <2>8. Drawn(csvData', csvView', csvPage', shownRows', pager', changedOnly')
    BY <2>1, <2>3, <2>5, <2>6, <2>7 DEF Drawn
  <2>9. TableInv'
    BY <2>5, <2>7, <2>8 DEF TableInv
  <2> QED BY <1>0, <1>5, <2>9 DEF Table!showCSVPage
<1>6. CASE Table!ToggleChangedOnly
  <2>1. csvData' = csvData /\ PanelInv'
    BY <1>0, <1>6 DEF Table!ToggleChangedOnly
  <2>2. CASE placed
    <3>1. Drawn(csvData, csvView, csvPage, shownRows, pager, changedOnly)
      BY <2>2 DEF TableInv
    <3>2. csvData # NoValue /\ csvView # NoValue /\ csvView.data = csvData
          /\ csvData.rows \in Nat \ {0}
      BY <3>1, TableAssumption DEF Drawn, Arranged
    <3>3. Table!renderCSVColumns(csvData, 0) /\ placed' = placed
      BY <1>6, <3>2 DEF Table!ToggleChangedOnly
    <3>4. 0 \in 0 .. (Table!csvPageCount(csvData.rows) - 1)
      BY <3>2, PagesAre
    <3>5. csvData \in TableResults
      BY <3>1 DEF Drawn
    <3>6. Drawn(csvData, csvView', csvPage', shownRows', pager', changedOnly')
      BY <3>2, <3>3, <3>4, <3>5, DrawnAnew
    <3>7. csvPage' = 0
      BY <3>3 DEF Table!renderCSVColumns
    <3> QED BY <2>1, <3>5, <3>6, <3>7 DEF TableInv
  <2>3. CASE ~placed
    <3>1. ~placed' /\ csvPage' \in Nat
      BY <1>6, <2>3 DEF Table!ToggleChangedOnly, Table!renderCSVColumns, Table!table, TableInv
    <3> QED BY <2>1, <3>1 DEF TableInv
  <2> QED BY <2>2, <2>3
<1>7. CASE Table!DropColumn
  <2>1. Drawn(csvData, csvView, csvPage, shownRows, pager, changedOnly)
    BY <1>7 DEF Table!DropColumn, TableInv
  <2>2. PICK from \in 0 .. Len(csvView.columns), to \in 0 .. (Len(csvView.columns) - 1) :
          csvView' = [csvView EXCEPT !.columns = Table!reorderColumns(@, from, to)]
    BY <1>7 DEF Table!DropColumn
  <2>3. PICK columns : columns = Table!reorderColumns(csvView.columns, from, to)
    OBVIOUS
  <2>4. csvView' = [data |-> csvData, columns |-> columns]
    BY <2>1, <2>2, <2>3 DEF Drawn
  <2>5. Arranged(columns, IF changedOnly THEN csvData.changed ELSE 0 .. (csvData.columns - 1))
    BY <2>1, <2>3, ReorderedArranged DEF Drawn
  <2>6. csvView.data = csvData /\ csvData' = csvData /\ csvPage' = csvPage /\ changedOnly' = changedOnly
        /\ placed' = placed
    BY <1>7, <2>1 DEF Table!DropColumn, Drawn
  <2>7. shownRows' = Table!pageSlice(csvData, csvPage)
        /\ pager' = Table!pagerState(csvPage, Table!csvPageCount(csvData.rows))
    BY <1>7, <2>6 DEF Table!DropColumn, Table!renderCSVRows
  <2>8. Drawn(csvData, csvView', csvPage, shownRows', pager', changedOnly)
    BY <2>1, <2>4, <2>5, <2>7 DEF Drawn
  <2>9. TableInv'
    BY <2>6, <2>8 DEF TableInv
  <2> QED BY <1>0, <1>7, <2>9 DEF Table!DropColumn
<1>8. CASE Table!SuggestionsAnswer
  <2>1. TableInv'
    BY <1>8 DEF Table!SuggestionsAnswer, TableInv, Table!table
  <2> QED BY <1>8, <2>1, PanelGoesOn
<1>9. CASE UNCHANGED Table!vars
  <2>1. TableInv'
    BY <1>9 DEF Table!vars, TableInv, Table!table
  <2> QED BY <1>0, <1>9, <2>1 DEF Table!vars
<1> QED BY <1>1, <1>2, <1>3, <1>4, <1>5, <1>6, <1>7, <1>8, <1>9 DEF Table!Next

LEMMA TableShows == TableInv /\ PanelInv => Table!TablePageAndPanel
<1> SUFFICES ASSUME TableInv, PanelInv PROVE Table!TablePageAndPanel
  OBVIOUS
<1>1. ASSUME placed
      PROVE  LET data == csvView.data
                 pages == Table!csvPageCount(data.rows)
             IN  /\ data = csvData
                 /\ csvPage \in 0 .. (pages - 1)
                 /\ shownRows # {} /\ shownRows = Table!pageSlice(data, csvPage)
                 /\ pager = [value |-> csvPage + 1, atFirst |-> csvPage = 0, atLast |-> csvPage = pages - 1]
                 /\ Len(csvView.columns) = Table!Cardinality(Table!ToSet(csvView.columns))
                 /\ Table!ToSet(csvView.columns) = IF changedOnly THEN data.changed ELSE 0 .. (data.columns - 1)
  <2>1. Drawn(csvData, csvView, csvPage, shownRows, pager, changedOnly)
    BY <1>1 DEF TableInv
  <2>2. csvView.data = csvData /\ csvData.rows \in Nat \ {0}
    BY <2>1, TableAssumption DEF Drawn
  <2>3. PICK count \in Nat \ {0} : count = Table!csvPageCount(csvData.rows)
    BY <2>2, PagesAre
  <2>4. csvPage \in 0 .. (count - 1)
    BY <2>1, <2>3 DEF Drawn
  <2>5. shownRows = Table!pageSlice(csvData, csvPage) /\ pager = Table!pagerState(csvPage, count)
    BY <2>1, <2>3 DEF Drawn
  <2>6. csvPage * PageSize \in 0 .. (csvData.rows - 1)
    BY <2>2, <2>3, <2>4, PagesAre
  <2>7. csvPage * PageSize \in shownRows
    <3>1. PICK start \in Int : start = csvPage * PageSize
      BY <2>6
    <3>2. PageSize \in Nat \ {0}
      BY TableAssumption
    <3>3. start <= start /\ start < start + PageSize
      BY <3>1, <3>2
    <3> QED BY <2>5, <2>6, <3>1, <3>3 DEF Table!pageSlice
  <2>8. pager = [value |-> csvPage + 1, atFirst |-> csvPage = 0, atLast |-> csvPage = count - 1]
    <3>1. (csvPage + 1 >= count) = (csvPage = count - 1)
      BY <2>4
    <3> QED BY <2>5, <3>1 DEF Table!pagerState
  <2>9. Arranged(csvView.columns, IF changedOnly THEN csvData.changed ELSE 0 .. (csvData.columns - 1))
    BY <2>1 DEF Drawn
  <2>10. Table!ToSet(csvView.columns) = IF changedOnly THEN csvData.changed ELSE 0 .. (csvData.columns - 1)
    BY <2>9 DEF Arranged, Table!ToSet
  <2>11. Len(csvView.columns) = Table!Cardinality(Table!ToSet(csvView.columns))
    BY <2>9, <2>10, ArrangedCount DEF Cardinality, Table!Cardinality
  <2> QED BY <2>2, <2>3, <2>4, <2>5, <2>7, <2>8, <2>10, <2>11
<1>2. (panelHidden => cards = Table!NoCards)
      /\ (cards.state = "residuals" => cards.token = suggestionToken)
  BY DEF PanelInv
<1> QED BY <1>1, <1>2 DEF Table!TablePageAndPanel

--------------------------------------------------------------------------------
(* The proposals of a result and their application. *)

LEMMA GreatestIsThere ==
  ASSUME NEW S, S \subseteq Nat, S # {}, IsFiniteSet(S)
  PROVE  \E x \in S : \A y \in S : x >= y
<1> DEFINE Has(T) == \E x \in T : \A y \in T : x >= y
           Good == {n \in Nat : \A T \in SUBSET Nat : IsFiniteSet(T) /\ Cardinality(T) = n + 1 => Has(T)}
<1>1. 0 \in Good
  <2> SUFFICES ASSUME NEW T \in SUBSET Nat, IsFiniteSet(T), Cardinality(T) = 0 + 1 PROVE Has(T)
    OBVIOUS
  <2>1. PICK x : T = {x}
    BY FS_Singleton
  <2>2. x \in Nat /\ x >= x
    BY <2>1
  <2> QED BY <2>1, <2>2
<1>2. ASSUME NEW n \in Nat, n \in Good PROVE n + 1 \in Good
  <2> SUFFICES ASSUME NEW T \in SUBSET Nat, IsFiniteSet(T), Cardinality(T) = (n + 1) + 1 PROVE Has(T)
    OBVIOUS
  <2>1. T # {}
    BY FS_EmptySet
  <2>2. PICK x \in T : TRUE
    BY <2>1
  <2>3. IsFiniteSet(T \ {x}) /\ Cardinality(T \ {x}) = n + 1
    <3>1. IsFiniteSet(T \ {x}) /\ Cardinality(T \ {x}) = Cardinality(T) - 1
      BY FS_RemoveElement
    <3> QED BY <3>1
  <2>4. PICK y \in T \ {x} : \A z \in T \ {x} : y >= z
    BY <1>2, <2>3
  <2>5. x \in Nat /\ y \in Nat
    OBVIOUS
  <2>6. CASE x >= y
    <3>1. \A z \in T : x >= z
      BY <2>4, <2>5, <2>6
    <3> QED BY <3>1
  <2>7. CASE ~(x >= y)
    <3>1. y >= x
      BY <2>5, <2>7
    <3>2. \A z \in T : y >= z
      BY <2>4, <3>1
    <3> QED BY <3>2
  <2> QED BY <2>6, <2>7
<1> HIDE DEF Has
<1>3. Nat \subseteq Good
  <2> HIDE DEF Good
  <2> QED BY <1>1, <1>2, Induction
<1>4. PICK n \in Nat : Cardinality(S) = n + 1
  <2>1. Cardinality(S) \in Nat /\ Cardinality(S) # 0
    BY FS_CardinalityType, FS_EmptySet
  <2>2. Cardinality(S) - 1 \in Nat /\ Cardinality(S) = (Cardinality(S) - 1) + 1
    BY <2>1
  <2> QED BY <2>2
<1>5. Has(S)
  BY <1>3, <1>4
<1> QED BY <1>5 DEF Has

\* The magnitudes of cells whose texts are numbers have a greatest one.
LEMMA MagnitudeIsNumber ==
  ASSUME NEW cells, cells \subseteq ChangedCells, \A cell \in cells : cell.magnitude # NoValue
  PROVE  Suggestions!MagnitudeIn(cells) \in Nat
<1> DEFINE sizes == {cell.magnitude : cell \in cells}
           all == {0} \cup sizes
<1>1. IsFiniteSet(cells)
  BY SuggestAssumption, FS_Subset
<1>2. IsFiniteSet(sizes)
  <2> DEFINE f == [cell \in cells |-> cell.magnitude]
  <2>1. f \in Surjection(cells, sizes)
    BY DEF Surjection
  <2> QED BY <1>1, <2>1, FS_Surjection
<1>3. sizes \subseteq Nat
  BY SuggestAssumption
<1> HIDE DEF sizes
<1>4. IsFiniteSet(all)
  BY <1>2, FS_AddElement
<1>5. all \subseteq Nat /\ all # {}
  BY <1>3
<1> HIDE DEF all
<1>6. \E x \in all : \A y \in all : x >= y
  BY <1>4, <1>5, GreatestIsThere
<1>7. Suggestions!Max(all) \in all
  BY <1>6 DEF Suggestions!Max
<1> QED BY <1>5, <1>7 DEF Suggestions!MagnitudeIn, all, sizes

Options ==
  {"hasHeader", "alignColumnsByName", "whitespace", "ignoreCase", "tolerance",
   "columnTolerances", "ignoreColumns", "keys"}

\* A proposal is of an option not yet set, or of a column its option does not have yet.
Fresh(options, p) ==
  \/ p.option \in Suggestions!ListOptions /\ p.selector \notin options[p.option]
  \/ /\ p.option \in {"ignoreCase", "tolerance"}
     /\ options[p.option] = NoValue /\ p.value # NoValue
  \/ p.option = "whitespace" /\ p.value = WhitespaceChange /\ options[p.option] # p.value
  \/ p.option = "alignColumnsByName" /\ p.value = Switched /\ options[p.option] # Switched

\* What stays of a proposal applied: a later one of the same option adds to its list, or
\* is not made.
InEffect(options, p) ==
  /\ Suggestions!isApplied(options, p)
  /\ \/ p.option \in Suggestions!ListOptions
     \/ p.option \in {"ignoreCase", "tolerance"} /\ p.value # NoValue
     \/ p.option = "alignColumnsByName" /\ p.value = Switched

\* Of an option that is no list there is one proposal at a time.
OneOfAnOption(proposals) ==
  \A p, q \in proposals :
    p.option = q.option /\ p.option \notin Suggestions!ListOptions => p.value = q.value

SuggestInv ==
  /\ result.cells \subseteq ChangedCells
  /\ setup = [o \in Options |-> setup[o]]
  /\ setup.whitespace # WhitespaceChange
  /\ \A p \in offered : Fresh(setup, p) \/ InEffect(setup, p)
  /\ OneOfAnOption(offered)
  /\ \A p \in pressed : InEffect(setup, p) \/ (p.option = "whitespace" /\ p.value = WhitespaceChange)

LEMMA CausesAreCells ==
  /\ \A cell : Suggestions!classifyCell(cell) \in {"whitespace", "case", "numeric", "content"}
  /\ \A cell : Suggestions!classifyCell(cell) = "numeric" => cell.magnitude # NoValue
BY DEF Suggestions!classifyCell

LEMMA OwnSelector ==
  ASSUME NEW column
  PROVE  Suggestions!Selects(Suggestions!columnSelector(column), column)
BY DEF Suggestions!Selects, Suggestions!columnSelector

LEMMA ProposalsAreFresh ==
  ASSUME result.cells \subseteq ChangedCells, NEW p \in Suggestions!buildProposals
  PROVE  Fresh(setup, p)
<1> DEFINE numeric == Suggestions!CellsOf("numeric")
           Numeric(c) == {cell \in numeric : cell.column = c}
<1>0. numeric \subseteq ChangedCells /\ \A cell \in numeric : cell.magnitude # NoValue
  BY CausesAreCells DEF Suggestions!CellsOf
<1> HIDE DEF numeric
<1>1. ASSUME "columnOrder" \in Suggestions!estimateCauses PROVE setup.alignColumnsByName # Switched
  BY <1>1, CausesAreCells DEF Suggestions!estimateCauses
<1>2. PICK m : m = Suggestions!MagnitudeIn(numeric)
  OBVIOUS
<1>3. m \in Nat /\ m # NoValue
  BY <1>0, <1>2, MagnitudeIsNumber, SuggestAssumption
<1>4. CASE p \in {Suggestions!Proposal("alignColumnsByName", Switched) :
                    cause \in Suggestions!estimateCauses \cap {"columnOrder"}}
  BY <1>1, <1>4 DEF Fresh, Suggestions!Proposal
<1>5. CASE p \in {Suggestions!Proposal("whitespace", WhitespaceChange) :
                    cause \in IF setup.whitespace = NoValue
                                THEN Suggestions!estimateCauses \cap {"whitespace"} ELSE {}}
  BY <1>5, SuggestAssumption DEF Fresh, Suggestions!Proposal
<1>6. CASE p \in {Suggestions!Proposal("ignoreCase", Switched) :
                    cause \in IF setup.ignoreCase = NoValue
                                THEN Suggestions!estimateCauses \cap {"case"} ELSE {}}
  BY <1>6, SuggestAssumption DEF Fresh, Suggestions!Proposal
<1>7. CASE p \in {Suggestions!ColumnProposal("columnTolerances", c, Suggestions!MagnitudeIn(Numeric(c))) :
                    c \in Suggestions!ToleranceColumns}
  <2>0. PICK c \in Suggestions!ToleranceColumns :
          p = Suggestions!ColumnProposal("columnTolerances", c, Suggestions!MagnitudeIn(Numeric(c)))
    BY <1>7
  <2>1. p.option = "columnTolerances" /\ p.selector = Suggestions!columnSelector(c)
    BY <2>0 DEF Suggestions!ColumnProposal
  <2>2. ~Suggestions!alreadyToleranced(c)
    BY <2>1 DEF Suggestions!ToleranceColumns
  <2>3. p.selector \notin setup.columnTolerances
    BY <2>1, <2>2, OwnSelector DEF Suggestions!alreadyToleranced
  <2> QED BY <2>1, <2>3 DEF Fresh, Suggestions!ListOptions
<1>8. CASE p \in (IF /\ Suggestions!Cardinality(Suggestions!ToleranceColumns) > 1
                     /\ setup.tolerance = NoValue /\ setup.keys # {}
                    THEN {Suggestions!Proposal("tolerance", m)} ELSE {})
  BY <1>3, <1>8 DEF Fresh, Suggestions!Proposal
<1>9. CASE p \in {Suggestions!ColumnProposal("ignoreColumns", c, NoValue) :
                    c \in {d \in Columns : Suggestions!Concentrated(d) /\ ~Suggestions!alreadyIgnored(d)}}
  <2>1. PICK c \in Columns : /\ ~Suggestions!alreadyIgnored(c)
                             /\ p.option = "ignoreColumns" /\ p.selector = Suggestions!columnSelector(c)
    BY <1>9 DEF Suggestions!ColumnProposal
  <2>2. p.selector \notin setup.ignoreColumns
    BY <2>1, OwnSelector DEF Suggestions!alreadyIgnored
  <2> QED BY <2>1, <2>2 DEF Fresh, Suggestions!ListOptions
<1> QED BY <1>2, <1>4, <1>5, <1>6, <1>7, <1>8, <1>9 DEF Suggestions!buildProposals, numeric

LEMMA AllAreFresh ==
  result.cells \subseteq ChangedCells => \A p \in Suggestions!buildProposals : Fresh(setup, p)
BY ProposalsAreFresh

LEMMA ProposalsAreOne == OneOfAnOption(Suggestions!buildProposals)
<1> DEFINE m == Suggestions!MagnitudeIn(Suggestions!CellsOf("numeric"))
           Kind(p) ==
             \/ p.option \in Suggestions!ListOptions
             \/ p.option = "alignColumnsByName" /\ p.value = Switched
             \/ p.option = "whitespace" /\ p.value = WhitespaceChange
             \/ p.option = "ignoreCase" /\ p.value = Switched
             \/ p.option = "tolerance" /\ p.value = m
<1> HIDE DEF m
<1>1. ASSUME NEW p \in Suggestions!buildProposals PROVE Kind(p)
  <2>1. p.option \in Suggestions!ListOptions
        \/ p \in {Suggestions!Proposal("alignColumnsByName", Switched),
                  Suggestions!Proposal("whitespace", WhitespaceChange),
                  Suggestions!Proposal("ignoreCase", Switched),
                  Suggestions!Proposal("tolerance", m)}
    <3>1. \A option, c, value : option \in Suggestions!ListOptions =>
            Suggestions!ColumnProposal(option, c, value).option \in Suggestions!ListOptions
      BY DEF Suggestions!ColumnProposal
    <3>2. "columnTolerances" \in Suggestions!ListOptions /\ "ignoreColumns" \in Suggestions!ListOptions
      BY DEF Suggestions!ListOptions
    <3>3. CASE p.option \notin Suggestions!ListOptions
      <4>1. \A c : p # Suggestions!ColumnProposal("ignoreColumns", c, NoValue)
        BY <3>1, <3>2, <3>3
      <4>2. \A c, value : p # Suggestions!ColumnProposal("columnTolerances", c, value)
        BY <3>1, <3>2, <3>3
      <4> QED BY <4>1, <4>2 DEF Suggestions!buildProposals, m
    <3> QED BY <3>3
  <2> QED BY <2>1 DEF Suggestions!Proposal
<1> QED BY <1>1 DEF OneOfAnOption, Suggestions!ListOptions

LEMMA PatchIsProposal ==
  ASSUME NEW options, NEW p
  PROVE  Suggestions!applySuggestionPatch(options, p) = Suggestions!applyProposal(options, p)
BY DEF Suggestions!applySuggestionPatch, Suggestions!applyProposal, Suggestions!unionSelectors

LEMMA Applied ==
  ASSUME NEW options, options = [o \in Options |-> options[o]],
         NEW p, Fresh(options, p) \/ InEffect(options, p)
  PROVE  LET later == Suggestions!applyProposal(options, p)
         IN  /\ later = [o \in Options |-> later[o]]
             /\ Suggestions!isApplied(later, p)
             /\ p.option # "whitespace" => InEffect(later, p)
             /\ \A o \in Options : o # p.option => later[o] = options[o]
             /\ \A q : InEffect(options, q) /\ (q.option = p.option => p.option \in Suggestions!ListOptions
                                                                        \/ p.value = q.value)
                         => InEffect(later, q)
             /\ \A q : Fresh(options, q) /\ (q.option = p.option => p.option \in Suggestions!ListOptions
                                                                     \/ p.value = q.value)
                         => Fresh(later, q) \/ InEffect(later, q) \/ p.option = "whitespace"
<1> DEFINE later == Suggestions!applyProposal(options, p)
           value == IF p.option \in Suggestions!ListOptions
                      THEN Suggestions!unionSelectors(options[p.option], p.selector) ELSE p.value
<1>0. p.option \in Suggestions!ListOptions \/ p.value # NoValue
  BY SuggestAssumption DEF Fresh, InEffect
<1>1. p.option \in Options
  BY DEF Fresh, InEffect, Options, Suggestions!ListOptions
<1>2. later = [options EXCEPT ![p.option] = value]
  BY DEF Suggestions!applyProposal
<1> HIDE DEF later
<1>3. /\ later = [o \in Options |-> later[o]] /\ later[p.option] = value
      /\ \A o \in Options : o # p.option => later[o] = options[o]
  <2> HIDE DEF value
  <2> QED BY <1>1, <1>2
<1>4. Suggestions!isApplied(later, p)
  BY <1>3 DEF Suggestions!isApplied, Suggestions!unionSelectors
<1>5. p.option # "whitespace" => InEffect(later, p)
  BY <1>4 DEF Fresh, InEffect
<1> DEFINE Together(q) ==
      q.option = p.option => p.option \in Suggestions!ListOptions \/ p.value = q.value
<1>6. ASSUME NEW q, InEffect(options, q), Together(q) PROVE InEffect(later, q)
  <2>1. q.option \in Options
    BY <1>6 DEF InEffect, Options, Suggestions!ListOptions
  <2>2. CASE q.option # p.option
    <3>1. later[q.option] = options[q.option]
      BY <1>3, <2>1, <2>2
    <3> QED BY <1>6, <3>1 DEF InEffect, Suggestions!isApplied
  <2>3. CASE q.option = p.option /\ p.option \in Suggestions!ListOptions
    <3>1. options[q.option] \subseteq later[q.option]
      BY <1>3, <2>3 DEF Suggestions!unionSelectors
    <3> QED BY <1>6, <2>3, <3>1 DEF InEffect, Suggestions!isApplied
  <2>4. CASE q.option = p.option /\ p.option \notin Suggestions!ListOptions
    <3>1. later[q.option] = q.value
      BY <1>3, <1>6, <2>4
    <3> QED BY <1>6, <2>4, <3>1 DEF InEffect, Suggestions!isApplied
  <2> QED BY <2>2, <2>3, <2>4
<1>7. ASSUME NEW q, Fresh(options, q), Together(q), p.option # "whitespace"
      PROVE  Fresh(later, q) \/ InEffect(later, q)
  <2>1. q.option \in Options
    BY <1>7 DEF Fresh, Options, Suggestions!ListOptions
  <2>2. CASE q.option # p.option
    <3>1. later[q.option] = options[q.option]
      BY <1>3, <2>1, <2>2
    <3> QED BY <1>7, <3>1 DEF Fresh
  <2>3. CASE q.option = p.option /\ p.option \in Suggestions!ListOptions
    BY <2>3 DEF Fresh, InEffect, Suggestions!isApplied
  <2>4. CASE q.option = p.option /\ p.option \notin Suggestions!ListOptions
    <3>1. later[q.option] = q.value
      BY <1>3, <1>7, <2>4
    <3> QED BY <1>7, <2>4, <3>1 DEF Fresh, InEffect, Suggestions!isApplied
  <2> QED BY <2>2, <2>3, <2>4
<1> QED BY <1>3, <1>4, <1>5, <1>6, <1>7 DEF later

LEMMA SuggestInit == Suggestions!Init => SuggestInv
<1> SUFFICES ASSUME Suggestions!Init PROVE SuggestInv
  OBVIOUS
<1>1. PICK s \in Suggestions!Setups : setup \in Suggestions!WithKeys(s)
  BY DEF Suggestions!Init
<1>2. s = [o \in Options |-> s[o]] /\ s.whitespace \in {NoValue, WhitespaceAll}
  BY DEF Suggestions!Setups, Options
<1>3. setup = [o \in Options |-> setup[o]] /\ setup.whitespace = s.whitespace
  <2>1. CASE setup = s
    BY <1>2, <2>1
  <2>2. CASE setup # s
    <3>1. PICK keys : setup = [s EXCEPT !.keys = keys]
      BY <1>1, <2>2 DEF Suggestions!WithKeys
    <3> QED BY <1>2, <3>1 DEF Options
  <2> QED BY <2>1, <2>2
<1>4. result.cells \subseteq ChangedCells /\ pressed = {} /\ offered = Suggestions!buildProposals
  BY DEF Suggestions!Init, Suggestions!Possible
<1>5. setup.whitespace # WhitespaceChange
  BY <1>2, <1>3, SuggestAssumption
<1>6. \A p \in offered : Fresh(setup, p)
  BY <1>4, ProposalsAreFresh
<1> QED BY <1>3, <1>4, <1>5, <1>6, ProposalsAreOne DEF SuggestInv

LEMMA SuggestNext == SuggestInv /\ [Suggestions!Next]_(Suggestions!vars) => SuggestInv'
<1> SUFFICES ASSUME SuggestInv, [Suggestions!Next]_(Suggestions!vars) PROVE SuggestInv'
  OBVIOUS
<1> USE DEF Suggestions!Press
<1>1. ASSUME NEW p \in offered, Suggestions!ApplySuggestion(p) PROVE SuggestInv'
  <2>1. /\ setup' = Suggestions!applyProposal(setup, p) /\ pressed' = pressed \cup {p}
        /\ UNCHANGED <<result, offered>> /\ p.option # "whitespace"
    BY <1>1, PatchIsProposal DEF Suggestions!ApplySuggestion, Suggestions!Controls, Suggestions!ListOptions
  <2>2. Fresh(setup, p) \/ InEffect(setup, p)
    BY DEF SuggestInv
  <2>3. setup = [o \in Options |-> setup[o]] /\ "whitespace" \in Options
    BY DEF SuggestInv, Options
  <2> DEFINE Together(q) ==
        q.option = p.option => p.option \in Suggestions!ListOptions \/ p.value = q.value
  <2>4. /\ setup' = [o \in Options |-> setup'[o]] /\ InEffect(setup', p)
        /\ setup'.whitespace = setup.whitespace
        /\ \A q : InEffect(setup, q) /\ Together(q) => InEffect(setup', q)
        /\ \A q : Fresh(setup, q) /\ Together(q) => Fresh(setup', q) \/ InEffect(setup', q)
    BY <2>1, <2>2, <2>3, Applied
  <2>5. \A q \in offered : Together(q)
    BY DEF SuggestInv, OneOfAnOption
  <2>6. \A q \in offered' : Fresh(setup', q) \/ InEffect(setup', q)
    BY <2>1, <2>4, <2>5 DEF SuggestInv
  <2>7. ASSUME NEW q \in pressed, InEffect(setup, q) PROVE InEffect(setup', q)
    <3>1. CASE q.option # p.option \/ p.option \in Suggestions!ListOptions
      BY <2>4, <2>7, <3>1
    <3>2. CASE q.option = p.option /\ p.option \notin Suggestions!ListOptions
      <4>1. setup[p.option] = q.value
        BY <2>7, <3>2 DEF InEffect, Suggestions!isApplied
      <4>2. ~Fresh(setup, p)
        BY <2>7, <3>2, <4>1 DEF Fresh, InEffect
      <4>3. p.value = q.value
        BY <2>2, <3>2, <4>1, <4>2 DEF InEffect, Suggestions!isApplied
      <4> QED BY <2>4, <2>7, <4>3
    <3> QED BY <3>1, <3>2
  <2>8. \A q \in pressed' : InEffect(setup', q) \/ (q.option = "whitespace" /\ q.value = WhitespaceChange)
    BY <2>1, <2>4, <2>7 DEF SuggestInv
  <2> QED BY <2>1, <2>4, <2>6, <2>8 DEF SuggestInv, OneOfAnOption
<1>2. ASSUME NEW p \in offered, Suggestions!ApplyThrows(p) PROVE SuggestInv'
  <2>1. UNCHANGED <<result, setup, offered>> /\ pressed' = pressed \cup {p}
    BY <1>2 DEF Suggestions!ApplyThrows
  <2>2. p.option \notin Suggestions!Controls
    BY <1>2 DEF Suggestions!ApplyThrows
  <2>3. p.option = "whitespace" /\ p.value = WhitespaceChange
    BY <2>2 DEF SuggestInv, Fresh, InEffect, Suggestions!Controls, Suggestions!ListOptions
  <2> QED BY <2>1, <2>3 DEF SuggestInv
<1>3. CASE Suggestions!Compared
  <2>1. /\ UNCHANGED <<setup, pressed>> /\ offered' = Suggestions!buildProposals'
        /\ result'.cells \subseteq ChangedCells
    BY <1>3 DEF Suggestions!Compared, Suggestions!Possible
  <2>2. \A p \in Suggestions!buildProposals' : Fresh(setup', p)
    <3>1. (result.cells \subseteq ChangedCells => \A p \in Suggestions!buildProposals : Fresh(setup, p))'
      BY AllAreFresh, PTL
    <3> QED BY <2>1, <3>1
  <2>3. OneOfAnOption(Suggestions!buildProposals)'
    BY ProposalsAreOne, PTL
  <2> QED BY <2>1, <2>2, <2>3 DEF SuggestInv, OneOfAnOption
<1>4. CASE UNCHANGED Suggestions!vars
  BY <1>4 DEF Suggestions!vars, SuggestInv
<1> QED BY <1>1, <1>2, <1>3, <1>4 DEF Suggestions!Next

LEMMA SuggestShows == SuggestInv => Suggestions!ProposalsStack
<1> SUFFICES ASSUME SuggestInv PROVE Suggestions!ProposalsStack
  OBVIOUS
<1>1. ASSUME offered = Suggestions!buildProposals, NEW p \in offered
      PROVE  /\ ~Suggestions!isApplied(setup, p)
             /\ Suggestions!isApplied(Suggestions!applyProposal(setup, p), p)
  <2>1. Fresh(setup, p)
    BY <1>1, ProposalsAreFresh DEF SuggestInv
  <2>2. setup = [o \in Options |-> setup[o]]
    BY DEF SuggestInv
  <2>3. ~Suggestions!isApplied(setup, p)
    BY <2>1 DEF Fresh, Suggestions!isApplied, Suggestions!ListOptions
  <2> QED BY <2>1, <2>2, <2>3, Applied
<1>2. \A p \in pressed : Suggestions!isApplied(setup, p) <=> p.option # "whitespace"
  BY DEF SuggestInv, InEffect, Suggestions!isApplied, Suggestions!ListOptions
<1> QED BY <1>1, <1>2, PatchIsProposal DEF Suggestions!ProposalsStack

\* The suggestions keep their invariant while their panel is the one at work.
LEMMA SuggestBehaves == PanelsSpec => [](panel = "suggestions" => SuggestInv)
<1>1. PanelsInit => (panel = "suggestions" => SuggestInv)
  BY SuggestInit DEF PanelsInit
<1>2. (panel = "suggestions" => SuggestInv) /\ [PanelsNext]_panelVars
        => (panel = "suggestions" => SuggestInv)'
  <2> SUFFICES ASSUME panel = "suggestions" => SuggestInv, [PanelsNext]_panelVars,
                      panel' = "suggestions"
               PROVE  SuggestInv'
    OBVIOUS
  <2>1. panel = "suggestions" /\ (Suggestions!Next \/ UNCHANGED suggestVars)
    BY DEF PanelsNext, MergeStep, LanesStep, SetupStep, TableStep, SuggestionsStep, panelVars
  <2>2. UNCHANGED suggestVars => UNCHANGED Suggestions!vars
    BY DEF suggestVars, Suggestions!vars
  <2> QED BY <2>1, <2>2, SuggestNext
<1> QED BY <1>1, <1>2, PTL DEF PanelsSpec

\* After any order of page turns, re-renders, column drops and toggles the table is one
\* page of the result held, with each visible column once; in whatever order suggestion
\* requests are answered, hidden suggestions stay hidden and those shown answer the newest
\* request; and whatever results come back, nothing in effect is proposed, what Apply
\* compares is what was counted, and every proposal applied stays in effect, except that
\* of whitespace, which never is.
THEOREM TableIsTrue == PanelsSpec => []TableAndProposals
<1>1. TableInv /\ PanelInv /\ (panel = "suggestions" => SuggestInv) => TableAndProposals
  BY TableShows, SuggestShows DEF TableAndProposals
<1>2. PanelsSpec => Table!Init /\ [][Table!Next]_(Table!vars)
  BY PanelsBehave
<1>3. PanelsSpec => [](TableInv /\ PanelInv)
  BY <1>2, TableInit, TableNext, PTL
<1> QED BY <1>1, <1>3, SuggestBehaves, PTL
===============================================================================
