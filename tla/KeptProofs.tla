------------------------------- MODULE KeptProofs -------------------------------
(***************************************************************************)
(* Proofs about what outlives a process or a page: a file that is          *)
(* replaced, for every set of writers, and the comparisons that tabs,      *)
(* history and store remember, for every set of comparisons and of calls   *)
(* that wait, and every limit of the store and of the fragment.            *)
(***************************************************************************)
EXTENDS MCKept, FiniteSetTheorems, SequenceTheorems, WellFoundedInduction, TLAPS

--------------------------------------------------------------------------------
(* A file that is replaced. *)

\* What the staged file holds follows from the step its writer is at: nothing
\* reaches Rename that was not written to the end and flushed.
StagedByStep ==
  \A w \in Writers :
    /\ at[w] = "sync" => staged[w] = "cached"
    /\ at[w] \in {"close", "chmod", "replace", "remove", "retry"} => staged[w] = "whole"
    /\ at[w] \in {"done", "failed"} => staged[w] = "none"

\* Only Replace's fallback gets to its two last steps.
FallbackOnWindows ==
  /\ \A w \in Writers : at[w] \in {"remove", "retry"} => Windows
  /\ taken # {} => Windows

\* Whatever a power loss brings back was once a complete file, or the gap the
\* fallback leaves.
OlderWhole ==
  \A old \in older :
    /\ old.extent \in {"none", "whole"}
    /\ old.extent = "none" => Windows
    /\ old.by # Original => at[old.by] = "done"

FileInv ==
  /\ TypeOK
  /\ StagedByStep
  /\ FallbackOnWindows
  /\ OlderWhole
  /\ DestinationWhole
  /\ MissingOnlyInFallback
  /\ InstalledByTheFinished

LEMMA FileInit == Init => FileInv
<1> USE WritersAssumption DEF Init
<1>1. Init => TypeOK
  <2>1. Init => down \in BOOLEAN
    BY Zenon
  <2>2. Init => at \in [Writers -> Steps \cup Stops] /\ staged \in [Writers -> Extents]
    BY DEF Steps, Stops, Extents
  <2>3. Init => dest \in Files /\ older \subseteq Files
    BY DEF Files, Extents
  <2>4. Init => latest \in Writers \cup {Original} /\ taken \subseteq Writers
    OBVIOUS
  <2> QED BY <2>1, <2>2, <2>3, <2>4 DEF TypeOK
<1>2. Init => StagedByStep /\ FallbackOnWindows /\ OlderWhole
  BY DEF StagedByStep, FallbackOnWindows, OlderWhole
<1>3. Init => DestinationWhole /\ MissingOnlyInFallback /\ InstalledByTheFinished
  BY DEF DestinationWhole, MissingOnlyInFallback, InstalledByTheFinished
<1> QED BY <1>1, <1>2, <1>3 DEF FileInv

\* The steps that leave the destination alone change one writer's place and
\* staged file.
LEMMA StagingInv ==
  ASSUME NEW w \in Writers, FileInv,
         CreateTemp(w) \/ WriteContent(w) \/ Sync(w) \/ Close(w) \/ Chmod(w)
           \/ RenameRefused(w) \/ Fail(w),
         UNCHANGED down
  PROVE  FileInv'
<1> USE DEF FileInv, TypeOK, Steps, CreateTemp, WriteContent, Sync, Close, Chmod,
            RenameRefused, Fail, Move, history
<1>1. TypeOK'
  BY DEF Stops, Extents
<1>2. StagedByStep'
  BY DEF StagedByStep
<1>3. FallbackOnWindows'
  BY DEF FallbackOnWindows
<1>4. DestinationWhole'
  BY DEF DestinationWhole
<1>5. MissingOnlyInFallback'
  BY DEF MissingOnlyInFallback
<1>6. InstalledByTheFinished'
  <2>1. dest' = dest /\ (dest.by # Original => dest.by \in Writers)
    BY DEF Files
  <2>2. \A v \in Writers : at'[v] = "done" <=> at[v] = "done"
    OBVIOUS
  <2>3. \A v \in Writers : at[v] \in {"retry", "failed"} => at'[v] \in {"retry", "failed"}
    OBVIOUS
  <2>4. latest' = latest /\ taken' = taken /\ down' = down /\ taken \subseteq Writers
    OBVIOUS
  <2> QED BY <2>1, <2>2, <2>3, <2>4 DEF InstalledByTheFinished
<1>7. OlderWhole'
  BY DEF OlderWhole, Files
<1> QED BY <1>1, <1>2, <1>3, <1>4, <1>5, <1>6, <1>7

LEMMA RenameInv ==
  ASSUME NEW w \in Writers, FileInv, Rename(w), UNCHANGED down
  PROVE  FileInv'
<1> USE DEF FileInv, TypeOK, Rename, Install
<1>1. TypeOK'
  BY DEF Steps, Stops, Extents, Files
<1>2. staged[w] = "whole"
  BY DEF StagedByStep
<1>3. StagedByStep' /\ FallbackOnWindows'
  BY DEF StagedByStep, FallbackOnWindows
<1>4. DestinationWhole' /\ MissingOnlyInFallback'
  BY <1>2 DEF DestinationWhole, MissingOnlyInFallback
<1>5. InstalledByTheFinished'
  BY <1>2 DEF InstalledByTheFinished
<1>6. OlderWhole'
  BY DEF OlderWhole, Files, DestinationWhole, MissingOnlyInFallback, InstalledByTheFinished
<1> QED BY <1>1, <1>3, <1>4, <1>5, <1>6

LEMMA RemoveDestInv ==
  ASSUME NEW w \in Writers, FileInv, RemoveDest(w), UNCHANGED down
  PROVE  FileInv'
<1> USE DEF FileInv, TypeOK, RemoveDest, Move, Install, Absent
<1>1. TypeOK'
  BY DEF Steps, Stops, Extents, Files
<1>2. StagedByStep' /\ FallbackOnWindows'
  BY DEF StagedByStep, FallbackOnWindows
<1>3. DestinationWhole' /\ MissingOnlyInFallback'
  BY DEF DestinationWhole, MissingOnlyInFallback, FallbackOnWindows
<1>4. InstalledByTheFinished'
  BY DEF InstalledByTheFinished, FallbackOnWindows
<1>5. OlderWhole'
  BY DEF OlderWhole, Files, DestinationWhole, MissingOnlyInFallback, InstalledByTheFinished
<1> QED BY <1>1, <1>2, <1>3, <1>4, <1>5

LEMMA PowerLossInv ==
  ASSUME FileInv, PowerLoss
  PROVE  FileInv'
<1> USE DEF FileInv, PowerLoss, AfterLoss, history
<1>1. PICK old \in older \cup {dest} : dest' = old
  BY DEF TypeOK, Files, DestinationWhole, OlderWhole
<1>2. TypeOK'
  BY <1>1 DEF TypeOK, Steps, Stops, Extents
<1>3. StagedByStep' /\ FallbackOnWindows'
  BY DEF TypeOK, StagedByStep, FallbackOnWindows, Steps
<1>4. \A w \in Writers : at[w] = "done" => at'[w] = "done"
  BY DEF TypeOK, Steps
<1>5. OlderWhole'
  BY <1>4 DEF TypeOK, Files, OlderWhole
<1>6. DestinationWhole' /\ MissingOnlyInFallback' /\ InstalledByTheFinished'
  BY <1>1, <1>4 DEF TypeOK, Files, OlderWhole, DestinationWhole, MissingOnlyInFallback,
                    InstalledByTheFinished
<1> QED BY <1>2, <1>3, <1>5, <1>6

\* FileInv holds in every reachable state of atomicfile.Write, crashes included.
THEOREM FileInvariant == Spec => []FileInv
<1>1. FileInv /\ [Next]_vars => FileInv'
  <2> SUFFICES ASSUME FileInv, [Next]_vars PROVE FileInv'
    OBVIOUS
  <2>1. CASE PowerLoss
    BY <2>1, PowerLossInv
  <2>2. ASSUME NEW w \in Writers, Step(w), UNCHANGED down PROVE FileInv'
    BY <2>2, StagingInv, RenameInv, RemoveDestInv DEF Step
  <2>3. CASE UNCHANGED vars
    BY <2>3 DEF vars, history, FileInv, TypeOK, StagedByStep, FallbackOnWindows, OlderWhole,
                DestinationWhole, MissingOnlyInFallback, InstalledByTheFinished
  <2> QED BY <2>1, <2>2, <2>3 DEF Next
<1> QED BY <1>1, FileInit, PTL DEF Spec

\* No reader ever finds a part of a file, whatever fails and also after the
\* machine died.
THEOREM NeverPartial == Spec => []DestinationWhole
<1>1. FileInv => DestinationWhole
  BY DEF FileInv
<1> QED BY <1>1, FileInvariant, PTL

\* In every state before a power loss the destination is the whole file of the call
\* that returned without an error last, or the original; it is gone only inside, or
\* after a failure of, a fallback that took it away.
THEOREM Installed == Spec => [](InstalledByTheFinished /\ MissingOnlyInFallback)
<1>1. FileInv => InstalledByTheFinished /\ MissingOnlyInFallback
  BY DEF FileInv
<1> QED BY <1>1, FileInvariant, PTL

\* A call that returned leaves no staged file, also when it failed.
THEOREM NothingStaged == Spec => []NoStagedLeft
<1>1. FileInv => NoStagedLeft
  BY DEF FileInv, StagedByStep, NoStagedLeft
<1> QED BY <1>1, FileInvariant, PTL

\* The behaviours that MCKept checks are behaviours of atomicfile.Write, a comparison
\* running beside it or not: what is proved of the one holds in the other.
THEOREM FileBehaves == KeptSpec => Spec
<1>1. KeptInit => Init
  BY DEF KeptInit
<1>2. [KeptNext]_keptVars => [Next]_vars
  BY DEF KeptNext, FileStep, SessionStep, ForSession, keptVars
<1> QED BY <1>1, <1>2, PTL DEF KeptSpec, Spec

--------------------------------------------------------------------------------
(* The tabs of a page. *)

StatesOf(d) == {d.tabs[k].state : k \in DOMAIN d.tabs}

DocsOver(S) ==
  {d \in [tabs : Seq([id : Nat, state : S]), active : Nat] :
     /\ d.active \in DOMAIN d.tabs \/ d = Session!emptyDoc
     /\ \A m, n \in DOMAIN d.tabs : d.tabs[m].id = d.tabs[n].id => m = n}

\* A set of tabs as tabs.js keeps it: one is active, and the ids are distinct.
IsDoc(d) == d \in DocsOver(StatesOf(d))

LEMMA DocOver ==
  ASSUME NEW S, NEW d \in DocsOver(S)
  PROVE  IsDoc(d)
<1>1. d.tabs \in Seq([id : Nat, state : S]) /\ d.active \in Nat
  BY DEF DocsOver
<1>2. Len(d.tabs) \in Nat /\ DOMAIN d.tabs = 1 .. Len(d.tabs)
  BY <1>1
<1>3. ASSUME NEW k \in 1 .. Len(d.tabs)
      PROVE  d.tabs[k] \in [id : Nat, state : StatesOf(d)]
  <2>1. d.tabs[k] \in [id : Nat, state : S]
    BY <1>1, ElementOfSeq
  <2>2. d.tabs[k].state \in StatesOf(d)
    BY <1>2 DEF StatesOf
  <2> QED BY <2>1, <2>2
<1>4. d.tabs \in Seq(Range(d.tabs)) /\ Range(d.tabs) = {d.tabs[k] : k \in 1 .. Len(d.tabs)}
  BY <1>1, SeqOfRange, RangeEquality, Zenon
<1>5. Range(d.tabs) \subseteq [id : Nat, state : StatesOf(d)]
  BY <1>3, <1>4
<1>6. d.tabs \in Seq([id : Nat, state : StatesOf(d)])
  BY <1>4, <1>5, SeqMonotonic
<1>7. d = [tabs |-> d.tabs, active |-> d.active]
  BY DEF DocsOver
<1> QED BY <1>1, <1>6, <1>7 DEF IsDoc, DocsOver

LEMMA DocShape ==
  ASSUME NEW d, IsDoc(d)
  PROVE  /\ d = [tabs |-> d.tabs, active |-> d.active]
         /\ d.tabs \in Seq([id : Nat, state : StatesOf(d)])
         /\ d.active \in Nat
         /\ Len(d.tabs) \in Nat
         /\ DOMAIN d.tabs = 1 .. Len(d.tabs)
         /\ d.tabs # <<>> => d.active \in 1 .. Len(d.tabs)
         /\ d.tabs = <<>> => d = Session!emptyDoc
<1>1. /\ d \in [tabs : Seq([id : Nat, state : StatesOf(d)]), active : Nat]
      /\ d.active \in DOMAIN d.tabs \/ d = Session!emptyDoc
  BY DEF IsDoc, DocsOver
<1>2. d = [tabs |-> d.tabs, active |-> d.active]
  BY <1>1
<1>3. d.tabs \in Seq([id : Nat, state : StatesOf(d)]) /\ d.active \in Nat
  BY <1>1
<1>4. Len(d.tabs) \in Nat /\ DOMAIN d.tabs = 1 .. Len(d.tabs)
  BY <1>3
<1>5. d.tabs = <<>> => Len(d.tabs) = 0
  BY EmptySeq
<1>6. d = Session!emptyDoc => d.tabs = <<>>
  BY DEF Session!emptyDoc
<1> QED BY <1>1, <1>2, <1>3, <1>4, <1>5, <1>6

LEMMA EmptyDocIs == IsDoc(Session!emptyDoc)
<1>1. Session!emptyDoc \in DocsOver({})
  BY EmptySeq DEF DocsOver, Session!emptyDoc
<1> QED BY <1>1, DocOver

\* A nonempty set of numbers has a smallest one.
LEMMA Smallest ==
  ASSUME NEW T \in SUBSET Nat, T # {}
  PROVE  \E n \in T : \A m \in T : n <= m
<1>1. PICK n \in T : \A m \in T : <<m, n>> \notin OpToRel(<, Nat)
  BY WFMin, NatLessThanWellFounded
<1>2. \A m \in T : ~(m < n)
  BY <1>1 DEF OpToRel
<1> QED BY <1>2

\* nextId finds an id, and one that no tab has.
LEMMA NextIdFresh ==
  ASSUME NEW d, IsDoc(d)
  PROVE  /\ Session!nextId(d) \in Nat
         /\ \A k \in DOMAIN d.tabs : d.tabs[k].id # Session!nextId(d)
<1> DEFINE len == Len(d.tabs)
           used == {d.tabs[k].id : k \in DOMAIN d.tabs}
           free == {n \in len + 1 .. 2 * len + 1 : n \notin used}
<1>1. len \in Nat /\ DOMAIN d.tabs = 1 .. len
  BY DocShape
<1>2. ASSUME free = {} PROVE FALSE
  <2>1. len + 1 .. 2 * len + 1 \in SUBSET used
    BY <1>2
  <2> DEFINE f == [k \in 1 .. len |-> d.tabs[k].id]
  <2>2. f \in Surjection(1 .. len, used)
    BY <1>1 DEF Surjection
  <2>3. IsFiniteSet(1 .. len) /\ Cardinality(1 .. len) = len
    BY <1>1, FS_Interval
  <2>4. IsFiniteSet(used) /\ Cardinality(used) <= len
    <3> HIDE DEF f, used, len
    <3> QED BY <2>2, <2>3, FS_Surjection
  <2>5. IsFiniteSet(len + 1 .. 2 * len + 1) /\ Cardinality(len + 1 .. 2 * len + 1) = len + 1
    <3>1. len + 1 \in Int /\ 2 * len + 1 \in Int
      BY <1>1
    <3>2. ~(len + 1 > 2 * len + 1) /\ (2 * len + 1) - (len + 1) + 1 = len + 1
      BY <1>1
    <3> HIDE DEF len
    <3> QED BY <3>1, <3>2, FS_Interval
  <2>6. Cardinality(len + 1 .. 2 * len + 1) <= Cardinality(used)
    <3> HIDE DEF len, used
    <3> QED BY <2>1, <2>4, FS_Subset
  <2>7. Cardinality(used) \in Nat
    BY <2>4, FS_CardinalityType
  <2> HIDE DEF len, used
  <2> QED BY <1>1, <2>4, <2>5, <2>6, <2>7
<1>3. free \in SUBSET Nat
  BY <1>1
<1>4. \E n \in free : \A m \in free : n <= m
  BY <1>2, <1>3, Smallest
<1>5. Session!nextId(d) = CHOOSE n \in free : \A m \in free : n <= m
  BY DEF Session!nextId
<1>6. Session!nextId(d) \in free
  <2> HIDE DEF free
  <2> QED BY <1>4, <1>5
<1> QED BY <1>3, <1>6

\* The comparison of the active tab, of which there is one.
ActiveState(d) == Session!activeTab(d).state

LEMMA AddTabKeeps ==
  ASSUME NEW d, IsDoc(d), NEW st
  PROVE  /\ IsDoc(Session!addTab(d, st))
         /\ Session!addTab(d, st).tabs # <<>>
         /\ ActiveState(Session!addTab(d, st)) = st
<1> DEFINE S == StatesOf(d) \cup {st}
           T == [id : Nat, state : S]
           new == [id |-> Session!nextId(d), state |-> st]
           e == Session!addTab(d, st)
           len == Len(d.tabs)
<1>1. d.tabs \in Seq([id : Nat, state : StatesOf(d)]) /\ len \in Nat /\ DOMAIN d.tabs = 1 .. len
  BY DocShape
<1>2. [id : Nat, state : StatesOf(d)] \subseteq T
  OBVIOUS
<1>3. d.tabs \in Seq(T)
  <2> HIDE DEF T
  <2> QED BY <1>1, <1>2, SeqMonotonic
<1>4. new \in T
  BY NextIdFresh
<1>5. e = [tabs |-> Append(d.tabs, new), active |-> len + 1]
  BY DEF Session!addTab
<1>6. /\ e.tabs \in Seq(T) /\ e.tabs # <<>> /\ Len(e.tabs) = len + 1 /\ e.active = len + 1
      /\ DOMAIN e.tabs = 1 .. len + 1
      /\ \A i \in 1 .. len : e.tabs[i] = d.tabs[i]
      /\ e.tabs[len + 1] = new
  <2> HIDE DEF T, new
  <2>1. e.tabs = Append(d.tabs, new) /\ e.active = len + 1
    BY <1>5
  <2>2. DOMAIN e.tabs = 1 .. Len(e.tabs)
    BY <2>1, <1>3, <1>4, AppendProperties, LenProperties
  <2> QED BY <2>1, <2>2, <1>3, <1>4, AppendProperties
<1>7. \A m, n \in DOMAIN e.tabs : e.tabs[m].id = e.tabs[n].id => m = n
  <2>1. \A m, n \in 1 .. len : d.tabs[m].id = d.tabs[n].id => m = n
    BY <1>1 DEF IsDoc, DocsOver
  <2>2. \A m \in 1 .. len : d.tabs[m].id # new.id
    BY <1>1, NextIdFresh
  <2> HIDE DEF new, e, len
  <2>3. \A m \in 1 .. len : e.tabs[m].id = d.tabs[m].id /\ e.tabs[m].id # e.tabs[len + 1].id
    BY <1>6, <2>2
  <2>4. \A m \in 1 .. len + 1 : m \in 1 .. len \/ m = len + 1
    BY <1>1
  <2> QED BY <1>6, <2>1, <2>3, <2>4
<1>8. e \in DocsOver(S)
  <2>1. e = [tabs |-> e.tabs, active |-> e.active]
    BY <1>5
  <2>2. e.active \in Nat /\ e.active \in DOMAIN e.tabs
    BY <1>1, <1>6
  <2> HIDE DEF e, S, len, new
  <2> QED BY <1>6, <1>7, <2>1, <2>2 DEF DocsOver
<1>9. ActiveState(e) = st
  <2> HIDE DEF e
  <2> QED BY <1>6 DEF ActiveState, Session!activeTab
<1> QED BY <1>6, <1>8, <1>9, DocOver

LEMMA UpdateTabKeeps ==
  ASSUME NEW d, IsDoc(d), d.tabs # <<>>, NEW st
  PROVE  /\ IsDoc(Session!updateTab(d, st))
         /\ Session!updateTab(d, st).tabs # <<>>
         /\ ActiveState(Session!updateTab(d, st)) = st
<1> DEFINE S == StatesOf(d) \cup {st}
           T == [id : Nat, state : S]
           new == [d.tabs[d.active] EXCEPT !.state = st]
           e == Session!updateTab(d, st)
<1>1. /\ d = [tabs |-> d.tabs, active |-> d.active]
      /\ d.tabs \in Seq([id : Nat, state : StatesOf(d)])
      /\ DOMAIN d.tabs = 1 .. Len(d.tabs) /\ d.active \in 1 .. Len(d.tabs) /\ d.active \in Nat
      /\ Len(d.tabs) \in Nat
  BY DocShape
<1>2. d.tabs \in Seq(T)
  <2>1. [id : Nat, state : StatesOf(d)] \subseteq T
    OBVIOUS
  <2> HIDE DEF T
  <2> QED BY <1>1, <2>1, SeqMonotonic
<1>3. d.tabs[d.active] \in [id : Nat, state : StatesOf(d)]
  BY <1>1, ElementOfSeq
<1>4. new \in T /\ new.id = d.tabs[d.active].id /\ new.state = st
  BY <1>3
<1>5. e = [tabs |-> [d.tabs EXCEPT ![d.active] = new], active |-> d.active]
  <2> DEFINE tabs == d.tabs
             a == d.active
  <2>1. d = [tabs |-> tabs, active |-> a]
    BY <1>1
  <2>2. e = [d EXCEPT !.tabs = [tabs EXCEPT ![a] = [tabs[a] EXCEPT !.state = st]]]
    BY DEF Session!updateTab
  <2> HIDE DEF tabs, a, e
  <2>3. e = [tabs |-> [tabs EXCEPT ![a] = [tabs[a] EXCEPT !.state = st]], active |-> a]
    BY <2>1, <2>2
  <2> QED BY <2>3 DEF tabs, a
<1>6. /\ e.tabs \in Seq(T) /\ e.active = d.active /\ Len(e.tabs) = Len(d.tabs)
      /\ DOMAIN e.tabs = 1 .. Len(d.tabs)
      /\ \A j \in 1 .. Len(d.tabs) : e.tabs[j] = IF j = d.active THEN new ELSE d.tabs[j]
  <2> HIDE DEF T, new
  <2>1. e.tabs = [d.tabs EXCEPT ![d.active] = new] /\ e.active = d.active
    BY <1>5
  <2>2. DOMAIN e.tabs = 1 .. Len(e.tabs)
    BY <2>1, <1>1, <1>2, <1>4, ExceptSeq, LenProperties
  <2> QED BY <2>1, <2>2, <1>1, <1>2, <1>4, ExceptSeq
<1>7. \A m, n \in DOMAIN e.tabs : e.tabs[m].id = e.tabs[n].id => m = n
  <2>1. \A m, n \in 1 .. Len(d.tabs) : d.tabs[m].id = d.tabs[n].id => m = n
    BY <1>1 DEF IsDoc, DocsOver
  <2>2. \A m \in 1 .. Len(d.tabs) : e.tabs[m].id = d.tabs[m].id
    <3> HIDE DEF new, e
    <3> QED BY <1>4, <1>6
  <2> HIDE DEF new, e
  <2> QED BY <1>6, <2>1, <2>2
<1>8. e \in DocsOver(S)
  <2>1. e = [tabs |-> e.tabs, active |-> e.active]
    BY <1>5
  <2> HIDE DEF e, S, new
  <2> QED BY <1>1, <1>6, <1>7, <2>1 DEF DocsOver
<1>9. ActiveState(e) = st /\ e.tabs # <<>>
  <2>1. ActiveState(e) = e.tabs[e.active].state
    BY DEF ActiveState, Session!activeTab
  <2>2. e.tabs[e.active] = new
    <3> HIDE DEF e, new
    <3> QED BY <1>1, <1>6
  <2>3. Len(e.tabs) # 0
    <3> HIDE DEF e, new
    <3> QED BY <1>1, <1>6
  <2>4. e.tabs # <<>>
    <3> HIDE DEF e, new
    <3> QED BY <2>3, EmptySeq
  <2> QED BY <2>1, <2>2, <2>4, <1>4
<1> QED BY <1>8, <1>9, DocOver

LEMMA ActivateTabKeeps ==
  ASSUME NEW d, IsDoc(d), NEW id
  PROVE  IsDoc(Session!activateTab(d, id))
<1>1. CASE \E n \in DOMAIN d.tabs : d.tabs[n].id = id
  <2> DEFINE k == CHOOSE n \in DOMAIN d.tabs : d.tabs[n].id = id
  <2>1. k \in DOMAIN d.tabs
    BY <1>1
  <2>2. Session!activateTab(d, id) = [tabs |-> d.tabs, active |-> k]
    <3>1. Session!activateTab(d, id) = [d EXCEPT !.active = k]
      BY <1>1 DEF Session!activateTab
    <3>2. d = [tabs |-> d.tabs, active |-> d.active]
      BY DocShape
    <3> HIDE DEF k
    <3> QED BY <3>1, <3>2
  <2>3. k \in Nat
    BY <2>1, DocShape
  <2> HIDE DEF k
  <2>4. [tabs |-> d.tabs, active |-> k] \in DocsOver(StatesOf(d))
    BY <2>1, <2>3, DocShape DEF DocsOver, IsDoc
  <2> QED BY <2>2, <2>4, DocOver
<1>2. CASE ~ \E n \in DOMAIN d.tabs : d.tabs[n].id = id
  BY <1>2 DEF Session!activateTab
<1> QED BY <1>1, <1>2

LEMMA RemoveAtIs ==
  ASSUME NEW S, NEW s \in Seq(S), NEW k \in 1 .. Len(s)
  PROVE  /\ Session!RemoveAt(s, k) \in Seq(S)
         /\ Len(Session!RemoveAt(s, k)) = Len(s) - 1
         /\ \A i \in 1 .. Len(s) - 1 :
              Session!RemoveAt(s, k)[i] = IF i < k THEN s[i] ELSE s[i + 1]
<1>1. Len(s) \in Nat /\ \A i \in 1 .. Len(s) : s[i] \in S
  BY LenProperties, ElementOfSeq
<1> DEFINE len == Len(s)
           s1 == SubSeq(s, 1, k - 1)
           s2 == SubSeq(s, k + 1, len)
<1>2. /\ s1 \in Seq(S) /\ Len(s1) = k - 1
      /\ \A i \in 1 .. k - 1 : s1[i] = s[i]
  <2>1. \A i \in 1 .. k - 1 : s[i] \in S
    BY <1>1
  <2>2. /\ SubSeq(s, 1, k - 1) \in Seq(S)
        /\ Len(SubSeq(s, 1, k - 1)) = IF 1 <= k - 1 THEN k - 1 - 1 + 1 ELSE 0
        /\ \A i \in 1 .. k - 1 - 1 + 1 : SubSeq(s, 1, k - 1)[i] = s[1 + i - 1]
    BY <1>1, <2>1, SubSeqProperties
  <2> QED BY <1>1, <2>2
<1>3. /\ s2 \in Seq(S) /\ Len(s2) = len - k
      /\ \A i \in 1 .. len - k : s2[i] = s[k + i]
  <2>1. \A i \in k + 1 .. len : s[i] \in S
    BY <1>1
  <2>2. /\ SubSeq(s, k + 1, len) \in Seq(S)
        /\ Len(SubSeq(s, k + 1, len)) = IF k + 1 <= len THEN len - (k + 1) + 1 ELSE 0
        /\ \A i \in 1 .. len - (k + 1) + 1 : SubSeq(s, k + 1, len)[i] = s[(k + 1) + i - 1]
    <3> HIDE DEF len
    <3>1. k + 1 \in Int /\ len \in Int
      BY <1>1 DEF len
    <3> QED BY <3>1, <2>1, SubSeqProperties
  <2> QED BY <1>1, <2>2
<1>4. /\ s1 \o s2 \in Seq(S) /\ Len(s1 \o s2) = Len(s1) + Len(s2)
      /\ \A i \in 1 .. Len(s1) + Len(s2) :
           (s1 \o s2)[i] = IF i <= Len(s1) THEN s1[i] ELSE s2[i - Len(s1)]
  BY <1>2, <1>3, ConcatProperties
<1>5. Session!RemoveAt(s, k) = s1 \o s2
  BY DEF Session!RemoveAt
<1>6. k - 1 + (len - k) = len - 1
  BY <1>1
<1>7. ASSUME NEW i \in 1 .. len - 1
      PROVE  (s1 \o s2)[i] = IF i < k THEN s[i] ELSE s[i + 1]
  <2> HIDE DEF s1, s2, len
  <2>1. len \in Nat /\ k \in Nat /\ k \in 1 .. len
    BY <1>1 DEF len
  <2>2. (s1 \o s2)[i] = IF i <= k - 1 THEN s1[i] ELSE s2[i - (k - 1)]
    BY <1>2, <1>3, <1>4, <1>6
  <2>3. CASE i < k
    BY <2>1, <2>2, <2>3, <1>2
  <2>4. CASE ~(i < k)
    <3>1. i - (k - 1) \in 1 .. len - k /\ k + (i - (k - 1)) = i + 1 /\ ~(i <= k - 1)
      BY <2>1, <2>4
    <3> QED BY <3>1, <2>2, <2>4, <1>3
  <2> QED BY <2>3, <2>4
<1> HIDE DEF s1, s2
<1> QED BY <1>2, <1>3, <1>4, <1>5, <1>6, <1>7

LEMMA RemoveTabKeeps ==
  ASSUME NEW d, IsDoc(d), NEW id
  PROVE  IsDoc(Session!removeTab(d, id))
<1>1. CASE \A n \in DOMAIN d.tabs : d.tabs[n].id # id
  BY <1>1 DEF Session!removeTab
<1>2. CASE \E n \in DOMAIN d.tabs : d.tabs[n].id = id
  <2> DEFINE S == StatesOf(d)
             T == [id : Nat, state : S]
             k == CHOOSE n \in DOMAIN d.tabs : d.tabs[n].id = id
             rest == Session!RemoveAt(d.tabs, k)
             next == IF k < d.active THEN d.active - 1 ELSE d.active
             a == IF next > Len(rest) THEN Len(rest) ELSE next
             len == Len(d.tabs)
  <2>1. /\ d.tabs \in Seq(T) /\ len \in Nat /\ DOMAIN d.tabs = 1 .. len
        /\ \A m, n \in 1 .. len : d.tabs[m].id = d.tabs[n].id => m = n
    BY DocShape DEF IsDoc, DocsOver
  <2>2. k \in 1 .. len
    BY <1>2, <2>1
  <2>3. Session!removeTab(d, id)
          = IF rest = <<>> THEN Session!emptyDoc ELSE [tabs |-> rest, active |-> a]
    BY <1>2 DEF Session!removeTab
  <2>4. /\ rest \in Seq(T) /\ Len(rest) = len - 1
        /\ \A i \in 1 .. len - 1 : rest[i] = IF i < k THEN d.tabs[i] ELSE d.tabs[i + 1]
    <3> HIDE DEF k, T
    <3> QED BY <2>1, <2>2, RemoveAtIs
  <2>5. DOMAIN rest = 1 .. len - 1
    <3> HIDE DEF rest, T
    <3> QED BY <2>4, LenProperties
  <2>6. ASSUME rest # <<>> PROVE [tabs |-> rest, active |-> a] \in DocsOver(S)
    <3>1. len - 1 > 0
      <4> HIDE DEF rest, T
      <4> QED BY <2>1, <2>4, <2>6, EmptySeq
    <3>2. d.active \in 1 .. len
      <4>1. d.tabs # <<>>
        BY <2>1, <2>2, EmptySeq
      <4> QED BY <4>1, DocShape
    <3>3. a \in 1 .. len - 1 /\ a \in Nat
      <4>1. k \in Nat /\ len \in Nat /\ Len(rest) = len - 1
        BY <2>1, <2>2, <2>4
      <4> HIDE DEF rest, k, len
      <4>2. next \in 1 .. len \/ next = 0
        BY <4>1, <3>2
      <4>3. next = 0 => k < 1
        BY <4>1, <3>2
      <4>4. next # 0
        BY <2>2, <4>1, <4>3
      <4> QED BY <4>1, <4>2, <4>4, <3>1
    <3>4. \A m, n \in 1 .. len - 1 : rest[m].id = rest[n].id => m = n
      <4> SUFFICES ASSUME NEW m \in 1 .. len - 1, NEW n \in 1 .. len - 1, rest[m].id = rest[n].id
                   PROVE  m = n
        OBVIOUS
      <4> HIDE DEF rest, k, T, S
      <4>3. /\ len \in Nat /\ k \in 1 .. len
            /\ \A i \in 1 .. len - 1 : rest[i] = IF i < k THEN d.tabs[i] ELSE d.tabs[i + 1]
        BY <2>1, <2>2, <2>4
      <4> HIDE DEF len
      <4>1. PICK i \in 1 .. len : i = (IF m < k THEN m ELSE m + 1) /\ rest[m] = d.tabs[i]
        <5>1. m < k => m \in 1 .. len /\ rest[m] = d.tabs[m]
          BY <4>3
        <5>2. ~(m < k) => m + 1 \in 1 .. len /\ rest[m] = d.tabs[m + 1]
          BY <4>3
        <5> QED BY <5>1, <5>2
      <4>2. PICK j \in 1 .. len : j = (IF n < k THEN n ELSE n + 1) /\ rest[n] = d.tabs[j]
        <5>1. n < k => n \in 1 .. len /\ rest[n] = d.tabs[n]
          BY <4>3
        <5>2. ~(n < k) => n + 1 \in 1 .. len /\ rest[n] = d.tabs[n + 1]
          BY <4>3
        <5> QED BY <5>1, <5>2
      <4>4. i = j
        BY <4>1, <4>2, <2>1 DEF len
      <4> QED BY <4>1, <4>2, <4>3, <4>4
    <3> HIDE DEF rest, a, S, T, k
    <3> QED BY <2>4, <2>5, <3>3, <3>4 DEF DocsOver, T
  <2> HIDE DEF rest, a, S
  <2> QED BY <2>3, <2>6, DocOver, EmptyDocIs
<1> QED BY <1>1, <1>2

LEMMA RememberKeeps ==
  ASSUME NEW d, IsDoc(d), NEW st
  PROVE  /\ IsDoc(Session!rememberActiveTab(d, st))
         /\ Session!rememberActiveTab(d, st).tabs # <<>>
         /\ ActiveState(Session!rememberActiveTab(d, st)) = st
BY AddTabKeeps, UpdateTabKeeps DEF Session!rememberActiveTab

--------------------------------------------------------------------------------
(* The page and the browser's history, and what the helpers make of them. *)

\* A record with these fields.
PageFields ==
  {"form", "doc", "key", "defaults", "baseline", "busy", "shown", "restoring", "gen",
   "switching", "urlTimer", "runTimer"}
WorldFields == {"page", "entries", "at", "store"}

IsPage(p) ==
  /\ p = [f \in PageFields |-> p[f]]
  /\ IsDoc(p.doc)
  /\ p.gen \in Nat

\* An entry says of its active tab what it says of the comparison.
IsEntry(e) ==
  /\ e = [state |-> e.state, doc |-> e.doc]
  /\ e.doc # None =>
       /\ IsDoc(e.doc)
       /\ e.doc.tabs # <<>> => ActiveState(e.doc) = e.state

IsHistory(es, k) ==
  /\ es \in Seq({es[i] : i \in DOMAIN es})
  /\ \A i \in DOMAIN es : IsEntry(es[i])
  /\ k \in DOMAIN es

IsWorld(w) ==
  /\ w = [f \in WorldFields |-> w[f]]
  /\ IsPage(w.page)
  /\ IsHistory(w.entries, w.at)

\* What a change of the tabs leaves alone.
Flags(p) == <<p.form, p.key, p.busy, p.restoring, p.gen, p.switching>>

LEMMA HistoryShape ==
  ASSUME NEW es, NEW k, IsHistory(es, k)
  PROVE  /\ Len(es) \in Nat /\ DOMAIN es = 1 .. Len(es) /\ k \in 1 .. Len(es)
         /\ \A i \in 1 .. Len(es) : IsEntry(es[i])
BY LenProperties DEF IsHistory

LEMMA HistoryOver ==
  ASSUME NEW S, NEW es \in Seq(S), \A i \in 1 .. Len(es) : IsEntry(es[i]),
         NEW k \in 1 .. Len(es)
  PROVE  IsHistory(es, k)
<1>1. DOMAIN es = 1 .. Len(es)
  BY LenProperties
<1>2. es \in Seq({es[i] : i \in DOMAIN es})
  BY <1>1, SeqOfRange, RangeEquality
<1> QED BY <1>1, <1>2 DEF IsHistory

\* pushState: the entries after the one shown are gone.
LEMMA PushKeeps ==
  ASSUME NEW es, NEW k, IsHistory(es, k), NEW e, IsEntry(e)
  PROVE  IsHistory(Append(SubSeq(es, 1, k), e), k + 1)
<1> DEFINE S == {es[i] : i \in DOMAIN es} \cup {e}
           past == SubSeq(es, 1, k)
<1>1. Len(es) \in Nat /\ DOMAIN es = 1 .. Len(es) /\ k \in 1 .. Len(es)
  BY HistoryShape
<1>2. \A i \in 1 .. k : es[i] \in S
  BY <1>1
<1>3. past \in Seq(S) /\ Len(past) = k /\ \A i \in 1 .. k : past[i] = es[i]
  <2>1. /\ past \in Seq(S)
        /\ Len(past) = IF 1 <= k THEN k - 1 + 1 ELSE 0
        /\ \A i \in 1 .. k - 1 + 1 : past[i] = es[1 + i - 1]
    <3> HIDE DEF S
    <3> QED BY <1>1, <1>2, SubSeqProperties
  <2> QED BY <1>1, <2>1
<1>4. /\ Append(past, e) \in Seq(S) /\ Len(Append(past, e)) = k + 1
      /\ \A i \in 1 .. k : Append(past, e)[i] = es[i]
      /\ Append(past, e)[k + 1] = e
  <2>1. e \in S
    OBVIOUS
  <2> HIDE DEF S, past
  <2> QED BY <1>3, <2>1, AppendProperties
<1>5. \A i \in 1 .. k + 1 : IsEntry(Append(past, e)[i])
  <2> HIDE DEF past, S
  <2>1. \A i \in 1 .. k : IsEntry(Append(past, e)[i])
    BY <1>1, <1>4, HistoryShape
  <2>2. \A i \in 1 .. k + 1 : i \in 1 .. k \/ i = k + 1
    BY <1>1
  <2> QED BY <1>4, <2>1, <2>2
<1> HIDE DEF S, past
<1>6. k + 1 \in 1 .. Len(Append(past, e))
  BY <1>1, <1>4
<1>7. IsHistory(Append(past, e), k + 1)
  BY <1>4, <1>5, <1>6, HistoryOver
<1> QED BY <1>7 DEF past

\* replaceState.
LEMMA ReplaceKeeps ==
  ASSUME NEW es, NEW k, IsHistory(es, k), NEW e, IsEntry(e)
  PROVE  IsHistory([es EXCEPT ![k] = e], k)
<1> DEFINE S == {es[i] : i \in DOMAIN es} \cup {e}
           new == [es EXCEPT ![k] = e]
<1>1. /\ Len(es) \in Nat /\ DOMAIN es = 1 .. Len(es) /\ k \in 1 .. Len(es)
      /\ \A i \in 1 .. Len(es) : IsEntry(es[i])
  BY HistoryShape
<1>2. es \in Seq(S)
  <2>1. {es[i] : i \in DOMAIN es} \subseteq S /\ es \in Seq({es[i] : i \in DOMAIN es})
    BY DEF IsHistory
  <2> HIDE DEF S
  <2> QED BY <2>1, SeqMonotonic
<1>3. e \in S
  OBVIOUS
<1>4. /\ new \in Seq(S) /\ Len(new) = Len(es)
      /\ \A j \in 1 .. Len(es) : new[j] = IF j = k THEN e ELSE es[j]
  <2> HIDE DEF S
  <2> QED BY <1>1, <1>2, <1>3, ExceptSeq
<1> HIDE DEF new, S
<1>5. IsHistory(new, k)
  BY <1>1, <1>4, HistoryOver
<1> QED BY <1>5 DEF new

LEMMA MoveKeeps ==
  ASSUME NEW es, NEW k, IsHistory(es, k), NEW j \in DOMAIN es
  PROVE  IsHistory(es, j)
BY DEF IsHistory

\* The address and the tab are told the same.
LEMMA UpdateURLKeeps ==
  ASSUME NEW w, IsWorld(w), NEW action
  PROVE  /\ IsWorld(Session!updateComparisonURL(w, action))
         /\ Flags(Session!updateComparisonURL(w, action).page) = Flags(w.page)
<1> DEFINE st == Session!captureComparisonState(w.page)
           d == Session!rememberActiveTab(w.page.doc, st)
           next == Session!Fragment(st, d)
           p == [w.page EXCEPT !.doc = d]
           remembered == [w EXCEPT !.page.doc = d]
<1>1. IsDoc(d) /\ d.tabs # <<>> /\ ActiveState(d) = st
  BY RememberKeeps DEF IsWorld, IsPage
<1>2. IsEntry(next)
  <2> HIDE DEF d, st
  <2> QED BY <1>1 DEF Session!Fragment, IsEntry
<1>3. IsPage(p) /\ Flags(p) = Flags(w.page)
  <2> HIDE DEF d
  <2> QED BY <1>1 DEF IsWorld, IsPage, PageFields, Flags
<1>4. /\ remembered = [f \in WorldFields |-> remembered[f]]
      /\ remembered.page = p /\ remembered.entries = w.entries /\ remembered.at = w.at
  <2> HIDE DEF d
  <2> QED BY DEF IsWorld, WorldFields
<1>5. IsHistory(w.entries, w.at)
  BY DEF IsWorld
<1> HIDE DEF next, d, p, st
<1>6. IsWorld(remembered)
  BY <1>3, <1>4, <1>5 DEF IsWorld
<1> DEFINE pushed == [remembered EXCEPT !.entries = Append(SubSeq(@, 1, w.at), next), !.at = @ + 1]
           replaced == [remembered EXCEPT !.entries[w.at] = next]
<1>7. IsWorld(pushed) /\ pushed.page = p
  <2>1. /\ pushed = [f \in WorldFields |-> pushed[f]] /\ pushed.page = p
        /\ pushed.entries = Append(SubSeq(w.entries, 1, w.at), next) /\ pushed.at = w.at + 1
    <3> HIDE DEF remembered
    <3> QED BY <1>4 DEF WorldFields
  <2>2. IsHistory(Append(SubSeq(w.entries, 1, w.at), next), w.at + 1)
    BY <1>2, <1>5, PushKeeps
  <2> HIDE DEF pushed
  <2> QED BY <1>3, <2>1, <2>2 DEF IsWorld
<1>8. IsWorld(replaced) /\ replaced.page = p
  <2>1. /\ replaced = [f \in WorldFields |-> replaced[f]] /\ replaced.page = p
        /\ replaced.entries = [w.entries EXCEPT ![w.at] = next] /\ replaced.at = w.at
    <3> HIDE DEF remembered
    <3> QED BY <1>4 DEF WorldFields
  <2>2. IsHistory([w.entries EXCEPT ![w.at] = next], w.at)
    BY <1>2, <1>5, ReplaceKeeps
  <2> HIDE DEF replaced
  <2> QED BY <1>3, <2>1, <2>2 DEF IsWorld
<1>9. Session!updateComparisonURL(w, action) \in {w, remembered, pushed, replaced}
  BY DEF Session!updateComparisonURL, d, next, st
<1> HIDE DEF remembered, pushed, replaced
<1> QED BY <1>3, <1>4, <1>6, <1>7, <1>8, <1>9

LEMMA StoreKeeps ==
  ASSUME NEW w, IsWorld(w), NEW key, NEW st
  PROVE  /\ IsWorld(Session!storeComparisonState(w, key, st))
         /\ Session!storeComparisonState(w, key, st).page = w.page
         /\ Session!storeComparisonState(w, key, st).entries = w.entries
         /\ Session!storeComparisonState(w, key, st).at = w.at
<1> DEFINE new == Session!writeConditions(w.store, key, st)
<1>1. /\ IsWorld([w EXCEPT !.store = new])
      /\ [w EXCEPT !.store = new].page = w.page
      /\ [w EXCEPT !.store = new].entries = w.entries
      /\ [w EXCEPT !.store = new].at = w.at
  <2> HIDE DEF new
  <2> QED BY DEF IsWorld, WorldFields
<1>2. Session!storeComparisonState(w, key, st) \in {w, [w EXCEPT !.store = new]}
  BY DEF Session!storeComparisonState
<1> HIDE DEF new
<1> QED BY <1>1, <1>2

\* The same with another page.
LEMMA PageKeeps ==
  ASSUME NEW w, IsWorld(w), NEW v, v = [f \in WorldFields |-> v[f]],
         v.entries = w.entries, v.at = w.at, IsPage(v.page)
  PROVE  IsWorld(v)
BY DEF IsWorld

\* The form and its key, and nothing else of what the flags say.
LEMMA ApplyKeeps ==
  ASSUME NEW w, IsWorld(w), NEW st
  PROVE  /\ IsWorld(Session!applyComparisonState(w, st))
         /\ Session!applyComparisonState(w, st).page.form = st
         /\ Session!applyComparisonState(w, st).page.key = st.cmp
         /\ Session!applyComparisonState(w, st).page.busy = w.page.busy
         /\ Session!applyComparisonState(w, st).page.restoring = w.page.restoring
         /\ Session!applyComparisonState(w, st).page.gen = w.page.gen
         /\ Session!applyComparisonState(w, st).page.switching = w.page.switching
         /\ Session!applyComparisonState(w, st).entries = w.entries
         /\ Session!applyComparisonState(w, st).at = w.at
<1> DEFINE v == [w EXCEPT !.page.form = st, !.page.key = st.cmp]
<1>1. /\ IsWorld(v) /\ v.page.form = st /\ v.page.key = st.cmp
      /\ v.page.busy = w.page.busy /\ v.page.restoring = w.page.restoring
      /\ v.page.gen = w.page.gen /\ v.page.switching = w.page.switching
      /\ v.page.doc = w.page.doc
      /\ v.entries = w.entries /\ v.at = w.at
  BY PageKeeps DEF IsWorld, IsPage, PageFields, WorldFields
<1>2. Session!applyComparisonState(w, st) = Session!storeComparisonState(v, st.cmp, st)
  BY DEF Session!applyComparisonState
<1> HIDE DEF v
<1> QED BY <1>1, <1>2, StoreKeeps

\* A comparison whose conditions the form already has is run as it is.
LEMMA ScopeKeeps ==
  ASSUME NEW w, IsWorld(w)
  PROVE  LET q == Session!scopeConditionsForRun(w).page
         IN  /\ IsWorld(Session!scopeConditionsForRun(w))
             /\ w.page.key = w.page.form.cmp => q.form = w.page.form /\ q.key = w.page.key
             /\ q.busy = w.page.busy /\ q.restoring = w.page.restoring
             /\ q.gen = w.page.gen /\ q.switching = w.page.switching
<1> DEFINE key == w.page.form.cmp
           remembered == Session!readConditions(w.store, key)
           keyed == [w EXCEPT !.page.key = key]
           based == [w EXCEPT !.page.form.cond = w.page.baseline, !.page.key = key]
<1>1. /\ IsWorld(keyed) /\ keyed.page.form = w.page.form /\ keyed.page.key = key
      /\ keyed.page.busy = w.page.busy /\ keyed.page.restoring = w.page.restoring
      /\ keyed.page.gen = w.page.gen /\ keyed.page.switching = w.page.switching
  BY PageKeeps DEF IsWorld, IsPage, PageFields, WorldFields
<1>2. /\ IsWorld(based)
      /\ based.page.busy = w.page.busy /\ based.page.restoring = w.page.restoring
      /\ based.page.gen = w.page.gen /\ based.page.switching = w.page.switching
  BY PageKeeps DEF IsWorld, IsPage, PageFields, WorldFields
<1>3. CASE key = None \/ w.page.key \in {None, key}
  <2>1. Session!scopeConditionsForRun(w) \in {w, keyed}
    BY <1>3 DEF Session!scopeConditionsForRun
  <2> HIDE DEF keyed
  <2> QED BY <2>1, <1>1
<1>4. CASE ~(key = None \/ w.page.key \in {None, key})
  <2>1. Session!scopeConditionsForRun(w)
          \in {Session!applyComparisonState(w, remembered), based}
    BY <1>4 DEF Session!scopeConditionsForRun
  <2>2. w.page.key # w.page.form.cmp
    BY <1>4
  <2> HIDE DEF key, based, remembered
  <2>3. CASE Session!scopeConditionsForRun(w) = Session!applyComparisonState(w, remembered)
    BY <2>2, <2>3, ApplyKeeps
  <2>4. CASE Session!scopeConditionsForRun(w) = based
    BY <2>2, <2>4, <1>2
  <2> QED BY <2>1, <2>3, <2>4
<1> QED BY <1>3, <1>4

--------------------------------------------------------------------------------
(* The calls that wait, and the end of one. *)

CallFields == {"pc", "back", "url", "gen", "state", "key", "body"}

IsCall(c) ==
  /\ c = [f \in CallFields |-> c[f]]
  /\ c.back \in {"user", "tab", "restore"}

\* The end of a call leaves the page at the form it had; what the call held back goes on.
Settled(p, q, call) ==
  /\ q.form = p.form /\ q.key = p.key /\ q.busy = p.busy /\ q.gen = p.gen
  /\ q.restoring => p.restoring /\ call.back # "tab" /\ ~(call.back = "restore" /\ call.gen = p.gen)
  /\ q.switching => p.switching /\ call.back # "tab"

LEMMA TabLoadedKeeps ==
  ASSUME NEW w, IsWorld(w), NEW call, call.back = "tab"
  PROVE  /\ IsWorld(Session!TabLoaded(w))
         /\ Settled(w.page, Session!TabLoaded(w).page, call)
<1> DEFINE free == [w EXCEPT !.page.restoring = FALSE]
           told == Session!updateComparisonURL(free, "replace")
<1>1. /\ IsWorld(free) /\ free.page.restoring = FALSE
      /\ free.page.form = w.page.form /\ free.page.key = w.page.key
      /\ free.page.busy = w.page.busy /\ free.page.gen = w.page.gen
  BY PageKeeps DEF IsWorld, IsPage, PageFields, WorldFields
<1>2. IsWorld(told) /\ Flags(told.page) = Flags(free.page)
  <2> HIDE DEF free
  <2> QED BY <1>1, UpdateURLKeeps
<1>3. Session!TabLoaded(w) = [told EXCEPT !.page.switching = FALSE]
  BY DEF Session!TabLoaded
<1> HIDE DEF told, free
<1> DEFINE v == [told EXCEPT !.page.switching = FALSE]
<1>4. /\ IsWorld(v) /\ v.page.switching = FALSE
      /\ v.page.form = told.page.form /\ v.page.key = told.page.key
      /\ v.page.busy = told.page.busy /\ v.page.gen = told.page.gen
      /\ v.page.restoring = told.page.restoring
  BY <1>2, PageKeeps DEF IsWorld, IsPage, PageFields, WorldFields
<1> HIDE DEF v
<1> QED BY <1>1, <1>2, <1>3, <1>4 DEF Settled, Flags, v

LEMMA RestoredKeeps ==
  ASSUME NEW w, IsWorld(w), NEW call, call.back = "restore", NEW ok
  PROVE  /\ IsWorld(Session!Restored(w, call, ok))
         /\ Settled(w.page, Session!Restored(w, call, ok).page, call)
<1> DEFINE d == Session!rememberActiveTab(w.page.doc, call.state)
           v == [w EXCEPT !.page.doc = d]
           told == IF ok THEN v ELSE w
           u == [told EXCEPT !.page.restoring = FALSE]
<1>1. IsDoc(d)
  BY RememberKeeps DEF IsWorld, IsPage
<1>2. IsWorld(v) /\ Flags(v.page) = Flags(w.page)
  <2> HIDE DEF d
  <2> QED BY <1>1, PageKeeps DEF IsWorld, IsPage, PageFields, WorldFields, Flags
<1>3. IsWorld(told) /\ Flags(told.page) = Flags(w.page)
  <2> HIDE DEF v
  <2> QED BY <1>2
<1>4. /\ IsWorld(u) /\ u.page.restoring = FALSE
      /\ u.page.form = told.page.form /\ u.page.key = told.page.key
      /\ u.page.busy = told.page.busy /\ u.page.gen = told.page.gen
      /\ u.page.switching = told.page.switching
  <2> HIDE DEF told
  <2> QED BY <1>3, PageKeeps DEF IsWorld, IsPage, PageFields, WorldFields
<1>5. Session!Restored(w, call, ok) = IF call.gen = w.page.gen THEN u ELSE told
  BY DEF Session!Restored
<1> HIDE DEF u, told
<1> QED BY <1>3, <1>4, <1>5 DEF Settled, Flags

LEMMA AnsweredKeeps ==
  ASSUME NEW w, IsWorld(w), NEW call, IsCall(call), NEW ok
  PROVE  /\ IsWorld(Session!Answered(w, call, ok))
         /\ Settled(w.page, Session!Answered(w, call, ok).page, call)
<1> DEFINE kept == Session!storeComparisonState(w, call.key, Session!captureComparisonState(w.page))
           told == Session!updateComparisonURL(kept, call.url)
           done == IF ok THEN told ELSE w
<1>1. IsWorld(kept) /\ kept.page = w.page
  BY StoreKeeps
<1>2. IsWorld(told) /\ Flags(told.page) = Flags(w.page)
  <2> HIDE DEF kept
  <2> QED BY <1>1, UpdateURLKeeps
<1>3. IsWorld(done) /\ Flags(done.page) = Flags(w.page)
  <2> HIDE DEF told
  <2> QED BY <1>2
<1>4. /\ call.back = "tab" => Session!Answered(w, call, ok) = Session!TabLoaded(done)
      /\ call.back = "restore" => Session!Answered(w, call, ok) = Session!Restored(done, call, ok)
      /\ call.back = "user" => Session!Answered(w, call, ok) = done
  BY DEF Session!Answered
<1> HIDE DEF done
<1>5. CASE call.back = "tab"
  BY <1>3, <1>4, <1>5, TabLoadedKeeps DEF Settled, Flags
<1>6. CASE call.back = "restore"
  BY <1>3, <1>4, <1>6, RestoredKeeps DEF Settled, Flags
<1>7. CASE call.back = "user"
  BY <1>3, <1>4, <1>7 DEF Settled, Flags
<1> QED BY <1>5, <1>6, <1>7 DEF IsCall

--------------------------------------------------------------------------------
(* The invariant. *)

\* Who will clear the flags of the page: the restore of the newest generation, the
\* load of a tab.
HoldsRestore(c, p) ==
  \/ /\ c.pc \in {"watch", "run"}
     /\ c.back = "tab" \/ (c.back = "restore" /\ c.gen = p.gen)
  \/ c.pc = "idle" /\ c.gen = p.gen

HoldsSwitch(c) == c.pc \in {"watch", "run"} /\ c.back = "tab"

\* Who will show what was asked for.
Brings(c, p, g) == c.pc = "idle" /\ c.gen = p.gen /\ c.state = g

Shows(p, g) == p.form = g /\ p.key = g.cmp

\* No restore that waits is ahead of the page, and the newest one brings what was asked for.
InTurn(c, p, g) ==
  c.pc = "idle" =>
    /\ c.gen \in Nat /\ c.gen <= p.gen
    /\ g # None /\ c.gen = p.gen => c.state = g

IsTask(c) ==
  /\ c.pc \in {"watch", "run"} => IsCall(c)
  /\ c.pc = "guard" => c.kind \in {"switch", "open", "close"}

Kept(w, ts, g) ==
  /\ IsWorld(w)
  /\ ts = [t \in Tasks |-> ts[t]]
  /\ \A t \in Tasks : IsTask(ts[t])
  /\ w.page.busy # None => w.page.busy \in Tasks /\ ts[w.page.busy].pc = "run"
  /\ w.page.restoring => \E t \in Tasks : HoldsRestore(ts[t], w.page)
  /\ w.page.switching => \E t \in Tasks : HoldsSwitch(ts[t])
  /\ g # None => Shows(w.page, g) \/ \E t \in Tasks : Brings(ts[t], w.page, g)
  /\ \A t \in Tasks : InTurn(ts[t], w.page, g)

SInv == Kept(Session!World, tasks, goal)

LEMMA WorldIs ==
  /\ Session!World.page = page /\ Session!World.entries = entries
  /\ Session!World.at = entry /\ Session!World.store = store
BY DEF Session!World

\* The world that the variables become.
LEMMA Became ==
  ASSUME NEW w, IsWorld(w), Session!Becomes(w), Kept(w, tasks', goal')
  PROVE  SInv'
<1>1. Session!World' = [page |-> w.page, entries |-> w.entries, at |-> w.at, store |-> w.store]
  BY DEF Session!World, Session!Becomes
<1>2. w = [page |-> w.page, entries |-> w.entries, at |-> w.at, store |-> w.store]
  BY DEF IsWorld, WorldFields
<1>3. Session!World' = w
  BY <1>1, <1>2
<1> QED BY <1>3 DEF SInv

\* A step that one call takes, or begins with, or ends with.
LEMMA TaskStep ==
  ASSUME NEW v, NEW ts, NEW g, Kept(v, ts, g),
         NEW w, IsWorld(w), NEW t \in Tasks, NEW c, IsTask(c), NEW h,
         w.page.busy # None =>
           \/ w.page.busy = v.page.busy /\ ts[t].pc # "run"
           \/ w.page.busy = t /\ c.pc = "run",
         w.page.restoring =>
           \/ HoldsRestore(c, w.page)
           \/ v.page.restoring /\ w.page.gen = v.page.gen /\ ~HoldsRestore(ts[t], v.page),
         w.page.switching =>
           \/ HoldsSwitch(c)
           \/ v.page.switching /\ ~HoldsSwitch(ts[t]),
         h # None =>
           \/ Shows(w.page, h)
           \/ Brings(c, w.page, h)
           \/ /\ h = g /\ w.page.gen = v.page.gen /\ ~Brings(ts[t], v.page, h)
              /\ Shows(v.page, h) => Shows(w.page, h),
         InTurn(c, w.page, h),
         \/ w.page.gen = v.page.gen /\ h \in {None, g}
         \/ w.page.gen = v.page.gen + 1
  PROVE  Kept(w, [ts EXCEPT ![t] = c], h)
<1> DEFINE us == [ts EXCEPT ![t] = c]
<1>1. /\ us = [u \in Tasks |-> us[u]] /\ us[t] = c
      /\ \A u \in Tasks : u # t => us[u] = ts[u]
  BY DEF Kept
<1> HIDE DEF us
<1>2. \A u \in Tasks : IsTask(us[u])
  BY <1>1 DEF Kept
<1>3. w.page.busy # None => w.page.busy \in Tasks /\ us[w.page.busy].pc = "run"
  BY <1>1 DEF Kept
<1>4. w.page.restoring => \E u \in Tasks : HoldsRestore(us[u], w.page)
  <2> SUFFICES ASSUME w.page.restoring PROVE \E u \in Tasks : HoldsRestore(us[u], w.page)
    OBVIOUS
  <2>1. CASE HoldsRestore(c, w.page)
    BY <2>1, <1>1
  <2>2. CASE v.page.restoring /\ w.page.gen = v.page.gen /\ ~HoldsRestore(ts[t], v.page)
    <3>1. PICK u \in Tasks : HoldsRestore(ts[u], v.page)
      BY <2>2 DEF Kept
    <3>2. HoldsRestore(us[u], v.page)
      BY <2>2, <3>1, <1>1
    <3> QED BY <2>2, <3>2 DEF HoldsRestore
  <2> QED BY <2>1, <2>2
<1>5. w.page.switching => \E u \in Tasks : HoldsSwitch(us[u])
  BY <1>1 DEF Kept
<1>6. h # None => Shows(w.page, h) \/ \E u \in Tasks : Brings(us[u], w.page, h)
  <2> SUFFICES ASSUME h # None, ~Shows(w.page, h)
               PROVE  \E u \in Tasks : Brings(us[u], w.page, h)
    OBVIOUS
  <2>1. CASE Brings(c, w.page, h)
    BY <2>1, <1>1
  <2>2. CASE h = g /\ w.page.gen = v.page.gen /\ ~Brings(ts[t], v.page, h) /\ ~Shows(v.page, h)
    <3>1. PICK u \in Tasks : Brings(ts[u], v.page, h)
      BY <2>2 DEF Kept
    <3>2. Brings(us[u], v.page, h)
      BY <2>2, <3>1, <1>1
    <3> QED BY <2>2, <3>2 DEF Brings
  <2> QED BY <2>1, <2>2
<1>7. \A u \in Tasks : InTurn(us[u], w.page, h)
  <2>1. v.page.gen \in Nat
    BY DEF Kept, IsWorld, IsPage
  <2>2. \A u \in Tasks : InTurn(ts[u], w.page, h)
    BY <2>1 DEF Kept, InTurn
  <2> QED BY <2>2, <1>1
<1>8. Kept(w, us, h)
  BY <1>1, <1>2, <1>3, <1>4, <1>5, <1>6, <1>7 DEF Kept
<1> QED BY <1>8 DEF us

\* A step of the page that no call takes part in.
LEMMA PageStep ==
  ASSUME NEW v, NEW ts, NEW g, Kept(v, ts, g), NEW w, IsWorld(w), NEW h,
         w.page.busy = v.page.busy, w.page.gen = v.page.gen,
         w.page.restoring => v.page.restoring, w.page.switching => v.page.switching,
         h # None => h = g /\ (Shows(v.page, h) => Shows(w.page, h))
  PROVE  Kept(w, ts, h)
BY DEF Kept, HoldsRestore, HoldsSwitch, Brings, InTurn

\* compare(): dropped, or on its way.
LEMMA CompareOnKeeps ==
  ASSUME NEW w, IsWorld(w), NEW t, NEW call, IsCall(call), call.pc = "watch",
         Session!CompareOn(w, t, call)
  PROVE  \E u, c :
           /\ IsWorld(u) /\ Session!Becomes(u) /\ tasks' = [tasks EXCEPT ![t] = c]
           /\ u.page.gen = w.page.gen /\ u.page.busy = w.page.busy
           /\ w.page.key = w.page.form.cmp => u.page.form = w.page.form /\ u.page.key = w.page.key
           /\ IsTask(c)
           /\ \/ c.pc = "none" /\ w.page.busy # None /\ Settled(w.page, u.page, call)
              \/ /\ w.page.busy = None
                 /\ c.pc = "watch" /\ c.back = call.back /\ c.gen = call.gen
                 /\ u.page.restoring = w.page.restoring /\ u.page.switching = w.page.switching
<1>1. CASE w.page.busy # None
  <2> DEFINE u == Session!Answered(w, call, FALSE)
             c == Session!NoTask
  <2>1. IsWorld(u) /\ Settled(w.page, u.page, call)
    BY AnsweredKeeps
  <2>2. Session!Becomes(u) /\ tasks' = [tasks EXCEPT ![t] = c]
    BY <1>1 DEF Session!CompareOn
  <2>3. c.pc = "none" /\ IsTask(c)
    BY DEF Session!NoTask, IsTask
  <2> HIDE DEF u, c
  <2> QED BY <1>1, <2>1, <2>2, <2>3 DEF Settled
<1>2. CASE w.page.busy = None
  <2> DEFINE u == Session!scopeConditionsForRun(w)
             c == [call EXCEPT !.pc = "watch", !.key = u.page.form.cmp]
  <2>1. /\ IsWorld(u)
        /\ w.page.key = w.page.form.cmp => u.page.form = w.page.form /\ u.page.key = w.page.key
        /\ u.page.busy = w.page.busy /\ u.page.restoring = w.page.restoring
        /\ u.page.gen = w.page.gen /\ u.page.switching = w.page.switching
    BY ScopeKeeps
  <2>2. Session!Becomes(u) /\ tasks' = [tasks EXCEPT ![t] = c]
    BY <1>2 DEF Session!CompareOn
  <2>3. c.pc = "watch" /\ c.back = call.back /\ c.gen = call.gen /\ IsTask(c)
    <3> HIDE DEF u
    <3> QED BY DEF IsCall, CallFields, IsTask
  <2> HIDE DEF u, c
  <2> QED BY <1>2, <2>1, <2>2, <2>3
<1> QED BY <1>1, <1>2

--------------------------------------------------------------------------------
(* The handlers. *)

LEMMA WorldInv ==
  ASSUME SInv
  PROVE  /\ IsWorld(Session!World) /\ IsPage(page) /\ IsHistory(entries, entry)
         /\ \A t \in Tasks : IsTask(tasks[t])
BY WorldIs DEF SInv, Kept, IsWorld

\* A call begins in a free task, or in that of a question just answered.
IsFree(t) == t \in Tasks /\ tasks[t].pc \in {"none", "guard"}

LEMMA FreeIs ==
  ASSUME NEW t \in Session!Free
  PROVE  IsFree(t)
<1>1. t \in {u \in Tasks : tasks[u] = Session!NoTask}
  BY DEF Session!Free
<1> QED BY <1>1 DEF IsFree, Session!NoTask

\* Calls that hold nothing back: of the Compare button, of the timer.
LEMMA CompareInv ==
  ASSUME SInv, NEW t, IsFree(t), NEW w, IsWorld(w), NEW url, NEW h,
         w.page.busy = page.busy, w.page.gen = page.gen,
         w.page.restoring => page.restoring, w.page.switching => page.switching,
         w.page.form = page.form, w.page.key = page.key,
         Session!CompareOn(w, t, Session!Call("user", url, 0, None)),
         h # None => h = goal, goal' = h
  PROVE  SInv'
<1> DEFINE call == Session!Call("user", url, 0, None)
<1>1. IsCall(call) /\ call.pc = "watch" /\ call.back = "user"
  BY DEF Session!Call, IsCall, CallFields
<1> HIDE DEF call
<1>2. PICK u, c :
        /\ IsWorld(u) /\ Session!Becomes(u) /\ tasks' = [tasks EXCEPT ![t] = c]
        /\ u.page.gen = w.page.gen /\ u.page.busy = w.page.busy
        /\ w.page.key = w.page.form.cmp => u.page.form = w.page.form /\ u.page.key = w.page.key
        /\ IsTask(c)
        /\ \/ c.pc = "none" /\ w.page.busy # None /\ Settled(w.page, u.page, call)
           \/ /\ w.page.busy = None
              /\ c.pc = "watch" /\ c.back = call.back /\ c.gen = call.gen
              /\ u.page.restoring = w.page.restoring /\ u.page.switching = w.page.switching
  BY <1>1, CompareOnKeeps DEF call
<1>3. /\ u.page.restoring => page.restoring
      /\ u.page.switching => page.switching
      /\ \A g : Shows(page, g) => Shows(u.page, g)
  BY <1>2 DEF Settled, Shows
<1>4. t \in Tasks /\ tasks[t].pc \in {"none", "guard"}
  BY DEF IsFree
<1>5. /\ ~HoldsRestore(tasks[t], page) /\ ~HoldsSwitch(tasks[t])
      /\ \A g : ~Brings(tasks[t], page, g)
  BY <1>4 DEF HoldsRestore, HoldsSwitch, Brings
<1>6. Kept(u, [tasks EXCEPT ![t] = c], h)
  <2>1. InTurn(c, u.page, h)
    BY <1>2 DEF InTurn
  <2> QED BY <2>1, <1>2, <1>3, <1>4, <1>5, WorldIs, TaskStep DEF SInv
<1> QED BY <1>2, <1>6, Became

\* What a tab, or a restore, holds back it holds back until its call ends.
LEMMA HeldInv ==
  ASSUME SInv, NEW t \in Tasks, tasks[t].pc # "run", NEW w, IsWorld(w), NEW call, NEW h,
         IsCall(call), call.pc = "watch",
         call.back = "tab" \/ (call.back = "restore" /\ call.gen = w.page.gen),
         w.page.busy = page.busy,
         w.page.switching =>
           call.back = "tab" \/ (page.switching /\ ~HoldsSwitch(tasks[t])),
         h # None => Shows(w.page, h) /\ w.page.key = w.page.form.cmp,
         \/ w.page.gen = page.gen /\ h \in {None, goal}
         \/ w.page.gen = page.gen + 1,
         Session!CompareOn(w, t, call), goal' = h
  PROVE  SInv'
<1>1. PICK u, c :
        /\ IsWorld(u) /\ Session!Becomes(u) /\ tasks' = [tasks EXCEPT ![t] = c]
        /\ u.page.gen = w.page.gen /\ u.page.busy = w.page.busy
        /\ w.page.key = w.page.form.cmp => u.page.form = w.page.form /\ u.page.key = w.page.key
        /\ IsTask(c)
        /\ \/ c.pc = "none" /\ w.page.busy # None /\ Settled(w.page, u.page, call)
           \/ /\ w.page.busy = None
              /\ c.pc = "watch" /\ c.back = call.back /\ c.gen = call.gen
              /\ u.page.restoring = w.page.restoring /\ u.page.switching = w.page.switching
  BY CompareOnKeeps
<1>2. u.page.restoring => HoldsRestore(c, u.page)
  BY <1>1 DEF Settled, HoldsRestore
<1>3. u.page.switching => HoldsSwitch(c) \/ (page.switching /\ ~HoldsSwitch(tasks[t]))
  BY <1>1 DEF Settled, HoldsSwitch
<1>4. h # None => Shows(u.page, h)
  BY <1>1 DEF Shows
<1>5. InTurn(c, u.page, h)
  BY <1>1 DEF InTurn
<1>6. /\ u.page.busy = page.busy /\ tasks[t].pc # "run" /\ IsTask(c)
      /\ \/ u.page.gen = page.gen /\ h \in {None, goal}
         \/ u.page.gen = page.gen + 1
  BY <1>1
<1>7. Kept(u, [tasks EXCEPT ![t] = c], h)
  <2> DEFINE v == Session!World
  <2>1. Kept(v, tasks, goal) /\ v.page = page
    BY WorldIs DEF SInv
  <2> HIDE DEF v
  <2> QED BY <2>1, <1>1, <1>2, <1>3, <1>4, <1>5, <1>6, TaskStep
<1> QED BY <1>1, <1>7, Became

\* prepareFileWatch() answered.
LEMMA PreparedInv ==
  ASSUME SInv, NEW t \in Tasks, Session!Prepared(t)
  PROVE  SInv'
<1>1. tasks[t].pc = "watch" /\ IsCall(tasks[t]) /\ goal' = goal
  BY WorldInv DEF Session!Prepared, IsTask
<1>2. CASE page.busy # None \/ page.form.cmp = None
  <2> DEFINE u == Session!Answered(Session!World, tasks[t], FALSE)
             c == Session!NoTask
  <2>1. IsWorld(u) /\ Settled(page, u.page, tasks[t])
    BY <1>1, WorldInv, WorldIs, AnsweredKeeps
  <2>2. Session!Becomes(u) /\ tasks' = [tasks EXCEPT ![t] = c]
    BY <1>2 DEF Session!Prepared
  <2>3. IsTask(c) /\ \A p, g : InTurn(c, p, g)
    BY DEF Session!NoTask, IsTask, InTurn
  <2> HIDE DEF u, c
  <2>4. /\ u.page.restoring => page.restoring /\ ~HoldsRestore(tasks[t], page)
        /\ u.page.switching => page.switching /\ ~HoldsSwitch(tasks[t])
        /\ u.page.busy = page.busy /\ u.page.gen = page.gen
        /\ \A g : Shows(page, g) => Shows(u.page, g)
        /\ \A g : ~Brings(tasks[t], page, g)
    BY <1>1, <2>1 DEF Settled, HoldsRestore, HoldsSwitch, Shows, Brings
  <2>5. Kept(u, [tasks EXCEPT ![t] = c], goal)
    BY <1>1, <2>1, <2>3, <2>4, WorldIs, TaskStep DEF SInv
  <2> QED BY <1>1, <2>1, <2>2, <2>5, Became
<1>3. CASE ~(page.busy # None \/ page.form.cmp = None)
  <2>1. PICK left \in {None, page.shown} :
          Session!Becomes([Session!World EXCEPT !.page.busy = t, !.page.shown = left])
    BY <1>3 DEF Session!Prepared
  <2> DEFINE u == [Session!World EXCEPT !.page.busy = t, !.page.shown = left]
             c == [tasks[t] EXCEPT !.pc = "run", !.body = page.form]
  <2>2. /\ IsWorld(u) /\ u.page.busy = t /\ u.page.gen = page.gen
        /\ u.page.restoring = page.restoring /\ u.page.switching = page.switching
        /\ u.page.form = page.form /\ u.page.key = page.key
    BY WorldInv, WorldIs, PageKeeps DEF IsWorld, IsPage, PageFields, WorldFields
  <2>3. /\ c.pc = "run" /\ IsTask(c) /\ c.back = tasks[t].back /\ c.gen = tasks[t].gen
        /\ \A p, g : InTurn(c, p, g)
    BY <1>1 DEF IsCall, CallFields, IsTask, InTurn
  <2>4. tasks' = [tasks EXCEPT ![t] = c]
    BY <1>3 DEF Session!Prepared
  <2> HIDE DEF u, c
  <2>5. /\ HoldsRestore(tasks[t], page) => HoldsRestore(c, u.page)
        /\ HoldsSwitch(tasks[t]) => HoldsSwitch(c)
        /\ \A g : ~Brings(tasks[t], page, g)
        /\ \A g : Shows(page, g) => Shows(u.page, g)
    BY <1>1, <2>2, <2>3 DEF HoldsRestore, HoldsSwitch, Brings, Shows
  <2>6. Kept(u, [tasks EXCEPT ![t] = c], goal)
    BY <2>2, <2>3, <2>5, WorldIs, TaskStep DEF SInv
  <2> QED BY <1>1, <2>1, <2>2, <2>4, <2>6, Became DEF u
<1> QED BY <1>2, <1>3

\* A call ends, and with it what it held back.
LEMMA EndKept ==
  ASSUME SInv, NEW t \in Tasks, tasks[t].pc = "run", NEW w, IsWorld(w), NEW ok,
         w.page.busy = None, w.page.gen = page.gen,
         w.page.restoring => page.restoring, w.page.switching => page.switching,
         w.page.form = page.form, w.page.key = page.key
  PROVE  LET u == Session!Answered(w, tasks[t], ok)
         IN  IsWorld(u) /\ Kept(u, [tasks EXCEPT ![t] = Session!NoTask], goal)
<1> DEFINE u == Session!Answered(w, tasks[t], ok)
           c == Session!NoTask
<1>1. IsWorld(u) /\ Settled(w.page, u.page, tasks[t])
  <2>1. IsCall(tasks[t])
    BY WorldInv DEF IsTask
  <2> QED BY <2>1, AnsweredKeeps
<1>2. IsTask(c) /\ \A p, g : InTurn(c, p, g)
  BY DEF Session!NoTask, IsTask, InTurn
<1> HIDE DEF u, c
<1>3. /\ u.page.restoring => page.restoring /\ ~HoldsRestore(tasks[t], page)
      /\ u.page.switching => page.switching /\ ~HoldsSwitch(tasks[t])
      /\ u.page.busy = None /\ u.page.gen = page.gen
      /\ \A g : Shows(page, g) => Shows(u.page, g)
      /\ \A g : ~Brings(tasks[t], page, g)
  BY <1>1 DEF Settled, HoldsRestore, HoldsSwitch, Shows, Brings
<1>4. Kept(u, [tasks EXCEPT ![t] = c], goal)
  BY <1>1, <1>2, <1>3, WorldIs, TaskStep DEF SInv
<1> QED BY <1>1, <1>4 DEF u, c

LEMMA RunEndsInv ==
  ASSUME SInv, NEW t \in Tasks, Session!RunEnds(t)
  PROVE  SInv'
<1> DEFINE idle == [Session!World EXCEPT !.page.busy = None]
           shown == [idle EXCEPT !.page.shown = tasks[t].body]
<1>1. /\ IsWorld(idle) /\ idle.page.busy = None /\ idle.page.gen = page.gen
      /\ idle.page.restoring = page.restoring /\ idle.page.switching = page.switching
      /\ idle.page.form = page.form /\ idle.page.key = page.key
  BY WorldInv, WorldIs, PageKeeps DEF IsWorld, IsPage, PageFields, WorldFields
<1>2. /\ IsWorld(shown) /\ shown.page.busy = None /\ shown.page.gen = page.gen
      /\ shown.page.restoring = page.restoring /\ shown.page.switching = page.switching
      /\ shown.page.form = page.form /\ shown.page.key = page.key
  <2> HIDE DEF idle
  <2> QED BY <1>1, PageKeeps DEF IsWorld, IsPage, PageFields, WorldFields
<1>3. /\ tasks[t].pc = "run" /\ goal' = goal
      /\ tasks' = [tasks EXCEPT ![t] = Session!NoTask]
      /\ \/ Session!Becomes(Session!Answered(shown, tasks[t], TRUE))
         \/ Session!Becomes(Session!Answered(idle, tasks[t], FALSE))
  BY DEF Session!RunEnds
<1> HIDE DEF idle, shown
<1>4. CASE Session!Becomes(Session!Answered(shown, tasks[t], TRUE))
  BY <1>2, <1>3, <1>4, EndKept, Became
<1>5. CASE Session!Becomes(Session!Answered(idle, tasks[t], FALSE))
  BY <1>1, <1>3, <1>5, EndKept, Became
<1> QED BY <1>3, <1>4, <1>5

\* What is applied while the address is not to follow.
Loading(w, st) == [Session!applyComparisonState(w, st) EXCEPT !.page.restoring = TRUE]

LEMMA LoadingKeeps ==
  ASSUME NEW w, IsWorld(w), NEW st
  PROVE  /\ IsWorld(Loading(w, st))
         /\ Shows(Loading(w, st).page, st)
         /\ Loading(w, st).page.busy = w.page.busy
         /\ Loading(w, st).page.gen = w.page.gen
         /\ Loading(w, st).page.switching = w.page.switching
<1> DEFINE a == Session!applyComparisonState(w, st)
           v == [a EXCEPT !.page.restoring = TRUE]
<1>1. /\ IsWorld(a) /\ a.page.form = st /\ a.page.key = st.cmp
      /\ a.page.busy = w.page.busy /\ a.page.gen = w.page.gen
      /\ a.page.switching = w.page.switching
  BY ApplyKeeps
<1> HIDE DEF a
<1>2. /\ IsWorld(v) /\ v.page.form = a.page.form /\ v.page.key = a.page.key
      /\ v.page.busy = a.page.busy /\ v.page.gen = a.page.gen
      /\ v.page.switching = a.page.switching
  BY <1>1, PageKeeps DEF IsWorld, IsPage, PageFields, WorldFields
<1>3. Loading(w, st) = v
  BY DEF Loading, a
<1> HIDE DEF v
<1> QED BY <1>1, <1>2, <1>3 DEF Shows

\* A restore begins: what it brings is in the form before anything is awaited.
LEMMA RestoreInv ==
  ASSUME SInv, NEW t \in Tasks, tasks[t].pc \in {"none", "idle"}, NEW w, IsWorld(w), NEW st,
         w.page.busy = page.busy, w.page.switching => page.switching,
         \/ w.page.gen = page.gen /\ goal' \in {None, goal}
         \/ w.page.gen = page.gen + 1,
         Session!Restore(w, t, w.page.gen, st), goal' \in {None, st}
  PROVE  SInv'
<1> DEFINE call == Session!Call("restore", "none", w.page.gen, st)
<1> DEFINE v == Loading(w, st)
<1>1. /\ IsWorld(v) /\ Shows(v.page, st)
      /\ v.page.busy = w.page.busy /\ v.page.gen = w.page.gen
      /\ v.page.switching = w.page.switching
  BY LoadingKeeps
<1>2. IsCall(call) /\ call.pc = "watch" /\ call.back = "restore" /\ call.gen = w.page.gen
  BY DEF Session!Call, IsCall, CallFields
<1>3. Session!CompareOn(v, t, call)
  BY DEF Session!Restore, Loading
<1> HIDE DEF v, call
<1>4. v.page.switching => page.switching /\ ~HoldsSwitch(tasks[t])
  BY <1>1 DEF HoldsSwitch
<1>5. goal' # None => Shows(v.page, goal') /\ v.page.key = v.page.form.cmp
  BY <1>1 DEF Shows
<1> QED BY <1>1, <1>2, <1>3, <1>4, <1>5, HeldInv

\* waitForIdleOperation() finds the lock free.
LEMMA IdleInv ==
  ASSUME SInv, NEW t \in Tasks, Session!Idle(t)
  PROVE  SInv'
<1>1. tasks[t].pc = "idle" /\ page.busy = None /\ goal' = goal
  BY DEF Session!Idle
<1>2. CASE tasks[t].gen = page.gen
  <2>1. Session!Restore(Session!World, t, page.gen, tasks[t].state)
    BY <1>2 DEF Session!Idle
  <2>2. goal \in {None, tasks[t].state}
    BY <1>1, <1>2, WorldIs DEF SInv, Kept, InTurn
  <2> QED BY <1>1, <2>1, <2>2, WorldInv, WorldIs, RestoreInv
<1>3. CASE tasks[t].gen # page.gen
  <2>1. /\ tasks' = [tasks EXCEPT ![t] = Session!NoTask]
        /\ UNCHANGED <<page, entries, entry, store>>
    BY <1>3 DEF Session!Idle
  <2>2. Session!Becomes(Session!World)
    BY <2>1, WorldIs DEF Session!Becomes
  <2>3. IsTask(Session!NoTask) /\ \A p, g : InTurn(Session!NoTask, p, g)
    BY DEF Session!NoTask, IsTask, InTurn
  <2>4. /\ ~HoldsRestore(tasks[t], page) /\ ~HoldsSwitch(tasks[t])
        /\ \A g : ~Brings(tasks[t], page, g)
    BY <1>1, <1>3 DEF HoldsRestore, HoldsSwitch, Brings
  <2>5. Kept(Session!World, [tasks EXCEPT ![t] = Session!NoTask], goal)
    BY <1>1, <2>3, <2>4, WorldInv, WorldIs, TaskStep DEF SInv
  <2> QED BY <1>1, <2>1, <2>2, <2>5, WorldInv, Became
<1> QED BY <1>2, <1>3

\* What a click leaves behind when it begins no call.
LEMMA NoCallInv ==
  ASSUME SInv, NEW t, IsFree(t), NEW u, IsWorld(u),
         u.page.busy = page.busy, u.page.gen = page.gen,
         u.page.restoring => page.restoring, u.page.switching => page.switching,
         Session!Becomes(u), tasks' = [tasks EXCEPT ![t] = Session!NoTask], goal' = None
  PROVE  SInv'
<1>1. t \in Tasks /\ tasks[t].pc \in {"none", "guard"}
  BY DEF IsFree
<1>2. /\ ~HoldsRestore(tasks[t], page) /\ ~HoldsSwitch(tasks[t]) /\ tasks[t].pc # "run"
  BY <1>1 DEF HoldsRestore, HoldsSwitch
<1>3. IsTask(Session!NoTask) /\ \A p, g : InTurn(Session!NoTask, p, g)
  BY DEF Session!NoTask, IsTask, InTurn
<1>4. Kept(u, [tasks EXCEPT ![t] = Session!NoTask], None)
  BY <1>1, <1>2, <1>3, WorldIs, TaskStep DEF SInv
<1> QED BY <1>4, Became

\* loadActiveTab(): whatever way it takes, switching ends with it or with its call.
LEMMA LoadTabInv ==
  ASSUME SInv, NEW t, IsFree(t), NEW w, IsWorld(w),
         w.page.busy = page.busy, w.page.gen = page.gen, w.page.restoring => page.restoring,
         Session!loadActiveTab(w, t), goal' = None
  PROVE  SInv'
<1> DEFINE st == Session!activeTab(w.page.doc).state
           call == Session!Call("tab", "none", 0, None)
           told == Session!updateComparisonURL(w, "replace")
           empty == [told EXCEPT !.page.switching = FALSE]
           closed == [w EXCEPT !.page.switching = FALSE]
<1>1. CASE w.page.doc.tabs # <<>> /\ st # None
  <2>1. Session!CompareOn(Loading(w, st), t, call)
    BY <1>1 DEF Session!loadActiveTab, Loading
  <2>2. IsCall(call) /\ call.pc = "watch" /\ call.back = "tab"
    BY DEF Session!Call, IsCall, CallFields
  <2>3. /\ IsWorld(Loading(w, st)) /\ Loading(w, st).page.busy = page.busy
        /\ Loading(w, st).page.gen = page.gen
    BY LoadingKeeps
  <2>4. t \in Tasks /\ tasks[t].pc # "run"
    BY DEF IsFree
  <2> HIDE DEF call, st
  <2> QED BY <2>1, <2>2, <2>3, <2>4, HeldInv
<1>2. CASE ~(w.page.doc.tabs # <<>> /\ st # None)
  <2>1. /\ Session!Becomes(closed) \/ Session!Becomes(empty)
        /\ tasks' = [tasks EXCEPT ![t] = Session!NoTask]
    BY <1>2 DEF Session!loadActiveTab
  <2>2. /\ IsWorld(closed) /\ ~closed.page.switching
        /\ closed.page.busy = w.page.busy /\ closed.page.gen = w.page.gen
        /\ closed.page.restoring => w.page.restoring
    BY PageKeeps DEF IsWorld, IsPage, PageFields, WorldFields
  <2>3. IsWorld(told) /\ Flags(told.page) = Flags(w.page)
    BY UpdateURLKeeps
  <2> HIDE DEF told
  <2>4. /\ IsWorld(empty) /\ ~empty.page.switching
        /\ empty.page.busy = told.page.busy /\ empty.page.gen = told.page.gen
        /\ empty.page.restoring => told.page.restoring
    BY <2>3, PageKeeps DEF IsWorld, IsPage, PageFields, WorldFields
  <2> HIDE DEF empty, closed
  <2>5. CASE Session!Becomes(closed)
    BY <2>1, <2>2, <2>5, NoCallInv
  <2>6. CASE Session!Becomes(empty)
    <3>1. /\ empty.page.busy = page.busy /\ empty.page.gen = page.gen
          /\ empty.page.restoring => page.restoring
      BY <2>3, <2>4 DEF Flags
    <3> QED BY <2>1, <2>4, <2>6, <3>1, NoCallInv
  <2> QED BY <2>1, <2>5, <2>6
<1> QED BY <1>1, <1>2

LEMMA StashKeeps ==
  ASSUME NEW p, IsPage(p)
  PROVE  /\ IsPage(Session!stashActiveTab(p))
         /\ Flags(Session!stashActiveTab(p)) = Flags(p)
<1> DEFINE st == Session!captureComparisonState(p)
           d == Session!updateTab(p.doc, st)
           q == [p EXCEPT !.doc = d]
<1>1. CASE p.doc.tabs = <<>> \/ st = None
  BY <1>1 DEF Session!stashActiveTab
<1>2. CASE ~(p.doc.tabs = <<>> \/ st = None)
  <2>1. IsDoc(d)
    BY <1>2, UpdateTabKeeps DEF IsPage
  <2>2. Session!stashActiveTab(p) = q
    BY <1>2 DEF Session!stashActiveTab
  <2> HIDE DEF d
  <2>3. IsPage(q) /\ Flags(q) = Flags(p)
    BY <2>1 DEF IsPage, PageFields, Flags
  <2> HIDE DEF q
  <2> QED BY <2>2, <2>3
<1> QED BY <1>1, <1>2

\* A page with other tabs.
LEMMA DocWith ==
  ASSUME NEW p, IsPage(p), NEW d, IsDoc(d)
  PROVE  /\ IsPage([p EXCEPT !.doc = d])
         /\ Flags([p EXCEPT !.doc = d]) = Flags(p)
BY DEF IsPage, PageFields, Flags

LEMMA SwitchTabInv ==
  ASSUME SInv, NEW t, IsFree(t), NEW id, Session!switchTab(Session!World, t, id), goal' = None
  PROVE  SInv'
<1> DEFINE p == Session!stashActiveTab(Session!World.page)
           d == Session!activateTab(p.doc, id)
           q == [p EXCEPT !.doc = d, !.switching = TRUE]
           w == [Session!World EXCEPT !.page = q]
<1>1. IsPage(p) /\ Flags(p) = Flags(page)
  BY WorldInv, WorldIs, StashKeeps
<1>2. IsDoc(d)
  <2> HIDE DEF p
  <2> QED BY <1>1, ActivateTabKeeps DEF IsPage
<1>3. Session!loadActiveTab(w, t)
  BY DEF Session!switchTab
<1> HIDE DEF p, d
<1>4. IsPage(q) /\ q.busy = p.busy /\ q.gen = p.gen /\ q.restoring = p.restoring
  BY <1>1, <1>2 DEF IsPage, PageFields
<1> HIDE DEF q
<1>5. IsWorld(w) /\ w.page = q
  BY <1>4, WorldInv, PageKeeps DEF IsWorld, WorldFields
<1> HIDE DEF w
<1>6. w.page.busy = page.busy /\ w.page.gen = page.gen /\ (w.page.restoring => page.restoring)
  BY <1>1, <1>4, <1>5 DEF Flags
<1> QED BY <1>3, <1>5, <1>6, LoadTabInv

LEMMA OpenTabInv ==
  ASSUME SInv, NEW t, IsFree(t), Session!openTab(Session!World, t), goal' = None
  PROVE  SInv'
<1> DEFINE p == Session!stashActiveTab(page)
           d == Session!addTab(p.doc, Session!captureComparisonState(p))
           q == [p EXCEPT !.doc = d]
           w == [Session!World EXCEPT !.page = q]
           u == Session!updateComparisonURL(w, "replace")
<1>1. IsPage(p) /\ Flags(p) = Flags(page)
  BY WorldInv, StashKeeps
<1>2. IsDoc(d)
  <2> HIDE DEF p
  <2> QED BY <1>1, AddTabKeeps DEF IsPage
<1>3. Session!Becomes(u) /\ tasks' = [tasks EXCEPT ![t] = Session!NoTask]
  BY WorldIs DEF Session!openTab
<1> HIDE DEF p, d
<1>4. IsPage(q) /\ Flags(q) = Flags(p)
  BY <1>1, <1>2, DocWith
<1> HIDE DEF q
<1>5. IsWorld(w) /\ w.page = q
  BY <1>4, WorldInv, PageKeeps DEF IsWorld, WorldFields
<1> HIDE DEF w
<1>6. IsWorld(u) /\ Flags(u.page) = Flags(w.page)
  BY <1>5, UpdateURLKeeps
<1> HIDE DEF u
<1>7. /\ u.page.busy = page.busy /\ u.page.gen = page.gen
      /\ u.page.restoring => page.restoring
      /\ u.page.switching => page.switching
  BY <1>1, <1>4, <1>5, <1>6 DEF Flags
<1> QED BY <1>3, <1>6, <1>7, NoCallInv

LEMMA CloseTabInv ==
  ASSUME SInv, NEW t, IsFree(t), NEW id, NEW wasActive,
         Session!closeTab(Session!World, t, id, wasActive), goal' = None
  PROVE  SInv'
<1> DEFINE d == Session!removeTab(page.doc, id)
           closed == [Session!World EXCEPT !.page.doc = d]
           loading == [closed EXCEPT !.page.switching = TRUE]
           u == Session!updateComparisonURL(closed, "replace")
<1>1. IsDoc(d)
  BY WorldInv, RemoveTabKeeps DEF IsPage
<1>2. \/ Session!loadActiveTab(loading, t)
      \/ /\ Session!Becomes(u)
         /\ tasks' = [tasks EXCEPT ![t] = Session!NoTask]
  BY WorldIs DEF Session!closeTab
<1> HIDE DEF d
<1>3. IsWorld(closed) /\ Flags(closed.page) = Flags(page)
  <2>1. closed = [Session!World EXCEPT !.page = [page EXCEPT !.doc = d]]
    BY WorldInv, WorldIs DEF IsWorld, WorldFields
  <2> DEFINE q == [page EXCEPT !.doc = d]
  <2>2. IsPage(q) /\ Flags(q) = Flags(page)
    BY <1>1, WorldInv, DocWith
  <2> HIDE DEF closed, q
  <2>3. IsWorld(closed) /\ closed.page = q
    BY <2>1, <2>2, WorldInv, PageKeeps DEF IsWorld, WorldFields, q
  <2> QED BY <2>2, <2>3
<1> HIDE DEF closed
<1>4. /\ IsWorld(loading)
      /\ loading.page.busy = closed.page.busy /\ loading.page.gen = closed.page.gen
      /\ loading.page.restoring = closed.page.restoring
  BY <1>3, PageKeeps DEF IsWorld, IsPage, PageFields, WorldFields
<1>5. IsWorld(u) /\ Flags(u.page) = Flags(closed.page)
  BY <1>3, UpdateURLKeeps
<1> HIDE DEF loading, u
<1>6. CASE Session!loadActiveTab(loading, t)
  <2>1. /\ loading.page.busy = page.busy /\ loading.page.gen = page.gen
        /\ loading.page.restoring => page.restoring
    BY <1>3, <1>4 DEF Flags
  <2> QED BY <1>4, <1>6, <2>1, LoadTabInv
<1>7. CASE Session!Becomes(u) /\ tasks' = [tasks EXCEPT ![t] = Session!NoTask]
  <2>1. /\ u.page.busy = page.busy /\ u.page.gen = page.gen
        /\ u.page.restoring => page.restoring
        /\ u.page.switching => page.switching
    BY <1>3, <1>5 DEF Flags
  <2> QED BY <1>5, <1>7, <2>1, NoCallInv
<1> QED BY <1>2, <1>6, <1>7

LEMMA ClickedInv ==
  ASSUME SInv, NEW t, IsFree(t), NEW click, click.kind \in {"switch", "open", "close"},
         Session!Clicked(t, click), goal' = None
  PROVE  SInv'
<1>1. CASE click.kind = "switch"
  <2>1. Session!switchTab(Session!World, t, click.id)
    BY <1>1 DEF Session!Clicked
  <2> QED BY <2>1, SwitchTabInv
<1>2. CASE click.kind = "open"
  <2>1. Session!openTab(Session!World, t)
    BY <1>2 DEF Session!Clicked
  <2> QED BY <2>1, OpenTabInv
<1>3. CASE click.kind = "close"
  <2>1. Session!closeTab(Session!World, t, click.id, click.wasActive)
    BY <1>3 DEF Session!Clicked
  <2> QED BY <2>1, CloseTabInv
<1> QED BY <1>1, <1>2, <1>3

\* A question is asked, or refused: the page stays as it is.
LEMMA QuestionInv ==
  ASSUME SInv, NEW t, IsFree(t), NEW c, IsTask(c), c.pc \in {"none", "guard"},
         tasks' = [tasks EXCEPT ![t] = c], UNCHANGED <<page, entries, entry, store>>,
         goal' \in {None, goal}
  PROVE  SInv'
<1>1. t \in Tasks /\ tasks[t].pc \in {"none", "guard"}
  BY DEF IsFree
<1>2. /\ ~HoldsRestore(tasks[t], page) /\ ~HoldsSwitch(tasks[t]) /\ tasks[t].pc # "run"
      /\ \A g : ~Brings(tasks[t], page, g)
      /\ \A p, g : InTurn(c, p, g)
  BY <1>1 DEF HoldsRestore, HoldsSwitch, Brings, InTurn
<1>3. Session!Becomes(Session!World)
  BY WorldIs DEF Session!Becomes
<1>4. Kept(Session!World, [tasks EXCEPT ![t] = c], goal')
  BY <1>1, <1>2, WorldInv, WorldIs, TaskStep DEF SInv
<1> QED BY <1>3, <1>4, WorldInv, Became

LEMMA GuardAnsweredInv ==
  ASSUME SInv, NEW t \in Tasks, Session!GuardAnswered(t)
  PROVE  SInv'
<1>1. tasks[t].pc = "guard" /\ IsFree(t) /\ tasks[t].kind \in {"switch", "open", "close"}
  BY WorldInv DEF Session!GuardAnswered, IsFree, IsTask
<1>2. CASE Session!Clicked(t, tasks[t]) /\ goal' = None
  BY <1>1, <1>2, ClickedInv
<1>3. CASE /\ tasks' = [tasks EXCEPT ![t] = Session!NoTask]
           /\ UNCHANGED <<page, entries, entry, store, goal>>
  BY <1>1, <1>3, QuestionInv DEF Session!NoTask, IsTask
<1> QED BY <1>2, <1>3 DEF Session!GuardAnswered

LEMMA TabClickInv ==
  ASSUME SInv, Session!TabClick
  PROVE  SInv'
<1>1. PICK t \in Session!Free, kind \in {"open", "switch", "close"} :
        \E id : Session!TabClicked(t, kind, id)
  BY DEF Session!TabClick
<1>2. PICK id : Session!TabClicked(t, kind, id)
  BY <1>1
<1> DEFINE click == Session!Question(kind, id)
<1>3. click.pc = "guard" /\ click.kind \in {"switch", "open", "close"} /\ IsTask(click)
  BY DEF Session!Question, IsTask
<1>4. IsFree(t)
  BY FreeIs
<1>5. /\ goal' = None
      /\ \/ Session!Clicked(t, click)
         \/ /\ tasks' = [tasks EXCEPT ![t] = click]
            /\ UNCHANGED <<page, entries, entry, store>>
  BY <1>2 DEF Session!TabClicked, Session!Click, Session!Act
<1> HIDE DEF click
<1>6. CASE Session!Clicked(t, click)
  BY <1>3, <1>4, <1>5, <1>6, ClickedInv
<1>7. CASE /\ tasks' = [tasks EXCEPT ![t] = click]
           /\ UNCHANGED <<page, entries, entry, store>>
  BY <1>3, <1>4, <1>5, <1>7, QuestionInv
<1> QED BY <1>5, <1>6, <1>7

\* What is changed in the form is the last thing asked for.
LEMMA EditInv ==
  ASSUME SInv, IsPage(page'), page'.busy = page.busy, page'.gen = page.gen,
         page'.restoring => page.restoring, page'.switching => page.switching,
         UNCHANGED <<entries, entry, store, tasks>>, goal' = None
  PROVE  SInv'
<1> DEFINE w == [Session!World EXCEPT !.page = page']
<1>1. IsWorld(w) /\ w.page = page' /\ Session!Becomes(w)
  BY WorldInv, WorldIs, PageKeeps DEF IsWorld, WorldFields, Session!Becomes
<1> HIDE DEF w
<1>2. Kept(w, tasks, None)
  BY <1>1, WorldIs, PageStep DEF SInv
<1> QED BY <1>1, <1>2, Became

LEMMA FormInv ==
  ASSUME SInv,
         \/ Session!EditPaths \/ Session!EditConditions
         \/ Session!makeConditionsDefault \/ Session!resetConditionsToDefault
  PROVE  SInv'
<1>1. CASE Session!EditPaths
  <2>1. PICK c \in Cmps \cup {None} : page' = [page EXCEPT !.form.cmp = c]
    BY <1>1 DEF Session!EditPaths
  <2>2. /\ IsPage(page') /\ page'.busy = page.busy /\ page'.gen = page.gen
        /\ page'.restoring = page.restoring /\ page'.switching = page.switching
    BY <2>1, WorldInv DEF IsPage, PageFields
  <2> QED BY <1>1, <2>2, EditInv DEF Session!EditPaths, Session!Click, Session!Act
<1>2. CASE Session!EditConditions
  <2>1. PICK d \in Conds : page' = [page EXCEPT !.form.cond = d,
          !.urlTimer = @ \/ (~page.restoring /\ page.shown # None),
          !.runTimer = @ \/ page.shown # None]
    BY <1>2 DEF Session!EditConditions
  <2>2. /\ IsPage(page') /\ page'.busy = page.busy /\ page'.gen = page.gen
        /\ page'.restoring = page.restoring /\ page'.switching = page.switching
    BY <2>1, WorldInv DEF IsPage, PageFields
  <2> QED BY <1>2, <2>2, EditInv DEF Session!EditConditions, Session!Click, Session!Act
<1>3. CASE Session!makeConditionsDefault
  <2>1. page' = [page EXCEPT !.defaults = page.form.cond, !.baseline = page.form.cond]
    BY <1>3 DEF Session!makeConditionsDefault
  <2>2. /\ IsPage(page') /\ page'.busy = page.busy /\ page'.gen = page.gen
        /\ page'.restoring = page.restoring /\ page'.switching = page.switching
    BY <2>1, WorldInv DEF IsPage, PageFields
  <2> QED BY <1>3, <2>2, EditInv DEF Session!makeConditionsDefault, Session!Click, Session!Act
<1>4. CASE Session!resetConditionsToDefault
  <2>1. page' = [page EXCEPT !.form.cond = page.defaults, !.baseline = page.defaults]
    BY <1>4 DEF Session!resetConditionsToDefault
  <2>2. /\ IsPage(page') /\ page'.busy = page.busy /\ page'.gen = page.gen
        /\ page'.restoring = page.restoring /\ page'.switching = page.switching
    BY <2>1, WorldInv DEF IsPage, PageFields
  <2> QED BY <1>4, <2>2, EditInv DEF Session!resetConditionsToDefault, Session!Click, Session!Act
<1> QED BY <1>1, <1>2, <1>3, <1>4

LEMMA CompareClickedInv ==
  ASSUME SInv, Session!CompareClicked
  PROVE  SInv'
<1>1. PICK t \in Session!Free :
        Session!CompareOn(Session!World, t, Session!Call("user", "push", 0, None))
  BY DEF Session!CompareClicked
<1>2. IsFree(t)
  BY FreeIs
<1>3. goal' = None
  BY DEF Session!CompareClicked, Session!Click, Session!Act
<1> QED BY <1>1, <1>2, <1>3, WorldInv, WorldIs, CompareInv

LEMMA TimersInv ==
  ASSUME SInv, Session!UrlTimer \/ Session!RunTimer
  PROVE  SInv'
<1>1. CASE Session!UrlTimer
  <2> DEFINE w == [Session!World EXCEPT !.page.urlTimer = FALSE]
             u == Session!updateComparisonURL(w, "replace")
  <2>1. Session!Becomes(u) /\ UNCHANGED <<tasks, goal>>
    BY <1>1 DEF Session!UrlTimer
  <2>2. /\ IsWorld(w) /\ w.page.busy = page.busy /\ w.page.gen = page.gen
        /\ w.page.restoring = page.restoring /\ w.page.switching = page.switching
        /\ w.page.form = page.form /\ w.page.key = page.key
    BY WorldInv, WorldIs, PageKeeps DEF IsWorld, IsPage, PageFields, WorldFields
  <2> HIDE DEF w
  <2>3. IsWorld(u) /\ Flags(u.page) = Flags(w.page)
    BY <2>2, UpdateURLKeeps
  <2> HIDE DEF u
  <2>4. /\ u.page.busy = page.busy /\ u.page.gen = page.gen
        /\ u.page.restoring => page.restoring
        /\ u.page.switching => page.switching
        /\ \A g : Shows(page, g) => Shows(u.page, g)
    BY <2>2, <2>3 DEF Flags, Shows
  <2>5. Kept(u, tasks, goal)
    BY <2>3, <2>4, WorldIs, PageStep DEF SInv
  <2> QED BY <2>1, <2>3, <2>5, Became
<1>2. CASE Session!RunTimer
  <2> DEFINE w == [Session!World EXCEPT !.page.runTimer = FALSE]
  <2>1. PICK t \in Session!Free :
          Session!CompareOn(w, t, Session!Call("user", "replace", 0, None))
    BY <1>2 DEF Session!RunTimer
  <2>2. /\ IsWorld(w) /\ w.page.busy = page.busy /\ w.page.gen = page.gen
        /\ w.page.restoring = page.restoring /\ w.page.switching = page.switching
        /\ w.page.form = page.form /\ w.page.key = page.key
    BY WorldInv, WorldIs, PageKeeps DEF IsWorld, IsPage, PageFields, WorldFields
  <2>3. goal' = goal /\ IsFree(t)
    BY <1>2, FreeIs DEF Session!RunTimer
  <2> HIDE DEF w
  <2> QED BY <2>1, <2>2, <2>3, CompareInv
<1> QED BY <1>1, <1>2

--------------------------------------------------------------------------------
(* A page that is loaded. *)

LEMMA LoadedKept ==
  ASSUME NEW hist, NEW k, IsHistory(hist, k), NEW remembered, NEW saved, Tasks # {}, NEW g,
         g \in {None, hist[k].state}
  PROVE  LET w == Session!LoadedPage(hist, k, remembered, saved)
         IN  /\ IsWorld(w) /\ w.entries = hist /\ w.at = k
             /\ Kept(w, Session!LoadedTasks(hist[k]), g)
<1> DEFINE e == hist[k]
           d == IF e.doc = None THEN Session!emptyDoc ELSE e.doc
           fresh == Session!Fresh(saved, d)
           w == [page |-> fresh, entries |-> hist, at |-> k, store |-> remembered]
           opened == [w EXCEPT !.page.gen = 1, !.page.restoring = TRUE]
           loaded == Session!LoadedPage(hist, k, remembered, saved)
           u == Session!applyComparisonState(opened, e.state)
           first == CHOOSE t \in Tasks : TRUE
           call == [Session!Call("restore", "none", 1, e.state) EXCEPT !.key = e.state.cmp]
<1>1. IsDoc(d)
  BY HistoryShape, EmptyDocIs DEF IsEntry
<1>2. loaded = IF e.state = None THEN w ELSE u
  BY DEF Session!LoadedPage
<1>3. /\ IsPage(fresh) /\ fresh.busy = None /\ fresh.restoring = FALSE /\ fresh.switching = FALSE
      /\ fresh.gen = 0
  <2> HIDE DEF d
  <2> QED BY <1>1 DEF Session!Fresh, IsPage, PageFields
<1> HIDE DEF fresh
<1>4. IsWorld(w) /\ w.page = fresh /\ w.entries = hist /\ w.at = k
  BY <1>3 DEF IsWorld, WorldFields
<1>5. /\ Session!NoTasks = [t \in Tasks |-> Session!NoTasks[t]]
      /\ \A t \in Tasks : Session!NoTasks[t] = Session!NoTask
  BY DEF Session!NoTasks
<1>6. IsTask(Session!NoTask) /\ \A p, h : InTurn(Session!NoTask, p, h)
  BY DEF Session!NoTask, IsTask, InTurn
<1>7. CASE e.state = None
  <2>1. Session!LoadedTasks(e) = Session!NoTasks
    BY <1>7 DEF Session!LoadedTasks
  <2>2. g = None
    BY <1>7
  <2> HIDE DEF w, e
  <2>3. Kept(w, Session!NoTasks, g)
    BY <1>3, <1>4, <1>5, <1>6, <2>2 DEF Kept
  <2> HIDE DEF loaded
  <2> QED BY <1>2, <1>4, <1>7, <2>1, <2>3 DEF loaded, e
<1>8. CASE e.state # None
  <2>1. /\ IsWorld(opened) /\ opened.page.busy = None /\ opened.page.gen = 1
        /\ opened.page.switching = FALSE
        /\ opened.entries = hist /\ opened.at = k
    <3> HIDE DEF w
    <3> QED BY <1>3, <1>4, PageKeeps DEF IsWorld, IsPage, PageFields, WorldFields
  <2> HIDE DEF opened
  <2>2. /\ IsWorld(u) /\ Shows(u.page, e.state)
        /\ u.page.busy = opened.page.busy /\ u.page.gen = opened.page.gen
        /\ u.page.switching = FALSE
        /\ u.entries = hist /\ u.at = k
    <3> HIDE DEF e
    <3>1. IsWorld(opened)
      BY <2>1
    <3> DEFINE st == e.state
               a == Session!applyComparisonState(opened, st)
    <3> HIDE DEF st
    <3>2. a.page.form = st
      BY <3>1, ApplyKeeps
    <3>3. /\ IsWorld(a) /\ a.page.key = st.cmp
          /\ a.page.busy = opened.page.busy /\ a.page.gen = opened.page.gen
      BY <3>1, ApplyKeeps
    <3>4. a.page.switching = opened.page.switching /\ a.entries = opened.entries /\ a.at = opened.at
      BY <3>1, ApplyKeeps
    <3>5. a = u
      BY DEF st
    <3> HIDE DEF a, u
    <3> QED BY <2>1, <3>2, <3>3, <3>4, <3>5 DEF Shows, st
  <2>3. /\ Session!LoadedTasks(e) = [Session!NoTasks EXCEPT ![first] = call] /\ first \in Tasks
    BY <1>8 DEF Session!LoadedTasks
  <2>4. /\ IsTask(call) /\ call.pc = "watch" /\ call.back = "restore" /\ call.gen = 1
        /\ \A p, h : InTurn(call, p, h)
    BY DEF Session!Call, IsTask, IsCall, CallFields, InTurn
  <2> HIDE DEF u, call, first
  <2> DEFINE ts == [Session!NoTasks EXCEPT ![first] = call]
  <2>5. /\ ts = [t \in Tasks |-> ts[t]] /\ ts[first] = call
        /\ \A t \in Tasks : t # first => ts[t] = Session!NoTask
    BY <1>5, <2>3
  <2> HIDE DEF ts
  <2>6. HoldsRestore(ts[first], u.page)
    BY <2>1, <2>2, <2>4, <2>5 DEF HoldsRestore
  <2>7. \A t \in Tasks : IsTask(ts[t]) /\ InTurn(ts[t], u.page, g)
    BY <1>6, <2>4, <2>5
  <2>8. g # None => Shows(u.page, g)
    BY <2>2
  <2>9. u.page.busy = None /\ ~u.page.switching
    BY <2>1, <2>2
  <2>10. Kept(u, ts, g)
    BY <2>2, <2>3, <2>5, <2>6, <2>7, <2>8, <2>9 DEF Kept
  <2> HIDE DEF loaded, e
  <2> QED BY <1>2, <1>8, <2>2, <2>3, <2>10 DEF loaded, e, ts
<1> QED BY <1>7, <1>8

LEMMA ReloadedInv ==
  ASSUME SInv, NEW k \in DOMAIN entries, Session!Reloaded(k),
         goal' \in {None, entries[k].state}
  PROVE  SInv'
<1>1. IsHistory(entries, k)
  BY WorldInv, MoveKeeps
<1>2. Tasks # {}
  BY CallsCanBegin DEF Session!SessionAssumption
<1>3. /\ Session!Becomes(Session!LoadedPage(entries, k, store, defaults))
      /\ tasks' = Session!LoadedTasks(entries[k])
  BY DEF Session!Reloaded
<1> QED BY <1>1, <1>2, <1>3, LoadedKept, Became

LEMMA PopStateInv ==
  ASSUME SInv, NEW k \in DOMAIN entries, Session!PopState(k)
  PROVE  SInv'
<1> DEFINE e == entries[k]
           d == IF e.doc = None THEN page.doc ELSE e.doc
           moved == [Session!World EXCEPT !.at = k, !.page.urlTimer = FALSE,
                       !.page.gen = @ + 1, !.page.doc = IF e.doc = None THEN @ ELSE e.doc]
           q == [page EXCEPT !.urlTimer = FALSE, !.gen = @ + 1, !.doc = d]
<1>1. goal' = e.state
  BY DEF Session!PopState, Session!Act
<1>2. CASE e.state = None
  BY <1>1, <1>2, ReloadedInv DEF Session!PopState
<1>3. CASE e.state # None
  <2>1. PICK t \in Session!Free :
          IF page.busy = None
          THEN Session!Restore(moved, t, moved.page.gen, e.state)
          ELSE /\ Session!Becomes(moved)
               /\ tasks' = [tasks EXCEPT ![t] =
                    [pc |-> "idle", gen |-> moved.page.gen, state |-> e.state]]
    BY <1>3 DEF Session!PopState
  <2>2. IsDoc(d)
    BY WorldInv, HistoryShape DEF IsEntry, IsPage
  <2>3. moved.page = q
    BY WorldInv, WorldIs DEF IsWorld, IsPage, PageFields, WorldFields
  <2>4. moved = [f \in WorldFields |-> moved[f]] /\ moved.entries = entries /\ moved.at = k
    BY WorldInv, WorldIs DEF IsWorld, WorldFields
  <2> HIDE DEF d
  <2>5. /\ IsPage(q) /\ q.gen = page.gen + 1 /\ q.busy = page.busy
        /\ q.restoring = page.restoring /\ q.switching = page.switching
    <3>1. IsPage(page)
      BY WorldInv
    <3> DEFINE n == page.gen + 1
    <3>2. n \in Nat
      BY <3>1 DEF IsPage
    <3> HIDE DEF n
    <3>3. LET r == [page EXCEPT !.urlTimer = FALSE, !.gen = n, !.doc = d]
          IN  /\ IsPage(r) /\ r.gen = n /\ r.busy = page.busy
              /\ r.restoring = page.restoring /\ r.switching = page.switching
      BY <2>2, <3>1, <3>2 DEF IsPage, PageFields
    <3> QED BY <3>3 DEF n
  <2>6. IsHistory(entries, k)
    BY WorldInv, MoveKeeps
  <2>7. IsFree(t) /\ t \in Tasks /\ tasks[t].pc = "none"
    BY DEF Session!Free, IsFree, Session!NoTask
  <2> HIDE DEF moved, q
  <2>8. IsWorld(moved)
    BY <2>3, <2>4, <2>5, <2>6 DEF IsWorld
  <2>9. CASE page.busy = None
    <3>1. moved.page.switching => page.switching
      BY <2>3, <2>5
    <3> HIDE DEF e
    <3> QED BY <1>1, <2>1, <2>3, <2>5, <2>7, <2>8, <2>9, <3>1, RestoreInv
  <2>10. CASE page.busy # None
    <3> DEFINE c == [pc |-> "idle", gen |-> moved.page.gen, state |-> e.state]
    <3>1. Session!Becomes(moved) /\ tasks' = [tasks EXCEPT ![t] = c]
      BY <2>1, <2>10
    <3>2. c.pc = "idle" /\ c.gen = moved.page.gen /\ c.state = e.state
      OBVIOUS
    <3> HIDE DEF c, e
    <3>3. moved.page.gen \in Nat
      BY <2>8 DEF IsWorld, IsPage
    <3>4. /\ IsTask(c) /\ HoldsRestore(c, moved.page) /\ Brings(c, moved.page, goal')
          /\ InTurn(c, moved.page, goal')
      BY <1>1, <3>2, <3>3 DEF IsTask, HoldsRestore, Brings, InTurn
    <3>5. /\ moved.page.busy = page.busy /\ moved.page.gen = page.gen + 1
          /\ moved.page.switching => page.switching /\ ~HoldsSwitch(tasks[t])
      BY <2>3, <2>5, <2>7 DEF HoldsSwitch
    <3>6. Kept(moved, [tasks EXCEPT ![t] = c], goal')
      BY <2>7, <2>8, <3>4, <3>5, WorldIs, TaskStep DEF SInv
    <3> QED BY <2>8, <3>1, <3>6, Became
  <2> QED BY <2>9, <2>10
<1> QED BY <1>2, <1>3

--------------------------------------------------------------------------------
(* The theorems of the session. *)

LEMMA FragmentIs ==
  ASSUME NEW st, NEW d, IsDoc(d), d.tabs # <<>> => ActiveState(d) = st
  PROVE  IsEntry(Session!Fragment(st, d))
BY DEF Session!Fragment, IsEntry

LEMMA VisitIs ==
  ASSUME NEW es \in Session!Visits
  PROVE  IsHistory(es, Len(es))
<1>1. CASE es = <<[state |-> None, doc |-> None]>>
  <2>1. IsEntry([state |-> None, doc |-> None])
    BY DEF IsEntry
  <2>2. /\ es \in Seq({[state |-> None, doc |-> None]}) /\ Len(es) = 1
        /\ es[1] = [state |-> None, doc |-> None]
    BY <1>1
  <2> QED BY <2>1, <2>2, HistoryOver
<1>2. CASE es # <<[state |-> None, doc |-> None]>>
  <2>1. PICK c \in [1 .. 2 -> Cmps] :
          es = [k \in 1 .. 2 |-> Session!Fragment([cmp |-> c[k], cond |-> Cond0],
                 Session!addTab(Session!emptyDoc, [cmp |-> c[k], cond |-> Cond0]))]
    BY <1>2 DEF Session!Visits
  <2> DEFINE st(k) == [cmp |-> c[k], cond |-> Cond0]
             e(k) == Session!Fragment(st(k), Session!addTab(Session!emptyDoc, st(k)))
             S == {e(k) : k \in 1 .. 2}
  <2>2. \A k \in 1 .. 2 : IsEntry(e(k))
    <3> HIDE DEF st
    <3> QED BY EmptyDocIs, AddTabKeeps, FragmentIs
  <2>3. es = [k \in 1 .. 2 |-> e(k)]
    BY <2>1
  <2> HIDE DEF e
  <2>4. es \in [1 .. 2 -> S] /\ \A k \in 1 .. 2 : es[k] = e(k)
    BY <2>3
  <2> HIDE DEF S
  <2>5. es \in Seq(S) /\ Len(es) = 2
    <3>1. \E n \in Nat : es \in [1 .. n -> S]
      BY <2>4
    <3>2. es \in Seq(S)
      BY <3>1, SeqDef, Zenon
    <3>3. 1 .. Len(es) = 1 .. 2 /\ Len(es) \in Nat
      BY <2>4, <3>2, LenProperties
    <3> DEFINE n == Len(es)
    <3>4. n \in Nat /\ 1 .. n = 1 .. 2
      BY <3>3
    <3> HIDE DEF n
    <3>5. 2 \in 1 .. n
      BY <3>4
    <3>6. n \in 1 .. n
      BY <3>4, <3>5
    <3>7. n \in 1 .. 2
      BY <3>4, <3>6
    <3>8. n = 2
      BY <3>5, <3>7
    <3> QED BY <3>2, <3>8 DEF n
  <2>6. \A k \in 1 .. Len(es) : IsEntry(es[k])
    BY <2>2, <2>4, <2>5
  <2> QED BY <2>5, <2>6, HistoryOver
<1> QED BY <1>1, <1>2

LEMMA SessionInit ==
  ASSUME Session!Init
  PROVE  SInv
<1> DEFINE w == Session!LoadedPage(entries, entry, <<>>, Cond0)
<1>1. /\ entries \in Session!Visits /\ entry = Len(entries)
      /\ page = w.page /\ store = w.store
      /\ tasks = Session!LoadedTasks(entries[entry]) /\ goal = None
  BY DEF Session!Init
<1>2. IsHistory(entries, entry)
  BY <1>1, VisitIs
<1>3. /\ IsWorld(w) /\ w.entries = entries /\ w.at = entry
      /\ Kept(w, Session!LoadedTasks(entries[entry]), None)
  BY <1>2, LoadedKept, CallsCanBegin DEF Session!SessionAssumption
<1> HIDE DEF w
<1>4. Session!World = w
  BY <1>1, <1>3 DEF Session!World, IsWorld, WorldFields
<1> QED BY <1>1, <1>3, <1>4 DEF SInv

LEMMA SessionNext ==
  ASSUME SInv, Session!Next
  PROVE  SInv'
<1>1. CASE \/ Session!EditPaths \/ Session!EditConditions
           \/ Session!makeConditionsDefault \/ Session!resetConditionsToDefault
  BY <1>1, FormInv
<1>2. CASE Session!CompareClicked
  BY <1>2, CompareClickedInv
<1>3. CASE Session!TabClick
  BY <1>3, TabClickInv
<1>4. CASE Session!Navigate
  BY <1>4, PopStateInv DEF Session!Navigate
<1>5. CASE Session!Reload
  <2>1. entry \in DOMAIN entries
    BY WorldInv DEF IsHistory
  <2> QED BY <1>5, <2>1, ReloadedInv DEF Session!Reload, Session!Act
<1>6. CASE Session!UrlTimer \/ Session!RunTimer
  BY <1>6, TimersInv
<1>7. CASE \E t \in Tasks : Session!GoesOn(t)
  BY <1>7, PreparedInv, RunEndsInv, IdleInv, GuardAnsweredInv DEF Session!GoesOn
<1> QED BY <1>1, <1>2, <1>3, <1>4, <1>5, <1>6, <1>7 DEF Session!Next

LEMMA SessionStill ==
  ASSUME SInv, UNCHANGED sessionVars
  PROVE  SInv'
BY DEF SInv, sessionVars, Session!World

\* The page, the history and the calls that wait are kept, whatever happens beside.
THEOREM SessionInvariant == KeptSpec => []SInv
<1>1. KeptInit => SInv
  BY SessionInit DEF KeptInit
<1>2. SInv /\ [KeptNext]_keptVars => SInv'
  BY SessionNext, SessionStill DEF KeptNext, FileStep, SessionStep, keptVars
<1> QED BY <1>1, <1>2, PTL DEF KeptSpec

\* Every entry of the history that carries its tabs says of the active one what it says
\* of the comparison, and no two of its tabs have one id, for any comparisons, limits of
\* the store and the fragment, and number of calls that wait (tabs.js:84-151,
\* app.js:1986-2035).
THEOREM HistoryAgrees == KeptSpec => []EntriesAgree
<1>1. SInv => EntriesAgree
  <2> SUFFICES ASSUME SInv, NEW k \in DOMAIN entries,
                      entries[k].doc # None, entries[k].doc # Session!emptyDoc
               PROVE  /\ Session!activeTab(entries[k].doc).state = entries[k].state
                      /\ \A m, n \in DOMAIN entries[k].doc.tabs :
                           entries[k].doc.tabs[m].id = entries[k].doc.tabs[n].id => m = n
    BY DEF EntriesAgree, Session!EntriesAgree
  <2>1. IsEntry(entries[k])
    BY WorldInv DEF IsHistory
  <2>2. IsDoc(entries[k].doc) /\ entries[k].doc.tabs # <<>>
    BY <2>1, DocShape DEF IsEntry
  <2>3. ActiveState(entries[k].doc) = entries[k].state
    BY <2>1, <2>2 DEF IsEntry
  <2>4. \A m, n \in DOMAIN entries[k].doc.tabs :
          entries[k].doc.tabs[m].id = entries[k].doc.tabs[n].id => m = n
    BY <2>2 DEF IsDoc, DocsOver
  <2> QED BY <2>3, <2>4 DEF ActiveState
<1> QED BY <1>1, SessionInvariant, PTL

\* When nothing runs any more, no flag of an interleaved switch or restore is left set,
\* and the form is at what Back, Forward or a reload asked for last (app.js:1986-2060).
THEOREM Settles == KeptSpec => []RestoresSettle
<1>1. SInv => RestoresSettle
  <2> SUFFICES ASSUME SInv, Session!Quiet
               PROVE  /\ ~page.restoring /\ ~page.switching /\ page.busy = None
                      /\ goal # None => page.form = goal
    BY DEF RestoresSettle, Session!RestoresSettle, Session!QuietFlags, Session!LastRestoreWins
  <2>1. \A t \in Tasks : tasks[t].pc = "none"
    BY DEF Session!Quiet, Session!NoTask
  <2>2. \A t \in Tasks : /\ ~HoldsRestore(tasks[t], page) /\ ~HoldsSwitch(tasks[t])
                         /\ \A g : ~Brings(tasks[t], page, g)
    BY <2>1 DEF HoldsRestore, HoldsSwitch, Brings
  <2>3. Kept(Session!World, tasks, goal) /\ Session!World.page = page
    BY WorldIs DEF SInv
  <2> HIDE DEF Session!World
  <2>4. ~page.restoring /\ ~page.switching /\ page.busy = None
    BY <2>1, <2>2, <2>3 DEF Kept
  <2>5. goal # None => page.form = goal
    BY <2>2, <2>3 DEF Kept, Shows
  <2> QED BY <2>4, <2>5
<1> QED BY <1>1, SessionInvariant, PTL
=================================================================================
