------------------------------ MODULE LiveProofs ------------------------------
(***************************************************************************)
(* Proofs about what happens by itself: a coordinator of re-comparisons    *)
(* with any caller, the line editor with the coordinator of its own, and   *)
(* the watch for external changes, for every bound, every set of lines and *)
(* texts, and any number of contents and other operations; and the leases  *)
(* of any number of tabs, for any times with which a heartbeat comes       *)
(* before the lease of the one before it ends.                             *)
(*                                                                         *)
(* Each part has an inductive invariant, and the composition of MCLive     *)
(* keeps all of them, since a step is one part's and the others rest.      *)
(***************************************************************************)
EXTENDS MCLive, SequenceTheorems, TLAPS

--------------------------------------------------------------------------------
(* The coordinator. *)

\* The flag is only ever up during a run.
FlagNeedsRun == dirty => running

\* A disposed coordinator has nothing pending and owes nothing.
NothingAfterDispose == disposed => ~timer /\ ~dirty /\ ~owed

IInv ==
  /\ TypeOK
  /\ SingleFlight
  /\ NothingForgotten
  /\ FlagNeedsRun
  /\ NothingAfterDispose

\* A coordinator begins with nothing asked for.
LEMMA InitInv == Init => IInv
<1> SUFFICES ASSUME Init PROVE IInv
  OBVIOUS
<1>1. Flags
  BY DEF Init, Flags
<1>2. runCount \in 0 .. MaxRuns /\ inFlight \in Nat
  BY BoundAssumption DEF Init
<1>3. SingleFlight
  BY DEF Init, SingleFlight
<1>4. NothingForgotten /\ FlagNeedsRun /\ NothingAfterDispose
  BY DEF Init, NothingForgotten, FlagNeedsRun, NothingAfterDispose
<1> QED BY <1>1, <1>2, <1>3, <1>4 DEF IInv, TypeOK

\* Asking: the timer or the flag takes the request.
LEMMA AskInv ==
  ASSUME IInv, Request \/ Flush
  PROVE  IInv'
<1> USE DEF IInv, TypeOK
<1>1. CASE Request /\ disposed
  BY <1>1 DEF Request, vars, Flags, SingleFlight, NothingForgotten, FlagNeedsRun, NothingAfterDispose
<1>2. CASE Request /\ ~disposed
  <2> USE <1>2 DEF Request
  <2>1. TypeOK'
    <3>1. Flags'
      BY DEF Flags
    <3>2. runCount' \in 0 .. MaxRuns /\ inFlight' \in Nat
      OBVIOUS
    <3> QED BY <3>1, <3>2
  <2>2. SingleFlight'
    BY DEF SingleFlight
  <2>3. NothingForgotten' /\ FlagNeedsRun' /\ NothingAfterDispose'
    BY DEF NothingForgotten, FlagNeedsRun, NothingAfterDispose
  <2> QED BY <2>1, <2>2, <2>3
<1>3. CASE Flush
  <2> USE <1>3 DEF Flush, start
  <2>1. TypeOK'
    <3>1. Flags'
      BY DEF Flags
    <3>2. runCount' \in 0 .. MaxRuns /\ inFlight' \in Nat
      OBVIOUS
    <3> QED BY <3>1, <3>2
  <2>2. SingleFlight'
    BY DEF SingleFlight
  <2>3. NothingForgotten' /\ FlagNeedsRun' /\ NothingAfterDispose'
    BY DEF NothingForgotten, FlagNeedsRun, NothingAfterDispose
  <2> QED BY <2>1, <2>2, <2>3
<1> QED BY <1>1, <1>2, <1>3

\* A run begins: only the timer leads here, and it is never armed during one.
LEMMA FireInv ==
  ASSUME IInv, Fire
  PROVE  IInv'
<1> USE DEF IInv, TypeOK, Fire, start
<1>1. ~running /\ ~disposed /\ ~dirty
  BY DEF NothingForgotten, NothingAfterDispose, FlagNeedsRun
<1>2. TypeOK'
  <2>1. Flags'
    BY <1>1 DEF Flags
  <2>2. runCount' \in 0 .. MaxRuns /\ inFlight' \in Nat
    BY <1>1
  <2> QED BY <2>1, <2>2
<1>3. SingleFlight'
  BY <1>1 DEF SingleFlight
<1>4. NothingForgotten' /\ FlagNeedsRun' /\ NothingAfterDispose'
  BY <1>1 DEF NothingForgotten, FlagNeedsRun, NothingAfterDispose
<1> QED BY <1>2, <1>3, <1>4

\* A run ends: the flag becomes the timer.
LEMMA FinishInv ==
  ASSUME NEW outcome \in Outcomes, IInv, Finish(outcome)
  PROVE  IInv'
<1> USE DEF IInv, TypeOK, Finish
<1>1. inFlight = 1 /\ inFlight' = 0
  BY DEF SingleFlight
<1>2. SingleFlight'
  BY <1>1 DEF SingleFlight
<1>3. runCount' \in 0 .. MaxRuns
  BY BoundAssumption
<1>4. Flags'
  BY DEF Flags
<1>5. TypeOK'
  BY <1>1, <1>3, <1>4
<1>6. NothingForgotten' /\ FlagNeedsRun' /\ NothingAfterDispose'
  BY DEF NothingForgotten, FlagNeedsRun, NothingAfterDispose
<1> QED BY <1>2, <1>5, <1>6

\* Taking back, for now or for good.
LEMMA GiveUpInv ==
  ASSUME IInv, Cancel \/ Dispose
  PROVE  IInv'
<1> USE DEF IInv, TypeOK, Cancel, Dispose
<1>1. TypeOK'
  BY DEF Flags
<1>2. SingleFlight'
  BY DEF SingleFlight
<1>3. NothingForgotten' /\ FlagNeedsRun' /\ NothingAfterDispose'
  BY DEF NothingForgotten, FlagNeedsRun, NothingAfterDispose
<1> QED BY <1>1, <1>2, <1>3

\* Each step of a coordinator keeps its invariant.
LEMMA CoordinatorNext ==
  ASSUME IInv, [Next]_vars
  PROVE  IInv'
<1>1. CASE UNCHANGED vars
  BY <1>1 DEF vars, IInv, TypeOK, Flags, SingleFlight, NothingForgotten, FlagNeedsRun,
              NothingAfterDispose
<1> QED BY <1>1, AskInv, FireInv, FinishInv, GiveUpInv DEF Next

\* IInv holds in every reachable state of a coordinator.
THEOREM CoordinatorInvariant == Spec => []IInv
<1>1. Init => IInv
  BY InitInv
<1>2. IInv /\ [Next]_vars => IInv'
  BY CoordinatorNext
<1> QED BY <1>1, <1>2, PTL DEF Spec

\* No mixture of requests, flushes and timers overlaps two comparisons.
THEOREM OneAtATime == Spec => []SingleFlight
<1>1. IInv => SingleFlight
  BY DEF IInv
<1> QED BY <1>1, CoordinatorInvariant, PTL

\* A requested comparison that has not begun always has something that begins it.
THEOREM FinalEditKept == Spec => []NothingForgotten
<1>1. IInv => NothingForgotten
  BY DEF IInv
<1> QED BY <1>1, CoordinatorInvariant, PTL

\* A disposed coordinator begins no run and arms no timer.
THEOREM Quiet == Spec => DisposedStaysQuiet
<1>1. IInv /\ [Next]_vars => [disposed => inFlight' <= inFlight /\ ~timer']_vars
  <2> SUFFICES ASSUME IInv, Next, disposed, ~(UNCHANGED vars)
               PROVE  inFlight' <= inFlight /\ ~timer'
    OBVIOUS
  <2>1. inFlight \in Nat /\ ~timer /\ ~dirty
    BY DEF IInv, TypeOK, NothingAfterDispose
  <2>2. CASE Request
    BY <2>2 DEF Request
  <2>3. CASE \E outcome \in Outcomes : Finish(outcome)
    <3>1. inFlight' = inFlight - 1 /\ timer' = timer
      BY <2>3 DEF Finish
    <3> QED BY <2>1, <3>1
  <2>4. CASE Cancel \/ Dispose
    <3>1. inFlight' = inFlight /\ ~timer'
      BY <2>4 DEF Cancel, Dispose
    <3> QED BY <2>1, <3>1
  <2> QED BY <2>1, <2>2, <2>3, <2>4 DEF Next, Fire, Flush
<1> QED BY <1>1, CoordinatorInvariant, PTL DEF Spec, DisposedStaysQuiet

--------------------------------------------------------------------------------
(* The line editor. *)

\* The types of what the proof calculates with.
EditorTypes ==
  /\ editing \in BOOLEAN
  /\ lines \in [Lines -> Texts]
  /\ screen \in [Lines -> Texts] \cup {Editor!NoCells}
  /\ sent \in [Lines -> Texts]
  /\ editor \in [line : Lines, value : Texts, initial : Texts, live : BOOLEAN]
                  \cup {Editor!NoEditor}
  /\ editAt \in [Editor!Callers -> {"idle", "prepare", "asked", "painted"}]

\* The lock has one holder, and the coordinator's run is its call of compare().
EditorLock ==
  /\ Editor!OneComparison
  /\ running <=> editAt["run"] # "idle"
  /\ ~disposed

Asked == \E c \in Editor!Callers : editAt[c] = "asked"

\* Until the answer is rendered there is no cell to edit.
AskedIsEmpty == Asked => screen = Editor!NoCells

\* A comparison that has not read the buffers yet is on its way, or one was refused.
Expected ==
  \/ dropped
  \/ timer
  \/ running /\ dirty
  \/ \E c \in Editor!Callers : editAt[c] = "prepare"

\* The text that is on screen when the request that is out has been answered.
Upcoming == IF Asked THEN sent ELSE screen

\* A line that is to stay on screen with another text than it has in the buffers
\* is open in the editor, or a comparison is expected.
Current ==
  \/ Expected
  \/ Upcoming = Editor!NoCells
  \/ \A l \in Lines :
       Upcoming[l] = Editor!Source[l] \/ (Editor!EditorOpen /\ editor.line = l)

EditorInv ==
  /\ EditorTypes
  /\ EditorLock
  /\ Editor!NothingPendingWithoutSession
  /\ AskedIsEmpty
  /\ Current

\* Nothing is edited in the beginning, and the screen shows the files.
LEMMA EditorInit == Editor!Init => EditorInv
<1> SUFFICES ASSUME Editor!Init PROVE EditorInv
  OBVIOUS
<1> USE LineAssumption DEF Editor!Init, Editor!Callers, Editor!AsLoaded, Editor!NoCells,
      Editor!NoEditor, Editor!Coordinator!Init, Editor!EditorOpen
<1>1. EditorTypes
  BY DEF EditorTypes
<1>2. EditorLock /\ Editor!NothingPendingWithoutSession
  BY DEF EditorLock, Editor!OneComparison, Editor!NothingPendingWithoutSession
<1>3. AskedIsEmpty /\ Current
  BY DEF AskedIsEmpty, Asked, Current, Upcoming, Editor!Source
<1> QED BY <1>1, <1>2, <1>3 DEF EditorInv

\* What an editor that is open makes of the buffer is a buffer.
LEMMA CommittedTypes ==
  ASSUME EditorInv
  PROVE  /\ Editor!Committed \in [Lines -> Texts]
         /\ \A l \in Lines : ~(Editor!EditorOpen /\ editor.line = l) => Editor!Committed[l] = lines[l]
         /\ Editor!EditorOpen => editor.line \in Lines /\ editor.value \in Texts /\ editor.initial \in Texts /\ editing
         /\ Editor!EditorOpen => Editor!Reverted \in [Lines -> Texts]
         /\ \A l \in Lines : ~(Editor!EditorOpen /\ editor.line = l) => Editor!Reverted[l] = lines[l]
         /\ editor.live => Editor!EditorOpen
BY LineAssumption DEF EditorInv, EditorTypes, Editor!Committed, Editor!Reverted, Editor!EditorOpen, Editor!NoEditor, Editor!NothingPendingWithoutSession

\* Asking the coordinator leaves something pending.
LEMMA RequestExpects ==
  ASSUME IInv, EditorInv, Editor!Coordinator!Request
  PROVE  /\ timer' \/ (running' /\ dirty')
         /\ UNCHANGED <<running, disposed>>
BY DEF IInv, EditorInv, EditorLock, Editor!Coordinator!Request

\* Closing the editor on a line that disagrees with the screen asks for a
\* comparison, so afterwards no line needs the editor.
LEMMA CloseKeeps ==
  ASSUME IInv, EditorInv, editing,
         NEW b \in [Lines -> Texts],
         \A l \in Lines : ~(Editor!EditorOpen /\ editor.line = l) => b[l] = lines[l],
         Editor!closeLineEditor(b),
         UNCHANGED <<editing, Editor!comparison>>
  PROVE  /\ lines' = b
         /\ EditorLock'
         /\ AskedIsEmpty'
         /\ \/ Expected'
            \/ Upcoming' = Editor!NoCells
            \/ \A l \in Lines : Upcoming'[l] = b[l]
<1> USE DEF Editor!closeLineEditor, Editor!comparison
<1>1. UNCHANGED <<running, disposed>>
  BY RequestExpects DEF Editor!coordinator
<1>2. EditorLock' /\ AskedIsEmpty' /\ lines' = b
  BY <1>1 DEF EditorInv, EditorLock, Editor!OneComparison, AskedIsEmpty, Asked
<1>3. CASE Editor!Coordinator!Request
  BY <1>3, <1>2, RequestExpects DEF Expected
<1>4. CASE UNCHANGED Editor!coordinator /\ ~(Editor!EditorOpen /\ b[editor.line] # screen[editor.line])
  <2>1. CASE Expected
    BY <2>1, <1>2, <1>4 DEF Expected, Editor!coordinator
  <2>2. CASE ~Expected /\ Upcoming # Editor!NoCells
    <3>1. \A l \in Lines : Upcoming[l] = lines[l] \/ (Editor!EditorOpen /\ editor.line = l)
      BY <2>2 DEF EditorInv, Current, Editor!Source
    <3>2. Upcoming' = Upcoming
      BY DEF Upcoming, Asked
    <3>3. CASE Editor!EditorOpen
      <4>1. b[editor.line] = screen[editor.line] /\ editor.line \in Lines
        BY <3>3, <1>4, CommittedTypes
      <4>2. screen[editor.line] # Nothing
        BY <4>1, LineAssumption
      <4>3. ~Asked
        BY <4>1, <4>2 DEF EditorInv, AskedIsEmpty, Editor!NoCells
      <4> QED BY <1>2, <3>1, <3>2, <4>1, <4>3 DEF Upcoming
    <3> QED BY <1>2, <3>1, <3>2, <3>3
  <2> QED BY <1>2, <2>1, <2>2 DEF Upcoming, Asked
<1> QED BY <1>2, <1>3, <1>4

\* A step of the user's in the editor: opening, typing, closing, reverting.
LEMMA EditKeeps ==
  ASSUME IInv, EditorInv, Editor!Edit
  PROVE  EditorInv'
<1> USE LineAssumption
<1>1. ASSUME NEW l \in Lines, Editor!OpenEditor(l)
      PROVE  EditorInv'
  <2> USE <1>1 DEF Editor!OpenEditor
  <2>1. /\ lines' = Editor!Committed
        /\ EditorLock' /\ AskedIsEmpty'
        /\ \/ Expected'
           \/ Upcoming' = Editor!NoCells
           \/ \A m \in Lines : Upcoming'[m] = lines'[m]
    BY CommittedTypes, CloseKeeps
  <2>2. EditorTypes'
    BY <2>1, CommittedTypes DEF EditorInv, EditorTypes, Editor!comparison
  <2> QED
    BY <2>1, <2>2 DEF EditorInv, Editor!NothingPendingWithoutSession, Current, Editor!Source
<1>2. ASSUME NEW txt \in Texts, Editor!Type(txt) \/ Editor!Compose(txt)
      PROVE  EditorInv'
  BY <1>2, CommittedTypes DEF Editor!Type, Editor!Compose, EditorInv, EditorTypes, EditorLock,
       Editor!OneComparison, Editor!NothingPendingWithoutSession, AskedIsEmpty, Asked, Current,
       Expected, Upcoming, Editor!Source, Editor!EditorOpen, Editor!NoEditor, Editor!comparison,
       Editor!coordinator
<1>3. CASE Editor!EndComposition
  BY <1>3, CommittedTypes DEF Editor!EndComposition, EditorInv, EditorTypes, EditorLock,
       Editor!OneComparison, Editor!NothingPendingWithoutSession, AskedIsEmpty, Asked, Current,
       Expected, Upcoming, Editor!Source, Editor!EditorOpen, Editor!comparison, Editor!coordinator
<1>4. CASE Editor!RevertEditor \/ Editor!CommitEditor
  <2> USE <1>4 DEF Editor!RevertEditor, Editor!CommitEditor
  <2>1. /\ lines' \in [Lines -> Texts]
        /\ EditorLock' /\ AskedIsEmpty'
        /\ \/ Expected'
           \/ Upcoming' = Editor!NoCells
           \/ \A m \in Lines : Upcoming'[m] = lines'[m]
    BY CommittedTypes, CloseKeeps
  <2>2. EditorTypes'
    BY <2>1 DEF EditorInv, EditorTypes, Editor!comparison
  <2>3. editing'
    BY CommittedTypes
  <2> QED
    BY <2>1, <2>2, <2>3 DEF EditorInv, Editor!NothingPendingWithoutSession, Current, Editor!Source
<1>5. CASE Editor!RevertLocalChange
  <2>1. PICK region \in (SUBSET {l \in Lines : lines[l] # Loaded}) \ {{}} :
          /\ editing
          /\ \A l \in region : screen[l] # Nothing
          /\ lines' = [l \in Lines |-> IF l \in region THEN Loaded ELSE Editor!Committed[l]]
          /\ editor' = Editor!NoEditor
          /\ composing' = FALSE
          /\ IF \/ \E l \in region : Editor!Committed[l] # Loaded
                \/ Editor!EditorOpen /\ Editor!Committed[editor.line] # screen[editor.line]
             THEN Editor!Coordinator!Request
             ELSE UNCHANGED Editor!coordinator
          /\ UNCHANGED <<editing, Editor!comparison>>
    BY <1>5 DEF Editor!RevertLocalChange
  <2>2. lines' \in [Lines -> Texts]
    BY <2>1, CommittedTypes
  <2>3. UNCHANGED <<running, disposed>>
    BY <2>1, RequestExpects DEF Editor!coordinator
  <2>4. EditorTypes'
    BY <2>1, <2>2 DEF EditorInv, EditorTypes, Editor!comparison
  <2>5. EditorLock' /\ AskedIsEmpty' /\ Editor!NothingPendingWithoutSession'
    BY <2>1, <2>3 DEF EditorInv, EditorLock, Editor!OneComparison, AskedIsEmpty, Asked,
         Editor!comparison, Editor!NothingPendingWithoutSession
  <2>6. CASE Editor!Coordinator!Request
    BY <2>4, <2>5, <2>6, RequestExpects DEF EditorInv, Current, Expected
  <2>7. CASE ~Editor!Coordinator!Request
    <3>1. UNCHANGED <<timer, running, dirty, dropped, editAt, screen, sent>>
      BY <2>1, <2>7 DEF Editor!coordinator, Editor!comparison
    <3>2. lines' = Editor!Committed
      BY <2>1, <2>7, CommittedTypes
    <3>3. ~Asked
      <4>1. PICK l \in region : l \in Lines /\ screen[l] # Nothing
        BY <2>1
      <4> QED BY <4>1 DEF EditorInv, AskedIsEmpty, Editor!NoCells
    <3>4. Editor!EditorOpen => Editor!Committed[editor.line] = screen[editor.line]
      BY <2>1, <2>7
    <3>5. Current'
      BY <2>1, <3>1, <3>2, <3>3, <3>4, CommittedTypes
        DEF EditorInv, Current, Expected, Upcoming, Asked, Editor!Source
    <3> QED BY <2>4, <2>5, <3>5 DEF EditorInv
  <2> QED BY <2>6, <2>7
<1> QED BY <1>1, <1>2, <1>3, <1>4, <1>5 DEF Editor!Edit


\* The user, the coordinator's timer, and the other operations: what is asked for
\* stays expected, and a session that ends takes everything with it.
LEMMA AskingKeeps ==
  ASSUME IInv, EditorInv,
         \/ Editor!EnterEditMode \/ Editor!LeaveEditMode \/ Editor!UserCompare
         \/ Editor!FireRefused \/ Editor!FireBusy \/ Editor!FireCompares
         \/ Editor!OtherBegins \/ Editor!OtherEnds
  PROVE  EditorInv'
<1> USE DEF Editor!session, Editor!comparison, Editor!coordinator, Editor!Callers, Editor!compare,
      EditorInv, EditorLock, Editor!OneComparison, Asked, AskedIsEmpty
<1>1. CASE Editor!EnterEditMode \/ Editor!UserCompare
  <2> USE <1>1 DEF Editor!EnterEditMode, Editor!UserCompare
  <2>1. EditorTypes'
    BY LineAssumption DEF EditorTypes, Editor!AsLoaded
  <2>2. EditorLock' /\ AskedIsEmpty'
    BY DEF EditorTypes
  <2>3. Editor!NothingPendingWithoutSession'
    BY DEF Editor!NothingPendingWithoutSession, Editor!EditorOpen
  <2>4. Expected'
    BY DEF Expected, EditorTypes
  <2> QED BY <2>1, <2>2, <2>3, <2>4 DEF Current
<1>2. CASE Editor!LeaveEditMode
  <2> USE <1>2 DEF Editor!LeaveEditMode, Editor!Coordinator!Cancel
  <2>1. EditorTypes'
    BY CommittedTypes DEF EditorTypes
  <2>2. EditorLock' /\ AskedIsEmpty'
    BY DEF EditorTypes
  <2>3. Editor!NothingPendingWithoutSession'
    BY DEF Editor!NothingPendingWithoutSession, Editor!EditorOpen, Editor!NoEditor
  <2>4. Expected'
    BY DEF Expected, EditorTypes
  <2> QED BY <2>1, <2>2, <2>3, <2>4 DEF Current
<1>3. CASE Editor!FireRefused \/ Editor!FireBusy
  <2> USE <1>3 DEF Editor!FireRefused, Editor!FireBusy
  <2>1. EditorTypes' /\ EditorLock' /\ AskedIsEmpty'
    BY DEF EditorTypes
  <2>2. Editor!NothingPendingWithoutSession'
    BY DEF Editor!NothingPendingWithoutSession, Editor!EditorOpen
  <2>3. Expected'
    BY DEF Expected
  <2> QED BY <2>1, <2>2, <2>3 DEF Current
<1>4. CASE Editor!FireCompares
  <2> USE <1>4 DEF Editor!FireCompares, Editor!Coordinator!Fire, Editor!Coordinator!start
  <2>1. EditorTypes' /\ EditorLock' /\ AskedIsEmpty'
    BY DEF EditorTypes, IInv, NothingForgotten
  <2>2. Editor!NothingPendingWithoutSession'
    BY DEF Editor!NothingPendingWithoutSession
  <2>3. Expected'
    BY DEF Expected, EditorTypes
  <2> QED BY <2>1, <2>2, <2>3 DEF Current
<1>5. CASE Editor!OtherBegins \/ Editor!OtherEnds
  <2> USE <1>5 DEF Editor!OtherBegins, Editor!OtherEnds
  <2>1. EditorTypes' /\ EditorLock' /\ AskedIsEmpty'
    BY DEF EditorTypes
  <2>2. Editor!NothingPendingWithoutSession' /\ Current'
    BY DEF Editor!NothingPendingWithoutSession, Editor!EditorOpen, Current, Expected, Upcoming,
           Editor!Source
  <2> QED BY <2>1, <2>2
<1> QED BY <1>1, <1>2, <1>3, <1>4, <1>5

\* A comparison: what it reads under the lock is what is on screen in the end.
LEMMA RunKeeps ==
  ASSUME IInv, EditorInv, NEW c \in Editor!Callers, Editor!Run(c)
  PROVE  EditorInv'
<1> USE DEF Editor!Callers, EditorInv, Asked
<1>1. CASE Editor!LoseLock(c)
  <2> USE <1>1 DEF Editor!LoseLock, Editor!answer, Editor!Coordinator!Finish, Editor!session,
        Editor!coordinator
  <2>1. EditorTypes' /\ AskedIsEmpty'
    BY DEF EditorTypes, AskedIsEmpty
  <2>2. EditorLock'
    BY DEF EditorTypes, EditorLock, Editor!OneComparison
  <2>3. Editor!NothingPendingWithoutSession'
    BY DEF Editor!NothingPendingWithoutSession, Editor!EditorOpen
  <2>4. Expected'
    BY DEF Expected
  <2> QED BY <2>1, <2>2, <2>3, <2>4 DEF Current
<1>2. CASE Editor!Take(c)
  <2> USE <1>2 DEF Editor!Take
  <2>1. /\ editAt' = [editAt EXCEPT ![c] = "asked"] /\ editOp' = "compare"
        /\ sent' = Editor!Source /\ screen' = Editor!NoCells
        /\ editing' = editing
    OBVIOUS
  <2>2. \/ UNCHANGED <<editor, lines, composing, Editor!coordinator>>
        \/ /\ editor.live
           /\ lines' = Editor!Committed /\ editor' = Editor!NoEditor /\ composing' = FALSE
           /\ Editor!Coordinator!Request
        \/ /\ editor.live
           /\ editor' = [editor EXCEPT !.live = FALSE]
           /\ UNCHANGED <<lines, composing, Editor!coordinator>>
    BY DEF Editor!tearEditor
  <2>3. UNCHANGED <<running, disposed>>
    BY <2>2, RequestExpects DEF Editor!coordinator
  <2>4. EditorTypes'
    <3>1. sent' \in [Lines -> Texts] /\ lines' \in [Lines -> Texts]
      BY <2>1, <2>2, CommittedTypes, LineAssumption DEF EditorTypes, Editor!Source, Editor!AsLoaded
    <3>2. editor' \in [line : Lines, value : Texts, initial : Texts, live : BOOLEAN]
                         \cup {Editor!NoEditor}
      <4>1. editor.live => editor \in [line : Lines, value : Texts, initial : Texts, live : BOOLEAN]
        BY DEF EditorTypes, Editor!NoEditor
      <4> QED BY <2>2, <4>1 DEF EditorTypes
    <3> QED BY <2>1, <3>1, <3>2 DEF EditorTypes
  <2>5. EditorLock' /\ AskedIsEmpty'
    BY <2>1, <2>3 DEF EditorTypes, EditorLock, Editor!OneComparison, AskedIsEmpty
  <2>6. Editor!NothingPendingWithoutSession'
    BY <2>1, <2>2, CommittedTypes
      DEF Editor!NothingPendingWithoutSession, Editor!EditorOpen, EditorTypes, Editor!NoEditor,
          Editor!coordinator
  <2>7. CASE Editor!Coordinator!Request
    BY <2>4, <2>5, <2>6, <2>7, RequestExpects DEF Current, Expected
  <2>8. CASE lines' = lines
    <3>1. Upcoming' = sent'
      BY <2>1 DEF EditorTypes, Upcoming
    <3>2. sent' = Editor!Source'
      BY <2>1, <2>8 DEF Editor!Source
    <3> QED BY <2>4, <2>5, <2>6, <3>1, <3>2 DEF Current
  <2> QED BY <2>2, <2>7, <2>8
<1>3. CASE Editor!Paint(c)
  <2> USE <1>3 DEF Editor!Paint, Editor!session, Editor!coordinator
  <2>1. EditorTypes' /\ EditorLock'
    BY DEF EditorTypes, EditorLock, Editor!OneComparison
  <2>2. ~Asked' /\ Upcoming' = Upcoming
    BY DEF EditorTypes, EditorLock, Editor!OneComparison, Upcoming
  <2>3. AskedIsEmpty' /\ Editor!NothingPendingWithoutSession'
    BY <2>2 DEF AskedIsEmpty, Editor!NothingPendingWithoutSession, Editor!EditorOpen
  <2>4. Current'
    BY <2>2 DEF Current, Expected, Editor!Source, Editor!EditorOpen, EditorTypes
  <2> QED BY <2>1, <2>3, <2>4
<1>4. CASE Editor!Done(c)
  <2> USE <1>4 DEF Editor!Done, Editor!answer, Editor!Coordinator!Finish, Editor!session,
        Editor!coordinator
  <2>1. EditorTypes' /\ EditorLock'
    BY DEF EditorTypes, EditorLock, Editor!OneComparison
  <2>2. ~Asked' /\ (Upcoming' = Upcoming \/ Upcoming' = Editor!NoCells)
    BY DEF EditorTypes, EditorLock, Editor!OneComparison, Upcoming, AskedIsEmpty
  <2>3. AskedIsEmpty' /\ Editor!NothingPendingWithoutSession'
    BY <2>2 DEF AskedIsEmpty, Editor!NothingPendingWithoutSession, Editor!EditorOpen
  <2>4. Expected => Expected'
    BY DEF Expected, EditorTypes, EditorLock
  <2>5. Current'
    BY <2>2, <2>4 DEF Current, Editor!Source, Editor!EditorOpen, Editor!NoCells
  <2> QED BY <2>1, <2>3, <2>5
<1> QED BY <1>1, <1>2, <1>3, <1>4 DEF Editor!Run

\* The editor's coordinator is one: whatever the editor does with it is a step of
\* RecomputeCoordinator, or a timer and a run that answers at once.
LEMMA EditorCoordinates ==
  ASSUME IInv, EditorInv, Editor!Next
  PROVE  IInv'
<1>1. CASE Editor!Coordinator!Request
  BY <1>1, AskInv DEF Editor!Coordinator!Request, Request, Editor!Coordinator!vars, vars
<1>2. CASE Editor!Coordinator!Cancel
  BY <1>2, GiveUpInv DEF Editor!Coordinator!Cancel, Cancel
<1>3. CASE Editor!Coordinator!Fire
  BY <1>3, FireInv DEF Editor!Coordinator!Fire, Fire, Editor!Coordinator!start, start
<1>4. ASSUME NEW outcome \in Outcomes, Editor!Coordinator!Finish(outcome)
      PROVE  IInv'
  <2> USE <1>4 DEF Editor!Coordinator!Finish, IInv, TypeOK
  <2>1. inFlight = 1 /\ inFlight' = 0 /\ runCount' = runCount
    BY DEF SingleFlight
  <2>2. Flags'
    BY DEF Flags
  <2>3. SingleFlight' /\ NothingForgotten' /\ FlagNeedsRun' /\ NothingAfterDispose'
    BY <2>1 DEF SingleFlight, NothingForgotten, FlagNeedsRun, NothingAfterDispose
  <2> QED BY <2>1, <2>2, <2>3
<1>5. CASE UNCHANGED Editor!coordinator
  BY <1>5 DEF Editor!coordinator, IInv, TypeOK, Flags, SingleFlight, NothingForgotten, FlagNeedsRun,
              NothingAfterDispose
<1>6. CASE Editor!FireRefused \/ Editor!FireBusy
  <2> USE <1>6 DEF Editor!FireRefused, Editor!FireBusy, IInv
  <2>1. TypeOK'
    BY DEF TypeOK, Flags
  <2>2. SingleFlight' /\ NothingForgotten' /\ FlagNeedsRun' /\ NothingAfterDispose'
    BY DEF SingleFlight, NothingForgotten, FlagNeedsRun, NothingAfterDispose
  <2> QED BY <2>1, <2>2
<1>7. CASE Editor!Edit
  BY <1>7, <1>1, <1>5 DEF Editor!Edit, Editor!OpenEditor, Editor!Type, Editor!Compose,
       Editor!EndComposition, Editor!RevertEditor, Editor!CommitEditor, Editor!RevertLocalChange,
       Editor!closeLineEditor
<1>8. ASSUME NEW c \in Editor!Callers, Editor!Run(c)
      PROVE  IInv'
  BY <1>8, <1>1, <1>4, <1>5 DEF Editor!Run, Editor!LoseLock, Editor!Take, Editor!Paint,
       Editor!Done, Editor!answer, Editor!tearEditor, Outcomes
<1>9. CASE \/ Editor!EnterEditMode \/ Editor!LeaveEditMode \/ Editor!UserCompare
           \/ Editor!FireCompares \/ Editor!OtherBegins \/ Editor!OtherEnds
  BY <1>9, <1>2, <1>3, <1>5 DEF Editor!EnterEditMode, Editor!LeaveEditMode, Editor!UserCompare,
       Editor!FireCompares, Editor!OtherBegins, Editor!OtherEnds
<1> QED BY <1>6, <1>7, <1>8, <1>9 DEF Editor!Next

\* When everything is quiet nothing is expected, so the screen shows the buffers.
LEMMA EditorHolds ==
  ASSUME EditorInv
  PROVE  /\ Editor!QuietMeansShown
         /\ Editor!OneComparison
         /\ Editor!NothingPendingWithoutSession
<1>1. ASSUME Editor!Quiet, ~dropped, screen # Editor!NoCells
      PROVE  screen = Editor!Source
  <2>1. ~Expected /\ Upcoming = screen
    BY <1>1 DEF Editor!Quiet, Expected, Upcoming, Asked, Editor!Callers, EditorInv, EditorLock
  <2>2. \A l \in Lines : screen[l] = Editor!Source[l]
    BY <1>1, <2>1 DEF Editor!Quiet, EditorInv, Current
  <2>3. screen \in [Lines -> Texts] /\ Editor!Source \in [Lines -> Texts]
    BY <1>1, LineAssumption DEF EditorInv, EditorTypes, Editor!Source, Editor!AsLoaded
  <2> QED BY <2>2, <2>3
<1> QED BY <1>1 DEF EditorInv, EditorLock, Editor!QuietMeansShown

--------------------------------------------------------------------------------
(* The watch for external changes. *)

\* A call of compare(), or the end of a save, before it has the lock.
Waiting == \E c \in Watch!Callers : at[c] \in {"snapshot", "lock"}

\* The watch owes something: nobody was told that a change may be missed.
Watchful == auto /\ ~missed /\ ~Watch!Editing

\* Who may be how far, and the lock.
LockTypes ==
  /\ at \in [Watch!Callers -> {"idle", "snapshot", "lock", "asked", "read"}]
  /\ ~Watch!Comparing("save")
  /\ \A c, d \in Watch!Callers : Watch!Comparing(c) /\ Watch!Comparing(d) => c = d
  /\ op = "compare" <=> \E c \in Watch!Callers : Watch!Comparing(c)
  /\ op \in {"none", "compare", "other"}

\* Contents are numbered as they are written ...
Numbers ==
  /\ disk \in Nat /\ newest \in Nat /\ shown \in Nat
  /\ watch \in Nat /\ reply \in Nat /\ pending \in Nat
  /\ buffer \in Nat /\ loaded \in Nat
  /\ base \in [Watch!Callers -> Nat]
  /\ text \in [Watch!Callers -> Nat]

\* ... and nobody holds a snapshot that is newer than the files.
Older ==
  /\ 0 < disk /\ disk <= newest
  /\ watch <= disk /\ reply <= disk /\ pending <= disk
  /\ loaded <= buffer /\ buffer <= newest
  /\ buffer = 0 <=> loaded = 0
  /\ \A c \in Watch!Callers : base[c] <= disk

\* A comparison empties the screen before it reads.
ScreenEmpty == (\E c \in Watch!Callers : Watch!Comparing(c)) => shown = 0

\* The snapshot of a comparison is older than what it reads, and it reads the files.
SnapshotFirst ==
  Watchful /\ ~Waiting =>
    \A c \in Watch!Callers :
      /\ Watch!Comparing(c) => base[c] # 0
      /\ at[c] = "read" => base[c] <= text[c] /\ text[c] <= disk

\* With a result on screen there is a watcher, or a change that waits; and a watcher
\* of what the files are has a result that shows them.
Watched ==
  Watchful /\ ~Waiting /\ op # "compare" /\ shown # 0 =>
    \/ pending # 0 /\ (debounce \/ bar)
    \/ watch # 0 /\ (shown # disk => watch # disk)

WatchInv ==
  /\ LockTypes
  /\ Numbers
  /\ Older
  /\ Watch!BarHasChange
  /\ ScreenEmpty
  /\ SnapshotFirst
  /\ Watched

\* A comparison is shown and watched in the beginning.
LEMMA WatchInit == Watch!Init => WatchInv
<1> SUFFICES ASSUME Watch!Init PROVE WatchInv
  OBVIOUS
<1> USE DEF Watch!Init, Watch!Callers, Watch!Comparing
<1>1. LockTypes
  BY DEF LockTypes
<1>2. Numbers
  BY DEF Numbers
<1>3. Older
  BY DEF Older
<1>4. Watch!BarHasChange /\ ScreenEmpty /\ SnapshotFirst
  BY DEF Watch!BarHasChange, ScreenEmpty, SnapshotFirst
<1>5. Watched
  BY DEF Watched
<1> QED BY <1>1, <1>2, <1>3, <1>4, <1>5 DEF WatchInv


\* Other programs, and other operations: a write makes the files newer than anything
\* that is known of them.
LEMMA OthersKeep ==
  ASSUME WatchInv,
         \/ Watch!ExternalWrite \/ Watch!Type \/ Watch!OtherBegins \/ Watch!OtherEnds
  PROVE  WatchInv'
<1> USE DEF WatchInv, LockTypes, Numbers, Older, ScreenEmpty, SnapshotFirst, Watched, Watchful,
      Waiting, Watch!BarHasChange, Watch!Editing, Watch!Callers, Watch!Comparing, Watch!files,
      Watch!watcher, Watch!session, Watch!calls
<1>1. CASE Watch!ExternalWrite
  BY <1>1 DEF Watch!ExternalWrite
<1>2. CASE Watch!Type
  BY <1>2 DEF Watch!Type
<1>3. CASE Watch!OtherBegins
  BY <1>3 DEF Watch!OtherBegins
<1>4. CASE Watch!OtherEnds
  BY <1>4 DEF Watch!OtherEnds
<1> QED BY <1>1, <1>2, <1>3, <1>4

\* What the user does: a call that is not begun is told, one that is begun waits.
LEMMA UserKeeps ==
  ASSUME WatchInv,
         \/ Watch!UserCompare \/ Watch!EnterEditMode \/ Watch!LeaveEditMode
         \/ Watch!Save \/ Watch!ToggleAuto
  PROVE  WatchInv'
<1> USE DEF WatchInv, LockTypes, Numbers, Older, ScreenEmpty, SnapshotFirst, Watched, Watchful,
      Waiting, Watch!BarHasChange, Watch!Editing, Watch!Callers, Watch!Comparing, Watch!files,
      Watch!watcher, Watch!session, Watch!calls, Watch!stopFileWatch, Watch!beginCompare
<1>1. CASE Watch!UserCompare
  BY <1>1 DEF Watch!UserCompare
<1>2. CASE Watch!EnterEditMode
  BY <1>2 DEF Watch!EnterEditMode
<1>3. CASE Watch!LeaveEditMode
  BY <1>3 DEF Watch!LeaveEditMode
<1>4. CASE Watch!Save
  BY <1>4 DEF Watch!Save, Watch!Dirty
<1>5. CASE Watch!ToggleAuto
  BY <1>5 DEF Watch!ToggleAuto
<1> QED BY <1>1, <1>2, <1>3, <1>4, <1>5

\* The watcher, the timer and the bar: a change is passed on from one to the next.
LEMMA WatcherKeeps ==
  ASSUME WatchInv,
         \/ Watch!WatchSees \/ Watch!WatchFails \/ Watch!Deliver
         \/ Watch!FlushAsks \/ Watch!FlushWaits \/ Watch!FlushReloads
         \/ Watch!ExternalReload \/ Watch!ExternalKeep
  PROVE  WatchInv'
<1> USE DEF WatchInv, LockTypes, Numbers, Older, ScreenEmpty, SnapshotFirst, Watched, Watchful,
      Waiting, Watch!BarHasChange, Watch!Editing, Watch!Callers, Watch!Comparing, Watch!files,
      Watch!watcher, Watch!session, Watch!calls, Watch!reload
<1>1. CASE Watch!WatchSees
  BY <1>1 DEF Watch!WatchSees
<1>2. CASE Watch!WatchFails
  BY <1>2 DEF Watch!WatchFails
<1>3. CASE Watch!Deliver
  BY <1>3 DEF Watch!Deliver
<1>4. CASE Watch!FlushAsks
  BY <1>4 DEF Watch!FlushAsks, Watch!Dirty
<1>5. CASE Watch!FlushWaits
  BY <1>5 DEF Watch!FlushWaits, Watch!vars
<1>6. CASE Watch!FlushReloads
  BY <1>6 DEF Watch!FlushReloads
<1>7. CASE Watch!ExternalReload
  BY <1>7 DEF Watch!ExternalReload
<1>8. CASE Watch!ExternalKeep
  BY <1>8 DEF Watch!ExternalKeep
<1> QED BY <1>1, <1>2, <1>3, <1>4, <1>5, <1>6, <1>7, <1>8

\* A call of compare() from its snapshot to its end.
LEMMA CallKeeps ==
  ASSUME WatchInv,
         \/ Watch!WatchAgain \/ Watch!ReloadDropped
         \/ \E c \in Watch!Callers : Watch!Run(c) \/ Watch!Trouble(c)
  PROVE  WatchInv'
<1> USE DEF WatchInv, LockTypes, Numbers, Older, ScreenEmpty, SnapshotFirst, Watched, Watchful,
      Waiting, Watch!BarHasChange, Watch!Editing, Watch!Callers, Watch!Comparing, Watch!files,
      Watch!watcher, Watch!session, Watch!start, Watch!leave, Watch!compareEnds
<1>1. CASE Watch!WatchAgain
  BY <1>1 DEF Watch!WatchAgain
<1>2. CASE Watch!ReloadDropped
  BY <1>2 DEF Watch!ReloadDropped
<1>3. ASSUME NEW c \in Watch!Callers, Watch!Snapshot(c) \/ Watch!SnapshotFails(c)
      PROVE  WatchInv'
  BY <1>3 DEF Watch!Snapshot, Watch!SnapshotFails
<1>4. ASSUME NEW c \in Watch!Callers, Watch!Take(c)
      PROVE  WatchInv'
  BY <1>4 DEF Watch!Take
<1>5. ASSUME NEW c \in Watch!Callers, Watch!ReadFiles(c)
      PROVE  WatchInv'
  BY <1>5 DEF Watch!ReadFiles
<1>6. ASSUME NEW c \in Watch!Callers, Watch!Show(c)
      PROVE  WatchInv'
  BY <1>6 DEF Watch!Show
<1>7. ASSUME NEW c \in Watch!Callers, Watch!LoseLock(c) \/ Watch!CompareFails(c)
      PROVE  WatchInv'
  BY <1>7 DEF Watch!LoseLock, Watch!CompareFails
<1> QED BY <1>1, <1>2, <1>3, <1>4, <1>5, <1>6, <1>7 DEF Watch!Run, Watch!Trouble

\* Every step of the watch keeps its invariant.
LEMMA WatchKeeps ==
  ASSUME WatchInv, Watch!Next
  PROVE  WatchInv'
BY OthersKeep, UserKeeps, WatcherKeeps, CallKeeps DEF Watch!Next

\* When nothing is under way, what is watched is what the invariant says.
LEMMA WatchHolds ==
  ASSUME WatchInv
  PROVE  Watch!ChangeIsNoticed /\ Watch!BarHasChange
BY DEF WatchInv, Watched, Watchful, Waiting, Numbers, Watch!Settled, Watch!ChangeIsNoticed

--------------------------------------------------------------------------------
(* All of them together. *)

LiveInv ==
  /\ IInv
  /\ part = "editor" => EditorInv
  /\ part = "watch" => WatchInv

\* The parts' invariants hold in every reachable state of the composition.
THEOREM LiveInvariant == LiveSpec => []LiveInv
<1>1. LiveInit => LiveInv
  <2> SUFFICES ASSUME LiveInit PROVE LiveInv
    OBVIOUS
  <2>1. IInv
    BY InitInv DEF LiveInit
  <2> QED BY <2>1, EditorInit, WatchInit DEF LiveInit, LiveInv
<1>2. LiveInv /\ [LiveNext]_liveVars => LiveInv'
  <2> SUFFICES ASSUME LiveInv, [LiveNext]_liveVars PROVE LiveInv'
    OBVIOUS
  <2>1. CASE CoordinatorStep
    <3>1. [Next]_vars /\ part' = part /\ part = "coordinator"
      BY <2>1 DEF CoordinatorStep, ForCoordinator
    <3> QED BY <3>1, CoordinatorNext DEF LiveInv
  <2>2. CASE EditorStep
    <3>1. Editor!Next /\ part' = part /\ part = "editor"
      BY <2>2 DEF EditorStep, ForEditor
    <3>2. EditorInv'
      BY <3>1, EditKeeps, AskingKeeps, RunKeeps DEF LiveInv, Editor!Next
    <3> QED BY <3>1, <3>2, EditorCoordinates DEF LiveInv
  <2>3. CASE WatchStep
    <3>1. Watch!Next /\ UNCHANGED vars /\ part' = part /\ part = "watch"
      BY <2>3 DEF WatchStep, ForWatch
    <3>2. IInv'
      BY <3>1, CoordinatorNext DEF LiveInv
    <3> QED BY <3>1, <3>2, WatchKeeps DEF LiveInv
  <2>4. CASE LeaseStep \/ LeaseEnds
    <3>1. UNCHANGED vars /\ part' = part /\ part = "lease"
      BY <2>4 DEF LeaseStep, LeaseEnds, ForLease
    <3>2. IInv'
      BY <3>1, CoordinatorNext DEF LiveInv
    <3> QED BY <3>1, <3>2 DEF LiveInv
  <2>5. CASE UNCHANGED liveVars
    <3>1. UNCHANGED vars /\ UNCHANGED editorVars /\ UNCHANGED watchVars /\ part' = part
      BY <2>5 DEF liveVars
    <3>2. IInv'
      BY <3>1, CoordinatorNext DEF LiveInv
    <3>3. part = "editor" => EditorInv'
      BY <3>1 DEF LiveInv, vars, editorVars, EditorInv, EditorTypes, EditorLock, AskedIsEmpty, Asked,
           Current, Expected, Upcoming, Editor!OneComparison, Editor!Source, Editor!EditorOpen,
           Editor!NothingPendingWithoutSession
    <3>4. part = "watch" => WatchInv'
      BY <3>1 DEF LiveInv, watchVars, WatchInv, LockTypes, Numbers, Older, ScreenEmpty,
           SnapshotFirst, Watched, Watchful, Waiting, Watch!BarHasChange, Watch!Editing,
           Watch!Comparing
    <3> QED BY <3>1, <3>2, <3>3, <3>4 DEF LiveInv
  <2> QED BY <2>1, <2>2, <2>3, <2>4, <2>5 DEF LiveNext
<1> QED BY <1>1, <1>2, PTL DEF LiveSpec

\* A quiet screen shows the buffers, unless a comparison was refused; comparisons do
\* not overlap; a session that ended leaves nothing pending (app.js:380-470,
\* 6430-6470).
THEOREM EditorIsSafe == LiveSpec => []EditorSafe
<1>1. LiveInv => EditorSafe
  BY EditorHolds DEF LiveInv, EditorSafe
<1> QED BY <1>1, LiveInvariant, PTL

\* A change of the files that the result does not show is being noticed, unless
\* somebody was told otherwise (app.js:1500-1600).
THEOREM WatchIsSafe == LiveSpec => []WatchSafe
<1>1. LiveInv => WatchSafe
  BY WatchHolds DEF LiveInv, WatchSafe
<1> QED BY <1>1, LiveInvariant, PTL

\* The line editor uses its coordinator as one: it never has two runs in flight, nor
\* forgets what it asked for (optimistic.js:47-123, app.js:380-470).
THEOREM EditorCoordinated == LiveSpec => [](SingleFlight /\ NothingForgotten)
<1>1. LiveInv => SingleFlight /\ NothingForgotten
  BY DEF LiveInv, IInv
<1> QED BY <1>1, LiveInvariant, PTL

--------------------------------------------------------------------------------
(* The tabs' leases: taking a request out of the mail. *)

Requests == [tab : Tabs, kind : {"heartbeat", "release"}, sent : Nat]

\* What is left is what was there, and all but the one taken.
LEMMA TakingOut ==
  ASSUME NEW m \in Seq(Requests), NEW n \in DOMAIN m
  PROVE  /\ Lease!RemoveAt(m, n) \in Seq(Requests)
         /\ \A i \in DOMAIN Lease!RemoveAt(m, n) : \E k \in DOMAIN m : Lease!RemoveAt(m, n)[i] = m[k]
         /\ \A k \in DOMAIN m : k = n \/ \E i \in DOMAIN Lease!RemoveAt(m, n) : Lease!RemoveAt(m, n)[i] = m[k]
<1> DEFINE a == SubSeq(m, 1, n - 1)
           b == SubSeq(m, n + 1, Len(m))
           r == Lease!RemoveAt(m, n)
<1>0. n \in 1 .. Len(m) /\ Len(m) \in Nat
  OBVIOUS
<1>1. a \in Seq(Requests) /\ Len(a) = n - 1 /\ \A i \in 1 .. n - 1 : a[i] = m[i]
  BY <1>0
<1>2. b \in Seq(Requests) /\ Len(b) = Len(m) - n /\ \A i \in 1 .. Len(m) - n : b[i] = m[n + i]
  BY <1>0
<1>3. r = a \o b
  BY DEF Lease!RemoveAt
<1>4. r \in Seq(Requests) /\ Len(r) = Len(m) - 1
  <2> HIDE DEF a, b, r
  <2>1. a \o b \in Seq(Requests) /\ Len(a \o b) = Len(a) + Len(b)
    BY <1>1, <1>2, ConcatProperties
  <2>2. Len(a) + Len(b) = Len(m) - 1
    BY <1>0, <1>1, <1>2
  <2> QED BY <1>3, <2>1, <2>2
<1>5. \A i \in 1 .. Len(m) - 1 : r[i] = IF i < n THEN m[i] ELSE m[i + 1]
  <2> HIDE DEF a, b, r
  <2> SUFFICES ASSUME NEW i \in 1 .. Len(m) - 1
               PROVE  r[i] = IF i < n THEN m[i] ELSE m[i + 1]
    OBVIOUS
  <2>0. \A j \in 1 .. Len(a) + Len(b) : r[j] = IF j <= Len(a) THEN a[j] ELSE b[j - Len(a)]
    <3>1. a \in Seq(Requests) /\ b \in Seq(Requests)
      BY <1>1, <1>2
    <3> QED BY <3>1, <1>3, ConcatProperties, Zenon
  <2>1. CASE i < n
    <3>1. i \in 1 .. Len(a) /\ i \in 1 .. Len(a) + Len(b)
      BY <2>1, <1>0, <1>1, <1>2
    <3>2. r[i] = a[i]
      BY <2>0, <3>1
    <3> QED BY <2>1, <3>1, <3>2, <1>0, <1>1
  <2>2. CASE ~(i < n)
    <3>1. i \in 1 .. Len(a) + Len(b) /\ ~(i <= Len(a)) /\ i - Len(a) = i - (n - 1)
      BY <2>2, <1>0, <1>1, <1>2
    <3>2. r[i] = b[i - (n - 1)]
      BY <2>0, <3>1
    <3>3. i - (n - 1) \in 1 .. Len(m) - n /\ n + (i - (n - 1)) = i + 1
      BY <2>2, <1>0
    <3> QED BY <2>2, <3>2, <3>3, <1>0, <1>1, <1>2
  <2> QED BY <2>1, <2>2
<1> HIDE DEF r
<1>6. \A i \in DOMAIN r : \E k \in DOMAIN m : r[i] = m[k]
  <2> SUFFICES ASSUME NEW i \in 1 .. Len(m) - 1 PROVE \E k \in DOMAIN m : r[i] = m[k]
    BY <1>4
  <2>1. i \in DOMAIN m /\ i + 1 \in DOMAIN m
    BY <1>0
  <2> QED BY <2>1, <1>5
<1>7. \A k \in DOMAIN m : k = n \/ \E i \in DOMAIN r : r[i] = m[k]
  <2> SUFFICES ASSUME NEW k \in 1 .. Len(m), k # n PROVE \E i \in 1 .. Len(m) - 1 : r[i] = m[k]
    BY <1>4
  <2>1. CASE k < n
    BY <2>1, <1>0, <1>5
  <2>2. CASE k > n
    <3>1. k - 1 \in 1 .. Len(m) - 1 /\ ~(k - 1 < n) /\ (k - 1) + 1 = k
      BY <2>2, <1>0
    <3> QED BY <3>1, <1>5
  <2> QED BY <2>1, <2>2, <1>0
<1> QED BY <1>4, <1>6, <1>7 DEF r

--------------------------------------------------------------------------------
(* The tabs' leases: the inductive invariant. *)

\* The time to come back after the latest release, or to come at all.
Base == IF left = Lease!Zero THEN LeaseTimeout ELSE left + Lease!closeGrace

\* The server knows who was heard of, and has removed only what was expired.
LeasesKnown ==
  /\ left <= now
  /\ \A t \in Tabs :
       /\ heard[t] <= now
       /\ sessions[t] # Lease!Zero => sessions[t] = heard[t] /\ now <= sessions[t] + LeaseTimeout
       /\ sessions[t] = Lease!Zero /\ heard[t] # Lease!Zero => heard[t] + LeaseTimeout <= now

\* A deadline is set while nobody holds a lease, and is the latest of those it is for.
DeadlineRight ==
  /\ emptyDeadline # Lease!Zero <=> \A t \in Tabs : sessions[t] = Lease!Zero
  /\ emptyDeadline # Lease!Zero =>
       /\ now <= emptyDeadline /\ Base <= emptyDeadline
       /\ \A t \in Tabs : heard[t] # Lease!Zero => heard[t] + LeaseTimeout + Lease!closeGrace <= emptyDeadline
       /\ \/ emptyDeadline = Base
          \/ \E t \in Tabs : heard[t] # Lease!Zero /\ emptyDeadline = heard[t] + LeaseTimeout + Lease!closeGrace

\* No deadline is before time d.
InTime(d) ==
  /\ emptyDeadline # Lease!Zero => d <= emptyDeadline
  /\ \A t \in Tabs : sessions[t] # Lease!Zero => d <= sessions[t] + LeaseTimeout

\* The goroutine sleeps until the earliest deadline, or will be woken.
Sleeps ==
  /\ pc = "reset" /\ ~wake => InTime(now + delay)
  /\ pc = "select" /\ ~wake => InTime(due)

\* Requests and intervals are on time, and a tab that is served has been heard of
\* since its last but one heartbeat, or its next one is under way.
OnTime ==
  /\ \A n \in DOMAIN mail : mail[n].sent <= now /\ now <= mail[n].sent + Delay
  /\ \A t \in tabsShown : beat[t] # Lease!Zero /\ now <= beat[t] /\ beat[t] <= now + Interval
  /\ \A t \in served :
       /\ heard[t] # Lease!Zero
       /\ \/ beat[t] <= heard[t] + Interval
          \/ \E n \in DOMAIN mail :
               /\ mail[n].tab = t /\ mail[n].kind = "heartbeat"
               /\ mail[n].sent <= heard[t] + Interval

ServerInv == LeasesKnown /\ DeadlineRight /\ Sleeps
LeaseInv == Lease!TypeOK /\ ServerInv /\ OnTime

LEMMA GraceType ==
  ASSUME Lease!LeaseAssumption
  PROVE  Lease!closeGrace \in Nat \ {0} /\ Lease!closeGrace <= LeaseTimeout
BY DEF Lease!LeaseAssumption, Lease!closeGrace

LEMMA LeaseInit ==
  ASSUME Lease!LeaseAssumption, Lease!Init
  PROVE  LeaseInv
<1>1. Lease!TypeOK
  <2>1. mail \in Seq([tab : Tabs, kind : {"heartbeat", "release"}, sent : Nat])
    BY DEF Lease!Init
  <2>2. due \in Nat /\ emptyDeadline \in Lease!Times
    BY DEF Lease!LeaseAssumption, Lease!Init, Lease!Times
  <2> QED BY <2>1, <2>2 DEF Lease!Init, Lease!TypeOK, Lease!Times, Lease!Zero
<1>2. LeasesKnown /\ DeadlineRight /\ Sleeps
  BY DEF Lease!LeaseAssumption, Lease!Init, LeasesKnown, DeadlineRight, Sleeps, Base, Lease!Zero
<1>3. OnTime
  BY DEF Lease!Init, OnTime
<1> QED BY <1>1, <1>2, <1>3 DEF LeaseInv, ServerInv

--------------------------------------------------------------------------------
(* The tabs' leases: types. *)

LEMMA LeaseTypeNext ==
  ASSUME Lease!LeaseAssumption, LeaseInv, Lease!Next
  PROVE  Lease!TypeOK'
<1> USE DEF Lease!TypeOK, Lease!Times, Lease!Zero, Lease!goroutine, Lease!pages, Lease!server, Lease!Act
<1>0. Lease!TypeOK
  BY DEF LeaseInv
<1>1. Lease!closeGrace \in Nat
  BY GraceType
<1>2. CASE Lease!NextDelay
  <2> USE <1>2 DEF Lease!NextDelay
  <2>1. now' \in Nat /\ sessions' \in [Tabs -> Lease!Times] /\ emptyDeadline' \in Lease!Times
    BY <1>0, <1>1
  <2>2. pc' \in {"look", "reset", "select", "expired", "done"} /\ delay' \in Nat
    <3>1. \E next \in Int : Lease!Wait(next)
      BY <1>0, <1>1, <2>1 DEF Lease!LeaseAssumption
    <3> QED BY <3>1, <1>0 DEF Lease!Wait
  <2> QED BY <1>0, <2>1, <2>2
<1>3. CASE Lease!Reset
  BY <1>0, <1>3 DEF Lease!Reset
<1>4. CASE Lease!Woken
  BY <1>0, <1>4 DEF Lease!Woken
<1>5. CASE Lease!Expire
  BY <1>0, <1>5 DEF Lease!Expire
<1>6. CASE Lease!Handle
  <2> PICK n \in DOMAIN mail :
        /\ mail' = Lease!RemoveAt(mail, n)
        /\ IF mail[n].kind = "heartbeat" THEN Lease!Heartbeat(mail[n].tab) ELSE Lease!Release(mail[n].tab)
    BY <1>6 DEF Lease!Handle
  <2>0. mail \in Seq(Requests)
    BY <1>0 DEF Requests
  <2>1. mail[n] \in Requests
    BY <2>0
  <2>2. mail' \in Seq(Requests)
    BY <1>0, TakingOut DEF Requests
  <2>3. CASE Lease!Heartbeat(mail[n].tab)
    BY <1>0, <1>1, <1>6, <2>1, <2>2, <2>3 DEF Lease!Heartbeat, Lease!Handle, Requests
  <2>4. CASE Lease!Release(mail[n].tab)
    BY <1>0, <1>1, <1>6, <2>1, <2>2, <2>4 DEF Lease!Release, Lease!Handle, Requests
  <2> QED BY <2>3, <2>4
<1>7. CASE Lease!Lose
  <2> PICK n \in DOMAIN mail : mail' = Lease!RemoveAt(mail, n) /\ served' = served \ {mail[n].tab}
    BY <1>7 DEF Lease!Lose
  <2>1. mail' \in Seq(Requests)
    BY <1>0, TakingOut DEF Requests
  <2> QED BY <1>0, <1>7, <2>1 DEF Lease!Lose, Requests
<1>8. ASSUME NEW t \in Tabs, Lease!Show(t) \/ Lease!Beat(t) \/ Lease!Hide(t) \/ Lease!Crash(t)
      PROVE  Lease!TypeOK'
  <2>1. CASE Lease!Show(t)
    BY <1>0, <2>1 DEF Lease!Show, Lease!postBrowserLifecycle, Lease!LeaseAssumption
  <2>2. CASE Lease!Beat(t)
    BY <1>0, <2>2 DEF Lease!Beat, Lease!postBrowserLifecycle, Lease!LeaseAssumption
  <2>3. CASE Lease!Hide(t)
    BY <1>0, <2>3 DEF Lease!Hide, Lease!postBrowserLifecycle
  <2>4. CASE Lease!Crash(t)
    BY <1>0, <2>4 DEF Lease!Crash
  <2> QED BY <1>8, <2>1, <2>2, <2>3, <2>4
<1>9. CASE Lease!stopServer
  BY <1>0, <1>9 DEF Lease!stopServer
<1>10. CASE Lease!Tick
  BY <1>0, <1>10 DEF Lease!Tick
<1> QED BY <1>2, <1>3, <1>4, <1>5, <1>6, <1>7, <1>8, <1>9, <1>10 DEF Lease!Next

--------------------------------------------------------------------------------
(* The tabs' leases: the server. *)

LEMMA LookInv ==
  ASSUME Lease!LeaseAssumption, LeaseInv, Lease!NextDelay
  PROVE  /\ ServerInv'
         /\ pc' = "expired" => Lease!Over /\ served = {}
<1> DEFINE alive == {t \in Tabs : sessions[t] # Lease!Zero /\ sessions[t] + LeaseTimeout > now}
           deadlines == {sessions[t] + LeaseTimeout : t \in alive}
<1>0. /\ Lease!TypeOK /\ LeasesKnown /\ DeadlineRight /\ OnTime
      /\ Lease!closeGrace \in Nat \ {0} /\ Lease!closeGrace <= LeaseTimeout /\ LeaseTimeout \in Nat
      /\ Interval \in Nat /\ Delay \in Nat /\ Interval + Delay < LeaseTimeout
  BY GraceType DEF LeaseInv, ServerInv, Lease!LeaseAssumption
<1>1. /\ now \in Nat /\ left \in Int /\ Lease!Zero = -1 /\ emptyDeadline \in Int
      /\ \A t \in Tabs : sessions[t] \in Int /\ heard[t] \in Int
      /\ \A t \in Tabs : (sessions[t] = Lease!Zero \/ sessions[t] \in Nat) /\ (heard[t] = Lease!Zero \/ heard[t] \in Nat)
      /\ emptyDeadline = Lease!Zero \/ emptyDeadline \in Nat
      /\ left = Lease!Zero \/ left \in Nat
  BY <1>0 DEF Lease!TypeOK, Lease!Times, Lease!Zero
<1>2. /\ sessions' = [t \in Tabs |-> IF t \in alive THEN sessions[t] ELSE Lease!Zero]
      /\ emptyDeadline' = IF alive = {} /\ emptyDeadline = Lease!Zero
                          THEN now + Lease!closeGrace ELSE emptyDeadline
      /\ IF alive = {}
         THEN Lease!Wait(emptyDeadline')
         ELSE \E next \in deadlines : (\A d \in deadlines : next <= d) /\ Lease!Wait(next)
      /\ UNCHANGED <<now, wake, heard, left, served>>
  BY DEF Lease!NextDelay
<1>3. LeasesKnown'
  <2>1. \A t \in Tabs : sessions'[t] = IF t \in alive THEN sessions[t] ELSE Lease!Zero
    BY <1>2
  <2> QED BY <1>0, <1>1, <1>2, <2>1 DEF LeasesKnown
<1>4. DeadlineRight'
  <2>1. CASE alive # {}
    <3>1. emptyDeadline' = Lease!Zero
      BY <1>0, <1>2, <2>1 DEF DeadlineRight
    <3>2. ~ \A t \in Tabs : sessions'[t] = Lease!Zero
      BY <1>2, <2>1
    <3> QED BY <3>1, <3>2 DEF DeadlineRight
  <2>2. CASE alive = {} /\ emptyDeadline # Lease!Zero
    <3>1. emptyDeadline' = emptyDeadline /\ \A t \in Tabs : sessions'[t] = Lease!Zero
      BY <1>2, <2>2
    <3> QED BY <1>0, <1>2, <2>2, <3>1 DEF DeadlineRight, Base
  <2>3. CASE alive = {} /\ emptyDeadline = Lease!Zero
    <3>1. emptyDeadline' = now + Lease!closeGrace /\ \A t \in Tabs : sessions'[t] = Lease!Zero
      BY <1>2, <2>3
    <3>2. PICK s \in Tabs : sessions[s] # Lease!Zero
      BY <1>0, <2>3 DEF DeadlineRight
    <3>3. heard[s] = sessions[s] /\ heard[s] + LeaseTimeout = now
      BY <1>0, <1>1, <2>3, <3>2 DEF LeasesKnown
    <3>4. \A t \in Tabs : heard[t] # Lease!Zero => heard[t] + LeaseTimeout + Lease!closeGrace <= now + Lease!closeGrace
      <4> SUFFICES ASSUME NEW t \in Tabs, heard[t] # Lease!Zero
                   PROVE  heard[t] + LeaseTimeout <= now
        BY <1>0, <1>1
      <4> QED BY <1>0, <1>1, <2>3 DEF LeasesKnown
    <3>5. Base <= now + Lease!closeGrace
      BY <1>0, <1>1, <3>2, <3>3 DEF Base, LeasesKnown
    <3>6. Base' = Base
      BY <1>2 DEF Base
    <3>7. heard' = heard /\ now' = now
      BY <1>2
    <3>8. heard[s] # Lease!Zero /\ now + Lease!closeGrace = heard[s] + LeaseTimeout + Lease!closeGrace
      BY <1>0, <1>1, <3>2, <3>3
    <3>9. now + Lease!closeGrace # Lease!Zero /\ now <= now + Lease!closeGrace
      BY <1>0, <1>1
    <3> QED BY <3>1, <3>4, <3>5, <3>6, <3>7, <3>8, <3>9 DEF DeadlineRight
  <2> QED BY <2>1, <2>2, <2>3
<1>5. Sleeps'
  <2>1. pc' # "select"
    BY <1>2 DEF Lease!Wait
  <2>2. ASSUME pc' = "reset" PROVE InTime(now + delay)'
    <3>1. CASE alive = {}
      <4>1. now' + delay' = emptyDeadline' /\ \A t \in Tabs : sessions'[t] = Lease!Zero
        BY <1>0, <1>1, <1>2, <2>2, <3>1 DEF Lease!Wait
      <4> QED BY <1>0, <1>1, <1>2, <4>1 DEF InTime
    <3>2. CASE alive # {}
      <4>1. PICK next \in deadlines : (\A d \in deadlines : next <= d) /\ Lease!Wait(next)
        BY <1>2, <3>2
      <4>2. now' + delay' = next
        BY <1>0, <1>1, <1>2, <2>2, <4>1 DEF Lease!Wait
      <4>3. emptyDeadline' = Lease!Zero
        BY <1>0, <1>2, <3>2 DEF DeadlineRight
      <4>4. \A t \in Tabs : sessions'[t] # Lease!Zero => t \in alive /\ sessions'[t] = sessions[t]
        BY <1>2
      <4> QED BY <4>1, <4>2, <4>3, <4>4 DEF InTime
    <3> QED BY <3>1, <3>2
  <2> QED BY <2>1, <2>2 DEF Sleeps
<1>6. ASSUME pc' = "expired" PROVE Lease!Over /\ served = {}
  <2>1. alive = {}
    <3> SUFFICES ASSUME alive # {} PROVE FALSE
      OBVIOUS
    <3>1. PICK next \in deadlines : Lease!Wait(next)
      BY <1>2
    <3>2. next > now
      BY <1>0, <1>1, <3>1
    <3> QED BY <1>6, <3>1, <3>2 DEF Lease!Wait
  <2>2. ~(emptyDeadline' > now)
    BY <1>2, <1>6, <2>1 DEF Lease!Wait
  <2>3. emptyDeadline # Lease!Zero /\ emptyDeadline' = emptyDeadline
    BY <1>0, <1>1, <1>2, <2>1, <2>2
  <2>4. now = emptyDeadline
    BY <1>0, <1>1, <2>2, <2>3 DEF DeadlineRight
  <2>5. Base <= now /\ \A t \in Tabs : heard[t] # Lease!Zero => heard[t] + LeaseTimeout + Lease!closeGrace <= now
    BY <1>0, <2>3, <2>4 DEF DeadlineRight
  <2>6. Lease!Over
    BY <1>0, <1>1, <2>5 DEF Lease!Over, Base
  <2>7. served = {}
    <3> SUFFICES ASSUME NEW t \in served PROVE FALSE
      OBVIOUS
    <3>1. t \in tabsShown /\ t \in Tabs /\ beat[t] \in Int
      BY <1>0 DEF Lease!TypeOK, Lease!Times, Lease!Zero
    <3>2. heard[t] # Lease!Zero /\ now <= heard[t] + Interval + Delay
      <4>1. now <= beat[t]
        BY <1>0, <3>1 DEF OnTime
      <4>2. CASE beat[t] <= heard[t] + Interval
        BY <1>0, <1>1, <3>1, <4>1, <4>2 DEF OnTime
      <4>3. CASE \E n \in DOMAIN mail : mail[n].sent <= heard[t] + Interval
        <5>1. PICK n \in DOMAIN mail : mail[n].sent <= heard[t] + Interval
          BY <4>3
        <5>2. mail \in Seq(Requests)
          BY <1>0 DEF Lease!TypeOK, Requests
        <5>3. mail[n].sent \in Nat
          <6>1. mail[n] \in Requests
            BY <5>2
          <6> QED BY <6>1 DEF Requests
        <5> QED BY <1>0, <1>1, <3>1, <5>1, <5>3 DEF OnTime
      <4> QED BY <1>0, <4>2, <4>3 DEF OnTime
    <3> QED BY <1>0, <1>1, <2>5, <3>1, <3>2
  <2> QED BY <2>6, <2>7
<1> QED BY <1>3, <1>4, <1>5, <1>6 DEF ServerInv

\* A request that is handled.
LEMMA HandleServerInv ==
  ASSUME Lease!LeaseAssumption, LeaseInv, NEW s \in Tabs, Lease!Heartbeat(s) \/ Lease!Release(s),
         UNCHANGED <<now, Lease!goroutine>>
  PROVE  ServerInv'
<1>0. /\ Lease!TypeOK /\ LeasesKnown /\ DeadlineRight /\ Sleeps
      /\ Lease!closeGrace \in Nat \ {0} /\ LeaseTimeout \in Nat \ {0}
  BY GraceType DEF LeaseInv, ServerInv, Lease!LeaseAssumption
<1>1. /\ now \in Nat /\ left \in Int /\ Lease!Zero = -1 /\ emptyDeadline \in Int
      /\ \A t \in Tabs : sessions[t] \in Int /\ heard[t] \in Int
      /\ sessions \in [Tabs -> Int] /\ heard \in [Tabs -> Int]
  BY <1>0 DEF Lease!TypeOK, Lease!Times, Lease!Zero
<1>2. now' = now /\ wake' = TRUE => Sleeps'
  BY DEF Sleeps
<1>3. CASE Lease!Heartbeat(s)
  <2> USE <1>3 DEF Lease!Heartbeat
  <2>1. \A t \in Tabs : /\ sessions'[t] = IF t = s THEN now ELSE sessions[t]
                        /\ heard'[t] = IF t = s THEN now ELSE heard[t]
    BY <1>1
  <2>2. now' = now /\ left' = left /\ emptyDeadline' = Lease!Zero
    OBVIOUS
  <2>3. LeasesKnown'
    BY <1>0, <1>1, <2>1, <2>2 DEF LeasesKnown
  <2>4. DeadlineRight'
    BY <1>1, <2>1, <2>2 DEF DeadlineRight
  <2> QED BY <1>2, <2>3, <2>4 DEF ServerInv
<1>4. CASE Lease!Release(s)
  <2> USE <1>4 DEF Lease!Release
  <2>1. \A t \in Tabs : /\ sessions'[t] = IF t = s THEN Lease!Zero ELSE sessions[t]
                        /\ heard'[t] = IF t = s THEN Lease!Zero ELSE heard[t]
    BY <1>1
  <2>2. now' = now /\ left' = now
    OBVIOUS
  <2>3. LeasesKnown'
    BY <1>0, <1>1, <2>1, <2>2 DEF LeasesKnown
  <2>4. Base' = now + Lease!closeGrace
    BY <1>1, <2>2 DEF Base
  <2>5. CASE \A u \in Tabs \ {s} : sessions[u] = Lease!Zero
    <3>1. emptyDeadline' = now + Lease!closeGrace /\ \A t \in Tabs : sessions'[t] = Lease!Zero
      BY <2>1, <2>5
    <3>2. \A t \in Tabs : heard'[t] # Lease!Zero => heard'[t] + LeaseTimeout <= now
      BY <1>0, <2>1, <2>5 DEF LeasesKnown
    <3>3. \A t \in Tabs : heard'[t] # Lease!Zero => heard'[t] + LeaseTimeout + Lease!closeGrace <= now + Lease!closeGrace
      BY <1>0, <1>1, <2>1, <3>2
    <3>4. now + Lease!closeGrace # Lease!Zero /\ now <= now + Lease!closeGrace
      BY <1>0, <1>1
    <3>5. DeadlineRight'
      BY <2>2, <2>4, <3>1, <3>3, <3>4, <1>0, <1>1 DEF DeadlineRight
    <3> QED BY <1>2, <2>3, <3>5 DEF ServerInv
  <2>6. CASE ~ \A u \in Tabs \ {s} : sessions[u] = Lease!Zero
    <3>1. PICK u \in Tabs \ {s} : sessions[u] # Lease!Zero
      BY <2>6
    <3>2. emptyDeadline' = Lease!Zero
      BY <1>0, <2>6, <3>1 DEF DeadlineRight
    <3>3. sessions'[u] # Lease!Zero
      BY <2>1, <3>1
    <3>4. DeadlineRight'
      BY <3>2, <3>3 DEF DeadlineRight
    <3> QED BY <1>2, <2>3, <3>4 DEF ServerInv
  <2> QED BY <2>5, <2>6
<1> QED BY <1>3, <1>4

\* The goroutine falls asleep and wakes up; what the tabs do is not seen here.
LEMMA SleepInv ==
  ASSUME Lease!LeaseAssumption, LeaseInv,
         \/ Lease!Reset \/ Lease!Woken \/ Lease!Expire
         \/ UNCHANGED <<now, Lease!server>>
  PROVE  ServerInv'
<1>0. LeasesKnown /\ DeadlineRight /\ Sleeps
  BY DEF LeaseInv, ServerInv
<1>1. UNCHANGED <<now, sessions, emptyDeadline, heard, left>>
  BY DEF Lease!Reset, Lease!Woken, Lease!Expire, Lease!server
<1>2. LeasesKnown' /\ DeadlineRight'
  BY <1>0, <1>1 DEF LeasesKnown, DeadlineRight, Base
<1>3. Sleeps'
  <2>1. CASE Lease!Reset
    BY <1>0, <2>1 DEF Lease!Reset, Sleeps, InTime
  <2>2. CASE Lease!Woken \/ Lease!Expire
    BY <2>2 DEF Lease!Woken, Lease!Expire, Sleeps
  <2>3. CASE UNCHANGED <<now, Lease!server>>
    BY <1>0, <2>3 DEF Lease!server, Lease!goroutine, Sleeps, InTime
  <2> QED BY <2>1, <2>2, <2>3
<1> QED BY <1>2, <1>3 DEF ServerInv

\* Time goes on only before the earliest deadline, so no deadline passes.
LEMMA TickServerInv ==
  ASSUME Lease!LeaseAssumption, LeaseInv, Lease!Tick
  PROVE  ServerInv' /\ ~Lease!Over
<1>0. /\ Lease!TypeOK /\ LeasesKnown /\ DeadlineRight /\ Sleeps
      /\ Lease!closeGrace \in Nat \ {0} /\ LeaseTimeout \in Nat \ {0}
  BY GraceType DEF LeaseInv, ServerInv, Lease!LeaseAssumption
<1>1. /\ now \in Nat /\ left \in Int /\ Lease!Zero = -1 /\ emptyDeadline \in Int /\ due \in Nat
      /\ \A t \in Tabs : sessions[t] \in Int /\ heard[t] \in Int
  BY <1>0 DEF Lease!TypeOK, Lease!Times, Lease!Zero
<1>2. /\ now' = now + 1 /\ now < due /\ pc = "select" /\ ~wake
      /\ UNCHANGED <<sessions, emptyDeadline, wake, pc, delay, due, heard, left>>
  BY DEF Lease!Tick, Lease!server, Lease!goroutine
<1>3. /\ emptyDeadline # Lease!Zero => now < emptyDeadline
      /\ \A t \in Tabs : sessions[t] # Lease!Zero => now < sessions[t] + LeaseTimeout
  BY <1>0, <1>1, <1>2 DEF Sleeps, InTime
<1>4. LeasesKnown'
  BY <1>0, <1>1, <1>2, <1>3 DEF LeasesKnown
<1>5. DeadlineRight'
  <2>1. emptyDeadline # Lease!Zero => now' <= emptyDeadline
    BY <1>1, <1>2, <1>3
  <2> QED BY <1>0, <1>2, <2>1 DEF DeadlineRight, Base
<1>6. Sleeps'
  BY <1>0, <1>2 DEF Sleeps, InTime
<1>7. ~Lease!Over
  <2>1. CASE emptyDeadline = Lease!Zero
    <3>1. PICK t \in Tabs : sessions[t] # Lease!Zero
      BY <1>0, <2>1 DEF DeadlineRight
    <3>2. heard[t] # Lease!Zero /\ now < heard[t] + LeaseTimeout
      BY <1>0, <1>3, <3>1 DEF LeasesKnown
    <3>3. ~(now >= heard[t] + LeaseTimeout + Lease!closeGrace)
      BY <1>0, <1>1, <3>2
    <3> QED BY <3>2, <3>3 DEF Lease!Over
  <2>2. CASE emptyDeadline # Lease!Zero /\ emptyDeadline = Base
    <3>1. ~(now >= Base)
      BY <1>0, <1>1, <1>3, <2>2
    <3> QED BY <3>1 DEF Lease!Over, Base
  <2>3. CASE /\ emptyDeadline # Lease!Zero
             /\ \E t \in Tabs : heard[t] # Lease!Zero /\ emptyDeadline = heard[t] + LeaseTimeout + Lease!closeGrace
    <3>1. PICK t \in Tabs : heard[t] # Lease!Zero /\ emptyDeadline = heard[t] + LeaseTimeout + Lease!closeGrace
      BY <2>3
    <3>2. ~(now >= heard[t] + LeaseTimeout + Lease!closeGrace)
      BY <1>0, <1>1, <1>3, <2>3, <3>1
    <3> QED BY <3>1, <3>2 DEF Lease!Over
  <2> QED BY <1>0, <2>1, <2>2, <2>3 DEF DeadlineRight
<1> QED BY <1>4, <1>5, <1>6, <1>7 DEF ServerInv

--------------------------------------------------------------------------------
(* The tabs' leases: the tabs. *)

LEMMA MailType ==
  ASSUME Lease!TypeOK
  PROVE  /\ mail \in Seq(Requests)
         /\ \A n \in DOMAIN mail : mail[n].tab \in Tabs /\ mail[n].sent \in Nat
<1>1. mail \in Seq(Requests)
  BY DEF Lease!TypeOK, Requests
<1>2. \A n \in DOMAIN mail : mail[n] \in Requests
  BY <1>1
<1> QED BY <1>1, <1>2 DEF Requests

\* A tab sends a request: it is the last one in the mail.
LEMMA SendInv ==
  ASSUME Lease!LeaseAssumption, LeaseInv, NEW s \in Tabs, Lease!Show(s) \/ Lease!Beat(s) \/ Lease!Hide(s)
  PROVE  OnTime'
<1>0. Lease!TypeOK /\ OnTime /\ Interval \in Nat \ {0} /\ Delay \in Nat
  BY DEF LeaseInv, Lease!LeaseAssumption
<1>1. /\ now \in Nat /\ Lease!Zero = -1
      /\ \A t \in Tabs : heard[t] \in Int /\ beat[t] \in Int
      /\ beat \in [Tabs -> Int] /\ tabsShown \subseteq Tabs /\ served \subseteq tabsShown
  BY <1>0 DEF Lease!TypeOK, Lease!Times, Lease!Zero
<1>2. PICK k \in {"heartbeat", "release"} : mail' = Append(mail, [tab |-> s, kind |-> k, sent |-> now])
  BY DEF Lease!Show, Lease!Beat, Lease!Hide, Lease!postBrowserLifecycle
<1>3. now' = now /\ heard' = heard
  BY DEF Lease!Show, Lease!Beat, Lease!Hide, Lease!server
<1>4. /\ DOMAIN mail' = 1 .. Len(mail) + 1 /\ DOMAIN mail = 1 .. Len(mail) /\ Len(mail) \in Nat
      /\ \A n \in DOMAIN mail : mail'[n] = mail[n]
      /\ mail'[Len(mail) + 1] = [tab |-> s, kind |-> k, sent |-> now]
  <2>1. mail \in Seq(Requests) /\ [tab |-> s, kind |-> k, sent |-> now] \in Requests
    BY <1>0, <1>1, MailType DEF Requests
  <2> QED BY <1>2, <2>1, AppendProperties
<1>5. \A n \in DOMAIN mail' : mail'[n].sent <= now' /\ now' <= mail'[n].sent + Delay
  <2> SUFFICES ASSUME NEW n \in DOMAIN mail'
               PROVE  mail'[n].sent <= now /\ now <= mail'[n].sent + Delay
    BY <1>3
  <2>1. CASE n \in DOMAIN mail
    BY <1>0, <1>4, <2>1 DEF OnTime
  <2>2. CASE n = Len(mail) + 1
    BY <1>0, <1>1, <1>4, <2>2
  <2> QED BY <1>4, <2>1, <2>2
<1>6. ASSUME NEW t \in served, t # s \/ beat' = beat
      PROVE  /\ heard[t] # Lease!Zero
             /\ \/ beat[t] <= heard[t] + Interval
                \/ \E n \in DOMAIN mail' :
                     mail'[n].tab = t /\ mail'[n].kind = "heartbeat" /\ mail'[n].sent <= heard[t] + Interval
  <2>1. DOMAIN mail \subseteq DOMAIN mail'
    BY <1>4
  <2> QED BY <1>0, <1>4, <2>1 DEF OnTime
<1>7. CASE Lease!Show(s) \/ Lease!Hide(s)
  <2>1. /\ tabsShown' \in {tabsShown \cup {s}, tabsShown \ {s}} /\ served' = served \ {s}
        /\ \A t \in Tabs : t # s => beat'[t] = beat[t]
        /\ s \in tabsShown' => beat'[s] = now + Interval
    BY <1>1, <1>7 DEF Lease!Show, Lease!Hide
  <2>2. \A t \in tabsShown' : beat'[t] # Lease!Zero /\ now' <= beat'[t] /\ beat'[t] <= now' + Interval
    BY <1>0, <1>1, <1>3, <2>1 DEF OnTime
  <2>3. \A t \in served' : /\ heard'[t] # Lease!Zero
                           /\ \/ beat'[t] <= heard'[t] + Interval
                              \/ \E n \in DOMAIN mail' :
                                   /\ mail'[n].tab = t /\ mail'[n].kind = "heartbeat"
                                   /\ mail'[n].sent <= heard'[t] + Interval
    BY <1>1, <1>3, <1>6, <2>1
  <2> QED BY <1>5, <2>2, <2>3 DEF OnTime
<1>8. CASE Lease!Beat(s)
  <2>1. /\ tabsShown' = tabsShown /\ served' = served /\ beat[s] = now
        /\ \A t \in Tabs : beat'[t] = IF t = s THEN now + Interval ELSE beat[t]
        /\ k = "heartbeat"
    <3>1. mail' = Append(mail, [tab |-> s, kind |-> "heartbeat", sent |-> now])
      BY <1>8 DEF Lease!Beat, Lease!postBrowserLifecycle
    <3>2. Append(mail, [tab |-> s, kind |-> "heartbeat", sent |-> now])[Len(mail) + 1]
             = [tab |-> s, kind |-> "heartbeat", sent |-> now]
      <4>1. mail \in Seq(Requests) /\ [tab |-> s, kind |-> "heartbeat", sent |-> now] \in Requests
        BY <1>0, <1>1, MailType DEF Requests
      <4> QED BY <4>1, AppendProperties
    <3>3. [tab |-> s, kind |-> k, sent |-> now].kind = [tab |-> s, kind |-> "heartbeat", sent |-> now].kind
      BY <1>4, <3>1, <3>2
    <3> QED BY <1>1, <1>8, <3>3 DEF Lease!Beat
  <2>2. \A t \in tabsShown' : beat'[t] # Lease!Zero /\ now' <= beat'[t] /\ beat'[t] <= now' + Interval
    BY <1>0, <1>1, <1>3, <2>1 DEF OnTime
  <2>3. ASSUME NEW t \in served'
        PROVE  /\ heard'[t] # Lease!Zero
               /\ \/ beat'[t] <= heard'[t] + Interval
                  \/ \E n \in DOMAIN mail' :
                       /\ mail'[n].tab = t /\ mail'[n].kind = "heartbeat"
                       /\ mail'[n].sent <= heard'[t] + Interval
    <3>0. t \in served /\ t \in Tabs
      BY <1>1, <2>1, <2>3
    <3>1. CASE t # s
      BY <1>3, <1>6, <2>1, <3>0, <3>1
    <3>2. CASE t = s /\ beat[s] <= heard[s] + Interval
      <4>1. Len(mail) + 1 \in DOMAIN mail'
        BY <1>4
      <4>2. /\ mail'[Len(mail) + 1].tab = s /\ mail'[Len(mail) + 1].kind = "heartbeat"
            /\ mail'[Len(mail) + 1].sent = now
        BY <1>4, <2>1
      <4>3. now <= heard'[s] + Interval
        BY <1>3, <2>1, <3>2
      <4> QED BY <1>0, <1>3, <3>0, <3>2, <4>1, <4>2, <4>3 DEF OnTime
    <3>3. CASE /\ t = s
               /\ \E n \in DOMAIN mail :
                    mail[n].tab = s /\ mail[n].kind = "heartbeat" /\ mail[n].sent <= heard[s] + Interval
      <4>1. DOMAIN mail \subseteq DOMAIN mail'
        BY <1>4
      <4> QED BY <1>0, <1>3, <1>4, <3>0, <3>3, <4>1 DEF OnTime
    <3> QED BY <1>0, <3>0, <3>1, <3>2, <3>3 DEF OnTime
  <2> QED BY <1>5, <2>2, <2>3 DEF OnTime
<1> QED BY <1>7, <1>8

\* A request comes out of the mail.
LEMMA TakeInv ==
  ASSUME Lease!LeaseAssumption, LeaseInv, Lease!Handle \/ Lease!Lose
  PROVE  OnTime'
<1>0. Lease!TypeOK /\ OnTime /\ Interval \in Nat \ {0} /\ Delay \in Nat
  BY DEF LeaseInv, Lease!LeaseAssumption
<1>1. /\ now \in Nat /\ Lease!Zero = -1
      /\ \A t \in Tabs : heard[t] \in Int /\ beat[t] \in Int
      /\ heard \in [Tabs -> Int] /\ tabsShown \subseteq Tabs /\ served \subseteq tabsShown
  BY <1>0 DEF Lease!TypeOK, Lease!Times, Lease!Zero
<1>2. UNCHANGED <<now, tabsShown, beat>>
  BY DEF Lease!Handle, Lease!Lose, Lease!pages
<1>3. PICK n \in DOMAIN mail :
        /\ mail' = Lease!RemoveAt(mail, n)
        /\ \/ mail[n].kind = "heartbeat" /\ Lease!Heartbeat(mail[n].tab)
           \/ Lease!Release(mail[n].tab)
           \/ heard' = heard /\ served' = served \ {mail[n].tab}
  BY DEF Lease!Handle, Lease!Lose
<1>4. mail[n].tab \in Tabs
  BY <1>0, MailType
<1>5. /\ \A i \in DOMAIN mail' : \E k \in DOMAIN mail : mail'[i] = mail[k]
      /\ \A k \in DOMAIN mail : k = n \/ \E i \in DOMAIN mail' : mail'[i] = mail[k]
  <2>1. mail \in Seq(Requests)
    BY <1>0, MailType
  <2> QED BY <1>3, <2>1, TakingOut
<1>6. \A i \in DOMAIN mail' : mail'[i].sent <= now' /\ now' <= mail'[i].sent + Delay
  BY <1>0, <1>2, <1>5 DEF OnTime
<1>7. \A t \in tabsShown' : beat'[t] # Lease!Zero /\ now' <= beat'[t] /\ beat'[t] <= now' + Interval
  BY <1>0, <1>2 DEF OnTime
<1>8. ASSUME NEW t \in served'
      PROVE  /\ heard'[t] # Lease!Zero
             /\ \/ beat'[t] <= heard'[t] + Interval
                \/ \E i \in DOMAIN mail' :
                     mail'[i].tab = t /\ mail'[i].kind = "heartbeat" /\ mail'[i].sent <= heard'[t] + Interval
  <2>1. CASE t # mail[n].tab
    <3>1. t \in served /\ t \in Tabs
      BY <1>1, <1>3, <1>8, <2>1 DEF Lease!Heartbeat, Lease!Release
    <3>2. heard'[t] = heard[t]
      BY <1>1, <1>3, <2>1, <3>1 DEF Lease!Heartbeat, Lease!Release
    <3>3. CASE beat[t] <= heard[t] + Interval
      BY <1>0, <1>2, <3>1, <3>2, <3>3 DEF OnTime
    <3>4. CASE \E k \in DOMAIN mail :
                 mail[k].tab = t /\ mail[k].kind = "heartbeat" /\ mail[k].sent <= heard[t] + Interval
      <4>1. PICK k \in DOMAIN mail :
                 mail[k].tab = t /\ mail[k].kind = "heartbeat" /\ mail[k].sent <= heard[t] + Interval
        BY <3>4
      <4>2. k # n
        BY <2>1, <4>1
      <4>3. PICK i \in DOMAIN mail' : mail'[i] = mail[k]
        BY <1>5, <4>2
      <4> QED BY <1>0, <3>1, <3>2, <4>1, <4>3 DEF OnTime
    <3> QED BY <1>0, <3>1, <3>3, <3>4 DEF OnTime
  <2>2. CASE t = mail[n].tab
    <3>1. Lease!Heartbeat(t)
      BY <1>3, <1>8, <2>2 DEF Lease!Release
    <3>2. heard'[t] = now /\ t \in tabsShown
      BY <1>1, <1>4, <1>8, <2>2, <3>1 DEF Lease!Heartbeat
    <3>3. beat'[t] <= heard'[t] + Interval
      BY <1>0, <1>2, <3>2 DEF OnTime
    <3> QED BY <1>1, <3>2, <3>3
  <2> QED BY <2>1, <2>2
<1> QED BY <1>6, <1>7, <1>8 DEF OnTime

\* What is not in the mail, and the time.
LEMMA LeaseRestInv ==
  ASSUME Lease!LeaseAssumption, LeaseInv,
         \/ UNCHANGED <<now, tabsShown, beat, mail, heard, served>>
         \/ Lease!Tick
         \/ \E t \in Tabs : Lease!Crash(t)
  PROVE  OnTime'
<1>0. Lease!TypeOK /\ OnTime
  BY DEF LeaseInv
<1>1. CASE UNCHANGED <<now, tabsShown, beat, mail, heard, served>>
  BY <1>0, <1>1 DEF OnTime
<1>2. CASE Lease!Tick
  <2>1. now' = now + 1 /\ UNCHANGED <<tabsShown, beat, mail, heard, served>>
    BY <1>2 DEF Lease!Tick, Lease!pages, Lease!server
  <2>2. \A n \in DOMAIN mail : mail[n].sent <= now' /\ now' <= mail[n].sent + Delay
    <3> SUFFICES ASSUME NEW n \in DOMAIN mail
                 PROVE  mail[n].sent <= now + 1 /\ now + 1 <= mail[n].sent + Delay
      BY <2>1
    <3>1. mail[n].sent \in Nat /\ now \in Nat /\ Delay \in Nat
      BY <1>0, MailType DEF Lease!TypeOK, Lease!LeaseAssumption
    <3>2. now < mail[n].sent + Delay /\ mail[n].sent <= now
      BY <1>0, <1>2 DEF Lease!Tick, OnTime
    <3> QED BY <3>1, <3>2
  <2>3. \A t \in tabsShown : beat[t] # Lease!Zero /\ now' <= beat[t] /\ beat[t] <= now' + Interval
    <3> SUFFICES ASSUME NEW t \in tabsShown
                 PROVE  beat[t] # Lease!Zero /\ now + 1 <= beat[t] /\ beat[t] <= now + 1 + Interval
      BY <2>1
    <3>1. t \in Tabs /\ beat[t] \in Int /\ now \in Nat /\ Interval \in Nat
      BY <1>0 DEF Lease!TypeOK, Lease!Times, Lease!Zero, Lease!LeaseAssumption
    <3>2. beat[t] # now
      BY <1>2, <3>1 DEF Lease!Tick
    <3> QED BY <1>0, <3>1, <3>2 DEF OnTime
  <2> QED BY <1>0, <2>1, <2>2, <2>3 DEF OnTime
<1>3. ASSUME NEW s \in Tabs, Lease!Crash(s)
      PROVE  OnTime'
  <2>1. /\ tabsShown' = tabsShown \ {s} /\ served' = served \ {s}
        /\ UNCHANGED <<now, mail, heard>>
        /\ \A t \in Tabs : t # s => beat'[t] = beat[t]
    BY <1>0, <1>3 DEF Lease!Crash, Lease!server, Lease!TypeOK
  <2>2. \A t \in tabsShown' : beat'[t] = beat[t]
    BY <1>0, <2>1 DEF Lease!TypeOK
  <2>3. \A t \in served' : beat'[t] = beat[t]
    BY <1>0, <2>1 DEF Lease!TypeOK
  <2> QED BY <1>0, <2>1, <2>2, <2>3 DEF OnTime
<1> QED BY <1>1, <1>2, <1>3

--------------------------------------------------------------------------------
(* The tabs' leases: the theorems. *)

LEMMA LeaseNextInv ==
  ASSUME Lease!LeaseAssumption, LeaseInv, [Lease!Next]_Lease!vars
  PROVE  /\ LeaseInv'
         /\ pc # "expired" /\ pc' = "expired" => Lease!Over /\ served = {}
         /\ now' # now => ~Lease!Over
<1>1. CASE UNCHANGED Lease!vars
  <2>1. Lease!TypeOK'
    BY <1>1 DEF LeaseInv, Lease!TypeOK, Lease!vars, Lease!goroutine, Lease!pages
  <2>2. ServerInv'
    BY <1>1, SleepInv DEF Lease!vars, Lease!server, Lease!goroutine, Lease!pages
  <2>3. OnTime'
    BY <1>1, LeaseRestInv DEF Lease!vars, Lease!pages
  <2> QED BY <1>1, <2>1, <2>2, <2>3 DEF LeaseInv, Lease!vars, Lease!goroutine
<1>2. CASE Lease!Next
  <2>0. Lease!TypeOK'
    BY <1>2, LeaseTypeNext
  <2>1. CASE Lease!NextDelay
    <3>1. OnTime'
      BY <2>1, LeaseRestInv DEF Lease!NextDelay, Lease!pages
    <3> QED BY <2>0, <2>1, <3>1, LookInv DEF LeaseInv, Lease!NextDelay
  <2>2. CASE Lease!Reset \/ Lease!Woken \/ Lease!Expire
    <3>1. OnTime'
      BY <2>2, LeaseRestInv DEF Lease!Reset, Lease!Woken, Lease!Expire, Lease!pages
    <3> QED BY <2>0, <2>2, <3>1, SleepInv DEF LeaseInv, Lease!Reset, Lease!Woken, Lease!Expire
  <2>3. CASE Lease!Handle
    <3>1. PICK n \in DOMAIN mail : Lease!Heartbeat(mail[n].tab) \/ Lease!Release(mail[n].tab)
      BY <2>3 DEF Lease!Handle
    <3>2. mail[n].tab \in Tabs
      BY MailType DEF LeaseInv
    <3>3. UNCHANGED <<now, Lease!goroutine>>
      BY <2>3 DEF Lease!Handle
    <3>4. ServerInv'
      BY <3>1, <3>2, <3>3, HandleServerInv
    <3>5. OnTime'
      BY <2>3, TakeInv
    <3> QED BY <2>0, <3>3, <3>4, <3>5 DEF LeaseInv, Lease!goroutine
  <2>4. CASE Lease!Lose
    <3>1. UNCHANGED <<now, Lease!server>>
      BY <2>4 DEF Lease!Lose, Lease!server
    <3> QED BY <2>0, <2>4, <3>1, SleepInv, TakeInv DEF LeaseInv, Lease!server, Lease!goroutine
  <2>5. ASSUME NEW t \in Tabs, Lease!Show(t) \/ Lease!Beat(t) \/ Lease!Hide(t)
        PROVE  LeaseInv' /\ UNCHANGED <<now, pc>>
    <3>1. UNCHANGED <<now, Lease!server>>
      BY <2>5 DEF Lease!Show, Lease!Beat, Lease!Hide
    <3> QED BY <2>0, <2>5, <3>1, SleepInv, SendInv DEF LeaseInv, Lease!server, Lease!goroutine
  <2>6. ASSUME NEW t \in Tabs, Lease!Crash(t)
        PROVE  LeaseInv' /\ UNCHANGED <<now, pc>>
    <3>1. UNCHANGED <<now, Lease!server>>
      BY <2>6 DEF Lease!Crash
    <3> QED BY <2>0, <2>6, <3>1, SleepInv, LeaseRestInv DEF LeaseInv, Lease!server, Lease!goroutine
  <2>7. CASE Lease!stopServer
    <3>1. UNCHANGED <<now, Lease!server>> /\ UNCHANGED <<now, tabsShown, beat, mail, heard, served>>
      BY <2>7 DEF Lease!stopServer, Lease!server
    <3> QED BY <2>0, <3>1, SleepInv, LeaseRestInv DEF LeaseInv, Lease!server, Lease!goroutine
  <2>8. CASE Lease!Tick
    <3>1. pc' = pc
      BY <2>8 DEF Lease!Tick, Lease!server, Lease!goroutine
    <3> QED BY <2>0, <2>8, <3>1, TickServerInv, LeaseRestInv DEF LeaseInv
  <2> QED BY <1>2, <2>1, <2>2, <2>3, <2>4, <2>5, <2>6, <2>7, <2>8 DEF Lease!Next
<1> QED BY <1>1, <1>2

\* For any times and any number of tabs, the server gives up at the moment when the
\* last tab has gone and the time to come back is over, and serves no tab then
\* (server_lifecycle.go:41-114, app.js:270-305).
THEOREM LeaseExact ==
  ASSUME Lease!LeaseAssumption
  PROVE  Lease!Spec => Lease!LeaseDecides
<1>1. Lease!Init => LeaseInv
  BY LeaseInit
<1>2. LeaseInv /\ [Lease!Next]_Lease!vars => LeaseInv'
  BY LeaseNextInv
<1>3. LeaseInv /\ [Lease!Next]_Lease!vars =>
        [/\ pc # "expired" /\ pc' = "expired" => Lease!Over /\ served = {}
         /\ now' # now => ~Lease!Over]_Lease!vars
  BY LeaseNextInv
<1> QED BY <1>1, <1>2, <1>3, PTL DEF Lease!Spec, Lease!LeaseDecides

\* The server of a GUI session ends when the last tab has gone and the grace has
\* passed, neither earlier nor later, also beside everything else
\* (server_lifecycle.go:41-114).
THEOREM LeasesDecide == LiveSpec => LeaseDecides
<1>1. LiveInit => Lease!Init
  BY DEF LiveInit
<1>2. [LiveNext]_liveVars => [Lease!Next]_Lease!vars
  <2> SUFFICES ASSUME [LiveNext]_liveVars PROVE [Lease!Next]_Lease!vars
    OBVIOUS
  <2>1. CASE LeaseStep
    BY <2>1 DEF LeaseStep
  <2>2. CASE UNCHANGED leaseVars
    BY <2>2 DEF leaseVars, Lease!vars, Lease!goroutine, Lease!pages
  <2> QED
    BY <2>1, <2>2 DEF LiveNext, CoordinatorStep, ForCoordinator, EditorStep, ForEditor, WatchStep,
         ForWatch, LeaseEnds, liveVars
<1> QED
  BY <1>1, <1>2, LeaseTimes, LeaseExact, PTL DEF LiveSpec, Lease!Spec, LeaseDecides
===============================================================================
