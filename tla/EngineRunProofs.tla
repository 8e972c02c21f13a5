--------------------------- MODULE EngineRunProofs ---------------------------
(***************************************************************************)
(* Proofs about PartitionPool and EngineRun for every number of partitions *)
(* and workers.  First the pool: its type invariant, the inductive         *)
(* invariant IInv, its safety properties, and the refinement of            *)
(* JobContract.  Then a run: it takes the steps of the pool and no others  *)
(* that concern it, so what is proved of the pool holds in a run; from     *)
(* that, what a run leaves behind.                                         *)
(***************************************************************************)
EXTENDS EngineRun, TLAPS

(***************************************************************************)
(* The pool.                                                               *)
(***************************************************************************)

\* Every index already handed out is with a worker, on its way or read.
Accounted ==
  \A i \in Part : i < nextJob =>
    \/ i \in seen
    \/ \E w \in Worker : Running(w) /\ job[w] = i
    \/ \E r \in results : r.index = i

\* No index is anywhere before it was handed out.
HandedOut ==
  /\ \A w \in Worker : Running(w) => job[w] < nextJob
  /\ \A r \in results : r.index < nextJob
  /\ \A i \in seen : i < nextJob

\* One result per index, read once.
OneResult ==
  /\ \A q, r \in results : q.index = r.index => q = r
  /\ \A r \in results : r.index \notin seen

\* A worker has no error before a stage broke; a result without an error stands
\* for a complete output file.
SuccessMeansWhole ==
  /\ \A w \in Worker : pc[w] \in Stages => outcome[w] = "none"
  /\ \A w \in Worker : pc[w] = "send" /\ outcome[w] = "none" => diff[job[w]] = "whole"
  /\ \A r \in results : r.err = "none" => diff[r.index] = "whole"
  /\ firstErr = "none" => \A i \in seen : diff[i] = "whole"

\* A context error, wherever it is, was caused by a context that is done.
ContextErrorsHaveCause ==
  /\ \A w \in Worker : pc[w] = "send" /\ outcome[w] = "context" => CtxDone
  /\ \A r \in results : r.err = "context" => CtxDone
  /\ firstErr = "context" => CtxDone

\* The pool cancelled itself: the failure that made it do so is still with the
\* worker, on its way, or already preferred by the collector.
CauseNotLost ==
  cancelled /\ ~parent =>
    \/ firstErr = "concrete"
    \/ \E r \in results : r.err = "concrete"
    \/ \E w \in Worker : pc[w] = "send" /\ outcome[w] = "concrete"

\* Workers leave only when there is nothing to receive; the pool returns only
\* then, with what the collector made of the results.
Finished ==
  /\ \A w \in Worker : pc[w] = "exit" => nextJob = Partitions
  /\ returned # "running" =>
       /\ results = {}
       /\ \A w \in Worker : pc[w] = "exit"
       /\ returned = "ok" <=> firstErr = "none"
       /\ returned # "ok" => returned = firstErr

\* A partition whose worker has not sent yet still has both inputs, unless its
\* output is complete; an unfinished stage has not written a complete output.
Files ==
  /\ \A i \in Part : i \notin inputs => diff[i] = "whole"
  /\ \A w \in Worker : pc[w] \in Stages => diff[job[w]] # "whole"
  /\ \A i \in Part : i >= nextJob => diff[i] = "none"

IInv ==
  /\ TypeOK
  /\ Accounted
  /\ HandedOut
  /\ OneOwner
  /\ OneResult
  /\ SuccessMeansWhole
  /\ ContextErrorsHaveCause
  /\ CauseNotLost
  /\ Finished
  /\ Files

-------------------------------------------------------------------------------
LEMMA InitInv == Init => IInv
<1> SUFFICES ASSUME Init PROVE IInv
  OBVIOUS
<1> USE DEF Init, Running, Stages
<1>1. TypeOK
  <2>1. 0 \in 0 .. Partitions /\ 0 \in Part
    BY PoolAssumption DEF Part
  <2>2. QED BY <2>1 DEF TypeOK, Errors
<1>2. Accounted /\ HandedOut /\ OneResult
  BY DEF Accounted, HandedOut, OneResult, Part
<1>3. OneOwner
  BY DEF OneOwner
<1>4. SuccessMeansWhole /\ ContextErrorsHaveCause /\ CauseNotLost
  BY DEF SuccessMeansWhole, ContextErrorsHaveCause, CauseNotLost
<1>5. Finished /\ Files
  BY DEF Finished, Files, Part
<1> QED BY <1>1, <1>2, <1>3, <1>4, <1>5 DEF IInv

LEMMA CancelParentInv ==
  ASSUME IInv, CancelParent
  PROVE  IInv'
<1> USE PoolAssumption DEF IInv, TypeOK, Running, Stages, CtxDone, CancelParent
<1>1. TypeOK'
  BY DEF Part, Errors, Results
<1>2. Accounted'
  BY DEF Accounted, Part, Results
<1>3. HandedOut'
  BY DEF HandedOut, Part, Results
<1>4. OneOwner'
  BY DEF OneOwner, HandedOut, OneResult, Results
<1>5. OneResult'
  BY DEF OneResult, OneOwner, HandedOut, Results
<1>6. SuccessMeansWhole'
  BY DEF SuccessMeansWhole, OneOwner, OneResult, Results, Files, preferRootCause, Errors
<1>7. ContextErrorsHaveCause'
  BY DEF ContextErrorsHaveCause, preferRootCause, Results, Errors
<1>8. CauseNotLost'
  BY DEF CauseNotLost, preferRootCause, Errors
<1>9. Finished'
  BY DEF Finished, Errors
<1>10. Files'
  BY DEF Files, HandedOut, OneOwner, Part
<1> QED BY <1>1, <1>2, <1>3, <1>4, <1>5, <1>6, <1>7, <1>8, <1>9, <1>10

LEMMA ReceiveInv ==
  ASSUME NEW w \in Worker, IInv, Receive(w)
  PROVE  IInv'
<1> USE PoolAssumption DEF IInv, TypeOK, Running, Stages, CtxDone, Receive
<1>1. TypeOK'
  BY DEF Part, Errors, Results
<1>2. Accounted'
  BY SMTT(60) DEF Accounted, Part, Results
<1>3. HandedOut'
  BY DEF HandedOut, Part, Results
<1>4. OneOwner'
  BY DEF OneOwner, HandedOut, OneResult, Results
<1>5. OneResult'
  BY DEF OneResult, OneOwner, HandedOut, Results
<1>6. SuccessMeansWhole'
  BY DEF SuccessMeansWhole, OneOwner, OneResult, Results, Files, preferRootCause, Errors
<1>7. ContextErrorsHaveCause'
  BY DEF ContextErrorsHaveCause, preferRootCause, Results, Errors
<1>8. CauseNotLost'
  BY DEF CauseNotLost, preferRootCause, Errors
<1>9. Finished'
  BY DEF Finished, Errors
<1>10. Files'
  BY DEF Files, HandedOut, OneOwner, Part
<1> QED BY <1>1, <1>2, <1>3, <1>4, <1>5, <1>6, <1>7, <1>8, <1>9, <1>10

LEMMA ExitInv ==
  ASSUME NEW w \in Worker, IInv, Exit(w)
  PROVE  IInv'
<1> USE PoolAssumption DEF IInv, TypeOK, Running, Stages, CtxDone, Exit
<1>1. TypeOK'
  BY DEF Part, Errors, Results
<1>2. Accounted'
  BY DEF Accounted, Part, Results
<1>3. HandedOut'
  BY DEF HandedOut, Part, Results
<1>4. OneOwner'
  BY DEF OneOwner, HandedOut, OneResult, Results
<1>5. OneResult'
  BY DEF OneResult, OneOwner, HandedOut, Results
<1>6. SuccessMeansWhole'
  BY DEF SuccessMeansWhole, OneOwner, OneResult, Results, Files, preferRootCause, Errors
<1>7. ContextErrorsHaveCause'
  BY DEF ContextErrorsHaveCause, preferRootCause, Results, Errors
<1>8. CauseNotLost'
  BY DEF CauseNotLost, preferRootCause, Errors
<1>9. Finished'
  BY DEF Finished, Errors
<1>10. Files'
  BY DEF Files, HandedOut, OneOwner, Part
<1> QED BY <1>1, <1>2, <1>3, <1>4, <1>5, <1>6, <1>7, <1>8, <1>9, <1>10

LEMMA SortInv ==
  ASSUME NEW w \in Worker, IInv, Sort(w)
  PROVE  IInv'
<1> USE PoolAssumption DEF IInv, TypeOK, Running, Stages, CtxDone, Sort
<1>1. TypeOK'
  BY DEF Part, Errors, Results
<1>2. Accounted'
  BY DEF Accounted, Part, Results
<1>3. HandedOut'
  BY DEF HandedOut, Part, Results
<1>4. OneOwner'
  BY DEF OneOwner, HandedOut, OneResult, Results
<1>5. OneResult'
  BY DEF OneResult, OneOwner, HandedOut, Results
<1>6. SuccessMeansWhole'
  BY DEF SuccessMeansWhole, OneOwner, OneResult, Results, Files, preferRootCause, Errors
<1>7. ContextErrorsHaveCause'
  BY DEF ContextErrorsHaveCause, preferRootCause, Results, Errors
<1>8. CauseNotLost'
  BY DEF CauseNotLost, preferRootCause, Errors
<1>9. Finished'
  BY DEF Finished, Errors
<1>10. Files'
  BY DEF Files, HandedOut, OneOwner, Part
<1> QED BY <1>1, <1>2, <1>3, <1>4, <1>5, <1>6, <1>7, <1>8, <1>9, <1>10

LEMMA CompareInv ==
  ASSUME NEW w \in Worker, IInv, Compare(w)
  PROVE  IInv'
<1> USE PoolAssumption DEF IInv, TypeOK, Running, Stages, CtxDone, Compare
<1>1. TypeOK'
  BY DEF Part, Errors, Results
<1>2. Accounted'
  BY DEF Accounted, Part, Results
<1>3. HandedOut'
  BY DEF HandedOut, Part, Results
<1>4. OneOwner'
  BY DEF OneOwner, HandedOut, OneResult, Results
<1>5. OneResult'
  BY DEF OneResult, OneOwner, HandedOut, Results
<1>6. SuccessMeansWhole'
  BY DEF SuccessMeansWhole, OneOwner, OneResult, Results, Files, preferRootCause, Errors
<1>7. ContextErrorsHaveCause'
  BY DEF ContextErrorsHaveCause, SuccessMeansWhole
<1>8. CauseNotLost'
  BY DEF CauseNotLost, preferRootCause, Errors
<1>9. Finished'
  BY DEF Finished, Errors
<1>10. Files'
  BY DEF Files, HandedOut, OneOwner, Part
<1> QED BY <1>1, <1>2, <1>3, <1>4, <1>5, <1>6, <1>7, <1>8, <1>9, <1>10

LEMMA BreakInv ==
  ASSUME NEW w \in Worker, IInv, Break(w)
  PROVE  IInv'
<1> USE PoolAssumption DEF IInv, TypeOK, Running, Stages, CtxDone, Break
<1>1. TypeOK'
  BY DEF Part, Errors, Results
<1>2. Accounted'
  BY DEF Accounted, Part, Results
<1>3. HandedOut'
  BY DEF HandedOut, Part, Results
<1>4. OneOwner'
  BY DEF OneOwner, HandedOut, OneResult, Results
<1>5. OneResult'
  BY DEF OneResult, OneOwner, HandedOut, Results
<1>6. SuccessMeansWhole'
  BY DEF SuccessMeansWhole, OneOwner, OneResult, Results, Files, preferRootCause, Errors
<1>7. ContextErrorsHaveCause'
  BY DEF ContextErrorsHaveCause, preferRootCause, Results, Errors
<1>8. CauseNotLost'
  BY DEF CauseNotLost, preferRootCause, Errors
<1>9. Finished'
  BY DEF Finished, Errors
<1>10. Files'
  BY DEF Files, HandedOut, OneOwner, Part
<1> QED BY <1>1, <1>2, <1>3, <1>4, <1>5, <1>6, <1>7, <1>8, <1>9, <1>10

LEMMA SendInv ==
  ASSUME NEW w \in Worker, IInv, Send(w)
  PROVE  IInv'
<1> USE PoolAssumption DEF IInv, TypeOK, Running, Stages, CtxDone, Send
<1>1. TypeOK'
  BY DEF Part, Errors, Results
<1>2. Accounted'
  <2> DEFINE sent == [index |-> job[w], err |-> outcome[w]]
  <2> SUFFICES ASSUME NEW i \in Part, i < nextJob
               PROVE  \/ i \in seen
                      \/ \E v \in Worker : Running(v)' /\ job[v] = i
                      \/ \E r \in results' : r.index = i
    BY DEF Accounted
  <2>1. sent \in results' /\ sent.index = job[w] /\ results \subseteq results'
    OBVIOUS
  <2>2. CASE \E v \in Worker : Running(v) /\ job[v] = i /\ v # w
    BY <2>2
  <2>3. CASE job[w] = i
    BY <2>1, <2>3
  <2> QED BY <2>1, <2>2, <2>3 DEF Accounted
<1>3. HandedOut'
  BY DEF HandedOut, Part, Results
<1>4. OneOwner'
  BY DEF OneOwner, HandedOut, OneResult, Results
<1>5. OneResult'
  BY DEF OneResult, OneOwner, HandedOut, Results
<1>6. SuccessMeansWhole'
  BY DEF SuccessMeansWhole, OneOwner, OneResult, Results, Files, preferRootCause, Errors
<1>7. ContextErrorsHaveCause'
  BY DEF ContextErrorsHaveCause, preferRootCause, Results, Errors
<1>8. CauseNotLost'
  <2> DEFINE sent == [index |-> job[w], err |-> outcome[w]]
  <2>1. sent \in results' /\ sent.err = outcome[w] /\ results \subseteq results'
    OBVIOUS
  <2>2. CASE pc[w] = "send" /\ outcome[w] = "concrete"
    BY <2>1, <2>2 DEF CauseNotLost
  <2>3. CASE ~(pc[w] = "send" /\ outcome[w] = "concrete")
    BY <2>1, <2>3 DEF CauseNotLost
  <2> QED BY <2>2, <2>3
<1>9. Finished'
  BY DEF Finished, Errors
<1>10. Files'
  BY DEF Files, HandedOut, OneOwner, Part
<1> QED BY <1>1, <1>2, <1>3, <1>4, <1>5, <1>6, <1>7, <1>8, <1>9, <1>10

LEMMA CollectInv ==
  ASSUME IInv, Collect
  PROVE  IInv'
<1> USE PoolAssumption DEF IInv, TypeOK, Running, Stages, CtxDone, Collect
<1>1. TypeOK'
  BY DEF Part, Errors, Results, preferRootCause
<1>2. Accounted'
  BY DEF Accounted, Part, Results
<1>3. HandedOut'
  BY DEF HandedOut, Part, Results
<1>4. OneOwner'
  BY DEF OneOwner, HandedOut, OneResult, Results
<1>5. OneResult'
  BY DEF OneResult, OneOwner, HandedOut, Results
<1>6. SuccessMeansWhole'
  BY DEF SuccessMeansWhole, OneOwner, OneResult, Results, Files, preferRootCause, Errors
<1>7. ContextErrorsHaveCause'
  BY DEF ContextErrorsHaveCause, preferRootCause, Results, Errors
<1>8. CauseNotLost'
  BY DEF CauseNotLost, preferRootCause, Errors
<1>9. Finished'
  BY DEF Finished, Errors
<1>10. Files'
  BY DEF Files, HandedOut, OneOwner, Part
<1> QED BY <1>1, <1>2, <1>3, <1>4, <1>5, <1>6, <1>7, <1>8, <1>9, <1>10

LEMMA ReturnInv ==
  ASSUME IInv, Return
  PROVE  IInv'
<1> USE PoolAssumption DEF IInv, TypeOK, Running, Stages, CtxDone, Return
<1>1. TypeOK'
  BY DEF Part, Errors, Results
<1>2. Accounted'
  BY DEF Accounted, Part, Results
<1>3. HandedOut'
  BY DEF HandedOut, Part, Results
<1>4. OneOwner'
  BY DEF OneOwner, HandedOut, OneResult, Results
<1>5. OneResult'
  BY DEF OneResult, OneOwner, HandedOut, Results
<1>6. SuccessMeansWhole'
  BY DEF SuccessMeansWhole, OneOwner, OneResult, Results, Files, preferRootCause, Errors
<1>7. ContextErrorsHaveCause'
  BY DEF ContextErrorsHaveCause, preferRootCause, Results, Errors
<1>8. CauseNotLost'
  BY DEF CauseNotLost, preferRootCause, Errors
<1>9. Finished'
  BY DEF Finished, Errors
<1>10. Files'
  BY DEF Files, HandedOut, OneOwner, Part
<1> QED BY <1>1, <1>2, <1>3, <1>4, <1>5, <1>6, <1>7, <1>8, <1>9, <1>10

-------------------------------------------------------------------------------
\* IInv holds in every reachable state of the pool (compareAllPartitions).
THEOREM Invariant == Spec => []IInv
<1>1. IInv /\ [Next]_vars => IInv'
  <2> SUFFICES ASSUME IInv, [Next]_vars PROVE IInv'
    OBVIOUS
  <2>1. CASE CancelParent
    BY <2>1, CancelParentInv
  <2>2. ASSUME NEW w \in Worker, Work(w) PROVE IInv'
    BY <2>2, ReceiveInv, ExitInv, SortInv, CompareInv, BreakInv, SendInv DEF Work
  <2>3. CASE Collect
    BY <2>3, CollectInv
  <2>4. CASE Return
    BY <2>4, ReturnInv
  <2>5. CASE UNCHANGED vars
    BY <2>5
    DEF vars, IInv, TypeOK, Accounted, HandedOut, OneOwner, OneResult, Running,
        SuccessMeansWhole, ContextErrorsHaveCause, CauseNotLost, CtxDone, Finished, Files
  <2> QED BY <2>1, <2>2, <2>3, <2>4, <2>5 DEF Next
<1> QED BY <1>1, InitInv, PTL DEF Spec

\* The variables keep their types.
THEOREM TypeCorrect == Spec => []TypeOK
<1>1. IInv => TypeOK
  BY DEF IInv
<1> QED BY <1>1, Invariant, PTL

\* The two state facts behind the theorems that follow.
LEMMA OkWhole == IInv => OkMeansEveryPart
<1> SUFFICES ASSUME IInv, returned = "ok"
             PROVE  seen = Part /\ \A i \in Part : diff[i] = "whole"
  BY DEF OkMeansEveryPart
<1>1. results = {} /\ firstErr = "none" /\ \A w \in Worker : pc[w] = "exit"
  BY DEF IInv, Finished
<1>2. nextJob = Partitions
  <2>1. 1 \in Worker
    BY PoolAssumption DEF Worker
  <2>2. QED BY <1>1, <2>1 DEF IInv, Finished
<1>3. Part \subseteq seen
  BY <1>1, <1>2, PoolAssumption DEF IInv, Accounted, Running, Stages, Part
<1> QED BY <1>1, <1>3 DEF IInv, TypeOK, SuccessMeansWhole

LEMMA CauseKnown == IInv => RootCauseReported
BY DEF IInv, TypeOK, RootCauseReported, Finished, ContextErrorsHaveCause, CauseNotLost, CtxDone

\* Success means that every partition was compared to the end.
THEOREM OkIsComplete == Spec => []OkMeansEveryPart
BY OkWhole, Invariant, PTL

\* A failure is not reported as a cancellation nobody asked for.
THEOREM CauseReported == Spec => []RootCauseReported
BY CauseKnown, Invariant, PTL

\* When the pool returns, its workers are gone.
THEOREM WorkersGone == Spec => []NoWorkerLeftBehind
<1>1. IInv => NoWorkerLeftBehind
  BY DEF IInv, NoWorkerLeftBehind, Finished
<1> QED BY <1>1, Invariant, PTL

\* Two workers never hold one partition, and a failed partition keeps its inputs.
THEOREM PartitionsOwned == Spec => [](OneOwner /\ InputsOutliveFailure)
<1>1. IInv => OneOwner /\ InputsOutliveFailure
  BY DEF IInv, Files, InputsOutliveFailure
<1> QED BY <1>1, Invariant, PTL

\* The pool, with its channels, cancellation and any number of workers, is an
\* implementation of the contract its caller relies on.
THEOREM Refinement == Spec => ImplementsContract
<1> DEFINE left == {i \in Part : diff[i] # "whole"}
<1>1. Init => Contract!Init
  BY DEF Init, Contract!Init
<1>2. /\ IInv /\ OkMeansEveryPart' /\ RootCauseReported'
      /\ [Next]_vars
      => [Contract!Next]_Contract!vars
  <2> SUFFICES ASSUME IInv, OkMeansEveryPart', RootCauseReported', [Next]_vars
               PROVE  [Contract!Next]_Contract!vars
    OBVIOUS
  <2>1. CASE CancelParent
    BY <2>1 DEF CancelParent, Contract!Next, Contract!Cancel
  <2>2. ASSUME NEW w \in Worker, Receive(w) \/ Exit(w) \/ Sort(w) \/ Send(w)
        PROVE  UNCHANGED Contract!vars
    BY <2>2 DEF Receive, Exit, Sort, Send, Contract!vars
  <2>3. ASSUME NEW w \in Worker, Compare(w)
        PROVE  Contract!Finish(job[w])
    <3>1. returned = "running"
      BY <2>3 DEF IInv, TypeOK, Finished, Compare
    <3>2. left' = left \ {job[w]}
      BY <2>3 DEF IInv, TypeOK, Compare
    <3> QED BY <2>3, <3>1, <3>2 DEF Compare, Contract!Finish
  <2>4. ASSUME NEW w \in Worker, Break(w)
        PROVE  UNCHANGED Contract!vars
    <3>1. left' = left
      BY <2>4 DEF IInv, TypeOK, Files, Break
    <3> QED BY <2>4, <3>1 DEF Break, Contract!vars
  <2>5. CASE Collect
    BY <2>5 DEF Collect, Contract!vars
  <2>6. CASE Return
    <3>2. returned' = "ok" => left = {}
      BY <2>6 DEF Return, OkMeansEveryPart
    <3>3. returned' = "context" => parent
      BY <2>6 DEF Return, RootCauseReported
    <3>4. CASE returned' = "ok"
      BY <2>6, <3>2, <3>4 DEF Return, Contract!Next, Contract!Succeed
    <3>5. CASE returned' \in {"context", "concrete"}
      BY <2>6, <3>3, <3>5 DEF Return, Contract!Next, Contract!Fail
    <3> QED BY <2>6, <3>4, <3>5 DEF Return, IInv, TypeOK, Errors
  <2>7. CASE UNCHANGED vars
    BY <2>7 DEF vars, Contract!vars
  <2> QED
    <3>1. ASSUME NEW w \in Worker, Work(w)
          PROVE  [Contract!Next]_Contract!vars
      <4>1. job[w] \in Part
        BY DEF IInv, TypeOK
      <4>2. CASE Receive(w) \/ Exit(w) \/ Sort(w) \/ Send(w)
        BY <2>2, <4>2
      <4>3. CASE Compare(w)
        <5>1. Contract!Finish(job[w])
          BY <2>3, <4>3
        <5>2. \E u \in Part : Contract!Finish(u)
          BY <4>1, <5>1 DEF Contract!Finish
        <5> QED BY <5>2, Zenon DEF Contract!Next
      <4>4. CASE Break(w)
        BY <2>4, <4>4
      <4> QED BY <3>1, <4>2, <4>3, <4>4 DEF Work
    <3> QED BY <2>1, <2>5, <2>6, <2>7, <3>1 DEF Next
<1> QED BY <1>1, <1>2, Invariant, OkIsComplete, CauseReported, PTL DEF ImplementsContract, Spec, Contract!Spec

(***************************************************************************)
(* A run.                                                                  *)
(***************************************************************************)

\* The pool was started.
Started == phase = "pool" \/ returned # "running"

\* What Run has come to, by its phase.
Phased ==
  /\ phase \in {"prepare", "root", "left", "right", "pool"} => returned = "running"
  /\ phase = "assemble" => returned = "ok" /\ staged \subseteq Part \X {"whole"}
  /\ phase \in Replacing => returned = "ok" /\ staged = Part \X {"whole"}
  /\ phase \notin {"assemble"} \cup Replacing => staged = {}
  /\ phase \notin {"retry", "cleanup", "over"} => output = Old
  /\ phase = "retry" => output = {}
  /\ phase \in {"remove", "retry"} => Windows
  /\ phase \notin {"cleanup", "over"} => result = "ok"
  /\ phase \in {"cleanup", "over"} =>
       IF result = "ok" THEN output = Part \X {"whole"}
       ELSE output = Old \/ (output = {} /\ Windows /\ result = "concrete")

\* A directory in use is not entered, and before it is entered a root is as it was
\* found; at the end only one that was named is there.
Rooted ==
  /\ given = "used" => phase \in {"prepare", "root", "over"}
  /\ given = "used" \/ phase \in {"prepare", "root"} => content = Found
  /\ phase \in {"prepare", "root"} /\ given = "none" => ~root
  /\ Exists => root
  /\ phase = "over" /\ ~KeepTemp => content = Found /\ (given = "none" => ~root)

RunInv == RunTypes /\ Phased /\ Rooted /\ OutputIsWhole

\* What is known of the pool in every state.
PoolFacts == TypeOK /\ OkMeansEveryPart /\ NoWorkerLeftBehind

--------------------------------------------------------------------------------
\* A run takes steps of the pool, or none.
THEOREM RunRunsPool == RunSpec => Spec
<1>1. RunInit => Init
  BY DEF RunInit
<1>2. [RunNext]_allVars => [Next]_vars
  <2> SUFFICES ASSUME [RunNext]_allVars PROVE [Next]_vars
    OBVIOUS
  <2>1. CASE Cancel
    BY <2>1 DEF Cancel, Next
  <2>2. CASE CancelLate
    BY <2>2 DEF CancelLate
  <2>3. ASSUME NEW w \in Worker, WorkerStep(w) PROVE Next
    BY <2>3 DEF WorkerStep, Next
  <2>4. CASE RunStep
    BY <2>4 DEF RunStep, Prepare, CreateRoot, PartitionInputs, Partition, PoolCollects, PoolReturns,
                CopyPart, StageOutput, Install, RenameRefused, RemoveOutput,
                AssemblyFails, Cleanup, Next
  <2>5. CASE UNCHANGED allVars
    BY <2>5 DEF allVars
  <2> QED BY <2>1, <2>2, <2>3, <2>4, <2>5 DEF RunNext
<1> QED BY <1>1, <1>2, PTL DEF RunSpec, Spec

\* What was proved of the pool holds in a run.
LEMMA PoolFactsHold == RunSpec => []PoolFacts
BY RunRunsPool, TypeCorrect, OkIsComplete, WorkersGone, PTL DEF PoolFacts

LEMMA PartsAreNew == Part \X {"whole"} # {} /\ Part \X {"whole"} # Old
<1>1. 0 \in Part /\ Partitions \notin Part
  BY PoolAssumption DEF Part
<1>2. <<0, "whole">> \in Part \X {"whole"} /\ <<Partitions, "whole">> \notin Part \X {"whole"}
  BY <1>1
<1> QED BY <1>2 DEF Old

LEMMA RunInitInv == RunInit => RunInv
<1> SUFFICES ASSUME RunInit PROVE RunInv
  OBVIOUS
<1>1. /\ phase = "prepare" /\ given \in {"none", "missing", "empty", "used"}
      /\ root = Exists /\ content = Found
      /\ staged = {} /\ output = Old /\ late = FALSE /\ result = "ok"
  BY DEF RunInit
<1>2. returned = "running"
  BY DEF RunInit, Init
<1>3. Exists \in BOOLEAN /\ (given = "none" => ~Exists)
  BY DEF Exists
<1>4. RunTypes
  BY <1>1, <1>3 DEF RunTypes, Phases, Found
<1>5. Phased
  BY <1>1, <1>2 DEF Phased, Replacing
<1>6. Rooted
  BY <1>1, <1>3 DEF Rooted
<1>7. OutputIsWhole
  BY <1>1 DEF OutputIsWhole
<1> QED BY <1>4, <1>5, <1>6, <1>7 DEF RunInv

\* A worker that can take a step was started in a phase in which the root is the
\* run's own, and has not outlived it.
LEMMA WorkerStepInv ==
  ASSUME RunInv, PoolFacts, NEW w \in Worker, WorkerStep(w)
  PROVE  RunInv'
<1>1. pc[w] # "exit"
  BY DEF WorkerStep, Work, Receive, Exit, Sort, Compare, Break, Send, Stages
<1>2. phase = "pool" /\ returned = "running"
  BY <1>1 DEF WorkerStep, PoolFacts, NoWorkerLeftBehind, RunInv, Phased
<1>3. given # "used"
  BY <1>2 DEF RunInv, Rooted, Exists
<1>4. returned' = "running"
  BY <1>2 DEF WorkerStep, Work, Receive, Exit, Sort, Compare, Break, Send
<1>5. content' \subseteq WorkFiles \cup {Users}
  <2>1. job[w] \in Part
    BY DEF PoolFacts, TypeOK
  <2> QED BY <2>1 DEF WorkerStep, Left, RunInv, RunTypes, WorkFiles
<1>6. root' \in BOOLEAN /\ (root => root')
  BY DEF WorkerStep, RunInv, RunTypes
<1>7. UNCHANGED <<phase, given, staged, output, late, result>>
  BY DEF WorkerStep
<1>8. RunTypes'
  BY <1>5, <1>6, <1>7 DEF RunInv, RunTypes
<1>9. Phased'
  BY <1>2, <1>4, <1>7 DEF RunInv, Phased
<1>10. Rooted'
  BY <1>2, <1>3, <1>6, <1>7 DEF RunInv, Rooted, Exists
<1> QED BY <1>7, <1>8, <1>9, <1>10 DEF RunInv, OutputIsWhole

\* A cancellation changes nothing but what may be reported.
LEMMA CancelInv ==
  ASSUME RunInv, Cancel \/ CancelLate
  PROVE  RunInv'
<1>1. /\ UNCHANGED <<returned, phase, given, root, content, staged, output, result>>
      /\ late' = late \/ late' = TRUE
  BY DEF Cancel, CancelLate, CancelParent, runVars, vars
<1>2. RunTypes'
  BY <1>1 DEF RunInv, RunTypes
<1>3. Phased'
  BY <1>1 DEF RunInv, Phased
<1>4. Rooted'
  BY <1>1 DEF RunInv, Rooted, Found, Exists
<1>5. OutputIsWhole'
  BY <1>1 DEF RunInv, OutputIsWhole
<1> QED BY <1>2, <1>3, <1>4, <1>5 DEF RunInv

\* Until the pool runs.
LEMMA BeforePoolInv ==
  ASSUME RunInv, Prepare \/ CreateRoot \/ PartitionInputs
  PROVE  RunInv'
<1> USE DEF Go, GiveUp
<1>1. /\ Phases = {"prepare", "root", "left", "right", "pool", "assemble", "cleanup", "over",
                   "replace", "remove", "retry"}
      /\ Replacing = {"replace", "remove", "retry"}
  BY DEF Phases, Replacing
<1>2. CASE Prepare
  BY <1>1, <1>2 DEF RunInv, RunTypes, Phased, Rooted, Found, Exists, OutputIsWhole, Prepare, vars
<1>3. CASE CreateRoot
  BY <1>1, <1>3 DEF RunInv, RunTypes, Phased, Rooted, Found, Exists, OutputIsWhole, CreateRoot, vars
<1>4. ASSUME NEW side \in {"left", "right"}, NEW then \in {"right", "pool"},
             Partition(side, then)
      PROVE  RunInv'
  <2>1. phase \in {"left", "right"} /\ phase' \in {"right", "pool", "cleanup"}
    BY <1>4 DEF Partition
  <2>2. given # "used"
    BY <2>1 DEF RunInv, Rooted, Exists
  <2>3. content' \subseteq WorkFiles \cup {Users}
    BY <1>4 DEF Partition, RunInv, RunTypes, WorkFiles, Inputs
  <2>4. result' \in {"ok", "context", "concrete"} /\ (result' = "ok" <=> phase' # "cleanup")
    BY <1>4, <2>1 DEF Partition, Errs, RunInv, Phased
  <2>5. UNCHANGED <<returned, given, root, staged, output, late>>
    BY <1>4 DEF Partition, vars
  <2>6. RunTypes'
    BY <1>1, <2>1, <2>3, <2>4, <2>5 DEF RunInv, RunTypes
  <2>7. Phased'
    BY <1>1, <2>1, <2>4, <2>5 DEF RunInv, Phased
  <2>8. Rooted'
    BY <2>1, <2>2, <2>5 DEF RunInv, Rooted, Exists
  <2>9. OutputIsWhole'
    BY <1>1, <2>1, <2>5 DEF RunInv, Phased, OutputIsWhole
  <2> QED BY <2>6, <2>7, <2>8, <2>9 DEF RunInv
<1> QED BY <1>2, <1>3, <1>4 DEF PartitionInputs

\* The pool, as Run sees it.
LEMMA PoolInv ==
  ASSUME RunInv, PoolFacts', PoolCollects \/ PoolReturns
  PROVE  RunInv'
<1>1. CASE PoolCollects
  BY <1>1 DEF RunInv, RunTypes, Phased, Rooted, Found, Exists, OutputIsWhole, PoolCollects, Collect, runVars
<1>2. CASE PoolReturns
  <2>1. returned' \in {"ok", "context", "concrete"}
    BY <1>2 DEF PoolFacts, TypeOK, Errors, PoolReturns, Return
  <2>2. phase = "pool" /\ phase' = (IF returned' = "ok" THEN "assemble" ELSE "cleanup")
        /\ result' = returned'
    BY <1>2 DEF PoolReturns
  <2>3. UNCHANGED <<given, root, content, staged, output, late>>
    BY <1>2 DEF PoolReturns
  <2>4. RunTypes'
    BY <2>1, <2>2, <2>3 DEF RunInv, RunTypes, Phases
  <2>5. Phased'
    BY <2>1, <2>2, <2>3 DEF RunInv, Phased, Replacing
  <2>6. Rooted'
    BY <2>2, <2>3 DEF RunInv, Rooted, Exists
  <2>7. OutputIsWhole'
    BY <2>2, <2>3 DEF RunInv, Phased, Replacing, OutputIsWhole
  <2> QED BY <2>4, <2>5, <2>6, <2>7 DEF RunInv
<1> QED BY <1>1, <1>2

\* The parts are whole when they are copied, because the pool has succeeded.
LEMMA AssembleInv ==
  ASSUME RunInv, PoolFacts, (\E i \in Part : CopyPart(i)) \/ StageOutput
  PROVE  RunInv'
<1> USE DEF Go, Replacing
<1>1. phase = "assemble" /\ returned = "ok" /\ given # "used" /\ output = Old /\ result = "ok"
  BY DEF CopyPart, StageOutput, RunInv, Phased, Rooted, Exists
<1>2. ASSUME NEW i \in Part, CopyPart(i) PROVE RunInv'
  <2>1. diff[i] = "whole"
    BY <1>1 DEF PoolFacts, OkMeansEveryPart
  <2>2. staged' \subseteq Part \X {"whole"}
    BY <1>1, <1>2, <2>1 DEF CopyPart, RunInv, Phased
  <2>3. UNCHANGED <<returned, phase, given, root, content, output, late, result>>
    BY <1>2 DEF CopyPart, vars
  <2>4. RunTypes'
    BY <2>2, <2>3 DEF RunInv, RunTypes, Copies
  <2>5. Phased'
    BY <1>1, <2>2, <2>3 DEF RunInv, Phased
  <2>6. Rooted' /\ OutputIsWhole'
    BY <1>1, <2>3 DEF RunInv, Rooted, Found, Exists, OutputIsWhole
  <2> QED BY <2>4, <2>5, <2>6 DEF RunInv
<1>3. CASE StageOutput
  <2>1. staged \subseteq Part \X {"whole"} /\ {c[1] : c \in staged} = Part
    BY <1>1, <1>3 DEF StageOutput, RunInv, Phased
  <2>2. ASSUME NEW i \in Part PROVE <<i, "whole">> \in staged
    <3>1. PICK c \in staged : c[1] = i
      BY <2>1
    <3> QED BY <2>1, <3>1
  <2>3. staged = Part \X {"whole"}
    BY <2>1, <2>2
  <2>4. /\ phase' = "replace"
        /\ UNCHANGED <<returned, given, root, content, staged, output, late, result>>
    BY <1>3 DEF StageOutput, vars
  <2>5. RunTypes'
    BY <2>4 DEF RunInv, RunTypes, Phases
  <2>6. Phased'
    BY <1>1, <2>3, <2>4 DEF RunInv, Phased
  <2>7. Rooted' /\ OutputIsWhole'
    BY <1>1, <2>4 DEF RunInv, Rooted, Exists, OutputIsWhole
  <2> QED BY <2>5, <2>6, <2>7 DEF RunInv
<1> QED BY <1>2, <1>3

\* What is there is replaced by the whole staged output, or goes first.
LEMMA ReplaceInv ==
  ASSUME RunInv, Install \/ RenameRefused \/ RemoveOutput
  PROVE  RunInv'
<1> USE DEF Go, Replacing
<1>1. /\ phase \in Replacing /\ returned = "ok" /\ given # "used" /\ result = "ok"
      /\ staged = Part \X {"whole"}
  BY DEF Install, RenameRefused, RemoveOutput, RunInv, Phased, Rooted, Exists
<1>2. Part \X {"whole"} \subseteq Copies /\ {} \subseteq Copies
  BY DEF Copies
<1>3. /\ phase' \in {"remove", "retry", "cleanup"}
      /\ UNCHANGED <<returned, given, root, content, late, result>>
  BY DEF Install, RenameRefused, RemoveOutput, vars
<1>4. \/ phase' = "cleanup" /\ output' = Part \X {"whole"} /\ staged' = {}
      \/ phase' = "remove" /\ output' = output /\ staged' = staged /\ output = Old /\ Windows
      \/ phase' = "retry" /\ output' = {} /\ staged' = staged /\ Windows
  BY <1>1 DEF Install, RenameRefused, RemoveOutput, RunInv, Phased
<1>5. RunTypes'
  BY <1>1, <1>2, <1>3, <1>4 DEF RunInv, RunTypes, Phases
<1>6. Phased'
  BY <1>1, <1>3, <1>4 DEF Phased
<1>7. Rooted'
  BY <1>1, <1>3 DEF RunInv, Rooted, Exists
<1>8. OutputIsWhole'
  BY <1>4 DEF OutputIsWhole
<1> QED BY <1>5, <1>6, <1>7, <1>8 DEF RunInv

\* A failure leaves the old output, or none if that was removed already.
LEMMA AssemblyFailsInv ==
  ASSUME RunInv, AssemblyFails
  PROVE  RunInv'
<1> USE DEF GiveUp, Go, Replacing
<1>1. /\ phase \in {"assemble"} \cup Replacing /\ phase' = "cleanup" /\ staged' = {}
      /\ result' \in {"context", "concrete"}
      /\ phase \in Replacing => result' = "concrete"
      /\ UNCHANGED <<returned, given, root, content, output, late>>
  BY DEF AssemblyFails, Errs, vars
<1>2. given # "used"
  BY <1>1 DEF RunInv, Rooted, Exists
<1>3. output = Old \/ (output = {} /\ Windows /\ result' = "concrete")
  BY <1>1 DEF RunInv, Phased
<1>4. RunTypes'
  BY <1>1 DEF RunInv, RunTypes, Phases
<1>5. Phased'
  BY <1>1, <1>3 DEF Phased
<1>6. Rooted' /\ OutputIsWhole'
  BY <1>1, <1>2, <1>3 DEF RunInv, Rooted, Exists, OutputIsWhole
<1> QED BY <1>4, <1>5, <1>6 DEF RunInv

LEMMA CleanupInv ==
  ASSUME RunInv, Cleanup
  PROVE  RunInv'
<1>1. phase = "cleanup" /\ given # "used" /\ phase' = "over"
      /\ UNCHANGED <<returned, given, staged, output, late, result>>
  BY DEF Cleanup, Go, RunInv, Rooted, Exists, vars
<1>2. IF KeepTemp THEN UNCHANGED <<root, content>> ELSE root' = (given # "none") /\ content' = {}
  BY DEF Cleanup
<1>3. RunTypes'
  BY <1>1, <1>2, PoolAssumption DEF RunInv, RunTypes, Phases
<1>4. Phased'
  BY <1>1 DEF RunInv, Phased, Replacing
<1>5. Rooted'
  BY <1>1, <1>2, PoolAssumption DEF RunInv, Rooted, Found, Exists
<1> QED BY <1>1, <1>3, <1>4, <1>5 DEF RunInv, OutputIsWhole

LEMMA RunInvariant == RunSpec => []RunInv
<1>1. RunInv /\ PoolFacts /\ PoolFacts' /\ [RunNext]_allVars => RunInv'
  <2> SUFFICES ASSUME RunInv, PoolFacts, PoolFacts', [RunNext]_allVars PROVE RunInv'
    OBVIOUS
  <2>1. CASE Cancel \/ CancelLate
    BY <2>1, CancelInv
  <2>2. ASSUME NEW w \in Worker, WorkerStep(w) PROVE RunInv'
    BY <2>2, WorkerStepInv
  <2>3. CASE RunStep
    BY <2>3, BeforePoolInv, PoolInv, AssembleInv, ReplaceInv, AssemblyFailsInv,
            CleanupInv DEF RunStep
  <2>4. CASE UNCHANGED allVars
    BY <2>4 DEF allVars, vars, runVars, RunInv, RunTypes, Phased, Rooted, Found, Exists, OutputIsWhole
  <2> QED BY <2>1, <2>2, <2>3, <2>4 DEF RunNext
<1> QED BY <1>1, RunInitInv, PoolFactsHold, PTL DEF RunSpec

\* For any number of partitions and workers: the output changes only as a whole and
\* to the new one only with success, the work root is as it was found, and what the
\* user had in it is not touched.
THEOREM KeepsItsWord == RunSpec => []RunKeepsItsWord
<1>1. RunInv => RunKeepsItsWord
  <2> SUFFICES ASSUME RunInv PROVE RunKeepsItsWord
    OBVIOUS
  <2>1. Part \X {"whole"} # {} /\ Part \X {"whole"} # Old
    BY PartsAreNew
  <2>2. phase = "over" => (result = "ok" <=> output = Part \X {"whole"})
    BY <2>1 DEF RunInv, Phased
  <2>3. /\ phase = "over" /\ ~KeepTemp => content = Found /\ (given = "none" => ~root)
        /\ Found \subseteq content /\ (Exists => root)
    BY DEF RunInv, Rooted, Found, Exists
  <2> QED BY <2>2, <2>3 DEF RunInv, RunKeepsItsWord, LeavesOnlyOutput
<1> QED BY <1>1, RunInvariant, PTL

\* A run that failed leaves the output that was there, but for the one case of the
\* fallback: on every other platform, and whenever the context was the cause
\* (atomicfile.go:77-87).
THEOREM FailureKeepsOutput ==
  RunSpec => [](phase = "over" /\ result # "ok" /\ (result = "context" \/ ~Windows) => output = Old)
<1>1. RunInv => (phase = "over" /\ result # "ok" /\ (result = "context" \/ ~Windows) => output = Old)
  BY DEF RunInv, Phased
<1> QED BY <1>1, RunInvariant, PTL

\* What the caller hears of the pool in a run is what JobContract promises.
THEOREM RunImplementsContract == RunSpec => ImplementsContract
BY RunRunsPool, Refinement, PTL
===============================================================================
