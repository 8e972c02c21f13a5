---------------------------- MODULE PartitionPool ----------------------------
(***************************************************************************)
(* internal/engine/run.go, compareAllPartitions: the worker pool that      *)
(* sorts and compares the hash partitions of two inputs.                   *)
(*                                                                         *)
(* The jobs channel is filled with every partition index and closed before *)
(* a worker starts, so it is a counter of the indexes handed out.  A worker*)
(* that fails cancels the context its siblings watch; they then report a   *)
(* context error of their own.  The collector reads one result per index,  *)
(* until the last worker has gone and the results channel is closed, and   *)
(* keeps the error that explains the failure best (preferRootCause).       *)
(*                                                                         *)
(* The order of the results channel is left open (a set): the collector's  *)
(* decision depends only on which errors come before which, and any order  *)
(* of sends is possible for the results of different workers.              *)
(***************************************************************************)
EXTENDS Naturals, FiniteSets, RootCause

CONSTANTS
  Partitions,   \* cfg.Partitions
  Workers,      \* cfg.Workers
  KeepTemp      \* cfg.KeepTemp: leave the partition files behind

ASSUME PoolAssumption ==
  /\ Partitions \in Nat \ {0}
  /\ Workers \in Nat \ {0}
  /\ KeepTemp \in BOOLEAN

VARIABLES
  parent,       \* TRUE once the caller's context is cancelled
  cancelled,    \* TRUE once a worker called cancel()
  nextJob,      \* the index at the head of the jobs channel
  pc,           \* pc[w]: where worker w is
  job,          \* job[w]: the index w received last
  outcome,      \* outcome[w]: the error w is about to send
  results,      \* the results channel
  seen,         \* the indexes whose result the collector has read
  firstErr,     \* the collector's firstErr
  returned,     \* what compareAllPartitions returned, or "running"
  inputs,       \* the partitions whose two input files still exist
  diff          \* diff[i]: the output file of partition i

vars == <<parent, cancelled, nextJob, pc, job, outcome, results, seen,
          firstErr, returned, inputs, diff>>

Part == 0 .. Partitions - 1
Worker == 1 .. (IF Workers < Partitions THEN Workers ELSE Partitions)

Results == [index : Part, err : Errors]
Stages == {"left", "right", "compare"}

\* workerCtx.Err() # nil: the worker context is derived from the caller's.
CtxDone == parent \/ cancelled

TypeOK ==
  /\ parent \in BOOLEAN
  /\ cancelled \in BOOLEAN
  /\ nextJob \in 0 .. Partitions
  /\ pc \in [Worker -> {"receive", "send", "exit"} \cup Stages]
  /\ job \in [Worker -> Part]
  /\ outcome \in [Worker -> Errors]
  /\ results \subseteq Results
  /\ seen \subseteq Part
  /\ firstErr \in Errors
  /\ returned \in {"running", "ok", "context", "concrete"}
  /\ inputs \subseteq Part
  /\ diff \in [Part -> {"none", "partial", "whole"}]

Init ==
  /\ parent = FALSE
  /\ cancelled = FALSE
  /\ nextJob = 0
  /\ pc = [w \in Worker |-> "receive"]
  /\ job = [w \in Worker |-> 0]
  /\ outcome = [w \in Worker |-> "none"]
  /\ results = {}
  /\ seen = {}
  /\ firstErr = "none"
  /\ returned = "running"
  /\ inputs = Part
  /\ diff = [i \in Part |-> "none"]

-------------------------------------------------------------------------------
\* The caller cancels, or its deadline passes.
CancelParent ==
  /\ returned = "running"
  /\ ~parent
  /\ parent' = TRUE
  /\ UNCHANGED <<cancelled, nextJob, pc, job, outcome, results, seen, firstErr,
                 returned, inputs, diff>>

\* for index := range jobs, and the check of the context that follows: with
\* the context done the job is not started and its result is that error.
Receive(w) ==
  /\ pc[w] = "receive"
  /\ nextJob < Partitions
  /\ nextJob' = nextJob + 1
  /\ job' = [job EXCEPT ![w] = nextJob]
  /\ pc' = [pc EXCEPT ![w] = IF CtxDone THEN "send" ELSE "left"]
  /\ outcome' = [outcome EXCEPT ![w] = IF CtxDone THEN "context" ELSE "none"]
  /\ UNCHANGED <<parent, cancelled, results, seen, firstErr, returned, inputs, diff>>

\* The jobs channel is drained: the worker leaves its loop (wg.Done).
Exit(w) ==
  /\ pc[w] = "receive"
  /\ nextJob = Partitions
  /\ pc' = [pc EXCEPT ![w] = "exit"]
  /\ UNCHANGED <<parent, cancelled, nextJob, job, outcome, results, seen,
                 firstErr, returned, inputs, diff>>

\* makeSortedFile of one side returned a sorted file.
Sort(w) ==
  /\ pc[w] \in {"left", "right"}
  /\ pc' = [pc EXCEPT ![w] = IF @ = "left" THEN "right" ELSE "compare"]
  /\ UNCHANGED <<parent, cancelled, nextJob, job, outcome, results, seen,
                 firstErr, returned, inputs, diff>>

\* compareSortedFiles wrote the partition's output; its inputs are removed.
Compare(w) ==
  /\ pc[w] = "compare"
  /\ pc' = [pc EXCEPT ![w] = "send"]
  /\ diff' = [diff EXCEPT ![job[w]] = "whole"]
  /\ inputs' = IF KeepTemp THEN inputs ELSE inputs \ {job[w]}
  /\ UNCHANGED <<parent, cancelled, nextJob, job, outcome, results, seen,
                 firstErr, returned>>

\* A stage returned an error, or panicked (guardedProcessPartition makes that
\* an error too).  It is a context error only if the stage saw the context
\* done.  The worker cancels the pool and goes on to send the result.
Break(w) ==
  /\ pc[w] \in Stages
  /\ \E err \in {"context", "concrete"} :
       /\ err = "context" => CtxDone
       /\ outcome' = [outcome EXCEPT ![w] = err]
  /\ cancelled' = TRUE
  /\ pc' = [pc EXCEPT ![w] = "send"]
  /\ diff' = IF pc[w] = "compare" THEN [diff EXCEPT ![job[w]] = "partial"] ELSE diff
  /\ UNCHANGED <<parent, nextJob, job, results, seen, firstErr, returned, inputs>>

\* results <- ...: the channel has room for every index.
Send(w) ==
  /\ pc[w] = "send"
  /\ Cardinality(results) < Partitions
  /\ results' = results \cup {[index |-> job[w], err |-> outcome[w]]}
  /\ pc' = [pc EXCEPT ![w] = "receive"]
  /\ UNCHANGED <<parent, cancelled, nextJob, job, outcome, seen, firstErr,
                 returned, inputs, diff>>

\* Faulty: the collector stops reading at the first error.
CollectUntilError ==
  /\ returned = "running"
  /\ firstErr = "none"
  /\ \E r \in results :
       /\ results' = results \ {r}
       /\ seen' = seen \cup {r.index}
       /\ firstErr' = r.err
  /\ UNCHANGED <<parent, cancelled, nextJob, pc, job, outcome, returned, inputs, diff>>

\* for result := range results.
Collect ==
  /\ returned = "running"
  /\ \E r \in results :
       /\ results' = results \ {r}
       /\ seen' = seen \cup {r.index}
       /\ firstErr' = preferRootCause(firstErr, r.err)
  /\ UNCHANGED <<parent, cancelled, nextJob, pc, job, outcome, returned, inputs, diff>>

\* Faulty: the pool returns at the first error, its workers still running.
ReturnAtOnce ==
  /\ returned = "running"
  /\ firstErr # "none" \/ seen = Part
  /\ returned' = IF firstErr = "none" THEN "ok" ELSE firstErr
  /\ UNCHANGED <<parent, cancelled, nextJob, pc, job, outcome, results, seen,
                 firstErr, inputs, diff>>

\* The channel is closed (wg.Wait returned) and empty: the pool returns.
Return ==
  /\ returned = "running"
  /\ results = {}
  /\ \A w \in Worker : pc[w] = "exit"
  /\ returned' = IF firstErr = "none" THEN "ok" ELSE firstErr
  /\ UNCHANGED <<parent, cancelled, nextJob, pc, job, outcome, results, seen,
                 firstErr, inputs, diff>>

Work(w) ==
  \/ Receive(w)
  \/ Exit(w)
  \/ Sort(w)
  \/ Compare(w)
  \/ Break(w)
  \/ Send(w)

Next == CancelParent \/ (\E w \in Worker : Work(w)) \/ Collect \/ Return

Spec == Init /\ [][Next]_vars

-------------------------------------------------------------------------------
Running(w) == pc[w] \in Stages \cup {"send"}

\* The pool returns success only when every partition was compared to the end:
\* no index was skipped because a sibling failed or the caller cancelled
\* between two jobs, and no output file is one that a worker left half written.
OkMeansEveryPart ==
  returned = "ok" => seen = Part /\ \A i \in Part : diff[i] = "whole"

\* The error the pool reports is a cancellation only when the caller did
\* cancel: a partition's own failure is never hidden behind the context errors
\* its cancel() caused in the siblings (#40).
RootCauseReported == returned = "context" => parent

\* compareAllPartitions does not return while a worker can still touch the work
\* directory, which its caller removes next.
NoWorkerLeftBehind ==
  returned # "running" => \A w \in Worker : pc[w] = "exit"

\* An index is in the hands of one worker at a time, and in no one's hands once
\* its result is on the way or read: two workers never share a partition's files.
OneOwner ==
  \A v \in Worker : Running(v) =>
    /\ \A w \in Worker \ {v} : Running(w) => job[w] # job[v]
    /\ job[v] \notin seen
    /\ \A r \in results : r.index # job[v]

\* A partition's inputs are deleted only when its output is complete.
InputsOutliveFailure ==
  \A i \in Part : i \notin inputs => diff[i] = "whole"

\* The pool implements the contract of the engine's parallel stages: a unit is
\* a partition, and it is finished when its output file is complete.
Contract == INSTANCE JobContract WITH
  Units <- Part,
  asked <- parent,
  todo <- {i \in Part : diff[i] # "whole"},
  answer <- returned

ImplementsContract == Contract!Spec
===============================================================================
