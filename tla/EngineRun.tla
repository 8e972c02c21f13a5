------------------------------ MODULE EngineRun ------------------------------
(***************************************************************************)
(* internal/engine/run.go, Run: one comparison of two tables, from its     *)
(* configuration to its output, around the worker pool of PartitionPool.   *)
(*                                                                         *)
(* Run makes a work root, or takes a directory of the user's if that is    *)
(* empty, routes both inputs to partitions in it, has the pool compare     *)
(* them, and puts the pool's files together to one output.  A deferred     *)
(* function takes the work root away, whatever happened.  Workers make     *)
(* their directories with MkdirAll, so one that came too late would bring  *)
(* a removed root back.                                                    *)
(*                                                                         *)
(* The output is written through atomicfile.Write (AtomicFile, here with   *)
(* one writer and no power loss): staged, then renamed over what is there; *)
(* where Windows refuses that, the old output is removed first and the     *)
(* second rename may fail too.  A failed call takes the staged file away.  *)
(* RangeSplit is what the two partitioning phases do.  What removing a     *)
(* directory says is ignored by the code; here it succeeds.                *)
(***************************************************************************)
EXTENDS PartitionPool

CONSTANT Windows    \* runtime.GOOS = "windows", for atomicfile.Replace

ASSUME PlatformAssumption == Windows \in BOOLEAN

VARIABLES
  phase,        \* what Run is doing
  given,        \* --work-dir: "none", or a directory that is "missing", "empty" or "used"
  root,         \* the work root exists
  content,      \* what is in it
  staged,       \* the parts copied to the staged output, each with its extent
  output,       \* what the output path holds: Old, the parts installed there, or none
  late,         \* the caller cancelled after the pool had returned
  result        \* the error Run is about to return, or "ok"

runVars == <<phase, given, root, content, staged, output, late, result>>
allVars == <<vars, runVars>>

\* The three steps of atomicfile.Replace, once the staged output is complete.
Replacing == {"replace", "remove", "retry"}
Phases == {"prepare", "root", "left", "right", "pool", "assemble", "cleanup", "over"} \cup Replacing

\* partitions-left, partitions-right, sort/part-i and diff-parts/part-i; and a
\* file of the user's, in a directory that is not empty.
Inputs == {<<"partitions", side>> : side \in {"left", "right"}}
WorkFiles == Inputs \cup ({"sort", "diff"} \X Part)
Users == <<"user", 0>>

\* The output before this call; no part has this index.
Old == {<<Partitions, "whole">>}
Copies == Part \X {"none", "partial", "whole"}

RunTypes ==
  /\ phase \in Phases
  /\ given \in {"none", "missing", "empty", "used"}
  /\ root \in BOOLEAN
  /\ content \subseteq WorkFiles \cup {Users}
  /\ staged \subseteq Copies
  /\ output = Old \/ output \subseteq Copies
  /\ late \in BOOLEAN
  /\ result \in {"ok", "context", "concrete"}

\* What is in the work root before Run, and after it.
Found == IF given = "used" THEN {Users} ELSE {}
Exists == given \in {"empty", "used"}

RunInit ==
  /\ Init
  /\ phase = "prepare"
  /\ given \in {"none", "missing", "empty", "used"}
  /\ root = Exists
  /\ content = Found
  /\ staged = {}
  /\ output = Old
  /\ late = FALSE
  /\ result = "ok"

--------------------------------------------------------------------------------
Go(from, to) == phase = from /\ phase' = to

\* return summary, err
GiveUp(from, to, err) == Go(from, to) /\ result' = err

\* A call that was given the context may return its error, and any other.
Errs == {err \in {"context", "concrete"} : err = "context" => parent \/ late}

\* The caller cancels while the pool has not returned, or after it.
Cancel ==
  /\ CancelParent
  /\ phase # "over"
  /\ UNCHANGED runVars

CancelLate ==
  /\ returned # "running"
  /\ phase # "over"
  /\ late' = TRUE
  /\ UNCHANGED <<vars, phase, given, root, content, staged, output, result>>

\* prepareComparisonInputs: the configuration is refused, or an input cannot be
\* inspected; nothing has been made yet.
Prepare ==
  /\ \/ Go("prepare", "root") /\ UNCHANGED result
     \/ GiveUp("prepare", "over", "concrete")
  /\ UNCHANGED <<vars, given, root, content, staged, output, late>>

\* createWorkRoot: a directory that is not empty is refused, and left alone; one
\* that is missing is made first.
CreateRoot ==
  /\ \/ given # "used" /\ Go("root", "left") /\ root' = TRUE /\ UNCHANGED result
     \/ GiveUp("root", "over", "concrete") /\ root' \in {root, given # "none"}
  /\ UNCHANGED <<vars, given, content, staged, output, late>>

\* partitionInput, of one side and of the other.
Partition(side, then) ==
  /\ \/ Go(side, then) /\ UNCHANGED result
     \/ \E err \in Errs : GiveUp(side, "cleanup", err)
  /\ content' = content \cup {<<"partitions", side>>}
  /\ UNCHANGED <<vars, given, root, staged, output, late>>

PartitionInputs == Partition("left", "right") \/ Partition("right", "pool")

\* What a step of a worker leaves in the work root: processPartition makes its
\* directories, writes the partition's output and removes its sorted files.
Left(w) ==
  LET mine == {<<"sort", job[w]>>, <<"diff", job[w]>>}
  IN  IF pc[w] \notin Stages THEN content
      ELSE IF pc[w] = "compare" /\ diff'[job[w]] = "whole" /\ ~KeepTemp
           THEN (content \cup mine) \ {<<"sort", job[w]>>}
           ELSE content \cup mine

\* compareAllPartitions: the workers and the collector, until it returns.  A
\* worker that was started does not ask whether it has.
WorkerStep(w) ==
  /\ phase = "pool" \/ returned # "running"
  /\ Work(w)
  /\ content' = Left(w)
  /\ root' = (root \/ pc[w] \in Stages)
  /\ UNCHANGED <<phase, given, staged, output, late, result>>

PoolCollects ==
  /\ phase = "pool"
  /\ Collect
  /\ UNCHANGED runVars

PoolReturns ==
  /\ phase = "pool"
  /\ Return
  /\ phase' = IF returned' = "ok" THEN "assemble" ELSE "cleanup"
  /\ result' = returned'
  /\ UNCHANGED <<given, root, content, staged, output, late>>

\* assembleOutput copies the parts in the order of their indexes, and looks at
\* the context before each; a part that is not there is an error.
CopyPart(i) ==
  /\ phase = "assemble"
  /\ ~late /\ ~parent
  /\ {c[1] : c \in staged} = 0 .. i - 1
  /\ <<"diff", i>> \in content
  /\ staged' = staged \cup {<<i, diff[i]>>}
  /\ UNCHANGED <<vars, phase, given, root, content, output, late, result>>

\* Every part was copied; Write flushes and closes the staged output.
StageOutput ==
  /\ Go("assemble", "replace")
  /\ {c[1] : c \in staged} = Part
  /\ UNCHANGED <<vars, given, root, content, staged, output, late, result>>

\* os.Rename, at the first or the second try.
Install ==
  /\ Go("replace", "cleanup") \/ Go("retry", "cleanup")
  /\ output' = staged
  /\ staged' = {}
  /\ UNCHANGED <<vars, given, root, content, late, result>>

\* Windows: the first rename was refused, so the old output is removed.
RenameRefused ==
  /\ Windows
  /\ Go("replace", "remove")
  /\ UNCHANGED <<vars, given, root, content, staged, output, late, result>>

RemoveOutput ==
  /\ Go("remove", "retry")
  /\ output' = {}
  /\ UNCHANGED <<vars, given, root, content, staged, late, result>>

\* A part cannot be read or the staged file not be written, or the context is
\* done; or Replace fails, at the rename that is its last or at the removal.
\* The staged file goes, and the output stays as it is then.
AssemblyFails ==
  /\ \/ \E err \in Errs : GiveUp("assemble", "cleanup", err)
     \/ \E at \in Replacing :
          (at = "replace" => ~Windows) /\ GiveUp(at, "cleanup", "concrete")
  /\ staged' = {}
  /\ UNCHANGED <<vars, given, root, content, output, late>>

\* cleanupWorkRoot: a root of our own is removed, of the user's what is in it.
Cleanup ==
  /\ Go("cleanup", "over")
  /\ IF KeepTemp
     THEN UNCHANGED <<root, content>>
     ELSE root' = (given # "none") /\ content' = {}
  /\ UNCHANGED <<vars, given, staged, output, late, result>>

RunStep ==
  \/ Prepare
  \/ CreateRoot
  \/ PartitionInputs
  \/ PoolCollects
  \/ PoolReturns
  \/ \E i \in Part : CopyPart(i)
  \/ StageOutput
  \/ Install
  \/ RenameRefused
  \/ RemoveOutput
  \/ AssemblyFails
  \/ Cleanup

RunNext ==
  \/ Cancel
  \/ CancelLate
  \/ \E w \in Worker : WorkerStep(w)
  \/ RunStep

RunSpec == RunInit /\ [][RunNext]_allVars

\* A goroutine that can run does run, and so does Run: what it calls ends, one
\* way or the other.
FairRun ==
  /\ RunSpec
  /\ \A w \in Worker : WF_allVars(WorkerStep(w))
  /\ WF_allVars(RunStep)

--------------------------------------------------------------------------------
\* The output changes only as a whole, to every partition's complete file.  There is
\* none only where Windows refused to replace the old one: after its removal, until
\* the second rename, or for good if that fails and Run returns its error
\* (run.go:314-315, atomicfile.go:77-87).
OutputIsWhole ==
  \/ output = Old \/ output = Part \X {"whole"}
  \/ /\ output = {} /\ Windows
     /\ phase = "retry" \/ (phase \in {"cleanup", "over"} /\ result = "concrete")

\* Run returned: the new output is there if there was no error and only then, and
\* nothing of the run's is left but a directory that the user named, however late a
\* worker of the pool came.  That directory stays, and what the user had in it
\* (run.go:30-44, 314-443; README.md:419).
LeavesOnlyOutput ==
  /\ phase = "over" => (result = "ok" <=> output = Part \X {"whole"})
  /\ phase = "over" /\ ~KeepTemp => content = Found /\ (given = "none" => ~root)
  /\ Found \subseteq content
  /\ Exists => root

RunKeepsItsWord == OutputIsWhole /\ LeavesOnlyOutput

\* Run returns, whatever fails.
RunReturns == <>(phase = "over")
===============================================================================
