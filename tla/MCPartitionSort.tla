---------------------------- MODULE MCPartitionSort ----------------------------
(***************************************************************************)
(* What happens to the rows of a table before they are compared, in one    *)
(* instance for TLC: they are routed to partitions by several readers, and *)
(* a partition is sorted in runs.  The two share no state, since a         *)
(* partition is sorted when both inputs have been routed; a behaviour is   *)
(* that of one of them, and part says of which.                            *)
(***************************************************************************)
EXTENDS RangeSplit, ExternalSort

VARIABLE part

bothVars == <<part, vars, sortVars>>

\* What the other part begins with is the same in every behaviour of one.
BothInit ==
  /\ part \in {"split", "sort"}
  /\ Init
  /\ SortInit
  /\ part = "split" => input = <<>>
  /\ part = "sort" => bytes = [b \in Byte |-> "text"] /\ start = 0

SplitStep == part = "split" /\ Next /\ UNCHANGED <<part, sortVars>>
SortStep == part = "sort" /\ SortNext /\ UNCHANGED <<part, vars>>

BothNext == SplitStep \/ SortStep

\* Somebody goes on: one of the goroutines that can run, or the sort.
SplitWorks == SplitStep /\ ((\E w \in Worker : Work(w) \/ Collect(w)) \/ Return)
BothFairness == WF_bothVars(SplitWorks) /\ WF_bothVars(SortStep /\ SortWork)

BothSpec == BothInit /\ [][BothNext]_bothVars /\ BothFairness

--------------------------------------------------------------------------------
\* Between a file and the comparison no row is lost or invented: partitioning counts
\* the rows of the file, and a sort that succeeds gives the records of its partition,
\* in order, through any number of passes (partition.go:250-390, sort.go:20-81).
NothingLost == RowsCounted /\ SortKeepsRecords

\* Whatever fails or is cancelled, both stages end.
StagesEnd == <>(returned # "running" \/ result # "running")
===============================================================================
