----------------------------- MODULE JobContract -----------------------------
(***************************************************************************)
(* What the engine's parallel stages promise their caller, whatever the    *)
(* number of workers and however they interleave: the stage works on a set *)
(* of units, a finished unit stays finished, and the stage returns once.   *)
(* It returns success only with every unit finished, it never touches a    *)
(* unit after it returned, and it reports a cancellation only to a caller  *)
(* that cancelled.                                                         *)
(*                                                                         *)
(* compareAllPartitions (run.go) implements it with a unit per hash        *)
(* partition, partitionSimpleParallel (partition.go) with a unit per row   *)
(* of the file; see PartitionPool and RangeSplit.                          *)
(***************************************************************************)
CONSTANT Units    \* the units there may be

VARIABLES
  asked,      \* TRUE once the caller asked to cancel
  todo,       \* the units whose output is not complete
  answer      \* what the stage returned, or "running"

vars == <<asked, todo, answer>>

Init ==
  /\ asked = FALSE
  /\ todo \in SUBSET Units
  /\ answer = "running"

\* The caller cancels; the stage may still finish.
Cancel ==
  /\ answer = "running"
  /\ asked' = TRUE
  /\ UNCHANGED <<todo, answer>>

Finish(u) ==
  /\ answer = "running"
  /\ todo' = todo \ {u}
  /\ UNCHANGED <<asked, answer>>

Succeed ==
  /\ answer = "running"
  /\ todo = {}
  /\ answer' = "ok"
  /\ UNCHANGED <<asked, todo>>

Fail ==
  /\ answer = "running"
  /\ answer' \in {"context", "concrete"}
  /\ answer' = "context" => asked
  /\ UNCHANGED <<asked, todo>>

Next == Cancel \/ (\E u \in Units : Finish(u)) \/ Succeed \/ Fail

Spec == Init /\ [][Next]_vars
===============================================================================
