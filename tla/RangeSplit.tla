------------------------------ MODULE RangeSplit ------------------------------
(***************************************************************************)
(* internal/engine/partition.go: the rows of a plain file are read by      *)
(* several workers at once, each from a range of its bytes, and routed to  *)
(* the hash partitions.                                                    *)
(*                                                                         *)
(* The ranges cut the file where they happen to.  A worker moves its start *)
(* forward to the next line and reads whole lines as long as they begin    *)
(* before its end; the last worker reads to the end of the file.           *)
(*                                                                         *)
(* A file is its bytes, of three kinds.  A row is named by the offset of   *)
(* its first byte.  What a row says (its columns, its key, the partition   *)
(* it goes to, whether a filter drops it) is left out: that is decided row *)
(* by row, under the lock of one partition.  The file does not change.     *)
(*                                                                         *)
(* A worker's end (cancel, then one send to a channel with room for every  *)
(* worker) is one step: the order of the results is left open anyway.      *)
(***************************************************************************)
EXTENDS Integers, FiniteSets, RootCause

CONSTANTS
  Size,         \* stat.Size()
  Workers,      \* cfg.ParseWorkers
  MinChunk      \* minChunkBytes

ASSUME SplitAssumption ==
  /\ Size \in Nat \ {0}
  /\ Workers \in Nat \ {0}
  /\ MinChunk \in Nat \ {0}

VARIABLES
  bytes,        \* the file
  start,        \* info.DataOffset: where the rows begin
  parent,       \* TRUE once the caller's context is cancelled
  cancelled,    \* TRUE once a worker called cancel()
  pc,           \* pc[w]: where worker w is
  pos,          \* pos[w]: the offset w reads next
  routed,       \* routed[p]: how often the row at p was written to a partition
  rows,         \* rows[w]: emitter.rows
  outcome,      \* outcome[w]: the error in w's result
  first,        \* the error the collector has kept
  total,        \* the rows it has counted
  returned      \* what partitionInput returned, or "running"

file == <<bytes, start>>
vars == <<file, parent, cancelled, pc, pos, routed, rows, outcome, first, total, returned>>

Offset == 0 .. Size
Byte == 0 .. Size - 1
Worker == 0 .. Workers - 1

CtxDone == parent \/ cancelled

TypeOK ==
  /\ bytes \in [Byte -> {"lf", "cr", "text"}]
  /\ start \in Offset
  /\ parent \in BOOLEAN
  /\ cancelled \in BOOLEAN
  /\ pc \in [Worker -> {"align", "read", "sent", "taken"}]
  /\ pos \in [Worker -> Offset]
  /\ routed \in [Byte -> Nat]
  /\ rows \in [Worker -> Nat]
  /\ outcome \in [Worker -> Errors]
  /\ first \in Errors
  /\ total \in Nat
  /\ returned \in {"running", "ok", "context", "concrete"}

-------------------------------------------------------------------------------
\* The offsets after a line feed.
Breaks == {p \in 1 .. Size : bytes[p - 1] = "lf"}

\* readPhysicalLine from p returns the bytes up to q.
EndOfLine(p, q) ==
  /\ p < q
  /\ q = Size \/ q \in Breaks
  /\ \A r \in Breaks : p < r => q <= r

\* trimLineEnding leaves nothing of the bytes from p to q.
Blank(p, q) ==
  \/ q = p + 1 /\ bytes[p] \in {"lf", "cr"}
  \/ q = p + 2 /\ bytes[p] = "cr" /\ bytes[p + 1] = "lf"

\* The rows of the file, as a reader that goes through it alone finds them.
Rows ==
  {p \in Byte : /\ p >= start
                /\ p = start \/ p \in Breaks
                /\ \A q \in Offset : EndOfLine(p, q) => ~Blank(p, q)}

\* A small file has fewer workers than the configuration allows.
Active ==
  IF (Size - start) \div MinChunk + 1 < Workers
  THEN (Size - start) \div MinChunk + 1 ELSE Workers

\* Worker w's range is Cut(w) .. Cut(w + 1) - 1.
Cut(w) == start + ((Size - start) * w) \div Active
Last(w) == w = Active - 1

\* Faulty: the range starts after the first line feed at or after a.
AlignsPast(a, p) == IF a <= start THEN p = start ELSE EndOfLine(a, p)

\* alignSimpleRangeStart: p is the first line that begins at a or after it.
Aligns(a, p) ==
  IF a <= start THEN p = start
  ELSE IF a \in Breaks THEN p = a ELSE EndOfLine(a, p)

\* The range has more lines for w, keepReading(pos[w]).
KeepReading(w) == Last(w) \/ pos[w] < Cut(w + 1)

\* The header is the first line, if there is one; a byte order mark is not in
\* bytes.
Init ==
  /\ bytes \in [Byte -> {"lf", "cr", "text"}]
  /\ start \in {0} \cup {p \in Offset : EndOfLine(0, p)}
  /\ parent = FALSE
  /\ cancelled = FALSE
  /\ pc = [w \in Worker |-> IF start < Size /\ w < Active THEN "align" ELSE "taken"]
  /\ pos = [w \in Worker |-> 0]
  /\ routed = [p \in Byte |-> 0]
  /\ rows = [w \in Worker |-> 0]
  /\ outcome = [w \in Worker |-> "none"]
  /\ first = "none"
  /\ total = 0
  /\ returned = "running"

-------------------------------------------------------------------------------
\* The caller cancels, or its deadline passes.
CancelParent ==
  /\ returned = "running"
  /\ ~parent
  /\ parent' = TRUE
  /\ UNCHANGED <<file, cancelled, pc, pos, routed, rows, outcome, first, total, returned>>

\* partitionSimpleRange: w opens the file and finds its first line, which may
\* belong to a later range.
Align(w) ==
  /\ pc[w] = "align"
  /\ \E p \in Offset :
       /\ Aligns(Cut(w), p)
       /\ pos' = [pos EXCEPT ![w] = p]
       /\ pc' = [pc EXCEPT ![w] = IF p < Cut(w + 1) \/ Last(w) THEN "read" ELSE "sent"]
  /\ UNCHANGED <<file, parent, cancelled, routed, rows, outcome, first, total, returned>>

\* Faulty: a line that begins at the end of the range is read, too.
ReadLinePastEnd(w) ==
  /\ pc[w] = "read"
  /\ Last(w) \/ pos[w] <= Cut(w + 1)
  /\ pos[w] < Size
  /\ ~CtxDone
  /\ \E q \in Offset :
       /\ EndOfLine(pos[w], q)
       /\ pos' = [pos EXCEPT ![w] = q]
       /\ IF Blank(pos[w], q)
          THEN UNCHANGED <<routed, rows>>
          ELSE /\ routed' = [routed EXCEPT ![pos[w]] = @ + 1]
               /\ rows' = [rows EXCEPT ![w] = @ + 1]
  /\ UNCHANGED <<file, parent, cancelled, pc, outcome, first, total, returned>>

\* partitionSimpleRecords: one more line, routed by emitRow unless it is blank.
ReadLine(w) ==
  /\ pc[w] = "read"
  /\ KeepReading(w)
  /\ pos[w] < Size
  /\ ~CtxDone
  /\ \E q \in Offset :
       /\ EndOfLine(pos[w], q)
       /\ pos' = [pos EXCEPT ![w] = q]
       /\ IF Blank(pos[w], q)
          THEN UNCHANGED <<routed, rows>>
          ELSE /\ routed' = [routed EXCEPT ![pos[w]] = @ + 1]
               /\ rows' = [rows EXCEPT ![w] = @ + 1]
  /\ UNCHANGED <<file, parent, cancelled, pc, outcome, first, total, returned>>

\* The range or the file is read to its end; the context may have ended since w
\* looked at it.
Done(w) ==
  /\ pc[w] = "read"
  /\ ~KeepReading(w) \/ pos[w] = Size
  /\ pc' = [pc EXCEPT ![w] = "sent"]
  /\ UNCHANGED <<file, parent, cancelled, pos, routed, rows, outcome, first, total, returned>>

\* w stops with an error and cancels the others.
failWith(w, err) ==
  /\ pc' = [pc EXCEPT ![w] = "sent"]
  /\ outcome' = [outcome EXCEPT ![w] = err]
  /\ cancelled' = TRUE
  /\ UNCHANGED <<file, parent, pos, routed, rows, first, total, returned>>

\* w finds the context done.
Stop(w) == pc[w] = "read" /\ CtxDone /\ failWith(w, "context")

\* The file cannot be opened or read, a row has too many columns or is too long,
\* a partition cannot be written, or the worker panics.
Break(w) == pc[w] \in {"align", "read"} /\ failWith(w, "concrete")

\* Faulty: the collector stops reading at the first error.
CollectUntilError(w) ==
  /\ pc[w] = "sent"
  /\ first = "none"
  /\ pc' = [pc EXCEPT ![w] = "taken"]
  /\ first' = outcome[w]
  /\ total' = total + rows[w]
  /\ UNCHANGED <<file, parent, cancelled, pos, routed, rows, outcome, returned>>

\* x := <-ch.
Collect(w) ==
  /\ pc[w] = "sent"
  /\ pc' = [pc EXCEPT ![w] = "taken"]
  /\ first' = preferRootCause(first, outcome[w])
  /\ total' = total + rows[w]
  /\ UNCHANGED <<file, parent, cancelled, pos, routed, rows, outcome, returned>>

\* Every result was received.  partitionInput flushes and closes the partition
\* files, and reports that only if nothing else went wrong.
Return ==
  /\ returned = "running"
  /\ \A w \in Worker : pc[w] = "taken"
  /\ \E closeErr \in {"ok", "concrete"} :
       returned' = IF first # "none" THEN first
                   ELSE IF parent /\ start < Size THEN "context" ELSE closeErr
  /\ UNCHANGED <<file, parent, cancelled, pc, pos, routed, rows, outcome, first, total>>

Work(w) == Align(w) \/ ReadLine(w) \/ Done(w) \/ Stop(w) \/ Break(w)

Next ==
  \/ CancelParent
  \/ \E w \in Worker : Work(w) \/ Collect(w)
  \/ Return

Spec == Init /\ [][Next]_vars

-------------------------------------------------------------------------------
\* At no time has a row been routed by two workers or twice by one, and what was
\* routed begins where a line begins: nobody routes the rest of a line that
\* another worker's range cut.
RoutedOnce == \A p \in Byte : routed[p] <= (IF p \in Rows THEN 1 ELSE 0)

\* Partitioning returns success only when every row was routed: a row is never
\* lost between two ranges, whatever bytes the ranges cut, nor because a worker
\* stopped early.
EveryRowRouted == returned = "ok" => \A p \in Rows : routed[p] = 1

\* The count that goes into the summary is the number of rows.
RowsCounted == returned = "ok" => total = Cardinality(Rows)

\* The workers implement the contract of the engine's parallel stages: a unit is
\* a row, and a row is to do until it was routed.
Contract == INSTANCE JobContract WITH
  Units <- Byte,
  asked <- parent,
  todo <- {p \in Rows : routed[p] = 0},
  answer <- returned

ImplementsContract == Contract!Spec
===============================================================================
