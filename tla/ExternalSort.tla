----------------------------- MODULE ExternalSort -----------------------------
(***************************************************************************)
(* internal/engine/sort.go, makeSortedFile: one partition of one side is   *)
(* sorted.  It is read in chunks of what memory allows, each chunk is      *)
(* written as a sorted run, and the runs are merged in groups of FanIn,    *)
(* pass by pass, until one is left.  A group's files are removed when its  *)
(* merge is complete: from then on its records are in the new file alone.  *)
(*                                                                         *)
(* A record is a number, which orders it (by key, then by row) and is also *)
(* what it takes of a chunk.  A file name is its pass and its number in    *)
(* it; the runs are pass 0.  A heap is its sources' next records.          *)
(***************************************************************************)
EXTENDS Naturals, Sequences, FiniteSets, FiniteSetsExt, Functions

CONSTANTS
  Records,      \* what a partition may hold
  MaxRecords,   \* how many of them; bounds the instance
  Chunk,        \* chunkBytes
  FanIn         \* cfg.MergeFanIn

SortAssumption ==
  /\ Records \subseteq Nat \ {0}
  /\ MaxRecords \in Nat
  /\ Chunk \in Nat \ {0}
  /\ FanIn \in Nat \ {0, 1}

ASSUME SortConstants == SortAssumption

VARIABLES
  input,        \* the partition's records, in the order of the file
  cancel,       \* the context is done
  files,        \* the work directory: what each file holds
  taken,        \* how many records were read
  runs,         \* the files still to merge in this pass, groups before from included
  next,         \* the files this pass has made
  from,        \* where the next group begins
  pass,
  head,         \* head[k]: the record of the group's file k that is in the heap
  stage,        \* what is done next
  result        \* "running", or what makeSortedFile returned

sortVars == <<input, cancel, files, taken, runs, next, from, pass, head, stage, result>>

Names == Nat \X Nat

SortTypeOK ==
  /\ input \in Seq(Records)
  /\ cancel \in BOOLEAN
  /\ DOMAIN files \subseteq Names
  /\ \A n \in DOMAIN files : files[n] \in Seq(Records)
  /\ taken \in 0 .. Len(input)
  /\ runs \in Seq(Names)
  /\ next \in Seq(Names)
  /\ from \in Nat
  /\ pass \in Nat
  /\ head \in [1 .. FanIn -> Nat]
  /\ stage \in {"spill", "group", "merge", "over"}
  /\ result \in {"running", "ok", "context", "concrete"}

NoHeads == [k \in 1 .. FanIn |-> 0]

SortInit ==
  /\ input \in UNION {[1 .. n -> Records] : n \in 0 .. MaxRecords}
  /\ cancel = FALSE
  /\ files = <<>>
  /\ taken = 0
  /\ runs = <<>>
  /\ next = <<>>
  /\ from = 0
  /\ pass = 1
  /\ head = NoHeads
  /\ stage = "spill"
  /\ result = "running"

--------------------------------------------------------------------------------
\* The group at from: FanIn files, or what is left of the pass.
Group == SubSeq(runs, from + 1, IF from + FanIn < Len(runs) THEN from + FanIn ELSE Len(runs))

\* The file the group is merged to.
Merged == <<pass, Len(next)>>

\* The directory when n has been written, and without some of its files.
Stored(n, s) == [m \in DOMAIN files \cup {n} |-> IF m = n THEN s ELSE files[m]]
Removed(names) == Restrict(files, DOMAIN files \ names)

\* return "", false, err.  The files that are complete are left to the caller.
Fail(err) ==
  /\ result = "running"
  /\ result' = err
  /\ stage' = "over"
  /\ files' = IF stage = "merge" THEN Removed({Merged}) ELSE files
  /\ UNCHANGED <<input, cancel, taken, runs, next, from, pass, head>>

\* A file cannot be read, made, written or removed.
SortBreaks == Fail("concrete") /\ (stage = "group" => Len(runs) > 1)

\* The context is looked at before a chunk, before a pass and now and then within
\* a merge.
SortStops ==
  /\ cancel
  /\ Fail("context")
  /\ input # <<>>
  /\ stage = "group" => from = 0 /\ Len(runs) > 1

Cancel ==
  /\ result = "running"
  /\ cancel' = TRUE
  /\ UNCHANGED <<input, files, taken, runs, next, from, pass, head, stage, result>>

\* The partition is empty: so is its sorted file.
SortEmpty ==
  /\ stage = "spill" /\ input = <<>>
  /\ files' = Stored(<<0, 0>>, <<>>)
  /\ runs' = <<<<0, 0>>>>
  /\ stage' = "over"
  /\ result' = "ok"
  /\ UNCHANGED <<input, cancel, taken, next, from, pass, head>>

Used(a, b) == SumFunctionOnSet(input, a + 1 .. b)

\* A chunk is full with the record that reaches its size, so that a record larger
\* than the chunk is a run of its own; the end of the file ends it, too.
ChunkEnds(to) ==
  /\ to > taken
  /\ Used(taken, to - 1) < Chunk
  /\ to = Len(input) \/ Used(taken, to) >= Chunk

Ordered(s) == \A k, m \in DOMAIN s : k < m => s[k] <= s[m]

\* createSortedRuns: the next chunk, sorted and written.  order[k] is the place in the
\* chunk of the record that comes k-th.
WriteRun ==
  /\ stage = "spill"
  /\ ~cancel
  /\ \E to \in 1 .. Len(input) :
       /\ ChunkEnds(to)
       /\ \E order \in Bijection(1 .. to - taken, 1 .. to - taken) :
            LET run == [k \in 1 .. to - taken |-> input[taken + order[k]]]
            IN  Ordered(run) /\ files' = Stored(<<0, Len(runs)>>, run)
       /\ taken' = to
  /\ runs' = Append(runs, <<0, Len(runs)>>)
  /\ UNCHANGED <<input, cancel, next, from, pass, head, stage, result>>

\* Every record is in a run.
Spilled ==
  /\ stage = "spill"
  /\ taken = Len(input) /\ runs # <<>>
  /\ stage' = "group"
  /\ UNCHANGED <<input, cancel, files, taken, runs, next, from, pass, head, result>>

\* Faulty: a group of one file is skipped, there is nothing to merge in it.
SkipOne ==
  /\ stage = "group" /\ Len(runs) > 1 /\ from < Len(runs)
  /\ Len(Group) = 1
  /\ from' = from + FanIn
  /\ UNCHANGED <<input, cancel, files, taken, runs, next, pass, head, stage, result>>

\* A group of one file goes to the next pass as it is.
CarryOne ==
  /\ stage = "group" /\ Len(runs) > 1 /\ from < Len(runs)
  /\ Len(Group) = 1
  /\ next' = Append(next, Group[1])
  /\ from' = from + FanIn
  /\ UNCHANGED <<input, cancel, files, taken, runs, pass, head, stage, result>>

\* mergeRunGroup: its files are opened, then the output.  The context is looked at
\* before the first group of a pass.
BeginMerge ==
  /\ stage = "group" /\ Len(runs) > 1 /\ from < Len(runs)
  /\ from = 0 => ~cancel
  /\ Len(Group) > 1
  /\ head' = [k \in 1 .. FanIn |-> IF k <= Len(Group) THEN 1 ELSE 0]
  /\ files' = Stored(Merged, <<>>)
  /\ stage' = "merge"
  /\ UNCHANGED <<input, cancel, taken, runs, next, from, pass, result>>

InHeap == {k \in DOMAIN Group : head[k] <= Len(files[Group[k]])}
First(k) == files[Group[k]][head[k]]

\* The least record is written, and its file's next one takes its place.
MergeOne(k) ==
  /\ stage = "merge"
  /\ k \in InHeap
  /\ \A other \in InHeap : First(k) <= First(other)
  /\ files' = [files EXCEPT ![Merged] = Append(@, First(k))]
  /\ head' = [head EXCEPT ![k] = @ + 1]
  /\ UNCHANGED <<input, cancel, taken, runs, next, from, pass, stage, result>>

\* The heap is empty: the output is flushed and closed, and the group removed.
EndMerge ==
  /\ stage = "merge" /\ InHeap = {}
  /\ files' = Removed({Group[k] : k \in DOMAIN Group})
  /\ next' = Append(next, Merged)
  /\ from' = from + FanIn
  /\ head' = NoHeads
  /\ stage' = "group"
  /\ UNCHANGED <<input, cancel, taken, runs, pass, result>>

EndPass ==
  /\ stage = "group" /\ Len(runs) > 1 /\ from >= Len(runs)
  /\ runs' = next
  /\ next' = <<>>
  /\ from' = 0
  /\ pass' = pass + 1
  /\ UNCHANGED <<input, cancel, files, taken, head, stage, result>>

\* return runs[0]
SortReturns ==
  /\ stage = "group" /\ Len(runs) = 1
  /\ stage' = "over"
  /\ result' = "ok"
  /\ UNCHANGED <<input, cancel, files, taken, runs, next, from, pass, head>>

SortWork ==
  \/ SortStops
  \/ SortBreaks
  \/ SortEmpty
  \/ WriteRun
  \/ Spilled
  \/ CarryOne
  \/ BeginMerge
  \/ \E k \in 1 .. FanIn : MergeOne(k)
  \/ EndMerge
  \/ EndPass
  \/ SortReturns

SortNext == Cancel \/ SortWork

SortSpec == SortInit /\ [][SortNext]_sortVars

--------------------------------------------------------------------------------
\* Where the files called names hold r.
Places(r, names) == UNION {{n} \X {k \in DOMAIN files[n] : files[n][k] = r} : n \in names}

\* The complete files whose records the result will have.
Kept == {runs[k] : k \in from + 1 .. Len(runs)} \cup {next[k] : k \in DOMAIN next}

\* Every record that was read is in one complete file, once for each time it is in
\* the partition, also while files are merged and removed.
NoneLost ==
  /\ Kept \subseteq DOMAIN files
  /\ \A r \in Records :
       Cardinality(Places(r, Kept)) = Cardinality({k \in 1 .. taken : input[k] = r})

\* A sort that succeeds gives the partition's records in order, however many passes
\* and left-over runs it took, and leaves no other file; one that has not ended has
\* lost none; and it reports a cancellation only if there was one (sort.go:20-81).
SortKeepsRecords ==
  /\ result \in {"running", "ok"} => NoneLost
  /\ result = "ok" => /\ taken = Len(input)
                      /\ DOMAIN files = {runs[1]}
                      /\ Ordered(files[runs[1]])
  /\ result = "context" => cancel
===============================================================================
