---------------------------- MODULE MCEditSession ----------------------------
(***************************************************************************)
(* What is saved, in one instance for TLC: a pane that is edited, and the  *)
(* texts that requests compare and merge.  They share no state; part says  *)
(* whose behaviour it is.  The calls of a kind are interchangeable.        *)
(***************************************************************************)
EXTENDS EditSession, TLC, SequencesExt

VARIABLES part, request, stage, found, res, events, saved

--------------------------------------------------------------------------------
(* The texts: every pair, or three, of a few lines, with the options that  *)
(* tell these lines apart.                                                 *)

Written(word, upper, gap, tag) ==
  [word |-> word, upper |-> upper, gap |-> gap, tag |-> tag, eol |-> "lf"]
One == Written("a", FALSE, 1, FALSE)
Two == Written("b", FALSE, 1, FALSE)

Exactly ==
  [window |-> 3, maxHunks |-> 9, ignoreCase |-> FALSE, whitespace |-> 0,
   alignWhitespace |-> 0, lineFilter |-> FALSE, markDowngraded |-> FALSE,
   ignoreEOL |-> FALSE, ignoreTrailingEOL |-> FALSE, syncPoints |-> <<>>]

Ask(kinds, olds, news, options, minLines) ==
  [kind : kinds, old : olds, new : news, right : {<<>>}, o : options, minLines : minLines]

\* Blocks that move, in windows they fit in or not, with every hunk or the first.
Moves ==
  Ask({"compare"}, BoundedSeq({One, Two}, 4), BoundedSeq({One, Two}, 4),
      {[Exactly EXCEPT !.window = w, !.maxHunks = m] : w \in {1, 3}, m \in {1, 9}}, {1, 2})

\* A line that differs from another in its case, its gap or what a filter removes.
Variants ==
  {One, Two, Written("a", TRUE, 1, FALSE), Written("a", FALSE, 0, FALSE),
   Written("a", FALSE, 2, FALSE), Written("a", FALSE, 1, TRUE)}
Views ==
  {[Exactly EXCEPT !.ignoreCase = c, !.whitespace = w, !.alignWhitespace = a,
                   !.lineFilter = f] : c, f \in BOOLEAN, w, a \in 0 .. 2}
Ignoring ==
  Ask({"compare"}, BoundedSeq({One, Two}, 2), BoundedSeq(Variants, 2), Views, {0})
  \cup Ask({"compare"}, [1 .. 3 -> {One}], [1 .. 3 -> Variants \ {Two}],
           {o \in Views : o.alignWhitespace > 0}, {0})

\* Texts whose last line ends with another terminator than the rest, or with none.
Endings ==
  {<<>>} \cup UNION {{[lines EXCEPT ![Len(lines)].eol = e] : e \in {"lf", "crlf", ""}} :
                       lines \in BoundedSeq({One, Two}, 2) \ {<<>>}}
Ended ==
  Ask({"compare", "merge"}, Endings, Endings,
      {[Exactly EXCEPT !.ignoreEOL = e, !.ignoreTrailingEOL = t] : e, t \in BOOLEAN}, {1})

Merged ==
  Ask({"merge"}, BoundedSeq({One, Two}, 3), BoundedSeq({One, Two}, 3),
      {[Exactly EXCEPT !.window = w] : w \in {1, 3}}, {0})

\* Sync points, those that are refused among them.
Point(old, new) == [old |-> old, new |-> new]
Synced ==
  Ask({"compare"}, BoundedSeq({One, Two}, 3), BoundedSeq({One, Two}, 3),
      {[Exactly EXCEPT !.syncPoints = p, !.maxHunks = m] : m \in {1, 9},
         p \in {<<Point(a, b)>> : a, b \in {0, 2}}
                 \cup {<<Point(0, b), Point(1, c)>> : b, c \in {0, 2}}}, {1})

\* Two texts that one became; which of them is the longer one does not matter, by
\* MergesFit.
Three ==
  [kind : {"threeway"}, old : BoundedSeq({One, Two}, 2), new : BoundedSeq({One, Two}, 3),
   right : BoundedSeq({One, Two}, 2), o : {[Exactly EXCEPT !.window = w] : w \in {1, 3}},
   minLines : {0}]
  \cup
  [kind : {"threeway"}, old : BoundedSeq(Variants, 1), new : BoundedSeq(Variants, 2),
   right : BoundedSeq({One, Two, Written("a", FALSE, 2, FALSE)}, 2),
   o : {[Exactly EXCEPT !.whitespace = w, !.alignWhitespace = 2] : w \in {0, 1}},
   minLines : {0}]

Server == INSTANCE TextRequests WITH
  Requests <- UNION {Moves, Ignoring, Ended, Merged, Synced, Three}

serverVars == <<request, stage, found, res, events, saved>>

--------------------------------------------------------------------------------
BothInit ==
  /\ part \in {"edit", "server"}
  /\ Init
  /\ IF part = "server"
     THEN Server!Init
     ELSE /\ request = [kind |-> "none"] /\ stage = "read"
          /\ found = Server!NoHunks /\ res = found
          /\ events = <<>> /\ saved = Server!NothingSaved

EditStep == part = "edit" /\ Next /\ UNCHANGED <<part, serverVars>>
ServerStep == part = "server" /\ Server!Next /\ UNCHANGED <<part, vars>>

BothNext == EditStep \/ ServerStep

BothSpec == BothInit /\ [][BothNext]_<<part, vars, serverVars>>

Calls == Permutations(Loads) \cup Permutations(Saves)

--------------------------------------------------------------------------------
\* The hunks that are answered lead from one text to the other, and dismissed
\* differences leave the others alone (linediff.go:179-290, sync.go:57-102).
HunksRebuild == part = "server" => Server!HunksRebuild

\* The counters are those of the whole difference, and of what moves and ignored
\* hunks leave of it (move.go:43-111, sync.go:104-169).
CountsFit == part = "server" => Server!CountsFit

\* Three-way events rebuild both sides and do not depend on their order
\* (threeway/text.go:57-200); a merge with one side for every hunk is that side, and
\* conflict markers say what either would have been (merge/text.go:90-210).
MergesFit ==
  part = "server" => Server!EventsFit /\ Server!ThreeMergeFits /\ Server!MergeIsASide

\* Under exact comparison a merge that takes the new side of every hunk is the new text,
\* whatever the terminators of its last lines (text_test.go:25-38).
AllRightIsNew ==
  part = "server" /\ Server!Exact(request.o) /\ ~request.o.ignoreTrailingEOL
    => Server!AllRightIsNew
===============================================================================
