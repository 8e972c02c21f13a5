-------------------------- MODULE EditSessionProofs --------------------------
(***************************************************************************)
(* Proofs about EditSession for every number of loads, saves and writes.   *)
(***************************************************************************)
EXTENDS EditSession, TLAPS

\* Whoever goes by a stamp the file has at this moment knows what the file
\* holds, or may be excused for not knowing.
Agrees(stamp, known) ==
  /\ stamp <= disk.stamp
  /\ stamp = disk.stamp => disk.stamp \in {known} \cup excused

\* A load's stamp is not younger than the text it read.
LoadsOld ==
  \A l \in Loads :
    /\ load[l].stamp <= disk.stamp
    /\ load[l].at = "reply" =>
         load[l].stamp <= load[l].file.stamp /\ load[l].file.stamp <= disk.stamp

SavesCheck ==
  \A s \in Saves : save[s].at = "check" => Agrees(save[s].expect, save[s].known)

\* Past its check, an unforced save overwrites what it knows, or writes that
\* came later.
SavesWrite ==
  \A s \in Saves :
    save[s].at = "write" /\ ~save[s].force => disk.stamp \in {save[s].known} \cup excused

\* A save's own write and all that came since are excused.
SavesRestat ==
  \A s \in Saves :
    save[s].at = "restat" =>
      save[s].wrote <= disk.stamp /\ save[s].wrote .. disk.stamp \subseteq excused

SavesReply ==
  \A s \in Saves :
    save[s].at = "reply" =>
      /\ save[s].stamp <= disk.stamp
      /\ save[s].stamp \in excused

IInv ==
  /\ TypeOK
  /\ Agrees(buffer.stamp, buffer.known)
  /\ LoadsOld
  /\ SavesCheck
  /\ SavesWrite
  /\ SavesRestat
  /\ SavesReply

USE EditAssumption DEF Stamps

LEMMA InitInv == Init => IInv
<1> SUFFICES ASSUME Init PROVE IInv
  OBVIOUS
<1> USE DEF Init, Before, NoBuffer, NoLoad, NoSave
<1>1. TypeOK
  <2>1. disk \in Files /\ buffer \in Buffers /\ buffer.stamp <= disk.stamp
    BY DEF Files, Buffers
  <2>2. load \in [Loads -> LoadCalls] /\ save \in [Saves -> SaveCalls]
    BY DEF LoadCalls, SaveCalls, Files
  <2>3. open \in BOOLEAN /\ raced \in BOOLEAN
    BY Zenon
  <2>4. excused \subseteq Stamps
    OBVIOUS
  <2> QED BY <2>1, <2>2, <2>3, <2>4 DEF TypeOK
<1>2. Agrees(buffer.stamp, buffer.known) /\ LoadsOld
  BY DEF Agrees, LoadsOld
<1>3. SavesCheck /\ SavesWrite /\ SavesRestat /\ SavesReply
  BY DEF SavesCheck, SavesWrite, SavesRestat, SavesReply
<1> QED BY <1>1, <1>2, <1>3 DEF IInv

LEMMA LoadInv ==
  ASSUME NEW l \in Loads, IInv, EnterEditMode(l) \/ StatBeforeRead(l) \/ ReadAll(l)
  PROVE  IInv'
<1> USE DEF IInv, TypeOK, EnterEditMode, StatBeforeRead, ReadAll, history
<1>1. load' \in [Loads -> LoadCalls]
  BY DEF LoadCalls, Files
<1>2. TypeOK'
  BY <1>1
<1>3. Agrees(buffer.stamp, buffer.known)' /\ SavesCheck'
  BY DEF Agrees, SavesCheck
<1>4. LoadsOld'
  BY DEF LoadsOld, LoadCalls, Files
<1>5. SavesWrite' /\ SavesRestat' /\ SavesReply'
  BY DEF SavesWrite, SavesRestat, SavesReply
<1> QED BY <1>2, <1>3, <1>4, <1>5
\* The three steps that give the pane another buffer, or none.
LEMMA DetachInv ==
  ASSUME IInv, save' = detach, UNCHANGED <<disk, excused>>,
         buffer' \in Buffers, open' \in BOOLEAN, raced' \in BOOLEAN,
         load' \in [Loads -> LoadCalls],
         \A l \in Loads : load'[l] \in {load[l], NoLoad},
         Agrees(buffer'.stamp, buffer'.known)
  PROVE  IInv'
<1> USE DEF IInv, TypeOK
<1>1. /\ save' \in [Saves -> SaveCalls]
      /\ \A s \in Saves : save'[s] = [save[s] EXCEPT !.live = FALSE]
  <2>1. save' = [s \in Saves |-> [save[s] EXCEPT !.live = FALSE]]
    BY DEF detach
  <2>2. save \in [Saves -> SaveCalls]
    OBVIOUS
  <2>3. ASSUME NEW s \in Saves
        PROVE  [save[s] EXCEPT !.live = FALSE] \in SaveCalls
    BY <2>2 DEF SaveCalls
  <2> QED BY <2>1, <2>3
<1>2. TypeOK'
  <2>1. buffer'.stamp <= disk'.stamp
    BY DEF Agrees
  <2> QED BY <1>1, <2>1
<1>3. Agrees(buffer.stamp, buffer.known)'
  BY DEF Agrees
<1>4. LoadsOld'
  BY DEF LoadsOld, NoLoad, Before, Files, LoadCalls
<1>5. SavesCheck' /\ SavesWrite' /\ SavesRestat' /\ SavesReply'
  BY <1>1 DEF SavesCheck, SavesWrite, SavesRestat, SavesReply, Agrees, SaveCalls
<1> QED BY <1>2, <1>3, <1>4, <1>5

LEMMA ReplaceInv ==
  ASSUME IInv, Discard \/ \E l \in Loads : Loaded(l) \/ LoadFails(l)
  PROVE  IInv'
<1> USE DEF IInv, TypeOK
<1>1. CASE Discard
  <2>1. buffer' \in Buffers /\ Agrees(buffer'.stamp, buffer'.known)
    BY <1>1 DEF Discard, NoBuffer, Buffers, Agrees, Files
  <2>2. open' \in BOOLEAN /\ raced' \in BOOLEAN
    BY <1>1 DEF Discard, history
  <2> QED BY <1>1, <2>1, <2>2, DetachInv DEF Discard, history
<1>2. ASSUME NEW l \in Loads, LoadFails(l) PROVE IInv'
  <2>1. buffer' \in Buffers /\ Agrees(buffer'.stamp, buffer'.known)
    BY <1>2 DEF LoadFails, NoBuffer, Buffers, Agrees, Files
  <2>2. open' \in BOOLEAN /\ raced' \in BOOLEAN
    BY <1>2 DEF LoadFails, history
  <2>3. load' \in [Loads -> LoadCalls] /\ \A k \in Loads : load'[k] \in {load[k], NoLoad}
    BY <1>2 DEF LoadFails, NoLoad, Before, LoadCalls, Files
  <2> QED BY <1>2, <2>1, <2>2, <2>3, DetachInv DEF LoadFails, history
<1>3. ASSUME NEW l \in Loads, Loaded(l) PROVE IInv'
  <2>1. buffer' \in Buffers
    BY <1>3 DEF Loaded, Buffers, Files, LoadCalls
  <2>2. Agrees(buffer'.stamp, buffer'.known)
    <3>1. buffer'.stamp = load[l].stamp /\ buffer'.known = load[l].file.stamp
      BY <1>3, Zenon DEF Loaded
    <3>2. /\ load[l].stamp <= load[l].file.stamp
          /\ load[l].file.stamp <= disk.stamp
          /\ load[l].stamp \in Nat /\ load[l].file.stamp \in Nat /\ disk.stamp \in Nat
      BY <1>3 DEF Loaded, LoadsOld, Files, LoadCalls
    <3> HIDE DEF IInv, TypeOK
    <3> QED BY <3>1, <3>2 DEF Agrees
  <2>3. open' \in BOOLEAN /\ raced' \in BOOLEAN
    BY <1>3, Zenon DEF Loaded
  <2>4. load' \in [Loads -> LoadCalls] /\ \A k \in Loads : load'[k] \in {load[k], NoLoad}
    BY <1>3 DEF Loaded, NoLoad, Before, LoadCalls, Files
  <2> QED BY <1>3, <2>1, <2>2, <2>3, <2>4, DetachInv DEF Loaded
<1> QED BY <1>1, <1>2, <1>3

LEMMA CommitInv ==
  ASSUME IInv, Commit
  PROVE  IInv'
<1> USE DEF IInv, TypeOK, Commit, calls
<1>1. TypeOK'
  <2>1. buffer' \in Buffers /\ buffer'.stamp = buffer.stamp
    BY DEF Buffers
  <2>2. raced' \in BOOLEAN
    BY Zenon
  <2> QED BY <2>1, <2>2
<1>2. Agrees(buffer.stamp, buffer.known)'
  BY DEF Agrees, Buffers
<1>3. LoadsOld' /\ SavesCheck' /\ SavesWrite' /\ SavesRestat' /\ SavesReply'
  BY DEF LoadsOld, SavesCheck, SavesWrite, SavesRestat, SavesReply, Agrees
<1> QED BY <1>1, <1>2, <1>3

LEMMA ForeignInv ==
  ASSUME IInv, ForeignWrite
  PROVE  IInv'
<1> USE DEF IInv, TypeOK, ForeignWrite, write, calls
<1>1. disk' \in Files /\ disk'.stamp = disk.stamp + 1
  BY DEF Files
<1>2. /\ excused' \subseteq Stamps /\ excused \subseteq excused'
      /\ \A s \in Saves : save[s].at \in {"write", "restat"} => disk'.stamp \in excused'
  BY <1>1 DEF Files
<1>3. TypeOK'
  BY <1>1, <1>2 DEF Files, Buffers
<1>4. /\ Agrees(buffer.stamp, buffer.known)'
      /\ LoadsOld'
      /\ SavesCheck'
  <2>1. Agrees(buffer.stamp, buffer.known)'
    BY <1>1 DEF Agrees, Files, Buffers
  <2>2. LoadsOld'
    BY <1>1 DEF LoadsOld, Files, LoadCalls
  <2>3. SavesCheck'
    BY <1>1 DEF SavesCheck, Agrees, Files, SaveCalls
  <2> QED BY <2>1, <2>2, <2>3
<1>5. SavesWrite' /\ SavesReply'
  <2>1. \A s \in Saves : save[s].at = "write" => disk'.stamp \in excused'
    BY <1>2
  <2>2. SavesWrite'
    BY <2>1, Zenon DEF SavesWrite
  <2>3. SavesReply'
    BY <1>1, <1>2 DEF SavesReply, Files, SaveCalls
  <2> QED BY <2>2, <2>3
<1>6. SavesRestat'
  <2> SUFFICES ASSUME NEW s \in Saves, save[s].at = "restat"
               PROVE  /\ save[s].wrote <= disk'.stamp
                      /\ save[s].wrote .. disk'.stamp \subseteq excused'
    BY Zenon DEF SavesRestat
  <2>1. /\ save[s].wrote <= disk.stamp
        /\ save[s].wrote .. disk.stamp \subseteq excused
        /\ save[s].wrote \in Nat /\ disk.stamp \in Nat
    BY DEF SavesRestat, SaveCalls, Files
  <2>2. disk'.stamp \in excused'
    BY <1>2
  <2> HIDE DEF IInv, TypeOK, ForeignWrite
  <2> QED BY <1>1, <1>2, <2>1, <2>2
<1> QED BY <1>3, <1>4, <1>5, <1>6
\* What IInv says of one save.
Sound(c) ==
  /\ c.at = "check" => Agrees(c.expect, c.known)
  /\ c.at = "write" /\ ~c.force => disk.stamp \in {c.known} \cup excused
  /\ c.at = "restat" => c.wrote <= disk.stamp /\ c.wrote .. disk.stamp \subseteq excused
  /\ c.at = "reply" => c.stamp <= disk.stamp /\ c.stamp \in excused

LEMMA SoundSaves ==
  (\A s \in Saves : Sound(save[s])) <=> SavesCheck /\ SavesWrite /\ SavesRestat /\ SavesReply
BY Zenon DEF Sound, SavesCheck, SavesWrite, SavesRestat, SavesReply

\* A step of one save that leaves the file alone.
LEMMA OneSaveInv ==
  ASSUME IInv, NEW s \in Saves, NEW c \in SaveCalls, Sound(c),
         save' = [save EXCEPT ![s] = c], UNCHANGED <<disk, open, load, excused>>,
         buffer' \in Buffers, Agrees(buffer'.stamp, buffer'.known), raced' \in BOOLEAN
  PROVE  IInv'
<1>1. save' \in [Saves -> SaveCalls] /\ \A r \in Saves : save'[r] \in {save[r], c}
  BY DEF IInv, TypeOK
<1>2. TypeOK'
  <2>1. buffer'.stamp <= disk'.stamp
    BY DEF Agrees
  <2> QED BY <1>1, <2>1 DEF IInv, TypeOK
<1>3. Agrees(buffer.stamp, buffer.known)' /\ LoadsOld'
  BY DEF IInv, Agrees, LoadsOld
<1>4. (\A r \in Saves : Sound(save[r]))'
  <2>1. \A r \in Saves : Sound(save[r])
    BY SoundSaves DEF IInv
  <2>2. \A r \in Saves : Sound(save'[r])
    BY <1>1, <2>1, Zenon
  <2> QED BY <2>2, Zenon DEF Sound, Agrees
<1>5. (SavesCheck /\ SavesWrite /\ SavesRestat /\ SavesReply)'
  BY <1>4, Zenon DEF Sound, SavesCheck, SavesWrite, SavesRestat, SavesReply
<1> QED BY <1>2, <1>3, <1>5 DEF IInv
LEMMA SaveInv ==
  ASSUME IInv, NEW s \in Saves,
         SaveEditedPane(s) \/ CheckStamp(s) \/ StatAgain(s) \/ Accept(s)
           \/ SaveFails(s) \/ KeepTheirs(s) \/ Insist(s)
  PROVE  IInv'
<1>1. /\ save[s] \in SaveCalls /\ Sound(save[s])
      /\ buffer \in Buffers /\ Agrees(buffer.stamp, buffer.known)
      /\ open \in BOOLEAN /\ raced \in BOOLEAN
  BY SoundSaves DEF IInv, TypeOK
<1>2. NoSave \in SaveCalls /\ Sound(NoSave)
  BY DEF NoSave, SaveCalls, Sound, IInv, TypeOK
<1>3. CASE SaveFails(s) \/ KeepTheirs(s)
  BY <1>1, <1>2, <1>3, OneSaveInv DEF SaveFails, KeepTheirs, history
<1>4. ASSUME NEW force \in BOOLEAN, post(s, force), UNCHANGED <<disk, open, buffer, load, excused>>
      PROVE  IInv'
  <2> DEFINE c == [at |-> "check", text |-> buffer.lines, expect |-> buffer.stamp,
                   force |-> force, stamp |-> 1, wrote |-> 1, live |-> TRUE,
                   known |-> buffer.known]
  <2>1. c \in SaveCalls
    BY <1>1 DEF SaveCalls, Buffers
  <2>2. Sound(c)
    BY <1>1 DEF Sound
  <2>3. save' = [save EXCEPT ![s] = c] /\ raced' \in BOOLEAN
    BY <1>4, Zenon DEF post
  <2> QED BY <1>1, <1>4, <2>1, <2>2, <2>3, OneSaveInv
<1>5. CASE SaveEditedPane(s) \/ Insist(s)
  BY <1>4, <1>5 DEF SaveEditedPane, Insist
<1>6. CASE CheckStamp(s)
  <2> DEFINE written == [save[s] EXCEPT !.at = "write", !.expect = 1]
             stale == [NoSave EXCEPT !.at = "stale", !.live = save[s].live]
  <2>1. written \in SaveCalls /\ stale \in SaveCalls /\ Sound(stale)
    BY <1>1, <1>2 DEF SaveCalls, Sound, NoSave
  <2>2. save[s].force \/ save[s].expect = disk.stamp => Sound(written)
    BY <1>1, <1>6 DEF SaveCalls, Sound, CheckStamp, Agrees
  <2>3. \/ save' = [save EXCEPT ![s] = stale]
        \/ save' = [save EXCEPT ![s] = written] /\ Sound(written)
    BY <1>6, <2>2 DEF CheckStamp
  <2> HIDE DEF written, stale
  <2> QED BY <1>1, <1>6, <2>1, <2>3, OneSaveInv DEF CheckStamp, history
<1>7. CASE StatAgain(s)
  <2> DEFINE c == [save[s] EXCEPT !.at = "reply", !.stamp = disk.stamp]
  <2>1. c \in SaveCalls
    BY <1>1 DEF SaveCalls, IInv, TypeOK, Files
  <2>2. disk.stamp \in excused
    BY <1>1, <1>7 DEF Sound, StatAgain, SaveCalls, IInv, TypeOK, Files
  <2>3. Sound(c)
    BY <1>1, <2>1, <2>2 DEF Sound, SaveCalls, IInv, TypeOK, Files
  <2>4. save' = [save EXCEPT ![s] = c]
    BY <1>7 DEF StatAgain, IInv, TypeOK
  <2> QED BY <1>1, <1>7, <2>1, <2>3, <2>4, OneSaveInv DEF StatAgain, history
<1>8. CASE Accept(s)
  <2>1. save[s].stamp \in Stamps /\ save[s].wrote \in Stamps /\ save[s].stamp <= disk.stamp
        /\ save[s].stamp \in excused
    BY <1>1, <1>8 DEF Sound, Accept, SaveCalls
  <2>2. buffer' \in Buffers /\ Agrees(buffer'.stamp, buffer'.known)
    <3>1. CASE save[s].live
      <4>1. buffer' = [original |-> buffer.lines, lines |-> buffer.lines, stamp |-> save[s].stamp,
              known |-> IF save[s].stamp = save[s].wrote THEN save[s].wrote ELSE buffer.known]
        BY <1>8, <3>1 DEF Accept, accept
      <4> QED BY <1>1, <2>1, <4>1 DEF Buffers, Agrees
    <3>2. CASE ~save[s].live
      BY <1>1, <1>8, <3>2 DEF Accept, accept
    <3> QED BY <3>1, <3>2
  <2> QED BY <1>1, <1>2, <1>8, <2>2, OneSaveInv DEF Accept, history
<1> QED BY <1>3, <1>5, <1>6, <1>7, <1>8
LEMMA WriteInv ==
  ASSUME IInv, NEW s \in Saves, WriteFile(s)
  PROVE  IInv'
<1> DEFINE c == [NoSave EXCEPT !.at = "restat", !.wrote = disk'.stamp, !.live = save[s].live]
<1>1. /\ disk' \in Files /\ disk.stamp \in Nat
      /\ disk'.stamp = disk.stamp + 1
      /\ excused \subseteq Stamps /\ excused' = excused \cup {disk'.stamp}
  BY DEF WriteFile, write, Files, SaveCalls, IInv, TypeOK
<1>2. c \in SaveCalls
  <2>1. disk'.stamp \in Stamps
    BY <1>1 DEF Files
  <2>2. save[s].live \in BOOLEAN
    BY DEF SaveCalls, IInv, TypeOK
  <2>3. NoSave \in SaveCalls
    BY DEF SaveCalls, NoSave
  <2> HIDE DEF NoSave
  <2> QED BY <2>1, <2>2, <2>3 DEF SaveCalls
<1>3. save' \in [Saves -> SaveCalls] /\ \A r \in Saves : save'[r] \in {save[r], c}
  BY <1>2 DEF WriteFile, IInv, TypeOK
<1>4. UNCHANGED <<open, buffer, load, raced>>
  BY DEF WriteFile
<1>5. TypeOK'
  <2>1. buffer'.stamp <= disk'.stamp
    <3>1. buffer.stamp <= disk.stamp /\ buffer.stamp \in Nat /\ buffer' = buffer
      BY <1>4 DEF IInv, TypeOK, Buffers
    <3> QED BY <1>1, <3>1
  <2>2. excused' \subseteq Stamps
    BY <1>1 DEF Files
  <2> QED BY <1>1, <1>3, <1>4, <2>1, <2>2 DEF IInv, TypeOK
<1>6. Agrees(buffer.stamp, buffer.known)'
  BY <1>1, <1>4 DEF Agrees, IInv, TypeOK, Files, Buffers
<1>7. LoadsOld'
  BY <1>1, <1>4 DEF LoadsOld, IInv, TypeOK, Files, LoadCalls
<1>8. SavesCheck'
  <2>1. \A r \in Saves : save[r].at = "check" =>
          save[r].expect <= disk.stamp /\ save[r].expect \in Nat
    BY DEF SavesCheck, Agrees, IInv, TypeOK, SaveCalls
  <2>2. c.at = "restat"
    BY DEF NoSave
  <2> HIDE DEF c
  <2> QED BY <1>1, <1>3, <2>1, <2>2 DEF SavesCheck, Agrees
<1>9. SavesWrite'
  BY <1>1, Zenon DEF SavesWrite
<1>10. SavesRestat'
  <2> SUFFICES ASSUME NEW r \in Saves, save'[r].at = "restat"
               PROVE  /\ save'[r].wrote <= disk'.stamp
                      /\ save'[r].wrote .. disk'.stamp \subseteq excused'
    BY Zenon DEF SavesRestat
  <2>1. CASE save'[r] = save[r]
    <3>1. /\ save[r].wrote <= disk.stamp
          /\ save[r].wrote .. disk.stamp \subseteq excused
          /\ save[r].wrote \in Nat
      BY <2>1 DEF SavesRestat, SaveCalls, IInv, TypeOK
    <3> QED BY <1>1, <2>1, <3>1
  <2>2. CASE save'[r] = c
    BY <1>1, <2>2 DEF NoSave
  <2> QED BY <1>3, <2>1, <2>2
<1>11. SavesReply'
  <2>1. c.at = "restat"
    BY DEF NoSave
  <2>2. \A r \in Saves : save[r].at = "reply" =>
          save[r].stamp <= disk.stamp /\ save[r].stamp \in excused /\ save[r].stamp \in Nat
    BY DEF SavesReply, IInv, TypeOK, SaveCalls
  <2> HIDE DEF c
  <2> QED BY <1>1, <1>3, <2>1, <2>2 DEF SavesReply
<1> QED BY <1>5, <1>6, <1>7, <1>8, <1>9, <1>10, <1>11 DEF IInv

LEMMA NextInv == IInv /\ [Next]_vars => IInv'
<1> SUFFICES ASSUME IInv, [Next]_vars PROVE IInv'
  OBVIOUS
<1>1. CASE ForeignWrite
  BY <1>1, ForeignInv
<1>2. CASE Discard \/ Commit
  BY <1>2, ReplaceInv, CommitInv
<1>3. ASSUME NEW l \in Loads, Loading(l) PROVE IInv'
  BY <1>3, LoadInv, ReplaceInv DEF Loading
<1>4. ASSUME NEW s \in Saves, SavingStep(s) PROVE IInv'
  BY <1>4, SaveInv, WriteInv DEF SavingStep
<1>5. CASE UNCHANGED vars
  BY <1>5, Zenon DEF vars, calls, history, IInv, TypeOK, Agrees, LoadsOld, SavesCheck, SavesWrite,
              SavesRestat, SavesReply
<1> QED BY <1>1, <1>2, <1>3, <1>4, <1>5 DEF Next

\* IInv holds in every reachable state.
THEOREM Invariant == Spec => []IInv
BY InitInv, NextInv, PTL DEF Spec

\* The types, and that the pane never goes by a stamp the file has not had.
THEOREM TypeCorrect == Spec => []TypeOK
<1>1. IInv => TypeOK
  BY DEF IInv
<1> QED BY <1>1, Invariant, PTL

\* However many loads, saves and other programs there are and however they
\* interleave, an unforced save overwrites no work its check could have seen:
\* the stamp is taken before the text is read, and compared before the write.
THEOREM Careful == Spec => NoSilentOverwrite
<1> DEFINE A == \A s \in Saves :
       (save[s].at = "write" /\ save'[s].at = "restat" /\ ~save[s].force) =>
          disk.stamp \in {save[s].known} \cup excused
<1>1. IInv => A
  BY Zenon DEF IInv, SavesWrite
<1>2. IInv /\ [Next]_vars => [A]_vars
  BY <1>1
<1> HIDE DEF A
<1>3. Spec => [][A]_vars
  BY <1>2, Invariant, PTL DEF Spec
<1> QED BY <1>3 DEF A, NoSilentOverwrite
-------------------------------------------------------------------------------
(* What a clean buffer holds. *)

\* A save of the pane's buffer that is under way, and whether its file is written.
Under(s) == save[s].live /\ save[s].at # "idle"
Written(s) == save[s].at \in {"restat", "reply"}

\* A load that read the present file has its text.
LoadsRead ==
  \A l \in Loads :
    load[l].at = "reply" /\ load[l].file.stamp = disk.stamp => load[l].file.text = disk.text

\* As long as nothing raced with a save: the file the buffer knows has the lines it
\* calls saved; the one save under way sends the lines the buffer holds; once they
\* are written, the buffer knows an older file, and the new one has those lines.
SessionTrue ==
  open /\ ~raced =>
    /\ KnownFile => disk.text = buffer.original
    /\ \A r, s \in Saves : Under(r) /\ Under(s) => r = s
    /\ \A s \in Saves : Under(s) /\ save[s].at \in {"check", "write"} =>
         save[s].text = buffer.lines
    /\ \A s \in Saves : Under(s) /\ Written(s) =>
         /\ buffer.known < save[s].wrote /\ save[s].wrote <= disk.stamp
         /\ save[s].wrote = disk.stamp => disk.text = buffer.lines

KnownOld == buffer.known <= disk.stamp

CleanInv == KnownOld /\ LoadsRead /\ SessionTrue

LEMMA CleanInit == Init => CleanInv
BY DEF Init, Before, NoBuffer, NoLoad, NoSave, CleanInv, KnownOld, LoadsRead, SessionTrue

\* The types, as the lemmas below use them.
LEMMA Typed ==
  ASSUME IInv
  PROVE  /\ disk \in Files /\ disk.stamp \in Nat
         /\ buffer \in Buffers /\ buffer.known \in Nat
         /\ load \in [Loads -> LoadCalls] /\ save \in [Saves -> SaveCalls]
         /\ raced \in BOOLEAN
BY DEF IInv, TypeOK, Files, Buffers

\* Loads leave the file and the buffer alone until they are answered.
LEMMA CleanLoad ==
  ASSUME NEW l \in Loads, IInv, CleanInv, EnterEditMode(l) \/ StatBeforeRead(l) \/ ReadAll(l)
  PROVE  CleanInv'
<1>1. UNCHANGED <<disk, open, buffer, save, raced>>
  BY DEF EnterEditMode, StatBeforeRead, ReadAll, history
<1>2. LoadsRead'
  <2>1. \A k \in Loads : load'[k].at = "reply" => load'[k] = load[k] \/ load'[k].file = disk
    BY Typed DEF EnterEditMode, StatBeforeRead, ReadAll, LoadCalls
  <2> QED BY <1>1, <2>1 DEF LoadsRead, CleanInv
<1>3. KnownOld' /\ SessionTrue'
  BY <1>1, Zenon DEF CleanInv, KnownOld, SessionTrue, KnownFile, Under, Written
<1> QED BY <1>2, <1>3 DEF CleanInv

\* A pane that gets another buffer has no save under way.
LEMMA CleanDetach ==
  ASSUME IInv, CleanInv, save' = detach, disk' = disk,
         \A l \in Loads : load'[l] \in {load[l], NoLoad},
         buffer'.known <= disk.stamp,
         open' => (buffer'.known = disk.stamp => disk.text = buffer'.original)
  PROVE  CleanInv'
<1>1. \A s \in Saves : ~save'[s].live
  BY Typed DEF detach, SaveCalls
<1>2. SessionTrue'
  BY <1>1 DEF SessionTrue, Under, KnownFile
<1>3. LoadsRead'
  BY DEF LoadsRead, NoLoad, CleanInv
<1> QED BY <1>2, <1>3 DEF CleanInv, KnownOld

LEMMA CleanReplace ==
  ASSUME IInv, CleanInv, Discard \/ \E l \in Loads : Loaded(l) \/ LoadFails(l)
  PROVE  CleanInv'
<1>1. 1 <= disk.stamp
  BY Typed DEF Files
<1>2. CASE Discard
  BY <1>1, <1>2, CleanDetach DEF Discard, NoBuffer
<1>3. ASSUME NEW l \in Loads, LoadFails(l) PROVE CleanInv'
  <2>1. \A k \in Loads : load'[k] \in {load[k], NoLoad}
    BY <1>3, Typed DEF LoadFails
  <2> QED BY <1>1, <1>3, <2>1, CleanDetach DEF LoadFails, NoBuffer
<1>4. ASSUME NEW l \in Loads, Loaded(l) PROVE CleanInv'
  <2>1. \A k \in Loads : load'[k] \in {load[k], NoLoad}
    BY <1>4, Typed DEF Loaded
  <2>2. buffer'.known = load[l].file.stamp /\ buffer'.original = load[l].file.text
    BY <1>4, Zenon DEF Loaded
  <2>3. load[l].file.stamp <= disk.stamp
    BY <1>4 DEF Loaded, IInv, LoadsOld
  <2>4. load[l].file.stamp = disk.stamp => disk.text = load[l].file.text
    BY <1>4 DEF Loaded, CleanInv, LoadsRead
  <2>5. save' = detach /\ disk' = disk
    BY <1>4 DEF Loaded
  <2> QED BY <2>1, <2>2, <2>3, <2>4, <2>5, CleanDetach
<1> QED BY <1>2, <1>3, <1>4

\* A line committed during a save races with it.
LEMMA CleanCommit ==
  ASSUME IInv, CleanInv, Commit
  PROVE  CleanInv'
<1>1. /\ UNCHANGED <<disk, open, load, save>>
      /\ buffer'.original = buffer.original /\ buffer'.known = buffer.known
  BY Typed DEF Commit, calls, Buffers
<1>2. ~raced' => ~raced /\ \A s \in Saves : ~Under(s)
  BY Zenon DEF Commit, Saving, Under
<1>3. SessionTrue'
  <2>1. \A s \in Saves : Under(s)' <=> Under(s)
    BY <1>1 DEF Under
  <2> SUFFICES ASSUME open', ~raced' PROVE SessionTrue'
    BY DEF SessionTrue
  <2>2. \A s \in Saves : ~Under(s)'
    BY <1>2, <2>1
  <2>3. KnownFile' => disk'.text = buffer'.original
    BY <1>1, <1>2 DEF KnownFile, CleanInv, SessionTrue
  <2> QED BY <2>2, <2>3 DEF SessionTrue
<1>4. KnownOld' /\ LoadsRead'
  BY <1>1 DEF KnownOld, LoadsRead, CleanInv
<1> QED BY <1>3, <1>4 DEF CleanInv

\* Nobody knows a file that was written just now.
LEMMA CleanForeign ==
  ASSUME IInv, CleanInv, ForeignWrite
  PROVE  CleanInv'
<1>1. disk'.stamp = disk.stamp + 1 /\ disk.stamp \in Nat /\ buffer.known \in Nat
  BY Typed DEF ForeignWrite, write
<1>2. UNCHANGED <<open, buffer, load, save, raced>>
  BY DEF ForeignWrite, calls
<1>3. KnownOld' /\ ~KnownFile'
  BY <1>1, <1>2 DEF CleanInv, KnownOld, KnownFile
<1>4. LoadsRead'
  <2>1. \A l \in Loads : load[l].at = "reply" =>
          load[l].file.stamp <= disk.stamp /\ load[l].file.stamp \in Nat
    BY Typed DEF IInv, LoadsOld, LoadCalls, Files
  <2> QED BY <1>1, <1>2, <2>1 DEF LoadsRead
<1>5. SessionTrue'
  <2> SUFFICES ASSUME open, ~raced
               PROVE  SessionTrue'
    BY <1>2 DEF SessionTrue
  <2>1. \A s \in Saves : save[s].wrote \in Nat
    BY Typed DEF SaveCalls
  <2>2. \A s \in Saves : Under(s)' <=> Under(s)
    BY <1>2 DEF Under
  <2>3. \A s \in Saves : Written(s)' <=> Written(s)
    BY <1>2 DEF Written
  <2>4. \A s \in Saves : Under(s) /\ Written(s) =>
          buffer.known < save[s].wrote /\ save[s].wrote < disk'.stamp
    BY <1>1, <2>1 DEF CleanInv, SessionTrue
  <2>5. \A s \in Saves : (Under(s) /\ Written(s))' =>
          /\ buffer'.known < save'[s].wrote /\ save'[s].wrote <= disk'.stamp
          /\ save'[s].wrote # disk'.stamp
    BY <1>1, <1>2, <2>1, <2>2, <2>3, <2>4
  <2>6. /\ \A r, s \in Saves : (Under(r) /\ Under(s))' => r = s
        /\ \A s \in Saves : Under(s)' /\ save'[s].at \in {"check", "write"} =>
             save'[s].text = buffer'.lines
    BY <1>2, <2>2 DEF CleanInv, SessionTrue
  <2> QED BY <1>3, <2>5, <2>6 DEF SessionTrue
<1> QED BY <1>3, <1>4, <1>5 DEF CleanInv

\* A step of a save that leaves the file and the buffer alone: it goes on with what it
\* sends, is given up, or has to ask.
LEMMA CleanSave ==
  ASSUME IInv, CleanInv, NEW s \in Saves, NEW c \in SaveCalls,
         save' = [save EXCEPT ![s] = c], UNCHANGED <<disk, open, buffer, load, raced>>,
         c.live => save[s].live, save[s].live /\ c.at # "idle" => save[s].at # "idle",
         c.at \in {"check", "write"} =>
           save[s].at \in {"check", "write"} /\ c.text = save[s].text,
         c.at \in {"restat", "reply"} =>
           save[s].at \in {"restat", "reply"} /\ c.wrote = save[s].wrote
  PROVE  CleanInv'
<1>1. save'[s] = c /\ \A r \in Saves \ {s} : save'[r] = save[r]
  BY Typed
<1>2. KnownOld' /\ LoadsRead'
  BY DEF KnownOld, LoadsRead, CleanInv
<1>3. SessionTrue'
  <2> SUFFICES ASSUME open, ~raced PROVE SessionTrue'
    BY DEF SessionTrue
  <2>1. \A r \in Saves : Under(r)' => Under(r)
    BY <1>1 DEF Under
  <2>2. \A r \in Saves : save'[r].at \in {"check", "write"} =>
          save[r].at \in {"check", "write"} /\ save'[r].text = save[r].text
    BY <1>1
  <2>3. \A r \in Saves : Written(r)' => Written(r) /\ save'[r].wrote = save[r].wrote
    BY <1>1 DEF Written
  <2>4. KnownFile' => disk'.text = buffer'.original
    BY DEF KnownFile, CleanInv, SessionTrue
  <2>5. \A q, r \in Saves : (Under(q) /\ Under(r))' => q = r
    BY <2>1 DEF CleanInv, SessionTrue
  <2>6. \A r \in Saves : Under(r)' /\ save'[r].at \in {"check", "write"} =>
          save'[r].text = buffer'.lines
    BY <2>1, <2>2 DEF CleanInv, SessionTrue
  <2>7. \A r \in Saves : (Under(r) /\ Written(r))' =>
          /\ buffer'.known < save'[r].wrote /\ save'[r].wrote <= disk'.stamp
          /\ save'[r].wrote = disk'.stamp => disk'.text = buffer'.lines
    BY <2>1, <2>3 DEF CleanInv, SessionTrue
  <2> QED BY <2>4, <2>5, <2>6, <2>7 DEF SessionTrue
<1> QED BY <1>2, <1>3 DEF CleanInv

\* A save begins: another one under way would be a race.
LEMMA CleanPost ==
  ASSUME IInv, CleanInv, NEW s \in Saves, NEW force \in BOOLEAN, post(s, force),
         UNCHANGED <<disk, open, buffer, load>>
  PROVE  CleanInv'
<1>1. /\ save'[s].at = "check" /\ save'[s].text = buffer.lines
      /\ \A r \in Saves \ {s} : save'[r] = save[r]
  BY Typed DEF post
<1>2. ~raced' => ~raced /\ \A r \in Saves \ {s} : ~Under(r)
  BY Zenon DEF post, Under
<1>3. KnownOld' /\ LoadsRead'
  BY DEF KnownOld, LoadsRead, CleanInv
<1>4. SessionTrue'
  <2> SUFFICES ASSUME open, ~raced' PROVE SessionTrue'
    BY DEF SessionTrue
  <2>1. \A r \in Saves \ {s} : ~Under(r)'
    BY <1>1, <1>2 DEF Under
  <2>2. KnownFile' => disk'.text = buffer'.original
    BY <1>2 DEF KnownFile, CleanInv, SessionTrue
  <2> QED BY <1>1, <2>1, <2>2 DEF SessionTrue, Written
<1> QED BY <1>3, <1>4 DEF CleanInv

\* The file is written: with the lines of the buffer, if the save is the pane's.
LEMMA CleanWrite ==
  ASSUME IInv, CleanInv, NEW s \in Saves, WriteFile(s)
  PROVE  CleanInv'
<1>1. /\ disk'.stamp = disk.stamp + 1 /\ disk.stamp \in Nat /\ buffer.known \in Nat
      /\ disk'.text = save[s].text
  BY Typed DEF WriteFile, write
<1>2. UNCHANGED <<open, buffer, load, raced>>
  BY DEF WriteFile
<1>3. /\ save'[s].at = "restat" /\ save'[s].wrote = disk'.stamp
      /\ save'[s].live = save[s].live
      /\ save[s].at = "write"
      /\ \A r \in Saves \ {s} : save'[r] = save[r]
  BY Typed DEF WriteFile, NoSave
<1>4. KnownOld' /\ ~KnownFile'
  BY <1>1, <1>2 DEF CleanInv, KnownOld, KnownFile
<1>5. LoadsRead'
  <2>1. \A l \in Loads : load[l].at = "reply" =>
          load[l].file.stamp <= disk.stamp /\ load[l].file.stamp \in Nat
    BY Typed DEF IInv, LoadsOld, LoadCalls, Files
  <2> QED BY <1>1, <1>2, <2>1 DEF LoadsRead
<1>6. SessionTrue'
  <2> SUFFICES ASSUME open, ~raced PROVE SessionTrue'
    BY <1>2 DEF SessionTrue
  <2>1. \A r \in Saves : Under(r)' <=> Under(r)
    BY <1>3 DEF Under
  <2>2. \A q, r \in Saves : (Under(q) /\ Under(r))' => q = r
    BY <2>1 DEF CleanInv, SessionTrue
  <2>3. \A r \in Saves : Under(r)' /\ save'[r].at \in {"check", "write"} =>
          save'[r].text = buffer'.lines
    BY <1>2, <1>3, <2>1 DEF CleanInv, SessionTrue
  <2>4. ASSUME NEW r \in Saves, (Under(r) /\ Written(r))'
        PROVE  /\ buffer'.known < save'[r].wrote /\ save'[r].wrote <= disk'.stamp
               /\ save'[r].wrote = disk'.stamp => disk'.text = buffer'.lines
    <3>1. CASE r = s
      <4>1. save[s].text = buffer.lines
        BY <1>3, <2>1, <2>4, <3>1 DEF CleanInv, SessionTrue
      <4>2. buffer.known < disk'.stamp
        BY <1>1 DEF CleanInv, KnownOld
      <4> QED BY <1>1, <1>2, <1>3, <3>1, <4>1, <4>2
    <3>2. CASE r # s
      <4>1. Under(r) /\ Written(r) /\ save'[r].wrote = save[r].wrote
        BY <1>3, <2>1, <2>4, <3>2 DEF Written
      <4>2. buffer.known < save[r].wrote /\ save[r].wrote <= disk.stamp
        BY <4>1 DEF CleanInv, SessionTrue
      <4>3. save[r].wrote \in Nat
        BY Typed DEF SaveCalls
      <4> QED BY <1>1, <1>2, <4>1, <4>2, <4>3
    <3> QED BY <3>1, <3>2
  <2> QED BY <1>4, <2>2, <2>3, <2>4 DEF SessionTrue
<1> QED BY <1>4, <1>5, <1>6 DEF CleanInv

\* The answer comes: the buffer knows what was written, or that it does not know.
LEMMA CleanAccept ==
  ASSUME IInv, CleanInv, NEW s \in Saves, Accept(s)
  PROVE  CleanInv'
<1>1. /\ save'[s] = NoSave /\ \A r \in Saves \ {s} : save'[r] = save[r]
      /\ save[s].at = "reply" /\ save[s].wrote \in Nat /\ save[s].stamp \in Nat
  BY Typed DEF Accept, SaveCalls
<1>2. UNCHANGED <<disk, open, load, raced>>
  BY DEF Accept, history
<1>3. ~save[s].live => buffer' = buffer
  BY DEF Accept, accept
<1>4. save[s].live =>
        /\ buffer'.original = buffer.lines /\ buffer'.lines = buffer.lines
        /\ buffer'.known = IF save[s].stamp = save[s].wrote THEN save[s].wrote ELSE buffer.known
  BY DEF Accept, accept
<1>5. LoadsRead'
  BY <1>2 DEF LoadsRead, CleanInv
<1>6. KnownOld'
  <2>1. save[s].stamp <= disk.stamp
    BY <1>1 DEF IInv, SavesReply
  <2> QED BY <1>2, <1>3, <1>4, <2>1 DEF KnownOld, CleanInv
<1>7. SessionTrue'
  <2> SUFFICES ASSUME open, ~raced PROVE SessionTrue'
    BY <1>2 DEF SessionTrue
  <2>1. \A r \in Saves : Under(r)' => r # s /\ Under(r) /\ save'[r] = save[r]
    BY <1>1 DEF Under, NoSave
  <2>2. CASE ~save[s].live
    <3>1. KnownFile' => disk'.text = buffer'.original
      BY <1>2, <1>3, <2>2 DEF KnownFile, CleanInv, SessionTrue
    <3>2. \A q, r \in Saves : (Under(q) /\ Under(r))' => q = r
      BY <2>1 DEF CleanInv, SessionTrue
    <3>3. \A r \in Saves : Under(r)' =>
            /\ save'[r].at \in {"check", "write"} => save'[r].text = buffer'.lines
            /\ Written(r)' =>
                 /\ buffer'.known < save'[r].wrote /\ save'[r].wrote <= disk'.stamp
                 /\ save'[r].wrote = disk'.stamp => disk'.text = buffer'.lines
      BY <1>2, <1>3, <2>1, <2>2 DEF CleanInv, SessionTrue, Written
    <3> QED BY <3>1, <3>2, <3>3 DEF SessionTrue
  <2>3. CASE save[s].live
    <3>1. Under(s) /\ Written(s)
      BY <1>1, <2>3 DEF Under, Written
    <3>2. \A r \in Saves : ~Under(r)'
      BY <2>1, <3>1 DEF CleanInv, SessionTrue
    <3>3. /\ buffer.known < save[s].wrote /\ save[s].wrote <= disk.stamp
          /\ save[s].wrote = disk.stamp => disk.text = buffer.lines
      BY <3>1 DEF CleanInv, SessionTrue
    <3>4. buffer.known \in Nat /\ disk.stamp \in Nat
      BY Typed
    <3>5. KnownFile' => disk'.text = buffer'.original
      BY <1>1, <1>2, <1>4, <2>3, <3>3, <3>4 DEF KnownFile
    <3> QED BY <3>2, <3>5 DEF SessionTrue
  <2> QED BY <2>2, <2>3
<1> QED BY <1>5, <1>6, <1>7 DEF CleanInv

LEMMA CleanSaving ==
  ASSUME IInv, CleanInv, NEW s \in Saves, SavingStep(s)
  PROVE  CleanInv'
<1>1. save[s] \in SaveCalls /\ NoSave \in SaveCalls
  BY Typed DEF NoSave, SaveCalls
<1>2. CASE SaveFails(s) \/ KeepTheirs(s)
  BY <1>1, <1>2, CleanSave DEF SaveFails, KeepTheirs, NoSave, history
<1>3. CASE SaveEditedPane(s) \/ Insist(s)
  BY <1>3, CleanPost DEF SaveEditedPane, Insist
<1>4. CASE CheckStamp(s)
  <2> DEFINE written == [save[s] EXCEPT !.at = "write", !.expect = 1]
             stale == [NoSave EXCEPT !.at = "stale", !.live = save[s].live]
  <2>1. written \in SaveCalls /\ stale \in SaveCalls
    BY <1>1 DEF SaveCalls, NoSave
  <2>2. /\ written.at = "write" /\ written.text = save[s].text /\ written.live = save[s].live
        /\ stale.at = "stale" /\ stale.live = save[s].live
    BY <1>1 DEF SaveCalls, NoSave
  <2>3. \/ save' = [save EXCEPT ![s] = stale]
        \/ save' = [save EXCEPT ![s] = written]
    BY <1>4 DEF CheckStamp
  <2>4. save[s].at = "check" /\ UNCHANGED <<disk, open, buffer, load, raced>>
    BY <1>4 DEF CheckStamp, history
  <2> HIDE DEF written, stale
  <2> QED BY <2>1, <2>2, <2>3, <2>4, CleanSave
<1>5. CASE StatAgain(s)
  <2> DEFINE c == [save[s] EXCEPT !.at = "reply", !.stamp = disk.stamp]
  <2>1. c \in SaveCalls
    BY <1>1, Typed DEF SaveCalls, Files
  <2>2. c.at = "reply" /\ c.wrote = save[s].wrote /\ c.live = save[s].live
    BY <1>1 DEF SaveCalls
  <2>3. save' = [save EXCEPT ![s] = c] /\ save[s].at = "restat"
    BY <1>5, Typed DEF StatAgain
  <2>4. UNCHANGED <<disk, open, buffer, load, raced>>
    BY <1>5 DEF StatAgain, history
  <2> HIDE DEF c
  <2> QED BY <2>1, <2>2, <2>3, <2>4, CleanSave
<1>6. CASE WriteFile(s) \/ Accept(s)
  BY <1>6, CleanWrite, CleanAccept
<1> QED BY <1>2, <1>3, <1>4, <1>5, <1>6 DEF SavingStep

LEMMA CleanNext == IInv /\ CleanInv /\ [Next]_vars => CleanInv'
<1> SUFFICES ASSUME IInv, CleanInv, [Next]_vars PROVE CleanInv'
  OBVIOUS
<1>1. CASE ForeignWrite
  BY <1>1, CleanForeign
<1>2. CASE Discard \/ Commit
  BY <1>2, CleanReplace, CleanCommit
<1>3. ASSUME NEW l \in Loads, Loading(l) PROVE CleanInv'
  BY <1>3, CleanLoad, CleanReplace DEF Loading
<1>4. ASSUME NEW s \in Saves, SavingStep(s) PROVE CleanInv'
  BY <1>4, CleanSaving
<1>5. CASE UNCHANGED vars
  BY <1>5, Zenon DEF vars, calls, history, CleanInv, KnownOld, LoadsRead, SessionTrue, KnownFile,
              Under, Written
<1> QED BY <1>1, <1>2, <1>3, <1>4, <1>5 DEF Next

\* For any number of calls and writes: a buffer without changed lines holds what is in
\* the file it knows, unless a line was committed, or a second save begun, during a save.
THEOREM CleanIsOnDisk == Spec => []CleanMeansOnDisk
<1>1. CleanInv => CleanMeansOnDisk
  BY DEF CleanInv, SessionTrue, CleanMeansOnDisk, Dirty
<1>2. Spec => []CleanInv
  BY CleanInit, CleanNext, Invariant, PTL DEF Spec
<1> QED BY <1>1, <1>2, PTL
===============================================================================
