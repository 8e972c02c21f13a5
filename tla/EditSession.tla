----------------------------- MODULE EditSession -----------------------------
(***************************************************************************)
(* Loading a file into an edit buffer and saving it: app.js (enterEditMode,*)
(* saveEditedPane), editbuffer.js and the two handlers of server_file.go.  *)
(*                                                                         *)
(* Neither takes the exclusion lock: two loads and two saves may be under  *)
(* way, and other programs write the file at any time.  The only guard     *)
(* against overwriting their work is the stamp (size and time) the server  *)
(* takes before it reads and compares before it writes.                    *)
(*                                                                         *)
(* The model has one of the two panes.  Every write gives the file a stamp *)
(* of its own, a number: files of equal size written within the clock's    *)
(* resolution are left out.  textfile.Write is atomic (AtomicFile).        *)
(*                                                                         *)
(* Bounds: MaxStamp, one more than the writes; Loads and Saves, the calls  *)
(* at a time.                                                              *)
(***************************************************************************)
EXTENDS Naturals

CONSTANTS
  Texts,      \* contents of the file
  Original,   \* the one it has before anyone writes
  Loads,      \* the calls of enterEditMode
  Saves,      \* the calls of saveEditedPane
  MaxStamp

ASSUME EditAssumption == Original \in Texts /\ MaxStamp \in Nat \ {0}

VARIABLES
  disk,       \* the file: its text and its stamp
  open,       \* editSession # null
  buffer,     \* the pane's buffer
  load,       \* load[l]: a call of enterEditMode
  save,       \* save[s]: a call of saveEditedPane
  excused,    \* history: the stamps of this page's writes, and of those by others
              \* that came while a save was past its check
  raced       \* history: a line was committed, or a save begun, during a save

calls == <<load, save>>
history == <<excused, raced>>
vars == <<disk, open, buffer, calls, history>>

Stamps == 1 .. MaxStamp
Files == [text : Texts, stamp : Stamps]

\* What a buffer was loaded or saved as, what it holds, the stamp it goes by,
\* and (for the properties) the stamp of the file it is known to agree with: the
\* one that was really read, or that a save of this buffer wrote.
Buffers == [original : Texts, lines : Texts, stamp : Stamps, known : Stamps]

\* A load: the stamp in its reply, and the file it read.
LoadCalls == [at : {"idle", "stat", "read", "reply"}, stamp : Stamps, file : Files]

\* A save: what is sent (text, expect, force), the stamp in the reply, the one
\* of what it wrote, whether its buffer is still the pane's, and what that buffer
\* knows.
SaveCalls ==
  [at : {"idle", "check", "write", "restat", "reply", "stale"},
   text : Texts, expect : Stamps, force : BOOLEAN, stamp : Stamps,
   wrote : Stamps, live : BOOLEAN, known : Stamps]

Before == [text |-> Original, stamp |-> 1]
NoBuffer == [original |-> Original, lines |-> Original, stamp |-> 1, known |-> 1]
NoLoad == [at |-> "idle", stamp |-> 1, file |-> Before]
NoSave == [at |-> "idle", text |-> Original, expect |-> 1, force |-> FALSE,
           stamp |-> 1, wrote |-> 1, live |-> FALSE, known |-> 1]

\* The variables' types; nobody goes by a stamp the file never had.
TypeOK ==
  /\ disk \in Files
  /\ open \in BOOLEAN
  /\ buffer \in Buffers
  /\ load \in [Loads -> LoadCalls]
  /\ save \in [Saves -> SaveCalls]
  /\ excused \subseteq Stamps
  /\ raced \in BOOLEAN
  /\ buffer.stamp <= disk.stamp

Init ==
  /\ disk = Before
  /\ open = FALSE
  /\ buffer = NoBuffer
  /\ load = [l \in Loads |-> NoLoad]
  /\ save = [s \in Saves |-> NoSave]
  /\ excused = {}
  /\ raced = FALSE

Dirty == buffer.lines # buffer.original
Saving == \E s \in Saves : save[s].at # "idle" /\ save[s].live

\* The file gets a text, and a stamp it never had.
write(text) ==
  /\ disk.stamp < MaxStamp
  /\ disk' = [text |-> text, stamp |-> disk.stamp + 1]

\* The pane has another buffer, or none: what the saves under way still learn
\* goes to one that nobody looks at.
detach == [s \in Saves |-> [save[s] EXCEPT !.live = FALSE]]

-------------------------------------------------------------------------------
\* Another program writes the file; a save between its check and its second
\* look at the stamp cannot notice.
ForeignWrite ==
  /\ \E text \in Texts : write(text)
  /\ excused' = IF \E s \in Saves : save[s].at \in {"write", "restat"}
                THEN excused \cup {disk'.stamp} ELSE excused
  /\ UNCHANGED <<open, buffer, calls, raced>>

\* toggleEditMode without a session; also while another call is loading.
EnterEditMode(l) ==
  /\ ~open
  /\ load[l].at = "idle"
  /\ load' = [load EXCEPT ![l].at = "stat"]
  /\ UNCHANGED <<disk, open, buffer, save, history>>

\* handleFileRead: os.Stat, then textfile.ReadAll.
StatBeforeRead(l) ==
  /\ load[l].at = "stat"
  /\ load' = [load EXCEPT ![l].at = "read", ![l].stamp = disk.stamp]
  /\ UNCHANGED <<disk, open, buffer, save, history>>

ReadAll(l) ==
  /\ load[l].at = "read"
  /\ load' = [load EXCEPT ![l].at = "reply", ![l].file = disk]
  /\ UNCHANGED <<disk, open, buffer, save, history>>

\* Faulty: the stamp is one taken when the text has arrived.
LoadedStampedLate(l) ==
  /\ load[l].at = "reply"
  /\ open' = TRUE
  /\ buffer' = [original |-> load[l].file.text, lines |-> load[l].file.text,
                stamp |-> disk.stamp, known |-> load[l].file.stamp]
  /\ save' = detach
  /\ raced' = FALSE
  /\ load' = [load EXCEPT ![l] = NoLoad]
  /\ UNCHANGED <<disk, excused>>

\* The reply becomes the session, whatever session there is by now.
Loaded(l) ==
  /\ load[l].at = "reply"
  /\ open' = TRUE
  /\ buffer' = [original |-> load[l].file.text, lines |-> load[l].file.text,
                stamp |-> load[l].stamp, known |-> load[l].file.stamp]
  /\ save' = detach
  /\ raced' = FALSE
  /\ load' = [load EXCEPT ![l] = NoLoad]
  /\ UNCHANGED <<disk, excused>>

\* An error ends the session there is by now.
LoadFails(l) ==
  /\ load[l].at # "idle"
  /\ open' = FALSE
  /\ buffer' = NoBuffer
  /\ save' = detach
  /\ load' = [load EXCEPT ![l] = NoLoad]
  /\ UNCHANGED <<disk, history>>

\* leaveEditMode, guardUnsavedEdits, an external reload: the user agreed if
\* there were unsaved lines.
Discard ==
  /\ open
  /\ open' = FALSE
  /\ buffer' = NoBuffer
  /\ save' = detach
  /\ UNCHANGED <<disk, load, history>>

\* A line is committed (setLine), or reverted.
Commit ==
  /\ open
  /\ \E text \in Texts \ {buffer.lines} :
       buffer' = [buffer EXCEPT !.lines = text]
  /\ raced' = (raced \/ Saving)
  /\ UNCHANGED <<disk, open, calls, excused>>

\* saveEditedPane up to the request: nothing happens without changed lines.
post(s, force) ==
  /\ open /\ Dirty
  /\ save' = [save EXCEPT ![s] =
       [at |-> "check", text |-> buffer.lines, expect |-> buffer.stamp, force |-> force,
        stamp |-> 1, wrote |-> 1, live |-> TRUE, known |-> buffer.known]]
  /\ raced' = (raced \/ \E r \in Saves \ {s} : save[r].at # "idle" /\ save[r].live)

SaveEditedPane(s) ==
  /\ save[s].at = "idle"
  /\ post(s, FALSE)
  /\ UNCHANGED <<disk, open, buffer, load, excused>>

\* handleFileSave: os.Stat and the comparison with expect.
CheckStamp(s) ==
  /\ save[s].at = "check"
  /\ save' = [save EXCEPT ![s] =
       IF @.force \/ @.expect = disk.stamp
       THEN [@ EXCEPT !.at = "write", !.expect = 1]
       ELSE [NoSave EXCEPT !.at = "stale", !.live = save[s].live]]
  /\ UNCHANGED <<disk, open, buffer, load, history>>

WriteFile(s) ==
  /\ save[s].at = "write"
  /\ write(save[s].text)
  /\ save' = [save EXCEPT ![s] =
       [NoSave EXCEPT !.at = "restat", !.wrote = disk'.stamp, !.live = save[s].live]]
  /\ excused' = excused \cup {disk'.stamp}
  /\ UNCHANGED <<open, buffer, load, raced>>

\* The second os.Stat: whoever wrote last, the reply has that stamp.
StatAgain(s) ==
  /\ save[s].at = "restat"
  /\ save' = [save EXCEPT ![s].at = "reply", ![s].stamp = disk.stamp]
  /\ UNCHANGED <<disk, open, buffer, load, history>>

\* The pane's buffer, if it is the one s saved, now goes by the stamp given.
accept(s, stamp) ==
  IF save[s].live
  THEN [original |-> buffer.lines, lines |-> buffer.lines, stamp |-> stamp,
        known |-> IF save[s].stamp = save[s].wrote THEN save[s].wrote ELSE buffer.known]
  ELSE buffer

\* buffer.accept: the lines the buffer holds now are the saved ones.
Accept(s) ==
  /\ save[s].at = "reply"
  /\ save' = [save EXCEPT ![s] = NoSave]
  /\ buffer' = accept(s, save[s].stamp)
  /\ UNCHANGED <<disk, open, load, history>>

\* Faulty: an answer that is an error is accepted like any other.
SaveFailsAccepted(s) ==
  /\ save[s].at \in {"check", "write", "restat"}
  /\ save' = [save EXCEPT ![s] = NoSave]
  /\ buffer' = IF save[s].live THEN [buffer EXCEPT !.original = buffer.lines] ELSE buffer
  /\ UNCHANGED <<disk, open, load, history>>

\* The request, the write or the second os.Stat fails: in the last case the file
\* was written, and the buffer does not know.
SaveFails(s) ==
  /\ save[s].at \in {"check", "write", "restat"}
  /\ save' = [save EXCEPT ![s] = NoSave]
  /\ UNCHANGED <<disk, open, buffer, load, history>>

\* The stale write was refused and the user does not insist.
KeepTheirs(s) ==
  /\ save[s].at = "stale"
  /\ save' = [save EXCEPT ![s] = NoSave]
  /\ UNCHANGED <<disk, open, buffer, load, history>>

\* The user insists: the pane's buffer of that moment is sent with force.
Insist(s) ==
  /\ save[s].at = "stale"
  /\ post(s, TRUE)
  /\ UNCHANGED <<disk, open, buffer, load, excused>>

Loading(l) ==
  \/ EnterEditMode(l)
  \/ StatBeforeRead(l)
  \/ ReadAll(l)
  \/ Loaded(l)
  \/ LoadFails(l)

SavingStep(s) ==
  \/ SaveEditedPane(s)
  \/ CheckStamp(s)
  \/ WriteFile(s)
  \/ StatAgain(s)
  \/ Accept(s)
  \/ SaveFails(s)
  \/ KeepTheirs(s)
  \/ Insist(s)

Next ==
  \/ ForeignWrite
  \/ Discard
  \/ Commit
  \/ \E l \in Loads : Loading(l)
  \/ \E s \in Saves : SavingStep(s)

Spec == Init /\ [][Next]_vars

-------------------------------------------------------------------------------
\* A save nobody insisted on overwrites only what its buffer was loaded from,
\* what another save of this page wrote, or a write that came too late for its
\* check: it never discards another program's work that the check could see.
NoSilentOverwrite ==
  [][\A s \in Saves :
       (save[s].at = "write" /\ save'[s].at = "restat" /\ ~save[s].force) =>
          disk.stamp \in {save[s].known} \cup excused]_vars

\* The file is what the buffer was loaded from, or was told it was saved as.
KnownFile == disk.stamp = buffer.known

\* A buffer without changed lines holds what is in a file it knows, as long as
\* nothing was committed while a save was under way and one save was under way
\* at a time.
CleanMeansOnDisk ==
  (open /\ ~Dirty /\ KnownFile /\ ~raced) => disk.text = buffer.lines

\* "accept() takes what the server confirmed it wrote, so a saved buffer is
\* clean" (editbuffer.js:54-55): a clean buffer is one whose lines were written.
CleanMeansSaved ==
  (open /\ ~Dirty /\ KnownFile) => disk.text = buffer.lines
===============================================================================
