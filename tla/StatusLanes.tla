------------------------------ MODULE StatusLanes ------------------------------
(***************************************************************************)
(* The two lanes of the page's status: what a running comparison is doing, *)
(* and the messages that operations left; app.js with messages.js and      *)
(* progress.js.                                                            *)
(*                                                                         *)
(* A message that has been posted before is moved to the end and counted.  *)
(* Successes withdraw after Delay, failures wait to be dismissed, and the  *)
(* oldest success gives way when there are too many.  A comparison's       *)
(* tracker follows the stages that the server reports; what arrives after  *)
(* it was stopped only refreshes the lane.  Time is counted in ticks, and  *)
(* a timer fires in the tick in which it is due, in any order.             *)
(***************************************************************************)
EXTENDS Lists, SequencesExt, FiniteSets, FiniteSetsExt

CONSTANTS
  Texts,       \* what messages say
  Delay,       \* autoDismissMs
  MaxEntries,  \* of the lane
  Plan,        \* stagePlan: the stages of a comparison, in order
  MaxActs      \* bound: messages and dismissals

VARIABLES
  entries,    \* the lane: id, text, tone and count, and when it was last posted
  nextID,
  timers,     \* id and when it is due
  now,        \* the time, since it was last of importance
  records,    \* of the tracker: what is known of each stage
  current,    \* its current stage, or "none"
  finished,
  status,     \* the progress lane: the stages it shows
  server,     \* what the server has reported of the comparison: stages begun and ended
  lost,       \* history: texts of failures that left without being dismissed
  acts
messages == <<entries, nextID, timers, lost>>
tracker == <<records, current, finished, status, server>>
vars == <<messages, now, tracker, acts>>

Tones == {"success", "info", "warning", "error"}
selfClearing(tone) == tone \in {"success", "info"}
Without(list, ids) == Keep(list, {e \in ToSet(list) : e.id \notin ids})
Ids == {e.id : e \in ToSet(entries)}

--------------------------------------------------------------------------------
(* messages.js *)

\* Faulty: the timer of the earlier post goes on.
startTimerBeside(running, e) ==
  running \cup (IF selfClearing(e.tone) THEN {[id |-> e.id, due |-> now + Delay]} ELSE {})

\* startTimer, which stops the timer that the entry had.
startTimer(running, e) ==
  {m \in running : m.id # e.id} \cup
    (IF selfClearing(e.tone) THEN {[id |-> e.id, due |-> now + Delay]} ELSE {})

\* The cap drops the oldest self-clearing line, and a failure only without one.
overCap(list) ==
  LET clearing == Keep(list, {e \in ToSet(list) : selfClearing(e.tone)})
  IN  IF Len(list) <= MaxEntries THEN {}
      ELSE {(IF clearing # <<>> THEN clearing[1] ELSE list[1]).id}

\* post
post(text, tone) ==
  LET same == Keep(entries, {e \in ToSet(entries) : e.text = text /\ e.tone = tone})
      entry == IF same # <<>>
               THEN [Last(same) EXCEPT !.count = 2, !.at = now]
               ELSE [id |-> nextID, text |-> text, tone |-> tone, count |-> 1, at |-> now]
      list == Append(Without(entries, {entry.id}), entry)
      victims == overCap(list)
  IN  /\ entries' = Without(list, victims)
      /\ timers' = {m \in startTimer(timers, entry) : m.id \notin victims}
      /\ nextID' = IF same # <<>> THEN nextID ELSE nextID + 1
      /\ lost' = lost \cup {e.text : e \in {x \in ToSet(list) :
                               x.id \in victims /\ x.tone = "error"
                               /\ \E y \in ToSet(list) : selfClearing(y.tone)}}

\* remove, with the entry's timer.
remove(id) ==
  /\ entries' = Without(entries, {id})
  /\ timers' = {m \in timers : m.id # id}

--------------------------------------------------------------------------------
(* progress.js: each operator gives the next [records, current]. *)

Stages == ToSet(Plan)
Known == [records |-> records, current |-> current]
started == [stage |-> "none", what |-> "start"]
pending == [state |-> "pending", done |-> 0, total |-> 0]

finishCurrent(s) ==
  IF s.current = "none" THEN s
  ELSE [records |-> [s.records EXCEPT ![s.current].state = "done"], current |-> "none"]

\* begin
begin(s, key) ==
  IF finished \/ s.current = key THEN s
  ELSE [records |-> [finishCurrent(s).records EXCEPT ![key].state = "active"], current |-> key]

\* finish
finish(s, key) ==
  [records |-> [s.records EXCEPT ![key].state = "done"],
   current |-> IF s.current = key THEN "none" ELSE s.current]

\* progress
progress(s, done, total) ==
  IF s.current = "none" \/ finished THEN s
  ELSE [s EXCEPT !.records[s.current] = [@ EXCEPT !.done = done, !.total = total]]

\* snapshot and renderProgress: nothing between two stages; the stages reached, and a
\* percentage for the current one when its parts are counted.
renderProgress(s) ==
  IF s.current = "none" THEN {}
  ELSE {[stage |-> k, active |-> k = s.current,
         percent |-> IF k = s.current /\ s.records[k].total > 0
                     THEN (s.records[k].done * 100) \div s.records[k].total ELSE 0]
         : k \in {x \in Stages : s.records[x].state # "pending"}}

Tracked(s) ==
  /\ records' = s.records /\ current' = s.current
  /\ status' = renderProgress(s)

--------------------------------------------------------------------------------
Act == acts < MaxActs /\ acts' = acts + 1

\* setStatus, with what an operation came to.  It clears the progress lane.
setStatus(text, tone) ==
  /\ Act
  /\ post(text, tone)
  /\ status' = {}
  /\ UNCHANGED <<now, records, current, finished, server>>

\* dismissMessage
dismissMessage(id) ==
  /\ Act
  /\ id \in Ids
  /\ remove(id)
  /\ UNCHANGED <<nextID, lost, now, tracker>>

\* A timer fires.
Withdraw(m) ==
  /\ m \in timers /\ m.due = now
  /\ remove(m.id)
  /\ lost' = lost \cup {e.text : e \in {x \in ToSet(entries) :
                           x.id = m.id /\ (x.tone = "error" \/ now < x.at + Delay)}}
  /\ UNCHANGED <<nextID, now, tracker, acts>>

\* Time goes on when no timer is due.
Tick ==
  /\ timers # {} /\ \A m \in timers : m.due > now
  /\ now' = now + 1
  /\ UNCHANGED <<messages, tracker, acts>>

\* start, of a comparison's tracker.
Start ==
  /\ Act
  /\ finished
  /\ records' = [k \in Stages |-> pending]
  /\ current' = "none" /\ finished' = FALSE /\ status' = {} /\ server' = {started}
  /\ UNCHANGED <<messages, now>>

\* An event of the server, or of the page for "render": a stage begins (again, as a
\* heartbeat) or ends, or its parts are counted; also after the tracker was stopped.
Event(k, what) ==
  /\ server # {} /\ [stage |-> k, what |-> what] \notin server
  /\ what # "begin" => [stage |-> k, what |-> "begin"] \in server
  /\ \A j \in DOMAIN Plan : (Plan[j] = k /\ j > 1) => [stage |-> Plan[j - 1], what |-> "begin"] \in server
  /\ server' = server \cup {[stage |-> k, what |-> what]}
  /\ Tracked(IF what = "begin" THEN begin(Known, k)
             ELSE IF what = "end" THEN finish(Known, k) ELSE progress(Known, 1, 2))
  /\ UNCHANGED <<messages, now, finished, acts>>

\* stop, however the comparison ends.
Stop ==
  /\ ~finished
  /\ finished' = TRUE
  /\ Tracked(finishCurrent(Known))
  /\ UNCHANGED <<messages, now, server, acts>>

--------------------------------------------------------------------------------
Init ==
  /\ entries = <<>> /\ nextID = 1 /\ timers = {} /\ now = 0
  /\ records = [k \in Stages |-> pending]
  /\ current = "none" /\ finished = TRUE /\ status = {} /\ server = {}
  /\ lost = {} /\ acts = 0

Next ==
  \/ \E text \in Texts, tone \in {"success", "error"} : setStatus(text, tone)
  \/ \E id \in Ids : dismissMessage(id)
  \/ \E m \in timers : Withdraw(m)
  \/ Tick \/ Start \/ Stop
  \/ \E k \in Stages, what \in {"begin", "end", "count"} : Event(k, what)

Spec == Init /\ [][Next]_vars

--------------------------------------------------------------------------------
(* Properties. *)

\* No message leaves before its time: a failure only when it is dismissed or when
\* the lane holds nothing but failures, a success only when its whole time has
\* passed since it was last posted (messages.js:1-6, 83-117).
ReadBeforeItLeaves == lost = {}

\* The progress lane shows one stage under way, the last that began, and nothing
\* once the comparison has ended, whatever is still reported (progress.js:110-186).
LaneTellsTheStage ==
  /\ Cardinality({k \in Stages : records[k].state = "active"}) <= 1
  /\ finished => status = {}
=============================================================================
