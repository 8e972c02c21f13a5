----------------------------- MODULE BrowserLease -----------------------------
(***************************************************************************)
(* How long the server of a GUI session lives: browserLifecycle of         *)
(* server_lifecycle.go, and the heartbeats of app.js that keep it alive.   *)
(*                                                                         *)
(* A tab sends a heartbeat when it is shown and at intervals after that,   *)
(* and a release when it is hidden; a crashed tab sends nothing.  Requests *)
(* overtake each other and may get lost.  A goroutine sleeps until the     *)
(* earliest deadline, and is woken when a request changed it; it asks for  *)
(* the shutdown when nobody holds a lease and the grace has passed.        *)
(*                                                                         *)
(* Time is counted in ticks.  A tick passes when nobody has anything left  *)
(* to do in this one: timers fire and requests are handled on time.        *)
(* Beginning a select takes no time, but requests come before it, between  *)
(* the look at the deadlines and the timer that is set by it.              *)
(***************************************************************************)
EXTENDS Naturals, Integers, Sequences, SequencesExt

CONSTANTS
  Tabs,          \* session IDs, one to a loaded tab
  LeaseTimeout,  \* BrowserLeaseTimeout
  CloseGrace,    \* BrowserCloseGrace, 0 if it is not set
  DefaultGrace,  \* the five seconds taken instead
  Interval,      \* BROWSER_HEARTBEAT_INTERVAL_MS
  Delay,         \* what a request takes at most
  MaxNow,        \* bound: ticks
  MaxActs        \* bound: what the user and the browser do

LeaseAssumption ==
  /\ LeaseTimeout \in Nat \ {0}
  /\ CloseGrace \in Nat
  /\ DefaultGrace \in Nat \ {0}
  /\ Interval \in Nat \ {0}
  /\ Delay \in Nat
  /\ Interval + Delay < LeaseTimeout
  /\ MaxNow \in Nat
  /\ MaxActs \in Nat

VARIABLES
  now,
  sessions,       \* the last heartbeat of each tab, or Zero
  emptyDeadline,  \* or Zero
  wake,           \* the channel holds its one notification
  pc,             \* the goroutine
  delay, due,     \* what nextDelay answered, and when its timer fires
  shutdown,       \* requestShutdown was called
  shown,          \* the tabs that are open
  crashed,
  beat,           \* when a tab's interval fires, or Zero
  mail,           \* the requests under way, oldest first
  acts,
  heard,          \* history: as sessions, but without the expired ones' removal
  left,           \* history: the latest release was handled then
  served          \* history: the tabs of which a heartbeat came last

goroutine == <<pc, delay, due>>
pages == <<shown, crashed, beat, acts>>
vars == <<now, sessions, emptyDeadline, wake, goroutine, shutdown, pages, mail, heard, left, served>>

\* time.Time's zero value, and a timer that is not set.
Zero == -1
Times == Nat \cup {Zero}

\* newBrowserLifecycle
closeGrace ==
  IF CloseGrace = 0 \/ CloseGrace > LeaseTimeout
  THEN IF DefaultGrace < LeaseTimeout THEN DefaultGrace ELSE LeaseTimeout
  ELSE CloseGrace

Init ==
  /\ now = 0
  /\ sessions = [t \in Tabs |-> Zero]
  /\ emptyDeadline = LeaseTimeout
  /\ wake = FALSE
  /\ pc = "look" /\ delay = 0 /\ due = LeaseTimeout
  /\ shutdown = FALSE
  /\ shown = {} /\ crashed = {}
  /\ beat = [t \in Tabs |-> Zero]
  /\ mail = <<>>
  /\ acts = 0
  /\ heard = [t \in Tabs |-> Zero]
  /\ left = Zero
  /\ served = {}

--------------------------------------------------------------------------------
(* The server. *)

\* nextDelay, of what is due at the end of it.
Wait(next) ==
  IF next > now
  THEN pc' = "reset" /\ delay' = next - now
  ELSE pc' = "expired" /\ delay' = 0

\* nextDelay
NextDelay ==
  /\ pc = "look"
  /\ LET alive == {t \in Tabs : sessions[t] # Zero /\ sessions[t] + LeaseTimeout > now}
         deadlines == {sessions[t] + LeaseTimeout : t \in alive}
     IN  /\ sessions' = [t \in Tabs |-> IF t \in alive THEN sessions[t] ELSE Zero]
         /\ emptyDeadline' = IF alive = {} /\ emptyDeadline = Zero
                             THEN now + closeGrace ELSE emptyDeadline
         /\ IF alive = {}
            THEN Wait(emptyDeadline')
            ELSE \E next \in deadlines : (\A d \in deadlines : next <= d) /\ Wait(next)
  /\ UNCHANGED <<now, wake, due, shutdown, pages, mail, heard, left, served>>

\* run: the timer is set again, the select begins.
Reset ==
  /\ pc = "reset"
  /\ pc' = "select" /\ due' = now + delay
  /\ UNCHANGED <<now, sessions, emptyDeadline, wake, delay, shutdown, pages, mail, heard, left, served>>

\* run: the select ends, for either reason.
Woken ==
  /\ pc = "select"
  /\ \/ wake /\ wake' = FALSE
     \/ due <= now /\ wake' = wake
  /\ pc' = "look"
  /\ UNCHANGED <<now, sessions, emptyDeadline, delay, due, shutdown, pages, mail, heard, left, served>>

\* requestShutdown, by the goroutine.
Expire ==
  /\ pc = "expired"
  /\ shutdown' = TRUE /\ pc' = "done"
  /\ UNCHANGED <<now, sessions, emptyDeadline, wake, delay, due, pages, mail, heard, left, served>>

\* heartbeat
Heartbeat(t) ==
  /\ sessions' = [sessions EXCEPT ![t] = now]
  /\ emptyDeadline' = Zero
  /\ wake' = TRUE
  /\ heard' = [heard EXCEPT ![t] = now]
  /\ left' = left
  /\ served' = served \cup ({t} \cap shown)

\* Faulty: the goroutine is not told.
ReleaseInSilence(t) ==
  /\ sessions' = [sessions EXCEPT ![t] = Zero]
  /\ emptyDeadline' = IF \A u \in Tabs \ {t} : sessions[u] = Zero
                      THEN now + closeGrace ELSE emptyDeadline
  /\ wake' = wake
  /\ heard' = [heard EXCEPT ![t] = Zero]
  /\ left' = now
  /\ served' = served \ {t}

\* release
Release(t) ==
  /\ sessions' = [sessions EXCEPT ![t] = Zero]
  /\ emptyDeadline' = IF \A u \in Tabs \ {t} : sessions[u] = Zero
                      THEN now + closeGrace ELSE emptyDeadline
  /\ wake' = TRUE
  /\ heard' = [heard EXCEPT ![t] = Zero]
  /\ left' = now
  /\ served' = served \ {t}

\* A request is handled, in any order.
Handle ==
  /\ \E n \in DOMAIN mail :
       /\ mail' = RemoveAt(mail, n)
       /\ IF mail[n].kind = "heartbeat" THEN Heartbeat(mail[n].tab) ELSE Release(mail[n].tab)
  /\ UNCHANGED <<now, goroutine, shutdown, pages>>

\* A request fails: nobody looks at it again.
Lose ==
  /\ acts < MaxActs /\ acts' = acts + 1
  /\ \E n \in DOMAIN mail :
       /\ mail' = RemoveAt(mail, n)
       /\ served' = served \ {mail[n].tab}
  /\ UNCHANGED <<now, sessions, emptyDeadline, wake, goroutine, shutdown, shown, crashed, beat, heard, left>>

--------------------------------------------------------------------------------
(* The tabs. *)

Act == acts < MaxActs /\ acts' = acts + 1

server == <<sessions, emptyDeadline, wake, goroutine, heard, left>>

postBrowserLifecycle(t, kind) ==
  mail' = Append(mail, [tab |-> t, kind |-> kind, sent |-> now])

\* startBrowserSession, at pageshow: the page was loaded, or comes back.
Show(t) ==
  /\ Act
  /\ t \notin shown \cup crashed
  /\ shown' = shown \cup {t}
  /\ postBrowserLifecycle(t, "heartbeat")
  /\ beat' = [beat EXCEPT ![t] = now + Interval]
  /\ served' = served \ {t}
  /\ UNCHANGED <<now, server, shutdown, crashed>>

\* heartbeatBrowserSession, by its interval.
Beat(t) ==
  /\ beat[t] = now
  /\ postBrowserLifecycle(t, "heartbeat")
  /\ beat' = [beat EXCEPT ![t] = now + Interval]
  /\ UNCHANGED <<now, server, shutdown, shown, crashed, acts, served>>

\* releaseBrowserSession, at pagehide.
Hide(t) ==
  /\ Act
  /\ t \in shown
  /\ shown' = shown \ {t}
  /\ postBrowserLifecycle(t, "release")
  /\ beat' = [beat EXCEPT ![t] = Zero]
  /\ served' = served \ {t}
  /\ UNCHANGED <<now, server, shutdown, crashed>>

\* The tab, or its browser, is no more.
Crash(t) ==
  /\ Act
  /\ t \in shown
  /\ shown' = shown \ {t} /\ crashed' = crashed \cup {t}
  /\ beat' = [beat EXCEPT ![t] = Zero]
  /\ served' = served \ {t}
  /\ UNCHANGED <<now, server, shutdown, mail>>

\* stopServer and handleShutdown
stopServer ==
  /\ Act
  /\ shown # {}
  /\ shutdown' = TRUE
  /\ UNCHANGED <<now, server, shown, crashed, beat, mail, served>>

--------------------------------------------------------------------------------
Tick ==
  /\ now < MaxNow
  /\ pc = "select" /\ ~wake /\ now < due
  /\ \A n \in DOMAIN mail : now < mail[n].sent + Delay
  /\ \A t \in Tabs : beat[t] # now
  /\ now' = now + 1
  /\ UNCHANGED <<server, shutdown, pages, mail, served>>

\* What happens after the shutdown was asked for does not matter.
Next ==
  /\ ~shutdown
  /\ \/ NextDelay \/ Reset \/ Woken \/ Expire
     \/ Handle \/ Lose
     \/ \E t \in Tabs : Show(t) \/ Beat(t) \/ Hide(t) \/ Crash(t)
     \/ stopServer
     \/ Tick

Spec == Init /\ [][Next]_vars

--------------------------------------------------------------------------------
(* Properties. *)

TypeOK ==
  /\ now \in Nat
  /\ sessions \in [Tabs -> Times] /\ heard \in [Tabs -> Times]
  /\ emptyDeadline \in Times /\ left \in Times
  /\ wake \in BOOLEAN /\ shutdown \in BOOLEAN
  /\ pc \in {"look", "reset", "select", "expired", "done"}
  /\ delay \in Nat /\ due \in Nat
  /\ shown \subseteq Tabs /\ crashed \subseteq Tabs /\ served \subseteq shown
  /\ beat \in [Tabs -> Times]
  /\ mail \in Seq([tab : Tabs, kind : {"heartbeat", "release"}, sent : Nat])
  /\ acts \in Nat

\* The last tab has gone, and the time to come back is over: a tab that is not
\* heard of counts as gone when its lease ends.
Over ==
  /\ now >= IF left = Zero THEN LeaseTimeout ELSE left + closeGrace
  /\ \A t \in Tabs : heard[t] # Zero => now >= heard[t] + LeaseTimeout + closeGrace

\* The server gives up the moment it is over, not before and not later, and
\* never while it serves a tab: whatever requests come between its look at the
\* deadlines and its sleep (server_lifecycle.go:41-114).
LeaseDecides ==
  [][/\ pc # "expired" /\ pc' = "expired" => Over /\ served = {}
     /\ now' # now => ~Over]_vars
===============================================================================
