----------------------------- MODULE Dashboard -----------------------------
(***************************************************************************)
(* The dashboard's connection to the metrics bridge                        *)
(* (dashboard/src/hooks/useMetrics.js): one React hook, the WebSockets it  *)
(* opens and the timers it arms to open another.                           *)
(*                                                                         *)
(* A step is one task of the browser: an effect of React, an event of a    *)
(* socket or a timer, each with all that its handler does.  Ids of sockets *)
(* and timers are used again only when nothing refers to them.             *)
(***************************************************************************)
EXTENDS Integers, Sequences, FiniteSets

CONSTANTS
  Sockets, Timers,  \* ids
  NoId,
  Builds,           \* of {FALSE, TRUE}, see strict
  HISTORY_SIZE,
  MaxTicks          \* bound on the snapshots sent

\* A chain of attempts needs an id of its own, and one that is still referred to.
ASSUME DashboardAssumption ==
  /\ NoId \notin Sockets \cup Timers
  /\ IsFiniteSet(Sockets) /\ Cardinality(Sockets) >= 3
  /\ IsFiniteSet(Timers) /\ Cardinality(Timers) >= 3
  /\ Builds \subseteq BOOLEAN
  /\ HISTORY_SIZE \in Nat \ {0} /\ MaxTicks \in Nat

VARIABLES
  strict,          \* a development build: React.StrictMode mounts twice
  phase,           \* "out", "in", "gone"; between two mounts "strict", "again"
  ready,           \* ready[s]: readyState of socket s, "none" for an id not in use
  wsRef,           \* wsRef.current
  timers,          \* the timers that are armed
  older,           \* older[t]: the sockets that t was armed behind and finds settled
  reconnectTimer,  \* reconnectTimer.current, which outlives its timer
  connected, error, history,  \* the hook's state; latest is the last of history
  server,          \* the bridge: "up", "down", or "blocked" by the browser
  sent,            \* the snapshots it has sent, one for each tick
  got              \* got[s]: the last one that came over socket s

sockVars == <<ready, wsRef, got>>
timerVars == <<timers, older, reconnectTimer>>
shownVars == <<connected, error, history>>
vars == <<strict, phase, sockVars, timerVars, shownVars, server, sent>>

Live(s) == ready[s] \in {"connecting", "open"}
Pending == {s \in Sockets : Live(s) \/ ready[s] = "closing"}
Unsettled == {s \in Sockets : ready[s] \in {"connecting", "closing"}}

\* Between the two mounts of StrictMode no other task runs.
Tasks == phase \in {"in", "gone"}

-----------------------------------------------------------------------------
(* connect and cleanup.                                                    *)

\* setTimeout(connect, 2000) beside the timers in left: two seconds are more than
\* a socket of this host needs to open, to fail or to close.
Arm(left, unsettled) ==
  LET t == CHOOSE t \in Timers : t \notin left /\ t # reconnectTimer
  IN /\ timers' = left \cup {t}
     /\ reconnectTimer' = t
     /\ older' = [u \in Timers |-> IF u = t THEN unsettled ELSE older[u] \cap unsettled]

\* Fault: a timer that has fired still counts as armed.
ReconnectUnlessSet(s) ==
  IF reconnectTimer = NoId THEN Arm(timers, Unsettled \ {s}) ELSE UNCHANGED timerVars

\* onclose of socket s: the timer is armed whatever happens, also after unmount.
Reconnect(s) == Arm(timers, Unsettled \ {s})

\* The socket that wsRef lets go is forgotten once it is closed.
NewSocket ==
  LET s == CHOOSE s \in Sockets : ready[s] = "none"
  IN /\ ready' = [q \in Sockets |->
                    IF q = s THEN "connecting"
                    ELSE IF ready[q] = "closed" THEN "none" ELSE ready[q]]
     /\ wsRef' = s
     /\ got' = [got EXCEPT ![s] = 0]

\* Fault: connect returns if it has a socket at all.
ConnectedEver == wsRef # NoId

Connected == wsRef # NoId /\ ready[wsRef] = "open"

\* connect, called when the timers in left are armed.  The constructor of a
\* socket throws if the browser does not allow it.
Connect(left) ==
  \/ /\ Connected
     /\ timers' = left
     /\ UNCHANGED <<sockVars, older, reconnectTimer, error>>
  \/ /\ ~Connected /\ server # "blocked"
     /\ NewSocket
     /\ timers' = left
     /\ UNCHANGED <<older, reconnectTimer, error>>
  \/ /\ ~Connected /\ server = "blocked"
     /\ error' = TRUE
     /\ Arm(left, Unsettled)
     /\ UNCHANGED sockVars

\* close() leaves a closed socket alone.
Cleanup ==
  /\ ready' = [s \in Sockets |->
                 IF s = wsRef /\ Live(s) THEN "closing" ELSE ready[s]]
  /\ timers' = timers \ {reconnectTimer}
  /\ UNCHANGED <<wsRef, got, older, reconnectTimer>>

Mount ==
  /\ phase = "out"
  /\ phase' = IF strict THEN "strict" ELSE "in"
  /\ Connect(timers)
  /\ UNCHANGED <<strict, connected, history, server, sent>>

StrictCleanup ==
  /\ phase = "strict"
  /\ phase' = "again"
  /\ Cleanup
  /\ UNCHANGED <<strict, shownVars, server, sent>>

StrictMount ==
  /\ phase = "again"
  /\ phase' = "in"
  /\ Connect(timers)
  /\ UNCHANGED <<strict, connected, history, server, sent>>

Unmount ==
  /\ phase = "in"
  /\ phase' = "gone"
  /\ Cleanup
  /\ UNCHANGED <<strict, shownVars, server, sent>>

TimerFires(t) ==
  /\ Tasks /\ t \in timers /\ older[t] = {}
  /\ Connect(timers \ {t})
  /\ UNCHANGED <<strict, phase, connected, history, server, sent>>

-----------------------------------------------------------------------------
(* Events of a socket.                                                     *)

\* onopen.
Opened(s) ==
  /\ Tasks /\ ready[s] = "connecting" /\ server = "up"
  /\ ready' = [ready EXCEPT ![s] = "open"]
  /\ got' = [got EXCEPT ![s] = sent]
  /\ connected' = TRUE /\ error' = FALSE
  /\ timers' = timers \ {reconnectTimer}
  /\ reconnectTimer' = NoId
  /\ older' = [t \in Timers |-> older[t] \ {s}]
  /\ UNCHANGED <<strict, phase, wsRef, history, server, sent>>

\* Fault: the newest comes first.
Prepended(h, n) == <<n>> \o h

Extended(h, n) == Append(h, n)

\* Fault: one snapshot too many is kept.
SliceLonger(h) == SubSeq(h, Len(h) - HISTORY_SIZE, Len(h))

\* slice(-HISTORY_SIZE).
Slice(h) == SubSeq(h, Len(h) - HISTORY_SIZE + 1, Len(h))

\* onmessage: a snapshot behind the last one over this socket.  Some may have
\* been skipped.  The welcome and what does not parse change nothing.
Message(s) ==
  /\ Tasks /\ ready[s] = "open"
  /\ \E n \in got[s] + 1 .. sent :
       LET next == Extended(history, n) IN
       /\ history' = IF Len(next) > HISTORY_SIZE THEN Slice(next) ELSE next
       /\ got' = [got EXCEPT ![s] = n]
  /\ UNCHANGED <<strict, phase, ready, wsRef, timerVars, connected, error, server, sent>>

\* Fault: onclose leaves what is shown.
StillShown == UNCHANGED connected

NotConnected == connected' = FALSE

\* onclose, after onerror if failed.
OnClose(s, failed) ==
  /\ ready' = [ready EXCEPT ![s] = IF s = wsRef THEN "closed" ELSE "none"]
  /\ got' = [got EXCEPT ![s] = 0]
  /\ NotConnected
  /\ error' = (error \/ failed)
  /\ Reconnect(s)
  /\ UNCHANGED <<strict, phase, wsRef, history, server, sent>>

\* Nobody listens.
Fails(s) == Tasks /\ ready[s] = "connecting" /\ server # "up" /\ OnClose(s, TRUE)

\* The bridge has gone, and the connection with it; or it has ended that alone.
Lost(s) == Tasks /\ ready[s] = "open" /\ server # "up" /\ OnClose(s, TRUE)
Ended(s) == Tasks /\ ready[s] = "open" /\ server = "up" /\ OnClose(s, FALSE)

\* The socket closed by a cleanup; it has failed if it was still connecting.
Closed(s) ==
  /\ Tasks /\ ready[s] = "closing"
  /\ \E failed \in BOOLEAN : OnClose(s, failed)

-----------------------------------------------------------------------------
(* The bridge.                                                             *)

Tick ==
  /\ server = "up" /\ sent < MaxTicks
  /\ sent' = sent + 1
  /\ UNCHANGED <<strict, phase, sockVars, timerVars, shownVars, server>>

Start == server = "down" /\ server' = "up"
Stop  == server = "up" /\ server' = "down"
StartOrStop ==
  /\ Start \/ Stop
  /\ UNCHANGED <<strict, phase, sockVars, timerVars, shownVars, sent>>

-----------------------------------------------------------------------------
Init ==
  /\ strict \in Builds
  /\ phase = "out"
  /\ ready = [s \in Sockets |-> "none"]
  /\ wsRef = NoId
  /\ timers = {}
  /\ older = [t \in Timers |-> {}]
  /\ reconnectTimer = NoId
  /\ connected = FALSE /\ error = FALSE
  /\ history = <<>>
  /\ server \in {"up", "down", "blocked"}
  /\ sent = 0
  /\ got = [s \in Sockets |-> 0]

Event(s) == \/ Opened(s) \/ Message(s) \/ Fails(s) \/ Lost(s) \/ Ended(s)
            \/ Closed(s)

Next ==
  \/ Mount \/ StrictCleanup \/ StrictMount \/ Unmount
  \/ \E t \in Timers : TimerFires(t)
  \/ \E s \in Sockets : Event(s)
  \/ Tick \/ StartOrStop

Spec == Init /\ [][Next]_vars

\* The browser runs its timers, and every attempt to open a socket or to close
\* one comes to an end.  Nothing is assumed of the bridge.
Fairness ==
  /\ WF_vars(Mount) /\ WF_vars(StrictCleanup) /\ WF_vars(StrictMount)
  /\ \A t \in Timers : WF_vars(TimerFires(t))
  /\ \A s \in Sockets : /\ WF_vars(Opened(s)) /\ WF_vars(Fails(s))
                        /\ WF_vars(Lost(s)) /\ WF_vars(Closed(s))

FairSpec == Spec /\ Fairness

-----------------------------------------------------------------------------
(* Properties.                                                             *)

\* The type of the state.
TypeOK ==
  /\ strict \in BOOLEAN
  /\ phase \in {"out", "strict", "again", "in", "gone"}
  /\ ready \in [Sockets -> {"none", "connecting", "open", "closing", "closed"}]
  /\ wsRef \in Sockets \cup {NoId}
  /\ timers \subseteq Timers
  /\ older \in [Timers -> SUBSET Sockets]
  /\ reconnectTimer \in Timers \cup {NoId}
  /\ connected \in BOOLEAN /\ error \in BOOLEAN
  /\ Len(history) <= HISTORY_SIZE
  /\ server \in {"up", "down", "blocked"}
  /\ sent \in 0 .. MaxTicks
  /\ got \in [Sockets -> 0 .. MaxTicks]

Chains == Cardinality(Pending) + Cardinality(timers)

\* The hook never stops trying and never tries twice at once: while the page is
\* mounted there is one socket that has not closed or one timer, not both, and after
\* the unmount at most that.  The second mount of StrictMode adds at most one
\* more, however long the page stays.
OneChain ==
  /\ Chains <= IF strict THEN 2 ELSE 1
  /\ phase = "in" => Chains >= 1

\* In a production build what the page shows is true: connected exactly while a
\* socket is open, and no error then.
ShownTruly ==
  ~strict /\ phase = "in" =>
    /\ connected <=> \E s \in Sockets : ready[s] = "open"
    /\ connected => ~error

Increasing == \A i, j \in 1 .. Len(history) : i < j => history[i] < history[j]

\* In a production build no snapshot is in the history twice or behind a later
\* one, over however many sockets it came.
HistoryOnce == ~strict => Increasing

\* While the page stays and the bridge stays up, a production build is connected
\* again and again, whatever has happened before and however often the bridge ends
\* a connection.
Reconnects ==
  ~strict /\ <>[](server = "up" /\ phase = "in") => []<>connected

\* "Keep 60 seconds of history": HISTORY_SIZE snapshots, one for each second,
\* are of as many seconds.
HistoryOfSeconds == phase = "in" => Increasing

=============================================================================
