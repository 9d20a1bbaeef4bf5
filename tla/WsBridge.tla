------------------------------ MODULE WsBridge ------------------------------
(***************************************************************************)
(* The metrics of the TCP server on their way to the dashboards            *)
(* (src/server/ws_bridge.rs): connection tasks put an event for each       *)
(* command into a bounded channel, the aggregator counts them in windows   *)
(* of a second and sends a snapshot of each window to a broadcast channel, *)
(* from which a task for each dashboard takes it.                          *)
(***************************************************************************)
EXTENDS Integers, Sequences, FiniteSets, Functions

CONSTANTS
  Conns,        \* connections of the TCP server
  Dashboards,   \* WebSocket connections
  CmdNames,     \* commands
  Latencies,    \* latencies in microseconds
  ChannelSize,  \* 1_000_000: the metrics channel
  RingSize,     \* 64: the broadcast channel
  MaxEvents,    \* bound on the events
  MaxTicks      \* bound on the snapshots sent

ASSUME WsBridgeAssumption ==
  /\ ChannelSize \in Nat \ {0} /\ RingSize \in Nat \ {0}
  /\ MaxEvents \in Nat /\ MaxTicks \in Nat
  /\ Latencies \subseteq Nat

Listener == "listener"
ASSUME ListenerAssumption == Listener \notin Conns

VARIABLES
  senders,    \* the tasks that hold a metrics_tx
  queue,      \* the events in the metrics channel
  running,    \* the aggregator task has not ended
  latencies,  \* Aggregator.latencies
  breakdown,  \* Aggregator.breakdown
  log,        \* the snapshots sent; the broadcast channel holds the last RingSize
  task,       \* task[d]: where handle_ws_client of dashboard d is
  next,       \* next[d]: the snapshot its receiver takes next
  sending,    \* sending[d]: the snapshot it is sending, 0 for none
  last,       \* history: the last one that d got
  emitted, dropped, drained  \* history: events

vars == <<senders, queue, running, latencies, breakdown, log, task, next,
          sending, last, emitted, dropped, drained>>

channelVars == <<senders, queue, emitted, dropped>>
aggregatorVars == <<running, latencies, breakdown, drained>>
dashboardVars == <<task, next, sending, last>>

Event == [op : CmdNames, latency_us : Latencies]

-----------------------------------------------------------------------------
(* TCP server.                                                             *)

\* run_server accepts a connection and gives it a clone of metrics_tx.
TcpAccept(c) ==
  /\ Listener \in senders /\ c \notin senders
  /\ senders' = senders \cup {c}
  /\ UNCHANGED <<queue, emitted, dropped, aggregatorVars, log, dashboardVars>>

\* A connection ends, or run_server does when accept fails.
SenderEnds(t) ==
  /\ t \in senders
  /\ senders' = senders \ {t}
  /\ UNCHANGED <<queue, emitted, dropped, aggregatorVars, log, dashboardVars>>

\* Fault: the channel takes one event too many.
FullLate == Len(queue) > ChannelSize

Full == Len(queue) = ChannelSize

\* try_send after each command: the event is dropped if the channel is full.
\* (It is never closed here: the aggregator ends after the last sender.)
Emit(c, e) ==
  /\ c \in senders /\ emitted < MaxEvents
  /\ emitted' = emitted + 1
  /\ \/ ~Full /\ queue' = Append(queue, e) /\ UNCHANGED dropped
     \/ Full /\ dropped' = dropped + 1 /\ UNCHANGED queue
  /\ UNCHANGED <<senders, aggregatorVars, log, dashboardVars>>

-----------------------------------------------------------------------------
(* Aggregator.                                                             *)

\* recv returns an event.
Record ==
  /\ running /\ queue # <<>>
  /\ queue' = Tail(queue)
  /\ latencies' = Append(latencies, Head(queue).latency_us)
  /\ breakdown' = [breakdown EXCEPT ![Head(queue).op] = @ + 1]
  /\ UNCHANGED <<senders, emitted, dropped, running, drained, log, dashboardVars>>

\* Fault: the loop ends although events are left.
DrainedEarly == senders = {}

\* recv returns None: no sender is left and no event.
Drained == senders = {} /\ queue = <<>>

\* The loop ends, and with it the receiver of the metrics channel.
Close ==
  /\ running /\ Drained
  /\ running' = FALSE
  /\ UNCHANGED <<channelVars, latencies, breakdown, drained, log, dashboardVars>>

\* The index of a percentile n of m samples, in tenths of a percent and
\* rounded half up.
PercentileIndex(m, n) == (2 * n * (m - 1) + 1000) \div 2000

Percentile(sorted, n) ==
  IF sorted = <<>> THEN 0
  ELSE LET i == PercentileIndex(Len(sorted), n)
       IN sorted[1 + (IF i < Len(sorted) THEN i ELSE Len(sorted) - 1)]

\* Fault: the percentiles are taken of the samples as they came.
AsTheyCame(s) == s

\* sort_unstable: the samples in an order that never decreases.
Sorted(s) ==
  LET order == CHOOSE p \in Bijection(DOMAIN s, DOMAIN s) :
                 \A i, j \in DOMAIN s : i < j => s[p[i]] <= s[p[j]]
  IN [i \in DOMAIN s |-> s[order[i]]]

Snapshot ==
  LET sorted == Sorted(latencies) IN
  [ops_per_sec |-> Len(latencies),
   p50_us |-> Percentile(sorted, 500),
   p99_us |-> Percentile(sorted, 990),
   p999_us |-> Percentile(sorted, 999),
   breakdown |-> breakdown]

NoCounts == [o \in CmdNames |-> 0]

\* Fault: the samples are not cleared.
ResetForgotten == breakdown' = NoCounts /\ UNCHANGED latencies

\* Reset for the next window.
Reset == latencies' = <<>> /\ breakdown' = NoCounts

\* The dashboards with a receiver, from accept to the end of their task.
Receivers == {d \in Dashboards : task[d] # "none"}

\* interval.tick: the window is drained; send fails if there is no receiver.
Tick ==
  /\ running /\ Len(log) < MaxTicks
  /\ drained' = drained + Len(latencies)
  /\ log' = IF Receivers = {} THEN log ELSE Append(log, Snapshot)
  /\ Reset
  /\ UNCHANGED <<channelVars, running, dashboardVars>>

-----------------------------------------------------------------------------
(* One task for each dashboard.                                            *)

\* The receiver is made at accept, before the handshake, and gets what is sent
\* from now on.
WsAccept(d) ==
  /\ task[d] = "none"
  /\ task' = [task EXCEPT ![d] = "handshake"]
  /\ next' = [next EXCEPT ![d] = Len(log) + 1]
  /\ last' = [last EXCEPT ![d] = Len(log)]
  /\ UNCHANGED <<sending, channelVars, aggregatorVars, log>>

\* The task returns: the handshake failed, the dashboard has closed the
\* connection, or sending to it has failed.
Ends(d) ==
  /\ task' = [task EXCEPT ![d] = "none"]
  /\ next' = [next EXCEPT ![d] = 0]
  /\ sending' = [sending EXCEPT ![d] = 0]
  /\ last' = [last EXCEPT ![d] = 0]

Leaves(d) ==
  /\ task[d] \in {"handshake", "loop"}
  /\ Ends(d)
  /\ UNCHANGED <<channelVars, aggregatorVars, log>>

\* The handshake is done, and the welcome message sent, or not.
Welcome(d) ==
  /\ task[d] = "handshake"
  /\ task' = [task EXCEPT ![d] = "loop"]
  /\ UNCHANGED <<next, sending, last, channelVars, aggregatorVars, log>>

\* The oldest snapshot in the broadcast channel.
Oldest == IF Len(log) > RingSize THEN Len(log) - RingSize + 1 ELSE 1

\* recv returns a snapshot, which is sent.
Receive(d) ==
  /\ task[d] = "loop" /\ next[d] \in Oldest .. Len(log)
  /\ task' = [task EXCEPT ![d] = "send"]
  /\ sending' = [sending EXCEPT ![d] = next[d]]
  /\ next' = [next EXCEPT ![d] = @ + 1]
  /\ UNCHANGED <<last, channelVars, aggregatorVars, log>>

\* recv returns Lagged: the receiver goes on with the oldest that is left.
Lagged(d) ==
  /\ task[d] = "loop" /\ next[d] < Oldest
  /\ next' = [next EXCEPT ![d] = Oldest]
  /\ UNCHANGED <<task, sending, last, channelVars, aggregatorVars, log>>

\* The dashboard has got the snapshot.
Sent(d) ==
  /\ task[d] = "send"
  /\ task' = [task EXCEPT ![d] = "loop"]
  /\ last' = [last EXCEPT ![d] = sending[d]]
  /\ sending' = [sending EXCEPT ![d] = 0]
  /\ UNCHANGED <<next, channelVars, aggregatorVars, log>>

\* Fault: a snapshot that could not be sent is forgotten.
FailureIgnored(d) ==
  /\ task' = [task EXCEPT ![d] = "loop"]
  /\ sending' = [sending EXCEPT ![d] = 0]
  /\ UNCHANGED <<next, last>>

OnFailure(d) == Ends(d)

SendFails(d) ==
  /\ task[d] = "send"
  /\ OnFailure(d)
  /\ UNCHANGED <<channelVars, aggregatorVars, log>>

-----------------------------------------------------------------------------
Init ==
  /\ senders = {Listener}
  /\ queue = <<>>
  /\ running = TRUE
  /\ latencies = <<>>
  /\ breakdown = NoCounts
  /\ log = <<>>
  /\ task = [d \in Dashboards |-> "none"]
  /\ next = [d \in Dashboards |-> 0]
  /\ sending = [d \in Dashboards |-> 0]
  /\ last = [d \in Dashboards |-> 0]
  /\ emitted = 0 /\ dropped = 0 /\ drained = 0

Next ==
  \/ \E c \in Conns :
       TcpAccept(c) \/ (\E e \in Event : Emit(c, e))
  \/ \E t \in Conns \cup {Listener} : SenderEnds(t)
  \/ Record \/ Close \/ Tick
  \/ \E d \in Dashboards :
       \/ WsAccept(d) \/ Welcome(d) \/ Leaves(d)
       \/ Receive(d) \/ Lagged(d) \/ Sent(d) \/ SendFails(d)

Spec == Init /\ [][Next]_vars

\* The runtime polls the aggregator; select! picks among its ready branches at
\* random, so recv is not starved by the clock.
FairSpec == Spec /\ WF_vars(Record) /\ WF_vars(Close)

-----------------------------------------------------------------------------
(* Properties.                                                             *)

TypeOK ==
  /\ senders \subseteq Conns \cup {Listener}
  /\ queue \in Seq(Event) /\ Len(queue) <= ChannelSize
  /\ running \in BOOLEAN
  /\ latencies \in Seq(Latencies)
  /\ breakdown \in [CmdNames -> Nat]
  /\ \A d \in Dashboards :
       /\ task[d] \in {"none", "handshake", "loop", "send"}
       /\ sending[d] # 0 <=> task[d] = "send"
       /\ last[d] <= Len(log) /\ next[d] <= Len(log) + 1
  /\ emitted \in Nat /\ dropped \in Nat /\ drained \in Nat

\* Every event is in one place: dropped at the full or closed channel, in the
\* channel, in the window, or in one snapshot.  None is counted twice.
EventsConserved == emitted = dropped + Len(queue) + Len(latencies) + drained

\* A snapshot's counts by command add up to ops_per_sec, and its percentiles
\* do not decrease.
SnapshotSound ==
  \A i \in DOMAIN log :
    LET s == log[i] IN
    /\ SumFunction(s.breakdown) = s.ops_per_sec
    /\ s.p50_us <= s.p99_us /\ s.p99_us <= s.p999_us

\* A dashboard gets snapshots in order, each at most once, and the next one is
\* missing only if RingSize newer ones were sent before its task looked.
InOrder ==
  [][\A d \in Dashboards :
       task[d] = "loop" /\ task'[d] = "send" =>
         /\ sending'[d] > last[d]
         /\ sending'[d] > last[d] + 1 => last[d] + 1 + RingSize <= Len(log)]_vars

\* When all senders are gone the aggregator counts what is left in the channel,
\* and ends.
DrainsThenEnds == senders = {} ~> ~running /\ queue = <<>>

=============================================================================
