--------------------------- MODULE WsBridgeProofs ---------------------------
(***************************************************************************)
(* Proofs about WsBridge for any number of connections and dashboards, any *)
(* size of the two channels and any bounds: the type invariant, that no    *)
(* event is lost or counted twice, the order in which a dashboard gets its *)
(* snapshots, and, for finitely many commands, that the numbers of every   *)
(* snapshot agree with each other.                                         *)
(***************************************************************************)
EXTENDS WsBridge, SequenceTheorems, FunctionTheorems, FiniteSetTheorems,
        WellFoundedInduction, TLAPS

Tasks == {"none", "handshake", "loop", "send"}

LogOK == \E S : log \in Seq(S)

\* Where a receiver is: behind the last snapshot its dashboard got, and more
\* than one behind only if the broadcast channel has overrun it.
Follows(d) ==
  /\ task[d] # "none" => last[d] < next[d]
  /\ task[d] \in {"handshake", "loop"} /\ next[d] > last[d] + 1 =>
       last[d] + 1 + RingSize <= Len(log)
  /\ task[d] = "send" => sending[d] = next[d] - 1 /\ last[d] < sending[d]

TasksOK ==
  /\ task \in [Dashboards -> Tasks]
  /\ next \in [Dashboards -> Nat]
  /\ sending \in [Dashboards -> Nat]
  /\ last \in [Dashboards -> Nat]
  /\ \A d \in Dashboards : Follows(d)

IInv == TypeOK /\ EventsConserved /\ LogOK /\ TasksOK

\* What a step promises of each dashboard.
Ordered(d) ==
  task[d] = "loop" /\ task'[d] = "send" =>
    /\ sending'[d] > last[d]
    /\ sending'[d] > last[d] + 1 => last[d] + 1 + RingSize <= Len(log)

-----------------------------------------------------------------------------
(* Steps that leave the dashboards alone.                                  *)

LEMMA LogLength == ASSUME LogOK PROVE Len(log) \in Nat
  BY LenProperties DEF LogOK

\* The log grows by at most a snapshot, and what holds of a receiver still does.
LEMMA DashboardsKept ==
  ASSUME IInv, UNCHANGED dashboardVars,
         log' = log \/ (LogOK' /\ Len(log') = Len(log) + 1)
  PROVE  /\ LogOK' /\ TasksOK'
         /\ \A d \in Dashboards :
              /\ task'[d] \in Tasks
              /\ sending'[d] # 0 <=> task'[d] = "send"
              /\ last'[d] <= Len(log') /\ next'[d] <= Len(log') + 1
         /\ \A d \in Dashboards : Ordered(d)
<1>1. Len(log) \in Nat /\ Len(log') \in Nat /\ Len(log') >= Len(log)
  BY LogLength DEF IInv
<1>2. LogOK'
  BY DEF IInv, LogOK
<1>3. \A d \in Dashboards : last[d] \in Nat /\ next[d] \in Nat /\ RingSize \in Nat
  BY WsBridgeAssumption DEF IInv, TasksOK
<1>4. task' = task /\ next' = next /\ sending' = sending /\ last' = last
  BY DEF dashboardVars
<1>5. TasksOK'
  <2>1. ASSUME NEW d \in Dashboards PROVE Follows(d)'
    BY <1>1, <1>3, <1>4 DEF IInv, TasksOK, Follows
  <2> QED  BY <1>4, <2>1 DEF IInv, TasksOK
<1>6. \A d \in Dashboards :
        /\ task'[d] \in Tasks
        /\ sending'[d] # 0 <=> task'[d] = "send"
        /\ last'[d] <= Len(log') /\ next'[d] <= Len(log') + 1
  BY <1>1, <1>3, <1>4 DEF IInv, TypeOK, Tasks
<1>7. \A d \in Dashboards : Ordered(d)
  BY <1>4 DEF Ordered
<1> QED  BY <1>2, <1>5, <1>6, <1>7

LEMMA TcpAcceptKeeps ==
  ASSUME IInv, NEW c \in Conns, TcpAccept(c) PROVE IInv' /\ \A d \in Dashboards : Ordered(d)
  BY DashboardsKept DEF IInv, TypeOK, EventsConserved, TcpAccept, aggregatorVars, Tasks

LEMMA SenderEndsKeeps ==
  ASSUME IInv, NEW t, SenderEnds(t) PROVE IInv' /\ \A d \in Dashboards : Ordered(d)
  BY DashboardsKept DEF IInv, TypeOK, EventsConserved, SenderEnds, aggregatorVars, Tasks

LEMMA EmitKeeps ==
  ASSUME IInv, NEW c \in Conns, NEW e \in Event, Emit(c, e)
  PROVE  IInv' /\ \A d \in Dashboards : Ordered(d)
<1>1. /\ queue \in Seq(Event) /\ Len(queue) \in Nat
      /\ Len(queue) <= ChannelSize /\ ChannelSize \in Nat
      /\ emitted \in Nat /\ dropped \in Nat /\ drained \in Nat
  BY WsBridgeAssumption, LenProperties DEF IInv, TypeOK
<1>2. latencies \in Seq(Latencies) /\ Len(latencies) \in Nat
  BY LenProperties DEF IInv, TypeOK
<1>3. CASE ~Full /\ queue' = Append(queue, e) /\ UNCHANGED dropped
  <2>1. queue' \in Seq(Event) /\ Len(queue') = Len(queue) + 1
    BY <1>1, <1>3, AppendProperties
  <2>2. Len(queue') <= ChannelSize
    BY <1>1, <1>3, <2>1 DEF Full
  <2>3. EventsConserved' /\ emitted' \in Nat
    BY <1>1, <1>2, <1>3, <2>1 DEF IInv, EventsConserved, Emit, aggregatorVars
  <2>4. /\ UNCHANGED dashboardVars /\ log' = log /\ senders' = senders
        /\ running' = running /\ latencies' = latencies /\ breakdown' = breakdown
        /\ dropped' = dropped /\ drained' = drained
    BY <1>3 DEF Emit, aggregatorVars
  <2> QED  BY <2>1, <2>2, <2>3, <2>4, DashboardsKept DEF IInv, TypeOK, Tasks
<1>4. CASE Full /\ dropped' = dropped + 1 /\ UNCHANGED queue
  <2>1. /\ UNCHANGED dashboardVars /\ log' = log /\ senders' = senders
        /\ queue' = queue /\ running' = running /\ latencies' = latencies
        /\ breakdown' = breakdown /\ drained' = drained
    BY <1>4 DEF Emit, aggregatorVars
  <2>2. EventsConserved' /\ emitted' \in Nat /\ dropped' \in Nat
    BY <1>1, <1>2, <1>4, <2>1 DEF IInv, EventsConserved, Emit
  <2> QED  BY <2>1, <2>2, DashboardsKept DEF IInv, TypeOK, Tasks
<1> QED  BY <1>3, <1>4 DEF Emit

LEMMA RecordKeeps ==
  ASSUME IInv, Record PROVE IInv' /\ \A d \in Dashboards : Ordered(d)
<1>1. /\ queue \in Seq(Event) /\ Len(queue) \in Nat
      /\ Len(queue) <= ChannelSize /\ ChannelSize \in Nat
      /\ emitted \in Nat /\ dropped \in Nat /\ drained \in Nat
  BY WsBridgeAssumption, LenProperties DEF IInv, TypeOK
<1>2. latencies \in Seq(Latencies) /\ Len(latencies) \in Nat
  BY LenProperties DEF IInv, TypeOK
<1>3. /\ Head(queue) \in Event
      /\ queue' \in Seq(Event) /\ Len(queue') = Len(queue) - 1
  BY <1>1, HeadTailProperties DEF Record
<1>4. Head(queue).latency_us \in Latencies /\ Head(queue).op \in CmdNames
  BY <1>3 DEF Event
<1>5. latencies' \in Seq(Latencies) /\ Len(latencies') = Len(latencies) + 1
  BY <1>2, <1>4, AppendProperties DEF Record
<1>6. breakdown' \in [CmdNames -> Nat]
  BY <1>4 DEF Record, IInv, TypeOK
<1>7. EventsConserved'
  BY <1>1, <1>2, <1>3, <1>5 DEF IInv, EventsConserved, Record
<1> QED  BY <1>1, <1>3, <1>5, <1>6, <1>7, DashboardsKept DEF IInv, TypeOK, Record, Tasks

LEMMA CloseKeeps ==
  ASSUME IInv, Close PROVE IInv' /\ \A d \in Dashboards : Ordered(d)
  BY DashboardsKept DEF IInv, TypeOK, EventsConserved, Close, channelVars, Tasks

LEMMA TickKeeps ==
  ASSUME IInv, Tick PROVE IInv' /\ \A d \in Dashboards : Ordered(d)
<1>1. log' = log \/ (LogOK' /\ Len(log') = Len(log) + 1)
  <2>1. PICK S : log \in Seq(S)
    BY DEF IInv, LogOK
  <2>2. log \in Seq(S \cup {Snapshot})
    BY <2>1, SeqMonotonic
  <2>3. CASE log' = Append(log, Snapshot)
    BY <2>2, <2>3, AppendProperties DEF LogOK
  <2> QED  BY <2>3 DEF Tick
<1>2. latencies \in Seq(Latencies) /\ Len(latencies) \in Nat /\ Len(queue) \in Nat
  BY LenProperties DEF IInv, TypeOK
<1>3. latencies' \in Seq(Latencies) /\ Len(latencies') = 0
  BY EmptySeq DEF Tick, Reset
<1>4. breakdown' \in [CmdNames -> Nat]
  BY DEF Tick, Reset, NoCounts
<1>5. EventsConserved' /\ drained' \in Nat
  BY <1>2, <1>3 DEF IInv, TypeOK, EventsConserved, Tick, channelVars
<1> QED  BY <1>1, <1>3, <1>4, <1>5, DashboardsKept
         DEF IInv, TypeOK, Tick, channelVars, Tasks

-----------------------------------------------------------------------------
(* Steps of one dashboard.                                                 *)

\* The step of a dashboard, as its new task and numbers.
Goes(d, t, n, s, l) ==
  /\ task' = [task EXCEPT ![d] = t]
  /\ next' = [next EXCEPT ![d] = n]
  /\ sending' = [sending EXCEPT ![d] = s]
  /\ last' = [last EXCEPT ![d] = l]
  /\ UNCHANGED <<channelVars, aggregatorVars, log>>

LEMMA GoesKeeps ==
  ASSUME IInv, NEW d \in Dashboards, NEW t \in Tasks, NEW n \in Nat, NEW s \in Nat,
         NEW l \in Nat, Goes(d, t, n, s, l),
         s # 0 <=> t = "send", l <= Len(log), n <= Len(log) + 1,
         t # "none" => l < n,
         t \in {"handshake", "loop"} /\ n > l + 1 => l + 1 + RingSize <= Len(log),
         t = "send" => s = n - 1 /\ l < s,
         Ordered(d)
  PROVE  IInv' /\ \A x \in Dashboards : Ordered(x)
<1>1. /\ task \in [Dashboards -> Tasks] /\ next \in [Dashboards -> Nat]
      /\ sending \in [Dashboards -> Nat] /\ last \in [Dashboards -> Nat]
  BY DEF IInv, TasksOK
<1>2. /\ task'[d] = t /\ next'[d] = n /\ sending'[d] = s /\ last'[d] = l
      /\ \A x \in Dashboards \ {d} :
           /\ task'[x] = task[x] /\ next'[x] = next[x]
           /\ sending'[x] = sending[x] /\ last'[x] = last[x]
  BY <1>1 DEF Goes
<1>3. /\ task' \in [Dashboards -> Tasks] /\ next' \in [Dashboards -> Nat]
      /\ sending' \in [Dashboards -> Nat] /\ last' \in [Dashboards -> Nat]
  BY <1>1 DEF Goes
<1>4. log' = log
  BY DEF Goes
<1>5. ASSUME NEW x \in Dashboards
      PROVE  /\ Follows(x)' /\ Ordered(x)
             /\ task'[x] \in Tasks
             /\ sending'[x] # 0 <=> task'[x] = "send"
             /\ last'[x] <= Len(log') /\ next'[x] <= Len(log') + 1
  <2>1. CASE x = d
    BY <1>2, <1>4, <2>1 DEF Follows
  <2>2. CASE x # d
    BY <1>2, <1>4, <2>2 DEF IInv, TasksOK, TypeOK, Follows, Ordered, Tasks
  <2> QED  BY <2>1, <2>2
<1>6. TasksOK'
  BY <1>3, <1>5 DEF TasksOK
<1> QED  BY <1>5, <1>6
         DEF IInv, TypeOK, EventsConserved, LogOK, Goes, channelVars, aggregatorVars, Tasks

\* What is known of a dashboard before its step.
LEMMA Before ==
  ASSUME IInv, NEW d \in Dashboards
  PROVE  /\ task[d] \in Tasks /\ next[d] \in Nat /\ sending[d] \in Nat /\ last[d] \in Nat
         /\ Len(log) \in Nat /\ RingSize \in Nat \ {0}
         /\ task = [task EXCEPT ![d] = task[d]] /\ next = [next EXCEPT ![d] = next[d]]
         /\ sending = [sending EXCEPT ![d] = sending[d]]
         /\ last = [last EXCEPT ![d] = last[d]]
         /\ sending[d] # 0 <=> task[d] = "send"
         /\ last[d] <= Len(log) /\ next[d] <= Len(log) + 1
         /\ Follows(d)
  BY WsBridgeAssumption, LogLength DEF IInv, TasksOK, TypeOK

LEMMA WsAcceptKeeps ==
  ASSUME IInv, NEW d \in Dashboards, WsAccept(d)
  PROVE  IInv' /\ \A x \in Dashboards : Ordered(x)
<1>1. Goes(d, "handshake", Len(log) + 1, 0, Len(log)) /\ Ordered(d)
  BY Before DEF WsAccept, Goes, Ordered
<1>2. /\ "handshake" \in Tasks
      /\ Len(log) + 1 \in Nat /\ Len(log) \in Nat
      /\ Len(log) < Len(log) + 1 /\ ~(Len(log) + 1 > Len(log) + 1)
  BY Before DEF Tasks
<1> QED  BY <1>1, <1>2, GoesKeeps

LEMMA EndsKeeps ==
  ASSUME IInv, NEW d \in Dashboards, Ends(d), UNCHANGED <<channelVars, aggregatorVars, log>>
  PROVE  IInv' /\ \A x \in Dashboards : Ordered(x)
<1>1. Goes(d, "none", 0, 0, 0)
  BY DEF Ends, Goes
<1>2. Ordered(d)
  BY DEF Ends, Ordered, IInv, TasksOK
<1> QED  BY <1>1, <1>2, Before, GoesKeeps DEF Tasks

LEMMA WelcomeKeeps ==
  ASSUME IInv, NEW d \in Dashboards, Welcome(d)
  PROVE  IInv' /\ \A x \in Dashboards : Ordered(x)
<1>1. Goes(d, "loop", next[d], sending[d], last[d]) /\ Ordered(d)
  BY Before DEF Welcome, Goes, Ordered
<1>2. task[d] = "handshake"
  BY DEF Welcome
<1>3. /\ "loop" \in Tasks
      /\ sending[d] = 0
      /\ last[d] < next[d]
      /\ next[d] > last[d] + 1 => last[d] + 1 + RingSize <= Len(log)
  BY <1>2, Before DEF Tasks, Follows
<1> QED  BY <1>1, <1>3, Before, GoesKeeps

LEMMA ReceiveKeeps ==
  ASSUME IInv, NEW d \in Dashboards, Receive(d)
  PROVE  IInv' /\ \A x \in Dashboards : Ordered(x)
<1>1. Goes(d, "send", next[d] + 1, next[d], last[d])
  BY Before DEF Receive, Goes
<1>2. task[d] = "loop" /\ next[d] <= Len(log) /\ last[d] < next[d]
  BY Before DEF Receive, Oldest, Follows
<1>3. Ordered(d)
  BY <1>2, Before DEF Ordered, Follows, Receive, IInv, TasksOK
<1>4. /\ "send" \in Tasks
      /\ next[d] \in Nat /\ next[d] + 1 \in Nat /\ last[d] \in Nat
      /\ next[d] # 0 /\ last[d] < next[d] + 1 /\ next[d] = (next[d] + 1) - 1
      /\ last[d] <= Len(log) /\ next[d] + 1 <= Len(log) + 1
  BY <1>2, Before DEF Tasks
<1> QED  BY <1>1, <1>2, <1>3, <1>4, GoesKeeps

LEMMA LaggedKeeps ==
  ASSUME IInv, NEW d \in Dashboards, Lagged(d)
  PROVE  IInv' /\ \A x \in Dashboards : Ordered(x)
<1>1. Goes(d, "loop", Oldest, sending[d], last[d]) /\ Ordered(d)
  BY Before DEF Lagged, Goes, Ordered
<1>2. last[d] < next[d] /\ next[d] < Oldest /\ task[d] = "loop"
  BY Before DEF Lagged, Follows
<1>3. Oldest = Len(log) - RingSize + 1 /\ Len(log) > RingSize
  BY <1>2, Before DEF Oldest
<1>4. /\ "loop" \in Tasks
      /\ sending[d] = 0
      /\ Oldest \in Nat /\ last[d] < Oldest /\ Oldest <= Len(log) + 1
      /\ last[d] + 1 + RingSize <= Len(log)
  BY <1>2, <1>3, Before DEF Tasks
<1> QED  BY <1>1, <1>4, Before, GoesKeeps

LEMMA SentKeeps ==
  ASSUME IInv, NEW d \in Dashboards, Sent(d)
  PROVE  IInv' /\ \A x \in Dashboards : Ordered(x)
<1>1. Goes(d, "loop", next[d], 0, sending[d]) /\ Ordered(d)
  BY Before DEF Sent, Goes, Ordered
<1>2. /\ "loop" \in Tasks
      /\ sending[d] = next[d] - 1
      /\ sending[d] <= Len(log)
  BY Before DEF Sent, Follows, Tasks
<1> QED  BY <1>1, <1>2, Before, GoesKeeps

-----------------------------------------------------------------------------

LEMMA InitEstablishes == Init => IInv
<1> SUFFICES ASSUME Init PROVE IInv
  OBVIOUS
<1>1. queue \in Seq(Event) /\ latencies \in Seq(Latencies) /\ LogOK
  BY EmptySeq DEF Init, LogOK
<1>2. Len(queue) = 0 /\ Len(latencies) = 0 /\ Len(log) = 0
  BY EmptySeq DEF Init
<1>3. breakdown \in [CmdNames -> Nat]
  BY DEF Init, NoCounts
<1>4. TasksOK
  BY DEF Init, TasksOK, Follows, Tasks
<1>5. TypeOK
  BY <1>1, <1>2, <1>3, WsBridgeAssumption DEF Init, TypeOK
<1>6. EventsConserved
  BY <1>2 DEF Init, EventsConserved
<1> QED  BY <1>1, <1>4, <1>5, <1>6 DEF IInv

\* Every step keeps the invariant and the order of the snapshots.
LEMMA NextKeeps == IInv /\ [Next]_vars => IInv' /\ \A d \in Dashboards : Ordered(d)
<1> SUFFICES ASSUME IInv, [Next]_vars PROVE IInv' /\ \A d \in Dashboards : Ordered(d)
  OBVIOUS
<1>1. CASE \E c \in Conns : TcpAccept(c) \/ \E e \in Event : Emit(c, e)
  BY <1>1, TcpAcceptKeeps, EmitKeeps
<1>2. CASE \E t \in Conns \cup {Listener} : SenderEnds(t)
  BY <1>2, SenderEndsKeeps
<1>3. CASE Record \/ Close \/ Tick
  BY <1>3, RecordKeeps, CloseKeeps, TickKeeps
<1>4. ASSUME NEW d \in Dashboards,
             WsAccept(d) \/ Welcome(d) \/ Leaves(d) \/ Receive(d) \/ Lagged(d)
               \/ Sent(d) \/ SendFails(d)
      PROVE  IInv' /\ \A x \in Dashboards : Ordered(x)
  <2>1. CASE Leaves(d) \/ SendFails(d)
    BY <2>1, EndsKeeps DEF Leaves, SendFails, OnFailure
  <2> QED  BY <1>4, <2>1, WsAcceptKeeps, WelcomeKeeps, ReceiveKeeps, LaggedKeeps, SentKeeps
<1>5. CASE UNCHANGED vars
  <2>1. UNCHANGED dashboardVars /\ log' = log
    BY <1>5 DEF vars, dashboardVars
  <2>2. /\ senders' = senders /\ queue' = queue /\ running' = running
        /\ latencies' = latencies /\ breakdown' = breakdown
        /\ emitted' = emitted /\ dropped' = dropped /\ drained' = drained
    BY <1>5 DEF vars
  <2> QED  BY <2>1, <2>2, DashboardsKept DEF IInv, TypeOK, EventsConserved, Tasks
<1> QED  BY <1>1, <1>2, <1>3, <1>4, <1>5 DEF Next

LEMMA Invariance == Spec => []IInv
<1>1. Init => IInv
  BY InitEstablishes
<1>2. IInv /\ [Next]_vars => IInv'
  BY NextKeeps
<1> QED  BY <1>1, <1>2, PTL DEF Spec

\* The channel never holds more than its size, and a receiver is never ahead of
\* what was sent.
THEOREM TypeCorrect == Spec => []TypeOK
<1>1. IInv => TypeOK
  BY DEF IInv
<1> QED  BY <1>1, Invariance, PTL

\* An event that try_send accepts is in the channel, in the window or in one
\* snapshot; record and drain neither lose nor repeat it.
THEOREM Conserved == Spec => []EventsConserved
<1>1. IInv => EventsConserved
  BY DEF IInv
<1> QED  BY <1>1, Invariance, PTL

\* handle_ws_client forwards snapshots in the order they were sent, each at most
\* once, and skips one only when the broadcast channel has overrun it.
THEOREM OrderKept == Spec => InOrder
<1>1. IInv /\ [Next]_vars =>
        [\A d \in Dashboards :
           task[d] = "loop" /\ task'[d] = "send" =>
             /\ sending'[d] > last[d]
             /\ sending'[d] > last[d] + 1 => last[d] + 1 + RingSize <= Len(log)]_vars
  BY NextKeeps DEF Ordered
<1> QED  BY <1>1, Invariance, PTL DEF Spec, InOrder

-----------------------------------------------------------------------------
(* The sum of counts.                                                      *)

\* A set of natural numbers has a least element.
LEMMA LeastIn == ASSUME NEW T, T \subseteq Nat, T # {} PROVE \E x \in T : \A y \in T : x <= y
<1> DEFINE R == OpToRel(<, Nat)
<1>0. R = {ss \in Nat \X Nat : ss[1] < ss[2]}
  BY DEF OpToRel
<1>1. IsWellFoundedOn(R, Nat)
  BY NatLessThanWellFounded
<1> HIDE DEF R
<1>2. PICK x \in T : \A y \in T : ~(<<y, x>> \in R)
  BY <1>1, WFMin
<1>3. ASSUME NEW y \in T PROVE x <= y
  <2>1. <<y, x>> \in Nat \X Nat /\ ~(<<y, x>> \in R)
    BY <1>2
  <2>2. ~(y < x)
    BY <2>1, <1>0
  <2> QED BY <2>2
<1> QED BY <1>3

\* The element that a sum over a set takes first, and the totals of the subsets
\* of D that it goes through.
First(s) == CHOOSE x \in s : TRUE

TotalOf(f, g, s) == IF s = {} THEN 0 ELSE f[First(s)] + g[s \ {First(s)}]

Totals(f) == CHOOSE g : g = [s \in SUBSET DOMAIN f |-> TotalOf(f, g, s)]

LEMMA FirstIn == \A s : s # {} => First(s) \in s
  BY DEF First

LEMMA SumIs == ASSUME NEW f PROVE SumFunction(f) = Totals(f)[DOMAIN f]
  BY DEF SumFunction, SumFunctionOnSet, FoldFunctionOnSet, MapThenFoldSet, Totals, TotalOf, First

\* The subsets of at most k elements.
Small(D, k) == {s \in SUBSET D : Cardinality(s) <= k}

LEMMA OneLess ==
  ASSUME NEW D, IsFiniteSet(D), NEW s \in SUBSET D
  PROVE  /\ Cardinality(s) \in Nat /\ IsFiniteSet(s)
         /\ Cardinality(s) <= Cardinality(D)
         /\ Cardinality(s) = 0 <=> s = {}
         /\ \A x \in s : s \ {x} \in SUBSET D /\ Cardinality(s \ {x}) = Cardinality(s) - 1
<1>1. IsFiniteSet(s) /\ Cardinality(s) <= Cardinality(D)
  BY FS_Subset
<1>2. Cardinality(s) \in Nat
  BY <1>1, FS_CardinalityType
<1>3. Cardinality(s) = 0 <=> s = {}
  BY <1>1, FS_EmptySet
<1>4. ASSUME NEW x \in s PROVE s \ {x} \in SUBSET D /\ Cardinality(s \ {x}) = Cardinality(s) - 1
  BY <1>1, FS_RemoveElement
<1> QED  BY <1>1, <1>2, <1>3, <1>4

LEMMA SmallestIn ==
  ASSUME NEW D, IsFiniteSet(D), NEW B, B \subseteq SUBSET D, B # {}
  PROVE  \E s \in B : \A x \in s : s \ {x} \notin B
<1> DEFINE T == {Cardinality(s) : s \in B}
<1>1. T \subseteq Nat /\ T # {}
  BY OneLess
<1> HIDE DEF T
<1>2. PICK n \in T : \A y \in T : n <= y
  BY <1>1, LeastIn
<1>3. PICK s \in B : Cardinality(s) = n
  BY <1>2 DEF T
<1>4. ASSUME NEW x \in s, s \ {x} \in B PROVE FALSE
  <2>1. Cardinality(s \ {x}) = Cardinality(s) - 1 /\ Cardinality(s) \in Nat
    BY OneLess, <1>3, <1>4
  <2>2. Cardinality(s \ {x}) \in T
    BY <1>4 DEF T
  <2> QED  BY <2>1, <2>2, <1>2, <1>3
<1> QED  BY <1>4

\* There are such totals, for the subsets of at most k elements first.
Adds(f, k, h) == \A s \in Small(DOMAIN f, k) : h[s] = TotalOf(f, h, s)

LEMMA AddsExists ==
  ASSUME NEW f, IsFiniteSet(DOMAIN f), NEW n \in Nat
  PROVE  \E h : Adds(f, n, h)
<1> DEFINE D == DOMAIN f
           Bad == {k \in Nat : ~ \E h : Adds(f, k, h)}
<1>1. SUFFICES ASSUME Bad # {} PROVE FALSE
  OBVIOUS
<1> HIDE DEF Bad
<1>2. PICK k \in Bad : \A l \in Bad : k <= l
  <2>1. Bad \subseteq Nat
    BY DEF Bad
  <2> QED  BY <2>1, <1>1, LeastIn
<1>3. k \in Nat /\ ~ \E h : Adds(f, k, h)
  BY DEF Bad
<1>4. CASE k = 0
  <2> DEFINE h == [s \in Small(D, 0) |-> 0]
  <2>1. \A s \in Small(D, 0) : s = {}
    BY OneLess DEF Small
  <2>2. Adds(f, 0, h)
    BY <2>1 DEF Adds, TotalOf
  <2> QED  BY <1>3, <1>4, <2>2
<1>5. CASE k # 0
  <2>1. k - 1 \in Nat /\ k - 1 \notin Bad
    BY <1>2, <1>3, <1>5
  <2>2. PICK g : Adds(f, k - 1, g)
    BY <2>1 DEF Bad
  <2> DEFINE h == [s \in Small(D, k) |-> TotalOf(f, g, s)]
  <2>3. ASSUME NEW s \in Small(D, k), s # {} PROVE h[s \ {First(s)}] = g[s \ {First(s)}]
    <3> DEFINE t == s \ {First(s)}
    <3>1. First(s) \in s
      BY <2>3, FirstIn
    <3>2. s \in SUBSET D /\ Cardinality(s) <= k
      BY DEF Small
    <3>3. t \in SUBSET D /\ Cardinality(t) = Cardinality(s) - 1 /\ Cardinality(s) \in Nat
      BY <3>1, <3>2, OneLess
    <3>4. t \in Small(D, k - 1) /\ t \in Small(D, k)
      <4> HIDE DEF t, D
      <4> QED  BY <3>2, <3>3, <1>3 DEF Small
    <3>5. h[t] = TotalOf(f, g, t)
      BY <3>4
    <3>6. g[t] = TotalOf(f, g, t)
      BY <2>2, <3>4 DEF Adds
    <3> QED  BY <3>5, <3>6
  <2>4. ASSUME NEW s \in Small(D, k) PROVE h[s] = TotalOf(f, h, s)
    <3>1. h[s] = TotalOf(f, g, s)
      OBVIOUS
    <3> HIDE DEF h
    <3> QED  BY <3>1, <2>3 DEF TotalOf
  <2>5. Adds(f, k, h)
    <3> HIDE DEF h
    <3> QED  BY <2>4 DEF Adds
  <2> QED  BY <1>3, <2>5
<1> QED  BY <1>4, <1>5

LEMMA TotalsAre ==
  ASSUME NEW f, IsFiniteSet(DOMAIN f)
  PROVE  \A s \in SUBSET DOMAIN f : Totals(f)[s] = TotalOf(f, Totals(f), s)
<1> DEFINE D == DOMAIN f
           n == Cardinality(D)
<1>1. n \in Nat
  BY FS_CardinalityType
<1>2. PICK h : Adds(f, n, h)
  BY <1>1, AddsExists
<1> DEFINE g == [s \in SUBSET D |-> h[s]]
<1>3. ASSUME NEW s \in SUBSET D PROVE TotalOf(f, g, s) = h[s]
  <2>1. s \in Small(D, n)
    BY OneLess DEF Small
  <2>2. h[s] = TotalOf(f, h, s)
    BY <1>2, <2>1 DEF Adds
  <2>3. s # {} => s \ {First(s)} \in SUBSET D
    OBVIOUS
  <2>4. s # {} => g[s \ {First(s)}] = h[s \ {First(s)}]
    BY <2>3
  <2> HIDE DEF g
  <2> QED  BY <2>2, <2>4 DEF TotalOf
<1>4. g = [s \in SUBSET D |-> TotalOf(f, g, s)]
  <2>1. g = [s \in SUBSET D |-> h[s]]
    OBVIOUS
  <2> HIDE DEF g
  <2> QED  BY <2>1, <1>3
<1>5. Totals(f) = [s \in SUBSET D |-> TotalOf(f, Totals(f), s)]
  <2> HIDE DEF g
  <2> QED  BY <1>4 DEF Totals
<1> QED  BY <1>5

\* The sum of a function that is 0 everywhere.
LEMMA SumOfNothing ==
  ASSUME NEW D, IsFiniteSet(D)
  PROVE  SumFunction([x \in D |-> 0]) = 0
<1> DEFINE f == [x \in D |-> 0]
           g == Totals(f)
           B == {s \in SUBSET D : g[s] # 0}
<1>0. DOMAIN f = D /\ \A x \in D : f[x] = 0
  OBVIOUS
<1> HIDE DEF f
<1>1. \A s \in SUBSET D : g[s] = TotalOf(f, g, s)
  BY <1>0, TotalsAre
<1> HIDE DEF g
<1>2. ASSUME B # {} PROVE FALSE
  <2>1. B \subseteq SUBSET D
    OBVIOUS
  <2>2. PICK s \in B : \A x \in s : s \ {x} \notin B
    <3> HIDE DEF B
    <3> QED  BY <1>2, <2>1, SmallestIn
  <2>3. s \in SUBSET D /\ g[s] # 0
    BY <2>2
  <2>4. s # {} => First(s) \in s
    BY FirstIn
  <2>5. s # {} => g[s \ {First(s)}] = 0
    BY <2>2, <2>3, <2>4
  <2> QED  BY <1>0, <1>1, <2>3, <2>4, <2>5 DEF TotalOf
<1>3. g[D] = 0
  BY <1>2
<1> QED  BY <1>0, <1>3, SumIs DEF f, g

\* The sum of counts, and of the counts when one of them grows by 1.
LEMMA SumGrows ==
  ASSUME NEW D, IsFiniteSet(D), NEW f \in [D -> Int], NEW o \in D
  PROVE  /\ SumFunction(f) \in Int
         /\ SumFunction([f EXCEPT ![o] = @ + 1]) = SumFunction(f) + 1
<1> DEFINE e == [f EXCEPT ![o] = @ + 1]
           g == Totals(f)
           h == Totals(e)
           Extra(s) == IF o \in s THEN 1 ELSE 0
           B == {s \in SUBSET D : ~(g[s] \in Int /\ h[s] = g[s] + Extra(s))}
<1>0. /\ DOMAIN f = D /\ DOMAIN e = D
      /\ \A x \in D : f[x] \in Int /\ e[x] = f[x] + Extra({x})
  OBVIOUS
<1> HIDE DEF e
<1>1. \A s \in SUBSET D : g[s] = TotalOf(f, g, s) /\ h[s] = TotalOf(e, h, s)
  BY <1>0, TotalsAre
<1> HIDE DEF g, h
<1>2. ASSUME B # {} PROVE FALSE
  <2>1. B \subseteq SUBSET D
    OBVIOUS
  <2>2. PICK s \in B : \A x \in s : s \ {x} \notin B
    <3> HIDE DEF B
    <3> QED  BY <1>2, <2>1, SmallestIn
  <2>3. s \in SUBSET D /\ ~(g[s] \in Int /\ h[s] = g[s] + Extra(s))
    BY <2>2
  <2>4. CASE s = {}
    <3>1. g[s] = 0 /\ h[s] = 0 /\ o \notin s
      BY <2>3, <2>4, <1>1 DEF TotalOf
    <3> QED  BY <2>3, <3>1
  <2>5. CASE s # {}
    <3> DEFINE x == First(s)
               t == s \ {x}
    <3>1. x \in s /\ x \in D
      BY <2>3, <2>5, FirstIn
    <3>2. t \in SUBSET D /\ t \notin B
      BY <2>2, <2>3, <3>1
    <3>3. g[t] \in Int /\ h[t] = g[t] + Extra(t)
      BY <3>2
    <3>4. g[s] = f[x] + g[t] /\ h[s] = e[x] + h[t]
      BY <1>1, <2>3, <2>5 DEF TotalOf
    <3>5. f[x] \in Int /\ e[x] = f[x] + Extra({x})
      BY <1>0, <3>1
    <3>6. o \in s <=> (o = x \/ o \in t)
      BY <3>1
    <3>7. ~(o = x /\ o \in t)
      OBVIOUS
    <3>8. Extra(s) = Extra({x}) + Extra(t) /\ Extra({x}) \in Int /\ Extra(t) \in Int
      <4>1. o \in {x} <=> o = x
        OBVIOUS
      <4> HIDE DEF x, t
      <4> QED  BY <3>6, <3>7, <4>1
    <3> HIDE DEF x, t, Extra
    <3>9. g[s] \in Int
      BY <3>3, <3>4, <3>5
    <3>10. h[s] = g[s] + Extra(s)
      BY <3>3, <3>4, <3>5, <3>8
    <3> QED  BY <2>3, <3>9, <3>10
  <2> QED  BY <2>4, <2>5
<1>3. g[D] \in Int /\ h[D] = g[D] + 1
  BY <1>2
<1>4. SumFunction(f) = g[D] /\ SumFunction(e) = h[D]
  BY <1>0, SumIs DEF g, h
<1> QED  BY <1>3, <1>4 DEF e

-----------------------------------------------------------------------------
(* Sorting, and the percentiles.                                           *)

\* The order of the natural numbers, as a relation.
Below == OpToRel(<, Nat)

LEMMA BelowIs == Below = {ss \in Nat \X Nat : ss[1] < ss[2]} /\ IsWellFoundedOn(Below, Nat)
  BY NatLessThanWellFounded DEF Below, OpToRel

\* The orders of a set.
LEMMA OrderIs ==
  ASSUME NEW D, NEW p
  PROVE  p \in Bijection(D, D) <=>
           /\ p \in [D -> D]
           /\ \A i, j \in D : p[i] = p[j] => i = j
           /\ \A t \in D : \E i \in D : p[i] = t
  BY DEF Bijection, Injection, Surjection, IsInjective

\* Every sequence of numbers has an order in which it never decreases.
LEMMA SortingExists ==
  ASSUME NEW n \in Nat, NEW s \in [1 .. n -> Nat]
  PROVE  \E p \in Bijection(1 .. n, 1 .. n) :
           \A i, j \in 1 .. n : i < j => s[p[i]] <= s[p[j]]
<1> DEFINE D == 1 .. n
           Orders == Bijection(D, D)
           Along(p) == [i \in D |-> s[p[i]]]
           T == {Along(p) : p \in Orders}
           R == LexProductOrdering(Below, Nat, n)
<1> HIDE DEF Orders
<1>1. \A p : p \in Orders <=>
        /\ p \in [D -> D]
        /\ \A x, y \in D : p[x] = p[y] => x = y
        /\ \A w \in D : \E x \in D : p[x] = w
  <2> HIDE DEF D
  <2> QED  BY OrderIs DEF Orders
<1>2. [i \in D |-> i] \in Orders
  BY <1>1
<1>3. T \subseteq [D -> Nat] /\ T # {}
  <2>1. ASSUME NEW p \in Orders PROVE Along(p) \in [D -> Nat]
    BY <1>1
  <2> QED  BY <1>2, <2>1
<1>4. IsWellFoundedOn(R, [D -> Nat])
  BY BelowIs, WFLexProductOrdering
<1> HIDE DEF R
<1>5. PICK t \in T : \A u \in T : ~(<<u, t>> \in R)
  <2> HIDE DEF T, D
  <2> QED  BY <1>3, <1>4, WFMin
<1>6. PICK p \in Orders : t = Along(p)
  BY <1>5
<1>p. /\ p \in [D -> D]
      /\ \A x, y \in D : p[x] = p[y] => x = y
      /\ \A w \in D : \E x \in D : p[x] = w
  BY <1>1, <1>6
<1>7. ASSUME NEW i \in D, NEW j \in D, i < j, s[p[j]] < s[p[i]] PROVE FALSE
  <2> DEFINE q == [p EXCEPT ![i] = p[j], ![j] = p[i]]
  <2>0. \A a, b \in D : a < b => a # b
    OBVIOUS
  <2>1. p \in [D -> D] /\ i # j
    <3> HIDE DEF D
    <3> QED  BY <1>p, <1>7, <2>0
  <2>2. q \in [D -> D] /\ q[i] = p[j] /\ q[j] = p[i] /\ \A l \in D \ {i, j} : q[l] = p[l]
    BY <2>1
  <2> HIDE DEF q
  <2>3. \A x, y \in D : q[x] = q[y] => x = y
    <3> HIDE DEF D
    <3>1. \A x, y \in D : p[x] = p[y] => x = y
      BY <1>p
    <3>2. \A x \in D : x # i /\ x # j => q[x] = p[x]
      BY <2>2
    <3>3. q[i] = p[j] /\ q[j] = p[i]
      BY <2>2
    <3>4. i \in D /\ j \in D
      BY <1>7
    <3>5. SUFFICES ASSUME NEW x \in D, NEW y \in D, q[x] = q[y] PROVE x = y
      OBVIOUS
    <3>6. CASE x = i
      BY <3>1, <3>2, <3>3, <3>4, <3>5, <3>6
    <3>7. CASE x = j
      BY <3>1, <3>2, <3>3, <3>4, <3>5, <3>7
    <3>8. CASE x # i /\ x # j
      BY <3>1, <3>2, <3>3, <3>4, <3>5, <3>8
    <3> QED  BY <3>6, <3>7, <3>8
  <2>4. ASSUME NEW w \in D PROVE \E x \in D : q[x] = w
    <3>1. PICK x \in D : p[x] = w
      BY <1>p
    <3> QED  BY <2>2, <3>1
  <2>5. q \in Orders
    BY <2>2, <2>3, <2>4, <1>1
  <2>6. Along(q) \in T
    BY <2>5
  <2>7. Along(q) \in [D -> Nat] /\ Along(p) \in [D -> Nat]
    BY <2>1, <2>2
  <2>8. \A l \in 1 .. i - 1 : Along(q)[l] = Along(p)[l]
    <3>1. \A l \in 1 .. i - 1 : l \in D /\ l # i /\ l # j
      BY <1>7
    <3> QED  BY <2>2, <3>1
  <2>9. <<Along(q)[i], Along(p)[i]>> \in Below
    BY <1>7, <2>1, <2>2, BelowIs
  <2>10. <<Along(q), Along(p)>> \in R
    <3> HIDE DEF Along
    <3> QED  BY <2>7, <2>8, <2>9 DEF R, LexProductOrdering
  <2> QED  BY <1>5, <1>6, <2>6, <2>10
<1>8. \A i \in D : s[p[i]] \in Nat
  BY <1>p
<1>9. \A i, j \in D : i < j => s[p[i]] <= s[p[j]]
  BY <1>7, <1>8
<1> QED  BY <1>6, <1>9 DEF Orders

\* What sort_unstable makes of the samples: as many, and never decreasing.
LEMMA SortedIs ==
  ASSUME NEW s \in Seq(Nat)
  PROVE  /\ Sorted(s) \in [1 .. Len(s) -> Nat]
         /\ \A i, j \in 1 .. Len(s) : i <= j => Sorted(s)[i] <= Sorted(s)[j]
<1> DEFINE n == Len(s)
           order == CHOOSE p \in Bijection(DOMAIN s, DOMAIN s) :
                      \A i, j \in DOMAIN s : i < j => s[p[i]] <= s[p[j]]
<1>1. n \in Nat /\ DOMAIN s = 1 .. n /\ s \in [1 .. n -> Nat]
  BY LenProperties
<1>2. \E p \in Bijection(1 .. n, 1 .. n) :
         \A i, j \in 1 .. n : i < j => s[p[i]] <= s[p[j]]
  <2> HIDE DEF n
  <2> QED  BY <1>1, SortingExists
<1>3. /\ order \in Bijection(1 .. n, 1 .. n)
      /\ \A i, j \in 1 .. n : i < j => s[order[i]] <= s[order[j]]
  <2> HIDE DEF n
  <2> QED  BY <1>1, <1>2
<1>4. Sorted(s) = [i \in 1 .. n |-> s[order[i]]]
  <2> HIDE DEF n
  <2> QED  BY <1>1 DEF Sorted
<1> HIDE DEF order
<1>5. \A i \in 1 .. n : order[i] \in 1 .. n
  <2> DEFINE D == 1 .. n
  <2>1. order \in Bijection(D, D)
    BY <1>3
  <2> HIDE DEF D
  <2>2. order \in [D -> D]
    BY <2>1, OrderIs
  <2> QED  BY <2>2 DEF D
<1>6. \A i \in 1 .. n : s[order[i]] \in Nat
  <2> HIDE DEF n
  <2> QED  BY <1>1, <1>5
<1>7. \A i \in 1 .. n : Sorted(s)[i] = s[order[i]]
  <2> HIDE DEF n
  <2> QED  BY <1>4
<1>8. Sorted(s) \in [1 .. n -> Nat]
  <2> HIDE DEF n
  <2> QED  BY <1>4, <1>6
<1>9. ASSUME NEW i \in 1 .. n, NEW j \in 1 .. n, i <= j PROVE Sorted(s)[i] <= Sorted(s)[j]
  <2>1. CASE i = j
    BY <1>6, <1>7, <2>1
  <2>2. CASE i # j
    <3>1. i < j
      BY <1>1, <1>9, <2>2
    <3> QED  BY <1>3, <1>7, <3>1
  <2> QED  BY <2>1, <2>2
<1> QED  BY <1>8, <1>9

\* Where a percentile is taken from, of one sample or more.
Place(m, n) ==
  1 + (IF PercentileIndex(m, n) < m THEN PercentileIndex(m, n) ELSE m - 1)

PlacesFit(m) ==
  /\ {Place(m, 500), Place(m, 990), Place(m, 999)} \subseteq 1 .. m
  /\ Place(m, 500) <= Place(m, 990) /\ Place(m, 990) <= Place(m, 999)

LEMMA PlacesAscend == ASSUME NEW m \in Nat \ {0} PROVE PlacesFit(m)
<1> DEFINE a == (2 * 500 * (m - 1) + 1000) \div 2000
           b == (2 * 990 * (m - 1) + 1000) \div 2000
           c == (2 * 999 * (m - 1) + 1000) \div 2000
<1>1. a \in Nat /\ b \in Nat /\ c \in Nat /\ a <= b /\ b <= c
  OBVIOUS
<1>2. PercentileIndex(m, 500) = a /\ PercentileIndex(m, 990) = b /\ PercentileIndex(m, 999) = c
  BY DEF PercentileIndex
<1> HIDE DEF a, b, c
<1> QED  BY <1>1, <1>2 DEF Place, PlacesFit

LEMMA PercentilesAscend ==
  ASSUME NEW s \in Seq(Nat)
  PROVE  /\ Percentile(Sorted(s), 500) <= Percentile(Sorted(s), 990)
         /\ Percentile(Sorted(s), 990) <= Percentile(Sorted(s), 999)
<1> DEFINE t == Sorted(s)
           m == Len(s)
<1>1. m \in Nat /\ t \in [1 .. m -> Nat]
  BY SortedIs, LenProperties
<1>2. \A i, j \in 1 .. m : i <= j => t[i] <= t[j]
  BY SortedIs
<1> HIDE DEF t, m
<1>3. t \in Seq(Nat) /\ Len(t) = m
  BY <1>1, SeqDef, LenProperties
<1>4. CASE t = <<>>
  BY <1>4 DEF Percentile, t
<1>5. CASE t # <<>>
  <2>1. m # 0
    BY <1>3, <1>5, EmptySeq
  <2>2. \A n : Percentile(t, n) = t[Place(m, n)]
    BY <1>3, <1>5 DEF Percentile, Place
  <2>3. /\ t[Place(m, 500)] <= t[Place(m, 990)]
        /\ t[Place(m, 990)] <= t[Place(m, 999)]
    <3>1. m \in Nat \ {0}
      BY <1>1, <2>1
    <3>2. PlacesFit(m)
      BY <3>1, PlacesAscend
    <3> QED  BY <1>2, <3>2 DEF PlacesFit
  <2> QED  BY <2>2, <2>3 DEF t
<1> QED  BY <1>4, <1>5

-----------------------------------------------------------------------------
(* The numbers of a snapshot.                                              *)

\* The counts by command of the window that is open add up to its samples.
CountsAgree == SumFunction(breakdown) = Len(latencies)

SoundSnapshot(s) ==
  /\ SumFunction(s.breakdown) = s.ops_per_sec
  /\ s.p50_us <= s.p99_us /\ s.p99_us <= s.p999_us

AllSound(l) == \A i \in DOMAIN l : SoundSnapshot(l[i])

SInv == IInv /\ CountsAgree /\ AllSound(log)

LEMMA SoundIs == SnapshotSound <=> AllSound(log)
  BY DEF SnapshotSound, AllSound, SoundSnapshot

\* drain of a window whose counts agree.
LEMMA SnapshotIsSound == ASSUME IInv, CountsAgree PROVE SoundSnapshot(Snapshot)
<1>1. latencies \in Seq(Nat)
  <2>1. latencies \in Seq(Latencies) /\ Latencies \subseteq Nat
    BY WsBridgeAssumption DEF IInv, TypeOK
  <2> QED  BY <2>1, SeqMonotonic
<1>2. /\ Snapshot.breakdown = breakdown
      /\ Snapshot.ops_per_sec = Len(latencies)
      /\ Snapshot.p50_us = Percentile(Sorted(latencies), 500)
      /\ Snapshot.p99_us = Percentile(Sorted(latencies), 990)
      /\ Snapshot.p999_us = Percentile(Sorted(latencies), 999)
  BY DEF Snapshot
<1> QED  BY <1>1, <1>2, PercentilesAscend DEF SoundSnapshot, CountsAgree

LEMMA EmptyAgrees ==
  ASSUME IsFiniteSet(CmdNames) PROVE SumFunction(NoCounts) = 0
  BY SumOfNothing DEF NoCounts

LEMMA RecordAgrees ==
  ASSUME IsFiniteSet(CmdNames), SInv, Record PROVE CountsAgree'
<1>1. /\ queue \in Seq(Event) /\ queue # <<>> /\ breakdown \in [CmdNames -> Int]
      /\ latencies \in Seq(Latencies)
  BY DEF SInv, IInv, TypeOK, Record
<1>2. Head(queue) \in Event
  BY <1>1, HeadTailProperties
<1>3. Head(queue).op \in CmdNames /\ Head(queue).latency_us \in Latencies
  BY <1>2 DEF Event
<1>4. Len(latencies') = Len(latencies) + 1
  BY <1>1, <1>3, AppendProperties DEF Record
<1>5. breakdown' = [breakdown EXCEPT ![Head(queue).op] = @ + 1]
  BY DEF Record
<1>6. SumFunction(breakdown') = SumFunction(breakdown) + 1
  BY <1>1, <1>3, <1>5, SumGrows
<1> QED  BY <1>4, <1>6 DEF SInv, CountsAgree

LEMMA TickAgrees ==
  ASSUME IsFiniteSet(CmdNames), SInv, Tick PROVE CountsAgree' /\ AllSound(log')
<1>1. CountsAgree'
  <2>1. breakdown' = NoCounts /\ Len(latencies') = 0
    BY EmptySeq DEF Tick, Reset
  <2> QED  BY <2>1, EmptyAgrees DEF CountsAgree
<1>2. CASE log' = log
  BY <1>1, <1>2 DEF SInv
<1>3. CASE log' = Append(log, Snapshot)
  <2>1. PICK S : log \in Seq(S)
    BY DEF SInv, IInv, LogOK
  <2>2. log \in Seq(S \cup {Snapshot})
    BY <2>1, SeqMonotonic
  <2>3. /\ DOMAIN log' = 1 .. Len(log) + 1 /\ DOMAIN log = 1 .. Len(log)
        /\ log'[Len(log) + 1] = Snapshot
        /\ \A i \in 1 .. Len(log) : log'[i] = log[i]
        /\ Len(log) \in Nat
    BY <1>3, <2>2, AppendProperties, LenProperties
  <2>4. \A i \in DOMAIN log : SoundSnapshot(log[i])
    BY DEF SInv, AllSound
  <2>5. SoundSnapshot(Snapshot)
    BY SnapshotIsSound DEF SInv
  <2>6. ASSUME NEW i \in DOMAIN log' PROVE SoundSnapshot(log'[i])
    <3>1. i \in DOMAIN log \/ i = Len(log) + 1
      BY <2>3
    <3> QED  BY <2>3, <2>4, <2>5, <3>1
  <2> QED  BY <1>1, <2>6 DEF AllSound
<1> QED  BY <1>1, <1>2, <1>3 DEF Tick

LEMMA OthersAgree ==
  ASSUME SInv, UNCHANGED <<latencies, breakdown, log>> PROVE CountsAgree' /\ AllSound(log')
  BY DEF SInv, CountsAgree

LEMMA SnapshotsKeep ==
  ASSUME IsFiniteSet(CmdNames), SInv, [Next]_vars PROVE SInv'
<1>1. IInv'
  BY NextKeeps DEF SInv
<1>2. CASE Record
  <2>1. AllSound(log')
    BY <1>2 DEF Record, SInv
  <2> QED  BY <1>1, <1>2, <2>1, RecordAgrees DEF SInv
<1>3. CASE Tick
  BY <1>1, <1>3, TickAgrees DEF SInv
<1>4. CASE ~Record /\ ~Tick
  <2>1. UNCHANGED <<latencies, breakdown, log>>
    BY <1>4 DEF Next, vars, TcpAccept, Emit, SenderEnds, Close, WsAccept, Welcome,
                Leaves, Receive, Lagged, Sent, SendFails, OnFailure, aggregatorVars
  <2> QED  BY <1>1, <2>1, OthersAgree DEF SInv
<1> QED  BY <1>2, <1>3, <1>4

\* drain: in every snapshot the counts by command add up to ops_per_sec, which
\* is the number of samples, and p50 <= p99 <= p999.
THEOREM SnapshotsAgree == IsFiniteSet(CmdNames) => (Spec => []SnapshotSound)
<1> SUFFICES ASSUME IsFiniteSet(CmdNames) PROVE Spec => []SnapshotSound
  OBVIOUS
<1>1. Init => SInv
  <2> SUFFICES ASSUME Init PROVE SInv
    OBVIOUS
  <2>1. CountsAgree
    BY EmptyAgrees, EmptySeq DEF Init, CountsAgree
  <2>2. DOMAIN log = {}
    BY DEF Init
  <2> QED  BY <2>1, <2>2, InitEstablishes DEF SInv, AllSound
<1>2. SInv /\ [Next]_vars => SInv'
  BY SnapshotsKeep
<1>3. SInv => SnapshotSound
  BY SoundIs DEF SInv
<1> QED  BY <1>1, <1>2, <1>3, PTL DEF Spec

=============================================================================
