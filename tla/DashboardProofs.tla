--------------------------- MODULE DashboardProofs ---------------------------
(***************************************************************************)
(* Proofs about Dashboard for any length of the history and any number of  *)
(* snapshots: the type invariant, that the hook has one chain of attempts, *)
(* that what a production build shows is true, and that no snapshot is in  *)
(* its history twice.                                                      *)
(***************************************************************************)
EXTENDS Dashboard, FiniteSetTheorems, SequenceTheorems, TLAPS

\* The types TypeOK leaves out.
Typed == TypeOK /\ history \in Seq(Nat)

\* How far the hook has come and how many attempts are under way.
Stage ==
  /\ phase = "out" => /\ Pending = {} /\ timers = {} /\ wsRef = NoId
                      /\ ~connected
  /\ phase \in {"strict", "again"} => strict /\ Chains <= 1
  /\ phase = "again" => ~Connected
  /\ \A s \in Sockets : ready[s] = "closed" => s = wsRef

\* Nothing in the history is newer than what an open socket has brought.
Behind ==
  \A i \in 1 .. Len(history) :
    /\ history[i] <= sent
    /\ ~strict => \A s \in Sockets : ready[s] = "open" => history[i] <= got[s]

IInv == Typed /\ Stage /\ OneChain /\ ShownTruly /\ HistoryOnce /\ Behind

-----------------------------------------------------------------------------
(* Counting.                                                               *)

LEMMA SocketSets ==
  ASSUME NEW S \in SUBSET Sockets PROVE IsFiniteSet(S) /\ Cardinality(S) \in Nat
  BY DashboardAssumption, FS_Subset, FS_CardinalityType

LEMMA TimerSets ==
  ASSUME NEW S \in SUBSET Timers PROVE IsFiniteSet(S) /\ Cardinality(S) \in Nat
  BY DashboardAssumption, FS_Subset, FS_CardinalityType

LEMMA Counts ==
  ASSUME IInv
  PROVE  /\ Pending \in SUBSET Sockets /\ timers \in SUBSET Timers
         /\ IsFiniteSet(Pending) /\ Cardinality(Pending) \in Nat
         /\ IsFiniteSet(timers) /\ Cardinality(timers) \in Nat
         /\ Cardinality(Pending) + Cardinality(timers) <= 2
         /\ ~strict => Cardinality(Pending) + Cardinality(timers) <= 1
<1>1. Pending \in SUBSET Sockets /\ timers \in SUBSET Timers
  BY DEF Pending, IInv, Typed, TypeOK
<1>2. /\ Cardinality(Pending) \in Nat /\ Cardinality(timers) \in Nat
      /\ IsFiniteSet(Pending) /\ IsFiniteSet(timers)
  BY <1>1, SocketSets, TimerSets
<1> QED  BY <1>1, <1>2 DEF IInv, OneChain, Chains

\* A set with room for two more than another has a member outside both.
LEMMA Fresh ==
  ASSUME NEW S, IsFiniteSet(S), Cardinality(S) >= 3,
         NEW L, IsFiniteSet(L), Cardinality(L) <= 1, NEW r
  PROVE  \E t \in S : t \notin L /\ t # r
<1>1. IsFiniteSet(L \cup {r}) /\ Cardinality(L \cup {r}) <= 2
  BY FS_AddElement, FS_CardinalityType
<1>2. CASE S \subseteq L \cup {r}
  BY <1>1, <1>2, FS_Subset, FS_CardinalityType
<1> QED  BY <1>2

\* Two members are too many for a set of one.
LEMMA AtMostOne ==
  ASSUME NEW S, IsFiniteSet(S), Cardinality(S) <= 1, NEW x \in S, NEW y \in S
  PROVE  x = y
<1>1. IsFiniteSet({y}) /\ Cardinality({y}) = 1
  BY FS_Singleton
<1>2. {y} \in SUBSET S /\ Cardinality(S) \in Nat
  BY FS_CardinalityType
<1>3. S = {y}
  BY <1>1, <1>2, FS_Subset
<1> QED  BY <1>3

\* setTimeout adds one timer.
LEMMA ArmAdds ==
  ASSUME IInv, NEW left \in SUBSET Timers, Cardinality(left) <= 1,
         NEW unsettled \in SUBSET Sockets, Arm(left, unsettled)
  PROVE  /\ timers' \in SUBSET Timers /\ reconnectTimer' \in Timers
         /\ older' \in [Timers -> SUBSET Sockets]
         /\ Cardinality(timers') = Cardinality(left) + 1
<1>1. IsFiniteSet(left) /\ Cardinality(left) \in Nat
  BY TimerSets
<1>2. \E t \in Timers : t \notin left /\ t # reconnectTimer
  BY <1>1, DashboardAssumption, Fresh
<1>3. PICK t \in Timers :
        /\ t \notin left
        /\ timers' = left \cup {t} /\ reconnectTimer' = t
        /\ older' = [u \in Timers |-> IF u = t THEN unsettled ELSE older[u] \cap unsettled]
  BY <1>2 DEF Arm
<1>4. Cardinality(timers') = Cardinality(left) + 1
  BY <1>1, <1>3, FS_AddElement
<1>5. older' \in [Timers -> SUBSET Sockets]
  BY <1>3
<1> QED  BY <1>3, <1>4, <1>5

-----------------------------------------------------------------------------
(* connect.                                                                *)

ConnTyped ==
  /\ ready \in [Sockets -> {"none", "connecting", "open", "closing", "closed"}]
  /\ wsRef \in Sockets \cup {NoId}
  /\ got \in [Sockets -> 0 .. MaxTicks]
  /\ timers \in SUBSET Timers
  /\ older \in [Timers -> SUBSET Sockets]
  /\ reconnectTimer \in Timers \cup {NoId}

LEMMA ConnTypes == ASSUME IInv PROVE ConnTyped
  BY DEF IInv, Typed, TypeOK, ConnTyped

LEMMA NewSocketAdds ==
  ASSUME IInv, Cardinality(Pending) <= 1, NewSocket
  PROVE  /\ ready' \in [Sockets -> {"none", "connecting", "open", "closing", "closed"}]
         /\ wsRef' \in Sockets /\ got' \in [Sockets -> 0 .. MaxTicks]
         /\ Cardinality(Pending') = Cardinality(Pending) + 1
         /\ \A q \in Sockets : /\ ready'[q] = "open" <=> ready[q] = "open"
                               /\ ready[q] = "open" => got'[q] = got[q]
                               /\ ready'[q] # "closed"
<1>1. \E s \in Sockets : s \notin Pending /\ s # wsRef
  BY Counts, DashboardAssumption, Fresh
<1>2. \E s \in Sockets : ready[s] = "none"
  BY <1>1, ConnTypes DEF IInv, Stage, Pending, Live, ConnTyped
<1>3. PICK s \in Sockets :
        /\ ready[s] = "none"
        /\ ready' = [q \in Sockets |->
                       IF q = s THEN "connecting"
                       ELSE IF ready[q] = "closed" THEN "none" ELSE ready[q]]
        /\ wsRef' = s
        /\ got' = [got EXCEPT ![s] = 0]
  BY <1>2 DEF NewSocket
<1>4. Pending' = Pending \cup {s} /\ s \notin Pending
  BY <1>3, ConnTypes DEF Pending, Live, ConnTyped
<1>5. Cardinality(Pending') = Cardinality(Pending) + 1
  BY <1>4, Counts, FS_AddElement
<1>6. got' \in [Sockets -> 0 .. MaxTicks]
  BY <1>3, ConnTypes, DashboardAssumption DEF ConnTyped
<1> QED  BY <1>3, <1>5, <1>6, ConnTypes DEF ConnTyped

\* connect adds a socket or a timer, unless it has an open socket.
LEMMA ConnectAdds ==
  ASSUME IInv, NEW left \in SUBSET timers, Cardinality(left) <= 1, Cardinality(Pending) <= 1,
         Connect(left)
  PROVE  /\ ConnTyped' /\ error' \in BOOLEAN
         /\ Cardinality(Pending') + Cardinality(timers') =
              Cardinality(Pending) + Cardinality(left) + IF Connected THEN 0 ELSE 1
         /\ Connected => error' = error
         /\ \A q \in Sockets : /\ ready'[q] = "open" <=> ready[q] = "open"
                               /\ ready[q] = "open" => got'[q] = got[q]
                               /\ ready'[q] = "closed" => q = wsRef'
<1>1. ConnTyped /\ left \in SUBSET Timers
  BY ConnTypes DEF ConnTyped
<1>2. Cardinality(left) \in Nat /\ Cardinality(Pending) \in Nat
  BY <1>1, TimerSets, Counts
<1>3. error \in BOOLEAN
  BY DEF IInv, Typed, TypeOK
<1>4. CASE /\ Connected
           /\ timers' = left
           /\ UNCHANGED <<sockVars, older, reconnectTimer, error>>
  <2>1. /\ ready' = ready /\ wsRef' = wsRef /\ got' = got /\ older' = older
        /\ reconnectTimer' = reconnectTimer /\ error' = error
    BY <1>4 DEF sockVars
  <2>2. Pending' = Pending
    BY <2>1 DEF Pending, Live
  <2>3. ConnTyped'
    BY <1>1, <1>4, <2>1 DEF ConnTyped
  <2> QED  BY <1>2, <1>3, <1>4, <2>1, <2>2, <2>3 DEF IInv, Stage
<1>5. CASE /\ ~Connected /\ server # "blocked"
           /\ NewSocket
           /\ timers' = left
           /\ UNCHANGED <<older, reconnectTimer, error>>
  <2>1. ConnTyped'
    BY <1>1, <1>5, NewSocketAdds DEF ConnTyped
  <2> QED  BY <1>2, <1>3, <1>5, <2>1, NewSocketAdds
<1>6. CASE /\ ~Connected /\ server = "blocked"
           /\ error' = TRUE
           /\ Arm(left, Unsettled)
           /\ UNCHANGED sockVars
  <2>1. ready' = ready /\ wsRef' = wsRef /\ got' = got
    BY <1>6 DEF sockVars
  <2>2. Pending' = Pending /\ Unsettled \in SUBSET Sockets
    BY <2>1 DEF Pending, Live, Unsettled
  <2>3. /\ timers' \in SUBSET Timers /\ reconnectTimer' \in Timers
        /\ older' \in [Timers -> SUBSET Sockets]
        /\ Cardinality(timers') = Cardinality(left) + 1
    BY <1>1, <1>6, <2>2, ArmAdds
  <2>4. ConnTyped'
    BY <1>1, <2>1, <2>3 DEF ConnTyped
  <2>5. Cardinality(Pending') + Cardinality(timers') = Cardinality(Pending) + Cardinality(left) + 1
    BY <1>2, <2>2, <2>3
  <2>6. \A q \in Sockets : /\ ready'[q] = "open" <=> ready[q] = "open"
                           /\ ready[q] = "open" => got'[q] = got[q]
                           /\ ready'[q] = "closed" => q = wsRef'
    BY <2>1 DEF IInv, Stage
  <2> QED  BY <1>6, <2>4, <2>5, <2>6
<1> QED  BY <1>4, <1>5, <1>6 DEF Connect

\* cleanup adds nothing.
LEMMA CleanupAdds ==
  ASSUME IInv, Cleanup
  PROVE  /\ ConnTyped'
         /\ Cardinality(Pending') + Cardinality(timers') <=
              Cardinality(Pending) + Cardinality(timers)
         /\ ~Connected'
         /\ \A q \in Sockets : /\ ready'[q] = "open" => ready[q] = "open" /\ got'[q] = got[q]
                               /\ ready'[q] = "closed" => q = wsRef'
<1>1. ConnTyped
  BY ConnTypes
<1>2. /\ ready' = [s \in Sockets |-> IF s = wsRef /\ Live(s) THEN "closing" ELSE ready[s]]
      /\ timers' = timers \ {reconnectTimer}
      /\ wsRef' = wsRef /\ got' = got /\ older' = older /\ reconnectTimer' = reconnectTimer
  BY DEF Cleanup
<1>3. Pending' = Pending
  BY <1>1, <1>2 DEF Pending, Live
<1>4. timers' \in SUBSET timers
  BY <1>2
<1>5. Cardinality(timers') <= Cardinality(timers) /\ Cardinality(timers') \in Nat
  BY <1>4, Counts, FS_Subset, TimerSets
<1>6. ConnTyped'
  BY <1>1, <1>2 DEF ConnTyped
<1>7. ~Connected'
  BY <1>1, <1>2 DEF Connected, Live, ConnTyped
<1> QED  BY <1>1, <1>2, <1>3, <1>5, <1>6, <1>7, Counts DEF IInv, Stage, ConnTyped

-----------------------------------------------------------------------------
(* Every step.                                                             *)

\* The history is as it was, and who opens brings what is sent from now on.
LEMMA HistoryKept ==
  ASSUME IInv, history' = history, strict' = strict, sent' = sent \/ sent' = sent + 1,
         \A q \in Sockets : ready'[q] = "open" =>
           (ready[q] = "open" /\ got'[q] = got[q]) \/ got'[q] = sent
  PROVE  HistoryOnce' /\ Behind' /\ history' \in Seq(Nat) /\ Len(history') <= HISTORY_SIZE
<1>1. history \in Seq(Nat) /\ Len(history) \in Nat /\ \A i \in 1 .. Len(history) : history[i] \in Nat
  BY LenProperties, ElementOfSeq DEF IInv, Typed
<1>2. sent \in Nat /\ Len(history) <= HISTORY_SIZE
  BY DashboardAssumption DEF IInv, Typed, TypeOK
<1>3. HistoryOnce'
  BY DEF IInv, HistoryOnce, Increasing
<1>4. Behind'
  <2>1. ASSUME NEW i \in 1 .. Len(history)
        PROVE  history[i] <= sent /\ history[i] <= sent'
    BY <1>1, <1>2, <2>1 DEF IInv, Behind
  <2>2. ASSUME ~strict, NEW i \in 1 .. Len(history), NEW s \in Sockets, ready'[s] = "open"
        PROVE  history[i] <= got'[s]
    BY <2>1, <2>2 DEF IInv, Behind
  <2> QED  BY <2>1, <2>2 DEF Behind
<1> QED  BY <1>1, <1>2, <1>3, <1>4

\* Between the events of the page.
LEMMA TypeKept ==
  ASSUME IInv, ConnTyped', UNCHANGED <<strict, server, sent>>,
         phase' \in {"out", "strict", "again", "in", "gone"},
         connected' \in BOOLEAN, error' \in BOOLEAN,
         history' \in Seq(Nat), Len(history') <= HISTORY_SIZE
  PROVE  Typed'
<1>1. /\ strict' \in BOOLEAN
  BY DEF IInv, Typed, TypeOK
<1>2. /\ server' \in {"up", "down", "blocked"} /\ sent' \in 0 .. MaxTicks
  BY DEF IInv, Typed, TypeOK
<1> QED  BY <1>1, <1>2 DEF Typed, TypeOK, ConnTyped

LEMMA Booleans == ASSUME IInv PROVE strict \in BOOLEAN /\ connected \in BOOLEAN /\ error \in BOOLEAN
  BY DEF IInv, Typed, TypeOK

\* The two ways to mount.
LEMMA MountKeeps ==
  ASSUME IInv, Mount \/ StrictMount PROVE IInv'
<1>1. /\ Connect(timers)
      /\ UNCHANGED <<strict, connected, history, server, sent>>
  BY DEF Mount, StrictMount
<1>2. /\ ~Connected /\ Cardinality(Pending) + Cardinality(timers) <= IF strict THEN 1 ELSE 0
      /\ Mount => Pending = {} /\ ~connected
  <2>1. CASE Mount
    <3>1. Pending = {} /\ timers = {} /\ wsRef = NoId /\ ~connected
      BY <2>1 DEF Mount, IInv, Stage
    <3>2. Cardinality(Pending) = 0 /\ Cardinality(timers) = 0
      BY <3>1, FS_EmptySet
    <3> QED  BY <3>1, <3>2 DEF Connected
  <2>2. CASE StrictMount
    BY <2>2 DEF StrictMount, IInv, Stage, Chains, Mount
  <2> QED  BY <2>1, <2>2
<1>3. Cardinality(Pending) <= 1 /\ Cardinality(timers) <= 1
  BY <1>2, Counts
<1>4. /\ ConnTyped' /\ error' \in BOOLEAN
      /\ Cardinality(Pending') + Cardinality(timers') = Cardinality(Pending) + Cardinality(timers) + 1
      /\ \A q \in Sockets : /\ ready'[q] = "open" <=> ready[q] = "open"
                            /\ ready[q] = "open" => got'[q] = got[q]
                            /\ ready'[q] = "closed" => q = wsRef'
  BY <1>1, <1>2, <1>3, ConnectAdds
<1>5. HistoryOnce' /\ Behind' /\ history' \in Seq(Nat) /\ Len(history') <= HISTORY_SIZE
  BY <1>1, <1>4, HistoryKept
<1>6. phase' \in {"strict", "in"} /\ (phase' = "strict" => strict /\ Mount)
  BY Booleans DEF Mount, StrictMount
<1>7. Typed'
  BY <1>1, <1>4, <1>5, <1>6, Booleans, TypeKept
<1>8. Stage' /\ OneChain'
  <2>1. Chains' <= (IF strict THEN 2 ELSE 1) /\ Chains' >= 1
    BY <1>2, <1>4, Counts DEF Chains
  <2>2. phase' = "strict" => Chains' <= 1
    <3>1. Mount => Cardinality(Pending) + Cardinality(timers) = 0
      BY FS_EmptySet DEF Mount, IInv, Stage
    <3> QED  BY <1>4, <1>6, <3>1 DEF Chains
  <2> QED  BY <1>1, <1>4, <1>6, <2>1, <2>2 DEF Stage, OneChain
<1>9. ShownTruly'
  <2>1. CASE Mount
    BY <1>1, <1>2, <1>4, <2>1 DEF ShownTruly, Pending, Live
  <2>2. CASE StrictMount
    BY <1>1, <2>2 DEF ShownTruly, StrictMount, IInv, Stage
  <2> QED  BY <2>1, <2>2
<1> QED  BY <1>5, <1>7, <1>8, <1>9 DEF IInv

\* The two ways to clean up.
LEMMA CleanupKeeps ==
  ASSUME IInv, StrictCleanup \/ Unmount PROVE IInv'
<1>1. Cleanup /\ UNCHANGED <<strict, shownVars, server, sent>>
  BY DEF StrictCleanup, Unmount
<1>2. connected' = connected /\ error' = error /\ history' = history /\ strict' = strict
  BY <1>1 DEF shownVars
<1>3. /\ ConnTyped'
      /\ Cardinality(Pending') + Cardinality(timers') <= Cardinality(Pending) + Cardinality(timers)
      /\ ~Connected'
      /\ \A q \in Sockets : /\ ready'[q] = "open" => ready[q] = "open" /\ got'[q] = got[q]
                            /\ ready'[q] = "closed" => q = wsRef'
  BY <1>1, CleanupAdds
<1>4. HistoryOnce' /\ Behind' /\ history' \in Seq(Nat) /\ Len(history') <= HISTORY_SIZE
  BY <1>1, <1>2, <1>3, HistoryKept
<1>5. phase' \in {"again", "gone"} /\ (phase' = "again" => phase = "strict")
  BY DEF StrictCleanup, Unmount
<1>6. Typed'
  BY <1>1, <1>2, <1>3, <1>4, <1>5, Booleans, TypeKept
<1>7. Stage' /\ OneChain'
  <2>1. Cardinality(Pending') \in Nat /\ Cardinality(timers') \in Nat
    BY <1>3, SocketSets, TimerSets DEF ConnTyped, Pending
  <2>2. Chains' <= Chains /\ Chains \in Nat /\ Chains' \in Nat
    BY <1>3, <2>1, Counts DEF Chains
  <2> QED  BY <1>2, <1>3, <1>5, <2>2 DEF IInv, Stage, OneChain
<1>8. ShownTruly'
  BY <1>5 DEF ShownTruly
<1> QED  BY <1>4, <1>6, <1>7, <1>8 DEF IInv

LEMMA TimerFiresKeeps ==
  ASSUME IInv, NEW t \in Timers, TimerFires(t) PROVE IInv'
<1>1. /\ Connect(timers \ {t}) /\ t \in timers /\ phase \in {"in", "gone"}
      /\ UNCHANGED <<strict, phase, connected, history, server, sent>>
  BY DEF TimerFires, Tasks
<1>2. /\ Cardinality(timers \ {t}) = Cardinality(timers) - 1
      /\ timers \ {t} \in SUBSET timers /\ Cardinality(timers) > 0
  BY <1>1, Counts, FS_RemoveElement, FS_EmptySet
<1>3. Cardinality(timers \ {t}) <= 1 /\ Cardinality(Pending) <= 1
  BY <1>2, Counts
<1>4. /\ ConnTyped' /\ error' \in BOOLEAN
      /\ Cardinality(Pending') + Cardinality(timers') =
           Cardinality(Pending) + (Cardinality(timers) - 1) + IF Connected THEN 0 ELSE 1
      /\ \A q \in Sockets : /\ ready'[q] = "open" <=> ready[q] = "open"
                            /\ ready[q] = "open" => got'[q] = got[q]
                            /\ ready'[q] = "closed" => q = wsRef'
  BY <1>1, <1>2, <1>3, ConnectAdds
<1>5. HistoryOnce' /\ Behind' /\ history' \in Seq(Nat) /\ Len(history') <= HISTORY_SIZE
  BY <1>1, <1>4, HistoryKept
<1>6. Typed'
  BY <1>1, <1>4, <1>5, Booleans, TypeKept
<1>7. Connected => Cardinality(Pending) >= 1
  <2>1. Connected => Pending # {}
    BY DEF Connected, Pending, Live, IInv, Typed, TypeOK
  <2> QED  BY <2>1, Counts, FS_EmptySet
<1>8. Stage' /\ OneChain'
  BY <1>1, <1>2, <1>4, <1>7, Counts DEF IInv, Stage, OneChain, Chains
<1>9. ShownTruly'
  <2>1. ~strict => Pending = {}
    BY <1>2, Counts, FS_EmptySet
  <2> QED  BY <1>1, <1>4, <2>1 DEF IInv, ShownTruly, Pending, Live
<1> QED  BY <1>5, <1>6, <1>8, <1>9 DEF IInv

\* onopen adds nothing.
LEMMA OpenedKeeps ==
  ASSUME IInv, NEW s \in Sockets, Opened(s) PROVE IInv'
<1>1. ConnTyped /\ phase \in {"in", "gone"} /\ ready[s] = "connecting" /\ sent \in 0 .. MaxTicks
  BY ConnTypes DEF Opened, Tasks, IInv, Typed, TypeOK
<1>2. /\ ready' = [ready EXCEPT ![s] = "open"] /\ got' = [got EXCEPT ![s] = sent]
      /\ connected' = TRUE /\ error' = FALSE
      /\ timers' = timers \ {reconnectTimer} /\ reconnectTimer' = NoId
      /\ older' = [t \in Timers |-> older[t] \ {s}]
      /\ UNCHANGED <<strict, phase, wsRef, history, server, sent>>
  BY DEF Opened
<1>3. ConnTyped'
  BY <1>1, <1>2 DEF ConnTyped
<1>4. Pending' = Pending /\ s \in Pending
  BY <1>1, <1>2 DEF Pending, Live, ConnTyped
<1>5. /\ Cardinality(timers') <= Cardinality(timers) /\ Cardinality(timers') \in Nat
      /\ Cardinality(Pending) >= 1
  BY <1>2, <1>4, Counts, FS_Subset, FS_EmptySet, TimerSets
<1>6. HistoryOnce' /\ Behind' /\ history' \in Seq(Nat) /\ Len(history') <= HISTORY_SIZE
  <2>1. \A q \in Sockets : ready'[q] = "open" =>
          (ready[q] = "open" /\ got'[q] = got[q]) \/ got'[q] = sent
    BY <1>1, <1>2 DEF ConnTyped
  <2> QED  BY <1>2, <2>1, HistoryKept
<1>7. Typed'
  BY <1>1, <1>2, <1>3, <1>6, TypeKept
<1>8. Stage' /\ OneChain'
  BY <1>1, <1>2, <1>4, <1>5, Counts DEF IInv, Stage, OneChain, Chains, ConnTyped
<1>9. ShownTruly'
  BY <1>1, <1>2 DEF ShownTruly, ConnTyped
<1> QED  BY <1>6, <1>7, <1>8, <1>9 DEF IInv

\* onclose makes a timer of a socket.
LEMMA OnCloseKeeps ==
  ASSUME IInv, NEW s \in Sockets, NEW failed \in BOOLEAN,
         Tasks, ready[s] \in {"connecting", "open", "closing"}, OnClose(s, failed)
  PROVE  IInv'
<1>1. ConnTyped /\ phase \in {"in", "gone"}
  BY ConnTypes DEF Tasks
<1>2. /\ ready' = [ready EXCEPT ![s] = IF s = wsRef THEN "closed" ELSE "none"]
      /\ got' = [got EXCEPT ![s] = 0]
      /\ connected' = FALSE /\ error' = (error \/ failed)
      /\ Arm(timers, Unsettled \ {s})
      /\ UNCHANGED <<strict, phase, wsRef, history, server, sent>>
  BY DEF OnClose, NotConnected, Reconnect
<1>3. Pending' = Pending \ {s} /\ s \in Pending
  BY <1>1, <1>2 DEF Pending, Live, ConnTyped
<1>4. Cardinality(Pending') = Cardinality(Pending) - 1 /\ Cardinality(Pending) >= 1
  BY <1>3, Counts, FS_RemoveElement, FS_EmptySet
<1>5. Cardinality(timers) <= 1 /\ timers \in SUBSET Timers /\ Unsettled \ {s} \in SUBSET Sockets
  BY <1>4, Counts DEF Unsettled
<1>6. /\ timers' \in SUBSET Timers /\ reconnectTimer' \in Timers
      /\ older' \in [Timers -> SUBSET Sockets]
      /\ Cardinality(timers') = Cardinality(timers) + 1
  BY <1>2, <1>5, ArmAdds
<1>7. ConnTyped'
  BY <1>1, <1>2, <1>6, DashboardAssumption DEF ConnTyped
<1>8. \A q \in Sockets : /\ ready'[q] = "open" => ready[q] = "open" /\ got'[q] = got[q]
                         /\ ready'[q] = "closed" => q = wsRef'
  BY <1>1, <1>2 DEF IInv, Stage, ConnTyped
<1>9. HistoryOnce' /\ Behind' /\ history' \in Seq(Nat) /\ Len(history') <= HISTORY_SIZE
  BY <1>2, <1>8, HistoryKept
<1>10. error' \in BOOLEAN
  BY <1>2
<1>11. Typed'
  BY <1>1, <1>2, <1>7, <1>9, <1>10, TypeKept
<1>12. Stage' /\ OneChain'
  BY <1>1, <1>2, <1>4, <1>6, <1>8, Counts DEF IInv, Stage, OneChain, Chains
<1>13. ShownTruly'
  <2>1. ~strict => Pending' = {}
    <3>1. ~strict => Cardinality(Pending) <= 1
      BY Counts
    <3>2. ~strict => \A q \in Pending : q = s
      BY <1>3, <3>1, Counts, AtMostOne
    <3> QED  BY <1>3, <3>2
  <2> QED  BY <1>2, <2>1 DEF ShownTruly, Pending, Live
<1> QED  BY <1>9, <1>11, <1>12, <1>13 DEF IInv

\* onmessage brings a snapshot newer than all that are there.
LEMMA MessageKeeps ==
  ASSUME IInv, NEW s \in Sockets, Message(s) PROVE IInv'
<1>1. PICK n \in got[s] + 1 .. sent :
        /\ history' = (IF Len(Append(history, n)) > HISTORY_SIZE
                       THEN Slice(Append(history, n)) ELSE Append(history, n))
        /\ got' = [got EXCEPT ![s] = n]
  BY DEF Message, Extended
<1>2. /\ ready[s] = "open" /\ phase \in {"in", "gone"}
      /\ ready' = ready /\ wsRef' = wsRef /\ timers' = timers /\ older' = older
      /\ reconnectTimer' = reconnectTimer
      /\ UNCHANGED <<strict, phase, connected, error, server, sent>>
  BY DEF Message, Tasks, timerVars
<1>3. /\ got \in [Sockets -> 0 .. MaxTicks] /\ sent \in 0 .. MaxTicks /\ MaxTicks \in Nat
      /\ history \in Seq(Nat) /\ Len(history) \in Nat /\ Len(history) <= HISTORY_SIZE
      /\ HISTORY_SIZE \in Nat \ {0}
  BY DashboardAssumption, LenProperties DEF IInv, Typed, TypeOK
<1>4. n \in 1 .. sent /\ n \in Nat /\ n > got[s] /\ n <= sent
  BY <1>3
<1> DEFINE next == Append(history, n)
<1>5. /\ next \in Seq(Nat) /\ Len(next) = Len(history) + 1
      /\ \A i \in 1 .. Len(history) : next[i] = history[i]
      /\ next[Len(history) + 1] = n
  BY <1>3, <1>4, AppendProperties
\* The history afterwards is the last part of what it would be without a limit.
<1>6. PICK k \in {0, 1} :
        /\ history' \in Seq(Nat) /\ Len(history') = Len(history) + 1 - k
        /\ Len(history') <= HISTORY_SIZE
        /\ \A i \in 1 .. Len(history') : history'[i] = next[i + k]
  <2>1. CASE Len(next) > HISTORY_SIZE
    <3>1. Len(next) - HISTORY_SIZE + 1 = 2 /\ Len(history) = HISTORY_SIZE
      BY <1>3, <1>5, <2>1
    <3>2. history' = SubSeq(next, 2, Len(next))
      BY <1>1, <2>1, <3>1 DEF Slice
    <3>3. /\ history' \in Seq(Nat) /\ Len(history') = Len(next) - 1
          /\ \A i \in 1 .. Len(next) - 1 : history'[i] = next[i + 1]
      BY <1>3, <1>5, <3>1, <3>2, SubSeqProperties
    <3> QED  BY <1>3, <1>5, <3>1, <3>3
  <2>2. CASE ~(Len(next) > HISTORY_SIZE)
    BY <1>1, <1>3, <1>5, <2>2
  <2> QED  BY <2>1, <2>2
<1>7. ASSUME ~strict, NEW i \in 1 .. Len(history) PROVE history[i] < n
  <2>1. history[i] <= got[s] /\ history[i] \in Nat
    BY <1>2, <1>3, <1>7, ElementOfSeq DEF IInv, Behind
  <2> QED  BY <1>3, <1>4, <2>1
<1>8. HistoryOnce'
  <2>1. ASSUME ~strict, NEW i \in 1 .. Len(next), NEW j \in 1 .. Len(next), i < j
        PROVE  next[i] < next[j]
    BY <1>3, <1>5, <1>7, <2>1 DEF IInv, HistoryOnce, Increasing
  <2>2. ASSUME ~strict, NEW i \in 1 .. Len(history'), NEW j \in 1 .. Len(history'), i < j
        PROVE  history'[i] < history'[j]
    <3>1. i + k \in 1 .. Len(next) /\ j + k \in 1 .. Len(next) /\ i + k < j + k
      BY <1>3, <1>5, <1>6, <2>2
    <3> QED  BY <1>6, <2>1, <2>2, <3>1
  <2> QED  BY <1>2, <2>2 DEF HistoryOnce, Increasing
<1>9. ~strict => \A q \in Sockets : ready[q] = "open" => q = s
  <2>1. \A q \in Sockets : ready[q] = "open" => q \in Pending
    BY DEF Pending, Live
  <2>2. ~strict => Cardinality(Pending) <= 1
    BY Counts
  <2> QED  BY <1>2, <2>1, <2>2, Counts, AtMostOne
<1>10. Behind'
  <2>1. ASSUME NEW i \in 1 .. Len(next)
        PROVE  next[i] <= sent /\ (~strict => next[i] <= n)
    <3>1. CASE i = Len(history) + 1
      BY <1>3, <1>4, <1>5, <3>1
    <3>2. CASE i \in 1 .. Len(history)
      <4>1. history[i] \in Nat
        BY <1>3, <3>2, ElementOfSeq
      <4> QED  BY <1>4, <1>5, <1>7, <3>2, <4>1 DEF IInv, Behind
    <3> QED  BY <1>3, <1>5, <3>1, <3>2
  <2>2. ASSUME NEW i \in 1 .. Len(history')
        PROVE  history'[i] <= sent /\ (~strict => history'[i] <= n)
    <3>1. i + k \in 1 .. Len(next)
      BY <1>3, <1>5, <1>6
    <3> QED  BY <1>6, <2>1, <3>1
  <2>3. got'[s] = n
    BY <1>1, <1>3
  <2> QED  BY <1>2, <1>9, <2>2, <2>3 DEF Behind
<1>11. Typed'
  <2>1. ConnTyped'
    <3>1. got' \in [Sockets -> 0 .. MaxTicks]
      BY <1>1, <1>3, <1>4
    <3> QED  BY <1>2, <3>1, ConnTypes DEF ConnTyped
  <2> QED  BY <1>2, <1>6, <2>1, Booleans, TypeKept
<1>12. Stage' /\ OneChain' /\ ShownTruly'
  <2>1. Chains' = Chains /\ Connected' = Connected
    BY <1>2 DEF Chains, Pending, Live, Connected
  <2> QED  BY <1>2, <2>1 DEF IInv, Stage, OneChain, ShownTruly
<1> QED  BY <1>8, <1>10, <1>11, <1>12 DEF IInv

\* The bridge ticks, starts and stops.
LEMMA BridgeKeeps ==
  ASSUME IInv, Tick \/ StartOrStop PROVE IInv'
<1>1. /\ UNCHANGED <<strict, phase, sockVars, timerVars, shownVars>>
      /\ server' \in {"up", "down"} \/ server' = server
      /\ sent' = sent \/ (sent' = sent + 1 /\ sent < MaxTicks)
  BY DEF Tick, StartOrStop, Start, Stop
<1>2. /\ ready' = ready /\ wsRef' = wsRef /\ got' = got /\ timers' = timers /\ older' = older
      /\ reconnectTimer' = reconnectTimer /\ history' = history
      /\ UNCHANGED <<strict, phase, connected, error>>
  BY <1>1 DEF sockVars, timerVars, shownVars
<1>3. HistoryOnce' /\ Behind' /\ history' \in Seq(Nat) /\ Len(history') <= HISTORY_SIZE
  BY <1>1, <1>2, HistoryKept
<1>4. Typed'
  <2>1. sent' \in 0 .. MaxTicks /\ server' \in {"up", "down", "blocked"}
    BY <1>1, DashboardAssumption DEF IInv, Typed, TypeOK
  <2>2. strict' \in BOOLEAN /\ connected' \in BOOLEAN /\ error' \in BOOLEAN
    BY <1>2, Booleans
  <2> QED  BY <1>2, <1>3, <2>1, <2>2 DEF IInv, Typed, TypeOK
<1>5. Stage' /\ OneChain' /\ ShownTruly'
  <2>1. Chains' = Chains /\ Pending' = Pending /\ Connected' = Connected
    BY <1>2 DEF Chains, Pending, Live, Connected
  <2> QED  BY <1>2, <2>1 DEF IInv, Stage, OneChain, ShownTruly
<1> QED  BY <1>3, <1>4, <1>5 DEF IInv

-----------------------------------------------------------------------------
(* The theorems.                                                           *)

LEMMA InitHolds == Init => IInv
<1> SUFFICES ASSUME Init PROVE IInv
  OBVIOUS
<1>1. Typed
  <2>1. strict \in BOOLEAN /\ connected \in BOOLEAN /\ error \in BOOLEAN
    BY DashboardAssumption DEF Init
  <2>2. history \in Seq(Nat) /\ Len(history) <= HISTORY_SIZE
    BY DashboardAssumption DEF Init
  <2>3. /\ got \in [Sockets -> 0 .. MaxTicks] /\ sent \in 0 .. MaxTicks
        /\ older \in [Timers -> SUBSET Sockets]
        /\ ready \in [Sockets -> {"none", "connecting", "open", "closing", "closed"}]
    BY DashboardAssumption DEF Init
  <2> QED  BY <2>1, <2>2, <2>3 DEF Init, Typed, TypeOK
<1>2. Pending = {} /\ timers = {} /\ phase = "out" /\ ~connected /\ wsRef = NoId
  BY DEF Init, Pending, Live
<1>3. Chains = 0
  BY <1>2, FS_EmptySet DEF Chains
<1>4. Stage /\ OneChain /\ ShownTruly
  BY <1>2, <1>3 DEF Init, Stage, OneChain, ShownTruly
<1>5. HistoryOnce /\ Behind
  BY DEF Init, HistoryOnce, Increasing, Behind
<1> QED  BY <1>1, <1>4, <1>5 DEF IInv

LEMMA NextKeeps == ASSUME IInv, [Next]_vars PROVE IInv'
<1>1. ASSUME NEW s \in Sockets, Event(s) PROVE IInv'
  BY <1>1, OpenedKeeps, MessageKeeps, OnCloseKeeps DEF Event, Fails, Lost, Ended, Closed
<1>2. CASE UNCHANGED vars
  <2>1. Chains' = Chains /\ Pending' = Pending /\ Connected' = Connected
    BY <1>2 DEF vars, sockVars, Chains, Pending, Live, Connected, timerVars
  <2> QED  BY <1>2, <2>1 DEF vars, sockVars, timerVars, shownVars, IInv, Typed, TypeOK, Stage,
             OneChain, ShownTruly, HistoryOnce, Increasing, Behind
<1> QED  BY <1>1, <1>2, MountKeeps, CleanupKeeps, TimerFiresKeeps, BridgeKeeps DEF Next

LEMMA Inductive == Spec => []IInv
  BY InitHolds, NextKeeps, PTL DEF Spec

\* For any length of the history, the history never exceeds it, and the hook
\* always finds its socket and its timer.
THEOREM TypeCorrect == Spec => []TypeOK
<1>1. IInv => TypeOK
  BY DEF IInv, Typed
<1> QED  BY <1>1, Inductive, PTL

\* However sockets open, fail and close, timers fire and the page comes and goes,
\* one chain of attempts goes on, two at most under StrictMode.
THEOREM ChainKept == Spec => []OneChain
<1>1. IInv => OneChain
  BY DEF IInv
<1> QED  BY <1>1, Inductive, PTL

\* In a production build the page shows "connected" exactly while a socket is
\* open.
THEOREM ShowsTruth == Spec => []ShownTruly
<1>1. IInv => ShownTruly
  BY DEF IInv
<1> QED  BY <1>1, Inductive, PTL

\* In a production build no snapshot gets into the history twice or late, for any
\* HISTORY_SIZE and over any number of connections.
THEOREM NothingTwice == Spec => []HistoryOnce
<1>1. IInv => HistoryOnce
  BY DEF IInv
<1> QED  BY <1>1, Inductive, PTL

=============================================================================
