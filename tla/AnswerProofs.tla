---------------------------- MODULE AnswerProofs ----------------------------
(***************************************************************************)
(* Proofs about the answers of HashMap when only one process calls set:    *)
(* what an operation answers was true at some moment of its call.          *)
(***************************************************************************)
EXTENDS HashMapHistory, HashMapProofs

WasHeld(p) == \E m \in seen[p] : m.held

-----------------------------------------------------------------------------
(* What happens to a key while a call on it runs.                          *)

\* A slot comes to hold a key only while no other does.
NewAlone ==
  \A i \in Slots, k \in Keys :
    Holds(i, k)' => Holds(i, k) \/ \A j \in Slots : ~Holds(j, k)

LEMMA NextNewAlone ==
  ASSUME IInv, WholeInv, UInv, [Next]_vars PROVE NewAlone
<1>1. NoNew => NewAlone
  BY DEF NoNew, NewAlone
<1>2. ASSUME UNCHANGED <<state, key_buf>> PROVE NewAlone
  BY <1>2 DEF NewAlone, Holds
<1>3. ASSUME NEW p \in Procs, Call(p) \/ Crash(p) \/ FlushCount(p) PROVE NewAlone
  BY <1>2, <1>3 DEF Call, CallGet, CallSet, CallDel, CallFlush, Start, Crash, FlushCount, slotVars
<1>4. ASSUME NEW p \in Procs, FlushSlot(p) PROVE NewAlone
  <2>1. \A i \in Slots :
          \/ state'[i] = STATE_EMPTY
          \/ state'[i] = state[i] /\ key_buf'[i] = key_buf[i]
    BY <1>4 DEF FlushSlot, IInv, TypeOK
  <2> QED  BY <2>1 DEF NewAlone, Holds, STATE_EMPTY, STATE_OCCUPIED
<1>5. ASSUME NEW p \in Procs,
             WriteKey(p) \/ WriteVal(p) \/ WriteFp(p) \/ WriteExp(p) \/ Publish(p)
      PROVE  NewAlone
  <2>1. /\ pc[p] \in Claiming /\ Target(p) \in Slots /\ state[Target(p)] # STATE_OCCUPIED
    <3>1. Active(p) /\ pc[p] \in Claiming
      BY <1>5 DEF WriteKey, WriteVal, WriteFp, WriteExp, Publish, Active, Claiming
    <3> QED  BY <3>1, SlotsInTable DEF WholeInv, Owned
  <2>2. CASE Publish(p)
    <3>1. /\ key_buf' = key_buf /\ key_buf[Target(p)] = Both(arg[p].key)
          /\ state' = [state EXCEPT ![Target(p)] = STATE_OCCUPIED]
          /\ \A i \in Slots : ~Holds(i, arg[p].key)
      BY <2>1, <2>2 DEF Publish, WholeInv, Owned, UInv, Absent, Claiming
    <3>2. \A k : Both(k)[1] = k
      BY DEF Both
    <3> SUFFICES ASSUME NEW i \in Slots, NEW k \in Keys, Holds(i, k)', ~Holds(i, k)
                 PROVE  \A j \in Slots : ~Holds(j, k)
      BY DEF NewAlone
    <3>3. i = Target(p)
      BY <3>1 DEF Holds, IInv, TypeOK
    <3>4. k = arg[p].key
      BY <3>1, <3>2, <3>3 DEF Holds
    <3> QED  BY <3>1, <3>4
  <2>3. CASE ~Publish(p)
    <3>1. /\ state' = state
          /\ \A i \in Slots : i # Target(p) => key_buf'[i] = key_buf[i]
      BY <1>5, <2>3 DEF WriteKey, WriteVal, WriteFp, WriteExp, IInv, TypeOK
    <3> QED  BY <2>1, <3>1 DEF NewAlone, Holds
  <2> QED  BY <2>2, <2>3
<1>6. CASE Tick \/ UNCHANGED vars
  BY <1>2, <1>6 DEF Tick, vars, slotVars
<1> QED  BY <1>1, <1>3, <1>4, <1>5, <1>6, MostErode, ErodesNoNew DEF Next, Step

\* An entry that is live before and after a step is the same one.
LEMMA LiveStays ==
  ASSUME IInv, WholeInv, UInv, [Next]_vars, NEW k \in Keys, Live(k) # {}
  PROVE  Live(k)' \subseteq Live(k)
<1> SUFFICES ASSUME NEW i \in Live(k)' PROVE i \in Live(k)
  OBVIOUS
<1>1. PICK j \in Slots : j \in Live(k) /\ Holds(j, k)
  BY DEF Live, Holds
<1>2. i \in Slots /\ Holds(i, k)'
  BY DEF Live, Holds, Slots
<1>3. Holds(i, k)
  BY <1>1, <1>2, NextNewAlone DEF NewAlone
<1> QED  BY <1>1, <1>2, <1>3 DEF UInv, UniqueKey, Holds

\* A key has one live entry.
LEMMA OneLive ==
  ASSUME UInv, NEW k, NEW i \in Live(k), NEW j \in Slots, Holds(j, k) PROVE j = i
  BY DEF Live, UInv, UniqueKey, Holds

-----------------------------------------------------------------------------
(* The history of a running call.                                          *)

Current(p) == Active(p) => Moment(arg[p].key) \in seen[p]

\* A running call remembers its moments, and the new one is added.
LEMMA Recorded ==
  ASSUME Record, NEW p \in Procs, Active(p)'
  PROVE  /\ Current(p)'
         /\ WasAbsent(p) => WasAbsent(p)'
         /\ WasHeld(p) => WasHeld(p)'
         /\ Live(arg[p].key)' = {} => WasAbsent(p)'
         /\ Live(arg[p].key)' # {} => WasHeld(p)'
<1>1. seen'[p] = seen[p] \cup {Moment(arg[p].key)'}
  BY DEF Record, Running, Active
<1>2. Moment(arg[p].key)' \in seen'[p] /\ \A m \in seen[p] : m \in seen'[p]
  BY <1>1
<1>3. Moment(arg[p].key)'.held <=> Live(arg[p].key)' # {}
  BY DEF Moment, Live, IsExpired
<1> QED  BY <1>2, <1>3 DEF Current, WasAbsent, WasHeld

\* The current moment is one of them.
LEMMA AbsentNow ==
  ASSUME NEW p \in Procs, Current(p), Active(p), Live(arg[p].key) = {} PROVE WasAbsent(p)
  BY DEF Current, WasAbsent, Moment

LEMMA HeldNow ==
  ASSUME NEW p \in Procs, Current(p), Active(p), Live(arg[p].key) # {} PROVE WasHeld(p)
  BY DEF Current, WasHeld, Moment

\* A lookup has passed no live entry of its key, unless it was absent once.
Missed(p) ==
  Active(p) =>
    \/ WasAbsent(p)
    \/ \A j \in 0 .. N - 1 : j < probe[p] => At(arg[p].key, j) \notin Live(arg[p].key)

\* SET claims a slot for a key that was absent.
Inserting(p) == pc[p] \in Claiming \cup {"count"} => WasAbsent(p)

\* GET evicts the entry of its own key, unless it was absent once.
Evicting(p) ==
  arg[p].op = "get" =>
    /\ pc[p] = "fp" =>
         \/ WasAbsent(p)
         \/ Idx(p) \in Live(arg[p].key)
         \/ fingerprint[Idx(p)] # Fp[arg[p].key]
    /\ pc[p] \in {"expiry", "clock", "evict"} =>
         WasAbsent(p) \/ Idx(p) \in Live(arg[p].key)

\* SET updates an entry that was live: what it examines nobody else writes.
Updating(p) ==
  arg[p].op = "set" =>
    /\ pc[p] \in {"fp", "expiry", "clock"} =>
         (key_buf[Idx(p)] = Both(arg[p].key) /\ ~IsExpired(Idx(p)) => WasHeld(p))
    /\ pc[p] = "clock" => loaded[p] = expires_at[Idx(p)] /\ loaded[p] # 0
    /\ pc[p] = "key" =>
         /\ key_buf[Idx(p)] = Both(arg[p].key) => WasHeld(p)
         /\ half[p] = 2 => key_buf[Idx(p)][1] = arg[p].key
    /\ pc[p] \in {"update", "update_exp"} => WasHeld(p)

Sound(p) == Current(p) /\ Missed(p) /\ Inserting(p) /\ Evicting(p) /\ Updating(p)

HInv == \A p \in Procs : Sound(p)

\* What everybody relies on in a step.
Ground == IInv /\ WholeInv /\ UInv /\ WholeInv' /\ UInv' /\ [Next]_vars /\ Record

-----------------------------------------------------------------------------
(* The steps of others.                                                    *)

\* What SET examines stays, whoever else takes a step.
Spared(q) ==
  /\ key_buf' = key_buf /\ fingerprint' = fingerprint /\ expires_at' = expires_at
  /\ now' >= now
  /\ \A i \in Slots : state[i] # STATE_OCCUPIED => state'[i] # STATE_OCCUPIED

LEMMA OthersSpare ==
  ASSUME OneSetter, IInv, WholeInv, NEW q \in Procs, Active(q), arg[q].op = "set",
         \/ \E p \in Procs : p # q /\ (Step(p) \/ Call(p) \/ Crash(p))
         \/ Tick \/ UNCHANGED vars
  PROVE  Spared(q)
<1>0. now \in Nat
  BY DEF IInv, TypeOK
<1>1. ASSUME UNCHANGED slotVars, now' = now \/ now' = now + 1 PROVE Spared(q)
  BY <1>0, <1>1 DEF slotVars, Spared
<1>2. CASE Tick \/ UNCHANGED vars
  BY <1>1, <1>2 DEF Tick, vars
<1>3. ASSUME NEW p \in Procs, p # q, Call(p) \/ Crash(p) PROVE Spared(q)
  BY <1>1, <1>3 DEF Call, CallGet, CallSet, CallDel, CallFlush, Start, Crash
<1>4. ASSUME NEW p \in Procs, p # q, Step(p) PROVE Spared(q)
  <2>1. arg[p].op # "set" /\ pc[p] # "flush"
    BY <1>4 DEF OneSetter, WholeInv, Labelled, IInv, Exclusive, Active
  <2>2. pc[p] \notin Claiming \cup {"update", "update_exp", "count"}
    BY <2>1 DEF WholeInv, Labelled
  <2>3. ~(\/ FlushSlot(p) \/ FlushCount(p) \/ UpdateValue(p) \/ UpdateExpiry(p)
          \/ WriteKey(p) \/ WriteVal(p) \/ WriteFp(p) \/ WriteExp(p) \/ Publish(p)
          \/ CountInsert(p))
    BY <2>1, <2>2
       DEF FlushSlot, FlushCount, UpdateValue, UpdateExpiry, WriteKey, WriteVal, WriteFp,
           WriteExp, Publish, CountInsert, Claiming
  <2>4. CASE Evict(p) \/ DelCas(p)
    <3>1. Erodes
      BY <2>4, MostErode
    <3>2. expires_at' = expires_at /\ now' = now
      BY <2>4 DEF Evict, DelCas, Other
    <3> QED  BY <1>0, <3>1, <3>2 DEF Spared, Erodes, STATE_OCCUPIED, STATE_TOMBSTONE
  <2>5. CASE ReadValue(p) \/ DelCount(p) \/ ReadClock(p) \/ LoadExpiry(p)
    BY <1>1, <2>5 DEF ReadValue, DelCount, ReadClock, LoadExpiry
  <2> QED
    BY <1>1, <1>4, <2>3, <2>4, <2>5
       DEF Step, ProbeEmpty, ProbeTombstone, ProbeOccupied, LoadFingerprint, CompareKey, Reads
<1> QED  BY <1>2, <1>3, <1>4

\* A fingerprint is written for a key only while it has no entry.
LEMMA FreshPrints ==
  ASSUME DistinctHashes, IInv, WholeInv, UInv, [Next]_vars, NEW q \in Procs, Active(q),
         NEW i \in Slots, fingerprint[i] # Fp[arg[q].key], fingerprint'[i] = Fp[arg[q].key]
  PROVE  Live(arg[q].key) = {}
<1>1. PICK p \in Procs : WriteFp(p)
  <2>1. \A p \in Procs : ~FlushSlot(p)
    BY DEF FlushSlot, IInv, Exclusive, Active
  <2>2. fingerprint' # fingerprint
    OBVIOUS
  <2> QED
    BY <2>1, <2>2
       DEF Next, Step, vars, slotVars, ProbeEmpty, ProbeTombstone, ProbeOccupied,
           LoadFingerprint, LoadExpiry, ReadClock, Evict, CompareKey, ReadValue, UpdateValue,
           UpdateExpiry, DelCas, DelCount, WriteKey, WriteVal, WriteFp, WriteExp, Publish,
           CountInsert, FlushCount, Reads, Call, CallGet, CallSet, CallDel, CallFlush, Start,
           Crash, Tick
<1>2. pc[p] \in Claiming /\ Active(p)
  BY <1>1 DEF WriteFp, Claiming, Active
<1>3. arg[p].key = arg[q].key
  <2>1. fingerprint'[i] = Fp[arg[p].key]
    BY <1>1 DEF WriteFp, IInv, TypeOK
  <2> QED  BY <1>2, <2>1, SlotsInTable DEF DistinctHashes
<1> QED  BY <1>2, <1>3 DEF UInv, Absent, Live, Holds

\* A key that was never absent has had one entry all the time.
LEMMA SameEntry ==
  ASSUME Ground, NEW q \in Procs, Active(q), Active(q)', arg'[q] = arg[q],
         Current(q), ~WasAbsent(q)', NEW k, k = arg[q].key
  PROVE  /\ ~WasAbsent(q) /\ k \in Keys
         /\ Live(k)' = Live(k) /\ Live(k) # {} /\ Live(arg[q].key)' = Live(k)
<1>1. k \in Keys
  BY DEF Ground, IInv, Busy
<1>2. Live(arg[q].key)' = Live(k)'
  BY DEF Live, IsExpired, Slots
<1>3. ~WasAbsent(q) /\ Live(k)' # {}
  BY <1>2, Recorded DEF Ground
<1>4. Live(k) # {}
  BY <1>3, AbsentNow
<1>5. Live(k)' \subseteq Live(k)
  BY <1>1, <1>4, LiveStays DEF Ground
<1>6. ASSUME NEW i \in Live(k), NEW j \in Live(k) PROVE i = j
  BY OneLive DEF Ground, Live, Holds
<1>7. Live(k)' = Live(k)
  BY <1>3, <1>5, <1>6
<1> QED  BY <1>1, <1>2, <1>3, <1>4, <1>7

LEMMA RestSound == ASSUME NEW q \in Procs, ~Active(q)' PROVE Sound(q)'
  BY DEF Sound, Current, Missed, Inserting, Evicting, Updating, Active, Claiming

\* What q knows survives a step of somebody else.
LEMMA OthersSound ==
  ASSUME DistinctHashes, OneSetter, Ground, NEW q \in Procs, Sound(q), Active(q),
         \/ \E p \in Procs : p # q /\ (Step(p) \/ Call(p) \/ Crash(p))
         \/ Tick \/ UNCHANGED vars
  PROVE  Sound(q)'
<1>1. /\ pc'[q] = pc[q] /\ arg'[q] = arg[q] /\ probe'[q] = probe[q] /\ half'[q] = half[q]
      /\ first_tombstone'[q] = first_tombstone[q] /\ loaded'[q] = loaded[q]
  BY StepBeside DEF Beside, Tick, vars, opVars, Ground
<1>2. Active(q)' /\ Idx(q)' = Idx(q)
  BY <1>1 DEF Active, Idx
<1>3. PICK k : k = arg[q].key
  OBVIOUS
<1>4. /\ Current(q)' /\ (WasAbsent(q) => WasAbsent(q)') /\ (WasHeld(q) => WasHeld(q)')
  BY <1>2, Recorded DEF Ground
<1>5. ASSUME ~WasAbsent(q)'
      PROVE  /\ ~WasAbsent(q) /\ k \in Keys /\ Live(k) # {} /\ Live(arg[q].key)' = Live(k)
  BY <1>1, <1>2, <1>3, <1>5, SameEntry DEF Sound
<1>6. Missed(q)'
  <2> SUFFICES ASSUME ~WasAbsent(q)', NEW j \in 0 .. N - 1, j < probe[q]
               PROVE  At(k, j) \notin Live(arg[q].key)'
    BY <1>1, <1>3 DEF Missed
  <2> QED  BY <1>3, <1>5 DEF Sound, Missed
<1>7. Inserting(q)'
  BY <1>1, <1>4 DEF Sound, Inserting
<1>8. Evicting(q)'
  <2> SUFFICES ASSUME ~WasAbsent(q)', arg[q].op = "get"
               PROVE  /\ pc[q] = "fp" =>
                           \/ Idx(q) \in Live(arg[q].key)'
                           \/ fingerprint'[Idx(q)] # Fp[k]
                      /\ pc[q] \in {"expiry", "clock", "evict"} => Idx(q) \in Live(arg[q].key)'
    BY <1>1, <1>2, <1>3 DEF Evicting
  <2>1. CASE Idx(q) \in Live(k)
    BY <1>5, <2>1
  <2>2. CASE pc[q] = "fp" /\ fingerprint[Idx(q)] # Fp[k]
    <3>1. Idx(q) \in Slots
      BY SlotsInTable DEF Ground
    <3>2. fingerprint'[Idx(q)] # Fp[k]
      BY <1>3, <1>5, <2>2, <3>1, FreshPrints DEF Ground
    <3> QED  BY <2>2, <3>2
  <2> QED  BY <1>3, <1>5, <2>1, <2>2 DEF Sound, Evicting
<1>9. Updating(q)'
  <2> SUFFICES ASSUME arg[q].op = "set" PROVE Updating(q)'
    BY <1>1 DEF Updating
  <2>1. Spared(q)
    BY OthersSpare DEF Ground
  <2>2. IsExpired(Idx(q)) => expires_at[Idx(q)] # 0 /\ now' >= expires_at[Idx(q)]
    <3>1. expires_at[Idx(q)] \in Nat /\ now \in Nat
      BY SlotsInTable DEF Ground, IInv, TypeOK
    <3>2. now' \in Nat
      BY NextKeepsInv DEF Ground, IInv, TypeOK
    <3> QED  BY <2>1, <3>1, <3>2 DEF IsExpired, Spared
  <2>3. IsExpired(Idx(q)) => IsExpired(Idx(q))'
    BY <1>2, <2>1, <2>2 DEF IsExpired, Spared
  <2> QED
    BY <1>1, <1>2, <1>4, <2>1, <2>3 DEF Sound, Updating, Spared
<1> QED  BY <1>4, <1>6, <1>7, <1>8, <1>9 DEF Sound

-----------------------------------------------------------------------------
(* The steps of one's own.                                                 *)

\* The slot at hand has not both the bytes and the hash of the key.
Differs(p) ==
  key_buf[Idx(p)] # Both(arg[p].key) \/ fingerprint[Idx(p)] # Fp[arg[p].key]

\* It holds no live entry of the key.
RuledOut(p) == state[Idx(p)] # STATE_OCCUPIED \/ Differs(p)

\* An operation stays at its slot, ends, or passes a slot it has ruled out.
LEMMA OwnMoves ==
  ASSUME IInv, WholeInv, NEW p \in Procs, Step(p), Active(p)
  PROVE  \/ \E l, h : Jumped(p, l, h) /\ (l = "count" => Publish(p))
         \/ \E r : Returned(p, r)
         \/ \E tomb : /\ Advance(p, tomb)
                      /\ UNCHANGED <<state, key_buf, fingerprint>> /\ RuledOut(p)
         \/ \E tomb : Advance(p, tomb) /\ state'[Idx(p)] # STATE_OCCUPIED
<1> DEFINE Goal == \/ \E l, h : Jumped(p, l, h) /\ (l = "count" => Publish(p))
                   \/ \E r : Returned(p, r)
                   \/ \E tomb : /\ Advance(p, tomb)
                                /\ UNCHANGED <<state, key_buf, fingerprint>> /\ RuledOut(p)
                   \/ \E tomb : Advance(p, tomb) /\ state'[Idx(p)] # STATE_OCCUPIED
<1>1. ASSUME NEW l, Goto(p, l), l # "count" \/ Publish(p) PROVE Goal
  <2>1. Jumped(p, l, 1)
    BY <1>1, GotoJumps
  <2> QED  BY <1>1, <2>1
<1>2. ASSUME NEW l, CopyThen(p, l), l # "count", pc[p] # "count" PROVE Goal
  <2>1. Jumped(p, pc[p], 2) \/ Jumped(p, l, 1)
    BY <1>2, CopyJumps
  <2> QED  BY <1>2, <2>1
<1>3. ASSUME NEW r, Return(p, r) PROVE Goal
  <2>1. Returned(p, r)
    BY <1>3, ReturnReturns
  <2> QED  BY <2>1
<1>4. ASSUME NEW tomb, Advance(p, tomb), UNCHANGED <<state, key_buf, fingerprint>>, RuledOut(p)
      PROVE  Goal
  BY <1>4
<1> SUFFICES Goal
  OBVIOUS
<1> HIDE DEF Goal
<1>5. CASE ProbeEmpty(p)
  BY <1>1, <1>3, <1>5 DEF ProbeEmpty
<1>6. CASE ProbeTombstone(p)
  <2>1. RuledOut(p) /\ UNCHANGED <<state, key_buf, fingerprint>>
    BY <1>6 DEF ProbeTombstone, RuledOut, Differs, Reads, slotVars, STATE_OCCUPIED, STATE_TOMBSTONE
  <2> QED  BY <1>4, <1>6, <2>1 DEF ProbeTombstone, PassTombstone, Continue
<1>7. CASE LoadFingerprint(p)
  <2>1. UNCHANGED <<state, key_buf, fingerprint>>
    BY <1>7 DEF LoadFingerprint, Reads, slotVars
  <2> QED  BY <1>1, <1>4, <1>7, <2>1 DEF LoadFingerprint, Continue, RuledOut, Differs
<1>8. CASE CompareKey(p)
  <2>1. UNCHANGED <<state, key_buf, fingerprint>> /\ pc[p] # "count"
    BY <1>8 DEF CompareKey, Reads, slotVars
  <2>2. key_buf[Idx(p)][half[p]] # arg[p].key => RuledOut(p)
    BY DEF RuledOut, Differs, Both, IInv, TypeOK
  <2> QED  BY <1>2, <1>4, <1>8, <2>1, <2>2 DEF CompareKey, Continue
<1>9. CASE DelCas(p)
  <2>1. UNCHANGED <<key_buf, fingerprint>>
    BY <1>9 DEF DelCas
  <2> QED  BY <1>1, <1>4, <1>9, <2>1 DEF DelCas, Continue, RuledOut, Differs
<1>10. CASE Evict(p)
  <2>1. state'[Idx(p)] # STATE_OCCUPIED
    BY <1>10, SlotsInTable DEF Evict, IInv, TypeOK, Tombstoned, STATE_TOMBSTONE, STATE_OCCUPIED
  <2> QED  BY <1>3, <1>10, <2>1 DEF Evict, Goal
<1>11. CASE ProbeOccupied(p) \/ LoadExpiry(p) \/ ReadClock(p) \/ WriteFp(p) \/ WriteExp(p)
              \/ Publish(p)
  BY <1>1, <1>11 DEF ProbeOccupied, LoadExpiry, ReadClock, WriteFp, WriteExp, Publish, After
<1>12. CASE UpdateValue(p) \/ WriteKey(p) \/ WriteVal(p)
  BY <1>2, <1>12 DEF UpdateValue, WriteKey, WriteVal, After
<1>13. CASE ReadValue(p)
  BY <1>2, <1>3, <1>13 DEF ReadValue, CopyThen
<1>14. CASE UpdateExpiry(p) \/ DelCount(p) \/ CountInsert(p)
  BY <1>3, <1>14 DEF UpdateExpiry, DelCount, CountInsert
<1>15. ~FlushSlot(p) /\ ~FlushCount(p)
  BY DEF FlushSlot, FlushCount, Active
<1> QED
  BY <1>5, <1>6, <1>7, <1>8, <1>9, <1>10, <1>11, <1>12, <1>13, <1>14, <1>15 DEF Step

LEMMA OwnMissed ==
  ASSUME Ground, NEW p \in Procs, Step(p), Active(p), Active(p)', Sound(p)
  PROVE  arg'[p] = arg[p] /\ Missed(p)' /\ Inserting(p)'
<1>1. ~(\E r : Returned(p, r))
  BY DEF Returned, Active
<1>2. /\ arg'[p] = arg[p] /\ probe[p] \in Nat /\ arg[p].key \in Keys
      /\ \/ probe'[p] = probe[p] /\ (pc'[p] = "count" => Publish(p))
         \/ /\ probe'[p] = probe[p] + 1 /\ pc'[p] # "count"
            /\ \/ state'[Idx(p)] # STATE_OCCUPIED
               \/ key_buf'[Idx(p)] # Both(arg[p].key)
               \/ fingerprint'[Idx(p)] # Fp[arg[p].key]
  <2>1. probe[p] \in Nat /\ arg[p].key \in Keys
    BY SlotsInTable, HashMapAssumption DEF Ground
  <2>2. CASE \E l, h : Jumped(p, l, h) /\ (l = "count" => Publish(p))
    BY <2>1, <2>2 DEF Jumped
  <2>3. ASSUME NEW tomb, Advance(p, tomb),
               \/ state'[Idx(p)] # STATE_OCCUPIED
               \/ key_buf'[Idx(p)] # Both(arg[p].key)
               \/ fingerprint'[Idx(p)] # Fp[arg[p].key]
        PROVE  /\ arg'[p] = arg[p] /\ probe'[p] = probe[p] + 1 /\ pc'[p] # "count"
    <3>1. Moved(p, "probe", tomb) \/ Moved(p, "write_key", tomb)
      BY <1>1, <2>3, AdvanceMoves DEF Ground
    <3> QED  BY <3>1 DEF Moved
  <2> QED  BY <1>1, <2>1, <2>2, <2>3, OwnMoves DEF Ground, RuledOut, Differs
<1>3. PICK k : k = arg[p].key
  OBVIOUS
<1>4. Missed(p)'
  <2> SUFFICES ASSUME ~WasAbsent(p)', NEW j \in 0 .. N - 1, j < probe'[p]
               PROVE  At(k, j) \notin Live(arg[p].key)'
    BY <1>2, <1>3 DEF Missed
  <2>1. ~WasAbsent(p) /\ Live(arg[p].key)' = Live(k) /\ Live(k)' = Live(k)
    BY <1>2, <1>3, SameEntry DEF Sound
  <2>2. CASE j < probe[p]
    BY <1>3, <2>1, <2>2 DEF Sound, Missed
  <2>3. CASE j = probe[p] /\ probe'[p] = probe[p] + 1
    <3>1. \/ state'[At(k, j)] # STATE_OCCUPIED
          \/ key_buf'[At(k, j)] # Both(k)
          \/ fingerprint'[At(k, j)] # Fp[k]
      BY <1>2, <1>3, <2>3 DEF Idx
    <3> QED  BY <2>1, <3>1 DEF Live
  <2> QED  BY <1>2, <2>2, <2>3
<1>5. Inserting(p)'
  <2>1. CASE pc'[p] \in Claiming
    <3>1. \A i \in Slots : ~Holds(i, k)'
      BY <1>2, <1>3, <2>1 DEF Ground, UInv, Absent, Holds, Slots
    <3>2. Live(arg[p].key)' = {}
      BY <1>2, <1>3, <3>1 DEF Live, Holds, Slots
    <3> QED  BY <3>2, Recorded DEF Inserting, Ground
  <2>2. CASE pc'[p] = "count"
    <3>1. pc[p] \in Claiming
      BY <1>2, <2>2 DEF Publish, Claiming
    <3>2. WasAbsent(p)
      BY <3>1 DEF Sound, Inserting
    <3> QED  BY <3>2, Recorded DEF Inserting, Ground
  <2> QED  BY <2>1, <2>2 DEF Inserting
<1> QED  BY <1>2, <1>4, <1>5

\* The labels at which Evicting and Updating say something.
Checking == {"fp", "expiry", "clock", "evict", "key", "update", "update_exp"}

\* The other steps leave them.
LEMMA Unchecked ==
  ASSUME IInv, NEW p \in Procs, Step(p), Active(p),
         ~(\/ ProbeOccupied(p) \/ LoadFingerprint(p) \/ LoadExpiry(p) \/ ReadClock(p)
           \/ CompareKey(p) \/ UpdateValue(p))
  PROVE  pc'[p] \notin Checking
<1> USE DEF Checking
<1>1. ASSUME NEW l, Goto(p, l), l \notin Checking PROVE pc'[p] \notin Checking
  BY <1>1, GotoJumps DEF Jumped
<1>2. ASSUME NEW l, CopyThen(p, l), l \notin Checking, pc[p] \notin Checking
      PROVE  pc'[p] \notin Checking
  BY <1>2, CopyJumps DEF Jumped
<1>3. ASSUME NEW r, Return(p, r) PROVE pc'[p] \notin Checking
  BY <1>3, ReturnReturns DEF Returned
<1>4. ASSUME NEW tomb, Advance(p, tomb) PROVE pc'[p] \notin Checking
  BY <1>4, AdvanceMoves DEF Moved, Returned
<1>5. CASE ProbeEmpty(p) \/ ProbeTombstone(p)
  BY <1>1, <1>3, <1>4, <1>5 DEF ProbeEmpty, ProbeTombstone, PassTombstone, Continue
<1>6. CASE Evict(p) \/ DelCas(p)
  BY <1>1, <1>3, <1>4, <1>6 DEF Evict, DelCas, Continue
<1>7. CASE ReadValue(p)
  BY <1>2, <1>3, <1>7 DEF ReadValue, CopyThen
<1>8. CASE UpdateExpiry(p) \/ DelCount(p) \/ CountInsert(p)
  BY <1>3, <1>8 DEF UpdateExpiry, DelCount, CountInsert
<1>9. CASE WriteKey(p) \/ WriteVal(p) \/ WriteFp(p) \/ WriteExp(p) \/ Publish(p)
  BY <1>1, <1>2, <1>9 DEF WriteKey, WriteVal, WriteFp, WriteExp, Publish, After
<1>10. ~FlushSlot(p) /\ ~FlushCount(p)
  BY DEF FlushSlot, FlushCount, Active
<1> QED  BY <1>5, <1>6, <1>7, <1>8, <1>9, <1>10 DEF Step

\* A probe that finds its slot OCCUPIED.
LEMMA OwnFound ==
  ASSUME DistinctHashes, Ground, NEW p \in Procs, ProbeOccupied(p), Sound(p)
  PROVE  Evicting(p)' /\ Updating(p)'
<1>1. /\ Jumped(p, "fp", 1) /\ Active(p) /\ state[Idx(p)] = STATE_OCCUPIED
      /\ UNCHANGED <<state, fingerprint, expires_at, key_buf, now>>
  BY GotoJumps DEF ProbeOccupied, Reads, slotVars, Active, Ground
<1>2. PICK k : k = arg[p].key
  OBVIOUS
<1>3. /\ Active(p)' /\ arg'[p] = arg[p] /\ Idx(p)' = Idx(p) /\ Idx(p) \in Slots /\ k \in Keys
      /\ pc'[p] = "fp"
  BY <1>1, <1>2, SlotsInTable DEF Jumped, Active, Idx, Ground
<1>4. Evicting(p)'
  <2> SUFFICES ASSUME ~WasAbsent(p)', fingerprint[Idx(p)] = Fp[k]
               PROVE  Idx(p) \in Live(arg[p].key)'
    BY <1>1, <1>2, <1>3 DEF Evicting
  <2>1. Live(k) # {} /\ Live(arg[p].key)' = Live(k)
    BY <1>1, <1>2, <1>3, SameEntry DEF Sound
  <2>2. Holds(Idx(p), k)
    BY <1>1, <1>3, PrintTells DEF Ground
  <2>3. PICK i : i \in Live(k)
    BY <2>1
  <2>4. Idx(p) = i
    BY <1>3, <2>2, <2>3, OneLive DEF Ground
  <2> QED  BY <2>1, <2>3, <2>4
<1>5. Updating(p)'
  <2> SUFFICES ASSUME key_buf[Idx(p)] = Both(k), ~IsExpired(Idx(p))
               PROVE  WasHeld(p)'
    BY <1>1, <1>2, <1>3 DEF Updating, IsExpired
  <2>1. fingerprint[Idx(p)] = Fp[k]
    BY <1>1, <1>3, KeyTells DEF Holds, Ground
  <2>2. Idx(p) \in Live(arg[p].key)'
    BY <1>1, <1>2, <1>3, <2>1 DEF Live, IsExpired, Slots
  <2> QED  BY <1>3, <2>2, Recorded DEF Ground
<1> QED  BY <1>4, <1>5

\* The checks of the fingerprint and the expiry, on a slot that is not written.
LEMMA OwnChecks ==
  ASSUME Ground, NEW p \in Procs, LoadFingerprint(p) \/ LoadExpiry(p) \/ ReadClock(p),
         Active(p)', Sound(p)
  PROVE  Evicting(p)' /\ Updating(p)'
<1>1. Active(p) /\ UNCHANGED <<state, fingerprint, expires_at, key_buf, now>>
  BY DEF LoadFingerprint, LoadExpiry, ReadClock, Reads, slotVars, Active
<1>2. CASE \E tomb : Advance(p, tomb)
  <2>1. pc'[p] \notin Checking
    BY <1>2, AdvanceMoves DEF Moved, Returned, Checking, Ground
  <2> QED  BY <2>1 DEF Evicting, Updating, Checking
<1>3. CASE ~(\E tomb : Advance(p, tomb))
  <2>1. PICK l : Jumped(p, l, 1) /\ Goto(p, l)
    BY <1>3, GotoJumps DEF LoadFingerprint, LoadExpiry, ReadClock, Continue, Ground
  <2>2. arg'[p] = arg[p] /\ Idx(p)' = Idx(p) /\ Idx(p) \in Slots /\ pc'[p] = l /\ half'[p] = 1
    BY <1>1, <2>1, SlotsInTable DEF Jumped, Idx, Ground
  <2>3. (WasAbsent(p) => WasAbsent(p)') /\ (WasHeld(p) => WasHeld(p)')
    BY Recorded DEF Ground
  <2>4. Live(arg[p].key)' = Live(arg[p].key) /\ (IsExpired(Idx(p))' <=> IsExpired(Idx(p)))
    BY <1>1, <2>2 DEF Live, IsExpired, Slots
  <2>5. pc \in [Procs -> Labels] /\ loaded \in [Procs -> Nat] /\ now \in Nat
    BY DEF Ground, IInv, TypeOK
  <2>6. CASE LoadFingerprint(p)
    <3>1. /\ pc[p] = "fp" /\ fingerprint[Idx(p)] = Fp[arg[p].key]
          /\ l = IF arg[p].op = "del" THEN "key" ELSE "expiry"
      BY <1>3, <2>1, <2>2, <2>5, <2>6 DEF LoadFingerprint, Continue, Goto
    <3> QED
      BY <1>1, <2>2, <2>3, <2>4, <3>1 DEF Sound, Evicting, Updating
  <2>7. CASE LoadExpiry(p)
    <3>1. /\ pc[p] = "expiry" /\ loaded'[p] = expires_at[Idx(p)]
          /\ l = IF expires_at[Idx(p)] = 0 THEN "key" ELSE "clock"
      BY <2>1, <2>2, <2>5, <2>7 DEF LoadExpiry, Goto
    <3>2. expires_at[Idx(p)] = 0 => ~IsExpired(Idx(p))
      BY DEF IsExpired
    <3> QED
      BY <1>1, <2>2, <2>3, <2>4, <3>1, <3>2 DEF Sound, Evicting, Updating
  <2>8. CASE ReadClock(p)
    <3>1. /\ pc[p] = "clock" /\ l = IF now >= loaded[p] THEN "evict" ELSE "key"
      BY <2>1, <2>2, <2>5, <2>8 DEF ReadClock, Goto
    <3>2. arg[p].op = "set" /\ l = "key" => ~IsExpired(Idx(p))
      BY <3>1 DEF Sound, Updating, IsExpired
    <3> QED
      BY <1>1, <2>2, <2>3, <2>4, <3>1, <3>2 DEF Sound, Evicting, Updating
  <2> QED  BY <2>6, <2>7, <2>8
<1> QED  BY <1>2, <1>3

\* The comparison of the keys and the update.
LEMMA OwnUpdates ==
  ASSUME Ground, NEW p \in Procs, CompareKey(p) \/ UpdateValue(p), Active(p)', Sound(p)
  PROVE  Evicting(p)' /\ Updating(p)'
<1>1. (WasAbsent(p) => WasAbsent(p)') /\ (WasHeld(p) => WasHeld(p)')
  BY Recorded DEF Ground
<1>2. Active(p) /\ Idx(p) \in Slots /\ half[p] \in 1 .. 2
  BY SlotsInTable DEF CompareKey, UpdateValue, Active, Ground, IInv, TypeOK
<1>3. CASE \E tomb : Advance(p, tomb)
  <2>1. pc'[p] \notin Checking
    BY <1>3, AdvanceMoves DEF Moved, Returned, Checking, Ground
  <2> QED  BY <2>1 DEF Evicting, Updating, Checking
<1>4. CASE UpdateValue(p)
  <2>1. pc[p] = "update" /\ arg[p].op = "set" /\ WasHeld(p)
    BY <1>4 DEF UpdateValue, Sound, Updating, Ground, WholeInv, Labelled
  <2>2. Jumped(p, "update", 2) \/ Jumped(p, "update_exp", 1)
    BY <1>4, <2>1, CopyJumps DEF UpdateValue, Ground
  <2> QED  BY <1>1, <2>1, <2>2 DEF Jumped, Evicting, Updating
<1>5. CASE CompareKey(p) /\ ~(\E tomb : Advance(p, tomb))
  <2>1. /\ pc[p] = "key" /\ key_buf' = key_buf
        /\ key_buf[Idx(p)][half[p]] = arg[p].key
        /\ \/ arg[p].op = "get" /\ CopyThen(p, "read")
           \/ arg[p].op = "set" /\ CopyThen(p, "update")
           \/ arg[p].op = "del" /\ CopyThen(p, "del")
    BY <1>5 DEF CompareKey, Continue, Reads, slotVars
  <2>2. CASE arg[p].op # "set"
    <3>1. pc'[p] \in {"key", "read", "del"} /\ arg'[p] = arg[p]
      BY <2>1, <2>2, CopyJumps DEF Jumped, Ground
    <3> QED  BY <2>2, <3>1 DEF Evicting, Updating
  <2>3. CASE arg[p].op = "set" /\ half[p] = 1
    <3>1. Jumped(p, "key", 2)
      BY <2>1, <2>3, CopyJumps DEF Ground
    <3>2. Idx(p)' = Idx(p) /\ arg'[p] = arg[p] /\ pc'[p] = "key" /\ half'[p] = 2
      BY <3>1 DEF Jumped, Idx
    <3> QED  BY <1>1, <2>1, <2>3, <3>2 DEF Evicting, Updating, Sound
  <2>4. CASE arg[p].op = "set" /\ half[p] = 2
    <3>1. arg'[p] = arg[p] /\ pc'[p] = "update"
      BY <2>1, <2>4, CopyJumps DEF Jumped, Ground
    <3>2. key_buf[Idx(p)][1] = arg[p].key /\ key_buf[Idx(p)][2] = arg[p].key
      BY <2>1, <2>4 DEF Sound, Updating
    <3>3. key_buf[Idx(p)] \in [1 .. 2 -> Keys \cup {NoKey}]
      BY <1>2 DEF Ground, IInv, TypeOK
    <3>4. key_buf[Idx(p)] = Both(arg[p].key)
      BY <3>2, <3>3 DEF Both
    <3>5. WasHeld(p)
      BY <2>1, <2>4, <3>4 DEF Sound, Updating
    <3> QED  BY <1>1, <2>4, <3>1, <3>5 DEF Evicting, Updating
  <2> QED  BY <1>2, <2>2, <2>3, <2>4
<1> QED  BY <1>3, <1>4, <1>5

LEMMA OwnSound ==
  ASSUME DistinctHashes, Ground, NEW p \in Procs, Step(p), Active(p), Sound(p)
  PROVE  Sound(p)'
<1>1. CASE ~Active(p)'
  BY <1>1, RestSound
<1>2. CASE Active(p)'
  <2>1. Current(p)' /\ Missed(p)' /\ Inserting(p)'
    BY <1>2, OwnMissed, Recorded DEF Ground
  <2>2. Evicting(p)' /\ Updating(p)'
    <3>1. CASE \/ ProbeOccupied(p) \/ LoadFingerprint(p) \/ LoadExpiry(p) \/ ReadClock(p)
               \/ CompareKey(p) \/ UpdateValue(p)
      BY <1>2, <3>1, OwnFound, OwnChecks, OwnUpdates
    <3>2. CASE pc'[p] \notin Checking
      BY <3>2 DEF Evicting, Updating, Checking
    <3> QED  BY <3>1, <3>2, Unchecked DEF Ground
  <2> QED  BY <2>1, <2>2 DEF Sound
<1> QED  BY <1>1, <1>2

LEMMA NextSound ==
  ASSUME DistinctHashes, OneSetter, Ground, HInv PROVE HInv'
<1> SUFFICES ASSUME NEW q \in Procs PROVE Sound(q)'
  BY DEF HInv
<1>1. Sound(q)
  BY DEF HInv
<1>2. CASE \/ \E p \in Procs : p # q /\ (Step(p) \/ Call(p) \/ Crash(p))
           \/ Tick \/ UNCHANGED vars
  <2>1. CASE Active(q)
    BY <1>1, <1>2, <2>1, OthersSound
  <2>2. CASE ~Active(q)
    <3>1. pc'[q] = pc[q]
      BY <1>2, StepBeside DEF Beside, Tick, vars, opVars, Ground
    <3> QED  BY <2>2, <3>1, RestSound DEF Active
  <2> QED  BY <2>1, <2>2
<1>3. CASE Step(q)
  <2>1. CASE Active(q)
    BY <1>1, <1>3, <2>1, OwnSound
  <2>2. CASE FlushSlot(q) \/ FlushCount(q)
    <3>1. pc'[q] \in {"idle", "flush"}
      BY <2>2 DEF FlushSlot, FlushCount, Return, Ground, IInv, TypeOK
    <3> QED  BY <3>1, RestSound DEF Active
  <2> QED  BY <1>3, <2>1, <2>2, RunningOrFlushing
<1>4. CASE Crash(q)
  <2>1. pc'[q] = "idle"
    BY <1>4, ReturnReturns DEF Crash, Returned, Ground
  <2> QED  BY <2>1, RestSound DEF Active
<1>5. CASE Call(q)
  <2>1. PICK op, k, v, expiry : Start(q, op, k, v, expiry)
    BY <1>5 DEF Call, CallGet, CallSet, CallDel, CallFlush
  <2>2. pc'[q] \in {"flush", "probe"} /\ probe'[q] = 0
    BY <2>1 DEF Start, Ground, IInv, TypeOK, Resting
  <2>3. CASE ~Active(q)'
    BY <2>3, RestSound
  <2>4. CASE Active(q)'
    <3>1. Current(q)'
      BY <2>4, Recorded DEF Ground
    <3>2. Missed(q)'
      BY <2>2, HashMapAssumption DEF Missed
    <3>3. Inserting(q)' /\ Evicting(q)' /\ Updating(q)'
      BY <2>2 DEF Inserting, Evicting, Updating, Claiming
    <3> QED  BY <3>1, <3>2, <3>3 DEF Sound
  <2> QED  BY <2>3, <2>4
<1> QED  BY <1>2, <1>3, <1>4, <1>5 DEF Ground, Next

LEMMA InitSound == ASSUME HInit PROVE HInv
  BY DEF HInit, Init, HInv, Sound, Current, Missed, Inserting, Evicting, Updating, Active,
         Claiming

LEMMA StutterSound == ASSUME HInv, UNCHANGED hvars PROVE HInv'
<1> SUFFICES ASSUME NEW p \in Procs PROVE Sound(p)'
  BY DEF HInv
<1>1. UNCHANGED <<slotVars, opVars, now, loaded, seen>>
  BY DEF hvars, vars
<1>2. \A k : Live(k)' = Live(k)
  BY <1>1 DEF slotVars, Live, IsExpired, Slots
<1>3. \A k : Moment(k)' = Moment(k)
  BY <1>1, <1>2 DEF slotVars, Moment, Slots
<1>4. /\ pc' = pc /\ arg' = arg /\ probe' = probe /\ half' = half /\ seen' = seen
      /\ fingerprint' = fingerprint /\ key_buf' = key_buf /\ expires_at' = expires_at
      /\ now' = now /\ loaded' = loaded
  BY <1>1 DEF slotVars, opVars
<1>5. Live(arg[p].key)' = Live(arg[p].key) /\ Moment(arg[p].key)' = Moment(arg[p].key)
  BY <1>1, <1>4 DEF slotVars, Live, Moment, IsExpired, Slots
<1>6. Sound(p)
  BY DEF HInv
<1> QED
  BY <1>4, <1>5, <1>6
     DEF Sound, Current, Missed, Inserting, Evicting, Updating, Active, WasAbsent, WasHeld,
         Idx, IsExpired

\* The history does not disturb the map.
LEMMA HistoryAdds == HSpec => Spec
<1>1. HInit => Init
  BY DEF HInit
<1>2. [HNext]_hvars => [Next]_vars
  BY DEF HNext, hvars
<1> QED  BY <1>1, <1>2, PTL DEF HSpec, Spec

LEMMA SoundInvariance ==
  ASSUME DistinctHashes, OneSetter, FlushCompletes
  PROVE  HSpec => [](IInv /\ WholeInv /\ UInv /\ HInv)
<1>1. HInit => HInv
  BY InitSound
<1>2. IInv /\ WholeInv /\ UInv /\ HInv /\ [HNext]_hvars /\ WholeInv' /\ UInv' => HInv'
  <2>1. ASSUME IInv, WholeInv, UInv, HInv, HNext, WholeInv', UInv' PROVE HInv'
    BY <2>1, NextSound DEF Ground, HNext
  <2> QED  BY <2>1, StutterSound
<1>3. Spec => [](IInv /\ WholeInv /\ UInv)
  BY Invariance, WholeInvariance, UniqueInvariance, PTL
<1> QED  BY <1>1, <1>2, <1>3, HistoryAdds, PTL DEF HSpec

-----------------------------------------------------------------------------
(* The answers.                                                            *)

\* The step that gives an answer, and what it has just seen.
LEMMA AnsweredBy ==
  ASSUME IInv, WholeInv, NEW p \in Procs, Step(p), Active(p), pc'[p] = "idle"
  PROVE  \/ ret'[p] = "NotFound" /\ state[Idx(p)] = STATE_EMPTY
         \/ ret'[p] = "NotFound" /\ LastSlot(p) /\ RuledOut(p)
         \/ /\ ret'[p] = "Full" /\ LastSlot(p) /\ RuledOut(p) /\ arg[p].op = "set"
            /\ first_tombstone[p] = NoSlot /\ pc[p] \in {"fp", "key"} /\ Differs(p)
         \/ ret'[p] = "Inserted" /\ pc[p] = "count"
         \/ ret'[p] = "Expired" /\ Evict(p) /\ arg[p].op = "get"
         \/ ret'[p] = "Updated" /\ pc[p] = "update_exp"
         \/ ret'[p] \in {"Found", "Deleted"}
<1> DEFINE Goal ==
         \/ ret'[p] = "NotFound" /\ state[Idx(p)] = STATE_EMPTY
         \/ ret'[p] = "NotFound" /\ LastSlot(p) /\ RuledOut(p)
         \/ /\ ret'[p] = "Full" /\ LastSlot(p) /\ RuledOut(p) /\ arg[p].op = "set"
            /\ first_tombstone[p] = NoSlot /\ pc[p] \in {"fp", "key"} /\ Differs(p)
         \/ ret'[p] = "Inserted" /\ pc[p] = "count"
         \/ ret'[p] = "Expired" /\ Evict(p) /\ arg[p].op = "get"
         \/ ret'[p] = "Updated" /\ pc[p] = "update_exp"
         \/ ret'[p] \in {"Found", "Deleted"}
<1> SUFFICES Goal
  OBVIOUS
<1>1. ASSUME NEW l, Goto(p, l), l # "idle" PROVE FALSE
  BY <1>1, GotoJumps DEF Jumped
<1>2. ASSUME NEW l, CopyThen(p, l), l # "idle" PROVE FALSE
  BY <1>2, CopyJumps DEF Jumped, Active
<1>3. ASSUME NEW r, Return(p, r) PROVE ret'[p] = r
  BY <1>3, ReturnReturns DEF Returned
<1>4. ASSUME NEW tomb, Advance(p, tomb), RuledOut(p),
             tomb = NoSlot => first_tombstone[p] = NoSlot
                              /\ (arg[p].op = "set" => pc[p] \in {"fp", "key"} /\ Differs(p))
      PROVE  Goal
  <2>1. \/ arg[p].op # "set" /\ LastSlot(p) /\ Returned(p, "NotFound")
        \/ arg[p].op = "set" /\ LastSlot(p) /\ tomb = NoSlot /\ Returned(p, "Full")
    BY <1>4, AdvanceMoves DEF Moved
  <2> QED  BY <1>4, <2>1 DEF Returned
<1> HIDE DEF Goal
<1>5. CASE ProbeEmpty(p)
  BY <1>1, <1>3, <1>5 DEF ProbeEmpty, Goal
<1>6. Candidate(p) # NoSlot
  BY SlotsInTable DEF Candidate, Slots, NoSlot
<1>7. CASE ProbeTombstone(p)
  <2>1. RuledOut(p)
    BY <1>7 DEF ProbeTombstone, RuledOut, Differs, STATE_OCCUPIED, STATE_TOMBSTONE
  <2>2. ASSUME Advance(p, first_tombstone[p]), arg[p].op # "set" PROVE Goal
    BY <1>4, <2>1, <2>2
  <2>3. ASSUME Advance(p, Candidate(p)) PROVE Goal
    BY <1>4, <1>6, <2>1, <2>3
  <2> QED  BY <1>7, <2>2, <2>3 DEF ProbeTombstone, PassTombstone, Continue
<1>8. CASE LoadFingerprint(p)
  <2>1. ASSUME Advance(p, first_tombstone[p]), fingerprint[Idx(p)] # Fp[arg[p].key] PROVE Goal
    BY <1>4, <1>8, <2>1 DEF RuledOut, Differs, LoadFingerprint
  <2> QED  BY <1>1, <1>8, <2>1 DEF LoadFingerprint, Continue
<1>9. CASE CompareKey(p)
  <2>1. ASSUME Advance(p, first_tombstone[p]), key_buf[Idx(p)][half[p]] # arg[p].key PROVE Goal
    <3>1. RuledOut(p) /\ Differs(p)
      BY <2>1 DEF RuledOut, Differs, Both, IInv, TypeOK
    <3> QED  BY <1>4, <1>9, <2>1, <3>1 DEF CompareKey
  <2> QED  BY <1>2, <1>9, <2>1 DEF CompareKey, Continue
<1>10. CASE DelCas(p)
  <2>1. ASSUME Advance(p, first_tombstone[p]), state[Idx(p)] # STATE_OCCUPIED PROVE Goal
    <3>1. arg[p].op # "set"
      BY <1>10 DEF DelCas, WholeInv, Labelled
    <3> QED  BY <1>4, <2>1, <3>1 DEF RuledOut, Differs
  <2> QED  BY <1>1, <1>10, <2>1 DEF DelCas, Continue
<1>11. CASE Evict(p)
  <2>1. ASSUME Advance(p, Candidate(p)), arg[p].op = "set" PROVE FALSE
    BY <1>6, <2>1, AdvanceMoves DEF Returned, Moved
  <2> QED  BY <1>3, <1>11, <2>1 DEF Evict, Goal
<1>12. CASE ProbeOccupied(p) \/ LoadExpiry(p) \/ ReadClock(p) \/ WriteFp(p) \/ WriteExp(p)
              \/ Publish(p)
  BY <1>1, <1>12 DEF ProbeOccupied, LoadExpiry, ReadClock, WriteFp, WriteExp, Publish, After
<1>13. CASE UpdateValue(p) \/ WriteKey(p) \/ WriteVal(p)
  BY <1>2, <1>13 DEF UpdateValue, WriteKey, WriteVal, After
<1>14. CASE ReadValue(p)
  <2>1. ASSUME half[p] = 1, SecondHalf(p) PROVE FALSE
    BY <1>2, <1>14, <2>1 DEF CopyThen, ReadValue
  <2> QED  BY <1>3, <1>14, <2>1 DEF ReadValue, Goal
<1>15. CASE UpdateExpiry(p) \/ DelCount(p) \/ CountInsert(p)
  BY <1>3, <1>15 DEF UpdateExpiry, DelCount, CountInsert, Goal
<1>16. ~FlushSlot(p) /\ ~FlushCount(p)
  BY DEF FlushSlot, FlushCount, Active
<1> QED
  BY <1>5, <1>7, <1>8, <1>9, <1>10, <1>11, <1>12, <1>13, <1>14, <1>15, <1>16 DEF Step

\* An answer is a step of the one that was asked, unless it dies.
LEMMA OwnStep ==
  ASSUME IInv, [Next]_vars, NEW p \in Procs, Active(p), pc'[p] = "idle", ret'[p] # "Crashed"
  PROVE  Step(p)
<1>1. ~(UNCHANGED vars) /\ ~Tick
  BY DEF vars, Tick, opVars, Active
<1>2. \A q \in Procs : q # p => ~(Step(q) \/ Call(q) \/ Crash(q))
  BY StepBeside DEF Beside, Active
<1>3. ~Call(p)
  BY DEF Call, CallGet, CallSet, CallDel, CallFlush, Start, Active
<1>4. ~Crash(p)
  BY ReturnReturns DEF Crash, Returned
<1> QED  BY <1>1, <1>2, <1>3, <1>4 DEF Next

\* A key that was there all the time is ahead on the chain.
LEMMA StillAhead ==
  ASSUME IInv, UInv, NEW p \in Procs, Active(p), Sound(p), ~WasAbsent(p)
  PROVE  \E o \in 0 .. N - 1 :
           /\ ~(o < probe[p]) /\ At(arg[p].key, o) \in Live(arg[p].key)
           /\ \A j \in 0 .. o - 1 : state[At(arg[p].key, j)] # STATE_EMPTY
<1>1. PICK k : k = arg[p].key /\ k \in Keys
  BY DEF IInv, Busy
<1>2. PICK i \in Slots : i \in Live(k)
  BY <1>1, AbsentNow DEF Sound, Live
<1>3. key_buf[i][1] = k
  BY <1>2 DEF Live, Both
<1>4. wiping = FALSE
  BY NotWiping
<1>5. Reaches(k, i)
  BY <1>1, <1>3, <1>4 DEF IInv, Placed
<1>6. PICK o \in 0 .. N - 1 :
        i = At(k, o) /\ \A j \in 0 .. o - 1 : state[At(k, j)] # STATE_EMPTY
  BY <1>5 DEF Reaches
<1>7. ~(o < probe[p])
  BY <1>1, <1>2, <1>6 DEF Sound, Missed
<1> QED  BY <1>1, <1>2, <1>6, <1>7

LEMMA MissTrue ==
  ASSUME IInv, UInv, NEW p \in Procs, Active(p), Sound(p), probe[p] \in 0 .. N - 1,
         \/ state[Idx(p)] = STATE_EMPTY
         \/ LastSlot(p) /\ RuledOut(p)
  PROVE  WasAbsent(p)
<1> SUFFICES ASSUME ~WasAbsent(p) PROVE FALSE
  OBVIOUS
<1>0. N \in Nat
  BY HashMapAssumption
<1>1. PICK o \in 0 .. N - 1 :
        /\ ~(o < probe[p]) /\ At(arg[p].key, o) \in Live(arg[p].key)
        /\ \A j \in 0 .. o - 1 : state[At(arg[p].key, j)] # STATE_EMPTY
  BY StillAhead
<1>2. CASE o = probe[p]
  <2>1. Idx(p) \in Live(arg[p].key)
    BY <1>1, <1>2 DEF Idx
  <2> QED  BY <2>1 DEF Live, RuledOut, Differs, STATE_EMPTY, STATE_OCCUPIED
<1>3. CASE probe[p] < o
  <2>1. state[Idx(p)] # STATE_EMPTY
    BY <1>0, <1>1, <1>3 DEF Idx
  <2>2. ~LastSlot(p)
    BY <1>0, <1>3 DEF LastSlot
  <2> QED  BY <2>1, <2>2
<1> QED  BY <1>0, <1>1, <1>2, <1>3

\* GET evicts the one live entry.
LEMMA ExpiredTrue ==
  ASSUME Ground, NEW p \in Procs, Evict(p), arg[p].op = "get", Sound(p), ~WasAbsent(p),
         NEW k, k = arg[p].key
  PROVE  ~Moment(k)'.held
<1>1. Idx(p) \in Live(k) /\ Idx(p) \in Slots /\ k \in Keys
  BY SlotsInTable DEF Evict, Sound, Evicting, Ground, Active
<1>2. state'[Idx(p)] # STATE_OCCUPIED
  BY <1>1 DEF Evict, Ground, IInv, TypeOK, Tombstoned, STATE_TOMBSTONE, STATE_OCCUPIED
<1>3. ASSUME NEW i \in Live(k)' PROVE FALSE
  <2>1. i \in Live(k)
    BY <1>1, <1>3, LiveStays DEF Ground
  <2>2. i = Idx(p)
    BY <1>1, <2>1, OneLive DEF Ground, Live, Holds
  <2> QED  BY <1>2, <1>3, <2>2 DEF Live
<1> QED  BY <1>3 DEF Moment

LEMMA AnswersTrue ==
  ASSUME Ground, HInv, NEW p \in Procs
  PROVE  /\ Answers(p, {"NotFound", "Inserted"}) => WasAbsent(p)
         /\ Answers(p, {"Expired"}) =>
              WasAbsent(p) \/ \E k \in {arg[p].key} : ~Moment(k)'.held
         /\ Answers(p, {"Updated"}) => \E m \in seen[p] : m.held
<1> SUFFICES ASSUME Active(p), pc'[p] = "idle",
                    ret'[p] \in {"NotFound", "Inserted", "Expired", "Updated"}
             PROVE  /\ ret'[p] \in {"NotFound", "Inserted"} => WasAbsent(p)
                    /\ ret'[p] = "Expired" =>
                         WasAbsent(p) \/ \E k \in {arg[p].key} : ~Moment(k)'.held
                    /\ ret'[p] = "Updated" => WasHeld(p)
  BY DEF Answers, Running, Active, WasHeld
<1>1. Sound(p) /\ Labelled(p)
  BY DEF HInv, Ground, WholeInv
<1>2. Step(p)
  BY OwnStep DEF Ground
<1>3. pc[p] \notin Claiming \cup {"count"} => probe[p] \in 0 .. N - 1
  <2>1. probe[p] \in 0 .. N /\ N \in Nat
    BY SlotsInTable DEF Ground
  <2> QED  BY <2>1, InLoop DEF Ground
<1>4. ASSUME pc[p] \in Claiming \cup {"count"} PROVE WasAbsent(p)
  BY <1>1, <1>4 DEF Sound, Inserting
<1>5. ASSUME ret'[p] \in {"NotFound", "Inserted"} PROVE WasAbsent(p)
  BY <1>1, <1>2, <1>3, <1>4, <1>5, AnsweredBy, MissTrue DEF Ground
<1>6. ASSUME ret'[p] = "Expired"
      PROVE  WasAbsent(p) \/ \E k \in {arg[p].key} : ~Moment(k)'.held
  <2>1. Evict(p) /\ arg[p].op = "get"
    BY <1>2, <1>6, AnsweredBy DEF Ground
  <2> QED  BY <1>1, <2>1, ExpiredTrue
<1>7. ASSUME ret'[p] = "Updated" PROVE WasHeld(p)
  <2>1. pc[p] = "update_exp" /\ arg[p].op = "set"
    BY <1>1, <1>2, <1>7, AnsweredBy DEF Ground, Labelled
  <2> QED  BY <1>1, <2>1 DEF Sound, Updating
<1> QED  BY <1>5, <1>6, <1>7

\* With one process that sets, whatever the others get and delete, whatever
\* expires and whoever dies: a lookup that misses and a set that inserts ran
\* at a moment without the key, a set that updates at a moment with it, and a
\* get that says Expired leaves it gone.
THEOREM SoundAnswers ==
  ASSUME OneSetter, FlushCompletes, DistinctHashes PROVE HSpec => AnswerSound
<1>1. ASSUME IInv, WholeInv, UInv, HInv, WholeInv', UInv', [HNext]_hvars
      PROVE  [\A p \in Procs :
               /\ Answers(p, {"NotFound", "Inserted"}) => WasAbsent(p)
               /\ Answers(p, {"Expired"}) =>
                    WasAbsent(p) \/ \E k \in {arg[p].key} : ~Moment(k)'.held
               /\ Answers(p, {"Updated"}) => \E m \in seen[p] : m.held]_hvars
  <2>1. CASE UNCHANGED hvars
    BY <2>1
  <2>2. CASE HNext
    <3>1. Ground
      BY <1>1, <2>2 DEF Ground, HNext
    <3> QED  BY <1>1, <3>1, AnswersTrue
  <2> QED  BY <1>1, <2>1, <2>2
<1> QED  BY <1>1, SoundInvariance, PTL DEF HSpec, AnswerSound

-----------------------------------------------------------------------------
(* SET's refusals.                                                         *)

\* SET looks for its key and has found no slot to reuse.
Seeking(p) ==
  /\ arg[p].op = "set" /\ first_tombstone[p] = NoSlot
  /\ pc[p] \in {"probe", "fp", "expiry", "clock", "key"}

\* A slot it has yet to probe is not OCCUPIED.
FreeAhead(p) ==
  \E o \in 0 .. N - 1 :
    /\ probe[p] <= o /\ (o = probe[p] => pc[p] = "probe")
    /\ state[At(arg[p].key, o)] # STATE_OCCUPIED

\* Its key is in a slot that it has not ruled out.
EntryAhead(p) ==
  \E o \in 0 .. N - 1 :
    /\ probe[p] <= o
    /\ key_buf[At(arg[p].key, o)] = Both(arg[p].key)
    /\ fingerprint[At(arg[p].key, o)] = Fp[arg[p].key]

\* There was a moment at which what is not ahead of SET now was not there: it
\* is the first moment of the call, for only SET itself could fill a slot.
Sought(p) ==
  Seeking(p) =>
    \E m \in seen[p] : (m.full \/ FreeAhead(p)) /\ (m.held => EntryAhead(p))

FInv == \A p \in Procs : Sought(p)

\* What is ahead of SET stays there.
Onward(p) ==
  /\ Seeking(p)
  /\ FreeAhead(p) => FreeAhead(p)'
  /\ EntryAhead(p) => EntryAhead(p)'

LEMMA OnwardSought ==
  ASSUME Record, NEW p \in Procs, Active(p)', Sought(p), Onward(p) PROVE Sought(p)'
<1>1. seen'[p] = seen[p] \cup {Moment(arg[p].key)'}
  BY DEF Record, Running, Active
<1> QED  BY <1>1 DEF Sought, Onward

\* When nobody has moved but in ways that spare the slots.
LEMMA SparedOnward ==
  ASSUME IInv, NEW q \in Procs, Active(q), Seeking(q)', Spared(q),
         pc'[q] = pc[q], arg'[q] = arg[q], probe'[q] = probe[q],
         first_tombstone'[q] = first_tombstone[q]
  PROVE  Onward(q)
<1>1. PICK k \in Keys : k = arg[q].key
  BY SlotsInTable
<1>2. \A o \in 0 .. N - 1 : At(k, o) \in Slots
  BY SlotAt
<1>3. Seeking(q)
  BY DEF Seeking
<1>4. FreeAhead(q) => FreeAhead(q)'
  <2>1. FreeAhead(q)' <=> \E o \in 0 .. N - 1 :
          /\ probe[q] <= o /\ (o = probe[q] => pc[q] = "probe")
          /\ state'[At(k, o)] # STATE_OCCUPIED
    BY <1>1 DEF FreeAhead, At
  <2> QED  BY <1>1, <1>2, <2>1 DEF FreeAhead, Spared
<1>5. EntryAhead(q) => EntryAhead(q)'
  BY DEF EntryAhead, Spared, At
<1> QED  BY <1>3, <1>4, <1>5 DEF Onward

\* A step of SET that stays at its slot.
LEMMA StaysOnward ==
  ASSUME IInv, NEW p \in Procs, Active(p), Seeking(p), UNCHANGED slotVars,
         NEW l, NEW h, Jumped(p, l, h), pc[p] = "probe" => state[Idx(p)] = STATE_OCCUPIED
  PROVE  Onward(p)
<1>1. UNCHANGED <<state, key_buf, fingerprint>> /\ arg'[p] = arg[p] /\ probe'[p] = probe[p]
  BY DEF slotVars, Jumped
<1>2. FreeAhead(p) => FreeAhead(p)'
  <2> SUFFICES ASSUME NEW o \in 0 .. N - 1, probe[p] <= o, o = probe[p] => pc[p] = "probe",
                      state[At(arg[p].key, o)] # STATE_OCCUPIED
               PROVE  o # probe[p]
    BY <1>1 DEF FreeAhead, At
  <2> QED  BY DEF Idx
<1>3. EntryAhead(p) => EntryAhead(p)'
  BY <1>1 DEF EntryAhead, At
<1> QED  BY <1>2, <1>3 DEF Onward

\* A step of SET past a slot that it has ruled out.
LEMMA PassesOnward ==
  ASSUME IInv, NEW p \in Procs, Active(p), pc[p] \in {"fp", "key"}, Seeking(p)',
         UNCHANGED slotVars, Continue(p), Differs(p)
  PROVE  Onward(p)
<1>1. Moved(p, "probe", first_tombstone[p])
  BY AdvanceMoves DEF Continue, Seeking, Moved, Returned
<1>2. /\ UNCHANGED <<state, key_buf, fingerprint>> /\ arg'[p] = arg[p]
      /\ probe'[p] = probe[p] + 1 /\ pc'[p] = "probe" /\ probe[p] \in Nat /\ Seeking(p)
  BY <1>1, SlotsInTable DEF slotVars, Moved, Seeking
<1>3. FreeAhead(p) => FreeAhead(p)'
  <2> SUFFICES ASSUME NEW o \in 0 .. N - 1, probe[p] <= o, o # probe[p]
               PROVE  probe[p] + 1 <= o
    BY <1>2 DEF FreeAhead, At
  <2> QED  BY <1>2
<1>4. EntryAhead(p) => EntryAhead(p)'
  <2> SUFFICES ASSUME NEW o \in 0 .. N - 1, probe[p] <= o,
                      key_buf[At(arg[p].key, o)] = Both(arg[p].key),
                      fingerprint[At(arg[p].key, o)] = Fp[arg[p].key]
               PROVE  probe[p] + 1 <= o
    BY <1>2 DEF EntryAhead, At
  <2>1. o # probe[p]
    BY DEF Differs, Idx
  <2> QED  BY <1>2, <2>1
<1> QED  BY <1>2, <1>3, <1>4 DEF Onward

\* A step of SET after which it still seeks.
LEMMA OwnOnward ==
  ASSUME IInv, WholeInv, NEW p \in Procs, Step(p), Active(p), Seeking(p)' PROVE Onward(p)
<1>1. ASSUME NEW r, Return(p, r) PROVE FALSE
  BY <1>1, ReturnReturns DEF Returned, Seeking
<1>2. ASSUME NEW l, Goto(p, l), l \notin {"probe", "fp", "expiry", "clock", "key"} PROVE FALSE
  BY <1>2, GotoJumps DEF Jumped, Seeking
<1>3. ASSUME NEW tomb, Advance(p, tomb), tomb # NoSlot PROVE FALSE
  BY <1>3, AdvanceMoves DEF Moved, Returned, Seeking, NoArg
<1>4. Candidate(p) # NoSlot
  BY SlotsInTable DEF Candidate, Slots, NoSlot
<1>5. ASSUME NEW l, NEW h, Jumped(p, l, h), UNCHANGED slotVars,
             pc[p] \in {"probe", "fp", "expiry", "clock", "key"},
             pc[p] = "probe" => state[Idx(p)] = STATE_OCCUPIED
      PROVE  Onward(p)
  <2>1. Seeking(p)
    BY <1>5 DEF Seeking, Jumped
  <2> QED  BY <1>5, <2>1, StaysOnward
<1>6. CASE ProbeOccupied(p) \/ LoadExpiry(p) \/ ReadClock(p)
  <2>1. PICK l : Goto(p, l)
    BY <1>6 DEF ProbeOccupied, LoadExpiry, ReadClock
  <2>2. Jumped(p, l, 1)
    BY <2>1, GotoJumps
  <2>3. /\ pc[p] \in {"probe", "fp", "expiry", "clock", "key"} /\ UNCHANGED slotVars
        /\ pc[p] = "probe" => state[Idx(p)] = STATE_OCCUPIED
    BY <1>6 DEF ProbeOccupied, LoadExpiry, ReadClock, Reads
  <2> QED  BY <1>5, <2>2, <2>3
<1>7. CASE LoadFingerprint(p)
  <2>1. UNCHANGED slotVars /\ pc[p] = "fp"
    BY <1>7 DEF LoadFingerprint, Reads
  <2>2. ASSUME NEW l, Goto(p, l) PROVE Onward(p)
    <3>1. Jumped(p, l, 1)
      BY <2>2, GotoJumps
    <3> QED  BY <1>5, <2>1, <3>1
  <2> QED  BY <1>7, <2>1, <2>2, PassesOnward DEF LoadFingerprint, Differs
<1>8. CASE CompareKey(p)
  <2>1. UNCHANGED slotVars /\ pc[p] = "key"
    BY <1>8 DEF CompareKey, Reads
  <2>2. ASSUME NEW l, CopyThen(p, l) PROVE Onward(p)
    <3>1. PICK m, h : Jumped(p, m, h)
      BY <2>2, CopyJumps
    <3> QED  BY <1>5, <2>1, <3>1
  <2>3. ASSUME key_buf[Idx(p)][half[p]] # arg[p].key, Continue(p) PROVE Onward(p)
    <3>1. key_buf[Idx(p)] # Both(arg[p].key)
      BY <2>3 DEF Both, IInv, TypeOK
    <3> QED  BY <2>1, <2>3, <3>1, PassesOnward DEF Differs
  <2> QED  BY <1>8, <2>2, <2>3 DEF CompareKey
<1>9. CASE ProbeEmpty(p) \/ ProbeTombstone(p) \/ Evict(p)
  <2>1. arg'[p].op = "set"
    BY DEF Seeking
  <2>2. ASSUME NEW tomb, Advance(p, tomb) PROVE arg[p].op = "set"
    BY <2>1, <2>2, AdvanceMoves DEF Moved, Returned, NoArg
  <2>3. arg[p].op = "set" => ~ProbeTombstone(p) /\ ~Evict(p)
    BY <1>1, <1>3, <1>4 DEF ProbeTombstone, PassTombstone, Evict
  <2> QED
    BY <1>1, <1>2, <1>9, <2>2, <2>3 DEF ProbeEmpty, ProbeTombstone, PassTombstone, Continue, Evict
<1>10. CASE DelCas(p) \/ ReadValue(p)
  <2>1. arg[p].op # "set"
    BY <1>10 DEF DelCas, ReadValue, WholeInv, Labelled
  <2>2. arg'[p] = arg[p] \/ arg'[p] = NoArg
    BY <1>10, OwnMoves, AdvanceMoves DEF Jumped, Moved, Returned
  <2> QED  BY <2>1, <2>2 DEF Seeking, NoArg
<1>11. CASE UpdateValue(p) \/ WriteKey(p) \/ WriteVal(p)
  <2>1. PICK l : CopyThen(p, l) /\ l \notin {"probe", "fp", "expiry", "clock", "key"}
    BY <1>11 DEF UpdateValue, WriteKey, WriteVal, After
  <2>2. pc[p] \notin {"probe", "fp", "expiry", "clock", "key"}
    BY <1>11 DEF UpdateValue, WriteKey, WriteVal
  <2> QED  BY <2>1, <2>2, CopyJumps DEF Jumped, Seeking
<1>12. CASE WriteFp(p) \/ WriteExp(p) \/ Publish(p)
  BY <1>2, <1>12 DEF WriteFp, WriteExp, Publish, After
<1>13. CASE UpdateExpiry(p) \/ DelCount(p) \/ CountInsert(p)
  BY <1>1, <1>13 DEF UpdateExpiry, DelCount, CountInsert
<1>14. ~FlushSlot(p) /\ ~FlushCount(p)
  BY DEF FlushSlot, FlushCount, Active
<1> QED
  BY <1>6, <1>7, <1>8, <1>9, <1>10, <1>11, <1>12, <1>13, <1>14 DEF Step

\* What stays ahead of SET in the steps of the others and in its own.
LEMMA NextSought ==
  ASSUME OneSetter, IInv, WholeInv, IInv', [Next]_vars, Record, FInv PROVE FInv'
<1> SUFFICES ASSUME NEW q \in Procs, Seeking(q)' PROVE Sought(q)'
  BY DEF FInv, Sought
<1>0. Active(q)'
  BY DEF Seeking, Active
<1>1. ASSUME Onward(q) PROVE Sought(q)'
  BY <1>0, <1>1, OnwardSought DEF FInv
<1>2. CASE \/ \E p \in Procs : p # q /\ (Step(p) \/ Call(p) \/ Crash(p))
           \/ Tick \/ UNCHANGED vars
  <2>1. /\ pc'[q] = pc[q] /\ arg'[q] = arg[q] /\ probe'[q] = probe[q]
        /\ first_tombstone'[q] = first_tombstone[q]
    BY <1>2, StepBeside DEF Beside, Tick, vars, opVars
  <2>2. Active(q) /\ arg[q].op = "set"
    BY <2>1 DEF Seeking, Active
  <2>3. Spared(q)
    BY <1>2, <2>2, OthersSpare
  <2> QED  BY <1>1, <2>1, <2>2, <2>3, SparedOnward
<1>3. CASE Step(q)
  <2>1. Active(q)
    <3>1. ~FlushSlot(q) /\ ~FlushCount(q)
      BY ReturnReturns DEF FlushSlot, FlushCount, Seeking, Returned
    <3> QED  BY <1>3, <3>1, RunningOrFlushing
  <2> QED  BY <1>1, <1>3, <2>1, OwnOnward
<1>4. CASE Crash(q)
  BY <1>4, ReturnReturns DEF Crash, Returned, Seeking
<1>5. CASE Call(q)
  <2>1. PICK op, k, v, expiry : Start(q, op, k, v, expiry)
    BY <1>5 DEF Call, CallGet, CallSet, CallDel, CallFlush
  <2>2. pc'[q] = "probe" /\ probe'[q] = 0
    BY <2>1 DEF Start, Seeking, IInv, TypeOK, Resting
  <2>3. PICK l \in Keys : l = arg'[q].key
    BY <1>0 DEF IInv, Busy, Active
  <2>4. Moment(arg[q].key)' \in seen'[q]
    BY <1>0, Recorded DEF Current
  <2>5. Moment(arg[q].key)'.full \/ FreeAhead(q)'
    <3> SUFFICES ASSUME NEW i \in Slots, state'[i] # STATE_OCCUPIED PROVE FreeAhead(q)'
      BY DEF Moment, Slots
    <3>1. PICK o \in 0 .. N - 1 : At(l, o) = i
      BY <2>3, ChainCovers
    <3> QED  BY <2>2, <2>3, <3>1 DEF FreeAhead, At
  <2>6. Moment(arg[q].key)'.held => EntryAhead(q)'
    <3> SUFFICES ASSUME NEW i \in Slots, key_buf'[i] = Both(l), fingerprint'[i] = Fp[l]
                 PROVE  EntryAhead(q)'
      BY <2>3 DEF Moment, Live, Slots
    <3>1. PICK o \in 0 .. N - 1 : At(l, o) = i
      BY <2>3, ChainCovers
    <3> QED  BY <2>2, <2>3, <3>1 DEF EntryAhead, At
  <2> QED  BY <2>4, <2>5, <2>6 DEF Sought
<1> QED  BY <1>2, <1>3, <1>4, <1>5 DEF Next

LEMMA StutterSought == ASSUME FInv, UNCHANGED hvars PROVE FInv'
  BY DEF FInv, Sought, Seeking, FreeAhead, EntryAhead, hvars, vars, slotVars, opVars, At

LEMMA SoughtInvariance == ASSUME OneSetter PROVE HSpec => [](IInv /\ WholeInv /\ FInv)
<1>1. HInit => FInv
  BY DEF HInit, Init, FInv, Sought, Seeking
<1>2. IInv /\ WholeInv /\ FInv /\ [HNext]_hvars /\ IInv' => FInv'
  BY NextSought, StutterSought DEF HNext
<1>3. Spec => [](IInv /\ WholeInv)
  BY Invariance, WholeInvariance, PTL
<1> QED  BY <1>1, <1>2, <1>3, HistoryAdds, PTL DEF HSpec

\* Nothing is ahead of a SET that gives up.
LEMMA RefusalTrue ==
  ASSUME IInv, WholeInv, [Next]_vars, NEW p \in Procs, Sought(p), Answers(p, {"Full"})
  PROVE  \E m \in seen[p] : m.full /\ ~m.held
<1>1. Active(p) /\ pc'[p] = "idle" /\ ret'[p] = "Full"
  BY DEF Answers, Running, Active
<1>2. Step(p)
  BY <1>1, OwnStep
<1>3. /\ LastSlot(p) /\ arg[p].op = "set"
      /\ first_tombstone[p] = NoSlot /\ pc[p] \in {"fp", "key"} /\ Differs(p)
  BY <1>1, <1>2, AnsweredBy
<1>4. PICK m \in seen[p] : (m.full \/ FreeAhead(p)) /\ (m.held => EntryAhead(p))
  BY <1>3 DEF Sought, Seeking
<1>5. probe[p] = N - 1 /\ N \in Nat
  BY <1>1, <1>3, SlotsInTable DEF LastSlot
<1>6. ~FreeAhead(p)
  BY <1>3, <1>5 DEF FreeAhead
<1>7. ~EntryAhead(p)
  <2> SUFFICES ASSUME NEW o \in 0 .. N - 1, probe[p] <= o,
                      key_buf[At(arg[p].key, o)] = Both(arg[p].key),
                      fingerprint[At(arg[p].key, o)] = Fp[arg[p].key]
               PROVE  FALSE
    BY DEF EntryAhead
  <2>1. o = probe[p]
    BY <1>5
  <2> QED  BY <1>3, <2>1 DEF Differs, Idx
<1> QED  BY <1>4, <1>6, <1>7

\* With one process that sets, SET answers Full only if every slot was occupied
\* at some moment of the call and none of them by its key: neither the deletions
\* and evictions of others nor tombstones behind its back make it refuse a key
\* it had room for.  A flush that died half way takes nothing from this.
THEOREM SoundRefusals == ASSUME OneSetter PROVE HSpec => FullSound
<1>1. ASSUME IInv, WholeInv, FInv, [HNext]_hvars
      PROVE  [\A p \in Procs : Answers(p, {"Full"}) =>
                \E m \in seen[p] : m.full /\ ~m.held]_hvars
  <2>1. CASE UNCHANGED hvars
    BY <2>1
  <2>2. CASE HNext
    BY <1>1, <2>2, RefusalTrue DEF HNext, FInv
  <2> QED  BY <1>1, <2>1, <2>2
<1> QED  BY <1>1, SoughtInvariance, PTL DEF HSpec, FullSound

=============================================================================
