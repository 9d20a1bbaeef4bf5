---------------------------- MODULE StoreProofs ----------------------------
(***************************************************************************)
(* Proof that HashMap implements KVStore: to the one process that writes   *)
(* to it, the map is a dictionary.                                         *)
(***************************************************************************)
EXTENDS HashMapKVStore, HashMapProofs

\* The writer does not die; the others only look up, and evict nothing.
OneWriter ==
  /\ Writer \in Procs \ CanCrash
  /\ \A q \in Procs \ {Writer} : Ops[q] \subseteq {"get"}
  /\ Procs = {Writer} \/ NoExpiry

\* The key and the value of the writer's call.
Key == arg[Writer].key
Val == arg[Writer].val

\* Stored values are whole, but for the one that the writer is overwriting.
Solid ==
  \A i \in Slots : state[i] = STATE_OCCUPIED =>
    \/ \E v \in Vals : val_buf[i] = Both(v)
    \/ pc[Writer] = "update" /\ half[Writer] = 2 /\ i = Idx(Writer)

\* What the writer has written.
Written ==
  /\ Active(Writer) /\ arg[Writer].op = "set" => Val \in Vals
  /\ pc[Writer] = "update" /\ half[Writer] = 2 => val_buf[Idx(Writer)][1] = Val
  /\ pc[Writer] = "update_exp" => val_buf[Idx(Writer)] = Both(Val)
  /\ pc[Writer] = "write_val" /\ half[Writer] = 2 => val_buf[Target(Writer)][1] = Val
  /\ pc[Writer] \in {"write_fp", "write_exp", "publish"} =>
       val_buf[Target(Writer)] = Both(Val)
  /\ pc[Writer] = "publish" => expires_at[Target(Writer)] = arg[Writer].expiry

\* The labels at which the writer has found the fingerprint of its key.
Finding == {"expiry", "clock", "evict", "key", "read", "update", "update_exp", "del"}

\* What it has found.
Found ==
  /\ pc[Writer] = "fp" => state[Idx(Writer)] = STATE_OCCUPIED
  /\ pc[Writer] \in Finding => Holds(Idx(Writer), Key)
  /\ pc[Writer] = "clock" => loaded[Writer] = expires_at[Idx(Writer)] /\ loaded[Writer] # 0
  /\ pc[Writer] = "evict" => IsExpired(Idx(Writer))
  /\ pc[Writer] = "read" /\ half[Writer] = 2 =>
       got[Writer][1] = val_buf[Idx(Writer)][1]

\* What it has passed: no entry of its key, and nothing that SET could reuse.
Gone ==
  Active(Writer) /\ pc[Writer] \notin Claiming \cup {"count", "del_count"} =>
    \A j \in 0 .. N - 1 : j < probe[Writer] =>
      /\ ~Holds(At(Key, j), Key)
      /\ arg[Writer].op = "set" /\ first_tombstone[Writer] = NoSlot =>
           state[At(Key, j)] = STATE_OCCUPIED

\* FLUSH has emptied the slots it passed.
Cleaned ==
  pc[Writer] = "flush" => \A i \in Slots : i < probe[Writer] => state[i] = STATE_EMPTY

Unsaid == pc[Writer] # "idle" => ret[Writer] = "None"

Lasting == Procs = {Writer} \/ Timeless

SInv == Solid /\ Written /\ Found /\ Gone /\ Cleaned /\ Unsaid /\ Lasting

\* What every step starts from.
Base == DistinctHashes /\ OneWriter /\ IInv /\ WholeInv /\ UInv /\ SInv

LEMMA WriterAlone == ASSUME OneWriter PROVE OneSetter /\ FlushCompletes /\ Writer \in Procs
  BY DEF OneWriter, OneSetter, FlushCompletes

\* The steps of the others are loads.
LEMMA ReadersRead ==
  ASSUME Base, NEW q \in Procs, q # Writer, Step(q) \/ Call(q) \/ Crash(q)
  PROVE  /\ UNCHANGED <<slotVars, now>> /\ Beside(q)
         /\ ret'[Writer] = ret[Writer] /\ got'[Writer] = got[Writer]
         /\ loaded'[Writer] = loaded[Writer]
<1> USE DEF Base
<1>1. Ops[q] \subseteq {"get"} /\ Writer \in Procs /\ Timeless
  BY DEF OneWriter, SInv, Lasting
<1>2. arg[q].op \in {"get", "none"} /\ (Active(q) => arg[q].op = "get")
  BY <1>1 DEF WholeInv, Labelled, IInv, Busy
<1>3. pc[q] \notin Claiming \cup {"update", "update_exp", "count", "del", "del_count",
                                  "clock", "evict", "flush"}
  BY <1>1, <1>2 DEF WholeInv, Labelled, Timeless
<1>4. UNCHANGED <<slotVars, now>>
  BY <1>1, <1>3
     DEF Step, ProbeEmpty, ProbeTombstone, ProbeOccupied, LoadFingerprint, LoadExpiry,
         ReadClock, Evict, CompareKey, ReadValue, UpdateValue, UpdateExpiry, DelCas,
         DelCount, WriteKey, WriteVal, WriteFp, WriteExp, Publish, CountInsert, FlushSlot,
         FlushCount, Reads, Call, CallGet, CallSet, CallDel, CallFlush, Start, Crash, Claiming
<1>5. Beside(q) /\ loaded'[Writer] = loaded[Writer]
  BY <1>1, StepBeside
<1>6. got'[Writer] = got[Writer]
  <2>1. got' = got \/ \E v : got' = [got EXCEPT ![q] = v]
    BY DEF Step, ProbeEmpty, ProbeTombstone, ProbeOccupied, LoadFingerprint, LoadExpiry,
           ReadClock, Evict, CompareKey, ReadValue, UpdateValue, UpdateExpiry, DelCas,
           DelCount, WriteKey, WriteVal, WriteFp, WriteExp, Publish, CountInsert, FlushSlot,
           FlushCount, Reads, Other, Call, CallGet, CallSet, CallDel, CallFlush, Start, Crash
  <2> QED  BY <1>1, <2>1 DEF IInv, TypeOK
<1>7. ret'[Writer] = ret[Writer]
  <2>1. ret' = ret \/ \E v : ret' = [ret EXCEPT ![q] = v]
    <3>1. ASSUME NEW l, Goto(q, l) \/ CopyThen(q, l) PROVE ret' = ret
      BY <3>1 DEF Goto, CopyThen, SecondHalf
    <3>2. ASSUME NEW tomb, Advance(q, tomb)
          PROVE  ret' = ret \/ \E v : ret' = [ret EXCEPT ![q] = v]
      BY <3>2 DEF Advance, EndOfScan, MoveOn, Return
    <3>3. ASSUME NEW r, Return(q, r) PROVE ret' = [ret EXCEPT ![q] = r]
      BY <3>3 DEF Return
    <3>4. CASE Call(q)
      BY <3>4 DEF Call, CallGet, CallSet, CallDel, CallFlush, Start
    <3>5. CASE Crash(q)
      BY <3>3, <3>5 DEF Crash
    <3>6. CASE ProbeEmpty(q) \/ ProbeTombstone(q) \/ ProbeOccupied(q)
      BY <3>1, <3>2, <3>3, <3>6 DEF ProbeEmpty, ProbeTombstone, PassTombstone, Continue, ProbeOccupied
    <3>7. CASE LoadFingerprint(q) \/ LoadExpiry(q)
      BY <3>1, <3>2, <3>7 DEF LoadFingerprint, LoadExpiry, Continue
    <3>8. CASE CompareKey(q)
      BY <3>1, <3>2, <3>8 DEF CompareKey, Continue
    <3>9. CASE ReadValue(q)
      <4>1. ASSUME half[q] = 1, SecondHalf(q) PROVE ret' = ret
        BY <4>1 DEF SecondHalf
      <4> QED  BY <3>3, <3>9, <4>1 DEF ReadValue
    <3> QED
      BY <1>3, <3>4, <3>5, <3>6, <3>7, <3>8, <3>9
         DEF Step, ReadClock, Evict, UpdateValue, UpdateExpiry, DelCas, DelCount, WriteKey,
             WriteVal, WriteFp, WriteExp, Publish, CountInsert, FlushSlot, FlushCount, Claiming
  <2> QED  BY <1>1, <2>1 DEF IInv, TypeOK
<1> QED  BY <1>4, <1>5, <1>6, <1>7

\* What the writer knows depends on the slots, its own variables and the clock.
LEMMA Undisturbed ==
  ASSUME Base, IInv', UNCHANGED slotVars, now' = now \/ now' = now + 1, Lasting',
         pc'[Writer] = pc[Writer], arg'[Writer] = arg[Writer],
         probe'[Writer] = probe[Writer], half'[Writer] = half[Writer],
         first_tombstone'[Writer] = first_tombstone[Writer],
         ret'[Writer] = ret[Writer], got'[Writer] = got[Writer],
         loaded'[Writer] = loaded[Writer]
  PROVE  SInv'
<1>1. /\ Idx(Writer)' = Idx(Writer) /\ Target(Writer)' = Target(Writer) /\ Key' = Key
      /\ Val' = Val /\ (Active(Writer)' <=> Active(Writer))
  BY DEF Idx, Target, Key, Val, Active, At
<1>2. /\ state' = state /\ fingerprint' = fingerprint /\ expires_at' = expires_at
      /\ key_buf' = key_buf /\ val_buf' = val_buf
  BY DEF slotVars
<1>3. Solid' /\ Written'
  BY <1>1, <1>2 DEF Base, SInv, Solid, Written, Slots
<1>4. Found'
  <2>1. now' \in Nat /\ now \in Nat /\ Writer \in Procs
    BY DEF Base, IInv, TypeOK, OneWriter
  <2>2. pc[Writer] = "evict" => Idx(Writer) \in Slots /\ expires_at[Idx(Writer)] \in Nat
    <3>1. pc[Writer] = "evict" => Active(Writer)
      BY DEF Active
    <3> QED  BY <2>1, <3>1, SlotsInTable DEF Base, IInv, TypeOK
  <2>3. pc[Writer] = "evict" => IsExpired(Idx(Writer))'
    BY <1>1, <1>2, <2>1, <2>2 DEF Base, SInv, Found, IsExpired
  <2> QED  BY <1>1, <1>2, <2>3 DEF Base, SInv, Found, Holds
<1>5. Gone'
  BY <1>1, <1>2 DEF Base, SInv, Gone, Holds, At
<1>6. Cleaned' /\ Unsaid'
  BY <1>1, <1>2 DEF Base, SInv, Cleaned, Unsaid, Slots
<1> QED  BY <1>3, <1>4, <1>5, <1>6 DEF SInv

-----------------------------------------------------------------------------
(* The steps of the writer.                                                *)

\* What each of its steps starts from.
WriterStep == Base /\ IInv' /\ WholeInv' /\ UInv' /\ Lasting' /\ Beside(Writer)

\* The types of the writer's variables.
LEMMA WriterTypes ==
  ASSUME Base
  PROVE  /\ Writer \in Procs /\ N \in Nat \ {0} /\ probe[Writer] \in 0 .. N
         /\ half[Writer] \in 1 .. 2 /\ pc[Writer] \in Labels
         /\ now \in Nat /\ first_tombstone[Writer] \in Slots \cup {NoSlot}
         /\ Active(Writer) => /\ Idx(Writer) \in Slots /\ Target(Writer) \in Slots
                              /\ Key \in Keys /\ \A j \in 0 .. N - 1 : At(Key, j) \in Slots
         /\ pc[Writer] \notin Claiming \cup {"count"} /\ Active(Writer) => probe[Writer] < N
<1>1. Writer \in Procs
  BY DEF Base, OneWriter
<1>2. /\ N \in Nat \ {0} /\ probe[Writer] \in 0 .. N /\ half[Writer] \in 1 .. 2
      /\ pc[Writer] \in Labels /\ now \in Nat /\ first_tombstone[Writer] \in Slots \cup {NoSlot}
  BY <1>1, HashMapAssumption DEF Base, IInv, TypeOK
<1>3. Active(Writer) => /\ Idx(Writer) \in Slots /\ Target(Writer) \in Slots
                        /\ Key \in Keys /\ \A j \in 0 .. N - 1 : At(Key, j) \in Slots
  BY <1>1, <1>2, SlotsInTable, SlotAt DEF Base, Key
<1>4. pc[Writer] \notin Claiming \cup {"count"} /\ Active(Writer) => probe[Writer] < N
  BY <1>1, InLoop DEF Base
<1> QED  BY <1>1, <1>2, <1>3, <1>4

\* A call is over.
LEMMA ReturnKnown ==
  ASSUME WriterStep, NEW r, Returned(Writer, r), pc[Writer] # "update",
         val_buf' = val_buf, \A i \in Slots : state'[i] = STATE_OCCUPIED => state[i] = STATE_OCCUPIED
  PROVE  SInv'
<1>1. pc'[Writer] = "idle"
  BY DEF Returned
<1>2. Solid'
  BY DEF WriterStep, Base, SInv, Solid, Slots
<1>3. Written' /\ Found' /\ Gone' /\ Cleaned' /\ Unsaid'
  BY <1>1 DEF Written, Found, Finding, Gone, Cleaned, Unsaid, Active
<1> QED  BY <1>2, <1>3 DEF SInv, WriterStep

\* The writer goes on with a slot, reading.
LEMMA JumpKnown ==
  ASSUME WriterStep, UNCHANGED slotVars, NEW l, NEW h, Jumped(Writer, l, h), Active(Writer),
         pc[Writer] \notin Claiming \cup {"count", "del_count", "update"},
         ret'[Writer] = ret[Writer],
         \/ l \notin {"idle", "flush", "count", "update_exp", "del_count"} \cup Claiming
         \/ l = "write_key" /\ h = 1,
         l = "update" => h = 1,
         Found'
  PROVE  SInv'
<1>1. /\ Idx(Writer)' = Idx(Writer) /\ Key' = Key /\ Val' = Val
      /\ pc'[Writer] = l /\ half'[Writer] = h /\ arg'[Writer] = arg[Writer]
      /\ probe'[Writer] = probe[Writer] /\ first_tombstone'[Writer] = first_tombstone[Writer]
  BY DEF Jumped, Idx, Key, Val, At
<1>2. state' = state /\ key_buf' = key_buf /\ val_buf' = val_buf
  BY DEF slotVars
<1>3. Solid'
  BY <1>2 DEF WriterStep, Base, SInv, Solid, Slots
<1>4. Written'
  BY <1>1, <1>2 DEF WriterStep, Base, SInv, Written, Claiming
<1>5. Gone'
  BY <1>1, <1>2 DEF WriterStep, Base, SInv, Gone, Holds, At
<1>6. Cleaned' /\ Unsaid'
  BY <1>1 DEF WriterStep, Base, SInv, Cleaned, Unsaid, Active
<1> QED  BY <1>3, <1>4, <1>5, <1>6 DEF SInv, WriterStep

\* It passes a slot that has not its key, or has just freed it.
LEMMA AdvanceKnown ==
  ASSUME WriterStep, Active(Writer),
         pc[Writer] \notin Claiming \cup {"count", "del_count", "update"},
         NEW tomb, Advance(Writer, tomb), key_buf' = key_buf, val_buf' = val_buf,
         \A i \in Slots : state'[i] = STATE_OCCUPIED => state[i] = STATE_OCCUPIED,
         state'[Idx(Writer)] # STATE_OCCUPIED \/ key_buf[Idx(Writer)] # Both(Key),
         tomb = NoSlot =>
           /\ first_tombstone[Writer] = NoSlot /\ state' = state
           /\ arg[Writer].op = "set" => state[Idx(Writer)] = STATE_OCCUPIED
  PROVE  SInv'
<1>0. Writer \in Procs /\ IInv
  BY DEF WriterStep, Base, OneWriter
<1>1. ASSUME NEW r, Returned(Writer, r) PROVE SInv'
  BY <1>1, ReturnKnown
<1>2. ASSUME NEW l \in {"probe", "write_key"}, Moved(Writer, l, tomb) PROVE SInv'
  <2>1. /\ pc'[Writer] = l /\ half'[Writer] = 1 /\ arg'[Writer] = arg[Writer]
        /\ probe'[Writer] = probe[Writer] + 1 /\ first_tombstone'[Writer] = tomb
        /\ Key' = Key /\ Val' = Val
    BY <1>2 DEF Moved, Key, Val
  <2>2. Solid'
    BY DEF WriterStep, Base, SInv, Solid, Slots
  <2>3. Written' /\ Found' /\ Cleaned'
    BY <2>1 DEF Written, Found, Finding, Cleaned, Active, WriterStep, Base, SInv
  <2>4. Unsaid'
    <3>1. ret'[Writer] = ret[Writer]
      BY <1>0, <2>1 DEF Advance, EndOfScan, MoveOn, Return, IInv, TypeOK
    <3> QED  BY <3>1 DEF WriterStep, Base, SInv, Unsaid, Active
  <2>5. Gone'
    <3> SUFFICES ASSUME l = "probe", NEW j \in 0 .. N - 1, j < probe[Writer] + 1
                 PROVE  /\ ~Holds(At(Key, j), Key)'
                        /\ arg[Writer].op = "set" /\ tomb = NoSlot =>
                             state'[At(Key, j)] = STATE_OCCUPIED
      BY <2>1 DEF Gone, Holds, At, Claiming
    <3>1. probe[Writer] \in Nat /\ N \in Nat /\ At(Key, j) \in Slots
      BY WriterTypes DEF WriterStep
    <3>2. CASE j = probe[Writer]
      BY <2>1, <3>2 DEF Idx, Key, Holds
    <3>3. CASE j < probe[Writer]
      BY <2>1, <3>1, <3>3 DEF WriterStep, Base, SInv, Gone, Holds
    <3> QED  BY <3>1, <3>2, <3>3
  <2> QED  BY <2>2, <2>3, <2>4, <2>5 DEF SInv, WriterStep
<1> QED  BY <1>0, <1>1, <1>2, AdvanceMoves

LEMMA WriterJumps ==
  ASSUME Base, NEW l, Goto(Writer, l) \/ CopyThen(Writer, l)
  PROVE  /\ ret'[Writer] = ret[Writer]
         /\ \/ Goto(Writer, l) /\ Jumped(Writer, l, 1)
            \/ half[Writer] = 2 /\ Jumped(Writer, l, 1)
            \/ half[Writer] = 1 /\ Jumped(Writer, pc[Writer], 2)
<1>1. ret' = ret
  BY DEF Goto, CopyThen, SecondHalf
<1> QED  BY <1>1, WriterTypes, GotoJumps, CopyJumps DEF Base

LEMMA WriterReturns ==
  ASSUME Base, NEW r, Return(Writer, r) PROVE Returned(Writer, r)
  BY WriterTypes, ReturnReturns DEF Base

\* The labels at which SET, GET and DEL look at a slot and do not change it.
LEMMA ProbeKnown ==
  ASSUME WriterStep,
         ProbeEmpty(Writer) \/ ProbeTombstone(Writer) \/ ProbeOccupied(Writer)
  PROVE  SInv'
<1>0. /\ Base /\ pc[Writer] = "probe" /\ Active(Writer) /\ UNCHANGED slotVars
      /\ Idx(Writer) \in Slots
  BY WriterTypes DEF WriterStep, ProbeEmpty, ProbeTombstone, ProbeOccupied, Active, Reads
<1>1. UNCHANGED <<state, key_buf, val_buf>>
  BY <1>0 DEF slotVars
<1>2. CASE ProbeEmpty(Writer)
  <2>1. ASSUME Goto(Writer, "write_key") PROVE SInv'
    <3>1. Jumped(Writer, "write_key", 1) /\ ret'[Writer] = ret[Writer]
      BY <1>0, <2>1, WriterJumps, WriterTypes, GotoJumps DEF Base
    <3>2. Found'
      BY <3>1 DEF Jumped, Found, Finding
    <3> QED  BY <1>0, <3>1, <3>2, JumpKnown DEF Claiming
  <2> QED  BY <1>0, <1>1, <1>2, <2>1, WriterReturns, ReturnKnown DEF ProbeEmpty
<1>3. CASE ProbeTombstone(Writer)
  <2>1. state[Idx(Writer)] # STATE_OCCUPIED
    BY <1>3 DEF ProbeTombstone, STATE_TOMBSTONE, STATE_OCCUPIED
  <2>2. Candidate(Writer) # NoSlot
    BY <1>0 DEF Candidate, Slots, NoSlot
  <2>3. PICK tomb : /\ Advance(Writer, tomb)
                    /\ tomb = NoSlot => arg[Writer].op # "set" /\ first_tombstone[Writer] = NoSlot
    BY <1>3, <2>2 DEF ProbeTombstone, PassTombstone, Continue
  <2> QED  BY <1>0, <1>1, <2>1, <2>3, AdvanceKnown DEF Claiming
<1>4. CASE ProbeOccupied(Writer)
  <2>1. Jumped(Writer, "fp", 1) /\ ret'[Writer] = ret[Writer]
    BY <1>0, <1>4, WriterJumps, WriterTypes, GotoJumps DEF ProbeOccupied, Base
  <2>2. Found'
    BY <1>0, <1>1, <1>4, <2>1 DEF Jumped, Found, Finding, ProbeOccupied, Idx, At
  <2> QED  BY <1>0, <2>1, <2>2, JumpKnown DEF Claiming
<1> QED  BY <1>2, <1>3, <1>4

\* A slot the writer examines is that of its key if the fingerprint says so.
LEMMA FingerprintKnown ==
  ASSUME WriterStep, LoadFingerprint(Writer) PROVE SInv'
<1>0. /\ Base /\ pc[Writer] = "fp" /\ Active(Writer) /\ UNCHANGED slotVars
      /\ Idx(Writer) \in Slots /\ Key \in Keys /\ state[Idx(Writer)] = STATE_OCCUPIED
  BY WriterTypes DEF WriterStep, LoadFingerprint, Active, Reads, Base, SInv, Found
<1>1. UNCHANGED <<state, key_buf, val_buf, fingerprint>>
  BY <1>0 DEF slotVars
<1>2. CASE fingerprint[Idx(Writer)] # Fp[Key] /\ Continue(Writer)
  <2>1. key_buf[Idx(Writer)] # Both(Key)
    BY <1>0, <1>2, KeyTells DEF Base, Holds
  <2> QED  BY <1>0, <1>1, <1>2, <2>1, AdvanceKnown DEF Continue, Claiming
<1>3. ASSUME NEW l \in {"key", "expiry"}, Goto(Writer, l), fingerprint[Idx(Writer)] = Fp[Key]
      PROVE  SInv'
  <2>1. Jumped(Writer, l, 1) /\ ret'[Writer] = ret[Writer]
    BY <1>0, <1>3, WriterJumps, WriterTypes, GotoJumps DEF Base
  <2>2. Holds(Idx(Writer), Key)
    BY <1>0, <1>3, PrintTells DEF Base
  <2>3. Found'
    BY <1>1, <1>3, <2>1, <2>2 DEF Jumped, Found, Finding, Idx, Key, Holds, At
  <2> QED  BY <1>0, <1>3, <2>1, <2>3, JumpKnown DEF Claiming
<1> QED  BY <1>2, <1>3 DEF LoadFingerprint, Key

\* The expiry is loaded, and then compared with the clock.
LEMMA ExpiryKnown ==
  ASSUME WriterStep, LoadExpiry(Writer) \/ ReadClock(Writer) PROVE SInv'
<1>0. /\ Base /\ pc[Writer] \in {"expiry", "clock"} /\ Active(Writer) /\ UNCHANGED slotVars
      /\ Idx(Writer) \in Slots /\ Key \in Keys /\ Holds(Idx(Writer), Key) /\ now' = now
      /\ Writer \in Procs
  BY WriterTypes
     DEF WriterStep, LoadExpiry, ReadClock, Active, Base, SInv, Found, Finding
<1>1. UNCHANGED <<state, key_buf, val_buf, expires_at>>
  BY <1>0 DEF slotVars
<1>2. PICK l \in {"key", "clock", "evict"} :
        /\ Goto(Writer, l)
        /\ l = "clock" => loaded'[Writer] = expires_at[Idx(Writer)] /\ loaded'[Writer] # 0
        /\ l = "evict" => IsExpired(Idx(Writer))
  <2>1. CASE LoadExpiry(Writer)
    BY <1>0, <2>1 DEF LoadExpiry, Base, IInv, TypeOK
  <2>2. CASE ReadClock(Writer)
    BY <1>0, <2>2 DEF ReadClock, Base, SInv, Found, IsExpired
  <2> QED  BY <2>1, <2>2
<1>3. Jumped(Writer, l, 1) /\ ret'[Writer] = ret[Writer]
  BY <1>0, <1>2, WriterJumps, WriterTypes, GotoJumps DEF Base
<1>4. Found'
  BY <1>0, <1>1, <1>2, <1>3 DEF Jumped, Found, Finding, Idx, Key, Holds, At, IsExpired
<1> QED  BY <1>0, <1>2, <1>3, <1>4, JumpKnown DEF Claiming

LEMMA EvictKnown ==
  ASSUME WriterStep, Evict(Writer) PROVE SInv'
<1>0. /\ Base /\ pc[Writer] = "evict" /\ Active(Writer) /\ Idx(Writer) \in Slots
      /\ UNCHANGED <<key_buf, val_buf>>
  BY WriterTypes DEF WriterStep, Evict, Active
<1>1. /\ \A i \in Slots : state'[i] = STATE_OCCUPIED => state[i] = STATE_OCCUPIED
      /\ state'[Idx(Writer)] # STATE_OCCUPIED
  BY <1>0 DEF Evict, Tombstoned, Base, IInv, TypeOK, STATE_TOMBSTONE, STATE_OCCUPIED
<1>2. Candidate(Writer) # NoSlot
  BY <1>0 DEF Candidate, Slots, NoSlot
<1>3. CASE Return(Writer, "Expired")
  BY <1>0, <1>1, <1>3, WriterReturns, ReturnKnown
<1>4. CASE Advance(Writer, Candidate(Writer))
  BY <1>0, <1>1, <1>2, <1>4, AdvanceKnown DEF Claiming
<1> QED  BY <1>3, <1>4 DEF Evict

\* read_key finds the key that the fingerprint promised.
LEMMA KeyKnown ==
  ASSUME WriterStep, CompareKey(Writer) PROVE SInv'
<1>0. /\ Base /\ pc[Writer] = "key" /\ Active(Writer) /\ UNCHANGED slotVars
      /\ Holds(Idx(Writer), Key) /\ half[Writer] \in 1 .. 2
  BY WriterTypes DEF WriterStep, CompareKey, Active, Reads, Base, SInv, Found, Finding
<1>1. UNCHANGED <<state, key_buf, val_buf>>
  BY <1>0 DEF slotVars
<1>2. key_buf[Idx(Writer)][half[Writer]] = arg[Writer].key
  BY <1>0 DEF Holds, Both, Key
<1>3. PICK l \in {"read", "update", "del"} : CopyThen(Writer, l)
  BY <1>2 DEF CompareKey
<1>4. PICK m \in {"key", "read", "update", "del"}, h \in {1, 2} :
        Jumped(Writer, m, h) /\ (m # "key" => h = 1)
  BY <1>0, <1>3, WriterTypes, CopyJumps DEF Base
<1>5. ret'[Writer] = ret[Writer]
  BY <1>0, <1>3, WriterJumps
<1>6. Found'
  BY <1>0, <1>1, <1>4 DEF Jumped, Found, Finding, Idx, Key, Holds, At
<1> QED  BY <1>0, <1>4, <1>5, <1>6, JumpKnown DEF Claiming

LEMMA ValueKnown ==
  ASSUME WriterStep, ReadValue(Writer) PROVE SInv'
<1>0. /\ Base /\ pc[Writer] = "read" /\ Active(Writer) /\ UNCHANGED slotVars
      /\ Holds(Idx(Writer), Key) /\ Writer \in Procs
  BY WriterTypes DEF WriterStep, ReadValue, Active, Base, SInv, Found, Finding
<1>1. UNCHANGED <<state, key_buf, val_buf>>
  BY <1>0 DEF slotVars
<1>2. CASE half[Writer] = 1 /\ SecondHalf(Writer)
  <2>1. Jumped(Writer, "read", 2) /\ ret'[Writer] = ret[Writer]
    BY <1>0, <1>2, WriterJumps, CopyJumps DEF CopyThen, Base
  <2>2. got'[Writer][1] = val_buf[Idx(Writer)][1]
    BY <1>0, <1>2 DEF ReadValue, Base, IInv, TypeOK
  <2>3. Found'
    BY <1>0, <1>1, <2>1, <2>2 DEF Jumped, Found, Finding, Idx, Key, Holds, At
  <2> QED  BY <1>0, <2>1, <2>3, JumpKnown DEF Claiming
<1>3. CASE Return(Writer, "Found")
  BY <1>0, <1>1, <1>3, WriterReturns, ReturnKnown
<1> QED  BY <1>2, <1>3 DEF ReadValue

LEMMA UpdateKnown ==
  ASSUME WriterStep, UpdateValue(Writer) PROVE SInv'
<1>0. /\ Base /\ pc[Writer] = "update" /\ Active(Writer) /\ Idx(Writer) \in Slots
      /\ Holds(Idx(Writer), Key) /\ Val \in Vals
      /\ UNCHANGED <<state, key_buf>>
  BY WriterTypes
     DEF WriterStep, UpdateValue, Active, Base, SInv, Found, Finding, Written, WholeInv,
         Labelled, OneWriter
<1>1. /\ \A i \in Slots : i # Idx(Writer) => val_buf'[i] = val_buf[i]
      /\ val_buf[Idx(Writer)] \in [1 .. 2 -> Vals \cup {NoVal}]
      /\ val_buf'[Idx(Writer)] = [val_buf[Idx(Writer)] EXCEPT ![half[Writer]] = Val]
  BY <1>0 DEF UpdateValue, Val, Base, IInv, TypeOK
<1>2. /\ ret'[Writer] = ret[Writer]
      /\ \/ half[Writer] = 1 /\ Jumped(Writer, "update", 2)
         \/ half[Writer] = 2 /\ Jumped(Writer, "update_exp", 1)
  BY <1>0, WriterJumps, WriterTypes, CopyJumps DEF UpdateValue, Base
<1>3. /\ Idx(Writer)' = Idx(Writer) /\ Key' = Key /\ Val' = Val /\ arg'[Writer] = arg[Writer]
      /\ probe'[Writer] = probe[Writer] /\ first_tombstone'[Writer] = first_tombstone[Writer]
  BY <1>2 DEF Jumped, Idx, Key, Val, At
<1>4. CASE half[Writer] = 1 /\ Jumped(Writer, "update", 2)
  <2>1. pc'[Writer] = "update" /\ half'[Writer] = 2
    BY <1>4 DEF Jumped
  <2>2. val_buf'[Idx(Writer)][1] = Val
    BY <1>1, <1>4
  <2>3. Solid'
    BY <1>0, <1>1, <1>3, <2>1 DEF Base, SInv, Solid, Slots
  <2>4. Written' /\ Found'
    BY <1>0, <1>3, <2>1, <2>2 DEF Written, Found, Finding, Claiming, Holds
  <2>5. Gone' /\ Cleaned' /\ Unsaid'
    BY <1>0, <1>2, <1>3, <2>1
       DEF Base, SInv, Gone, Cleaned, Unsaid, Holds, At, Claiming, Active
  <2> QED  BY <2>3, <2>4, <2>5 DEF SInv, WriterStep
<1>5. CASE half[Writer] = 2 /\ Jumped(Writer, "update_exp", 1)
  <2>1. pc'[Writer] = "update_exp" /\ half'[Writer] = 1
    BY <1>5 DEF Jumped
  <2>2. val_buf[Idx(Writer)][1] = Val
    BY <1>0, <1>5 DEF Base, SInv, Written
  <2>3. val_buf'[Idx(Writer)] = Both(Val)
    BY <1>1, <1>5, <2>2 DEF Both
  <2>4. Solid'
    BY <1>0, <1>1, <1>3, <2>1, <2>3 DEF Base, SInv, Solid, Slots
  <2>5. Written' /\ Found'
    BY <1>0, <1>3, <2>1, <2>3 DEF Written, Found, Finding, Claiming, Holds
  <2>6. Gone' /\ Cleaned' /\ Unsaid'
    BY <1>0, <1>2, <1>3, <2>1
       DEF Base, SInv, Gone, Cleaned, Unsaid, Holds, At, Claiming, Active
  <2> QED  BY <2>4, <2>5, <2>6 DEF SInv, WriterStep
<1> QED  BY <1>2, <1>4, <1>5

LEMMA DelKnown ==
  ASSUME WriterStep, DelCas(Writer) PROVE SInv'
<1>0. /\ Base /\ pc[Writer] = "del" /\ Active(Writer) /\ Idx(Writer) \in Slots
      /\ state[Idx(Writer)] = STATE_OCCUPIED /\ val_buf' = val_buf
  BY WriterTypes
     DEF WriterStep, DelCas, Active, Base, SInv, Found, Finding, Holds
<1>1. Goto(Writer, "del_count") /\ state' = Tombstoned(Idx(Writer))
  BY <1>0 DEF DelCas
<1>2. Jumped(Writer, "del_count", 1) /\ ret'[Writer] = ret[Writer]
  BY <1>0, <1>1, WriterJumps, WriterTypes, GotoJumps DEF Base
<1>3. \A i \in Slots : state'[i] = STATE_OCCUPIED => state[i] = STATE_OCCUPIED
  BY <1>0, <1>1 DEF Tombstoned, Base, IInv, TypeOK, STATE_TOMBSTONE, STATE_OCCUPIED
<1>4. Solid'
  BY <1>0, <1>3 DEF Base, SInv, Solid, Slots
<1>5. Written' /\ Found' /\ Gone' /\ Cleaned' /\ Unsaid'
  BY <1>0, <1>2
     DEF Jumped, Base, SInv, Written, Found, Finding, Gone, Cleaned, Unsaid, Claiming, Active,
         Val
<1> QED  BY <1>4, <1>5 DEF SInv, WriterStep

\* claim_slot fills a slot that is not OCCUPIED.
LEMMA ClaimKnown ==
  ASSUME WriterStep, NEW l \in Claiming, NEW h, Jumped(Writer, l, h), pc[Writer] \in Claiming,
         ret'[Writer] = ret[Writer], state' = state,
         \A i \in Slots : i # Target(Writer) => val_buf'[i] = val_buf[i],
         l = "write_val" /\ h = 2 => val_buf'[Target(Writer)][1] = Val,
         l \in {"write_fp", "write_exp", "publish"} => val_buf'[Target(Writer)] = Both(Val),
         l = "publish" => expires_at'[Target(Writer)] = arg[Writer].expiry
  PROVE  SInv'
<1>1. /\ Target(Writer)' = Target(Writer) /\ Val' = Val /\ arg'[Writer] = arg[Writer]
      /\ pc'[Writer] = l /\ half'[Writer] = h
  BY DEF Jumped, Target, Idx, Val, At
<1>2. Target(Writer) \in Slots /\ state[Target(Writer)] # STATE_OCCUPIED
  <2>1. Active(Writer)
    BY DEF Active, Claiming
  <2> QED  BY <2>1, WriterTypes DEF WriterStep, Base, WholeInv, Owned
<1>3. Solid'
  BY <1>1, <1>2 DEF WriterStep, Base, SInv, Solid, Slots, Claiming
<1>4. Written'
  BY <1>1 DEF WriterStep, Base, SInv, Written, Active, Claiming
<1>5. Found' /\ Gone' /\ Cleaned' /\ Unsaid'
  BY <1>1 DEF WriterStep, Base, SInv, Found, Finding, Gone, Cleaned, Unsaid, Claiming
<1> QED  BY <1>3, <1>4, <1>5 DEF SInv, WriterStep

LEMMA WritesKnown ==
  ASSUME WriterStep,
         WriteKey(Writer) \/ WriteVal(Writer) \/ WriteFp(Writer) \/ WriteExp(Writer)
  PROVE  SInv'
<1>0. /\ Base /\ pc[Writer] \in Claiming /\ Active(Writer) /\ Target(Writer) \in Slots
      /\ state' = state /\ Writer \in Procs
  <2>1. Base /\ pc[Writer] \in Claiming /\ Active(Writer) /\ state' = state
    BY DEF WriterStep, WriteKey, WriteVal, WriteFp, WriteExp, Claiming, Active
  <2> QED  BY <2>1, WriterTypes
<1>1. ASSUME NEW l, Goto(Writer, l) \/ CopyThen(Writer, l)
      PROVE  /\ ret'[Writer] = ret[Writer]
             /\ \/ Goto(Writer, l) /\ Jumped(Writer, l, 1)
                \/ half[Writer] = 2 /\ Jumped(Writer, l, 1)
                \/ half[Writer] = 1 /\ Jumped(Writer, pc[Writer], 2)
  BY <1>0, <1>1, WriterJumps
<1>2. CASE WriteKey(Writer)
  <2>1. PICK l \in {"write_key", "write_val"}, h \in 1 .. 2 :
          /\ Jumped(Writer, l, h) /\ ret'[Writer] = ret[Writer]
          /\ l = "write_val" => h = 1
    BY <1>0, <1>2, WriterJumps, CopyJumps DEF WriteKey, After, Base
  <2> QED  BY <1>0, <1>2, <2>1, ClaimKnown DEF WriteKey, Claiming
<1>3. CASE WriteVal(Writer)
  <2>1. /\ \A i \in Slots : i # Target(Writer) => val_buf'[i] = val_buf[i]
        /\ val_buf[Target(Writer)] \in [1 .. 2 -> Vals \cup {NoVal}]
        /\ val_buf'[Target(Writer)] = [val_buf[Target(Writer)] EXCEPT ![half[Writer]] = Val]
    BY <1>0, <1>3 DEF WriteVal, Val, Base, IInv, TypeOK
  <2>2. CASE half[Writer] = 1 /\ Jumped(Writer, "write_val", 2)
    <3>1. val_buf'[Target(Writer)][1] = Val /\ ret'[Writer] = ret[Writer]
      BY <1>0, <1>3, <2>1, <2>2, WriterJumps DEF WriteVal
    <3> QED  BY <1>0, <2>1, <2>2, <3>1, ClaimKnown DEF Claiming
  <2>3. CASE half[Writer] = 2 /\ Jumped(Writer, "write_fp", 1)
    <3>1. val_buf[Target(Writer)][1] = Val /\ ret'[Writer] = ret[Writer]
      BY <1>0, <1>3, <2>3, WriterJumps DEF WriteVal, Base, SInv, Written
    <3>2. val_buf'[Target(Writer)] = Both(Val)
      BY <2>1, <2>3, <3>1 DEF Both
    <3> QED  BY <1>0, <2>1, <2>3, <3>1, <3>2, ClaimKnown DEF Claiming
  <2> QED  BY <1>0, <1>3, <2>2, <2>3, CopyJumps DEF WriteVal, After, Base
<1>4. CASE WriteFp(Writer)
  <2>1. Jumped(Writer, "write_exp", 1) /\ ret'[Writer] = ret[Writer]
    BY <1>0, <1>4, WriterJumps, GotoJumps DEF WriteFp, After, Base
  <2> QED  BY <1>0, <1>4, <2>1, ClaimKnown DEF WriteFp, Claiming, Base, SInv, Written
<1>5. CASE WriteExp(Writer)
  <2>1. Jumped(Writer, "publish", 1) /\ ret'[Writer] = ret[Writer]
    BY <1>0, <1>5, WriterJumps, GotoJumps DEF WriteExp, After, Base
  <2>2. expires_at'[Target(Writer)] = arg[Writer].expiry
    BY <1>0, <1>5 DEF WriteExp, Base, IInv, TypeOK
  <2> QED  BY <1>0, <1>5, <2>1, <2>2, ClaimKnown DEF WriteExp, Claiming, Base, SInv, Written
<1> QED  BY <1>2, <1>3, <1>4, <1>5

LEMMA PublishKnown ==
  ASSUME WriterStep, Publish(Writer) PROVE SInv'
<1>0. /\ Base /\ pc[Writer] = "publish" /\ Active(Writer) /\ Target(Writer) \in Slots
      /\ Val \in Vals /\ val_buf[Target(Writer)] = Both(Val)
      /\ val_buf' = val_buf
  <2>1. Base /\ pc[Writer] = "publish" /\ Active(Writer) /\ val_buf' = val_buf
    BY DEF WriterStep, Publish, Active
  <2>2. Writer \in Procs /\ arg[Writer].op = "set"
    BY <2>1, WriterTypes DEF Base, WholeInv, Labelled, Claiming
  <2> QED  BY <2>1, <2>2, WriterTypes DEF Base, SInv, Written
<1>1. Jumped(Writer, "count", 1) /\ ret'[Writer] = ret[Writer]
  BY <1>0, WriterJumps, WriterTypes, GotoJumps DEF Publish, Base
<1>2. \A i \in Slots : i # Target(Writer) => state'[i] = state[i]
  BY DEF Publish, WriterStep, Base, IInv, TypeOK
<1>3. Solid'
  BY <1>0, <1>2 DEF Base, SInv, Solid, Slots
<1>4. Written' /\ Found' /\ Gone' /\ Cleaned' /\ Unsaid'
  BY <1>0, <1>1
     DEF Jumped, Base, SInv, Written, Found, Finding, Gone, Cleaned, Unsaid, Claiming, Active,
         Val
<1> QED  BY <1>3, <1>4 DEF SInv, WriterStep

\* The last steps of the calls.
LEMMA EndsKnown ==
  ASSUME WriterStep,
         \/ UpdateExpiry(Writer) \/ DelCount(Writer) \/ CountInsert(Writer)
         \/ FlushCount(Writer)
  PROVE  SInv'
<1>1. Base /\ UNCHANGED <<state, val_buf>> /\ pc[Writer] # "update"
  BY DEF WriterStep, UpdateExpiry, DelCount, CountInsert, FlushCount, slotVars
<1>2. PICK r : Return(Writer, r)
  BY DEF UpdateExpiry, DelCount, CountInsert, FlushCount
<1> QED  BY <1>1, <1>2, WriterReturns, ReturnKnown

LEMMA FlushKnown ==
  ASSUME WriterStep, FlushSlot(Writer) PROVE SInv'
<1>0. Base /\ Writer \in Procs /\ probe[Writer] \in Nat
  BY WriterTypes DEF WriterStep
<1>1. /\ pc[Writer] = "flush" /\ pc'[Writer] = "flush" /\ ret'[Writer] = ret[Writer]
      /\ probe'[Writer] = probe[Writer] + 1
      /\ \A i \in Slots : \/ i = probe[Writer] /\ state'[i] = STATE_EMPTY
                          \/ /\ i # probe[Writer] /\ state'[i] = state[i]
                             /\ val_buf'[i] = val_buf[i]
  BY <1>0 DEF FlushSlot, Base, IInv, TypeOK
<1>2. Solid' /\ Cleaned'
  BY <1>0, <1>1 DEF Base, SInv, Solid, Cleaned, Slots, STATE_EMPTY, STATE_OCCUPIED
<1>3. Written' /\ Found' /\ Gone' /\ Unsaid'
  BY <1>1 DEF Base, SInv, Written, Found, Finding, Gone, Unsaid, Claiming, Active, WriterStep
<1> QED  BY <1>2, <1>3 DEF SInv, WriterStep

LEMMA CallKnown ==
  ASSUME WriterStep, Call(Writer) PROVE SInv'
<1>0. Base /\ Writer \in Procs
  BY WriterTypes DEF WriterStep
<1>1. PICK op, k, v, expiry :
        Start(Writer, op, k, v, expiry) /\ (op = "set" => v \in Vals)
  BY DEF Call, CallGet, CallSet, CallDel, CallFlush
<1>2. /\ pc[Writer] = "idle" /\ pc'[Writer] \in {"probe", "flush"}
      /\ arg'[Writer].op = op /\ Val' = v /\ probe'[Writer] = 0 /\ ret'[Writer] = "None"
      /\ UNCHANGED <<state, val_buf>>
  BY <1>0, <1>1 DEF Start, Base, IInv, TypeOK, Resting, slotVars, Val
<1>3. Solid'
  BY <1>0, <1>2 DEF Base, SInv, Solid, Slots
<1>4. Written' /\ Found' /\ Gone' /\ Cleaned' /\ Unsaid'
  BY <1>1, <1>2 DEF Written, Found, Finding, Gone, Cleaned, Unsaid, Claiming, Slots
<1> QED  BY <1>3, <1>4 DEF SInv, WriterStep

LEMMA WriterKnown ==
  ASSUME WriterStep, Step(Writer) \/ Call(Writer) PROVE SInv'
  BY ProbeKnown, FingerprintKnown, ExpiryKnown, EvictKnown, KeyKnown, ValueKnown, UpdateKnown,
     DelKnown, WritesKnown, PublishKnown, EndsKnown, FlushKnown, CallKnown DEF Step

LEMMA NextKnown ==
  ASSUME Base, [Next]_vars, IInv', WholeInv', UInv' PROVE SInv'
<1>1. Lasting'
  BY TimelessKept DEF Base, SInv, Lasting, OneWriter
<1>2. ASSUME NEW q \in Procs, q # Writer, Step(q) \/ Call(q) \/ Crash(q) PROVE SInv'
  <2>1. /\ UNCHANGED <<slotVars, now>> /\ Beside(q)
        /\ ret'[Writer] = ret[Writer] /\ got'[Writer] = got[Writer]
        /\ loaded'[Writer] = loaded[Writer]
    BY <1>2, ReadersRead
  <2> QED  BY <1>1, <1>2, <2>1, Undisturbed, WriterTypes DEF Beside
<1>3. CASE Tick \/ UNCHANGED vars
  BY <1>1, <1>3, Undisturbed DEF Tick, vars, opVars
<1>4. CASE Step(Writer) \/ Call(Writer)
  <2>1. Beside(Writer)
    BY <1>4, StepBeside, WriterTypes DEF Base
  <2>2. WriterStep
    BY <1>1, <2>1 DEF WriterStep
  <2> QED  BY <1>4, <2>2, WriterKnown
<1>5. ~Crash(Writer)
  BY DEF Crash, Base, OneWriter
<1> QED  BY <1>2, <1>3, <1>4, <1>5 DEF Next

LEMMA StoreInvariance ==
  ASSUME OneWriter, DistinctHashes PROVE Spec => [](IInv /\ WholeInv /\ UInv /\ SInv)
<1>1. Init => SInv
  <2> SUFFICES ASSUME Init PROVE SInv
    OBVIOUS
  <2>1. Writer \in Procs
    BY DEF OneWriter
  <2>2. Solid /\ Lasting
    BY DEF Init, Solid, Lasting, Timeless, NoArg, STATE_EMPTY, STATE_OCCUPIED
  <2>3. Written /\ Found /\ Gone /\ Cleaned /\ Unsaid
    BY <2>1 DEF Init, Written, Found, Finding, Gone, Cleaned, Unsaid, Active, Claiming
  <2> QED  BY <2>2, <2>3 DEF SInv
<1>2. /\ IInv /\ WholeInv /\ UInv /\ SInv /\ [Next]_vars /\ IInv' /\ WholeInv' /\ UInv'
      => SInv'
  BY NextKnown DEF Base
<1>3. Spec => [](IInv /\ WholeInv /\ UInv)
  BY WriterAlone, Invariance, WholeInvariance, UniqueInvariance, PTL
<1> QED  BY <1>1, <1>2, <1>3, PTL DEF Spec

-----------------------------------------------------------------------------
(* The dictionary that the slots hold.                                     *)

\* The phase of the writer's call, by its label.
Phases ==
  /\ pc[Writer] = "idle" => PhaseOf = "idle"
  /\ pc[Writer] \in Claiming \cup {"probe", "fp", "expiry", "clock", "evict", "del"} =>
       PhaseOf = "called"
  /\ pc[Writer] \in {"key", "read"} =>
       PhaseOf = IF arg[Writer].op = "get" THEN "found" ELSE "called"
  /\ pc[Writer] = "update" => PhaseOf = IF half[Writer] = 2 THEN "updated" ELSE "called"
  /\ pc[Writer] = "update_exp" => PhaseOf = "updated"
  /\ pc[Writer] = "count" => PhaseOf = "inserted"
  /\ pc[Writer] = "del_count" => PhaseOf = "removed"
  /\ pc[Writer] = "flush" => PhaseOf = IF probe[Writer] > 0 THEN "cleared" ELSE "called"

LEMMA PhasesNow == Phases
  BY DEF Phases, PhaseOf, Claiming

LEMMA PhasesNext == Phases'
  BY PhasesNow, PTL

Nothing == [val |-> NoVal, expiry |-> 0]

\* The entry of a key is what its slot says, but for a call that has taken
\* effect and is not through with the slots.
Entries ==
  \A k \in Keys :
    /\ PhaseOf = "cleared" \/ (\A i \in Slots : ~Holds(i, k)) => EntryOf(k) = Nothing
    /\ \A i \in Slots : Holds(i, k) /\ PhaseOf # "cleared" =>
         EntryOf(k) = IF PhaseOf = "updated" /\ Key = k
                      THEN [val |-> Val, expiry |-> arg[Writer].expiry]
                      ELSE [val |-> Whole(val_buf[i]), expiry |-> expires_at[i]]

LEMMA EntriesNow == UniqueKey => Entries
<1> SUFFICES ASSUME UniqueKey, NEW k \in Keys
             PROVE  /\ PhaseOf = "cleared" \/ (\A i \in Slots : ~Holds(i, k)) =>
                         EntryOf(k) = Nothing
                    /\ \A i \in Slots : Holds(i, k) /\ PhaseOf # "cleared" =>
                         EntryOf(k) = IF PhaseOf = "updated" /\ Key = k
                                      THEN [val |-> Val, expiry |-> arg[Writer].expiry]
                                      ELSE [val |-> Whole(val_buf[i]), expiry |-> expires_at[i]]
  BY DEF Entries
<1>1. \A i \in Slots : Holds(i, k) <=> i \in SlotsOf(k)
  BY DEF SlotsOf, Holds
<1>2. ASSUME \A i \in Slots : ~Holds(i, k) PROVE SlotsOf(k) = {}
  BY <1>2 DEF SlotsOf, Holds
<1>3. ASSUME NEW i \in Slots, Holds(i, k) PROVE SlotsOf(k) # {} /\ SlotOf(k) = i
  <2>1. i \in SlotsOf(k)
    BY <1>1, <1>3
  <2>2. SlotOf(k) \in SlotsOf(k)
    BY <2>1 DEF SlotOf
  <2>3. SlotOf(k) \in Slots /\ Holds(SlotOf(k), k)
    BY <2>2 DEF SlotsOf, Holds
  <2> QED  BY <1>3, <2>1, <2>3 DEF UniqueKey, Holds
<1> QED  BY <1>2, <1>3 DEF EntryOf, Nothing, Key, Val

LEMMA EntriesNext == UniqueKey' => Entries'
  BY EntriesNow, PTL

\* The keys of the dictionary are those with a slot, until FLUSH clears it.
LEMMA HeldAre ==
  ASSUME Base
  PROVE  Store!Held = {k \in Keys : PhaseOf # "cleared" /\ \E i \in Slots : Holds(i, k)}
<1>1. Entries
  BY EntriesNow DEF Base, UInv
<1>2. ASSUME NEW k \in Keys, NEW i \in Slots, Holds(i, k), PhaseOf # "cleared"
      PROVE  EntryOf(k) # Nothing
  <2>1. CASE PhaseOf = "updated" /\ Key = k
    <3>1. pc[Writer] \in {"update", "update_exp"} /\ arg[Writer].op = "set" /\ Active(Writer)
      <4>1. pc[Writer] \in {"update", "update_exp"}
        BY <2>1, PhasesNow, WriterTypes DEF Phases, Labels, Scanning
      <4> QED  BY <4>1, WriterTypes DEF Base, WholeInv, Labelled, Active
    <3>2. Val \in Vals
      BY <3>1 DEF Base, SInv, Written
    <3> QED  BY <1>1, <1>2, <2>1, <3>2, HashMapAssumption DEF Entries, Nothing
  <2>2. CASE ~(PhaseOf = "updated" /\ Key = k)
    <3>1. \E v \in Vals : val_buf[i] = Both(v)
      <4> SUFFICES ASSUME pc[Writer] = "update", half[Writer] = 2, i = Idx(Writer) PROVE FALSE
        BY <1>2 DEF Base, SInv, Solid, Holds
      <4>1. PhaseOf = "updated" /\ Holds(i, Key)
        BY PhasesNow DEF Phases, Base, SInv, Found, Finding
      <4>2. Both(k)[1] = k /\ Both(Key)[1] = Key
        BY DEF Both
      <4> QED  BY <1>2, <2>2, <4>1, <4>2 DEF Holds
    <3>2. Whole(val_buf[i]) \in Vals
      BY <3>1 DEF Whole, Both
    <3>3. EntryOf(k) = [val |-> Whole(val_buf[i]), expiry |-> expires_at[i]]
      BY <1>1, <1>2, <2>2 DEF Entries
    <3> QED  BY <3>2, <3>3, HashMapAssumption DEF Nothing
  <2> QED  BY <2>1, <2>2
<1>3. Store!Held = {k \in Keys : EntryOf(k) # Nothing}
  BY DEF Store!Held, Store!Missing, Nothing
<1> QED  BY <1>1, <1>2, <1>3 DEF Entries

-----------------------------------------------------------------------------
(* What the steps do to the dictionary.                                    *)

StoreStep == [Store!Next]_(Store!kvars)

\* A step of the writer, with what is known before and after it.
Sure == WriterStep /\ SInv'

\* The entry of k stays if its slot does.
LEMMA EntryKept ==
  ASSUME UniqueKey, UniqueKey', NEW k \in Keys, PhaseOf # "cleared", PhaseOf' # "cleared",
         \A i \in Slots : Holds(i, k)' <=> Holds(i, k),
         \A i \in Slots : Holds(i, k) =>
           val_buf'[i] = val_buf[i] /\ expires_at'[i] = expires_at[i],
         \/ PhaseOf # "updated" \/ k # Key,
         \/ PhaseOf' # "updated" \/ k # Key'
  PROVE  EntryOf(k)' = EntryOf(k)
<1>1. Entries /\ Entries'
  BY EntriesNow, EntriesNext
<1>2. CASE \A i \in Slots : ~Holds(i, k)
  <2>1. EntryOf(k) = Nothing
    BY <1>1, <1>2 DEF Entries
  <2>2. EntryOf(k)' = Nothing
    BY <1>1, <1>2 DEF Entries, Nothing, Slots
  <2> QED  BY <2>1, <2>2
<1>3. ASSUME NEW i \in Slots, Holds(i, k) PROVE EntryOf(k)' = EntryOf(k)
  <2>1. EntryOf(k) = [val |-> Whole(val_buf[i]), expiry |-> expires_at[i]]
    BY <1>1, <1>3 DEF Entries
  <2>2. EntryOf(k)' = [val |-> Whole(val_buf'[i]), expiry |-> expires_at'[i]]
    BY <1>1, <1>3 DEF Entries, Slots, Whole
  <2> QED  BY <1>3, <2>1, <2>2
<1> QED  BY <1>2, <1>3

\* All entries stay while the slots do.
LEMMA EntriesKept ==
  ASSUME UniqueKey, UniqueKey', UNCHANGED <<state, key_buf, val_buf, expires_at>>,
         PhaseOf \notin {"cleared", "updated"}, PhaseOf' \notin {"cleared", "updated"}
  PROVE  \A k \in Keys : EntryOf(k)' = EntryOf(k)
  BY EntryKept DEF Holds

\* A step that the dictionary does not see.
LEMMA Stutters ==
  ASSUME now' = now, arg'[Writer] = arg[Writer], ret'[Writer] = ret[Writer], PhaseOf' = PhaseOf,
         ret[Writer] = "Found" => got'[Writer] = got[Writer],
         \A k \in Keys : EntryOf(k)' = EntryOf(k)
  PROVE  StoreStep
  BY DEF StoreStep, Store!kvars, Whole

\* The writer reads on.
LEMMA ReadsOn ==
  ASSUME Sure, UNCHANGED slotVars, now' = now, arg'[Writer] = arg[Writer],
         ret'[Writer] = ret[Writer], PhaseOf' = PhaseOf, pc[Writer] # "idle",
         PhaseOf \notin {"cleared", "updated"}
  PROVE  StoreStep
<1>1. ret[Writer] = "None"
  BY DEF Sure, WriterStep, Base, SInv, Unsaid
<1>2. \A k \in Keys : EntryOf(k)' = EntryOf(k)
  BY EntriesKept DEF Sure, WriterStep, Base, UInv, slotVars
<1> QED  BY <1>1, <1>2, Stutters

\* The writer's call ends with answer r.
Answered(r) ==
  /\ ret'[Writer] = r /\ arg'[Writer] = Store!None /\ PhaseOf' = "idle" /\ now' = now

LEMMA ReturnAnswers ==
  ASSUME Sure, NEW r, Return(Writer, r), now' = now PROVE Answered(r)
<1>1. Returned(Writer, r) /\ Writer \in Procs
  BY WriterReturns, WriterTypes DEF Sure, WriterStep
<1>2. PhaseOf' = "idle"
  BY <1>1, PhasesNext DEF Phases, Returned
<1>3. ret'[Writer] = r /\ arg'[Writer] = NoArg
  BY <1>1 DEF Return, Sure, WriterStep, Base, IInv, TypeOK
<1> QED  BY <1>2, <1>3 DEF Answered, Store!None, NoArg

\* What the steps before a call takes effect start from.
LEMMA CalledIs ==
  ASSUME Sure, pc[Writer] \in Claiming \cup Scanning
  PROVE  /\ Active(Writer) /\ Base /\ ret[Writer] = "None" /\ Key \in Keys
         /\ UniqueKey /\ UniqueKey' /\ arg[Writer] # NoArg
         /\ arg[Writer].op \in {"get", "set", "del"} /\ PhaseOf # "cleared"
<1>1. Active(Writer) /\ Base
  BY DEF Sure, WriterStep, Active, Claiming, Scanning
<1>2. ret[Writer] = "None" /\ Key \in Keys /\ UniqueKey /\ UniqueKey' /\ Writer \in Procs
  BY <1>1, WriterTypes DEF Sure, WriterStep, Base, SInv, Unsaid, UInv, Active
<1>3. arg[Writer].op \in {"get", "set", "del"} /\ arg[Writer] # NoArg
  BY <1>1, <1>2 DEF Base, IInv, Busy, NoArg
<1>4. PhaseOf # "cleared"
  BY <1>1, PhasesNow DEF Phases, Claiming, Scanning
<1> QED  BY <1>1, <1>2, <1>3, <1>4

\* A call begins.
Invoked(op, k, v, expiry) ==
  /\ PhaseOf = "idle" /\ PhaseOf' = "called" /\ ret'[Writer] = "None" /\ now' = now
  /\ arg'[Writer] = [op |-> op, key |-> k, val |-> v, expiry |-> expiry]
  /\ \A l \in Keys : EntryOf(l)' = EntryOf(l)

LEMMA InvokedMaps ==
  ASSUME NEW op, NEW k, NEW v, NEW expiry, Invoked(op, k, v, expiry)
  PROVE  Store!Invoke(op, k, v, expiry)
<1>1. [l \in Keys |-> EntryOf(l)'] = [l \in Keys |-> EntryOf(l)]
  BY DEF Invoked
<1> QED  BY <1>1 DEF Invoked, Store!Invoke, Store!Unanswered

LEMMA CallMaps == ASSUME Sure, Call(Writer) PROVE StoreStep
<1>1. Base /\ Writer \in Procs /\ UniqueKey /\ UniqueKey'
  BY WriterTypes DEF Sure, WriterStep, Base, UInv
<1>2. ASSUME NEW op, NEW k, NEW v, NEW expiry, Start(Writer, op, k, v, expiry)
      PROVE  Invoked(op, k, v, expiry)
  <2>1. /\ pc[Writer] = "idle" /\ pc'[Writer] \in {"probe", "flush"} /\ probe'[Writer] = 0
        /\ arg'[Writer] = [op |-> op, key |-> k, val |-> v, expiry |-> expiry]
        /\ ret'[Writer] = "None" /\ now' = now
        /\ UNCHANGED <<state, key_buf, val_buf, expires_at>>
    BY <1>1, <1>2 DEF Start, slotVars, Base, IInv, TypeOK, Resting
  <2>2. PhaseOf = "idle" /\ PhaseOf' = "called"
    BY <2>1, PhasesNow, PhasesNext DEF Phases
  <2> QED  BY <1>1, <2>1, <2>2, EntriesKept DEF Invoked
<1>3. CASE CallGet(Writer)
  <2>1. PICK k \in Keys : Start(Writer, "get", k, NoVal, 0)
    BY <1>3 DEF CallGet
  <2>2. Store!Invoke("get", k, NoVal, 0)
    BY <1>2, <2>1, InvokedMaps
  <2> QED  BY <2>2 DEF StoreStep, Store!Next, Store!Call
<1>4. CASE CallSet(Writer)
  <2>1. PICK k \in Keys, v \in Vals, ttl \in Ttls :
          Start(Writer, "set", k, v, IF ttl = 0 THEN 0 ELSE now + ttl)
    BY <1>4 DEF CallSet, TtlToExpiry
  <2>2. Store!Invoke("set", k, v, IF ttl = 0 THEN 0 ELSE now + ttl)
    BY <1>2, <2>1, InvokedMaps
  <2> QED  BY <2>2 DEF StoreStep, Store!Next, Store!Call
<1>5. CASE CallDel(Writer)
  <2>1. PICK k \in Keys : Start(Writer, "del", k, NoVal, 0)
    BY <1>5 DEF CallDel
  <2>2. Store!Invoke("del", k, NoVal, 0)
    BY <1>2, <2>1, InvokedMaps
  <2> QED  BY <2>2 DEF StoreStep, Store!Next, Store!Call
<1>6. CASE CallFlush(Writer)
  <2>1. Store!Invoke("flush", NoKey, NoVal, 0)
    BY <1>2, <1>6, InvokedMaps DEF CallFlush
  <2> QED  BY <2>1 DEF StoreStep, Store!Next, Store!Call
<1> QED  BY <1>3, <1>4, <1>5, <1>6 DEF Call

\* At an EMPTY slot, and after the last slot, the key is in no slot.
LEMMA EmptyMisses ==
  ASSUME Base, pc[Writer] = "probe", state[Idx(Writer)] = STATE_EMPTY
  PROVE  \A i \in Slots : ~Holds(i, Key)
<1>1. Active(Writer) /\ Writer \in Procs
  BY WriterTypes DEF Active
<1>2. wiping = FALSE /\ Key \in Keys /\ probe[Writer] \in 0 .. N - 1 /\ N \in Nat
  <2>1. wiping = FALSE
    BY <1>1, NotWiping DEF Base
  <2> QED  BY <1>1, <2>1, WriterTypes DEF Claiming
<1> SUFFICES ASSUME NEW i \in Slots, Holds(i, Key) PROVE FALSE
  OBVIOUS
<1>3. key_buf[i][1] = Key
  BY DEF Holds, Both
<1>4. PICK o \in 0 .. N - 1 :
        i = At(Key, o) /\ \A j \in 0 .. o - 1 : state[At(Key, j)] # STATE_EMPTY
  BY <1>2, <1>3 DEF Base, IInv, Placed, Reaches
<1>5. CASE o < probe[Writer]
  BY <1>1, <1>4, <1>5 DEF Base, SInv, Gone, Claiming
<1>6. CASE o = probe[Writer]
  BY <1>4, <1>6 DEF Idx, Key, Holds, STATE_EMPTY, STATE_OCCUPIED
<1>7. CASE probe[Writer] < o
  BY <1>2, <1>4, <1>7 DEF Idx, Key
<1> QED  BY <1>2, <1>5, <1>6, <1>7

LEMMA LastMisses ==
  ASSUME Base, Active(Writer), pc[Writer] \notin Claiming \cup {"count", "del_count"},
         LastSlot(Writer), ~Holds(Idx(Writer), Key)
  PROVE  \A i \in Slots : ~Holds(i, Key)
<1>1. Key \in Keys /\ probe[Writer] \in 0 .. N /\ N \in Nat \ {0} /\ probe[Writer] + 1 = N
  BY WriterTypes DEF LastSlot
<1> SUFFICES ASSUME NEW i \in Slots, Holds(i, Key) PROVE FALSE
  OBVIOUS
<1>2. PICK o \in 0 .. N - 1 : At(Key, o) = i
  BY <1>1, ChainCovers
<1>3. CASE o < probe[Writer]
  BY <1>2, <1>3 DEF Base, SInv, Gone
<1>4. CASE o = probe[Writer]
  BY <1>2, <1>4 DEF Idx, Key
<1> QED  BY <1>1, <1>3, <1>4

LEMMA MissMaps ==
  ASSUME Sure, pc[Writer] \in Scanning, PhaseOf = "called", arg[Writer].op # "set",
         UNCHANGED slotVars, now' = now, Return(Writer, "NotFound"),
         \A i \in Slots : ~Holds(i, Key)
  PROVE  StoreStep
<1>1. /\ Answered("NotFound") /\ Base /\ Key \in Keys /\ arg[Writer].op \in {"get", "del"}
      /\ UniqueKey /\ UniqueKey'
  BY ReturnAnswers, CalledIs
<1>2. Key \notin Store!Held
  BY <1>1, HeldAre
<1>3. \A k \in Keys : EntryOf(k)' = EntryOf(k)
  BY <1>1, EntriesKept DEF Answered, slotVars
<1>4. [k \in Keys |-> EntryOf(k)'] = [k \in Keys |-> EntryOf(k)]
  BY <1>3
<1>5. Store!Answer("NotFound", NoVal)
  BY <1>1 DEF Answered, Store!Answer
<1>6. Store!Miss
  BY <1>1, <1>2, <1>4, <1>5 DEF Store!Miss, Key
<1> QED  BY <1>6 DEF StoreStep, Store!Next

-----------------------------------------------------------------------------
(* A key holds one slot.                                                   *)

\* The keys that hold a slot are as many as the slots they hold.
LEMMA HeldCount ==
  ASSUME UniqueKey, N \in Nat, NEW T \in SUBSET Slots,
         \A i \in Slots, k \in Keys : Holds(i, k) => i \in T
  PROVE  LET H == {k \in Keys : \E i \in Slots : Holds(i, k)}
         IN  /\ Cardinality(H) \in Nat /\ Cardinality(H) <= Cardinality(T)
             /\ (\A i \in T : \E k \in Keys : Holds(i, k)) => Cardinality(H) = Cardinality(T)
<1> DEFINE H == {k \in Keys : \E i \in Slots : Holds(i, k)}
           f == [k \in H |-> CHOOSE i \in Slots : Holds(i, k)]
<1>1. IsFiniteSet(T)
  <2>1. IsFiniteSet(Slots)
    BY SlotsCount
  <2> QED  BY <2>1, FS_Subset
<1>2. \A k \in H : f[k] \in T /\ Holds(f[k], k)
  OBVIOUS
<1>3. ASSUME NEW i \in Slots, NEW k \in Keys, NEW l \in Keys, Holds(i, k), Holds(i, l) PROVE k = l
  <2>1. Both(k)[1] = k /\ Both(l)[1] = l
    BY DEF Both
  <2> QED  BY <1>3, <2>1 DEF Holds
<1>4. f \in Injection(H, T)
  <2>1. f \in [H -> T]
    BY <1>2
  <2>2. \A k, l \in H : f[k] = f[l] => k = l
    BY <1>2, <1>3
  <2> QED  BY <2>1, <2>2 DEF Injection, IsInjective
<1>5. ASSUME \A i \in T : \E k \in Keys : Holds(i, k) PROVE f \in Surjection(H, T)
  <2>1. \A i \in T : \E k \in H : f[k] = i
    <3> TAKE i \in T
    <3>1. PICK k \in Keys : Holds(i, k)
      BY <1>5
    <3>2. k \in H /\ f[k] \in Slots /\ Holds(f[k], k)
      BY <1>2, <3>1
    <3>3. f[k] = i
      BY <3>1, <3>2 DEF UniqueKey, Holds
    <3> QED  BY <3>2, <3>3
  <2>2. f \in [H -> T]
    BY <1>2
  <2> HIDE DEF f
  <2> QED  BY <2>1, <2>2 DEF Surjection
<1> HIDE DEF f
<1>6. /\ IsFiniteSet(H) /\ Cardinality(H) <= Cardinality(T)
      /\ Cardinality(H) = Cardinality(T) <=> f \in Surjection(H, T)
  BY <1>1, <1>4, FS_Injection
<1>7. Cardinality(H) \in Nat
  BY <1>6, FS_CardinalityType
<1> QED  BY <1>5, <1>6, <1>7

-----------------------------------------------------------------------------
(* Each step of the writer is one of the dictionary, or none.              *)

\* Both modules count alike.
LEMMA SameCount == ASSUME NEW S PROVE Store!Cardinality(S) = Cardinality(S)
  BY Zenon DEF Store!Cardinality, Cardinality

LEMMA RefuseMaps ==
  ASSUME Sure, pc[Writer] \in Scanning, PhaseOf = "called", arg[Writer].op = "set",
         UNCHANGED slotVars, now' = now, Return(Writer, "Full"),
         \A i \in Slots : ~Holds(i, Key) /\ state[i] = STATE_OCCUPIED
  PROVE  StoreStep
<1>1. /\ Answered("Full") /\ Base /\ Key \in Keys /\ UniqueKey /\ UniqueKey' /\ N \in Nat
  BY ReturnAnswers, CalledIs, WriterTypes
<1>2. Key \notin Store!Held
  BY <1>1, HeldAre
<1>3. \A k \in Keys : EntryOf(k)' = EntryOf(k)
  BY <1>1, EntriesKept DEF Answered, slotVars
<1>4. [k \in Keys |-> EntryOf(k)'] = [k \in Keys |-> EntryOf(k)]
  BY <1>3
<1>5. Cardinality(Store!Held) = N
  <2>1. Store!Held = {k \in Keys : \E i \in Slots : Holds(i, k)}
    BY <1>1, HeldAre
  <2>2. \A i \in Slots : \E k \in Keys : Holds(i, k)
    BY <1>1 DEF Base, WholeInv, OccupiedIsWhole, Holds
  <2>3. Cardinality(Store!Held) = Cardinality(Slots)
    BY <1>1, <2>1, <2>2, HeldCount
  <2>4. Cardinality(Slots) = N
    BY SlotsCount
  <2> QED  BY <2>3, <2>4
<1>6. Store!Answer("Full", NoVal)
  BY <1>1 DEF Answered, Store!Answer
<1>7. arg[Writer].key \notin Store!Held
  BY <1>2 DEF Key
<1>8. Store!Refuse
  BY <1>4, <1>5, <1>6, <1>7, SameCount DEF Store!Refuse
<1> QED  BY <1>8 DEF StoreStep, Store!Next

\* The writer passes a slot that has not its key.
LEMMA AdvanceMaps ==
  ASSUME Sure, pc[Writer] \in {"probe", "fp"}, NEW tomb, Advance(Writer, tomb),
         UNCHANGED slotVars, now' = now, ~Holds(Idx(Writer), Key),
         tomb = NoSlot /\ arg[Writer].op = "set" =>
           first_tombstone[Writer] = NoSlot /\ state[Idx(Writer)] = STATE_OCCUPIED
  PROVE  StoreStep
<1>1. /\ PhaseOf = "called" /\ pc[Writer] \in Scanning /\ Active(Writer) /\ Base
      /\ pc[Writer] \notin Claiming \cup {"count", "del_count"} /\ Writer \in Procs
      /\ Key \in Keys /\ N \in Nat \ {0} /\ probe[Writer] \in 0 .. N
  BY CalledIs, PhasesNow, WriterTypes DEF Phases, Scanning, Claiming
<1>2. CASE LastSlot(Writer) /\ arg[Writer].op # "set" /\ Return(Writer, "NotFound")
  BY <1>1, <1>2, LastMisses, MissMaps
<1>3. CASE LastSlot(Writer) /\ arg[Writer].op = "set" /\ tomb = NoSlot /\ Return(Writer, "Full")
  <2>1. \A i \in Slots : state[i] = STATE_OCCUPIED
    <3> TAKE i \in Slots
    <3>1. PICK o \in 0 .. N - 1 : At(Key, o) = i
      BY <1>1, ChainCovers
    <3>2. CASE o < probe[Writer]
      BY <1>1, <1>3, <3>1, <3>2 DEF Base, SInv, Gone
    <3>3. CASE o = probe[Writer]
      BY <1>3, <3>1, <3>3 DEF Idx, Key
    <3> QED  BY <1>1, <1>3, <3>1, <3>2, <3>3 DEF LastSlot
  <2> QED  BY <1>1, <1>3, <2>1, LastMisses, RefuseMaps
<1>4. ASSUME NEW l \in {"write_key", "probe"}, MoveOn(Writer, l, tomb) PROVE StoreStep
  <2>1. pc'[Writer] = l /\ arg'[Writer] = arg[Writer] /\ ret'[Writer] = ret[Writer]
    BY <1>1, <1>4, MoveOnMoves DEF Moved, MoveOn, Base
  <2>2. PhaseOf' = "called"
    BY <2>1, PhasesNext DEF Phases, Claiming
  <2> QED  BY <1>1, <2>1, <2>2, ReadsOn DEF Active
<1> QED  BY <1>2, <1>3, <1>4 DEF Advance, EndOfScan

\* The writer goes to a label at which its call has not taken effect.
LEMMA GotoMaps ==
  ASSUME Sure, PhaseOf = "called", pc[Writer] \in Scanning, NEW l, Goto(Writer, l),
         UNCHANGED slotVars, now' = now,
         \/ l \in Claiming \cup {"fp", "expiry", "clock", "evict"}
         \/ l = "key" /\ arg[Writer].op # "get"
  PROVE  StoreStep
<1>1. /\ Base /\ Jumped(Writer, l, 1) /\ ret'[Writer] = ret[Writer] /\ pc[Writer] # "idle"
  <2>1. Base /\ Writer \in Procs /\ Active(Writer)
    BY CalledIs, WriterTypes
  <2> QED  BY <2>1, GotoJumps DEF Base, Goto, Active
<1>2. arg'[Writer] = arg[Writer] /\ pc'[Writer] = l
  BY <1>1 DEF Jumped
<1>3. PhaseOf' = "called"
  BY <1>2, PhasesNext DEF Phases
<1> QED  BY <1>1, <1>2, <1>3, ReadsOn

LEMMA ProbeMaps ==
  ASSUME Sure, ProbeEmpty(Writer) \/ ProbeTombstone(Writer) \/ ProbeOccupied(Writer)
  PROVE  StoreStep
<1>1. /\ pc[Writer] = "probe" /\ pc[Writer] \in Scanning /\ UNCHANGED slotVars /\ now' = now
      /\ Base /\ Idx(Writer) \in Slots
  <2>1. pc[Writer] = "probe" /\ UNCHANGED slotVars /\ now' = now
    BY DEF ProbeEmpty, ProbeTombstone, ProbeOccupied, Reads
  <2> QED  BY <2>1, CalledIs, WriterTypes DEF Scanning
<1>2. PhaseOf = "called"
  BY <1>1, PhasesNow DEF Phases
<1>3. CASE ProbeEmpty(Writer)
  <2>1. \A i \in Slots : ~Holds(i, Key)
    BY <1>1, <1>3, EmptyMisses DEF ProbeEmpty
  <2> QED  BY <1>1, <1>2, <1>3, <2>1, MissMaps, GotoMaps DEF ProbeEmpty, Claiming
<1>4. CASE ProbeTombstone(Writer)
  <2>1. ~Holds(Idx(Writer), Key)
    BY <1>4 DEF ProbeTombstone, Holds, STATE_TOMBSTONE, STATE_OCCUPIED
  <2>2. Candidate(Writer) # NoSlot
    BY <1>1 DEF Candidate, Slots, NoSlot
  <2>3. PICK tomb : Advance(Writer, tomb) /\ (tomb = NoSlot => arg[Writer].op # "set")
    BY <1>4, <2>2 DEF ProbeTombstone, PassTombstone, Continue
  <2> QED  BY <1>1, <2>1, <2>3, AdvanceMaps
<1>5. CASE ProbeOccupied(Writer)
  BY <1>1, <1>2, <1>5, GotoMaps DEF ProbeOccupied
<1> QED  BY <1>3, <1>4, <1>5

LEMMA FingerprintMaps == ASSUME Sure, LoadFingerprint(Writer) PROVE StoreStep
<1>1. /\ pc[Writer] = "fp" /\ pc[Writer] \in Scanning /\ UNCHANGED slotVars /\ now' = now
      /\ Base /\ Idx(Writer) \in Slots /\ Key \in Keys
  <2>1. pc[Writer] = "fp" /\ UNCHANGED slotVars /\ now' = now
    BY DEF LoadFingerprint, Reads
  <2> QED  BY <2>1, CalledIs, WriterTypes DEF Scanning
<1>2. PhaseOf = "called" /\ state[Idx(Writer)] = STATE_OCCUPIED
  BY <1>1, PhasesNow DEF Phases, Base, SInv, Found
<1>3. CASE fingerprint[Idx(Writer)] # Fp[Key] /\ Continue(Writer)
  <2>1. ~Holds(Idx(Writer), Key)
    BY <1>1, <1>3, KeyTells DEF Base
  <2> QED  BY <1>1, <1>2, <1>3, <2>1, AdvanceMaps DEF Continue
<1> QED  BY <1>1, <1>2, <1>3, GotoMaps DEF LoadFingerprint, Key

\* The entry at the writer's slot, and that it is in the dictionary.
LEMMA EntryAt ==
  ASSUME Base, Holds(Idx(Writer), Key), Idx(Writer) \in Slots, Key \in Keys,
         PhaseOf \notin {"cleared", "updated"}
  PROVE  /\ EntryOf(Key) = [val |-> Whole(val_buf[Idx(Writer)]),
                            expiry |-> expires_at[Idx(Writer)]]
         /\ Key \in Store!Held
<1>1. Entries
  BY EntriesNow DEF Base, UInv
<1> QED  BY <1>1, HeldAre DEF Entries

LEMMA FindMaps ==
  ASSUME Sure, pc[Writer] \in {"expiry", "clock"}, arg[Writer].op = "get", Goto(Writer, "key"),
         UNCHANGED slotVars, now' = now, ~IsExpired(Idx(Writer))
  PROVE  StoreStep
<1>1. /\ pc[Writer] \in Scanning /\ Base /\ Writer \in Procs /\ Active(Writer)
      /\ Idx(Writer) \in Slots /\ Key \in Keys /\ UniqueKey /\ UniqueKey'
      /\ ret[Writer] = "None" /\ ret'[Writer] = ret[Writer]
  BY CalledIs, WriterTypes DEF Scanning, Goto
<1>2. Jumped(Writer, "key", 1)
  BY <1>1, GotoJumps DEF Base
<1>3. arg'[Writer] = arg[Writer] /\ PhaseOf = "called" /\ PhaseOf' = "found"
  BY <1>2, PhasesNow, PhasesNext DEF Phases, Jumped
<1>4. Holds(Idx(Writer), Key)
  BY <1>1 DEF Base, SInv, Found, Finding
<1>5. /\ EntryOf(Key).expiry = expires_at[Idx(Writer)]
      /\ Key \in Store!Held
  BY <1>1, <1>3, <1>4, EntryAt
<1>6. ~Store!Expired(Key)
  BY <1>1, <1>5 DEF Store!Expired, IsExpired
<1>7. \A k \in Keys : EntryOf(k)' = EntryOf(k)
  BY <1>1, <1>3, EntriesKept DEF slotVars
<1>8. [k \in Keys |-> EntryOf(k)'] = [k \in Keys |-> EntryOf(k)]
  BY <1>7
<1>9. Store!Effect("get", "found", [k \in Keys |-> EntryOf(k)])
  BY <1>1, <1>3, <1>8 DEF Store!Effect
<1>10. Store!Find
  BY <1>5, <1>6, <1>9 DEF Store!Find, Key
<1> QED  BY <1>10 DEF StoreStep, Store!Next

LEMMA ExpiryMaps ==
  ASSUME Sure, LoadExpiry(Writer) \/ ReadClock(Writer) PROVE StoreStep
<1>1. /\ pc[Writer] \in {"expiry", "clock"} /\ UNCHANGED slotVars /\ now' = now
      /\ pc[Writer] \in Scanning
  BY DEF LoadExpiry, ReadClock, Scanning
<1>2. PhaseOf = "called" /\ Base
  BY <1>1, PhasesNow, CalledIs DEF Phases
<1>3. PICK l \in {"key", "clock", "evict"} :
        Goto(Writer, l) /\ (l = "key" => ~IsExpired(Idx(Writer)))
  <2>1. CASE LoadExpiry(Writer)
    BY <2>1 DEF LoadExpiry, IsExpired
  <2>2. CASE ReadClock(Writer)
    <3>1. loaded[Writer] = expires_at[Idx(Writer)]
      BY <1>2, <2>2 DEF ReadClock, Base, SInv, Found
    <3> QED  BY <2>2, <3>1 DEF ReadClock, IsExpired
  <2> QED  BY <2>1, <2>2
<1> QED  BY <1>1, <1>2, <1>3, FindMaps, GotoMaps

\* Freeing the writer's slot removes its key.
LEMMA Freeing ==
  ASSUME Sure, Holds(Idx(Writer), Key), Idx(Writer) \in Slots, Key \in Keys,
         state' = Tombstoned(Idx(Writer)), UNCHANGED <<key_buf, val_buf, expires_at>>,
         PhaseOf \notin {"cleared", "updated"}, PhaseOf' \notin {"cleared", "updated"}
  PROVE  [k \in Keys |-> EntryOf(k)'] = [[k \in Keys |-> EntryOf(k)] EXCEPT ![Key] = Nothing]
<1>1. UniqueKey /\ UniqueKey' /\ state \in [Slots -> {STATE_EMPTY, STATE_OCCUPIED, STATE_TOMBSTONE}]
  BY DEF Sure, WriterStep, Base, UInv, IInv, TypeOK
<1>2. /\ state'[Idx(Writer)] # STATE_OCCUPIED
      /\ \A i \in Slots : i # Idx(Writer) => state'[i] = state[i]
  BY <1>1 DEF Tombstoned, STATE_TOMBSTONE, STATE_OCCUPIED
<1>3. ASSUME NEW k \in Keys, k = Key PROVE EntryOf(k)' = Nothing
  <2>1. \A i \in Slots : ~Holds(i, k)'
    BY <1>1, <1>2, <1>3 DEF UniqueKey, Holds
  <2>2. Entries'
    BY <1>1, EntriesNext
  <2> QED  BY <2>1, <2>2 DEF Entries, Nothing, Slots
<1>4. ASSUME NEW k \in Keys, k # Key PROVE EntryOf(k)' = EntryOf(k)
  <2>1. ~Holds(Idx(Writer), k)
    <3>1. Both(k)[1] = k /\ Both(Key)[1] = Key
      BY DEF Both
    <3> QED  BY <1>4, <3>1 DEF Holds
  <2>2. \A i \in Slots : Holds(i, k)' <=> Holds(i, k)
    BY <1>2, <2>1 DEF Holds
  <2> QED  BY <1>1, <2>2, EntryKept
<1> QED  BY <1>3, <1>4

LEMMA EvictMaps == ASSUME Sure, Evict(Writer) PROVE StoreStep
<1>1. /\ pc[Writer] = "evict" /\ pc[Writer] \in Scanning /\ now' = now
      /\ UNCHANGED <<key_buf, val_buf, expires_at>>
  BY DEF Evict, Scanning, Other
<1>2. /\ Base /\ Writer \in Procs /\ Idx(Writer) \in Slots /\ Key \in Keys
      /\ ret[Writer] = "None" /\ PhaseOf = "called"
  BY <1>1, CalledIs, WriterTypes, PhasesNow DEF Phases
<1>3. Holds(Idx(Writer), Key) /\ IsExpired(Idx(Writer))
  BY <1>1, <1>2 DEF Base, SInv, Found, Finding
<1>4. /\ EntryOf(Key).expiry = expires_at[Idx(Writer)]
      /\ Key \in Store!Held
  BY <1>2, <1>3, EntryAt
<1>5. Store!Expired(Key)
  BY <1>2, <1>3, <1>4 DEF Store!Expired, IsExpired
<1>6. state' = Tombstoned(Idx(Writer))
  BY <1>3 DEF Evict, Holds
<1>7. CASE arg[Writer].op = "get" /\ Return(Writer, "Expired")
  <2>1. Answered("Expired")
    BY <1>1, <1>7, ReturnAnswers
  <2>2. [k \in Keys |-> EntryOf(k)'] = [[k \in Keys |-> EntryOf(k)] EXCEPT ![Key] = Nothing]
    BY <1>1, <1>2, <1>3, <1>6, <2>1, Freeing DEF Answered
  <2>3. Store!Answer("Expired", NoVal)
    BY <2>1 DEF Answered, Store!Answer
  <2>4. Store!Expire
    BY <1>2, <1>4, <1>5, <1>7, <2>2, <2>3 DEF Store!Expire, Store!Missing, Key, Nothing
  <2> QED  BY <2>4 DEF StoreStep, Store!Next
<1>8. CASE arg[Writer].op = "set" /\ Advance(Writer, Candidate(Writer))
  <2>1. Candidate(Writer) # NoSlot
    BY <1>2 DEF Candidate, Slots, NoSlot
  <2>2. PICK l \in {"write_key", "probe"} : MoveOn(Writer, l, Candidate(Writer))
    BY <1>8, <2>1 DEF Advance, EndOfScan
  <2>3. pc'[Writer] = l /\ arg'[Writer] = arg[Writer] /\ ret'[Writer] = ret[Writer]
    BY <1>2, <2>2, MoveOnMoves DEF Moved, MoveOn, Base
  <2>4. PhaseOf' = "called"
    BY <2>3, PhasesNext DEF Phases, Claiming
  <2>5. [k \in Keys |-> EntryOf(k)'] = [[k \in Keys |-> EntryOf(k)] EXCEPT ![Key] = Nothing]
    BY <1>1, <1>2, <1>3, <1>6, <2>4, Freeing
  <2>6. Store!Drop
    BY <1>1, <1>2, <1>4, <1>5, <1>8, <2>3, <2>4, <2>5
       DEF Store!Drop, Store!Missing, Key, Nothing
  <2> QED  BY <2>6 DEF StoreStep, Store!Next
<1> QED  BY <1>7, <1>8 DEF Evict

LEMMA KeyMaps == ASSUME Sure, CompareKey(Writer) PROVE StoreStep
<1>1. /\ pc[Writer] = "key" /\ pc[Writer] \in Scanning /\ UNCHANGED slotVars /\ now' = now
  BY DEF CompareKey, Reads, Scanning
<1>2. /\ Base /\ Writer \in Procs /\ half[Writer] \in 1 .. 2
      /\ PhaseOf = IF arg[Writer].op = "get" THEN "found" ELSE "called"
      /\ arg[Writer].op \in {"get", "set", "del"}
  BY <1>1, CalledIs, WriterTypes, PhasesNow DEF Phases
<1>3. key_buf[Idx(Writer)][half[Writer]] = arg[Writer].key
  BY <1>1, <1>2 DEF Base, SInv, Found, Finding, Holds, Both, Key
<1>4. PICK l \in {"read", "update", "del"} :
        /\ CopyThen(Writer, l)
        /\ l = "read" <=> arg[Writer].op = "get"
  BY <1>2, <1>3 DEF CompareKey
<1>5. PICK m \in {"key", "read", "update", "del"}, h \in {1, 2} :
        /\ Jumped(Writer, m, h)
        /\ m = "update" => h = 1
        /\ m # "key" => (m = "read" <=> arg[Writer].op = "get")
  BY <1>1, <1>2, <1>4, CopyJumps DEF Base
<1>6. ret'[Writer] = ret[Writer] /\ arg'[Writer] = arg[Writer]
  BY <1>2, <1>4, <1>5, WriterJumps DEF Jumped
<1>7. PhaseOf' = PhaseOf
  BY <1>2, <1>5, <1>6, PhasesNext DEF Phases, Jumped
<1> QED  BY <1>1, <1>2, <1>6, <1>7, ReadsOn

LEMMA ValueMaps == ASSUME Sure, ReadValue(Writer) PROVE StoreStep
<1>1. /\ pc[Writer] = "read" /\ pc[Writer] \in Scanning /\ UNCHANGED slotVars /\ now' = now
  BY DEF ReadValue, Scanning
<1>2. /\ Base /\ Writer \in Procs /\ half[Writer] \in 1 .. 2 /\ Idx(Writer) \in Slots
      /\ Key \in Keys /\ arg[Writer].op = "get" /\ UniqueKey /\ UniqueKey'
  BY <1>1, CalledIs, WriterTypes DEF Base, WholeInv, Labelled
<1>3. PhaseOf = "found" /\ Holds(Idx(Writer), Key)
  BY <1>1, <1>2, PhasesNow DEF Phases, Base, SInv, Found, Finding
<1>4. CASE half[Writer] = 1 /\ SecondHalf(Writer)
  <2>1. Jumped(Writer, "read", 2) /\ ret'[Writer] = ret[Writer]
    BY <1>1, <1>2, <1>4, WriterJumps, CopyJumps DEF CopyThen, Base
  <2>2. arg'[Writer] = arg[Writer] /\ PhaseOf' = PhaseOf
    BY <1>2, <1>3, <2>1, PhasesNext DEF Phases, Jumped
  <2> QED  BY <1>1, <1>3, <2>1, <2>2, ReadsOn
<1>5. CASE half[Writer] = 2 /\ Return(Writer, "Found")
  <2>1. Answered("Found")
    BY <1>1, <1>5, ReturnAnswers
  <2>2. /\ got'[Writer][1] = val_buf[Idx(Writer)][1]
        /\ got'[Writer][2] = val_buf[Idx(Writer)][2]
    BY <1>1, <1>2, <1>5 DEF ReadValue, Base, SInv, Found, IInv, TypeOK
  <2>3. Whole(got'[Writer]) = EntryOf(Key).val
    BY <1>2, <1>3, <2>2, EntryAt DEF Whole
  <2>4. \A k \in Keys : EntryOf(k)' = EntryOf(k)
    BY <1>1, <1>2, <1>3, <2>1, EntriesKept DEF Answered, slotVars
  <2>5. [k \in Keys |-> EntryOf(k)'] = [k \in Keys |-> EntryOf(k)]
    BY <2>4
  <2>6. Store!Answer("Found", EntryOf(Key).val)
    BY <2>1, <2>3 DEF Answered, Store!Answer, Whole
  <2>7. Store!Respond
    BY <1>2, <1>3, <2>5, <2>6 DEF Store!Respond, Key
  <2> QED  BY <2>7 DEF StoreStep, Store!Next
<1> QED  BY <1>4, <1>5 DEF ReadValue

\* The entry of the writer's key is the one it writes.
Own == [val |-> Val, expiry |-> arg[Writer].expiry]

LEMMA UpdateMaps == ASSUME Sure, UpdateValue(Writer) PROVE StoreStep
<1>1. /\ pc[Writer] = "update" /\ pc[Writer] \in Scanning /\ now' = now
      /\ UNCHANGED <<state, key_buf, expires_at>>
  BY DEF UpdateValue, Scanning, Other
<1>2. /\ Base /\ Writer \in Procs /\ half[Writer] \in 1 .. 2 /\ Idx(Writer) \in Slots
      /\ Key \in Keys /\ arg[Writer].op = "set" /\ UniqueKey /\ UniqueKey'
      /\ ret[Writer] = "None"
  BY <1>1, CalledIs, WriterTypes DEF Base, WholeInv, Labelled
<1>3. Holds(Idx(Writer), Key) /\ PhaseOf = IF half[Writer] = 2 THEN "updated" ELSE "called"
  BY <1>1, <1>2, PhasesNow DEF Phases, Base, SInv, Found, Finding
<1>4. /\ Jumped(Writer, "update", 2) \/ Jumped(Writer, "update_exp", 1)
      /\ ret'[Writer] = ret[Writer]
  BY <1>1, <1>2, WriterJumps, CopyJumps DEF UpdateValue, Base
<1>5. arg'[Writer] = arg[Writer] /\ PhaseOf' = "updated" /\ Key' = Key /\ Val' = Val
  BY <1>4, PhasesNext DEF Phases, Jumped, Key, Val
<1>6. Entries /\ Entries'
  BY <1>2, EntriesNow, EntriesNext
<1>7. ASSUME NEW k \in Keys, k = Key PROVE EntryOf(k)' = Own
  <2>1. PICK i \in Slots : Holds(i, k)'
    BY <1>1, <1>2, <1>3, <1>7 DEF Holds
  <2>2. EntryOf(k)' = [val |-> Val', expiry |-> arg'[Writer].expiry]
    BY <1>2, <1>5, <1>6, <1>7, <2>1 DEF Entries, Slots
  <2> QED  BY <1>5, <2>2 DEF Own
<1>8. ASSUME NEW k \in Keys, k # Key PROVE EntryOf(k)' = EntryOf(k)
  <2>1. ~Holds(Idx(Writer), k)
    <3>1. Both(k)[1] = k /\ Both(Key)[1] = Key
      BY DEF Both
    <3> QED  BY <1>3, <1>8, <3>1 DEF Holds
  <2>2. \A i \in Slots : i # Idx(Writer) => val_buf'[i] = val_buf[i]
    BY <1>1, <1>2 DEF UpdateValue, Base, IInv, TypeOK
  <2>3. \A i \in Slots : Holds(i, k)' <=> Holds(i, k)
    BY <1>1 DEF Holds
  <2> QED  BY <1>1, <1>2, <1>3, <1>5, <1>8, <2>1, <2>2, <2>3, EntryKept
<1>9. CASE half[Writer] = 1
  <2>1. Key \in Store!Held /\ PhaseOf = "called"
    BY <1>2, <1>3, <1>9, EntryAt
  <2>2. [k \in Keys |-> EntryOf(k)'] = [[k \in Keys |-> EntryOf(k)] EXCEPT ![Key] = Own]
    BY <1>7, <1>8
  <2>3. Store!Effect("set", "updated", [[k \in Keys |-> EntryOf(k)] EXCEPT ![Key] = Own])
    BY <1>1, <1>2, <1>4, <1>5, <2>1, <2>2 DEF Store!Effect
  <2>4. Store!Update
    BY <2>1, <2>3 DEF Store!Update, Store!Entry, Key, Val, Own
  <2> QED  BY <2>4 DEF StoreStep, Store!Next
<1>10. CASE half[Writer] = 2
  <2>1. EntryOf(Key) = Own /\ PhaseOf = "updated"
    BY <1>2, <1>3, <1>6, <1>10 DEF Entries, Own
  <2>2. \A k \in Keys : EntryOf(k)' = EntryOf(k)
    BY <1>7, <1>8, <2>1
  <2> QED  BY <1>1, <1>2, <1>4, <1>5, <2>1, <2>2, Stutters
<1> QED  BY <1>2, <1>9, <1>10

LEMMA UpdateExpiryMaps == ASSUME Sure, UpdateExpiry(Writer) PROVE StoreStep
<1>1. /\ pc[Writer] = "update_exp" /\ pc[Writer] \in Scanning /\ now' = now
      /\ UNCHANGED <<state, key_buf, val_buf>> /\ Return(Writer, "Updated")
      /\ expires_at' = [expires_at EXCEPT ![Idx(Writer)] = arg[Writer].expiry]
  BY DEF UpdateExpiry, Scanning, Other
<1>2. /\ Base /\ Writer \in Procs /\ Idx(Writer) \in Slots /\ Key \in Keys
      /\ UniqueKey /\ UniqueKey' /\ Answered("Updated")
  BY <1>1, CalledIs, WriterTypes, ReturnAnswers
<1>3. /\ Holds(Idx(Writer), Key) /\ PhaseOf = "updated" /\ PhaseOf' = "idle"
      /\ val_buf[Idx(Writer)] = Both(Val)
  BY <1>1, <1>2, PhasesNow DEF Phases, Base, SInv, Found, Finding, Written, Answered
<1>4. /\ expires_at'[Idx(Writer)] = arg[Writer].expiry
      /\ \A i \in Slots : i # Idx(Writer) => expires_at'[i] = expires_at[i]
  BY <1>1, <1>2 DEF Base, IInv, TypeOK
<1>5. Entries /\ Entries'
  BY <1>2, EntriesNow, EntriesNext
<1>6. ASSUME NEW k \in Keys, k = Key PROVE EntryOf(k)' = EntryOf(k)
  <2>1. PICK i \in Slots : i = Idx(Writer) /\ Holds(i, k)'
    BY <1>1, <1>2, <1>3, <1>6 DEF Holds
  <2>2. EntryOf(k)' = [val |-> Whole(val_buf'[i]), expiry |-> expires_at'[i]]
    BY <1>2, <1>3, <1>5, <2>1 DEF Entries, Slots, Whole
  <2>3. Whole(val_buf'[Idx(Writer)]) = Val
    BY <1>1, <1>3 DEF Whole, Both
  <2>4. EntryOf(k) = [val |-> Val, expiry |-> arg[Writer].expiry]
    BY <1>2, <1>3, <1>5, <1>6 DEF Entries
  <2> QED  BY <1>4, <2>1, <2>2, <2>3, <2>4
<1>7. ASSUME NEW k \in Keys, k # Key PROVE EntryOf(k)' = EntryOf(k)
  <2>1. ~Holds(Idx(Writer), k)
    <3>1. Both(k)[1] = k /\ Both(Key)[1] = Key
      BY DEF Both
    <3> QED  BY <1>3, <1>7, <3>1 DEF Holds
  <2>2. \A i \in Slots : Holds(i, k)' <=> Holds(i, k)
    BY <1>1 DEF Holds
  <2> QED  BY <1>1, <1>2, <1>3, <1>4, <1>7, <2>1, <2>2, EntryKept
<1>8. [k \in Keys |-> EntryOf(k)'] = [k \in Keys |-> EntryOf(k)]
  BY <1>6, <1>7
<1>9. Store!Answer("Updated", NoVal)
  BY <1>2 DEF Answered, Store!Answer
<1>10. Store!Respond
  BY <1>3, <1>8, <1>9 DEF Store!Respond
<1> QED  BY <1>10 DEF StoreStep, Store!Next

LEMMA DelMaps == ASSUME Sure, DelCas(Writer) PROVE StoreStep
<1>1. /\ pc[Writer] = "del" /\ pc[Writer] \in Scanning /\ now' = now
      /\ UNCHANGED <<key_buf, val_buf, expires_at>>
  BY DEF DelCas, Scanning, Other
<1>2. /\ Base /\ Writer \in Procs /\ Idx(Writer) \in Slots /\ Key \in Keys
      /\ ret[Writer] = "None" /\ PhaseOf = "called" /\ arg[Writer].op = "del"
      /\ Holds(Idx(Writer), Key)
  BY <1>1, CalledIs, WriterTypes, PhasesNow
     DEF Phases, Base, WholeInv, Labelled, SInv, Found, Finding
<1>3. state' = Tombstoned(Idx(Writer)) /\ Goto(Writer, "del_count")
  BY <1>2 DEF DelCas, Holds
<1>4. Jumped(Writer, "del_count", 1) /\ ret'[Writer] = ret[Writer]
  BY <1>2, <1>3, GotoJumps DEF Base, Goto
<1>5. arg'[Writer] = arg[Writer] /\ PhaseOf' = "removed"
  BY <1>4, PhasesNext DEF Phases, Jumped
<1>6. [k \in Keys |-> EntryOf(k)'] = [[k \in Keys |-> EntryOf(k)] EXCEPT ![Key] = Nothing]
  BY <1>1, <1>2, <1>3, <1>5, Freeing
<1>7. Key \in Store!Held
  BY <1>2, EntryAt
<1>8. Store!Effect("del", "removed", [[k \in Keys |-> EntryOf(k)] EXCEPT ![Key] = Nothing])
  BY <1>1, <1>2, <1>4, <1>5, <1>6 DEF Store!Effect
<1>9. Store!Remove
  BY <1>7, <1>8 DEF Store!Remove, Store!Missing, Key, Nothing
<1> QED  BY <1>9 DEF StoreStep, Store!Next

\* The calls that have only to count, and to return.
LEMMA CountMaps == ASSUME Sure, DelCount(Writer) \/ CountInsert(Writer) PROVE StoreStep
<1>1. /\ pc[Writer] \in {"del_count", "count"} /\ pc[Writer] \in Scanning
      /\ UNCHANGED slotVars /\ now' = now
  BY DEF DelCount, CountInsert, Scanning
<1>2. PICK r \in {"Deleted", "Inserted"} :
        /\ Return(Writer, r)
        /\ r = "Deleted" <=> pc[Writer] = "del_count"
  BY DEF DelCount, CountInsert
<1>3. Answered(r) /\ UniqueKey /\ UniqueKey'
  BY <1>1, <1>2, ReturnAnswers, CalledIs
<1>4. PhaseOf = (IF r = "Deleted" THEN "removed" ELSE "inserted") /\ PhaseOf' = "idle"
  BY <1>1, <1>2, <1>3, PhasesNow DEF Phases, Answered
<1>5. \A k \in Keys : EntryOf(k)' = EntryOf(k)
  BY <1>1, <1>3, <1>4, EntriesKept DEF slotVars
<1>6. [k \in Keys |-> EntryOf(k)'] = [k \in Keys |-> EntryOf(k)]
  BY <1>5
<1>7. Store!Answer(r, NoVal)
  BY <1>2, <1>3 DEF Answered, Store!Answer
<1>8. Store!Respond
  BY <1>2, <1>4, <1>6, <1>7 DEF Store!Respond
<1> QED  BY <1>8 DEF StoreStep, Store!Next

\* The buffers SET fills belong to no entry before it publishes them.
LEMMA WritesMaps ==
  ASSUME Sure, WriteKey(Writer) \/ WriteVal(Writer) \/ WriteFp(Writer) \/ WriteExp(Writer)
  PROVE  StoreStep
<1>1. /\ pc[Writer] \in Claiming /\ now' = now /\ state' = state
  BY DEF WriteKey, WriteVal, WriteFp, WriteExp, Claiming, Other
<1>2. /\ Base /\ Writer \in Procs /\ Target(Writer) \in Slots /\ Key \in Keys
      /\ ret[Writer] = "None" /\ PhaseOf = "called" /\ UniqueKey /\ UniqueKey'
      /\ state[Target(Writer)] # STATE_OCCUPIED
  BY <1>1, CalledIs, WriterTypes, PhasesNow DEF Phases, Base, WholeInv, Owned
<1>3. \A i \in Slots : i # Target(Writer) =>
        /\ key_buf'[i] = key_buf[i] /\ val_buf'[i] = val_buf[i]
        /\ expires_at'[i] = expires_at[i]
  BY <1>2 DEF WriteKey, WriteVal, WriteFp, WriteExp, Base, IInv, TypeOK
<1>4. PICK l \in Claiming : Goto(Writer, l) \/ CopyThen(Writer, l)
  BY DEF WriteKey, WriteVal, WriteFp, WriteExp, After, Claiming
<1>5. PICK m \in Claiming, h \in {1, 2} : Jumped(Writer, m, h) /\ ret'[Writer] = ret[Writer]
  BY <1>1, <1>2, <1>4, WriterJumps
<1>6. arg'[Writer] = arg[Writer] /\ PhaseOf' = "called"
  BY <1>5, PhasesNext DEF Phases, Jumped
<1>7. ASSUME NEW k \in Keys PROVE EntryOf(k)' = EntryOf(k)
  <2>1. \A i \in Slots : Holds(i, k)' <=> Holds(i, k)
    BY <1>1, <1>2, <1>3 DEF Holds
  <2>2. \A i \in Slots : Holds(i, k) =>
          val_buf'[i] = val_buf[i] /\ expires_at'[i] = expires_at[i]
    BY <1>2, <1>3 DEF Holds
  <2> QED  BY <1>2, <1>6, <2>1, <2>2, EntryKept
<1> QED  BY <1>1, <1>2, <1>5, <1>6, <1>7, Stutters

LEMMA PublishMaps == ASSUME Sure, Publish(Writer) PROVE StoreStep
<1>1. /\ pc[Writer] = "publish" /\ pc[Writer] \in Claiming /\ now' = now
      /\ state' = [state EXCEPT ![Target(Writer)] = STATE_OCCUPIED] /\ Goto(Writer, "count")
      /\ UNCHANGED <<key_buf, val_buf, expires_at>>
  BY DEF Publish, Claiming, Other
<1>2. /\ Base /\ Writer \in Procs /\ Target(Writer) \in Slots /\ Key \in Keys
      /\ ret[Writer] = "None" /\ PhaseOf = "called" /\ UniqueKey /\ UniqueKey'
      /\ state[Target(Writer)] # STATE_OCCUPIED /\ arg[Writer].op = "set" /\ N \in Nat \ {0}
  BY <1>1, CalledIs, WriterTypes, PhasesNow DEF Phases, Base, WholeInv, Owned, Labelled
<1>3. /\ key_buf[Target(Writer)] = Both(Key) /\ val_buf[Target(Writer)] = Both(Val)
      /\ expires_at[Target(Writer)] = arg[Writer].expiry
      /\ \A i \in Slots : ~Holds(i, Key)
  BY <1>1, <1>2 DEF Base, SInv, Written, WholeInv, Owned, Key, UInv, Absent
<1>4. Jumped(Writer, "count", 1) /\ ret'[Writer] = ret[Writer]
  BY <1>1, <1>2, GotoJumps DEF Base, Goto
<1>5. arg'[Writer] = arg[Writer] /\ PhaseOf' = "inserted"
  BY <1>4, PhasesNext DEF Phases, Jumped
<1>6. /\ state'[Target(Writer)] = STATE_OCCUPIED
      /\ \A i \in Slots : i # Target(Writer) => state'[i] = state[i]
  BY <1>1, <1>2 DEF Base, IInv, TypeOK
<1>7. ASSUME NEW k \in Keys, k = Key PROVE EntryOf(k)' = Own
  <2>1. PICK i \in Slots : i = Target(Writer) /\ Holds(i, k)'
    BY <1>1, <1>2, <1>3, <1>6, <1>7 DEF Holds
  <2>2. EntryOf(k)' = [val |-> Whole(val_buf'[i]), expiry |-> expires_at'[i]]
    BY <1>2, <1>5, <2>1, EntriesNext DEF Entries, Slots, Whole
  <2> QED  BY <1>1, <1>3, <2>1, <2>2 DEF Own, Whole, Both
<1>8. ASSUME NEW k \in Keys, k # Key PROVE EntryOf(k)' = EntryOf(k)
  <2>1. key_buf[Target(Writer)] # Both(k)
    <3>1. Both(k)[1] = k /\ Both(Key)[1] = Key
      BY DEF Both
    <3> QED  BY <1>3, <1>8, <3>1
  <2>2. \A i \in Slots : Holds(i, k)' <=> Holds(i, k)
    BY <1>1, <1>6, <2>1 DEF Holds
  <2> QED  BY <1>1, <1>2, <1>5, <2>2, EntryKept
<1>9. Key \notin Store!Held
  BY <1>2, <1>3, HeldAre
<1>10. Cardinality(Store!Held) < N
  <2> DEFINE T == Slots \ {Target(Writer)}
  <2>1. \A i \in Slots, k \in Keys : Holds(i, k) => i \in T
    BY <1>2 DEF Holds
  <2>2. Store!Held = {k \in Keys : \E i \in Slots : Holds(i, k)}
    BY <1>2, HeldAre
  <2>3. Cardinality(Store!Held) \in Nat /\ Cardinality(Store!Held) <= Cardinality(T)
    <3> HIDE DEF T
    <3>1. T \in SUBSET Slots
      BY DEF T
    <3> QED  BY <1>2, <2>1, <2>2, <3>1, HeldCount
  <2>4. IsFiniteSet(Slots) /\ Cardinality(Slots) = N
    BY SlotsCount
  <2>5. Cardinality(T) = N - 1
    BY <1>2, <2>4, FS_RemoveElement
  <2> QED  BY <1>2, <2>3, <2>5
<1>11. [k \in Keys |-> EntryOf(k)'] = [[k \in Keys |-> EntryOf(k)] EXCEPT ![Key] = Own]
  BY <1>7, <1>8
<1>12. Store!Effect("set", "inserted", [[k \in Keys |-> EntryOf(k)] EXCEPT ![Key] = Own])
  BY <1>1, <1>2, <1>4, <1>5, <1>11 DEF Store!Effect
<1>13. arg[Writer].key \in Keys \ Store!Held
  BY <1>2, <1>9 DEF Key
<1>14. Store!Insert
  BY <1>10, <1>12, <1>13, SameCount DEF Store!Insert, Store!Entry, Key, Val, Own
<1> QED  BY <1>14 DEF StoreStep, Store!Next

LEMMA FlushSlotMaps == ASSUME Sure, FlushSlot(Writer) PROVE StoreStep
<1>1. /\ Base /\ Writer \in Procs /\ pc[Writer] = "flush" /\ now' = now
      /\ probe[Writer] \in 0 .. N /\ N \in Nat
  BY WriterTypes DEF FlushSlot, Other, Sure, WriterStep
<1>2. /\ pc'[Writer] = "flush" /\ arg'[Writer] = arg[Writer] /\ ret'[Writer] = ret[Writer]
      /\ probe'[Writer] = probe[Writer] + 1 /\ probe'[Writer] > 0
  BY <1>1 DEF FlushSlot, Base, IInv, TypeOK
<1>3. ret[Writer] = "None" /\ arg[Writer].op = "flush" /\ UniqueKey /\ UniqueKey'
  BY <1>1 DEF Base, SInv, Unsaid, WholeInv, Labelled, UInv, Sure, WriterStep
<1>4. PhaseOf' = "cleared" /\ PhaseOf = IF probe[Writer] > 0 THEN "cleared" ELSE "called"
  BY <1>1, <1>2, PhasesNow, PhasesNext DEF Phases
<1>5. \A k \in Keys : EntryOf(k)' = Nothing
  BY <1>3, <1>4, EntriesNext DEF Entries, Nothing
<1>6. CASE probe[Writer] = 0
  <2>1. [k \in Keys |-> EntryOf(k)'] = [k \in Keys |-> Nothing]
    BY <1>5
  <2>2. Store!Effect("flush", "cleared", [k \in Keys |-> Nothing])
    BY <1>1, <1>2, <1>3, <1>4, <1>6, <2>1 DEF Store!Effect
  <2>3. Store!Clear
    BY <2>2 DEF Store!Clear, Store!Missing, Nothing
  <2> QED  BY <2>3 DEF StoreStep, Store!Next
<1>7. CASE probe[Writer] > 0
  <2>1. \A k \in Keys : EntryOf(k) = Nothing
    BY <1>3, <1>4, <1>7, EntriesNow DEF Entries
  <2> QED  BY <1>1, <1>2, <1>3, <1>4, <1>5, <1>7, <2>1, Stutters
<1> QED  BY <1>1, <1>6, <1>7

LEMMA FlushCountMaps == ASSUME Sure, FlushCount(Writer) PROVE StoreStep
<1>1. /\ Base /\ Writer \in Procs /\ pc[Writer] = "flush" /\ now' = now
      /\ probe[Writer] = N /\ N \in Nat \ {0} /\ Return(Writer, "Flushed")
      /\ UNCHANGED slotVars
  BY WriterTypes DEF FlushCount, Sure, WriterStep
<1>2. Answered("Flushed") /\ PhaseOf = "cleared" /\ UniqueKey /\ UniqueKey'
  BY <1>1, ReturnAnswers, PhasesNow DEF Phases, Base, UInv, Sure, WriterStep
<1>3. \A i \in Slots : state[i] = STATE_EMPTY
  BY <1>1 DEF Base, SInv, Cleaned, Slots
<1>4. ASSUME NEW k \in Keys PROVE EntryOf(k)' = EntryOf(k)
  <2>1. EntryOf(k) = Nothing
    BY <1>2, EntriesNow DEF Entries
  <2>2. \A i \in Slots : ~Holds(i, k)'
    BY <1>1, <1>3 DEF slotVars, Holds, STATE_EMPTY, STATE_OCCUPIED
  <2>3. EntryOf(k)' = Nothing
    BY <1>2, <2>2, EntriesNext DEF Entries, Nothing, Slots
  <2> QED  BY <2>1, <2>3
<1>5. [k \in Keys |-> EntryOf(k)'] = [k \in Keys |-> EntryOf(k)]
  BY <1>4
<1>6. Store!Answer("Flushed", NoVal)
  BY <1>2 DEF Answered, Store!Answer
<1>7. Store!Respond
  BY <1>2, <1>5, <1>6 DEF Store!Respond
<1> QED  BY <1>7 DEF StoreStep, Store!Next

LEMMA WriterMaps == ASSUME Sure, Step(Writer) \/ Call(Writer) PROVE StoreStep
  BY CallMaps, ProbeMaps, FingerprintMaps, ExpiryMaps, EvictMaps, KeyMaps, ValueMaps, UpdateMaps,
     UpdateExpiryMaps, DelMaps, CountMaps, WritesMaps, PublishMaps, FlushSlotMaps, FlushCountMaps
     DEF Step

\* A step that leaves the slots and the writer's variables alone.
LEMMA OthersKeep ==
  ASSUME UNCHANGED slotVars, pc'[Writer] = pc[Writer], arg'[Writer] = arg[Writer],
         probe'[Writer] = probe[Writer], half'[Writer] = half[Writer]
  PROVE  PhaseOf' = PhaseOf /\ \A k \in Keys : EntryOf(k)' = EntryOf(k)
<1>1. PhaseOf' = PhaseOf
  BY DEF PhaseOf
<1>2. /\ state' = state /\ key_buf' = key_buf /\ val_buf' = val_buf
      /\ expires_at' = expires_at
  BY DEF slotVars
<1>3. ASSUME NEW k \in Keys PROVE EntryOf(k)' = EntryOf(k)
  <2>1. SlotsOf(k)' = SlotsOf(k)
    BY <1>2 DEF SlotsOf, Slots
  <2>2. SlotOf(k)' = SlotOf(k)
    BY <2>1 DEF SlotOf
  <2> QED  BY <1>1, <1>2, <2>1, <2>2 DEF EntryOf, Whole
<1> QED  BY <1>1, <1>3

LEMMA NextMaps ==
  ASSUME Base, [Next]_vars, IInv', WholeInv', UInv', SInv' PROVE StoreStep
<1>1. ASSUME NEW q \in Procs, q # Writer, Step(q) \/ Call(q) \/ Crash(q) PROVE StoreStep
  <2>1. /\ UNCHANGED <<slotVars, now>> /\ Beside(q)
        /\ ret'[Writer] = ret[Writer] /\ got'[Writer] = got[Writer]
    BY <1>1, ReadersRead
  <2>2. /\ pc'[Writer] = pc[Writer] /\ arg'[Writer] = arg[Writer]
        /\ probe'[Writer] = probe[Writer] /\ half'[Writer] = half[Writer]
    BY <1>1, <2>1, WriterTypes DEF Beside
  <2> QED  BY <2>1, <2>2, OthersKeep, Stutters
<1>2. CASE Step(Writer) \/ Call(Writer)
  <2>1. Beside(Writer)
    BY <1>2, StepBeside, WriterTypes DEF Base
  <2>2. Lasting'
    BY DEF SInv
  <2>3. Sure
    BY <2>1, <2>2 DEF Sure, WriterStep
  <2> QED  BY <1>2, <2>3, WriterMaps
<1>3. CASE UNCHANGED vars
  BY <1>3, OthersKeep, Stutters DEF vars, opVars
<1>4. CASE Tick
  <2>1. UNCHANGED slotVars /\ UNCHANGED opVars /\ now' = now + 1 /\ got' = got
    BY <1>4 DEF Tick
  <2>2. /\ PhaseOf' = PhaseOf /\ arg' = arg /\ ret' = ret
        /\ [k \in Keys |-> EntryOf(k)'] = [k \in Keys |-> EntryOf(k)]
    BY <2>1, OthersKeep DEF opVars
  <2>3. Store!Tick
    BY <2>1, <2>2 DEF Store!Tick, Whole
  <2> QED  BY <2>3 DEF StoreStep, Store!Next
<1>5. ~Crash(Writer)
  BY DEF Crash, Base, OneWriter
<1> QED  BY <1>1, <1>2, <1>3, <1>4, <1>5 DEF Next

LEMMA InitMaps == ASSUME OneWriter, Init PROVE Store!Init
<1>1. Writer \in Procs
  BY DEF OneWriter
<1>2. pc[Writer] = "idle" /\ arg[Writer] = NoArg /\ ret[Writer] = "None" /\ now = 1
  BY <1>1 DEF Init
<1>3. PhaseOf = "idle"
  BY <1>2, PhasesNow DEF Phases
<1>4. ASSUME NEW k \in Keys PROVE EntryOf(k) = Nothing
  <2>1. SlotsOf(k) = {}
    BY DEF Init, SlotsOf, STATE_EMPTY, STATE_OCCUPIED
  <2> QED  BY <2>1 DEF EntryOf, Nothing
<1> QED
  BY <1>2, <1>3, <1>4
     DEF Store!Init, Store!Missing, Store!None, Store!Unanswered, NoArg, Nothing

\* The map is a dictionary for a process that alone writes to it and does not
\* die, whatever others look up or die looking up: every call takes effect at
\* one instant and answers by it, an insertion is refused only when N other
\* keys hold the slots, and none of the many steps of an operation over slots
\* that are reused shows.  Others may look up beside it if no entry expires,
\* because get evicts what it finds expired.  Two keys need two hashes.
THEOREM ImplementsStore ==
  ASSUME OneWriter, DistinctHashes PROVE Spec => ImplementsKVStore
<1>1. Init => Store!Init
  BY InitMaps
<1>2. /\ IInv /\ WholeInv /\ UInv /\ SInv /\ [Next]_vars
      /\ IInv' /\ WholeInv' /\ UInv' /\ SInv'
      => [Store!Next]_(Store!kvars)
  BY NextMaps DEF Base, StoreStep
<1>3. Spec => [](IInv /\ WholeInv /\ UInv /\ SInv)
  BY StoreInvariance
<1> QED  BY <1>1, <1>2, <1>3, PTL DEF Spec, ImplementsKVStore, Store!Spec

=============================================================================
