--------------------------- MODULE HashMapProofs ---------------------------
(***************************************************************************)
(* Proofs about HashMap for any number of processes, keys and slots: the   *)
(* type invariant, that the probe chains never break, and that a call      *)
(* takes a bounded number of steps; and, when only one of the processes    *)
(* calls set, that an occupied slot is whole, that a key has one entry,    *)
(* and that the count is exact.                                            *)
(***************************************************************************)
EXTENDS HashMap, FiniteSetTheorems, TLAPS

Active(p) == pc[p] \notin {"idle", "flush"}

\* A running operation is on a key, and its loop index is in the table until
\* the loop ends with a tombstone to reuse.
Busy ==
  \A p \in Procs : Active(p) =>
    /\ arg[p].key \in Keys
    /\ arg[p].op \in {"get", "set", "del"}
    /\ probe[p] < N \/ (pc[p] \in Claiming \cup {"count"} /\ first_tombstone[p] # NoSlot)

\* FLUSH has the arena to itself, and has emptied the slots it passed.
Exclusive ==
  \A p \in Procs : pc[p] = "flush" =>
    /\ wiping
    /\ \A q \in Procs : q # p => pc[q] = "idle"
    /\ \A i \in Slots : i < probe[p] => \A h \in 1 .. 2 : key_buf[i][h] = NoKey

\* The labels at which a process has found its slot not EMPTY.
Examining == {"fp", "expiry", "clock", "evict", "key", "read", "update", "del"}

\* Neither the slots a running operation has passed nor the one it examines is
\* EMPTY.
Passed ==
  \A p \in Procs : Active(p) =>
    /\ \A j \in 0 .. N - 1 : j < probe[p] => state[At(arg[p].key, j)] # STATE_EMPTY
    /\ pc[p] \in Examining => state[Idx(p)] # STATE_EMPTY

\* Its reuse candidate is on the probe chain of its key.
Reusable ==
  \A p \in Procs : Active(p) /\ first_tombstone[p] # NoSlot =>
    Reaches(arg[p].key, first_tombstone[p])

\* An idle process is at the first slot, with no candidate.
Resting ==
  \A p \in Procs : pc[p] = "idle" => probe[p] = 0 /\ first_tombstone[p] = NoSlot

\* Every byte of a key lies in a slot that a probe of the key reaches.
Placed ==
  ~wiping => \A i \in Slots, h \in 1 .. 2, k \in Keys :
    key_buf[i][h] = k => Reaches(k, i)

IInv == TypeOK /\ Busy /\ Exclusive /\ Passed /\ Reusable /\ Resting /\ Placed

-----------------------------------------------------------------------------

\* Every probe is in the table: idx of get, set and del is a valid index.
LEMMA SlotAt == ASSUME NEW k \in Keys, NEW j \in Nat PROVE At(k, j) \in Slots
  BY HashMapAssumption DEF At, Slots

\* No occupied slot or tombstone becomes EMPTY.
NothingFreed ==
  \A i \in Slots : state[i] # STATE_EMPTY => state'[i] # STATE_EMPTY

\* A key that reaches a slot still does after a step that frees no slot.
LEMMA ReachesKept ==
  ASSUME NEW k \in Keys, NEW i, Reaches(k, i), NothingFreed
  PROVE  Reaches(k, i)'
<1>1. PICK o \in 0 .. N - 1 :
        /\ i = At(k, o)
        /\ \A j \in 0 .. o - 1 : state[At(k, j)] # STATE_EMPTY
  BY DEF Reaches
<1>2. \A j \in 0 .. o - 1 : state'[At(k, j)] # STATE_EMPTY
  BY <1>1, SlotAt DEF NothingFreed
<1>3. i = At(k, o)'
  BY <1>1 DEF At
<1>4. \A j \in 0 .. o - 1 : (state[At(k, j)] # STATE_EMPTY)'
  BY <1>2 DEF At
<1> QED
  BY <1>3, <1>4, HashMapAssumption DEF Reaches

-----------------------------------------------------------------------------
(* What one step of an operation may do, whichever action it is.           *)

\* Process p stays at its slot.
Stays(p) ==
  /\ pc'[p] \notin {"idle", "flush"}
  /\ arg'[p] = arg[p] /\ probe'[p] = probe[p]
  /\ first_tombstone'[p] = first_tombstone[p]
  /\ pc'[p] \in Examining => state[Idx(p)] # STATE_EMPTY
  /\ \/ probe[p] < N
     \/ pc'[p] \in Claiming \cup {"count"} /\ first_tombstone[p] # NoSlot

\* Process p goes on by one slot.
Steps(p) ==
  /\ arg'[p] = arg[p] /\ probe'[p] = probe[p] + 1
  /\ first_tombstone'[p] \in {first_tombstone[p], Idx(p)}
  /\ state[Idx(p)] # STATE_EMPTY /\ probe[p] < N
  /\ \/ pc'[p] = "probe" /\ probe[p] + 1 < N
     \/ pc'[p] = "write_key" /\ first_tombstone'[p] # NoSlot

\* Process p returns or dies.
Ends(p) == pc'[p] = "idle" /\ probe'[p] = 0 /\ first_tombstone'[p] = NoSlot

OpStep(p) ==
  /\ Active(p)
  /\ Stays(p) \/ Steps(p) \/ Ends(p)
  /\ \A q \in Procs : q # p =>
       /\ pc'[q] = pc[q] /\ arg'[q] = arg[q] /\ probe'[q] = probe[q]
       /\ first_tombstone'[q] = first_tombstone[q]
  /\ wiping' = wiping

\* Bytes of a key are written only to slots that a probe of the key reaches.
WritesPlaced ==
  \A i \in Slots, h \in 1 .. 2 :
    \/ key_buf'[i][h] = key_buf[i][h]
    \/ key_buf'[i][h] \in Keys /\ Reaches(key_buf'[i][h], i)

\* The conjuncts of IInv but the type invariant survive such a step.
LEMMA OpStepKeepsInv ==
  ASSUME IInv, TypeOK', NEW p \in Procs, OpStep(p), NothingFreed, WritesPlaced
  PROVE  IInv'
<1> USE DEF IInv
<1>0. /\ NoSlot \notin Slots
      /\ \A q \in Procs : probe[q] \in 0 .. N /\ probe'[q] \in 0 .. N
      /\ N \in Nat
  BY HashMapAssumption DEF TypeOK, NoSlot, Slots
<1>1. Busy'
  BY <1>0 DEF OpStep, Stays, Steps, Ends, Busy, Active, Claiming
<1>2. Exclusive'
  <2>1. \A q \in Procs : pc'[q] # "flush"
    BY DEF OpStep, Stays, Steps, Ends, Exclusive, Active
  <2> QED  BY <2>1 DEF Exclusive
<1>3. Passed'
  <2> SUFFICES ASSUME NEW q \in Procs, Active(q)'
               PROVE  /\ \A j \in 0 .. N - 1 :
                           j < probe'[q] => state'[At(arg'[q].key, j)] # STATE_EMPTY
                      /\ pc'[q] \in Examining =>
                           state'[At(arg'[q].key, probe'[q])] # STATE_EMPTY
    BY DEF Passed, Idx, At
  <2>1. Active(q) /\ arg'[q] = arg[q] /\ arg[q].key \in Keys
    BY DEF OpStep, Stays, Steps, Ends, Busy, Active
  <2>2. \A j \in 0 .. N : At(arg[q].key, j) \in Slots
    BY <2>1, <1>0, SlotAt
  <2>3. \A j \in 0 .. N - 1 : j < probe'[q] => state[At(arg[q].key, j)] # STATE_EMPTY
    BY <2>1, <1>0 DEF OpStep, Stays, Steps, Ends, Passed, Idx, Active
  <2>4. pc'[q] \in Examining => state[At(arg[q].key, probe'[q])] # STATE_EMPTY
    BY <2>1, <1>0 DEF OpStep, Stays, Steps, Ends, Passed, Idx, Active, Examining
  <2> QED  BY <2>1, <2>2, <2>3, <2>4, <1>0 DEF NothingFreed
<1>4. Reusable'
  <2> SUFFICES ASSUME NEW q \in Procs, NEW k, NEW i, Active(q)',
                      k = arg'[q].key, i = first_tombstone'[q], i # NoSlot
               PROVE  Reaches(k, i)'
    BY DEF Reusable
  <2>1. Active(q) /\ k = arg[q].key /\ k \in Keys
    BY DEF OpStep, Stays, Steps, Ends, Busy, Active
  <2>2. CASE i = first_tombstone[q]
    <3>1. Reaches(k, i)
      BY <2>1, <2>2 DEF Reusable
    <3> QED  BY <3>1, <2>1, ReachesKept
  <2>3. CASE i # first_tombstone[q]
    <3>0. q = p /\ Steps(p)
      BY <2>3, <2>1 DEF OpStep, Stays, Ends, Active
    <3>1. i = At(k, probe[q]) /\ probe[q] \in 0 .. N - 1
      BY <3>0, <2>3, <2>1, <1>0 DEF Steps, Idx
    <3>2. \A j \in 0 .. N - 1 : j < probe[q] => state[At(k, j)] # STATE_EMPTY
      BY <2>1 DEF Passed
    <3>3. Reaches(k, i)
      BY <3>1, <3>2, <1>0 DEF Reaches
    <3> QED  BY <3>3, <2>1, ReachesKept
  <2> QED  BY <2>2, <2>3
<1>5. Placed'
  <2> SUFFICES ASSUME ~wiping', NEW i \in Slots, NEW h \in 1 .. 2, NEW k \in Keys,
                      key_buf'[i][h] = k
               PROVE  Reaches(k, i)'
    BY DEF Placed, Slots
  <2>1. Reaches(k, i)
    BY DEF WritesPlaced, Placed, OpStep
  <2> QED  BY <2>1, ReachesKept
<1>6. Resting'
  BY DEF OpStep, Stays, Steps, Ends, Active, Resting
<1> QED  BY <1>1, <1>2, <1>3, <1>4, <1>5, <1>6

-----------------------------------------------------------------------------
(* The moves of HashMap are such steps.                                    *)

OpTypeOK ==
  /\ pc \in [Procs -> Labels]
  /\ arg \in [Procs -> [op : OpNames \cup {"none"}, key : Keys \cup {NoKey},
                        val : Vals \cup {NoVal}, expiry : Nat]]
  /\ probe \in [Procs -> 0 .. N]
  /\ first_tombstone \in [Procs -> Slots \cup {NoSlot}]
  /\ half \in [Procs -> 1 .. 2]
  /\ ret \in [Procs -> Results]

\* A jump to another label of a scan disturbs nothing but pc.
LEMMA GotoIsOpStep ==
  ASSUME IInv, NEW p \in Procs, Active(p), NEW l \in Scanning \cup Claiming,
         l \in Examining => state[Idx(p)] # STATE_EMPTY,
         probe[p] < N \/ l \in Claiming \cup {"count"},
         Goto(p, l), wiping' = wiping
  PROVE  OpTypeOK' /\ OpStep(p)
<1>1. OpTypeOK'
  BY DEF IInv, TypeOK, OpTypeOK, Goto, Labels
<1>2. Stays(p)
  BY DEF IInv, TypeOK, Goto, Stays, Busy, Scanning, Claiming
<1> QED  BY <1>1, <1>2 DEF OpStep, Goto, IInv, TypeOK

\* So does each half of a buffer copy.
LEMMA CopyIsOpStep ==
  ASSUME IInv, NEW p \in Procs, Active(p), NEW l \in Scanning \cup Claiming,
         l \in Examining => state[Idx(p)] # STATE_EMPTY,
         probe[p] < N \/ l \in Claiming,
         CopyThen(p, l), wiping' = wiping
  PROVE  OpTypeOK' /\ OpStep(p)
<1>1. CASE SecondHalf(p)
  <2>1. OpTypeOK'
    BY <1>1 DEF IInv, TypeOK, OpTypeOK, SecondHalf
  <2>2. Stays(p)
    BY <1>1 DEF IInv, SecondHalf, Stays, Busy, Passed, Active
  <2> QED  BY <1>1, <2>1, <2>2 DEF OpStep, SecondHalf
<1>2. CASE Goto(p, l)
  BY <1>2, GotoIsOpStep
<1> QED  BY <1>1, <1>2 DEF CopyThen

\* A return leaves its process at rest.
LEMMA ReturnIsOpStep ==
  ASSUME IInv, NEW p \in Procs, Active(p), NEW r \in Results,
         Return(p, r), wiping' = wiping
  PROVE  OpTypeOK' /\ OpStep(p)
<1>1. OpTypeOK'
  BY HashMapAssumption DEF IInv, TypeOK, OpTypeOK, Return, Labels, NoArg
<1>2. Ends(p)
  BY DEF IInv, TypeOK, Return, Ends
<1> QED  BY <1>1, <1>2 DEF OpStep, Return, IInv, TypeOK

\* continue: the slot left behind is not EMPTY, and the candidate is on the chain.
LEMMA AdvanceIsOpStep ==
  ASSUME IInv, NEW p \in Procs, Active(p),
         state[Idx(p)] # STATE_EMPTY, probe[p] < N,
         NEW tomb \in {first_tombstone[p], Idx(p)},
         Advance(p, tomb), wiping' = wiping
  PROVE  OpTypeOK' /\ OpStep(p)
<1>1. CASE Return(p, "NotFound") \/ Return(p, "Full")
  <2>1. "NotFound" \in Results /\ "Full" \in Results
    BY DEF Results
  <2> QED  BY <1>1, <2>1, ReturnIsOpStep
<1>2. ASSUME NEW l \in {"probe", "write_key"}, MoveOn(p, l, tomb),
             l = "probe" => probe[p] + 1 < N, l = "write_key" => tomb # NoSlot
      PROVE  OpTypeOK' /\ OpStep(p)
  <2>2. probe[p] \in 0 .. N - 1 /\ N \in Nat
    BY HashMapAssumption DEF IInv, TypeOK
  <2>3. Idx(p) \in Slots
    BY <2>2, SlotAt DEF IInv, Busy, Idx
  <2>4. OpTypeOK'
    BY <1>2, <2>2, <2>3 DEF IInv, TypeOK, OpTypeOK, MoveOn, Labels, Scanning, Claiming
  <2>5. Steps(p)
    BY <1>2, <2>2 DEF IInv, TypeOK, MoveOn, Steps
  <2> QED  BY <1>2, <2>4, <2>5 DEF OpStep, MoveOn, IInv, TypeOK
<1>3. probe[p] + 1 # N => probe[p] + 1 < N
  <2>1. probe[p] \in 0 .. N /\ N \in Nat
    BY HashMapAssumption DEF IInv, TypeOK
  <2> QED  BY <2>1
<1>4. \/ Return(p, "NotFound") \/ Return(p, "Full")
      \/ MoveOn(p, "write_key", tomb) /\ tomb # NoSlot
      \/ MoveOn(p, "probe", tomb) /\ probe[p] + 1 < N
  BY <1>3 DEF Advance, EndOfScan, LastSlot
<1>5. CASE MoveOn(p, "write_key", tomb) /\ tomb # NoSlot
  BY <1>2, <1>5
<1>6. CASE MoveOn(p, "probe", tomb) /\ probe[p] + 1 < N
  BY <1>2, <1>6
<1> QED  BY <1>1, <1>4, <1>5, <1>6

-----------------------------------------------------------------------------
(* Every action of an operation keeps the invariant.                       *)

\* What makes a step of p keep the invariant.
Keeps(p) == TypeOK' /\ OpStep(p) /\ NothingFreed /\ WritesPlaced

\* The invariant follows from what one step of one process must respect.
LEMMA KeepsInv == ASSUME IInv, NEW p \in Procs, Keeps(p) PROVE IInv'
  BY OpStepKeepsInv DEF Keeps

\* A step that only reads shared memory.
LEMMA ReadsKeeps ==
  ASSUME IInv, NEW p \in Procs, OpTypeOK', OpStep(p), Reads
  PROVE  Keeps(p)
  BY DEF IInv, TypeOK, OpTypeOK, Reads, slotVars, Keeps, NothingFreed, WritesPlaced

\* The slot an operation is at, and the one it claims, are in the table.
LEMMA SlotsInTable ==
  ASSUME IInv, NEW p \in Procs, Active(p)
  PROVE  /\ Idx(p) \in Slots /\ Target(p) \in Slots
         /\ Fp[arg[p].key] \in Nat /\ arg[p].key \in Keys
         /\ N \in Nat /\ probe[p] \in 0 .. N
<1>1. arg[p].key \in Keys /\ probe[p] \in 0 .. N /\ N \in Nat
  BY HashMapAssumption DEF IInv, TypeOK, Busy
<1>2. Idx(p) \in Slots
  BY <1>1, SlotAt DEF Idx
<1> QED  BY <1>1, <1>2, HashMapAssumption DEF Target, IInv, TypeOK

\* The loop index of an operation that has not ended its loop.
LEMMA InLoop ==
  ASSUME IInv, NEW p \in Procs, Active(p), pc[p] \notin Claiming \cup {"count"}
  PROVE  probe[p] < N /\ (pc[p] \in Examining => state[Idx(p)] # STATE_EMPTY)
  BY DEF IInv, Busy, Passed

\* first_tombstone is what it was or the slot at hand.
LEMMA CandidateIs ==
  ASSUME NEW p \in Procs
  PROVE  Candidate(p) \in {first_tombstone[p], Idx(p)}
  BY DEF Candidate

\* continue with the candidate as it is.
LEMMA ContinueIsOpStep ==
  ASSUME IInv, NEW p \in Procs, Active(p),
         state[Idx(p)] # STATE_EMPTY, probe[p] < N,
         Continue(p), wiping' = wiping
  PROVE  OpTypeOK' /\ OpStep(p)
  BY AdvanceIsOpStep DEF Continue

\* At an EMPTY slot a lookup ends and a SET chooses its slot.
LEMMA ProbeEmptyKeeps ==
  ASSUME IInv, NEW p \in Procs, ProbeEmpty(p) PROVE Keeps(p)
<1>1. Active(p) /\ probe[p] < N /\ Reads /\ wiping' = wiping
  BY InLoop DEF ProbeEmpty, Active, Claiming, Reads
<1>2. CASE Goto(p, "write_key")
  BY <1>1, <1>2, GotoIsOpStep, ReadsKeeps DEF Claiming, Examining
<1>3. CASE Return(p, "NotFound")
  BY <1>1, <1>3, ReturnIsOpStep, ReadsKeeps DEF Results
<1> QED  BY <1>2, <1>3 DEF ProbeEmpty

\* A tombstone is passed, and remembered by SET.
LEMMA ProbeTombstoneKeeps ==
  ASSUME IInv, NEW p \in Procs, ProbeTombstone(p) PROVE Keeps(p)
<1>1. /\ Active(p) /\ probe[p] < N /\ state[Idx(p)] # STATE_EMPTY
      /\ Reads /\ wiping' = wiping
  BY InLoop DEF ProbeTombstone, Active, Claiming, Reads, STATE_EMPTY, STATE_TOMBSTONE
<1>2. CASE Advance(p, Candidate(p))
  BY <1>1, <1>2, CandidateIs, AdvanceIsOpStep, ReadsKeeps
<1>3. CASE Continue(p)
  BY <1>1, <1>3, ContinueIsOpStep, ReadsKeeps
<1> QED  BY <1>2, <1>3 DEF ProbeTombstone, PassTombstone

\* At an OCCUPIED slot the fingerprint comes next.
LEMMA ProbeOccupiedKeeps ==
  ASSUME IInv, NEW p \in Procs, ProbeOccupied(p) PROVE Keeps(p)
<1>1. /\ Active(p) /\ probe[p] < N /\ state[Idx(p)] # STATE_EMPTY
      /\ Reads /\ wiping' = wiping /\ Goto(p, "fp")
  BY InLoop DEF ProbeOccupied, Active, Claiming, Reads, STATE_EMPTY, STATE_OCCUPIED
<1> QED  BY <1>1, GotoIsOpStep, ReadsKeeps DEF Scanning

\* The fast reject by fingerprint.
LEMMA LoadFingerprintKeeps ==
  ASSUME IInv, NEW p \in Procs, LoadFingerprint(p) PROVE Keeps(p)
<1>1. /\ Active(p) /\ probe[p] < N /\ state[Idx(p)] # STATE_EMPTY
      /\ Reads /\ wiping' = wiping
  BY InLoop DEF LoadFingerprint, Active, Claiming, Reads, Examining
<1>2. CASE Continue(p)
  BY <1>1, <1>2, ContinueIsOpStep, ReadsKeeps
<1>3. CASE Goto(p, "key")
  BY <1>1, <1>3, GotoIsOpStep, ReadsKeeps DEF Scanning
<1>4. CASE Goto(p, "expiry")
  BY <1>1, <1>4, GotoIsOpStep, ReadsKeeps DEF Scanning
<1> QED  BY <1>2, <1>3, <1>4 DEF LoadFingerprint

\* The comparison of the keys.
LEMMA CompareKeyKeeps ==
  ASSUME IInv, NEW p \in Procs, CompareKey(p) PROVE Keeps(p)
<1>1. /\ Active(p) /\ probe[p] < N /\ state[Idx(p)] # STATE_EMPTY
      /\ Reads /\ wiping' = wiping
  BY InLoop DEF CompareKey, Active, Claiming, Reads, Examining
<1>2. CASE Continue(p)
  BY <1>1, <1>2, ContinueIsOpStep, ReadsKeeps
<1>3. ASSUME NEW l \in {"read", "update", "del"}, CopyThen(p, l) PROVE Keeps(p)
  BY <1>1, <1>3, CopyIsOpStep, ReadsKeeps DEF Scanning
<1> QED  BY <1>2, <1>3 DEF CompareKey

\* A step that changes neither a state nor the bytes of a key.
LEMMA QuietKeeps ==
  ASSUME IInv, NEW p \in Procs, OpTypeOK', OpStep(p),
         state' = state, key_buf' = key_buf, now' = now,
         fingerprint' \in [Slots -> Nat],
         expires_at' \in [Slots -> Nat],
         val_buf' \in [Slots -> [1 .. 2 -> Vals \cup {NoVal}]],
         got' \in [Procs -> [1 .. 2 -> Vals \cup {NoVal}]],
         loaded' \in [Procs -> Nat],
         used_count' \in 0 .. Wrap - 1
  PROVE  Keeps(p)
<1>1. TypeOK'
  BY DEF IInv, TypeOK, OpTypeOK, OpStep
<1>2. NothingFreed /\ WritesPlaced
  BY DEF NothingFreed, WritesPlaced
<1> QED  BY <1>1, <1>2 DEF Keeps

\* is_expired loads the expiry,
LEMMA LoadExpiryKeeps ==
  ASSUME IInv, NEW p \in Procs, LoadExpiry(p) PROVE Keeps(p)
<1>1. /\ Active(p) /\ probe[p] < N /\ state[Idx(p)] # STATE_EMPTY
      /\ wiping' = wiping
  BY InLoop DEF LoadExpiry, Active, Claiming, Examining
<1>2. PICK l \in {"key", "clock"} : Goto(p, l)
  BY DEF LoadExpiry
<1>3. OpTypeOK' /\ OpStep(p)
  BY <1>1, <1>2, GotoIsOpStep DEF Scanning
<1>4. loaded' \in [Procs -> Nat]
  BY <1>1, SlotsInTable DEF LoadExpiry, IInv, TypeOK
<1> QED  BY <1>3, <1>4, QuietKeeps DEF LoadExpiry, slotVars, IInv, TypeOK

\* and compares it with the clock.
LEMMA ReadClockKeeps ==
  ASSUME IInv, NEW p \in Procs, ReadClock(p) PROVE Keeps(p)
<1>1. /\ Active(p) /\ probe[p] < N /\ state[Idx(p)] # STATE_EMPTY
      /\ wiping' = wiping
  BY InLoop DEF ReadClock, Active, Claiming, Examining
<1>2. PICK l \in {"key", "evict"} : Goto(p, l)
  BY DEF ReadClock
<1>3. OpTypeOK' /\ OpStep(p)
  BY <1>1, <1>2, GotoIsOpStep DEF Scanning
<1>4. loaded' \in [Procs -> Nat]
  BY DEF ReadClock, IInv, TypeOK
<1> QED  BY <1>3, <1>4, QuietKeeps DEF ReadClock, slotVars, IInv, TypeOK

\* A process that dies leaves what it wrote, and no half-placed key.
LEMMA CrashKeeps ==
  ASSUME IInv, NEW p \in Procs, Crash(p), Active(p) PROVE Keeps(p)
<1>1. OpTypeOK' /\ OpStep(p)
  BY ReturnIsOpStep DEF Crash, Results
<1>2. loaded' \in [Procs -> Nat]
  BY DEF Crash, IInv, TypeOK
<1> QED  BY <1>1, <1>2, QuietKeeps DEF Crash, slotVars, IInv, TypeOK

\* GET copies the value out.
LEMMA ReadValueKeeps ==
  ASSUME IInv, NEW p \in Procs, ReadValue(p) PROVE Keeps(p)
<1>1. /\ Active(p) /\ probe[p] < N /\ wiping' = wiping
      /\ state[Idx(p)] # STATE_EMPTY
  BY InLoop DEF ReadValue, Active, Claiming, Examining
<1>2. OpTypeOK' /\ OpStep(p)
  <2>1. CASE half[p] = 1 /\ SecondHalf(p)
    <3>1. CopyThen(p, "read")
      BY <2>1 DEF CopyThen
    <3> QED  BY <1>1, <3>1, CopyIsOpStep DEF Scanning
  <2>2. CASE Return(p, "Found")
    BY <1>1, <2>2, ReturnIsOpStep DEF Results
  <2> QED  BY <2>1, <2>2 DEF ReadValue
<1>3. /\ Idx(p) \in Slots
      /\ half[p] \in 1 .. 2
      /\ val_buf \in [Slots -> [1 .. 2 -> Vals \cup {NoVal}]]
      /\ got \in [Procs -> [1 .. 2 -> Vals \cup {NoVal}]]
  BY <1>1, SlotsInTable DEF IInv, TypeOK
<1>4. got' \in [Procs -> [1 .. 2 -> Vals \cup {NoVal}]]
  BY <1>3 DEF ReadValue
<1> QED  BY <1>2, <1>4, QuietKeeps DEF ReadValue, slotVars, IInv, TypeOK

\* Half of the value of slot i is overwritten.
LEMMA WriteValType ==
  ASSUME IInv, NEW p \in Procs, NEW i \in Slots,
         val_buf' = [val_buf EXCEPT ![i][half[p]] = arg[p].val]
  PROVE  val_buf' \in [Slots -> [1 .. 2 -> Vals \cup {NoVal}]]
<1>1. /\ half[p] \in 1 .. 2 /\ arg[p].val \in Vals \cup {NoVal}
      /\ val_buf \in [Slots -> [1 .. 2 -> Vals \cup {NoVal}]]
  BY DEF IInv, TypeOK
<1> QED  BY <1>1

\* An update in place writes no key,
LEMMA UpdateValueKeeps ==
  ASSUME IInv, NEW p \in Procs, UpdateValue(p) PROVE Keeps(p)
<1>1. /\ Active(p) /\ probe[p] < N /\ wiping' = wiping
  BY InLoop DEF UpdateValue, Active, Claiming, Other
<1>2. OpTypeOK' /\ OpStep(p)
  BY <1>1, CopyIsOpStep DEF UpdateValue, Scanning, Examining
<1>3. val_buf' \in [Slots -> [1 .. 2 -> Vals \cup {NoVal}]]
  BY <1>1, SlotsInTable, WriteValType DEF UpdateValue
<1> QED  BY <1>2, <1>3, QuietKeeps DEF UpdateValue, Other, IInv, TypeOK

\* and neither does its new expiry.
LEMMA UpdateExpiryKeeps ==
  ASSUME IInv, NEW p \in Procs, UpdateExpiry(p) PROVE Keeps(p)
<1>1. /\ Active(p) /\ wiping' = wiping
  BY DEF UpdateExpiry, Active, Other
<1>2. OpTypeOK' /\ OpStep(p)
  BY <1>1, ReturnIsOpStep DEF UpdateExpiry, Results
<1>3. expires_at' \in [Slots -> Nat]
  BY <1>1, SlotsInTable DEF UpdateExpiry, IInv, TypeOK
<1> QED  BY <1>2, <1>3, QuietKeeps DEF UpdateExpiry, Other, IInv, TypeOK

\* claim_slot: the value,
LEMMA WriteValKeeps ==
  ASSUME IInv, NEW p \in Procs, WriteVal(p) PROVE Keeps(p)
<1>1. /\ Active(p) /\ wiping' = wiping
  BY DEF WriteVal, Active, Other
<1>2. OpTypeOK' /\ OpStep(p)
  BY <1>1, CopyIsOpStep DEF WriteVal, After, Claiming, Examining
<1>3. val_buf' \in [Slots -> [1 .. 2 -> Vals \cup {NoVal}]]
  BY <1>1, SlotsInTable, WriteValType DEF WriteVal
<1> QED  BY <1>2, <1>3, QuietKeeps DEF WriteVal, Other, IInv, TypeOK

\* the fingerprint,
LEMMA WriteFpKeeps ==
  ASSUME IInv, NEW p \in Procs, WriteFp(p) PROVE Keeps(p)
<1>1. /\ Active(p) /\ wiping' = wiping
  BY DEF WriteFp, Active, Other
<1>2. OpTypeOK' /\ OpStep(p)
  BY <1>1, GotoIsOpStep DEF WriteFp, After, Claiming, Examining
<1>3. fingerprint' \in [Slots -> Nat]
  BY <1>1, SlotsInTable DEF WriteFp, IInv, TypeOK
<1> QED  BY <1>2, <1>3, QuietKeeps DEF WriteFp, Other, IInv, TypeOK

\* and the expiry.
LEMMA WriteExpKeeps ==
  ASSUME IInv, NEW p \in Procs, WriteExp(p) PROVE Keeps(p)
<1>1. /\ Active(p) /\ wiping' = wiping
  BY DEF WriteExp, Active, Other
<1>2. OpTypeOK' /\ OpStep(p)
  BY <1>1, GotoIsOpStep DEF WriteExp, After, Claiming, Examining
<1>3. expires_at' \in [Slots -> Nat]
  BY <1>1, SlotsInTable DEF WriteExp, IInv, TypeOK
<1> QED  BY <1>2, <1>3, QuietKeeps DEF WriteExp, Other, IInv, TypeOK

\* fetch_add and fetch_sub stay in range.
LEMMA Wraps ==
  ASSUME IInv
  PROVE  /\ (used_count + 1) % Wrap \in 0 .. Wrap - 1
         /\ (used_count + Wrap - 1) % Wrap \in 0 .. Wrap - 1
<1>1. Wrap \in Nat \ {0} /\ used_count \in 0 .. Wrap - 1
  BY HashMapAssumption DEF IInv, TypeOK
<1> QED  BY <1>1

\* DEL has removed its entry and lowers the count.
LEMMA DelCountKeeps ==
  ASSUME IInv, NEW p \in Procs, DelCount(p) PROVE Keeps(p)
<1>1. /\ Active(p) /\ wiping' = wiping
  BY DEF DelCount, Active
<1>2. OpTypeOK' /\ OpStep(p)
  BY <1>1, ReturnIsOpStep DEF DelCount, Results
<1> QED  BY <1>2, Wraps, QuietKeeps DEF DelCount, slotVars, IInv, TypeOK

\* SET has published its entry and raises the count, or not.
LEMMA CountInsertKeeps ==
  ASSUME IInv, NEW p \in Procs, CountInsert(p) PROVE Keeps(p)
<1>1. /\ Active(p) /\ wiping' = wiping
  BY DEF CountInsert, Active
<1>2. OpTypeOK' /\ OpStep(p)
  BY <1>1, ReturnIsOpStep DEF CountInsert, Results
<1> QED  BY <1>2, Wraps, QuietKeeps DEF CountInsert, slotVars, IInv, TypeOK

-----------------------------------------------------------------------------
(* The actions that store to state or to a key.                            *)

\* A step that stores to the state of one slot, and not EMPTY.
LEMMA StateKeeps ==
  ASSUME IInv, NEW p \in Procs, OpTypeOK', OpStep(p), Other,
         NEW i \in Slots, NEW st \in {STATE_OCCUPIED, STATE_TOMBSTONE},
         state' = [state EXCEPT ![i] = st] \/ state' = state,
         UNCHANGED <<fingerprint, expires_at, key_buf, val_buf>>
  PROVE  Keeps(p)
<1>1. state \in [Slots -> {STATE_EMPTY, STATE_OCCUPIED, STATE_TOMBSTONE}]
  BY DEF IInv, TypeOK
<1>2. state' \in [Slots -> {STATE_EMPTY, STATE_OCCUPIED, STATE_TOMBSTONE}]
  BY <1>1
<1>3. NothingFreed
  BY <1>1 DEF NothingFreed, STATE_EMPTY, STATE_OCCUPIED, STATE_TOMBSTONE
<1>4. TypeOK'
  BY <1>2 DEF IInv, TypeOK, OpTypeOK, Other
<1>5. WritesPlaced
  BY DEF WritesPlaced
<1> QED  BY <1>3, <1>4, <1>5 DEF Keeps

\* The compare-exchange of an eviction leaves a tombstone, never EMPTY.
LEMMA EvictKeeps ==
  ASSUME IInv, NEW p \in Procs, Evict(p) PROVE Keeps(p)
<1>1. /\ Active(p) /\ probe[p] < N /\ state[Idx(p)] # STATE_EMPTY
      /\ wiping' = wiping
  BY InLoop DEF Evict, Active, Claiming, Examining, Other
<1>2. CASE Return(p, "Expired")
  BY <1>1, <1>2, ReturnIsOpStep, SlotsInTable, StateKeeps DEF Results, Evict, Tombstoned
<1>3. CASE Advance(p, Candidate(p))
  <2>1. OpTypeOK' /\ OpStep(p)
    BY <1>1, <1>3, CandidateIs, AdvanceIsOpStep
  <2> QED  BY <1>1, <2>1, SlotsInTable, StateKeeps DEF Evict, Tombstoned
<1> QED  BY <1>2, <1>3 DEF Evict

\* So does the one of DEL.
LEMMA DelCasKeeps ==
  ASSUME IInv, NEW p \in Procs, DelCas(p) PROVE Keeps(p)
<1>1. /\ Active(p) /\ probe[p] < N /\ state[Idx(p)] # STATE_EMPTY
      /\ wiping' = wiping
  BY InLoop DEF DelCas, Active, Claiming, Examining, Other
<1>2. CASE Goto(p, "del_count")
  <2>1. OpTypeOK' /\ OpStep(p)
    BY <1>1, <1>2, GotoIsOpStep DEF Scanning, Examining
  <2> QED  BY <1>1, <2>1, SlotsInTable, StateKeeps DEF DelCas, Tombstoned
<1>3. CASE Continue(p) /\ UNCHANGED state
  <2>1. OpTypeOK' /\ OpStep(p)
    BY <1>1, <1>3, ContinueIsOpStep
  <2> QED  BY <1>1, <1>3, <2>1, SlotsInTable, StateKeeps DEF DelCas
<1> QED  BY <1>2, <1>3 DEF DelCas

\* The claimed slot becomes OCCUPIED.
LEMMA PublishKeeps ==
  ASSUME IInv, NEW p \in Procs, Publish(p) PROVE Keeps(p)
<1>1. Active(p) /\ wiping' = wiping
  BY DEF Publish, Active, Other
<1>2. OpTypeOK' /\ OpStep(p)
  BY <1>1, GotoIsOpStep DEF Publish, Scanning, Examining
<1> QED  BY <1>1, <1>2, SlotsInTable, StateKeeps DEF Publish

\* The slot SET claims is on the probe chain of its key.
LEMMA TargetReached ==
  ASSUME IInv, NEW p \in Procs, Active(p)
  PROVE  Reaches(arg[p].key, Target(p))
<1>1. CASE first_tombstone[p] # NoSlot
  BY <1>1 DEF IInv, Reusable, Target
<1>2. CASE first_tombstone[p] = NoSlot
  <2>1. probe[p] \in 0 .. N - 1 /\ N \in Nat
    BY <1>2, SlotsInTable DEF IInv, Busy
  <2>2. \A j \in 0 .. N - 1 : j < probe[p] => state[At(arg[p].key, j)] # STATE_EMPTY
    BY DEF IInv, Passed
  <2> QED  BY <1>2, <2>1, <2>2 DEF Target, Idx, Reaches
<1> QED  BY <1>1, <1>2

\* claim_slot writes a key only where a probe of the key comes by.
LEMMA WriteKeyKeeps ==
  ASSUME IInv, NEW p \in Procs, WriteKey(p) PROVE Keeps(p)
<1>1. Active(p) /\ wiping' = wiping
  BY DEF WriteKey, Active, Other
<1>2. OpTypeOK' /\ OpStep(p)
  BY <1>1, CopyIsOpStep DEF WriteKey, After, Claiming, Examining
<1>3. /\ Target(p) \in Slots /\ arg[p].key \in Keys /\ half[p] \in 1 .. 2
      /\ key_buf \in [Slots -> [1 .. 2 -> Keys \cup {NoKey}]]
      /\ key_buf' = [key_buf EXCEPT ![Target(p)][half[p]] = arg[p].key]
  BY <1>1, SlotsInTable DEF WriteKey, IInv, TypeOK
<1>4. key_buf' \in [Slots -> [1 .. 2 -> Keys \cup {NoKey}]]
  BY <1>3
<1>5. TypeOK'
  BY <1>2, <1>4 DEF WriteKey, Other, IInv, TypeOK, OpTypeOK
<1>6. \A i \in Slots, h \in 1 .. 2 :
        \/ key_buf'[i][h] = key_buf[i][h]
        \/ i = Target(p) /\ key_buf'[i][h] = arg[p].key
  BY <1>3
<1>7. WritesPlaced
  BY <1>1, <1>3, <1>6, TargetReached DEF WritesPlaced
<1>8. NothingFreed
  BY DEF WriteKey, NothingFreed
<1> QED  BY <1>2, <1>5, <1>7, <1>8 DEF Keeps

\* Every step of a running get, set or del.
LEMMA StepKeepsInv ==
  ASSUME IInv, NEW p \in Procs, Step(p), Active(p) PROVE IInv'
BY KeepsInv, ProbeEmptyKeeps, ProbeTombstoneKeeps, ProbeOccupiedKeeps,
   LoadFingerprintKeeps, LoadExpiryKeeps, ReadClockKeeps, EvictKeeps, CompareKeyKeeps,
   ReadValueKeeps, UpdateValueKeeps, UpdateExpiryKeeps, DelCasKeeps,
   DelCountKeeps, WriteKeyKeeps, WriteValKeeps, WriteFpKeeps, WriteExpKeeps,
   PublishKeeps, CountInsertKeeps
   DEF Step, Active, FlushSlot, FlushCount

-----------------------------------------------------------------------------
(* Calls, FLUSH and the clock.                                             *)

\* A call starts at the first slot of its key.
LEMMA CallKeepsInv ==
  ASSUME IInv, NEW p \in Procs, NEW op \in {"get", "set", "del"},
         NEW k \in Keys, NEW v \in Vals \cup {NoVal}, NEW expiry \in Nat,
         NoFlush, Start(p, op, k, v, expiry), UNCHANGED wiping
  PROVE  IInv'
<1>1. TypeOK'
  BY DEF IInv, TypeOK, Start, slotVars, Labels, Scanning, Results, OpNames, Both
<1>2. /\ pc[p] = "idle" /\ probe[p] = 0 /\ first_tombstone[p] = NoSlot
      /\ pc'[p] = "probe" /\ arg'[p].key = k /\ arg'[p].op = op
      /\ \A q \in Procs : q # p => pc'[q] = pc[q] /\ arg'[q] = arg[q]
      /\ UNCHANGED <<state, key_buf, probe, first_tombstone, wiping>>
  BY DEF IInv, TypeOK, Resting, Start, slotVars
<1>3. N \in Nat \ {0}
  BY HashMapAssumption
<1>4. Busy'
  BY <1>2, <1>3 DEF IInv, Busy, Active, Claiming
<1>5. Exclusive'
  BY <1>2 DEF NoFlush, Exclusive
<1>6. Passed'
  <2> SUFFICES ASSUME NEW q \in Procs, Active(q)'
               PROVE  /\ \A j \in 0 .. N - 1 :
                           j < probe[q] => state[At(arg'[q].key, j)] # STATE_EMPTY
                      /\ pc'[q] \in Examining => state[At(arg'[q].key, probe[q])] # STATE_EMPTY
    BY <1>2 DEF Passed, Idx, At
  <2>1. CASE q = p
    BY <2>1, <1>2 DEF Examining
  <2>2. CASE q # p
    BY <2>2, <1>2 DEF IInv, Passed, Idx, Active
  <2> QED  BY <2>1, <2>2
<1>7. Reusable'
  <2> SUFFICES ASSUME NEW q \in Procs, Active(q)', first_tombstone[q] # NoSlot
               PROVE  Reaches(arg'[q].key, first_tombstone[q])
    BY <1>2 DEF Reusable, Reaches, At
  <2> QED  BY <1>2 DEF IInv, Reusable, Active
<1>8. Resting'
  BY <1>2 DEF IInv, Resting
<1>9. Placed'
  BY <1>2 DEF IInv, Placed, Reaches, At, Slots
<1> QED  BY <1>1, <1>4, <1>5, <1>6, <1>7, <1>8, <1>9 DEF IInv

\* While FLUSH runs, before and after the step, no other conjunct says
\* anything.
LEMMA FlushingInv ==
  ASSUME TypeOK', Exclusive', Resting',
         \A q \in Procs : pc'[q] \in {"idle", "flush"},
         wiping'
  PROVE  IInv'
BY DEF IInv, Busy, Passed, Reusable, Placed, Active

\* flush_all starts when no other call runs.
LEMMA CallFlushKeepsInv ==
  ASSUME IInv, NEW p \in Procs, CallFlush(p) PROVE IInv'
<1>1. TypeOK'
  BY DEF IInv, TypeOK, CallFlush, Start, slotVars, Labels, Results, OpNames, Both
<1>2. /\ probe[p] = 0
      /\ \A q \in Procs : q # p => pc'[q] = "idle"
      /\ pc'[p] = "flush" /\ wiping'
      /\ UNCHANGED <<probe, first_tombstone>>
  BY DEF IInv, TypeOK, Resting, CallFlush, Start
<1>3. Exclusive'
  <2>1. \A i \in Slots : ~(i < probe'[p])
    BY <1>2, HashMapAssumption DEF Slots
  <2> QED  BY <1>2, <2>1 DEF Exclusive
<1>4. Resting'
  BY <1>2 DEF IInv, Resting, CallFlush
<1> QED  BY <1>1, <1>2, <1>3, <1>4, FlushingInv

\* flush_all empties a slot, and the bytes of its key.
LEMMA FlushSlotKeepsInv ==
  ASSUME IInv, NEW p \in Procs, FlushSlot(p) PROVE IInv'
<1>1. /\ probe[p] \in 0 .. N - 1 /\ N \in Nat
      /\ probe \in [Procs -> 0 .. N]
  BY HashMapAssumption DEF IInv, TypeOK, FlushSlot
<1>2. TypeOK'
  <2>1. /\ state' \in [Slots -> {STATE_EMPTY, STATE_OCCUPIED, STATE_TOMBSTONE}]
        /\ fingerprint' \in [Slots -> Nat]
        /\ expires_at' \in [Slots -> Nat]
        /\ probe[p] \in Slots
    BY <1>1 DEF IInv, TypeOK, FlushSlot, Slots
  <2>2. /\ key_buf' \in [Slots -> [1 .. 2 -> Keys \cup {NoKey}]]
        /\ val_buf' \in [Slots -> [1 .. 2 -> Vals \cup {NoVal}]]
    BY <2>1 DEF IInv, TypeOK, FlushSlot, Both
  <2>3. probe' \in [Procs -> 0 .. N]
    BY <1>1 DEF FlushSlot
  <2> QED  BY <2>1, <2>2, <2>3 DEF IInv, TypeOK, FlushSlot, Other
<1>3. /\ wiping' /\ pc' = pc /\ pc[p] = "flush"
      /\ \A q \in Procs : q # p => pc[q] = "idle"
      /\ \A q \in Procs : q # p => probe'[q] = probe[q]
      /\ first_tombstone' = first_tombstone
  BY <1>1 DEF IInv, Exclusive, FlushSlot, Other
<1>4. \A i \in Slots : i < probe'[p] => \A h \in 1 .. 2 : key_buf'[i][h] = NoKey
  <2>1. probe'[p] = probe[p] + 1
    BY <1>1 DEF FlushSlot
  <2>2. key_buf' = [key_buf EXCEPT ![probe[p]] = Both(NoKey)]
    BY DEF FlushSlot
  <2>3. \A i \in Slots : i < probe[p] => \A h \in 1 .. 2 : key_buf[i][h] = NoKey
    BY <1>3 DEF IInv, Exclusive
  <2>4. key_buf \in [Slots -> [1 .. 2 -> Keys \cup {NoKey}]]
    BY DEF IInv, TypeOK
  <2> QED  BY <2>1, <2>2, <2>3, <2>4, <1>1 DEF Slots, Both
<1>5. Exclusive' /\ Resting'
  BY <1>3, <1>4 DEF IInv, Exclusive, Resting
<1> QED  BY <1>2, <1>3, <1>5, FlushingInv

\* When FLUSH completes, no slot holds a byte of a key.
LEMMA FlushCountKeepsInv ==
  ASSUME IInv, NEW p \in Procs, FlushCount(p) PROVE IInv'
<1>1. TypeOK'
  <2>1. "idle" \in Labels /\ "Flushed" \in Results
    BY DEF Labels, Results
  <2>2. OpTypeOK'
    BY <2>1, HashMapAssumption DEF IInv, TypeOK, OpTypeOK, FlushCount, Return, NoArg
  <2>3. used_count' \in 0 .. Wrap - 1
    BY HashMapAssumption DEF FlushCount
  <2>4. wiping' \in BOOLEAN
    BY Zenon DEF FlushCount
  <2> QED
    BY <2>1, <2>2, <2>3, <2>4 DEF IInv, TypeOK, OpTypeOK, FlushCount, slotVars
<1>2. /\ \A q \in Procs : pc'[q] = "idle"
      /\ Resting'
  BY DEF IInv, TypeOK, Exclusive, Resting, FlushCount, Return
<1>3. \A i \in Slots, h \in 1 .. 2 : key_buf'[i][h] = NoKey
  BY HashMapAssumption DEF IInv, Exclusive, FlushCount, slotVars, Slots
<1>4. Placed'
  BY <1>3, HashMapAssumption DEF Placed, Slots
<1> QED  BY <1>1, <1>2, <1>4 DEF IInv, Busy, Exclusive, Passed, Reusable, Active

\* A process may die anywhere.
LEMMA CrashKeepsInv ==
  ASSUME IInv, NEW p \in Procs, Crash(p) PROVE IInv'
<1>1. CASE Active(p)
  BY <1>1, CrashKeeps, KeepsInv
<1>2. CASE pc[p] = "flush"
  <2>1. TypeOK'
    BY HashMapAssumption
       DEF IInv, TypeOK, Crash, Reads, slotVars, Return, NoArg, Labels, Results
  <2>2. /\ \A q \in Procs : pc'[q] = "idle"
        /\ Resting' /\ wiping'
    BY <1>2 DEF IInv, TypeOK, Exclusive, Resting, Crash, Return, Reads
  <2>3. Exclusive'
    BY <2>2 DEF Exclusive
  <2> QED  BY <2>1, <2>2, <2>3, FlushingInv
<1> QED  BY <1>1, <1>2 DEF Crash, Active

\* The clock changes no slot.
LEMMA TickKeepsInv == ASSUME IInv, Tick PROVE IInv'
BY DEF IInv, Tick, slotVars, opVars, TypeOK, Busy, Exclusive, Passed, Reusable,
       Resting, Placed, Active, Reaches, At, Idx, Slots

\* What the invariant reads is in vars.
LEMMA StutterKeepsInv == ASSUME IInv, UNCHANGED vars PROVE IInv'
BY DEF IInv, vars, slotVars, opVars, TypeOK, Busy, Exclusive, Passed, Reusable,
       Resting, Placed, Active, Reaches, At, Idx, Slots

\* A created arena has no keys.
LEMMA InitInv == Init => IInv
<1> SUFFICES ASSUME Init PROVE IInv
  OBVIOUS
<1>1. TypeOK
  <2>1. OpTypeOK
    <3>1. "idle" \in Labels /\ "None" \in Results
      BY DEF Labels, Results
    <3> QED  BY <3>1, HashMapAssumption DEF Init, OpTypeOK, NoArg
  <2>2. /\ state \in [Slots -> {STATE_EMPTY, STATE_OCCUPIED, STATE_TOMBSTONE}]
        /\ fingerprint \in [Slots -> Nat] /\ expires_at \in [Slots -> Nat]
        /\ loaded \in [Procs -> Nat]
    BY DEF Init
  <2>3. /\ key_buf \in [Slots -> [1 .. 2 -> Keys \cup {NoKey}]]
        /\ val_buf \in [Slots -> [1 .. 2 -> Vals \cup {NoVal}]]
        /\ got \in [Procs -> [1 .. 2 -> Vals \cup {NoVal}]]
    BY DEF Init, Both
  <2>4. used_count \in 0 .. Wrap - 1 /\ now \in Nat
    BY HashMapAssumption DEF Init
  <2>5. wiping \in BOOLEAN
    BY Zenon DEF Init
  <2> QED  BY <2>1, <2>2, <2>3, <2>4, <2>5 DEF TypeOK, OpTypeOK
<1>2. Busy /\ Exclusive /\ Passed /\ Reusable /\ Resting
  BY DEF Init, Busy, Exclusive, Passed, Reusable, Resting, Active
<1>3. Placed
  BY HashMapAssumption DEF Init, Placed, Both
<1> QED  BY <1>1, <1>2, <1>3 DEF IInv

\* The invariant is inductive.
LEMMA NextKeepsInv == IInv /\ [Next]_vars => IInv'
<1> SUFFICES ASSUME IInv, [Next]_vars PROVE IInv'
  OBVIOUS
<1>1. ASSUME NEW p \in Procs, CallGet(p) PROVE IInv'
  BY <1>1, CallKeepsInv DEF CallGet
<1>2. ASSUME NEW p \in Procs, CallSet(p) PROVE IInv'
  <2>1. PICK k \in Keys, v \in Vals, ttl \in Ttls :
          Start(p, "set", k, v, TtlToExpiry(ttl))
    BY <1>2 DEF CallSet
  <2>2. TtlToExpiry(ttl) \in Nat
    BY HashMapAssumption DEF TtlToExpiry, IInv, TypeOK
  <2> QED  BY <1>2, <2>1, <2>2, CallKeepsInv DEF CallSet
<1>3. ASSUME NEW p \in Procs, CallDel(p) PROVE IInv'
  BY <1>3, CallKeepsInv DEF CallDel
<1>4. ASSUME NEW p \in Procs, Step(p) PROVE IInv'
  <2>1. CASE Active(p)
    BY <2>1, <1>4, StepKeepsInv
  <2>2. CASE ~Active(p)
    BY <2>2, <1>4, FlushSlotKeepsInv, FlushCountKeepsInv
       DEF Step, Active, ProbeEmpty, ProbeTombstone, ProbeOccupied,
           LoadFingerprint, LoadExpiry, ReadClock, Evict, CompareKey, ReadValue,
           UpdateValue, UpdateExpiry, DelCas, DelCount, WriteKey, WriteVal,
           WriteFp, WriteExp, Publish, CountInsert
  <2> QED  BY <2>1, <2>2
<1> QED
  BY <1>1, <1>2, <1>3, <1>4, CallFlushKeepsInv, CrashKeepsInv, TickKeepsInv,
     StutterKeepsInv DEF Next, Call

\* Hence it always holds.
LEMMA Invariance == Spec => []IInv
  BY InitInv, NextKeepsInv, PTL DEF Spec

\* Every slot index and loop index a process holds stays in bounds and
\* used_count in its 64 bits, for any number of processes and slots.
THEOREM TypeCorrect == Spec => []TypeOK
<1>1. IInv => TypeOK
  BY DEF IInv
<1> QED  BY <1>1, Invariance, PTL

\* The probe chains never break, for any number of processes, keys and slots,
\* with concurrent writers, expiry, and processes that die anywhere.
THEOREM ChainsIntact == Spec => []ProbeChainIntact
<1>1. IInv => ProbeChainIntact
  <2> SUFFICES ASSUME IInv, ~wiping, NEW i \in Slots, NEW k \in Keys,
                      key_buf[i] = Both(k)
               PROVE  Reaches(k, i)
    BY DEF ProbeChainIntact
  <2>1. key_buf[i][1] = k
    BY DEF Both
  <2> QED  BY <2>1 DEF IInv, Placed
<1> QED  BY <1>1, Invariance, PTL

-----------------------------------------------------------------------------
(* Only one process calls set: occupied slots are whole.                    *)

\* What set is written for; others may do everything else.
OneSetter ==
  \A p, q \in Procs : "set" \in Ops[p] /\ "set" \in Ops[q] => p = q

\* The operation a process is in, by its label.
Labelled(p) ==
  /\ arg[p].op # "none" => arg[p].op \in Ops[p]
  /\ pc[p] = "flush" => arg[p].op = "flush"
  /\ pc[p] \in Claiming \cup {"update", "update_exp", "count"} => arg[p].op = "set"
  /\ pc[p] \in {"expiry", "clock", "evict"} => arg[p].op \in {"get", "set"}
  /\ pc[p] = "read" => arg[p].op = "get"
  /\ pc[p] \in {"del", "del_count"} => arg[p].op = "del"

\* SET's candidate is a tombstone, the slot it claims is not OCCUPIED, and what
\* it has written there stays.
Owned(p) ==
  /\ Active(p) /\ pc[p] # "count" /\ arg[p].op = "set" /\ first_tombstone[p] # NoSlot =>
       state[first_tombstone[p]] = STATE_TOMBSTONE
  /\ pc[p] \in Claiming => state[Target(p)] # STATE_OCCUPIED
  /\ pc[p] = "write_key" /\ half[p] = 2 => key_buf[Target(p)][1] = arg[p].key
  /\ pc[p] \in Claiming \ {"write_key"} => key_buf[Target(p)] = Both(arg[p].key)
  /\ pc[p] \in {"write_exp", "publish"} => fingerprint[Target(p)] = Fp[arg[p].key]

WholeInv == OccupiedIsWhole /\ \A p \in Procs : Labelled(p) /\ Owned(p)

-----------------------------------------------------------------------------
(* What the moves of one process do to its variables.                      *)

\* The other processes are where they were.
Beside(p) ==
  \A q \in Procs : q # p =>
    /\ pc'[q] = pc[q] /\ arg'[q] = arg[q] /\ probe'[q] = probe[q]
    /\ first_tombstone'[q] = first_tombstone[q] /\ half'[q] = half[q]

Jumped(p, l, h) ==
  /\ Beside(p)
  /\ pc'[p] = l /\ half'[p] = h
  /\ arg'[p] = arg[p] /\ probe'[p] = probe[p]
  /\ first_tombstone'[p] = first_tombstone[p]

Moved(p, l, tomb) ==
  /\ Beside(p)
  /\ pc'[p] = l /\ half'[p] = 1
  /\ arg'[p] = arg[p] /\ probe'[p] = probe[p] + 1
  /\ first_tombstone'[p] = tomb

Returned(p, r) ==
  /\ Beside(p)
  /\ pc'[p] = "idle" /\ half'[p] = 1 /\ arg'[p] = NoArg
  /\ ret'[p] = r

LEMMA GotoJumps ==
  ASSUME IInv, NEW p \in Procs, NEW l, Goto(p, l) PROVE Jumped(p, l, 1)
  BY DEF IInv, TypeOK, Goto, Jumped, Beside

LEMMA CopyJumps ==
  ASSUME IInv, NEW p \in Procs, NEW l, CopyThen(p, l)
  PROVE  \/ half[p] = 1 /\ Jumped(p, pc[p], 2)
         \/ half[p] = 2 /\ Jumped(p, l, 1)
<1>1. ASSUME SecondHalf(p) PROVE Jumped(p, pc[p], 2)
  BY <1>1 DEF IInv, TypeOK, SecondHalf, Jumped, Beside
<1> QED  BY <1>1, GotoJumps DEF CopyThen

LEMMA ReturnReturns ==
  ASSUME IInv, NEW p \in Procs, NEW r, Return(p, r) PROVE Returned(p, r)
  BY DEF IInv, TypeOK, Return, Returned, Beside

LEMMA MoveOnMoves ==
  ASSUME IInv, NEW p \in Procs, NEW l, NEW tomb, MoveOn(p, l, tomb)
  PROVE  Moved(p, l, tomb)
  BY DEF IInv, TypeOK, MoveOn, Moved, Beside

LEMMA AdvanceMoves ==
  ASSUME IInv, NEW p \in Procs, NEW tomb, Advance(p, tomb)
  PROVE  \/ arg[p].op # "set" /\ LastSlot(p) /\ Returned(p, "NotFound")
         \/ arg[p].op = "set" /\ LastSlot(p) /\ tomb = NoSlot /\ Returned(p, "Full")
         \/ arg[p].op = "set" /\ LastSlot(p) /\ tomb # NoSlot /\ Moved(p, "write_key", tomb)
         \/ ~LastSlot(p) /\ Moved(p, "probe", tomb)
  BY ReturnReturns, MoveOnMoves DEF Advance, EndOfScan

LEMMA MovesBeside ==
  ASSUME IInv, NEW p \in Procs,
         \/ \E l : Goto(p, l) \/ CopyThen(p, l)
         \/ \E r : Return(p, r)
         \/ \E tomb : Advance(p, tomb)
  PROVE  Beside(p)
<1>1. ASSUME NEW l, Goto(p, l) \/ CopyThen(p, l) PROVE Beside(p)
  BY <1>1, GotoJumps, CopyJumps DEF Jumped
<1>2. ASSUME NEW r, Return(p, r) PROVE Beside(p)
  BY <1>2, ReturnReturns DEF Returned
<1>3. ASSUME NEW tomb, Advance(p, tomb) PROVE Beside(p)
  BY <1>3, AdvanceMoves DEF Returned, Moved
<1> QED  BY <1>1, <1>2, <1>3

LEMMA StepBeside ==
  ASSUME IInv, NEW p \in Procs, Step(p) \/ Call(p) \/ Crash(p)
  PROVE  Beside(p) /\ \A q \in Procs : q # p => loaded'[q] = loaded[q]
<1>1. \A q \in Procs : q # p => loaded'[q] = loaded[q]
  <2>1. loaded' = loaded \/ \E v : loaded' = [loaded EXCEPT ![p] = v]
    BY DEF Step, ProbeEmpty, ProbeTombstone, ProbeOccupied, LoadFingerprint, LoadExpiry,
           ReadClock, Evict, CompareKey, ReadValue, UpdateValue, UpdateExpiry, DelCas,
           DelCount, WriteKey, WriteVal, WriteFp, WriteExp, Publish, CountInsert, FlushSlot,
           FlushCount, Reads, Other, Call, CallGet, CallSet, CallDel, CallFlush, Start, Crash
  <2>2. loaded \in [Procs -> Nat]
    BY DEF IInv, TypeOK
  <2> QED  BY <2>1, <2>2
<1>2. CASE Call(p)
  <2>1. PICK op, k, v, expiry : Start(p, op, k, v, expiry)
    BY <1>2 DEF Call, CallGet, CallSet, CallDel, CallFlush
  <2>2. Beside(p)
    BY <2>1 DEF Start, Beside, IInv, TypeOK
  <2> QED  BY <1>1, <2>2
<1>3. CASE Crash(p) \/ FlushCount(p) \/ CountInsert(p) \/ DelCount(p) \/ UpdateExpiry(p)
  BY <1>1, <1>3, MovesBeside DEF Crash, FlushCount, CountInsert, DelCount, UpdateExpiry
<1>4. CASE FlushSlot(p)
  BY <1>1, <1>4 DEF FlushSlot, Beside, IInv, TypeOK
<1>5. CASE ProbeEmpty(p) \/ ProbeTombstone(p) \/ ProbeOccupied(p) \/ LoadFingerprint(p)
  BY <1>1, <1>5, MovesBeside
     DEF ProbeEmpty, ProbeTombstone, PassTombstone, ProbeOccupied, LoadFingerprint, Continue
<1>6. CASE LoadExpiry(p) \/ ReadClock(p) \/ Evict(p) \/ CompareKey(p)
  BY <1>1, <1>6, MovesBeside DEF LoadExpiry, ReadClock, Evict, CompareKey, Continue
<1>7. CASE UpdateValue(p) \/ DelCas(p)
  BY <1>1, <1>7, MovesBeside DEF UpdateValue, DelCas, Continue
<1>8. CASE ReadValue(p)
  BY <1>1, <1>8, MovesBeside DEF ReadValue, CopyThen
<1>9. CASE WriteKey(p) \/ WriteVal(p) \/ WriteFp(p) \/ WriteExp(p) \/ Publish(p)
  BY <1>1, <1>9, MovesBeside DEF WriteKey, WriteVal, WriteFp, WriteExp, Publish
<1> QED  BY <1>2, <1>3, <1>4, <1>5, <1>6, <1>7, <1>8, <1>9 DEF Step

-----------------------------------------------------------------------------
(* An occupied slot is whole.                                              *)

\* A step that claims nothing: a slot is left as it was or freed.
Erodes ==
  /\ key_buf' = key_buf /\ fingerprint' = fingerprint
  /\ \A i \in Slots :
       \/ state'[i] = state[i]
       \/ state[i] = STATE_OCCUPIED /\ state'[i] = STATE_TOMBSTONE

\* A slot that is not OCCUPIED does not change, nor what is known of it.
LEMMA ErodesKeeps ==
  ASSUME IInv, WholeInv, Erodes, NEW p \in Procs, Beside(p),
         (Labelled(p) /\ Owned(p))'
  PROVE  WholeInv'
<1>1. OccupiedIsWhole'
  BY DEF WholeInv, OccupiedIsWhole, Erodes, STATE_OCCUPIED, STATE_TOMBSTONE, Slots
<1>2. ASSUME NEW q \in Procs, q # p PROVE (Labelled(q) /\ Owned(q))'
  <2>1. /\ pc'[q] = pc[q] /\ arg'[q] = arg[q] /\ first_tombstone'[q] = first_tombstone[q]
        /\ half'[q] = half[q] /\ Target(q)' = Target(q)
        /\ Labelled(q) /\ Owned(q) /\ (Active(q)' <=> Active(q))
    BY <1>2 DEF Beside, Target, Idx, WholeInv, Active
  <2>2. Labelled(q)'
    BY <2>1 DEF Labelled
  <2>3. Active(q) => Target(q) \in Slots
    BY SlotsInTable
  <2>4. first_tombstone[q] \in Slots \cup {NoSlot} /\ (pc[q] \in Claiming => Active(q))
    BY DEF IInv, TypeOK, Claiming, Active
  <2>5. Owned(q)'
    BY <2>1, <2>3, <2>4
       DEF Owned, Erodes, STATE_OCCUPIED, STATE_TOMBSTONE
  <2> QED  BY <2>2, <2>5
<1> QED  BY <1>1, <1>2 DEF WholeInv

\* A jump that begins no claim.
LEMMA JumpKeeps ==
  ASSUME IInv, WholeInv, Erodes, NEW p \in Procs, NEW l, NEW h, Jumped(p, l, h),
         Active(p), pc[p] # "count", l \notin Claiming \cup {"count", "idle", "flush"},
         l \in {"update", "update_exp"} => arg[p].op = "set",
         l \in {"expiry", "clock", "evict"} => arg[p].op \in {"get", "set"},
         l = "read" => arg[p].op = "get",
         l \in {"del", "del_count"} => arg[p].op = "del"
  PROVE  WholeInv'
<1>1. Labelled(p)'
  BY DEF WholeInv, Labelled, Jumped
<1>2. Owned(p)'
  <2>1. first_tombstone[p] \in Slots \cup {NoSlot}
    BY DEF IInv, TypeOK
  <2> QED
    BY <2>1 DEF WholeInv, Owned, Jumped, Erodes, Claiming, STATE_OCCUPIED, STATE_TOMBSTONE
<1> QED  BY <1>1, <1>2, ErodesKeeps DEF Jumped

\* A return forgets the candidate.
LEMMA ReturnKeeps ==
  ASSUME IInv, WholeInv, Erodes, NEW p \in Procs, NEW r, Returned(p, r)
  PROVE  WholeInv'
<1>1. Labelled(p)' /\ Owned(p)'
  BY DEF Returned, Labelled, Owned, Active, Claiming, NoArg
<1> QED  BY <1>1, ErodesKeeps DEF Returned

\* SET remembers a slot only as a tombstone.
LEMMA AdvanceKeeps ==
  ASSUME IInv, WholeInv, Erodes, NEW p \in Procs, Active(p), pc[p] # "count",
         NEW tomb \in {first_tombstone[p], Idx(p)}, Advance(p, tomb),
         tomb = first_tombstone[p] \/ state'[Idx(p)] = STATE_TOMBSTONE
  PROVE  WholeInv'
<1>1. CASE Returned(p, "NotFound") \/ Returned(p, "Full")
  BY <1>1, ReturnKeeps
<1>2. ASSUME NEW l \in {"probe", "write_key"}, Moved(p, l, tomb),
             l = "write_key" => arg[p].op = "set" /\ tomb # NoSlot
      PROVE  WholeInv'
  <2>1. Labelled(p)'
    BY <1>2 DEF WholeInv, Labelled, Moved, Claiming
  <2>2. first_tombstone[p] \in Slots \cup {NoSlot}
    BY DEF IInv, TypeOK
  <2>3. arg[p].op = "set" /\ tomb # NoSlot => state'[tomb] = STATE_TOMBSTONE
    BY <2>2 DEF WholeInv, Owned, Erodes, STATE_OCCUPIED, STATE_TOMBSTONE
  <2>4. l = "write_key" => Target(p)' = tomb
    BY <1>2 DEF Moved, Target
  <2>5. Owned(p)'
    BY <1>2, <2>3, <2>4 DEF Owned, Moved, Claiming, STATE_OCCUPIED, STATE_TOMBSTONE
  <2> QED  BY <1>2, <2>1, <2>5, ErodesKeeps DEF Moved
<1> QED  BY <1>1, <1>2, AdvanceMoves

\* A step that reads the slots only.
LEMMA ReadsErode == ASSUME UNCHANGED slotVars PROVE Erodes
  BY DEF Erodes, slotVars

LEMMA ProbeEmptyWhole ==
  ASSUME IInv, WholeInv, NEW p \in Procs, ProbeEmpty(p) PROVE WholeInv'
<1>1. /\ Erodes /\ Active(p) /\ UNCHANGED slotVars /\ pc[p] = "probe"
      /\ state[Idx(p)] = STATE_EMPTY
  BY ReadsErode DEF ProbeEmpty, Reads, Active
<1>2. CASE arg[p].op = "set" /\ Goto(p, "write_key")
  <2>1. Jumped(p, "write_key", 1)
    BY <1>2, GotoJumps
  <2>2. Target(p)' = Target(p)
    BY <2>1 DEF Jumped, Target, Idx
  <2>3. state[Target(p)] # STATE_OCCUPIED
    BY <1>1, <1>2
       DEF WholeInv, Owned, Target, STATE_OCCUPIED, STATE_TOMBSTONE, STATE_EMPTY
  <2>4. Labelled(p)'
    BY <1>2, <2>1 DEF WholeInv, Labelled, Jumped, Claiming
  <2>5. Owned(p)'
    BY <1>1, <1>2, <2>1, <2>2, <2>3 DEF WholeInv, Owned, Jumped, Claiming, slotVars
  <2> QED  BY <1>1, <2>1, <2>4, <2>5, ErodesKeeps DEF Jumped
<1>3. CASE Return(p, "NotFound")
  BY <1>1, <1>3, ReturnReturns, ReturnKeeps
<1> QED  BY <1>2, <1>3 DEF ProbeEmpty

LEMMA ProbeTombstoneWhole ==
  ASSUME IInv, WholeInv, NEW p \in Procs, ProbeTombstone(p) PROVE WholeInv'
<1>1. /\ Erodes /\ Active(p) /\ UNCHANGED slotVars /\ pc[p] # "count"
      /\ state'[Idx(p)] = STATE_TOMBSTONE
  BY ReadsErode DEF ProbeTombstone, Reads, Active, slotVars
<1> QED
  BY <1>1, CandidateIs, AdvanceKeeps DEF ProbeTombstone, PassTombstone, Continue

\* A step that frees no slot goes on or jumps within the scan.
LEMMA ScanWhole ==
  ASSUME IInv, WholeInv, NEW p \in Procs,
         \/ ProbeOccupied(p) \/ LoadFingerprint(p) \/ LoadExpiry(p) \/ ReadClock(p)
         \/ CompareKey(p)
  PROVE  WholeInv'
<1>1. Erodes /\ Active(p) /\ UNCHANGED slotVars /\ pc[p] # "count"
  BY ReadsErode DEF ProbeOccupied, LoadFingerprint, LoadExpiry, ReadClock, CompareKey,
     Reads, Active, slotVars
<1>2. ASSUME Continue(p) PROVE WholeInv'
  BY <1>1, <1>2, AdvanceKeeps DEF Continue
<1>3. ASSUME NEW l, Goto(p, l), l \in {"fp", "key", "clock", "evict", "expiry"},
             l \in {"expiry", "clock", "evict"} => arg[p].op \in {"get", "set"}
      PROVE  WholeInv'
  <2>1. Jumped(p, l, 1)
    BY <1>3, GotoJumps
  <2> QED  BY <1>1, <1>3, <2>1, JumpKeeps DEF Claiming
<1>4. ASSUME NEW l, CopyThen(p, l), pc[p] = "key",
             \/ l = "read" /\ arg[p].op = "get"
             \/ l = "update" /\ arg[p].op = "set"
             \/ l = "del" /\ arg[p].op = "del"
      PROVE  WholeInv'
  <2>1. Jumped(p, "key", 2) \/ Jumped(p, l, 1)
    BY <1>4, CopyJumps
  <2> QED  BY <1>1, <1>4, <2>1, JumpKeeps DEF Claiming
<1>5. arg[p].op \in {"get", "set", "del"} /\ Labelled(p)
  BY <1>1 DEF IInv, Busy, WholeInv
<1>6. CASE ProbeOccupied(p)
  BY <1>6, <1>3 DEF ProbeOccupied
<1>7. CASE LoadFingerprint(p)
  BY <1>7, <1>2, <1>3, <1>5 DEF LoadFingerprint
<1>8. CASE LoadExpiry(p) \/ ReadClock(p)
  BY <1>8, <1>3, <1>5 DEF LoadExpiry, ReadClock, Labelled
<1>9. CASE CompareKey(p)
  BY <1>9, <1>2, <1>4 DEF CompareKey
<1> QED  BY <1>6, <1>7, <1>8, <1>9

\* A compare-exchange from OCCUPIED.
LEMMA FreesErode ==
  ASSUME IInv, NEW i \in Slots, UNCHANGED <<fingerprint, key_buf>>,
         \/ state[i] = STATE_OCCUPIED /\ state' = Tombstoned(i)
         \/ state' = state
  PROVE  Erodes
  BY DEF IInv, TypeOK, Erodes, Tombstoned

LEMMA EvictWhole ==
  ASSUME IInv, WholeInv, NEW p \in Procs, Evict(p) PROVE WholeInv'
<1>1. /\ Active(p) /\ pc[p] # "count" /\ Idx(p) \in Slots
      /\ state[Idx(p)] # STATE_EMPTY
  BY InLoop, SlotsInTable DEF Evict, Active, Claiming, Examining
<1>2. Erodes
  BY <1>1, FreesErode DEF Evict
<1>3. state'[Idx(p)] = STATE_TOMBSTONE
  BY <1>1 DEF Evict, IInv, TypeOK, Tombstoned
<1> QED
  BY <1>1, <1>2, <1>3, CandidateIs, AdvanceKeeps, ReturnReturns, ReturnKeeps DEF Evict

LEMMA DelCasWhole ==
  ASSUME IInv, WholeInv, NEW p \in Procs, DelCas(p) PROVE WholeInv'
<1>1. Active(p) /\ pc[p] = "del" /\ Idx(p) \in Slots /\ arg[p].op = "del"
  BY SlotsInTable DEF DelCas, Active, WholeInv, Labelled
<1>2. Erodes
  BY <1>1, FreesErode DEF DelCas
<1>3. ASSUME Goto(p, "del_count") PROVE WholeInv'
  <2>1. Jumped(p, "del_count", 1)
    BY <1>3, GotoJumps
  <2> QED  BY <1>1, <1>2, <2>1, JumpKeeps DEF Claiming
<1> QED  BY <1>1, <1>2, <1>3, AdvanceKeeps DEF DelCas, Continue

LEMMA ReadValueWhole ==
  ASSUME IInv, WholeInv, NEW p \in Procs, ReadValue(p) PROVE WholeInv'
<1>1. Erodes /\ Active(p) /\ pc[p] = "read" /\ arg[p].op = "get"
  BY ReadsErode DEF ReadValue, Active, WholeInv, Labelled
<1>2. CASE half[p] = 1 /\ SecondHalf(p)
  <2>1. Jumped(p, "read", 2)
    BY <1>1, <1>2, CopyJumps DEF CopyThen
  <2> QED  BY <1>1, <2>1, JumpKeeps DEF Claiming
<1> QED  BY <1>1, <1>2, ReturnReturns, ReturnKeeps DEF ReadValue

LEMMA UpdateWhole ==
  ASSUME IInv, WholeInv, NEW p \in Procs, UpdateValue(p) \/ UpdateExpiry(p)
  PROVE  WholeInv'
<1>1. Erodes /\ Active(p) /\ pc[p] \in {"update", "update_exp"} /\ arg[p].op = "set"
  BY DEF UpdateValue, UpdateExpiry, Active, WholeInv, Labelled, Erodes
<1>2. CASE UpdateValue(p)
  <2>1. Jumped(p, "update", 2) \/ Jumped(p, "update_exp", 1)
    BY <1>2, CopyJumps DEF UpdateValue
  <2> QED  BY <1>1, <2>1, JumpKeeps DEF Claiming
<1> QED  BY <1>1, <1>2, ReturnReturns, ReturnKeeps DEF UpdateExpiry

LEMMA CountsWhole ==
  ASSUME IInv, WholeInv, NEW p \in Procs, DelCount(p) \/ CountInsert(p) PROVE WholeInv'
<1>1. Erodes
  BY ReadsErode DEF DelCount, CountInsert
<1> QED  BY <1>1, ReturnReturns, ReturnKeeps DEF DelCount, CountInsert

\* claim_slot goes on to its next store, when what Owned says of that is so.
LEMMA ClaimKeeps ==
  ASSUME OneSetter, IInv, WholeInv, NEW p \in Procs, pc[p] \in Claiming,
         NEW l \in Claiming, NEW h \in 1 .. 2, Jumped(p, l, h), state' = state,
         \A i \in Slots : i # Target(p) =>
           key_buf'[i] = key_buf[i] /\ fingerprint'[i] = fingerprint[i],
         l = "write_key" /\ h = 2 => key_buf'[Target(p)][1] = arg[p].key,
         l # "write_key" => key_buf'[Target(p)] = Both(arg[p].key),
         l \in {"write_exp", "publish"} => fingerprint'[Target(p)] = Fp[arg[p].key]
  PROVE  WholeInv'
<1>1. /\ Active(p) /\ arg[p].op = "set" /\ Labelled(p) /\ Owned(p)
      /\ Target(p) \in Slots /\ Target(p)' = Target(p) /\ pc[p] # "count"
  BY SlotsInTable DEF Claiming, Active, WholeInv, Labelled, Jumped, Target, Idx
<1>2. OccupiedIsWhole'
  BY <1>1 DEF WholeInv, OccupiedIsWhole, Owned, Slots
<1>3. Labelled(p)' /\ Owned(p)'
  BY <1>1 DEF Labelled, Owned, Jumped, Claiming
<1>4. ASSUME NEW q \in Procs, q # p PROVE Labelled(q)' /\ Owned(q)'
  <2>1. Labelled(q) /\ pc'[q] = pc[q] /\ arg'[q] = arg[q] /\ arg[q].op # "set"
    BY <1>1, <1>4 DEF WholeInv, Jumped, Beside, OneSetter, Labelled
  <2> QED  BY <2>1 DEF Labelled, Owned, Claiming
<1> QED  BY <1>2, <1>3, <1>4 DEF WholeInv

LEMMA WriteKeyWhole ==
  ASSUME OneSetter, IInv, WholeInv, NEW p \in Procs, WriteKey(p) PROVE WholeInv'
<1>1. /\ Active(p) /\ pc[p] = "write_key" /\ pc[p] \in Claiming
      /\ Target(p) \in Slots /\ half[p] \in 1 .. 2 /\ arg[p].key \in Keys
      /\ key_buf \in [Slots -> [1 .. 2 -> Keys \cup {NoKey}]]
      /\ key_buf' = [key_buf EXCEPT ![Target(p)][half[p]] = arg[p].key]
      /\ UNCHANGED <<state, fingerprint>>
  BY SlotsInTable DEF WriteKey, Active, Claiming, IInv, TypeOK
<1>2. \/ half[p] = 1 /\ Jumped(p, "write_key", 2)
      \/ half[p] = 2 /\ Jumped(p, "write_val", 1)
  BY <1>1, CopyJumps DEF WriteKey, After
<1>3. /\ \A i \in Slots : i # Target(p) => key_buf'[i] = key_buf[i]
      /\ key_buf'[Target(p)][half[p]] = arg[p].key
  BY <1>1
<1>4. CASE half[p] = 1 /\ Jumped(p, "write_key", 2)
  BY <1>1, <1>3, <1>4, ClaimKeeps
<1>5. CASE half[p] = 2 /\ Jumped(p, "write_val", 1)
  <2>1. key_buf'[Target(p)] = Both(arg[p].key)
    <3>1. key_buf[Target(p)][1] = arg[p].key
      BY <1>1, <1>5 DEF WholeInv, Owned
    <3>2. /\ key_buf[Target(p)] \in [1 .. 2 -> Keys \cup {NoKey}]
          /\ key_buf'[Target(p)] = [key_buf[Target(p)] EXCEPT ![2] = arg[p].key]
      BY <1>1, <1>5
    <3> QED  BY <3>1, <3>2 DEF Both
  <2>2. \A i \in Slots : i # Target(p) =>
          key_buf'[i] = key_buf[i] /\ fingerprint'[i] = fingerprint[i]
    BY <1>1, <1>3
  <2>3. pc[p] \in Claiming /\ state' = state
    BY <1>1
  <2> QED  BY <1>5, <2>1, <2>2, <2>3, ClaimKeeps DEF Claiming
<1> QED  BY <1>2, <1>4, <1>5

LEMMA WriteValWhole ==
  ASSUME OneSetter, IInv, WholeInv, NEW p \in Procs, WriteVal(p) PROVE WholeInv'
<1>1. /\ pc[p] = "write_val" /\ pc[p] \in Claiming
      /\ UNCHANGED <<state, key_buf, fingerprint>>
      /\ key_buf[Target(p)] = Both(arg[p].key)
  BY DEF WriteVal, Claiming, WholeInv, Owned
<1>2. Jumped(p, "write_val", 2) \/ Jumped(p, "write_fp", 1)
  BY <1>1, CopyJumps DEF WriteVal, After
<1> QED  BY <1>1, <1>2, ClaimKeeps DEF Claiming

LEMMA WriteFpWhole ==
  ASSUME OneSetter, IInv, WholeInv, NEW p \in Procs, WriteFp(p) PROVE WholeInv'
<1>1. /\ pc[p] = "write_fp" /\ pc[p] \in Claiming /\ Active(p)
      /\ UNCHANGED <<state, key_buf>> /\ Target(p) \in Slots
      /\ key_buf[Target(p)] = Both(arg[p].key)
      /\ fingerprint' = [fingerprint EXCEPT ![Target(p)] = Fp[arg[p].key]]
      /\ fingerprint \in [Slots -> Nat]
  BY SlotsInTable DEF WriteFp, Claiming, Active, WholeInv, Owned, IInv, TypeOK
<1>2. Jumped(p, "write_exp", 1)
  BY GotoJumps DEF WriteFp, After
<1>3. /\ \A i \in Slots : i # Target(p) => fingerprint'[i] = fingerprint[i]
      /\ fingerprint'[Target(p)] = Fp[arg[p].key]
  BY <1>1
<1> QED  BY <1>1, <1>2, <1>3, ClaimKeeps DEF Claiming

LEMMA WriteExpWhole ==
  ASSUME OneSetter, IInv, WholeInv, NEW p \in Procs, WriteExp(p) PROVE WholeInv'
<1>1. /\ pc[p] = "write_exp" /\ pc[p] \in Claiming
      /\ UNCHANGED <<state, key_buf, fingerprint>>
      /\ key_buf[Target(p)] = Both(arg[p].key)
      /\ fingerprint[Target(p)] = Fp[arg[p].key]
  BY DEF WriteExp, Claiming, WholeInv, Owned
<1>2. Jumped(p, "publish", 1)
  BY GotoJumps DEF WriteExp, After
<1> QED  BY <1>1, <1>2, ClaimKeeps DEF Claiming

LEMMA PublishWhole ==
  ASSUME OneSetter, IInv, WholeInv, NEW p \in Procs, Publish(p) PROVE WholeInv'
<1>1. /\ pc[p] = "publish" /\ Active(p) /\ arg[p].op = "set" /\ arg[p].key \in Keys
      /\ key_buf[Target(p)] = Both(arg[p].key)
      /\ fingerprint[Target(p)] = Fp[arg[p].key]
      /\ state' = [state EXCEPT ![Target(p)] = STATE_OCCUPIED]
      /\ UNCHANGED <<key_buf, fingerprint>> /\ Labelled(p)
      /\ state \in [Slots -> {STATE_EMPTY, STATE_OCCUPIED, STATE_TOMBSTONE}]
      /\ Jumped(p, "count", 1)
  BY SlotsInTable, GotoJumps
     DEF Publish, Claiming, Active, WholeInv, Labelled, Owned, IInv, TypeOK
<1>2. OccupiedIsWhole'
  BY <1>1 DEF WholeInv, OccupiedIsWhole, Slots
<1>3. Labelled(p)' /\ Owned(p)'
  BY <1>1 DEF Labelled, Owned, Jumped, Claiming
<1>4. ASSUME NEW q \in Procs, q # p PROVE Labelled(q)' /\ Owned(q)'
  <2>1. Labelled(q) /\ pc'[q] = pc[q] /\ arg'[q] = arg[q] /\ arg[q].op # "set"
    BY <1>1, <1>4 DEF WholeInv, Jumped, Beside, OneSetter, Labelled
  <2> QED  BY <2>1 DEF Labelled, Owned, Claiming
<1> QED  BY <1>2, <1>3, <1>4 DEF WholeInv

\* A call has claimed nothing yet.
LEMMA CallWhole ==
  ASSUME IInv, WholeInv, NEW p \in Procs, Call(p) PROVE WholeInv'
<1>1. PICK op, k, v, expiry : Start(p, op, k, v, expiry) /\ op \in OpNames
  BY DEF Call, CallGet, CallSet, CallDel, CallFlush, OpNames
<1>2. /\ pc[p] = "idle" /\ pc'[p] = (IF op = "flush" THEN "flush" ELSE "probe")
      /\ arg'[p].op = op /\ op \in Ops[p] /\ first_tombstone'[p] = NoSlot
      /\ UNCHANGED slotVars /\ Beside(p)
  BY <1>1 DEF Start, IInv, TypeOK, Resting, Beside
<1>3. Labelled(p)' /\ Owned(p)'
  BY <1>2 DEF Labelled, Owned, Claiming
<1> QED  BY <1>2, <1>3, ReadsErode, ErodesKeeps

\* FLUSH is alone: nobody owns a slot.
LEMMA FlushWhole ==
  ASSUME IInv, WholeInv, NEW p \in Procs, FlushSlot(p) \/ FlushCount(p) PROVE WholeInv'
<1>1. CASE FlushSlot(p)
  <2>1. /\ probe[p] \in Slots /\ \A q \in Procs : pc[q] \in {"idle", "flush"}
        /\ pc' = pc /\ arg' = arg
    BY <1>1, HashMapAssumption DEF FlushSlot, IInv, TypeOK, Exclusive, Slots
  <2>2. \A i \in Slots :
          \/ state'[i] = STATE_EMPTY
          \/ state'[i] = state[i] /\ key_buf'[i] = key_buf[i] /\ fingerprint'[i] = fingerprint[i]
    <3>1. state' = [state EXCEPT ![probe[p]] = STATE_EMPTY]
      BY <1>1 DEF FlushSlot
    <3>2. /\ key_buf' = [key_buf EXCEPT ![probe[p]] = Both(NoKey)]
          /\ fingerprint' = [fingerprint EXCEPT ![probe[p]] = 0]
      BY <1>1 DEF FlushSlot
    <3> QED  BY <2>1, <3>1, <3>2 DEF IInv, TypeOK
  <2>4. OccupiedIsWhole'
    BY <2>2 DEF WholeInv, OccupiedIsWhole, Slots, STATE_EMPTY, STATE_OCCUPIED
  <2>3. \A q \in Procs : Labelled(q)' /\ Owned(q)'
    BY <2>1 DEF WholeInv, Labelled, Owned, Active, Claiming
  <2> QED  BY <2>3, <2>4 DEF WholeInv
<1>2. CASE FlushCount(p)
  BY <1>2, ReadsErode, ReturnReturns, ReturnKeeps DEF FlushCount
<1> QED  BY <1>1, <1>2

LEMMA RestWhole ==
  ASSUME IInv, WholeInv, (\E p \in Procs : Crash(p)) \/ Tick \/ UNCHANGED vars
  PROVE  WholeInv'
<1>1. ASSUME NEW p \in Procs, Crash(p) PROVE WholeInv'
  BY <1>1, ReadsErode, ReturnReturns, ReturnKeeps DEF Crash
<1>2. CASE Tick \/ UNCHANGED vars
  <2>1. UNCHANGED <<slotVars, opVars>>
    BY <1>2 DEF Tick, vars
  <2> QED
    BY <2>1 DEF slotVars, opVars, WholeInv, OccupiedIsWhole, Labelled, Owned, Active, Target, Idx,
       Slots
<1> QED  BY <1>1, <1>2

LEMMA NextWhole ==
  ASSUME OneSetter, IInv, WholeInv, [Next]_vars PROVE WholeInv'
<1>1. ASSUME NEW p \in Procs, Step(p) PROVE WholeInv'
  BY <1>1, ProbeEmptyWhole, ProbeTombstoneWhole, ScanWhole, EvictWhole, ReadValueWhole,
     UpdateWhole, DelCasWhole, CountsWhole, WriteKeyWhole, WriteValWhole, WriteFpWhole,
     WriteExpWhole, PublishWhole, FlushWhole DEF Step
<1> QED  BY <1>1, CallWhole, RestWhole DEF Next

LEMMA InitWhole == ASSUME Init PROVE WholeInv
<1>1. OccupiedIsWhole
  BY DEF Init, OccupiedIsWhole, STATE_EMPTY, STATE_OCCUPIED
<1>2. ASSUME NEW p \in Procs PROVE Labelled(p) /\ Owned(p)
  BY DEF Init, Labelled, Owned, Active, Claiming, NoArg
<1> QED  BY <1>1, <1>2 DEF WholeInv

LEMMA WholeInvariance == ASSUME OneSetter PROVE Spec => []WholeInv
<1>1. Init => WholeInv
  BY InitWhole
<1>2. IInv /\ WholeInv /\ [Next]_vars => WholeInv'
  BY NextWhole
<1> QED  BY <1>1, <1>2, Invariance, PTL DEF Spec

\* With one process that sets, an OCCUPIED slot holds a whole key and its
\* fingerprint, whatever the others delete, evict and flush and whoever dies
\* in the middle of claim_slot.
THEOREM OccupiedWhole == ASSUME OneSetter PROVE Spec => []OccupiedIsWhole
<1>1. WholeInv => OccupiedIsWhole
  BY DEF WholeInv
<1> QED  BY <1>1, WholeInvariance, PTL

-----------------------------------------------------------------------------
(* A key has one entry.                                                    *)

\* A flush that died leaves broken chains, in which a set misses its own key.
FlushCompletes == \A p \in Procs \cap CanCrash : "flush" \notin Ops[p]

Holds(i, k) == state[i] = STATE_OCCUPIED /\ key_buf[i] = Both(k)

\* SET has not passed an entry of its key,
Scanned(p) ==
  Active(p) /\ arg[p].op = "set" /\ pc[p] \notin Claiming \cup {"count"} =>
    \A j \in 0 .. N - 1 : j < probe[p] => ~Holds(At(arg[p].key, j), arg[p].key)

\* and there is none while it claims a slot.
Absent(p) == pc[p] \in Claiming => \A i \in Slots : ~Holds(i, arg[p].key)

Wiped == wiping => \E p \in Procs : pc[p] = "flush"

UInv == UniqueKey /\ Wiped /\ \A p \in Procs : Scanned(p) /\ Absent(p)

\* No slot comes to hold a key.
NoNew == \A i \in Slots, k \in Keys : Holds(i, k)' => Holds(i, k)

LEMMA ErodesNoNew == ASSUME Erodes PROVE NoNew
  BY DEF Erodes, NoNew, Holds, STATE_OCCUPIED, STATE_TOMBSTONE

LEMMA NotWiping == ASSUME IInv, UInv, NEW p \in Procs, Active(p) PROVE wiping = FALSE
  BY DEF IInv, TypeOK, Exclusive, UInv, Wiped, Active

\* A step of a running operation that publishes nothing.
Quiet(p) == Active(p) /\ NoNew /\ wiping' = wiping

\* A step that publishes nothing.
LEMMA NoNewKeeps ==
  ASSUME IInv, WholeInv', UInv, NoNew, NEW p \in Procs, Beside(p),
         (Scanned(p) /\ Absent(p))', wiping' = FALSE
  PROVE  UInv'
<1>1. UniqueKey'
  <2> SUFFICES ASSUME NEW i \in Slots, NEW j \in Slots, i # j,
                      state'[i] = STATE_OCCUPIED, state'[j] = STATE_OCCUPIED,
                      key_buf'[i] = key_buf'[j]
               PROVE  FALSE
    BY DEF UniqueKey, Slots
  <2>1. PICK k \in Keys : key_buf'[i] = Both(k)
    BY DEF WholeInv, OccupiedIsWhole, Slots
  <2>2. Holds(i, k) /\ Holds(j, k)
    BY <2>1 DEF NoNew, Holds
  <2> QED  BY <2>2 DEF Holds, UInv, UniqueKey
<1>2. ASSUME NEW q \in Procs, q # p PROVE (Scanned(q) /\ Absent(q))'
  <2>1. pc'[q] = pc[q] /\ arg'[q] = arg[q] /\ probe'[q] = probe[q]
    BY <1>2 DEF Beside
  <2>2. Active(q) => arg[q].key \in Keys /\ \A j \in 0 .. N - 1 : At(arg[q].key, j) \in Slots
    BY SlotAt, HashMapAssumption DEF IInv, Busy
  <2>3. Scanned(q)'
    <3> SUFFICES ASSUME Active(q)', arg'[q].op = "set", pc'[q] \notin Claiming \cup {"count"},
                        NEW j \in 0 .. N - 1, j < probe'[q]
                 PROVE  ~Holds(At(arg[q].key, j), arg[q].key)'
      BY <2>1 DEF Scanned, Holds
    <3>1. Active(q) /\ ~Holds(At(arg[q].key, j), arg[q].key)
      BY <2>1 DEF UInv, Scanned, Active
    <3> QED  BY <3>1, <2>1, <2>2 DEF NoNew, Holds
  <2>4. Absent(q)'
    <3> SUFFICES ASSUME pc[q] \in Claiming, NEW i \in Slots
                 PROVE  ~Holds(i, arg[q].key)'
      BY <2>1 DEF Absent, Slots
    <3>1. Active(q) /\ ~Holds(i, arg[q].key)
      BY DEF UInv, Absent, Active, Claiming
    <3> QED  BY <3>1, <2>1, <2>2 DEF NoNew, Holds
  <2> QED  BY <2>3, <2>4
<1> QED  BY <1>1, <1>2 DEF UInv, Wiped

\* What p knows survives a jump,
LEMMA JumpUnique ==
  ASSUME IInv, WholeInv', UInv, NEW p \in Procs, Quiet(p), NEW l, NEW h, Jumped(p, l, h),
         l \in Claiming => pc[p] \in Claiming, pc[p] \in Claiming => l \in Claiming,
         pc[p] # "count"
  PROVE  UInv'
<1>1. /\ arg'[p] = arg[p] /\ probe'[p] = probe[p] /\ pc'[p] = l
      /\ arg[p].key \in Keys /\ \A j \in 0 .. N - 1 : At(arg[p].key, j) \in Slots
  BY SlotAt, HashMapAssumption DEF IInv, Busy, Jumped, Quiet
<1>2. Scanned(p)'
  <2> SUFFICES ASSUME arg[p].op = "set", l \notin Claiming \cup {"count"},
                      NEW j \in 0 .. N - 1, j < probe[p]
               PROVE  ~Holds(At(arg[p].key, j), arg[p].key)'
    BY <1>1 DEF Scanned, Holds
  <2>1. ~Holds(At(arg[p].key, j), arg[p].key)
    BY DEF UInv, Scanned, Quiet
  <2> QED  BY <2>1, <1>1 DEF NoNew, Holds, Quiet
<1>3. Absent(p)'
  BY <1>1 DEF UInv, Absent, NoNew, Holds, Slots, Quiet
<1> QED  BY <1>2, <1>3, NoNewKeeps, NotWiping DEF Jumped, Quiet

\* a return, which leaves nothing to know,
LEMMA ReturnUnique ==
  ASSUME IInv, WholeInv', UInv, NEW p \in Procs, Quiet(p), NEW r, Returned(p, r)
  PROVE  UInv'
<1>1. (Scanned(p) /\ Absent(p))'
  BY DEF Returned, Scanned, Absent, Active, Claiming
<1> QED  BY <1>1, NoNewKeeps, NotWiping DEF Returned, Quiet

\* and an iteration that has ruled its slot out.
LEMMA AdvanceUnique ==
  ASSUME IInv, WholeInv', UInv, NEW p \in Procs, Quiet(p),
         pc[p] \notin Claiming \cup {"count"},
         NEW tomb, Advance(p, tomb),
         arg[p].op = "set" /\ state'[Idx(p)] = STATE_OCCUPIED =>
           key_buf'[Idx(p)] # Both(arg[p].key)
  PROVE  UInv'
<1> USE DEF Quiet
<1>1. CASE Returned(p, "NotFound") \/ Returned(p, "Full")
  BY <1>1, ReturnUnique
<1>2. ASSUME NEW l \in {"probe", "write_key"}, Moved(p, l, tomb),
             l = "write_key" => LastSlot(p) /\ arg[p].op = "set"
      PROVE  UInv'
  <2>1. /\ arg'[p] = arg[p] /\ probe'[p] = probe[p] + 1 /\ pc'[p] = l
        /\ arg[p].key \in Keys /\ \A j \in 0 .. N - 1 : At(arg[p].key, j) \in Slots
        /\ probe[p] \in 0 .. N - 1
    <3>1. arg[p].key \in Keys /\ probe[p] < N /\ probe[p] \in 0 .. N /\ N \in Nat
      BY InLoop, HashMapAssumption DEF IInv, TypeOK, Busy
    <3> QED  BY <1>2, <3>1, SlotAt DEF Moved
  <2>2. ASSUME arg[p].op = "set", NEW j \in 0 .. N - 1, j < probe[p] + 1
        PROVE  ~Holds(At(arg[p].key, j), arg[p].key)'
    <3>1. CASE j = probe[p]
      BY <2>1, <2>2, <3>1 DEF Idx, Holds
    <3>2. CASE j < probe[p]
      <4>1. ~Holds(At(arg[p].key, j), arg[p].key)
        BY <2>2, <3>2 DEF UInv, Scanned
      <4> QED  BY <4>1, <2>1 DEF NoNew, Holds
    <3> QED  BY <2>1, <2>2, <3>1, <3>2
  <2>3. Scanned(p)'
    BY <2>1, <2>2 DEF Scanned, Holds
  <2>4. Absent(p)'
    <3> SUFFICES ASSUME l = "write_key", NEW i \in Slots, Holds(i, arg[p].key)'
                 PROVE  FALSE
      BY <2>1 DEF Absent, Holds, Slots, Claiming
    <3>1. Holds(i, arg[p].key)
      BY <2>1 DEF NoNew, Holds
    <3>0. key_buf[i][1] = arg[p].key
      BY <3>1 DEF Holds, Both
    <3>2. wiping = FALSE
      BY NotWiping
    <3>3. Reaches(arg[p].key, i)
      BY <3>0, <3>2, <2>1 DEF IInv, Placed
    <3>4. PICK o \in 0 .. N - 1 : i = At(arg[p].key, o)
      BY <3>3 DEF Reaches
    <3>5. o < probe[p] + 1 /\ arg[p].op = "set"
      BY <1>2, <2>1 DEF LastSlot
    <3> QED  BY <3>4, <3>5, <2>1, <2>2 DEF Holds
  <2> QED  BY <1>2, <2>3, <2>4, NoNewKeeps, NotWiping DEF Moved
<1> QED  BY <1>1, <1>2, AdvanceMoves

\* The steps that write no key leave every slot as it was or free it.
LEMMA MostErode ==
  ASSUME IInv, NEW p \in Procs,
         \/ ProbeEmpty(p) \/ ProbeTombstone(p) \/ ProbeOccupied(p)
         \/ LoadFingerprint(p) \/ LoadExpiry(p) \/ ReadClock(p) \/ CompareKey(p)
         \/ Evict(p) \/ DelCas(p) \/ ReadValue(p) \/ UpdateValue(p) \/ UpdateExpiry(p)
         \/ DelCount(p) \/ CountInsert(p)
  PROVE  Erodes
<1>1. ASSUME UNCHANGED <<state, key_buf, fingerprint>> PROVE Erodes
  BY <1>1 DEF Erodes
<1>2. CASE Evict(p) \/ DelCas(p)
  <2>1. Idx(p) \in Slots
    BY <1>2, SlotsInTable DEF Evict, DelCas, Active
  <2> QED  BY <1>2, <2>1, FreesErode DEF Evict, DelCas
<1> QED
  BY <1>1, <1>2
     DEF ProbeEmpty, ProbeTombstone, ProbeOccupied, LoadFingerprint, LoadExpiry, ReadClock,
         CompareKey, ReadValue, UpdateValue, UpdateExpiry, DelCount, CountInsert, Reads, slotVars

LEMMA MostQuiet ==
  ASSUME IInv, NEW p \in Procs,
         \/ ProbeEmpty(p) \/ ProbeTombstone(p) \/ ProbeOccupied(p)
         \/ LoadFingerprint(p) \/ LoadExpiry(p) \/ ReadClock(p) \/ CompareKey(p)
         \/ Evict(p) \/ DelCas(p) \/ ReadValue(p) \/ UpdateValue(p) \/ UpdateExpiry(p)
         \/ DelCount(p) \/ CountInsert(p)
  PROVE  Quiet(p)
<1>1. NoNew
  BY MostErode, ErodesNoNew
<1>2. Active(p) /\ wiping' = wiping
  BY DEF ProbeEmpty, ProbeTombstone, ProbeOccupied, LoadFingerprint, LoadExpiry, ReadClock,
         CompareKey, Evict, DelCas, ReadValue, UpdateValue, UpdateExpiry, DelCount,
         CountInsert, Reads, Other, Active
<1> QED  BY <1>1, <1>2 DEF Quiet

\* At an EMPTY slot the whole chain has been searched.
LEMMA ProbeEmptyUnique ==
  ASSUME IInv, WholeInv', UInv, NEW p \in Procs, ProbeEmpty(p) PROVE UInv'
<1>1. /\ Quiet(p) /\ Active(p) /\ pc[p] = "probe" /\ pc[p] \notin Claiming \cup {"count"}
      /\ state[Idx(p)] = STATE_EMPTY /\ UNCHANGED slotVars
      /\ wiping = FALSE /\ wiping' = wiping
  BY MostQuiet, NotWiping DEF ProbeEmpty, Quiet, Claiming, Reads
<1>2. CASE arg[p].op = "set" /\ Goto(p, "write_key")
  <2>1. Jumped(p, "write_key", 1)
    BY <1>2, GotoJumps
  <2>2. ASSUME NEW i \in Slots, Holds(i, arg[p].key) PROVE FALSE
    <3>1. key_buf[i][1] = arg[p].key /\ arg[p].key \in Keys /\ N \in Nat /\ probe[p] \in 0 .. N - 1
      <4>1. arg[p].key \in Keys /\ N \in Nat /\ probe[p] \in 0 .. N /\ probe[p] < N
        BY <1>1, SlotsInTable, InLoop
      <4> QED  BY <2>2, <4>1 DEF Holds, Both
    <3>2. Reaches(arg[p].key, i)
      BY <1>1, <3>1 DEF IInv, Placed
    <3>3. PICK o \in 0 .. N - 1 :
            /\ i = At(arg[p].key, o)
            /\ \A j \in 0 .. o - 1 : state[At(arg[p].key, j)] # STATE_EMPTY
      BY <3>2 DEF Reaches
    <3>4. CASE o < probe[p]
      BY <1>1, <1>2, <2>2, <3>3, <3>4 DEF UInv, Scanned
    <3>5. CASE o = probe[p]
      BY <1>1, <2>2, <3>3, <3>5 DEF Idx, Holds, STATE_EMPTY, STATE_OCCUPIED
    <3>6. CASE probe[p] < o
      BY <1>1, <3>1, <3>3, <3>6 DEF Idx
    <3> QED  BY <3>1, <3>4, <3>5, <3>6
  <2>3. Absent(p)'
    BY <1>1, <2>1, <2>2 DEF Absent, Jumped, Holds, Slots, slotVars
  <2>4. Scanned(p)'
    BY <2>1 DEF Scanned, Jumped, Claiming
  <2>5. Beside(p) /\ NoNew /\ wiping' = FALSE
    BY <1>1, <2>1 DEF Jumped, Quiet
  <2> QED  BY <2>3, <2>4, <2>5, NoNewKeeps
<1>3. CASE Return(p, "NotFound")
  BY <1>1, <1>3, ReturnReturns, ReturnUnique
<1> QED  BY <1>2, <1>3 DEF ProbeEmpty

\* An iteration rules its slot out by its state, its fingerprint or its key.
LEMMA ScanUnique ==
  ASSUME IInv, WholeInv, WholeInv', UInv, NEW p \in Procs,
         \/ ProbeTombstone(p) \/ ProbeOccupied(p) \/ LoadFingerprint(p) \/ LoadExpiry(p)
         \/ ReadClock(p) \/ Evict(p) \/ CompareKey(p) \/ DelCas(p)
  PROVE  UInv'
<1>1. /\ Quiet(p) /\ Active(p) /\ pc[p] \notin Claiming \cup {"count"}
      /\ Idx(p) \in Slots
  BY MostQuiet, SlotsInTable
     DEF Quiet, Claiming, ProbeTombstone, ProbeOccupied, LoadFingerprint, LoadExpiry,
         ReadClock, Evict, CompareKey, DelCas, Active
<1>2. ASSUME NEW tomb, Advance(p, tomb),
             \/ arg[p].op # "set"
             \/ state'[Idx(p)] # STATE_OCCUPIED
             \/ key_buf'[Idx(p)] # Both(arg[p].key)
      PROVE  UInv'
  BY <1>1, <1>2, AdvanceUnique
<1>3. ASSUME NEW l, Goto(p, l), l \notin Claiming PROVE UInv'
  <2>1. Jumped(p, l, 1)
    BY <1>3, GotoJumps
  <2> QED  BY <1>1, <1>3, <2>1, JumpUnique
<1>4. ASSUME NEW l, CopyThen(p, l), l \notin Claiming PROVE UInv'
  <2>1. Jumped(p, pc[p], 2) \/ Jumped(p, l, 1)
    BY <1>4, CopyJumps
  <2> QED  BY <1>1, <1>4, <2>1, JumpUnique
<1>5. CASE ProbeTombstone(p)
  <2>1. state'[Idx(p)] # STATE_OCCUPIED
    BY <1>5 DEF ProbeTombstone, Reads, slotVars, STATE_TOMBSTONE, STATE_OCCUPIED
  <2> QED  BY <1>2, <1>5, <2>1 DEF ProbeTombstone, PassTombstone, Continue
<1>6. CASE ProbeOccupied(p) \/ LoadExpiry(p) \/ ReadClock(p)
  BY <1>3, <1>6 DEF ProbeOccupied, LoadExpiry, ReadClock, Claiming
<1>7. CASE LoadFingerprint(p)
  <2>1. ASSUME Continue(p), fingerprint[Idx(p)] # Fp[arg[p].key] PROVE UInv'
    <3>1. ASSUME state'[Idx(p)] = STATE_OCCUPIED PROVE key_buf'[Idx(p)] # Both(arg[p].key)
      <4>1. state[Idx(p)] = STATE_OCCUPIED /\ key_buf' = key_buf
        BY <1>7, <3>1 DEF LoadFingerprint, Reads, slotVars
      <4>2. PICK k \in Keys : key_buf[Idx(p)] = Both(k) /\ fingerprint[Idx(p)] = Fp[k]
        BY <1>1, <4>1 DEF WholeInv, OccupiedIsWhole
      <4>3. Both(k)[1] = k /\ Both(arg[p].key)[1] = arg[p].key
        BY DEF Both
      <4> QED  BY <2>1, <4>1, <4>2, <4>3
    <3> QED  BY <1>2, <2>1, <3>1 DEF Continue
  <2> QED  BY <1>3, <1>7, <2>1 DEF LoadFingerprint, Claiming
<1>8. CASE Evict(p)
  <2>1. state'[Idx(p)] # STATE_OCCUPIED
    BY <1>1, <1>8 DEF Evict, IInv, TypeOK, Tombstoned, STATE_TOMBSTONE, STATE_OCCUPIED
  <2> QED  BY <1>1, <1>2, <1>8, <2>1, ReturnReturns, ReturnUnique DEF Evict
<1>9. CASE CompareKey(p)
  <2>1. ASSUME Continue(p), key_buf[Idx(p)][half[p]] # arg[p].key PROVE UInv'
    <3>1. key_buf'[Idx(p)] # Both(arg[p].key)
      BY <1>9, <2>1 DEF CompareKey, Reads, slotVars, Both, IInv, TypeOK
    <3> QED  BY <1>2, <2>1, <3>1 DEF Continue
  <2> QED  BY <1>4, <1>9, <2>1 DEF CompareKey, Claiming
<1>10. CASE DelCas(p)
  <2>1. arg[p].op # "set"
    BY <1>10 DEF DelCas, WholeInv, Labelled
  <2> QED  BY <1>2, <1>3, <1>10, <2>1 DEF DelCas, Continue, Claiming
<1> QED  BY <1>5, <1>6, <1>7, <1>8, <1>9, <1>10

LEMMA FoundUnique ==
  ASSUME IInv, WholeInv', UInv, NEW p \in Procs,
         ReadValue(p) \/ UpdateValue(p) \/ UpdateExpiry(p) \/ DelCount(p) \/ CountInsert(p)
  PROVE  UInv'
<1>1. Quiet(p)
  BY MostQuiet
<1>2. ASSUME Returned(p, "Found") \/ Returned(p, "Updated") \/ Returned(p, "Deleted")
               \/ Returned(p, "Inserted")
      PROVE  UInv'
  BY <1>1, <1>2, ReturnUnique
<1>3. CASE UpdateValue(p)
  <2>1. /\ Jumped(p, "update", 2) \/ Jumped(p, "update_exp", 1)
        /\ pc[p] \notin Claiming \cup {"count"}
    BY <1>3, CopyJumps DEF UpdateValue, Claiming
  <2> QED  BY <1>1, <2>1, JumpUnique DEF Claiming
<1>4. CASE ReadValue(p) /\ half[p] = 1 /\ SecondHalf(p)
  <2>1. /\ Jumped(p, "read", 2)
        /\ pc[p] \notin Claiming \cup {"count"}
    BY <1>4, CopyJumps DEF ReadValue, Claiming, CopyThen
  <2> QED  BY <1>1, <2>1, JumpUnique DEF Claiming
<1> QED
  BY <1>2, <1>3, <1>4, ReturnReturns DEF ReadValue, UpdateExpiry, DelCount, CountInsert

\* claim_slot writes to a slot that is not OCCUPIED.
LEMMA ClaimUnique ==
  ASSUME IInv, WholeInv, WholeInv', UInv, NEW p \in Procs,
         WriteKey(p) \/ WriteVal(p) \/ WriteFp(p) \/ WriteExp(p)
  PROVE  UInv'
<1>1. /\ Active(p) /\ pc[p] \in Claiming /\ state' = state /\ wiping' = wiping
      /\ state[Target(p)] # STATE_OCCUPIED /\ Target(p) \in Slots
  <2>1. Active(p) /\ pc[p] \in Claiming /\ state' = state /\ wiping' = wiping
    BY DEF WriteKey, WriteVal, WriteFp, WriteExp, Other, Active, Claiming
  <2> QED  BY <2>1, SlotsInTable DEF WholeInv, Owned
<1>2. \A i \in Slots : i # Target(p) => key_buf'[i] = key_buf[i]
  BY DEF WriteKey, WriteVal, WriteFp, WriteExp, IInv, TypeOK
<1>3. Quiet(p)
  BY <1>1, <1>2 DEF Quiet, NoNew, Holds
<1>4. ASSUME NEW l \in Claiming, NEW h, Jumped(p, l, h) PROVE UInv'
  BY <1>1, <1>3, <1>4, JumpUnique DEF Claiming
<1> QED
  BY <1>1, <1>4, CopyJumps, GotoJumps DEF WriteKey, WriteVal, WriteFp, WriteExp, After, Claiming

\* The one step that makes a slot hold a key.
LEMMA PublishUnique ==
  ASSUME OneSetter, IInv, WholeInv, WholeInv', UInv, NEW p \in Procs, Publish(p) PROVE UInv'
<1>1. /\ Active(p) /\ pc[p] \in Claiming /\ arg[p].op = "set" /\ arg[p].key \in Keys
      /\ key_buf' = key_buf /\ key_buf[Target(p)] = Both(arg[p].key) /\ Target(p) \in Slots
      /\ state' = [state EXCEPT ![Target(p)] = STATE_OCCUPIED]
      /\ wiping' = wiping /\ wiping = FALSE
      /\ \A i \in Slots : ~Holds(i, arg[p].key)
  <2>1. Active(p) /\ pc[p] = "publish" /\ pc[p] \in Claiming \ {"write_key"}
    BY DEF Publish, Active, Claiming
  <2> QED
    BY <2>1, SlotsInTable, NotWiping DEF Publish, Other, WholeInv, Owned, Labelled, UInv, Absent
<1>2. Jumped(p, "count", 1)
  BY GotoJumps DEF Publish
<1>3. \A i \in Slots : i # Target(p) => state'[i] = state[i]
  BY <1>1 DEF IInv, TypeOK
<1>4. UniqueKey'
  <2> SUFFICES ASSUME NEW i \in Slots, NEW j \in Slots, i # j, j # Target(p),
                      state'[i] = STATE_OCCUPIED, state'[j] = STATE_OCCUPIED,
                      key_buf[i] = key_buf[j]
               PROVE  FALSE
    BY <1>1 DEF UniqueKey, Slots
  <2>1. state[j] = STATE_OCCUPIED
    BY <1>3
  <2>2. CASE i = Target(p)
    BY <1>1, <2>1, <2>2 DEF Holds
  <2>3. CASE i # Target(p)
    BY <1>3, <2>1, <2>3 DEF UInv, UniqueKey
  <2> QED  BY <2>2, <2>3
<1>5. (Scanned(p) /\ Absent(p))'
  BY <1>2 DEF Jumped, Scanned, Absent, Claiming
<1>6. ASSUME NEW q \in Procs, q # p PROVE (Scanned(q) /\ Absent(q))'
  <2>1. /\ pc'[q] = pc[q] /\ arg'[q] = arg[q] /\ arg[q].op # "set" /\ Labelled(q)
    BY <1>1, <1>2, <1>6 DEF WholeInv, Jumped, Beside, OneSetter, Labelled
  <2> QED  BY <2>1 DEF Labelled, Scanned, Absent
<1> QED  BY <1>1, <1>4, <1>5, <1>6 DEF UInv, Wiped

LEMMA CallUnique ==
  ASSUME IInv, WholeInv', UInv, NEW p \in Procs, Call(p) PROVE UInv'
<1>1. PICK op, k, v, expiry : Start(p, op, k, v, expiry) /\ op \in OpNames
  BY DEF Call, CallGet, CallSet, CallDel, CallFlush, OpNames
<1>2. /\ pc[p] = "idle" /\ pc'[p] = (IF op = "flush" THEN "flush" ELSE "probe")
      /\ probe'[p] = 0 /\ UNCHANGED slotVars /\ Beside(p)
  BY <1>1 DEF Start, IInv, TypeOK, Resting, Beside
<1>3. (Scanned(p) /\ Absent(p))'
  BY <1>2, HashMapAssumption DEF Scanned, Absent, Claiming
<1>4. NoNew
  BY <1>2 DEF NoNew, Holds, slotVars
<1>5. CASE CallFlush(p)
  <2>1. pc'[p] = "flush" /\ wiping' = TRUE
    BY <1>5 DEF CallFlush, Start, IInv, TypeOK
  <2>2. \A q \in Procs : q # p => pc'[q] = "idle" /\ pc[q] = "idle"
    BY <1>2, <1>5 DEF CallFlush, Beside
  <2>3. \A q \in Procs : (Scanned(q) /\ Absent(q))'
    BY <1>3, <2>2 DEF Scanned, Absent, Active, Claiming
  <2>4. UniqueKey'
    BY <1>2 DEF UInv, UniqueKey, slotVars, Slots
  <2> QED  BY <2>1, <2>3, <2>4 DEF UInv, Wiped
<1>6. CASE ~CallFlush(p)
  <2>1. wiping' = FALSE
    BY <1>6 DEF Call, CallGet, CallSet, CallDel, NoFlush, UInv, Wiped, IInv, TypeOK
  <2> QED  BY <1>2, <1>3, <1>4, <2>1, NoNewKeeps
<1> QED  BY <1>5, <1>6

LEMMA FlushUnique ==
  ASSUME IInv, UInv, NEW p \in Procs, FlushSlot(p) \/ FlushCount(p) PROVE UInv'
<1>1. /\ pc[p] = "flush" /\ \A q \in Procs : pc'[q] \in {"idle", "flush"}
  BY DEF FlushSlot, FlushCount, Return, IInv, TypeOK, Exclusive
<1>2. \A q \in Procs : (Scanned(q) /\ Absent(q))'
  BY <1>1 DEF Scanned, Absent, Active, Claiming
<1>3. Wiped'
  BY <1>1 DEF FlushSlot, FlushCount, Wiped
<1>4. UniqueKey'
  <2>1. \A i \in Slots :
          \/ state'[i] = STATE_EMPTY
          \/ state'[i] = state[i] /\ key_buf'[i] = key_buf[i]
    BY DEF FlushSlot, FlushCount, slotVars, IInv, TypeOK
  <2> QED  BY <2>1 DEF UInv, UniqueKey, Slots, STATE_EMPTY, STATE_OCCUPIED
<1> QED  BY <1>2, <1>3, <1>4 DEF UInv

LEMMA CrashUnique ==
  ASSUME FlushCompletes, IInv, WholeInv, WholeInv', UInv, NEW p \in Procs, Crash(p)
  PROVE  UInv'
<1>1. Active(p)
  BY DEF Crash, Active, FlushCompletes, WholeInv, Labelled
<1>2. Quiet(p)
  BY <1>1 DEF Crash, Quiet, NoNew, Holds, slotVars
<1> QED  BY <1>2, ReturnReturns, ReturnUnique DEF Crash

LEMMA NextUnique ==
  ASSUME OneSetter, FlushCompletes, IInv, WholeInv, UInv, [Next]_vars PROVE UInv'
<1>1. WholeInv'
  BY NextWhole
<1>2. ASSUME NEW p \in Procs, Step(p) PROVE UInv'
  BY <1>1, <1>2, ProbeEmptyUnique, ScanUnique, FoundUnique, ClaimUnique, PublishUnique,
     FlushUnique DEF Step
<1>3. CASE Tick \/ UNCHANGED vars
  <2>1. UNCHANGED <<slotVars, opVars, wiping>>
    BY <1>3 DEF Tick, vars
  <2> QED
    BY <2>1 DEF slotVars, opVars, UInv, UniqueKey, Wiped, Scanned, Absent, Active, Holds, Slots
<1> QED  BY <1>1, <1>2, <1>3, CallUnique, CrashUnique DEF Next

LEMMA InitUnique == ASSUME Init PROVE UInv
  BY DEF Init, UInv, UniqueKey, Wiped, Scanned, Absent, Active, Claiming, STATE_EMPTY,
         STATE_OCCUPIED

LEMMA UniqueInvariance == ASSUME OneSetter, FlushCompletes PROVE Spec => []UInv
<1>1. Init => UInv
  BY InitUnique
<1>2. IInv /\ WholeInv /\ UInv /\ [Next]_vars => UInv'
  BY NextUnique
<1> QED  BY <1>1, <1>2, Invariance, WholeInvariance, PTL DEF Spec

\* With one process that sets, and no flush that dies, no key is in two
\* OCCUPIED slots: the tombstone set reuses, the slots others evict and delete
\* behind it, and a set that dies before its publish leave no second copy.
THEOREM OneEntry == ASSUME OneSetter, FlushCompletes PROVE Spec => []UniqueKey
<1>1. UInv => UniqueKey
  BY DEF UInv
<1> QED  BY <1>1, UniqueInvariance, PTL

-----------------------------------------------------------------------------
(* A fingerprint tells the key if keys have hashes of their own.            *)

\* Different keys have different hashes.
DistinctHashes == \A k, l \in Keys : Fp[k] = Fp[l] => k = l

\* An occupied slot with the fingerprint and hence the key of a call.
LEMMA PrintTells ==
  ASSUME DistinctHashes, WholeInv, NEW i \in Slots, NEW k \in Keys,
         state[i] = STATE_OCCUPIED, fingerprint[i] = Fp[k]
  PROVE  Holds(i, k)
  BY DEF WholeInv, OccupiedIsWhole, DistinctHashes, Holds

LEMMA KeyTells ==
  ASSUME WholeInv, NEW i \in Slots, NEW k \in Keys, Holds(i, k) PROVE fingerprint[i] = Fp[k]
<1>1. PICK l \in Keys : key_buf[i] = Both(l) /\ fingerprint[i] = Fp[l]
  BY DEF WholeInv, OccupiedIsWhole, Holds
<1>2. Both(l)[1] = l /\ Both(k)[1] = k
  BY DEF Both
<1> QED  BY <1>1, <1>2 DEF Holds

-----------------------------------------------------------------------------
(* The count is exact.                                                     *)

NoExpiry  == Ttls \subseteq {0}
NoCrashes == CanCrash = {}

\* Nothing expires,
Timeless ==
  /\ \A i \in Slots : expires_at[i] = 0
  /\ \A p \in Procs : arg[p].expiry = 0 /\ pc[p] \notin {"clock", "evict"}

\* and FLUSH has emptied the slots it passed.
Emptied ==
  \A p \in Procs : pc[p] = "flush" => \A i \in Slots : i < probe[p] => state[i] = STATE_EMPTY

CInv == Timeless /\ Emptied /\ CountExact

Where(l) == {p \in Procs : pc[p] = l}
Taken == {i \in Slots : state[i] = STATE_OCCUPIED}

Tally ==
  (used_count + Cardinality(Where("count"))) % Wrap
    = (Cardinality(Taken) + Cardinality(Where("del_count"))) % Wrap

LEMMA ModOf ==
  ASSUME NEW n \in Nat \ {0}, NEW q \in Int, NEW r \in 0 .. n - 1,
         NEW x \in Int, x = n * q + r
  PROVE  x % n = r
  OBVIOUS

\* A sum is reduced before or after.
LEMMA ModSum ==
  ASSUME NEW n \in Nat \ {0}, NEW u \in Int, NEW c \in Int
  PROVE  ((u % n) + c) % n = (u + c) % n
<1>1. PICK q \in Int, r \in Int : u = n * q + r /\ r = u % n
  <2>1. u = n * (u \div n) + (u % n) /\ u \div n \in Int /\ u % n \in Int
    OBVIOUS
  <2> QED  BY <2>1
<1>2. PICK t \in Int, s \in 0 .. n - 1 : r + c = n * t + s /\ s = (r + c) % n
  <2>1. /\ r + c = n * ((r + c) \div n) + ((r + c) % n)
        /\ (r + c) \div n \in Int /\ (r + c) % n \in 0 .. n - 1
    OBVIOUS
  <2> QED  BY <2>1
<1>3. PICK d \in Int : d = q + t
  OBVIOUS
<1>4. PICK x \in Int : x = u + c
  OBVIOUS
<1>5. x = n * d + s
  <2>0. u = n * q + r /\ r + c = n * t + s
    BY <1>1, <1>2
  <2>1. x = n * q + n * t + s
    BY <2>0, <1>4
  <2>2. n * (q + t) = n * q + n * t
    OBVIOUS
  <2> QED  BY <2>1, <2>2, <1>3
<1>6. x % n = s
  BY <1>5, ModOf
<1> QED BY <1>1, <1>2, <1>4, <1>6

\* fetch_sub(1), as an addition of 2^64 - 1, undoes fetch_add(1).
LEMMA ModBack ==
  ASSUME NEW n \in Nat \ {0}, NEW x \in Int PROVE (x + n - 1) % n = (x - 1) % n
<1>1. PICK q \in Int, r \in 0 .. n - 1 : x - 1 = n * q + r
  <2>1. /\ x - 1 = n * ((x - 1) \div n) + ((x - 1) % n)
        /\ (x - 1) \div n \in Int /\ (x - 1) % n \in 0 .. n - 1
    OBVIOUS
  <2> QED  BY <2>1
<1>2. x + n - 1 = n * (q + 1) + r
  BY <1>1
<1>3. (x + n - 1) % n = r /\ (x - 1) % n = r
  BY <1>1, <1>2, ModOf
<1> QED  BY <1>3

\* n successive integers have all the remainders.
LEMMA Residues ==
  ASSUME NEW n \in Nat \ {0}, NEW f \in Nat, NEW i \in 0 .. n - 1
  PROVE  \E j \in 0 .. n - 1 : (f + j) % n = i
<1> DEFINE r == f % n
           q == f \div n
<1>1. f = n * q + r /\ r \in 0 .. n - 1 /\ q \in Int
  OBVIOUS
<1> HIDE DEF r, q
<1>2. CASE i >= r
  <2>1. f + (i - r) = n * q + i /\ i - r \in 0 .. n - 1 /\ f + (i - r) \in Int
    BY <1>1, <1>2
  <2>2. (f + (i - r)) % n = i
    BY <2>1, <1>1, ModOf
  <2> QED  BY <2>1, <2>2
<1>3. CASE i < r
  <2>1. f + (i - r + n) = n * (q + 1) + i
    BY <1>1
  <2>2. i - r + n \in 0 .. n - 1 /\ f + (i - r + n) \in Int /\ q + 1 \in Int
    BY <1>1, <1>3
  <2>3. (f + (i - r + n)) % n = i
    BY <2>1, <2>2, <1>1, ModOf
  <2> QED  BY <2>2, <2>3
<1> QED  BY <1>1, <1>2, <1>3

\* Every slot is on the chain of every key.
LEMMA ChainCovers ==
  ASSUME NEW k \in Keys, NEW i \in Slots PROVE \E j \in 0 .. N - 1 : At(k, j) = i
<1>1. N \in Nat \ {0} /\ Fp[k] \in Nat /\ i \in 0 .. N - 1
  BY HashMapAssumption DEF Slots
<1> QED  BY <1>1, Residues DEF At

\* One process more or less at a label.
LEMMA WhereMoves ==
  ASSUME IsFiniteSet(Procs), NEW p \in Procs, Beside(p), NEW l
  PROVE  /\ Cardinality(Where(l)) \in Nat
         /\ pc[p] = l /\ pc'[p] # l =>
              Cardinality(Where(l)') = Cardinality(Where(l)) - 1
         /\ pc[p] # l /\ pc'[p] = l =>
              Cardinality(Where(l)') = Cardinality(Where(l)) + 1
         /\ (pc[p] = l <=> pc'[p] = l) => Where(l)' = Where(l)
<1>1. IsFiniteSet(Where(l)) /\ Cardinality(Where(l)) \in Nat
  BY FS_Subset, FS_CardinalityType DEF Where
<1>2. ASSUME pc[p] = l, pc'[p] # l PROVE Cardinality(Where(l)') = Cardinality(Where(l)) - 1
  <2>1. Where(l)' = Where(l) \ {p} /\ p \in Where(l)
    BY <1>2 DEF Where, Beside
  <2> QED  BY <1>1, <2>1, FS_RemoveElement
<1>3. ASSUME pc[p] # l, pc'[p] = l PROVE Cardinality(Where(l)') = Cardinality(Where(l)) + 1
  <2>1. Where(l)' = Where(l) \cup {p} /\ p \notin Where(l)
    BY <1>3 DEF Where, Beside
  <2> QED  BY <1>1, <2>1, FS_AddElement
<1>4. (pc[p] = l <=> pc'[p] = l) => Where(l)' = Where(l)
  BY DEF Where, Beside
<1> QED  BY <1>1, <1>2, <1>3, <1>4

LEMMA SlotsCount == IsFiniteSet(Slots) /\ Cardinality(Slots) = N
<1>1. 0 \in Int /\ N - 1 \in Int /\ ~(0 > N - 1) /\ (N - 1) - 0 + 1 = N
  BY HashMapAssumption
<1>2. /\ IsFiniteSet(0 .. N - 1)
      /\ Cardinality(0 .. N - 1) = IF 0 > N - 1 THEN 0 ELSE (N - 1) - 0 + 1
  BY <1>1, FS_Interval
<1> QED  BY <1>1, <1>2 DEF Slots

LEMMA TakenFinite == IsFiniteSet(Taken) /\ Cardinality(Taken) \in Nat
  BY SlotsCount, FS_Subset, FS_CardinalityType DEF Taken

\* What CountExact says, with the sets named.
LEMMA ExactIs ==
  CountExact <=> (~wiping /\ (\E i \in Slots : state[i] = STATE_EMPTY) => Tally)
  BY DEF CountExact, Tally, Where, Taken

\* A step that frees no slot, in terms of the count.
LEMMA TallyKeeps ==
  ASSUME CountExact, NothingFreed, wiping' = wiping, Tally => Tally'
  PROVE  CountExact'
<1>1. CountExact' <=> (~wiping' /\ (\E i \in Slots : state'[i] = STATE_EMPTY) => Tally')
  BY DEF CountExact, Tally, Where, Taken, Slots
<1> QED  BY <1>1, ExactIs DEF NothingFreed

\* Neither the count nor what it counts changes.
LEMMA TallySame ==
  ASSUME IsFiniteSet(Procs), NEW p \in Procs, Beside(p), used_count' = used_count,
         state' = state, pc[p] \notin {"count", "del_count"}, pc'[p] \notin {"count", "del_count"},
         Tally
  PROVE  Tally'
<1>1. Where("count")' = Where("count") /\ Where("del_count")' = Where("del_count")
  BY WhereMoves
<1>2. Taken' = Taken
  BY DEF Taken, Slots
<1> QED  BY <1>1, <1>2 DEF Tally

LEMMA TallyTypes ==
  ASSUME IInv
  PROVE  used_count \in Int /\ Wrap \in Nat \ {0}
  BY HashMapAssumption DEF IInv, TypeOK

\* A new entry is counted in the process until it is counted in the arena,
LEMMA TallyPublish ==
  ASSUME IsFiniteSet(Procs), IInv, WholeInv, NEW p \in Procs, Publish(p), Tally
  PROVE  Tally'
<1>1. /\ pc[p] = "publish" /\ Target(p) \in Slots /\ Target(p) \notin Taken
      /\ used_count' = used_count
  <2>1. Active(p) /\ pc[p] = "publish" /\ used_count' = used_count
    BY DEF Publish, Active, Other
  <2> QED  BY <2>1, SlotsInTable DEF WholeInv, Owned, Claiming, Taken
<1>2. Jumped(p, "count", 1)
  BY GotoJumps DEF Publish
<1>3. /\ Cardinality(Where("count")') = Cardinality(Where("count")) + 1
      /\ Where("del_count")' = Where("del_count")
      /\ Cardinality(Where("count")) \in Nat /\ Cardinality(Where("del_count")) \in Nat
  BY <1>1, <1>2, WhereMoves DEF Jumped
<1>4. Cardinality(Taken') = Cardinality(Taken) + 1
  <2>1. Taken' = Taken \cup {Target(p)}
    BY <1>1 DEF Publish, IInv, TypeOK, Taken, Slots
  <2> QED  BY <1>1, <2>1, TakenFinite, FS_AddElement
<1>5. ((used_count + Cardinality(Where("count"))) + 1) % Wrap
        = ((Cardinality(Taken) + Cardinality(Where("del_count"))) + 1) % Wrap
  <2> DEFINE x == used_count + Cardinality(Where("count"))
             y == Cardinality(Taken) + Cardinality(Where("del_count"))
  <2>1. x \in Int /\ y \in Int /\ 1 \in Int /\ Wrap \in Nat \ {0} /\ x % Wrap = y % Wrap
    BY <1>3, TallyTypes, TakenFinite DEF Tally
  <2> HIDE DEF x, y
  <2>2. (x + 1) % Wrap = ((x % Wrap) + 1) % Wrap
    BY <2>1, ModSum
  <2>3. (y + 1) % Wrap = ((y % Wrap) + 1) % Wrap
    BY <2>1, ModSum
  <2> QED  BY <2>1, <2>2, <2>3 DEF x, y
<1>6. /\ used_count + (Cardinality(Where("count")) + 1)
           = (used_count + Cardinality(Where("count"))) + 1
      /\ (Cardinality(Taken) + 1) + Cardinality(Where("del_count"))
           = (Cardinality(Taken) + Cardinality(Where("del_count"))) + 1
  BY <1>3, TallyTypes, TakenFinite
<1> QED  BY <1>1, <1>3, <1>4, <1>5, <1>6 DEF Tally

LEMMA TallyCountInsert ==
  ASSUME IsFiniteSet(Procs), IInv, NEW p \in Procs, CountInsert(p), Counts(p), Tally
  PROVE  Tally'
<1>1. pc[p] = "count" /\ used_count' = (used_count + 1) % Wrap /\ state' = state
  BY DEF CountInsert, slotVars
<1>2. Returned(p, "Inserted")
  BY ReturnReturns DEF CountInsert
<1>3. /\ Cardinality(Where("count")') = Cardinality(Where("count")) - 1
      /\ Where("del_count")' = Where("del_count") /\ Taken' = Taken
      /\ Cardinality(Where("count")) \in Nat
  BY <1>1, <1>2, WhereMoves DEF Returned, Taken, Slots
<1>4. (((used_count + 1) % Wrap) + (Cardinality(Where("count")) - 1)) % Wrap
        = ((used_count + 1) + (Cardinality(Where("count")) - 1)) % Wrap
  <2>1. used_count + 1 \in Int /\ Cardinality(Where("count")) - 1 \in Int
    BY <1>3, TallyTypes
  <2> QED  BY <2>1, TallyTypes, ModSum
<1>5. (used_count + 1) + (Cardinality(Where("count")) - 1)
        = used_count + Cardinality(Where("count"))
  BY <1>3, TallyTypes
<1> QED  BY <1>1, <1>3, <1>4, <1>5 DEF Tally

\* and a removed one until it is uncounted.
LEMMA TallyDelCas ==
  ASSUME IsFiniteSet(Procs), IInv, NEW p \in Procs, DelCas(p), Tally
  PROVE  Tally'
<1>1. pc[p] = "del" /\ Idx(p) \in Slots /\ used_count' = used_count
  BY SlotsInTable DEF DelCas, Active, Other
<1>2. CASE Goto(p, "del_count") /\ state[Idx(p)] = STATE_OCCUPIED /\ state' = Tombstoned(Idx(p))
  <2>1. Jumped(p, "del_count", 1)
    BY <1>2, GotoJumps
  <2>2. /\ Cardinality(Where("del_count")') = Cardinality(Where("del_count")) + 1
        /\ Where("count")' = Where("count")
        /\ Cardinality(Where("del_count")) \in Nat
    BY <1>1, <2>1, WhereMoves DEF Jumped
  <2>3. Cardinality(Taken') = Cardinality(Taken) - 1
    <3>1. Taken' = Taken \ {Idx(p)} /\ Idx(p) \in Taken
      BY <1>1, <1>2 DEF IInv, TypeOK, Taken, Slots, Tombstoned, STATE_OCCUPIED, STATE_TOMBSTONE
    <3> QED  BY <3>1, TakenFinite, FS_RemoveElement
  <2>4. (Cardinality(Taken) - 1) + (Cardinality(Where("del_count")) + 1)
          = Cardinality(Taken) + Cardinality(Where("del_count"))
    BY <2>2, TakenFinite
  <2> QED  BY <1>1, <2>2, <2>3, <2>4 DEF Tally
<1>3. CASE Continue(p) /\ UNCHANGED state
  <2>1. Beside(p) /\ pc'[p] \notin {"count", "del_count"}
    BY <1>3, AdvanceMoves DEF Continue, Returned, Moved
  <2> QED  BY <1>1, <1>3, <2>1, TallySame
<1> QED  BY <1>2, <1>3 DEF DelCas

LEMMA TallyDelCount ==
  ASSUME IsFiniteSet(Procs), IInv, NEW p \in Procs, DelCount(p), Tally
  PROVE  Tally'
<1> DEFINE a == Cardinality(Where("count"))
           b == Cardinality(Taken) + Cardinality(Where("del_count"))
<1>1. pc[p] = "del_count" /\ used_count' = (used_count + Wrap - 1) % Wrap /\ state' = state
  BY DEF DelCount, slotVars
<1>2. Returned(p, "Deleted")
  BY ReturnReturns DEF DelCount
<1>3. /\ Cardinality(Where("del_count")') = Cardinality(Where("del_count")) - 1
      /\ Where("count")' = Where("count") /\ Taken' = Taken
      /\ a \in Int /\ Cardinality(Where("del_count")) \in Int /\ b \in Int
      /\ used_count \in Int /\ Wrap \in Nat \ {0} /\ Cardinality(Taken) \in Int
  BY <1>1, <1>2, WhereMoves, TakenFinite, TallyTypes DEF Returned, Taken, Slots
<1>4. (used_count + a) % Wrap = b % Wrap
  BY DEF Tally
<1>5. Cardinality(Taken') + Cardinality(Where("del_count")') = b - 1
  BY <1>3
<1> HIDE DEF a, b
<1>6. (((used_count + Wrap - 1) % Wrap) + a) % Wrap = ((used_count + Wrap - 1) + a) % Wrap
  <2>1. used_count + Wrap - 1 \in Int
    BY <1>3
  <2> QED  BY <1>3, <2>1, ModSum
<1>7. (used_count + Wrap - 1) + a = (used_count + a) + Wrap - 1 /\ used_count + a \in Int
  BY <1>3
<1>8. ((used_count + a) + Wrap - 1) % Wrap = ((used_count + a) - 1) % Wrap
  BY <1>3, <1>7, ModBack
<1>9. ((used_count + a) + (-1)) % Wrap = (b + (-1)) % Wrap
  <2> DEFINE x == used_count + a
  <2>1. x \in Int /\ x % Wrap = b % Wrap /\ -1 \in Int /\ Wrap \in Nat \ {0}
    BY <1>3, <1>4, <1>7
  <2> HIDE DEF x
  <2>2. (x + (-1)) % Wrap = ((x % Wrap) + (-1)) % Wrap
    BY <2>1, ModSum
  <2>3. (b + (-1)) % Wrap = ((b % Wrap) + (-1)) % Wrap
    BY <1>3, <2>1, ModSum
  <2> QED  BY <2>1, <2>2, <2>3 DEF x
<1>10. (used_count + a) + (-1) = (used_count + a) - 1 /\ b + (-1) = b - 1
  BY <1>3, <1>7
<1>11. (used_count' + a) % Wrap = (b - 1) % Wrap
  BY <1>1, <1>6, <1>7, <1>8, <1>9, <1>10
<1> QED  BY <1>3, <1>5, <1>11 DEF Tally, a

LEMMA StepsKeep ==
  ASSUME IInv, NEW p \in Procs, Step(p), Active(p) PROVE Keeps(p)
  BY ProbeEmptyKeeps, ProbeTombstoneKeeps, ProbeOccupiedKeeps, LoadFingerprintKeeps,
     LoadExpiryKeeps, ReadClockKeeps, EvictKeeps, CompareKeyKeeps, ReadValueKeeps,
     UpdateValueKeeps, UpdateExpiryKeeps, DelCasKeeps, DelCountKeeps, WriteKeyKeeps,
     WriteValKeeps, WriteFpKeeps, WriteExpKeeps, PublishKeeps, CountInsertKeeps
     DEF Step, Active, FlushSlot, FlushCount

LEMMA RunningOrFlushing ==
  ASSUME NEW p \in Procs, Step(p) PROVE Active(p) \/ FlushSlot(p) \/ FlushCount(p)
  BY DEF Step, ProbeEmpty, ProbeTombstone, ProbeOccupied, LoadFingerprint, LoadExpiry,
         ReadClock, Evict, CompareKey, ReadValue, UpdateValue, UpdateExpiry, DelCas,
         DelCount, WriteKey, WriteVal, WriteFp, WriteExp, Publish, CountInsert, Active

\* The steps that neither begin nor end a change of the count.
LEMMA ScanTally ==
  ASSUME IsFiniteSet(Procs), IInv, WholeInv, NEW p \in Procs, Tally,
         \/ ProbeEmpty(p) \/ ProbeTombstone(p) \/ ProbeOccupied(p) \/ LoadFingerprint(p)
         \/ LoadExpiry(p) \/ CompareKey(p) \/ ReadValue(p) \/ UpdateValue(p)
         \/ UpdateExpiry(p) \/ WriteKey(p) \/ WriteVal(p) \/ WriteFp(p) \/ WriteExp(p)
  PROVE  Tally'
<1>1. /\ used_count' = used_count /\ state' = state
      /\ pc[p] \notin {"count", "del_count"}
  BY DEF ProbeEmpty, ProbeTombstone, ProbeOccupied, LoadFingerprint, LoadExpiry, CompareKey,
         ReadValue, UpdateValue, UpdateExpiry, WriteKey, WriteVal, WriteFp, WriteExp, Reads,
         Other, slotVars
<1>2. ASSUME NEW l, \/ Goto(p, l) \/ CopyThen(p, l), l \notin {"count", "del_count"}
      PROVE  Tally'
  <2>1. Beside(p) /\ pc'[p] \notin {"count", "del_count"}
    BY <1>1, <1>2, GotoJumps, CopyJumps DEF Jumped
  <2> QED  BY <1>1, <2>1, TallySame
<1>3. ASSUME NEW r, Return(p, r) PROVE Tally'
  <2>1. Beside(p) /\ pc'[p] \notin {"count", "del_count"}
    BY <1>3, ReturnReturns DEF Returned
  <2> QED  BY <1>1, <2>1, TallySame
<1>4. ASSUME NEW tomb, Advance(p, tomb) PROVE Tally'
  <2>1. Beside(p) /\ pc'[p] \notin {"count", "del_count"}
    BY <1>4, AdvanceMoves DEF Returned, Moved
  <2> QED  BY <1>1, <2>1, TallySame
<1>5. CASE ProbeEmpty(p) \/ ProbeTombstone(p)
  BY <1>2, <1>3, <1>4, <1>5 DEF ProbeEmpty, ProbeTombstone, PassTombstone, Continue
<1>6. CASE ProbeOccupied(p) \/ LoadFingerprint(p) \/ LoadExpiry(p)
  BY <1>2, <1>4, <1>6 DEF ProbeOccupied, LoadFingerprint, LoadExpiry, Continue
<1>7. CASE CompareKey(p) \/ UpdateValue(p) \/ UpdateExpiry(p)
  BY <1>2, <1>3, <1>4, <1>7 DEF CompareKey, UpdateValue, UpdateExpiry, Continue
<1>8. CASE ReadValue(p)
  BY <1>2, <1>3, <1>8 DEF ReadValue, CopyThen
<1>9. CASE WriteKey(p) \/ WriteVal(p) \/ WriteFp(p) \/ WriteExp(p)
  BY <1>2, <1>9 DEF WriteKey, WriteVal, WriteFp, WriteExp, After
<1> QED  BY <1>5, <1>6, <1>7, <1>8, <1>9

\* An insert that is not counted has found no EMPTY slot.
LEMMA CountInsertExact ==
  ASSUME IsFiniteSet(Procs), IInv, CountExact, NEW p \in Procs, CountInsert(p)
  PROVE  CountExact'
<1>1. Keeps(p) /\ Active(p) /\ wiping' = wiping
  BY CountInsertKeeps DEF CountInsert, Active
<1>2. CASE Counts(p)
  BY <1>1, <1>2, TallyCountInsert, TallyKeeps DEF Keeps
<1>3. CASE ~Counts(p)
  <2>1. probe[p] = N /\ arg[p].key \in Keys
    BY <1>1, <1>3, SlotsInTable DEF Counts
  <2>2. ASSUME NEW i \in Slots PROVE state'[i] # STATE_EMPTY
    <3>1. PICK j \in 0 .. N - 1 : At(arg[p].key, j) = i
      BY <2>1, ChainCovers
    <3>2. j < probe[p]
      BY <2>1, HashMapAssumption
    <3>3. state[i] # STATE_EMPTY
      BY <1>1, <3>1, <3>2 DEF IInv, Passed
    <3> QED  BY <1>1, <3>3 DEF Keeps, NothingFreed
  <2> QED  BY <2>2 DEF CountExact, Slots
<1> QED  BY <1>2, <1>3

LEMMA OpExact ==
  ASSUME IsFiniteSet(Procs), IInv, WholeInv, CInv, NEW p \in Procs, Step(p), Active(p)
  PROVE  CountExact'
<1>1. NothingFreed /\ wiping' = wiping /\ CountExact
  BY StepsKeep DEF Keeps, OpStep, CInv
<1>2. CASE Tally => Tally'
  BY <1>1, <1>2, TallyKeeps
<1>3. pc[p] \notin {"clock", "evict", "flush"}
  BY DEF CInv, Timeless, Active
<1>4. CASE CountInsert(p)
  BY <1>1, <1>4, CountInsertExact
<1> QED
  BY <1>2, <1>3, <1>4, ScanTally, TallyPublish, TallyDelCas, TallyDelCount
     DEF Step, ReadClock, Evict, FlushSlot, FlushCount

\* Only a ttl of zero is ever stored.
LEMMA TimelessKept ==
  ASSUME NoExpiry, IInv, Timeless, [Next]_vars PROVE Timeless'
<1> USE DEF Timeless
<1>1. /\ expires_at \in [Slots -> Nat] /\ pc \in [Procs -> Labels]
      /\ \A p \in Procs : arg[p].expiry = 0 /\ NoArg.expiry = 0
  BY DEF IInv, TypeOK, NoArg
<1>2. ASSUME NEW p \in Procs, Step(p), Active(p) PROVE Timeless'
  <2>1. Idx(p) \in Slots /\ Target(p) \in Slots
    BY <1>2, SlotsInTable
  <2>2. \A i \in Slots : expires_at'[i] = 0
    <3>1. expires_at' = expires_at \/ \E i \in Slots : expires_at' = [expires_at EXCEPT ![i] = 0]
      BY <1>1, <1>2, <2>1
         DEF Step, ProbeEmpty, ProbeTombstone, ProbeOccupied, LoadFingerprint, LoadExpiry,
             ReadClock, Evict, CompareKey, ReadValue, UpdateValue, UpdateExpiry, DelCas,
             DelCount, WriteKey, WriteVal, WriteFp, WriteExp, Publish, CountInsert, FlushSlot,
             FlushCount, Reads, slotVars, Active
    <3> QED  BY <1>1, <3>1
  <2>3. ASSUME NEW l, NEW h, Jumped(p, l, h), l \notin {"clock", "evict"} PROVE Timeless'
    BY <1>1, <2>2, <2>3 DEF Jumped, Beside, Slots
  <2>4. ASSUME NEW r, Return(p, r) PROVE Timeless'
    <3>1. Returned(p, r)
      BY <2>4, ReturnReturns
    <3> QED  BY <1>1, <2>2, <3>1 DEF Returned, Beside, Slots
  <2>5. ASSUME NEW tomb, Advance(p, tomb) PROVE Timeless'
    <3>1. ASSUME NEW l \in {"probe", "write_key"}, Moved(p, l, tomb) PROVE Timeless'
      BY <1>1, <2>2, <3>1 DEF Moved, Beside, Slots
    <3>2. ASSUME Returned(p, "NotFound") \/ Returned(p, "Full") PROVE Timeless'
      BY <1>1, <2>2, <3>2 DEF Returned, Beside, Slots
    <3> QED  BY <2>5, <3>1, <3>2, AdvanceMoves
  <2>6. ASSUME NEW l, Goto(p, l) \/ CopyThen(p, l), l \notin {"clock", "evict"} PROVE Timeless'
    <3>1. Jumped(p, l, 1) \/ Jumped(p, pc[p], 2)
      BY <2>6, GotoJumps, CopyJumps
    <3> QED  BY <2>3, <2>6, <3>1
  <2>7. CASE ProbeEmpty(p) \/ ProbeTombstone(p)
    BY <2>4, <2>5, <2>6, <2>7 DEF ProbeEmpty, ProbeTombstone, PassTombstone, Continue
  <2>8. CASE ProbeOccupied(p) \/ LoadFingerprint(p) \/ LoadExpiry(p)
    BY <2>1, <2>5, <2>6, <2>8 DEF ProbeOccupied, LoadFingerprint, LoadExpiry, Continue
  <2>9. CASE CompareKey(p) \/ UpdateValue(p) \/ UpdateExpiry(p)
    BY <2>4, <2>5, <2>6, <2>9 DEF CompareKey, UpdateValue, UpdateExpiry, Continue
  <2>10. CASE ReadValue(p)
    BY <2>4, <2>6, <2>10 DEF ReadValue, CopyThen
  <2>11. CASE WriteKey(p) \/ WriteVal(p) \/ WriteFp(p) \/ WriteExp(p) \/ Publish(p)
    BY <2>6, <2>11 DEF WriteKey, WriteVal, WriteFp, WriteExp, Publish, After
  <2>12. CASE DelCas(p) \/ DelCount(p) \/ CountInsert(p)
    BY <2>4, <2>5, <2>6, <2>12 DEF DelCas, DelCount, CountInsert, Continue
  <2>13. ~(ReadClock(p) \/ Evict(p) \/ FlushSlot(p) \/ FlushCount(p))
    BY <1>2 DEF ReadClock, Evict, FlushSlot, FlushCount, Active
  <2> QED
    BY <1>2, <2>7, <2>8, <2>9, <2>10, <2>11, <2>12, <2>13 DEF Step
<1>3. ASSUME NEW p \in Procs, Call(p) PROVE Timeless'
  <2>1. PICK op, k, v : Start(p, op, k, v, 0)
    BY <1>3 DEF Call, CallGet, CallSet, CallDel, CallFlush, OpNames, TtlToExpiry, NoExpiry
  <2> QED  BY <1>1, <2>1 DEF Start, slotVars, IInv, TypeOK, Slots
<1>4. ASSUME NEW p \in Procs, FlushSlot(p) \/ FlushCount(p) PROVE Timeless'
  <2>1. \A i \in Slots : expires_at'[i] = 0
    BY <1>1, <1>4 DEF FlushSlot, FlushCount, slotVars
  <2>2. \A q \in Procs : pc'[q] \in {"idle", "flush"} /\ arg'[q].expiry = 0
    BY <1>1, <1>4 DEF FlushSlot, FlushCount, Return, IInv, TypeOK, Exclusive
  <2> QED  BY <2>1, <2>2 DEF Slots
<1>5. ASSUME NEW p \in Procs, Crash(p) PROVE Timeless'
  <2>1. Returned(p, "Crashed") /\ expires_at' = expires_at
    BY <1>5, ReturnReturns DEF Crash, slotVars
  <2> QED  BY <1>1, <2>1 DEF Returned, Beside, Slots
<1>6. CASE Tick \/ UNCHANGED vars
  <2>1. UNCHANGED <<slotVars, opVars>>
    BY <1>6 DEF Tick, vars
  <2> QED  BY <2>1 DEF slotVars, opVars, Slots
<1> QED  BY <1>2, <1>3, <1>4, <1>5, <1>6, RunningOrFlushing DEF Next

LEMMA EmptiedKept ==
  ASSUME NoCrashes, IInv, CInv, [Next]_vars PROVE Emptied'
<1>1. ASSUME NEW p \in Procs, Step(p), Active(p) PROVE Emptied'
  <2>1. OpStep(p)
    BY <1>1, StepsKeep DEF Keeps
  <2>2. \A q \in Procs : pc'[q] # "flush"
    BY <2>1 DEF OpStep, Stays, Steps, Ends, IInv, Exclusive, Active
  <2> QED  BY <2>2 DEF Emptied
<1>2. ASSUME NEW p \in Procs, Call(p) PROVE Emptied'
  <2>1. /\ probe'[p] = 0 /\ state' = state
        /\ \A q \in Procs : q # p => pc'[q] = pc[q] /\ probe'[q] = probe[q]
    BY <1>2 DEF Call, CallGet, CallSet, CallDel, CallFlush, Start, slotVars, IInv, TypeOK, Resting
  <2> QED  BY <2>1 DEF CInv, Emptied, Slots
<1>3. ASSUME NEW p \in Procs, FlushSlot(p) PROVE Emptied'
  <2>1. /\ state' = [state EXCEPT ![probe[p]] = STATE_EMPTY]
        /\ probe' = [probe EXCEPT ![p] = @ + 1] /\ pc' = pc /\ pc[p] = "flush"
    BY <1>3 DEF FlushSlot
  <2>2. \A q \in Procs : q # p => pc'[q] # "flush"
    BY <2>1 DEF IInv, Exclusive
  <2>3. \A i \in Slots : i < probe'[p] => state'[i] = STATE_EMPTY
    BY <2>1, HashMapAssumption DEF CInv, Emptied, IInv, TypeOK, Slots
  <2> QED  BY <2>2, <2>3 DEF Emptied, Slots
<1>4. ASSUME NEW p \in Procs, FlushCount(p) PROVE Emptied'
  <2>1. \A q \in Procs : pc'[q] # "flush"
    BY <1>4 DEF FlushCount, Return, IInv, TypeOK, Exclusive
  <2> QED  BY <2>1 DEF Emptied
<1>5. CASE Tick \/ UNCHANGED vars
  <2>1. UNCHANGED <<state, pc, probe>>
    BY <1>5 DEF Tick, vars, slotVars, opVars
  <2> QED  BY <2>1 DEF CInv, Emptied, Slots
<1>6. \A p \in Procs : ~Crash(p)
  BY DEF Crash, NoCrashes
<1> QED  BY <1>1, <1>2, <1>3, <1>4, <1>5, <1>6, RunningOrFlushing DEF Next

\* A flush that has completed has emptied every slot, and nobody counts.
LEMMA FlushExact ==
  ASSUME IInv, CInv, NEW p \in Procs, FlushSlot(p) \/ FlushCount(p) PROVE CountExact'
<1>1. CASE FlushSlot(p)
  <2>1. wiping'
    BY <1>1 DEF FlushSlot, Other, IInv, Exclusive
  <2> QED  BY <2>1 DEF CountExact
<1>2. CASE FlushCount(p)
  <2>1. \A q \in Procs : pc'[q] \notin {"count", "del_count"}
    BY <1>2 DEF FlushCount, Return, IInv, TypeOK, Exclusive
  <2>2. \A i \in Slots : state'[i] = STATE_EMPTY
    BY <1>2, HashMapAssumption DEF FlushCount, CInv, Emptied, slotVars, Slots
  <2>3. Where("count")' = {} /\ Where("del_count")' = {} /\ Taken' = {}
    BY <2>1, <2>2 DEF Where, Taken, Slots, STATE_EMPTY, STATE_OCCUPIED
  <2>4. used_count' = 0 /\ Cardinality({}) = 0
    BY <1>2, FS_EmptySet DEF FlushCount
  <2>5. Tally'
    BY <2>3, <2>4 DEF Tally
  <2> QED  BY <2>5 DEF CountExact, Tally, Where, Taken, Slots
<1> QED  BY <1>1, <1>2

LEMMA CallExact ==
  ASSUME IsFiniteSet(Procs), IInv, CInv, NEW p \in Procs, Call(p) PROVE CountExact'
<1>1. CASE CallFlush(p)
  BY <1>1 DEF CallFlush, CountExact
<1>2. CASE ~CallFlush(p)
  <2>1. PICK op, k, v, expiry :
          op \in {"get", "set", "del"} /\ Start(p, op, k, v, expiry) /\ UNCHANGED wiping
    BY <1>2 DEF Call, CallGet, CallSet, CallDel
  <2>2. /\ pc[p] = "idle" /\ pc'[p] = "probe" /\ state' = state /\ used_count' = used_count
        /\ Beside(p) /\ wiping' = wiping
    BY <2>1 DEF Start, slotVars, IInv, TypeOK, Beside
  <2>3. Tally => Tally'
    BY <2>2, TallySame
  <2>4. NothingFreed
    BY <2>2 DEF NothingFreed
  <2> QED  BY <2>2, <2>3, <2>4, TallyKeeps DEF CInv
<1> QED  BY <1>1, <1>2

LEMMA NextCounted ==
  ASSUME NoExpiry, NoCrashes, IsFiniteSet(Procs), IInv, WholeInv, CInv, [Next]_vars
  PROVE  CInv'
<1>1. CountExact'
  <2>1. CASE Tick \/ UNCHANGED vars
    <3>1. UNCHANGED <<slotVars, opVars, used_count, wiping>>
      BY <2>1 DEF Tick, vars
    <3> QED  BY <3>1 DEF slotVars, opVars, CInv, CountExact, Slots
  <2>2. \A p \in Procs : ~Crash(p)
    BY DEF Crash, NoCrashes
  <2> QED  BY <2>1, <2>2, OpExact, FlushExact, CallExact, RunningOrFlushing DEF Next
<1> QED  BY <1>1, TimelessKept, EmptiedKept DEF CInv

LEMMA InitCounted == ASSUME Init PROVE CInv
<1>1. Where("count") = {} /\ Where("del_count") = {} /\ Taken = {} /\ used_count = 0
  BY DEF Init, Where, Taken, STATE_EMPTY, STATE_OCCUPIED
<1>2. Cardinality({}) = 0
  BY FS_EmptySet
<1>3. Tally
  BY <1>1, <1>2 DEF Tally
<1>4. CountExact
  BY <1>3, ExactIs
<1>5. Timeless /\ Emptied
  BY DEF Init, Timeless, Emptied, NoArg
<1> QED  BY <1>4, <1>5 DEF CInv

\* While a slot was never used, used_count is the number of OCCUPIED slots but
\* for the operations between their store and their fetch_add or fetch_sub,
\* modulo 2^64: with one process that sets, nobody that dies and nothing that
\* expires, whatever the others delete and flush.
THEOREM ExactCount ==
  ASSUME OneSetter, NoExpiry, NoCrashes, IsFiniteSet(Procs)
  PROVE  Spec => []CountExact
<1>1. Init => CInv
  BY InitCounted
<1>2. IInv /\ WholeInv /\ CInv /\ [Next]_vars => CInv'
  BY NextCounted
<1>3. CInv => CountExact
  BY DEF CInv
<1> QED  BY <1>1, <1>2, <1>3, Invariance, WholeInvariance, PTL DEF Spec

-----------------------------------------------------------------------------
(* A call takes a bounded number of steps.                                 *)

\* The rank of each label, as numbers.
LEMMA Ranks ==
  /\ Rank["probe"] = 13 /\ Rank["fp"] = 12 /\ Rank["expiry"] = 11 /\ Rank["clock"] = 10
  /\ Rank["evict"] = 9 /\ Rank["key"] = 9
  /\ Rank["read"] = 8 /\ Rank["update"] = 8 /\ Rank["del"] = 8
  /\ Rank["update_exp"] = 7 /\ Rank["del_count"] = 7
  /\ Rank["write_key"] = 6 /\ Rank["write_val"] = 5 /\ Rank["write_fp"] = 4
  /\ Rank["write_exp"] = 3 /\ Rank["publish"] = 2 /\ Rank["count"] = 1
  BY DEF Rank

LEMMA RankIn ==
  ASSUME NEW l \in Scanning \cup Claiming PROVE Rank[l] \in 1 .. 13
  BY Ranks DEF Scanning, Claiming

\* StepsLeft as a function of what it reads.
LeftAt(l, i, h) ==
  CASE l = "idle"  -> 0
    [] l = "flush" -> N - i + 1
    [] OTHER       -> 26 * (N - i) + 2 * Rank[l] + 1 - h

LEMMA LeftIs ==
  /\ \A i, h : LeftAt("idle", i, h) = 0
  /\ \A i, h : LeftAt("flush", i, h) = N - i + 1
  /\ \A i, h : \A l \in Scanning \cup Claiming :
       LeftAt(l, i, h) = 26 * (N - i) + 2 * Rank[l] + 1 - h
  BY DEF LeftAt, Scanning, Claiming

LEMMA StepsLeftIs ==
  ASSUME NEW p \in Procs
  PROVE  /\ StepsLeft(p) = LeftAt(pc[p], probe[p], half[p])
         /\ StepsLeft(p)' = LeftAt(pc'[p], probe'[p], half'[p])
  BY DEF StepsLeft, LeftAt

\* It is never more than a visit to every slot and one more.
LEMMA LeftBounded ==
  ASSUME NEW l \in Labels, NEW i \in 0 .. N, NEW h \in 1 .. 2
  PROVE  /\ LeftAt(l, i, h) \in 0 .. 26 * (N + 1)
         /\ l # "idle" => LeftAt(l, i, h) > 0
<1>1. N \in Nat
  BY HashMapAssumption
<1>2. CASE l \in {"idle", "flush"}
  BY <1>1, <1>2, LeftIs
<1>3. CASE l \in Scanning \cup Claiming
  BY <1>1, <1>3, LeftIs, RankIn
<1> QED  BY <1>2, <1>3 DEF Labels

\* What a step of an operation does to its place in the code: on to a label of
\* lower rank, the second half of a copy, the next slot, or the end.
Nearer(p) ==
  \/ \E l \in Scanning \cup Claiming : Jumped(p, l, 1) /\ Rank[l] < Rank[pc[p]]
  \/ half[p] = 1 /\ Jumped(p, pc[p], 2)
  \/ probe[p] < N /\ \E l \in {"probe", "write_key"} : \E t : Moved(p, l, t)
  \/ \E r : Returned(p, r)

LEMMA NearerShortens ==
  ASSUME IInv, IInv', NEW p \in Procs, Active(p), Nearer(p)
  PROVE  StepsLeft(p)' < StepsLeft(p)
<1>1. /\ N \in Nat /\ probe[p] \in 0 .. N /\ half[p] \in 1 .. 2
      /\ pc[p] \in Scanning \cup Claiming
  BY HashMapAssumption DEF IInv, TypeOK, Labels, Active
<1>2. /\ Rank[pc[p]] \in 1 .. 13
      /\ StepsLeft(p) = 26 * (N - probe[p]) + 2 * Rank[pc[p]] + 1 - half[p]
  BY <1>1, RankIn, LeftIs, StepsLeftIs
<1>3. ASSUME NEW l \in Scanning \cup Claiming, Jumped(p, l, 1), Rank[l] < Rank[pc[p]]
      PROVE  StepsLeft(p)' < StepsLeft(p)
  <2>1. StepsLeft(p)' = 26 * (N - probe[p]) + 2 * Rank[l] + 1 - 1 /\ Rank[l] \in 1 .. 13
    BY <1>3, LeftIs, StepsLeftIs, RankIn DEF Jumped
  <2> QED  BY <2>1, <1>1, <1>2, <1>3
<1>4. CASE half[p] = 1 /\ Jumped(p, pc[p], 2)
  <2>1. StepsLeft(p)' = 26 * (N - probe[p]) + 2 * Rank[pc[p]] + 1 - 2
    BY <1>1, <1>4, LeftIs, StepsLeftIs DEF Jumped
  <2> QED  BY <2>1, <1>1, <1>2, <1>4
<1>5. ASSUME NEW l \in {"probe", "write_key"}, NEW t, Moved(p, l, t)
      PROVE  StepsLeft(p)' < StepsLeft(p)
  <2>1. l \in Scanning \cup Claiming
    BY DEF Scanning, Claiming
  <2>2. StepsLeft(p)' = 26 * (N - (probe[p] + 1)) + 2 * Rank[l] + 1 - 1
    BY <2>1, <1>5, LeftIs, StepsLeftIs DEF Moved
  <2>3. Rank[l] \in 1 .. 13
    BY <2>1, RankIn
  <2> QED  BY <2>2, <2>3, <1>1, <1>2
<1>6. ASSUME NEW r, Returned(p, r) PROVE StepsLeft(p)' < StepsLeft(p)
  <2>1. StepsLeft(p)' = 0
    BY <1>6, LeftIs, StepsLeftIs DEF Returned
  <2> QED  BY <2>1, <1>1, <1>2
<1> QED  BY <1>3, <1>4, <1>5, <1>6 DEF Nearer

\* The moves of HashMap bring an operation nearer to its end.
LEMMA GotoNearer ==
  ASSUME IInv, NEW p \in Procs, NEW l \in Scanning \cup Claiming, Goto(p, l),
         Rank[l] < Rank[pc[p]]
  PROVE  Nearer(p)
  BY GotoJumps DEF Nearer

LEMMA CopyNearer ==
  ASSUME IInv, NEW p \in Procs, NEW l \in Scanning \cup Claiming, CopyThen(p, l),
         Rank[l] < Rank[pc[p]]
  PROVE  Nearer(p)
  BY CopyJumps DEF Nearer

LEMMA ReturnNearer ==
  ASSUME IInv, NEW p \in Procs, NEW r, Return(p, r) PROVE Nearer(p)
  BY ReturnReturns DEF Nearer

LEMMA AdvanceNearer ==
  ASSUME IInv, NEW p \in Procs, probe[p] < N, NEW tomb, Advance(p, tomb)
  PROVE  Nearer(p)
  BY AdvanceMoves DEF Nearer

\* The steps of the scan,
LEMMA ScanNearer ==
  ASSUME IInv, NEW p \in Procs,
         \/ ProbeEmpty(p) \/ ProbeTombstone(p) \/ ProbeOccupied(p)
         \/ LoadFingerprint(p) \/ LoadExpiry(p) \/ ReadClock(p) \/ Evict(p)
  PROVE  Active(p) /\ Nearer(p)
<1>1. Active(p) /\ pc[p] \notin Claiming \cup {"count"}
  BY DEF ProbeEmpty, ProbeTombstone, ProbeOccupied, LoadFingerprint, LoadExpiry,
         ReadClock, Evict, Active, Claiming
<1>2. probe[p] < N
  BY <1>1, InLoop
<1> SUFFICES Nearer(p)
  BY <1>1
<1>3. CASE ProbeEmpty(p)
  <2>1. "write_key" \in Scanning \cup Claiming /\ Rank["write_key"] < Rank[pc[p]]
    BY <1>3, Ranks DEF ProbeEmpty, Claiming
  <2> QED  BY <2>1, <1>3, GotoNearer, ReturnNearer DEF ProbeEmpty
<1>4. CASE ProbeTombstone(p)
  BY <1>2, <1>4, AdvanceNearer DEF ProbeTombstone, PassTombstone, Continue
<1>5. CASE ProbeOccupied(p)
  <2>1. "fp" \in Scanning \cup Claiming /\ Rank["fp"] < Rank[pc[p]]
    BY <1>5, Ranks DEF ProbeOccupied, Scanning
  <2> QED  BY <2>1, <1>5, GotoNearer DEF ProbeOccupied
<1>6. CASE LoadFingerprint(p)
  <2>1. \A l \in {"key", "expiry"} :
          l \in Scanning \cup Claiming /\ Rank[l] < Rank[pc[p]]
    BY <1>6, Ranks DEF LoadFingerprint, Scanning
  <2> QED
    BY <2>1, <1>2, <1>6, GotoNearer, AdvanceNearer DEF LoadFingerprint, Continue
<1>7. CASE LoadExpiry(p)
  <2>1. \A l \in {"key", "clock"} :
          l \in Scanning \cup Claiming /\ Rank[l] < Rank[pc[p]]
    BY <1>7, Ranks DEF LoadExpiry, Scanning
  <2> QED  BY <2>1, <1>7, GotoNearer DEF LoadExpiry
<1>8. CASE ReadClock(p)
  <2>1. \A l \in {"key", "evict"} :
          l \in Scanning \cup Claiming /\ Rank[l] < Rank[pc[p]]
    BY <1>8, Ranks DEF ReadClock, Scanning
  <2> QED  BY <2>1, <1>8, GotoNearer DEF ReadClock
<1>9. CASE Evict(p)
  BY <1>2, <1>9, ReturnNearer, AdvanceNearer DEF Evict
<1> QED  BY <1>3, <1>4, <1>5, <1>6, <1>7, <1>8, <1>9

\* those on the key it found,
LEMMA FoundNearer ==
  ASSUME IInv, NEW p \in Procs,
         \/ CompareKey(p) \/ ReadValue(p) \/ UpdateValue(p) \/ UpdateExpiry(p)
         \/ DelCas(p) \/ DelCount(p)
  PROVE  Active(p) /\ Nearer(p)
<1>1. Active(p) /\ pc[p] \notin Claiming \cup {"count"}
  BY DEF CompareKey, ReadValue, UpdateValue, UpdateExpiry, DelCas, DelCount, Active, Claiming
<1>2. probe[p] < N
  BY <1>1, InLoop
<1> SUFFICES Nearer(p)
  BY <1>1
<1>3. CASE CompareKey(p)
  <2>1. \A l \in {"read", "update", "del"} :
          l \in Scanning \cup Claiming /\ Rank[l] < Rank[pc[p]]
    BY <1>3, Ranks DEF CompareKey, Scanning
  <2> QED  BY <2>1, <1>2, <1>3, CopyNearer, AdvanceNearer DEF CompareKey, Continue
<1>4. CASE ReadValue(p)
  <2>1. CASE half[p] = 1 /\ SecondHalf(p)
    <3>1. CopyThen(p, pc[p])
      BY <2>1 DEF CopyThen
    <3>2. Jumped(p, pc[p], 2)
      BY <2>1, <3>1, CopyJumps
    <3> QED  BY <2>1, <3>2 DEF Nearer
  <2> QED  BY <2>1, <1>4, ReturnNearer DEF ReadValue
<1>5. CASE UpdateValue(p)
  <2>1. "update_exp" \in Scanning \cup Claiming /\ Rank["update_exp"] < Rank[pc[p]]
    BY <1>5, Ranks DEF UpdateValue, Scanning
  <2> QED  BY <2>1, <1>5, CopyNearer DEF UpdateValue
<1>6. CASE DelCas(p)
  <2>1. "del_count" \in Scanning \cup Claiming /\ Rank["del_count"] < Rank[pc[p]]
    BY <1>6, Ranks DEF DelCas, Scanning
  <2> QED  BY <2>1, <1>2, <1>6, GotoNearer, AdvanceNearer DEF DelCas, Continue
<1>7. CASE UpdateExpiry(p) \/ DelCount(p)
  BY <1>7, ReturnNearer DEF UpdateExpiry, DelCount
<1> QED  BY <1>3, <1>4, <1>5, <1>6, <1>7

\* and those of claim_slot.
LEMMA ClaimNearer ==
  ASSUME IInv, NEW p \in Procs,
         \/ WriteKey(p) \/ WriteVal(p) \/ WriteFp(p) \/ WriteExp(p) \/ Publish(p)
         \/ CountInsert(p)
  PROVE  Active(p) /\ Nearer(p)
<1>1. Active(p)
  BY DEF WriteKey, WriteVal, WriteFp, WriteExp, Publish, CountInsert, Active
<1>2. /\ {"write_val", "write_fp", "write_exp", "publish", "count"}
            \subseteq Scanning \cup Claiming
      /\ After.write_key = "write_val" /\ After.write_val = "write_fp"
      /\ After.write_fp = "write_exp" /\ After.write_exp = "publish"
  BY DEF Scanning, Claiming, After
<1> SUFFICES Nearer(p)
  BY <1>1
<1>3. CASE WriteKey(p)
  <2>1. Rank["write_val"] < Rank[pc[p]]
    BY <1>3, Ranks DEF WriteKey
  <2> QED  BY <2>1, <1>2, <1>3, CopyNearer DEF WriteKey
<1>4. CASE WriteVal(p)
  <2>1. Rank["write_fp"] < Rank[pc[p]]
    BY <1>4, Ranks DEF WriteVal
  <2> QED  BY <2>1, <1>2, <1>4, CopyNearer DEF WriteVal
<1>5. CASE WriteFp(p)
  <2>1. Rank["write_exp"] < Rank[pc[p]]
    BY <1>5, Ranks DEF WriteFp
  <2> QED  BY <2>1, <1>2, <1>5, GotoNearer DEF WriteFp
<1>6. CASE WriteExp(p)
  <2>1. Rank["publish"] < Rank[pc[p]]
    BY <1>6, Ranks DEF WriteExp
  <2> QED  BY <2>1, <1>2, <1>6, GotoNearer DEF WriteExp
<1>7. CASE Publish(p)
  <2>1. Rank["count"] < Rank[pc[p]]
    BY <1>7, Ranks DEF Publish
  <2> QED  BY <2>1, <1>2, <1>7, GotoNearer DEF Publish
<1>8. CASE CountInsert(p)
  BY <1>8, ReturnNearer DEF CountInsert
<1> QED  BY <1>3, <1>4, <1>5, <1>6, <1>7, <1>8

\* FLUSH has a slot less to empty, or is done.
LEMMA FlushShortens ==
  ASSUME IInv, NEW p \in Procs, FlushSlot(p) \/ FlushCount(p)
  PROVE  StepsLeft(p)' < StepsLeft(p)
<1>1. N \in Nat /\ probe[p] \in 0 .. N /\ probe \in [Procs -> 0 .. N]
  BY HashMapAssumption DEF IInv, TypeOK
<1>2. StepsLeft(p) = N - probe[p] + 1
  BY LeftIs, StepsLeftIs DEF FlushSlot, FlushCount
<1>3. CASE FlushSlot(p)
  <2>1. pc'[p] = "flush" /\ probe'[p] = probe[p] + 1
    BY <1>1, <1>3 DEF FlushSlot
  <2>2. StepsLeft(p)' = N - (probe[p] + 1) + 1
    BY <2>1, LeftIs, StepsLeftIs
  <2> QED  BY <2>2, <1>1, <1>2
<1>4. CASE FlushCount(p)
  <2>1. pc'[p] = "idle"
    BY <1>4 DEF FlushCount, Return, IInv, TypeOK
  <2>2. StepsLeft(p)' = 0
    BY <2>1, LeftIs, StepsLeftIs
  <2> QED  BY <2>2, <1>1, <1>2
<1> QED  BY <1>3, <1>4

LEMMA StepShortens ==
  ASSUME IInv, IInv', NEW p \in Procs, Step(p) PROVE StepsLeft(p)' < StepsLeft(p)
  BY ScanNearer, FoundNearer, ClaimNearer, FlushShortens, NearerShortens DEF Step

LEMMA StepsLeftBounded ==
  ASSUME NEW p \in Procs
  PROVE  /\ IInv => StepsLeft(p) \in 0 .. 26 * (N + 1)
         /\ IInv' => StepsLeft(p)' \in 0 .. 26 * (N + 1)
<1>1. IInv => pc[p] \in Labels /\ probe[p] \in 0 .. N /\ half[p] \in 1 .. 2
  BY DEF IInv, TypeOK
<1>2. IInv' => pc'[p] \in Labels /\ probe'[p] \in 0 .. N /\ half'[p] \in 1 .. 2
  BY DEF IInv, TypeOK
<1> QED  BY <1>1, <1>2, LeftBounded, StepsLeftIs

\* Whoever steps, a running call is no further from its end than before.
LEMMA NobodyLengthens ==
  ASSUME IInv, IInv', [Next]_vars, NEW p \in Procs, pc[p] # "idle"
  PROVE  StepsLeft(p)' <= StepsLeft(p)
<1>1. StepsLeft(p) \in Nat
  <2>1. StepsLeft(p) \in 0 .. 26 * (N + 1) /\ N \in Nat
    BY StepsLeftBounded, HashMapAssumption
  <2> QED  BY <2>1
<1>2. CASE UNCHANGED <<pc, probe, half>>
  BY <1>1, <1>2, StepsLeftIs
<1>3. ASSUME NEW q \in Procs, Call(q) \/ Step(q) \/ Crash(q)
      PROVE  StepsLeft(p)' <= StepsLeft(p)
  <2>1. CASE q # p
    <3>1. pc'[p] = pc[p] /\ probe'[p] = probe[p] /\ half'[p] = half[p]
      BY <1>3, <2>1, StepBeside DEF Beside
    <3> QED  BY <3>1, <1>1, StepsLeftIs
  <2>2. CASE q = p /\ Step(p)
    <3>1. StepsLeft(p)' < StepsLeft(p)
      BY <2>2, StepShortens
    <3>2. StepsLeft(p)' \in 0 .. 26 * (N + 1) /\ N \in Nat
      BY StepsLeftBounded, HashMapAssumption
    <3> QED  BY <3>1, <3>2, <1>1
  <2>3. CASE q = p /\ Crash(p)
    <3>1. pc'[p] = "idle"
      BY <2>3 DEF Crash, Return, IInv, TypeOK
    <3> QED  BY <3>1, <1>1, LeftIs, StepsLeftIs
  <2>4. ~Call(p)
    BY DEF Call, CallGet, CallSet, CallDel, CallFlush, Start
  <2> QED  BY <1>3, <2>1, <2>2, <2>3, <2>4
<1> QED  BY <1>2, <1>3 DEF Next, Tick, vars, opVars

\* Wait-freedom without a scheduler: no call takes more than 26 (N + 1) steps of
\* its own process, for any table size and whatever the other processes do.
THEOREM CallsBounded == Spec => StepsBounded
<1>1. ASSUME IInv, [Next]_vars
      PROVE  [\A p \in Procs :
                /\ StepsLeft(p) \in 0 .. 26 * (N + 1)
                /\ Step(p) => StepsLeft(p)' < StepsLeft(p)
                /\ pc[p] # "idle" => StepsLeft(p)' <= StepsLeft(p)]_vars
  <2>1. IInv'
    BY <1>1, NextKeepsInv
  <2>2. ASSUME NEW p \in Procs PROVE StepsLeft(p) \in 0 .. 26 * (N + 1)
    BY <1>1, StepsLeftBounded
  <2> QED  BY <1>1, <2>1, <2>2, StepShortens, NobodyLengthens
<1> QED  BY <1>1, Invariance, PTL DEF Spec, StepsBounded

=============================================================================
