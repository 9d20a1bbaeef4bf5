---------------------------- MODULE ArenaProofs ----------------------------
(***************************************************************************)
(* Proofs about Arena for any number of processes, slots and lengths of    *)
(* values: the type invariant, that whoever has an arena has memory behind *)
(* it, that an arena created undisturbed is sound and stays so, that its   *)
(* entries are kept, and what ml_get tells.                                *)
(***************************************************************************)
EXTENDS Arena, FiniteSetTheorems, TLAPS

Opening(p) == pc[p] \in {"size", "map", "header", "init", "rest", "check"}
Wiping(p) == pc[p] \in {"init", "rest"}
Writing(p) == pc[p] \in {"copy", "length", "publish"}
Flushing(p) == pc[p] \in {"flush", "flush_count"}
Using(p) == Writing(p) \/ Flushing(p) \/ pc[p] \in {"count", "del_count"}

\* Where a process is in its call, what it has and what is in the region.
Control ==
  \A p \in Procs :
    /\ Opening(p) => ~handle[p]
    /\ Using(p) => handle[p]
    /\ pc[p] = "map" \/ Creating(p) \/ handle[p] => region = "sized"
    /\ handle[p] => "magic" \in header
    /\ pc[p] = "header" => \A j \in 1 .. 3 : j < at[p] => Fields[j] \in header
    /\ Wiping(p) => header = Checked

\* A creator that nobody has joined is the only one to hold or write an arena.
Alone ==
  alone # NoProc =>
    /\ Creating(alone)
    /\ \A q \in Procs \ {alone} : ~handle[q] /\ ~Creating(q)

\* What it has wiped is empty still.
Wiped ==
  alone # NoProc /\ Wiping(alone) =>
    /\ used_count = 0
    /\ \A i \in Slots :
         i < at[alone] \/ (i = at[alone] /\ pc[alone] = "rest") => state[i] = STATE_EMPTY

\* A FLUSH is left alone, and what it has emptied is empty still.
Emptied ==
  \A p \in Procs : Flushing(p) =>
    /\ \A q \in Procs \ {p} : pc[q] = "idle"
    /\ \A i \in Slots : pc[p] = "flush_count" \/ i < at[p] => state[i] = STATE_EMPTY

\* Beside a sound arena nothing is created and nothing flushed.
Quiet ==
  /\ sound => alone = NoProc /\ \A q \in Procs : ~Creating(q) /\ ~Flushing(q)
  /\ ~sound => lost = 0 /\ \A p \in Procs : kept[p] = Nothing

\* A SET in a sound arena is at the entry it overwrites, or at a free slot.
AtSlot(p) ==
  /\ key[Home[p]]
  /\ scan[p] = "key" => /\ state[Home[p]] = STATE_OCCUPIED
                        /\ kept[p] \in {Torn, Nothing} /\ pc[p] # "publish"
  /\ scan[p] # "key" => state[Home[p]] # STATE_OCCUPIED /\ scan[p] = "empty"
  /\ pc[p] # "copy" => bytes[Home[p]] = at[p]
  /\ pc[p] = "publish" => len[Home[p]] = at[p]

\* In a sound arena only the slots of the keys are used.
Used ==
  sound =>
    /\ \A i \in Slots \ Homes : state[i] = STATE_EMPTY
    /\ \A p \in Procs : Writing(p) => AtSlot(p)

Data == Wiped /\ Emptied /\ Used /\ SoundArena /\ EntriesKept

IInv == TypeOK /\ Control /\ Alone /\ Quiet /\ Data

-----------------------------------------------------------------------------
LEMMA InitHolds == Init => IInv
<1> SUFFICES ASSUME Init PROVE IInv
  OBVIOUS
<1>1. TypeOK
  <2>1. /\ used_count \in 0 .. Wrap - 1 /\ header \subseteq Checked /\ lost \in 0 .. Wrap - 1
        /\ state \in [Slots -> {STATE_EMPTY, STATE_OCCUPIED, STATE_TOMBSTONE}]
        /\ at \in [Procs -> Nat]
    BY ArenaAssumption DEF Init
  <2>2. /\ handle \in [Procs -> BOOLEAN] /\ sound \in BOOLEAN
        /\ pc \in [Procs -> Labels] /\ scan \in [Procs -> {"none", "key", "empty", "last"}]
        /\ key \in [Slots -> BOOLEAN] /\ bytes \in [Slots -> Lengths \cup {Torn}]
        /\ len \in [Slots -> Lengths \cup {0}]
        /\ kept \in [Procs -> Lengths \cup {Torn, Nothing}]
    BY DEF Init, Labels
  <2>3. /\ region \in {"absent", "empty", "sized"} /\ alone \in Procs \cup {NoProc}
        /\ \A p \in Procs : pc[p] = "idle"
    BY DEF Init
  <2> QED  BY <2>1, <2>2, <2>3 DEF TypeOK
<1>2. Control
  BY DEF Init, Control, Opening, Using, Writing, Flushing, Creating, Wiping
<1>3. Alone /\ Quiet /\ Data
  BY DEF Init, Alone, Quiet, Data, Wiped, Emptied, Flushing, Used, SoundArena, EntriesKept
<1> QED  BY <1>1, <1>2, <1>3 DEF IInv

(* How a process moves.                                                    *)

\* The part of TypeOK that is about processes.
MovesOK ==
  /\ pc \in [Procs -> Labels]
  /\ at \in [Procs -> Nat]
  /\ \A p \in Procs : /\ pc[p] = "header" => at[p] \in 1 .. 4
                      /\ Wiping(p) \/ pc[p] = "flush" => at[p] \in Slots
                      /\ Writing(p) => at[p] \in Lengths
  /\ scan \in [Procs -> {"none", "key", "empty", "last"}]
  /\ handle \in [Procs -> BOOLEAN]

\* The part that is about the region.
RegionOK ==
  /\ region \in {"absent", "empty", "sized"}
  /\ header \subseteq Checked
  /\ used_count \in 0 .. Wrap - 1
  /\ state \in [Slots -> {STATE_EMPTY, STATE_OCCUPIED, STATE_TOMBSTONE}]
  /\ key \in [Slots -> BOOLEAN]
  /\ bytes \in [Slots -> Lengths \cup {Torn}]
  /\ len \in [Slots -> Lengths \cup {0}]
  /\ alone \in Procs \cup {NoProc}
  /\ sound \in BOOLEAN
  /\ lost \in 0 .. Wrap - 1
  /\ kept \in [Procs -> Lengths \cup {Torn, Nothing}]

LEMMA TypeParts == TypeOK <=> MovesOK /\ RegionOK
  BY DEF TypeOK, MovesOK, RegionOK, Wiping, Writing

LEMMA MovesPrimed == ASSUME MovesOK', RegionOK' PROVE TypeOK'
  BY TypeParts, PTL

LEMMA Typed == ASSUME IInv PROVE MovesOK /\ RegionOK
  BY TypeParts DEF IInv

\* Process p is at label with index i, and h says whether it has an arena;
\* the others are where they were.
MoveTo(p, label, i, h) ==
  /\ pc' = [pc EXCEPT ![p] = label]
  /\ at' = [at EXCEPT ![p] = i]
  /\ handle' = [handle EXCEPT ![p] = h]
  /\ \E end \in {"none", "key", "empty", "last"} : scan' = [scan EXCEPT ![p] = end]

\* What the move says of each process.
Moved(p, label, i, h) ==
  /\ MovesOK'
  /\ pc'[p] = label /\ at'[p] = i /\ handle'[p] = h
  /\ \A q \in Procs \ {p} : /\ pc'[q] = pc[q] /\ at'[q] = at[q]
                            /\ handle'[q] = handle[q] /\ scan'[q] = scan[q]

LEMMA MoveTyped ==
  ASSUME IInv, NEW p \in Procs, NEW label \in Labels, NEW i \in Nat, NEW h \in BOOLEAN,
         MoveTo(p, label, i, h),
         label = "header" => i \in 1 .. 4,
         label \in {"init", "rest", "flush"} => i \in Slots,
         label \in {"copy", "length", "publish"} => i \in Lengths
  PROVE  Moved(p, label, i, h)
<1>1. MovesOK
  BY Typed
<1>2. handle' \in [Procs -> BOOLEAN]
  BY <1>1 DEF MovesOK, MoveTo
<1>3. /\ pc' \in [Procs -> Labels] /\ at' \in [Procs -> Nat]
      /\ pc'[p] = label /\ at'[p] = i
      /\ \A q \in Procs \ {p} : pc'[q] = pc[q] /\ at'[q] = at[q]
  BY <1>1 DEF MovesOK, MoveTo
<1>4. handle'[p] = h /\ \A q \in Procs \ {p} : handle'[q] = handle[q]
  BY <1>1 DEF MovesOK, MoveTo
<1>5. /\ scan' \in [Procs -> {"none", "key", "empty", "last"}]
      /\ \A q \in Procs \ {p} : scan'[q] = scan[q]
  BY <1>1 DEF MovesOK, MoveTo
<1>6. \A q \in Procs : /\ pc'[q] = "header" => at'[q] \in 1 .. 4
                       /\ pc'[q] \in {"init", "rest", "flush"} => at'[q] \in Slots
                       /\ pc'[q] \in {"copy", "length", "publish"} => at'[q] \in Lengths
  BY <1>1, <1>3 DEF MovesOK, Wiping, Writing
<1> QED  BY <1>2, <1>3, <1>4, <1>5, <1>6 DEF MovesOK, Wiping, Writing, Moved

LEMMA GotoMoves ==
  ASSUME IInv, NEW p \in Procs, NEW label, NEW i, Goto(p, label, i)
  PROVE  MoveTo(p, label, i, handle[p])
<1>1. handle = [handle EXCEPT ![p] = handle[p]] /\ scan = [scan EXCEPT ![p] = scan[p]]
  BY Typed DEF MovesOK
<1>2. scan[p] \in {"none", "key", "empty", "last"}
  BY Typed DEF MovesOK
<1> QED  BY <1>1, <1>2 DEF Goto, MoveTo

LEMMA ReturnMoves ==
  ASSUME NEW p \in Procs, NEW h, NEW ans, Return(p, h, ans)
  PROVE  MoveTo(p, "idle", 0, h)
  BY DEF Return, MoveTo

-----------------------------------------------------------------------------
(* Counting.                                                               *)

LEMMA ModUnique ==
  ASSUME NEW w \in Nat \ {0}, NEW r \in 0 .. w - 1, NEW q \in Int
  PROVE  (w * q + r) % w = r
  BY SMTT(30)

LEMMA ModDiv ==
  ASSUME NEW w \in Nat \ {0}, NEW x \in Int
  PROVE  x = w * (x \div w) + (x % w) /\ x % w \in 0 .. w - 1 /\ x \div w \in Int
  BY SMTT(30)

LEMMA ModShift ==
  ASSUME NEW w \in Nat \ {0}, NEW x \in Int, NEW k \in Int
  PROVE  (w * k + x) % w = x % w
<1> DEFINE q == x \div w
           r == x % w
<1>1. x = w * q + r /\ r \in 0 .. w - 1 /\ q \in Int
  BY ModDiv
<1> HIDE DEF q, r
<1>2. w * k + x = w * (k + q) + r /\ k + q \in Int
  BY <1>1
<1>3. (w * (k + q) + r) % w = r
  BY <1>1, <1>2, ModUnique
<1> QED  BY <1>2, <1>3 DEF r

\* What is added to a remainder may be added before.
LEMMA ModSum ==
  ASSUME NEW w \in Nat \ {0}, NEW x \in Int, NEW d \in Int
  PROVE  ((x % w) + d) % w = (x + d) % w
<1> DEFINE q == x \div w
           r == x % w
<1>1. x = w * q + r /\ r \in 0 .. w - 1 /\ q \in Int
  BY ModDiv
<1> HIDE DEF q, r
<1>2. x + d = w * q + (r + d) /\ r + d \in Int
  BY <1>1
<1>3. (w * q + (r + d)) % w = (r + d) % w
  BY <1>1, <1>2, ModShift
<1> QED  BY <1>2, <1>3 DEF r

LEMMA ModLess ==
  ASSUME NEW w \in Nat \ {0}, NEW x \in Int, NEW d \in Int
  PROVE  (x - (d % w)) % w = (x - d) % w
<1> DEFINE q == d \div w
           r == d % w
<1>1. d = w * q + r /\ r \in 0 .. w - 1 /\ q \in Int
  BY ModDiv
<1> HIDE DEF q, r
<1>2. x - d = w * (-q) + (x - r) /\ x - r \in Int /\ -q \in Int
  BY <1>1
<1>3. (w * (-q) + (x - r)) % w = (x - r) % w
  BY <1>2, ModShift
<1> QED  BY <1>2, <1>3 DEF r

\* Every process has a slot of its own.
LEMMA ProcsFinite ==
  ASSUME NEW S \in SUBSET Procs PROVE IsFiniteSet(S) /\ Cardinality(S) \in Nat
<1>1. IsFiniteSet(Slots)
  BY ArenaAssumption, FS_Interval DEF Slots
<1>2. Home \in Injection(Procs, Slots)
  BY ArenaAssumption DEF Injection, IsInjective
<1>3. IsFiniteSet(Procs)
  BY <1>1, <1>2, FS_Injection
<1> QED  BY <1>3, FS_Subset, FS_CardinalityType

LEMMA SlotsFinite ==
  ASSUME NEW S \in SUBSET Slots PROVE IsFiniteSet(S) /\ Cardinality(S) \in Nat
<1>1. IsFiniteSet(Slots)
  BY ArenaAssumption, FS_Interval DEF Slots
<1> QED  BY <1>1, FS_Subset, FS_CardinalityType

\* What used_count should be.
Tally == Cardinality(Entries) + Cardinality(Under("del_count")) - Cardinality(Under("count"))
           - lost

\* A process at a label that is one of those that count.
One(label, l) == IF label = l THEN 1 ELSE 0

LEMMA UnderMoves ==
  ASSUME NEW p \in Procs, NEW label, NEW l, pc \in [Procs -> Labels],
         pc' = [pc EXCEPT ![p] = label]
  PROVE  /\ Cardinality(Under(l)') = Cardinality(Under(l)) - One(pc[p], l) + One(label, l)
         /\ Cardinality(Under(l)) \in Nat
<1> DEFINE Others == Under(l) \ {p}
<1>1. IsFiniteSet(Under(l)) /\ Cardinality(Under(l)) \in Nat /\ IsFiniteSet(Others)
  BY ProcsFinite DEF Under
<1>2. Cardinality(Others) = Cardinality(Under(l)) - One(pc[p], l)
  <2>1. p \in Under(l) <=> pc[p] = l
    BY DEF Under
  <2> QED  BY <1>1, <2>1, FS_RemoveElement DEF One
<1>3. Under(l)' = IF label = l THEN Others \cup {p} ELSE Others
  BY DEF Under
<1>4. Cardinality(Others \cup {p}) = Cardinality(Others) + 1
  BY <1>1, FS_AddElement
<1>5. Cardinality(Others) \in Nat
  BY <1>1, ProcsFinite, FS_CardinalityType
<1> QED  BY <1>1, <1>2, <1>3, <1>4, <1>5 DEF One

\* What a step does to the tally: a process leaves one label and comes to another,
\* and there are more entries or fewer.
LEMMA TallyMoves ==
  ASSUME IInv, NEW p \in Procs, NEW label, pc' = [pc EXCEPT ![p] = label],
         lost' \in 0 .. Wrap - 1
  PROVE  /\ Tally \in Int /\ Tally' \in Int
         /\ Cardinality(Entries) \in Nat /\ Cardinality(Entries') \in Nat
         /\ Tally' = Tally + Cardinality(Entries') - Cardinality(Entries)
                       - One(pc[p], "del_count") + One(label, "del_count")
                       + One(pc[p], "count") - One(label, "count") + lost - lost'
<1>1. pc \in [Procs -> Labels] /\ lost \in Int /\ lost' \in Int
  BY Typed, ArenaAssumption DEF MovesOK, RegionOK
<1>2. /\ Cardinality(Under("count")') =
           Cardinality(Under("count")) - One(pc[p], "count") + One(label, "count")
      /\ Cardinality(Under("count")) \in Nat
  BY <1>1, UnderMoves
<1>3. /\ Cardinality(Under("del_count")') =
           Cardinality(Under("del_count")) - One(pc[p], "del_count") + One(label, "del_count")
      /\ Cardinality(Under("del_count")) \in Nat
  BY <1>1, UnderMoves
<1>4. Cardinality(Entries) \in Nat /\ Cardinality(Entries') \in Nat
  BY SlotsFinite DEF Entries
<1>5. /\ One(pc[p], "count") \in Int /\ One(label, "count") \in Int
      /\ One(pc[p], "del_count") \in Int /\ One(label, "del_count") \in Int
  BY DEF One
<1> QED  BY <1>1, <1>2, <1>3, <1>4, <1>5 DEF Tally

\* The count follows a tally that grows by d.
LEMMA CountFollows ==
  ASSUME IInv, NEW d \in Int, sound, used_count' = (used_count + d) % Wrap,
         Tally \in Int, Tally' = Tally + d
  PROVE  used_count' = Tally' % Wrap
<1>1. used_count = Tally % Wrap /\ Wrap \in Nat \ {0}
  BY ArenaAssumption DEF IInv, Data, SoundArena, Tally
<1> QED  BY <1>1, ModSum

-----------------------------------------------------------------------------
(* Steps that leave the slots alone.                                       *)

\* Who is in a call, or begins one, does so beside no FLUSH of another.
LEMMA NoOtherFlush ==
  ASSUME IInv, NEW p \in Procs, Idle(p) \/ pc[p] # "idle"
  PROVE  \A q \in Procs \ {p} : ~Flushing(q)
<1>1. CASE Idle(p)
  BY <1>1 DEF Idle, NoFlush, Flushing
<1>2. CASE pc[p] # "idle"
  BY <1>2 DEF IInv, Data, Emptied
<1> QED  BY <1>1, <1>2

\* Nothing in the region changes but that it may get its size.
LEMMA DataKept ==
  ASSUME IInv, UNCHANGED <<slotVars, sound, kept>>,
         region = "sized" => region' = "sized",
         sound => Tally' % Wrap = Tally % Wrap,
         \A q \in Procs : Writing(q)' =>
           pc'[q] = pc[q] /\ at'[q] = at[q] /\ scan'[q] = scan[q],
         \A q \in Procs : Flushing(q)' =>
           /\ pc'[q] = pc[q] /\ at'[q] = at[q]
           /\ \A r \in Procs \ {q} : pc[r] = "idle" => pc'[r] = "idle",
         alone' # NoProc => /\ alone' = alone
                            /\ Wiping(alone)' => /\ pc'[alone] = pc[alone]
                                                 /\ at'[alone] = at[alone]
  PROVE  Data'
<1>1. /\ header' = header /\ used_count' = used_count /\ state' = state
      /\ key' = key /\ bytes' = bytes /\ len' = len
      /\ sound' = sound /\ kept' = kept
  BY DEF slotVars
<1>2. Wiped'
  BY <1>1 DEF IInv, Data, Wiped, Wiping
<1>3. Emptied'
  BY <1>1 DEF IInv, Data, Emptied, Flushing
<1>4. Used'
  BY <1>1 DEF IInv, Data, Used, Writing, AtSlot
<1>5. SoundArena'
  <2>1. Entries' = Entries
    BY <1>1 DEF Entries
  <2>2. sound => used_count = Tally' % Wrap
    BY DEF IInv, Data, SoundArena, Tally
  <2> QED  BY <1>1, <2>1, <2>2 DEF IInv, Data, SoundArena, Tally
<1>6. EntriesKept'
  BY <1>1 DEF IInv, Data, EntriesKept
<1> QED  BY <1>2, <1>3, <1>4, <1>5, <1>6 DEF Data

\* p moves beside the arena: it is not in the middle of a creation, nor is it
\* when it has moved.  If it was about to count it has died.
LEMMA BesideMoves ==
  ASSUME IInv, NEW p \in Procs, NEW h \in BOOLEAN,
         NEW label \in {"idle", "size", "map", "check"},
         MoveTo(p, label, 0, h),
         label # "idle" => Idle(p) \/ pc[p] # "idle",
         UNCHANGED <<slotVars, sound, kept>>,
         lost' \in 0 .. Wrap - 1, ~sound => lost' = lost,
         sound => Tally' % Wrap = Tally % Wrap,
         region' \in {"absent", "empty", "sized"},
         region = "sized" => region' = "sized",
         alone' = alone \/ alone' = NoProc,
         label # "idle" => ~h,
         label = "map" => region' = "sized",
         h => alone' = NoProc \/ handle[p],
         h => region' = "sized" /\ "magic" \in header',
         Creating(p) => alone' # p
  PROVE  IInv'
<1>1. Moved(p, label, 0, h)
  BY MoveTyped DEF Labels
<1>2. /\ header' = header /\ used_count' = used_count /\ state' = state
      /\ key' = key /\ bytes' = bytes /\ len' = len
      /\ sound' = sound /\ kept' = kept
  BY DEF slotVars
<1>3. RegionOK'
  <2>1. /\ alone' \in Procs \cup {NoProc} /\ sound' \in BOOLEAN
        /\ used_count' \in 0 .. Wrap - 1 /\ header' \subseteq Checked
    BY <1>2, Typed DEF RegionOK
  <2> QED  BY <1>2, <2>1, Typed DEF RegionOK
<1>4. Control'
  BY <1>1, <1>2 DEF Moved, IInv, Control, Opening, Using, Writing, Flushing, Creating, Wiping
<1>5. Alone'
  BY <1>1, <1>3 DEF Moved, IInv, RegionOK, Control, Alone, Opening, Creating
<1>6. Quiet'
  BY <1>1, <1>2 DEF Moved, IInv, Quiet, Creating, Flushing
<1>7. Data'
  <2>1. \A q \in Procs : Writing(q)' =>
          pc'[q] = pc[q] /\ at'[q] = at[q] /\ scan'[q] = scan[q]
    BY <1>1 DEF Moved, Writing
  <2>2. \A q \in Procs : Flushing(q)' =>
           /\ pc'[q] = pc[q] /\ at'[q] = at[q]
           /\ \A r \in Procs \ {q} : pc[r] = "idle" => pc'[r] = "idle"
    BY <1>1, NoOtherFlush DEF Moved, Flushing
  <2>3. alone' # NoProc => /\ alone' = alone
                           /\ Wiping(alone)' => pc'[alone] = pc[alone] /\ at'[alone] = at[alone]
    BY <1>1, <1>3 DEF Moved, IInv, RegionOK, Alone, Creating, Wiping
  <2> QED  BY <2>1, <2>2, <2>3, DataKept
<1> QED  BY <1>1, <1>3, <1>4, <1>5, <1>6, <1>7, MovesPrimed DEF IInv, Moved

\* It is not about to count.
LEMMA TallySame ==
  ASSUME IInv, NEW p \in Procs, NEW label, pc' = [pc EXCEPT ![p] = label],
         pc[p] \notin {"count", "del_count"}, label \notin {"count", "del_count"},
         \A i \in Slots : state'[i] = STATE_OCCUPIED <=> state[i] = STATE_OCCUPIED,
         lost' = lost
  PROVE  Tally' = Tally /\ Tally \in Int
<1>1. Entries' = Entries /\ Cardinality(Entries) \in Nat
  BY SlotsFinite DEF Entries
<1>3. lost \in 0 .. Wrap - 1 /\ lost \in Int
  BY Typed, ArenaAssumption DEF RegionOK
<1>4. /\ Tally \in Int
      /\ Tally' = Tally + Cardinality(Entries') - Cardinality(Entries)
                    - One(pc[p], "del_count") + One(label, "del_count")
                    + One(pc[p], "count") - One(label, "count") + lost - lost'
  BY <1>3, TallyMoves
<1> QED  BY <1>1, <1>3, <1>4 DEF One

LEMMA BesideKeeps ==
  ASSUME IInv, NEW p \in Procs, NEW h \in BOOLEAN,
         NEW label \in {"idle", "size", "map", "check"},
         MoveTo(p, label, 0, h), Idle(p) \/ Opening(p),
         UNCHANGED <<slotVars, history>>,
         region' \in {"absent", "empty", "sized"},
         region = "sized" => region' = "sized",
         alone' = alone \/ alone' = NoProc,
         label # "idle" => ~h,
         label = "map" => region' = "sized",
         h => alone' = NoProc \/ handle[p],
         h => region' = "sized" /\ "magic" \in header',
         Creating(p) => alone' # p
  PROVE  IInv'
<1>1. /\ UNCHANGED <<slotVars, sound, kept>> /\ state' = state
      /\ lost' = lost /\ lost' \in 0 .. Wrap - 1
  BY Typed DEF history, slotVars, RegionOK
<1>2. Tally' = Tally
  <2>1. pc[p] \notin {"count", "del_count"} /\ pc' = [pc EXCEPT ![p] = label]
    BY DEF Idle, Opening, MoveTo
  <2> QED  BY <1>1, <2>1, TallySame
<1>3. label # "idle" => Idle(p) \/ pc[p] # "idle"
  BY DEF Opening
<1> QED  BY <1>1, <1>2, <1>3, BesideMoves

LEMMA HandleTyped == ASSUME IInv, NEW p \in Procs PROVE handle[p] \in BOOLEAN
  BY Typed DEF MovesOK

LEMMA RegionTyped ==
  ASSUME IInv PROVE region \in {"absent", "empty", "sized"} /\ alone \in Procs \cup {NoProc}
  BY Typed DEF RegionOK

\* A call that fails before mmap, or an open that finds no arena.
LEMMA NullKeeps ==
  ASSUME IInv, NEW p \in Procs, Null(p), ~Creating(p), Idle(p) \/ Opening(p),
         UNCHANGED <<region, slotVars, alone, history>>
  PROVE  IInv'
<1>1. MoveTo(p, "idle", 0, FALSE)
  BY ReturnMoves DEF Null
<1> QED  BY <1>1, RegionTyped, BesideKeeps

\* shm_open and ftruncate.
LEMMA CreateKeeps ==
  ASSUME IInv, NEW p \in Procs, Create(p) PROVE IInv'
<1>1. ~Creating(p) /\ ~handle[p] /\ Idle(p) /\ UNCHANGED <<slotVars, alone, history>>
  BY DEF Create, Idle, Creating
<1>2. CASE Goto(p, "size", 0) /\ region' = IF region = "absent" THEN "empty" ELSE region
  <2>1. MoveTo(p, "size", 0, handle[p])
    BY <1>2, GotoMoves
  <2> QED  BY <1>1, <1>2, <2>1, HandleTyped, RegionTyped, BesideKeeps
<1>3. CASE Null(p) /\ UNCHANGED region
  BY <1>1, <1>3, NullKeeps
<1> QED  BY <1>2, <1>3 DEF Create

LEMMA SizeKeeps ==
  ASSUME IInv, NEW p \in Procs, Size(p) PROVE IInv'
<1>1. ~Creating(p) /\ ~handle[p] /\ Opening(p) /\ UNCHANGED <<slotVars, alone, history>>
  BY DEF Size, Creating, IInv, Control, Opening
<1>2. CASE region' = "sized" /\ Goto(p, "map", 0)
  <2>1. MoveTo(p, "map", 0, handle[p])
    BY <1>2, GotoMoves
  <2> QED  BY <1>1, <1>2, <2>1, HandleTyped, RegionTyped, BesideKeeps
<1>3. CASE Null(p) /\ UNCHANGED region
  BY <1>1, <1>3, NullKeeps
<1> QED  BY <1>2, <1>3 DEF Size

\* open_arena up to its look at the header, and what it finds there.
LEMMA OpenKeeps ==
  ASSUME IInv, NEW p \in Procs, Open(p) PROVE IInv'
<1>1. ~Creating(p) /\ ~handle[p] /\ Idle(p) /\ UNCHANGED <<region, slotVars, alone, history>>
  BY DEF Open, Idle, Creating
<1>2. CASE Goto(p, "check", 0)
  <2>1. MoveTo(p, "check", 0, handle[p])
    BY <1>2, GotoMoves
  <2> QED  BY <1>1, <2>1, HandleTyped, RegionTyped, BesideKeeps
<1>3. CASE Null(p)
  BY <1>1, <1>3, NullKeeps
<1> QED  BY <1>2, <1>3 DEF Open

LEMMA AttachKeeps ==
  ASSUME IInv, NEW p \in Procs, Attach(p) PROVE IInv'
<1>1. ~Creating(p) /\ Opening(p) /\ UNCHANGED <<region, slotVars, history>>
  BY DEF Attach, Creating, Opening
<1>2. CASE Valid /\ Return(p, TRUE, Code(1)) /\ alone' = NoProc
  <2>1. MoveTo(p, "idle", 0, TRUE)
    BY <1>2, ReturnMoves
  <2>2. region' = "sized" /\ "magic" \in header'
    BY <1>1, <1>2 DEF Attach, Valid, slotVars
  <2> QED  BY <1>1, <1>2, <2>1, <2>2, RegionTyped, BesideKeeps
<1>3. CASE Null(p) /\ UNCHANGED alone
  BY <1>1, <1>3, NullKeeps
<1> QED  BY <1>2, <1>3 DEF Attach

LEMMA CloseKeeps ==
  ASSUME IInv, NEW p \in Procs, Close(p) PROVE IInv'
  BY NullKeeps DEF Close, Idle, Creating

\* A process that ends.
LEMMA GoneMoves ==
  ASSUME NEW p \in Procs, Gone(p) PROVE MoveTo(p, "idle", 0, FALSE)
  BY DEF Gone, MoveTo

LEMMA BusErrorKeeps ==
  ASSUME IInv, NEW p \in Procs, BusError(p) PROVE IInv'
<1>1. /\ ~Creating(p) /\ Opening(p) /\ UNCHANGED <<region, slotVars, history>>
      /\ (alone' = alone \/ alone' = NoProc)
  BY DEF BusError, Creating, Opening, Gone
<1>2. MoveTo(p, "idle", 0, FALSE)
  BY GoneMoves DEF BusError
<1> QED  BY <1>1, <1>2, RegionTyped, BesideKeeps

\* What a dead process had still to count is in lost.
LEMMA CrashTally ==
  ASSUME IInv, NEW p \in Procs, Crash(p), sound
  PROVE  Tally' % Wrap = Tally % Wrap /\ lost' \in 0 .. Wrap - 1
<1>1. /\ Wrap \in Nat \ {0} /\ lost \in Int /\ lost \in 0 .. Wrap - 1
      /\ pc' = [pc EXCEPT ![p] = "idle"] /\ state' = state
  BY Typed, ArenaAssumption DEF RegionOK, Crash, Gone, slotVars
<1>2. CASE pc[p] \notin {"count", "del_count"}
  <2>1. lost' = lost
    BY <1>2 DEF Crash
  <2>2. Tally' = Tally
    BY <1>1, <1>2, <2>1, TallySame
  <2> QED  BY <1>1, <2>1, <2>2
<1>3. ASSUME NEW e \in {-1, 1}, lost' = (lost + e) % Wrap,
             One(pc[p], "count") - One(pc[p], "del_count") = e
      PROVE  Tally' % Wrap = Tally % Wrap /\ lost' \in 0 .. Wrap - 1
  <2>1. lost' \in 0 .. Wrap - 1
    BY <1>1, <1>3, ModDiv
  <2>2. Entries' = Entries /\ Cardinality(Entries) \in Nat
    BY <1>1, SlotsFinite DEF Entries
  <2>4. /\ Tally \in Int
        /\ Tally' = Tally + Cardinality(Entries') - Cardinality(Entries)
                      - One(pc[p], "del_count") + One("idle", "del_count")
                      + One(pc[p], "count") - One("idle", "count") + lost - lost'
    BY <1>1, <2>1, TallyMoves
  <2>5. Tally' = (Tally + lost + e) - ((lost + e) % Wrap)
    <3>1. /\ One(pc[p], "count") \in Int /\ One(pc[p], "del_count") \in Int /\ lost' \in Int
          /\ One("idle", "count") = 0 /\ One("idle", "del_count") = 0
      BY <1>1, <2>1 DEF One
    <3>2. Tally' = (Tally + lost + e) - lost'
      BY <1>1, <1>3, <2>2, <2>4, <3>1
    <3> QED  BY <1>3, <3>2
  <2>6. ((Tally + lost + e) - ((lost + e) % Wrap)) % Wrap
          = ((Tally + lost + e) - (lost + e)) % Wrap
    <3>1. Tally + lost + e \in Int /\ lost + e \in Int
      BY <1>1, <2>4
    <3> QED  BY <1>1, <3>1, ModLess
  <2>7. (Tally + lost + e) - (lost + e) = Tally
    BY <1>1, <2>4
  <2> QED  BY <2>1, <2>5, <2>6, <2>7
<1>4. CASE pc[p] = "count"
  <2>1. lost' = (lost + 1) % Wrap /\ One(pc[p], "count") - One(pc[p], "del_count") = 1
    BY <1>4 DEF Crash, One
  <2> QED  BY <1>3, <2>1
<1>5. CASE pc[p] = "del_count"
  <2>1. lost' = (lost - 1) % Wrap /\ One(pc[p], "count") - One(pc[p], "del_count") = -1
    BY <1>5 DEF Crash, One
  <2>2. lost - 1 = lost + (-1)
    BY <1>1
  <2> QED  BY <1>3, <2>1, <2>2
<1> QED  BY <1>2, <1>4, <1>5

LEMMA CrashKeeps ==
  ASSUME IInv, NEW p \in Procs, Crash(p) PROVE IInv'
<1>1. MoveTo(p, "idle", 0, FALSE)
  BY GoneMoves DEF Crash
<1>2. alone' = (IF alone = p THEN NoProc ELSE alone) /\ p # NoProc
  BY ArenaAssumption DEF Crash, Gone
<1>3. ~sound => lost' = lost
  BY DEF Crash
<1>4. lost' \in 0 .. Wrap - 1
  BY <1>3, CrashTally, Typed DEF RegionOK
<1>5. UNCHANGED <<region, slotVars, sound, kept>>
  BY DEF Crash
<1> QED  BY <1>1, <1>2, <1>3, <1>4, <1>5, CrashTally, RegionTyped, BesideMoves

-----------------------------------------------------------------------------
(* Calls that only read.                                                   *)

LEMMA AnswerKeeps ==
  ASSUME IInv, NEW p \in Procs, NEW ans, Idle(p), Return(p, handle[p], ans),
         UNCHANGED <<region, slotVars, alone, history>>
  PROVE  IInv'
<1>1. MoveTo(p, "idle", 0, handle[p])
  BY ReturnMoves
<1>2. ~Creating(p) /\ (handle[p] => region = "sized" /\ "magic" \in header)
  BY DEF Idle, Creating, IInv, Control
<1> QED  BY <1>1, <1>2, HandleTyped, RegionTyped, BesideKeeps DEF slotVars

LEMMA RefuseKeeps ==
  ASSUME IInv, NEW p \in Procs, Refuse(p) PROVE IInv'
  BY AnswerKeeps DEF Refuse, Answer

LEMMA GetKeeps ==
  ASSUME IInv, NEW p \in Procs, Get(p) PROVE IInv'
<1>1. handle[p] = TRUE
  BY HandleTyped DEF Get
<1>2. PICK ans : Return(p, handle[p], ans)
  BY <1>1 DEF Get
<1> QED  BY <1>2, AnswerKeeps DEF Get

LEMMA ExistsKeeps ==
  ASSUME IInv, NEW p \in Procs, Exists(p) PROVE IInv'
  BY AnswerKeeps DEF Exists, Answer

LEMMA CountersKeep ==
  ASSUME IInv, NEW p \in Procs, UsedCount(p) \/ Capacity(p) PROVE IInv'
  BY AnswerKeeps DEF UsedCount, Capacity, Answer

-----------------------------------------------------------------------------
(* Calls that write the slot of their key.                                 *)

\* Who has an arena is not beside a creator that nobody has joined.
LEMMA UserKeeps ==
  ASSUME IInv, NEW p \in Procs, handle[p], NEW i \in Nat,
         Idle(p) \/ Writing(p) \/ pc[p] \in {"count", "del_count"},
         NEW label \in {"idle", "copy", "length", "publish", "count", "del_count"},
         MoveTo(p, label, i, handle[p]),
         label \in {"copy", "length", "publish"} => i \in Lengths,
         UNCHANGED <<region, header, alone, sound, lost>>,
         \A q \in Procs : ~sound => kept'[q] = Nothing
  PROVE  /\ Moved(p, label, i, handle[p]) /\ Control' /\ Alone' /\ Wiped' /\ Emptied' /\ Quiet'
         /\ alone' = NoProc /\ sound' \in BOOLEAN /\ header' \subseteq Checked
         /\ lost' \in 0 .. Wrap - 1
<1>1. Moved(p, label, i, handle[p])
  BY MoveTyped, HandleTyped DEF Labels
<1>2. alone = NoProc
  BY DEF IInv, Alone, Control, Creating, Opening
<1>3. ~Opening(p) /\ ~Flushing(p) /\ (Idle(p) \/ pc[p] # "idle")
  BY DEF Idle, Opening, Flushing, Writing
<1>4. Control'
  BY <1>1, <1>3 DEF Moved, IInv, Control, Opening, Using, Writing, Flushing, Creating, Wiping
<1>5. Alone' /\ Wiped'
  BY <1>2 DEF Alone, Wiped
<1>6. Emptied'
  <2>1. \A q \in Procs : ~Flushing(q)'
    BY <1>1, <1>3, NoOtherFlush DEF Moved, Flushing
  <2> QED  BY <2>1 DEF Emptied
<1>7. Quiet'
  BY <1>1, <1>2 DEF Moved, IInv, Quiet, Creating, Flushing
<1>8. sound' \in BOOLEAN /\ header' \subseteq Checked /\ lost' \in 0 .. Wrap - 1
  BY Typed DEF RegionOK
<1> QED  BY <1>1, <1>2, <1>4, <1>5, <1>6, <1>7, <1>8

\* What the step does to the slot of p's key.
LEMMA UseDataKept ==
  ASSUME IInv, NEW p \in Procs, NEW label, NEW i, Moved(p, label, i, handle[p]),
         NEW st \in {STATE_EMPTY, STATE_OCCUPIED, STATE_TOMBSTONE}, NEW ky \in BOOLEAN,
         NEW b \in Lengths \cup {Torn}, NEW l \in Lengths \cup {0},
         NEW k \in Lengths \cup {Torn, Nothing},
         state' = [state EXCEPT ![Home[p]] = st],
         key' = [key EXCEPT ![Home[p]] = ky],
         bytes' = [bytes EXCEPT ![Home[p]] = b],
         len' = [len EXCEPT ![Home[p]] = l],
         kept' = [kept EXCEPT ![p] = k],
         UNCHANGED <<region, header, sound>>,
         sound => /\ st = STATE_OCCUPIED => ky
                  /\ Writing(p)' => AtSlot(p)'
                  /\ used_count' = Tally' % Wrap
                  /\ k # Nothing => st = STATE_OCCUPIED
                  /\ k \in Lengths => b = k /\ l = k,
         ~sound => k = Nothing
  PROVE  /\ Used' /\ SoundArena' /\ EntriesKept'
         /\ state' \in [Slots -> {STATE_EMPTY, STATE_OCCUPIED, STATE_TOMBSTONE}]
         /\ key' \in [Slots -> BOOLEAN]
         /\ bytes' \in [Slots -> Lengths \cup {Torn}]
         /\ len' \in [Slots -> Lengths \cup {0}]
         /\ kept' \in [Procs -> Lengths \cup {Torn, Nothing}]
<1>1. /\ state \in [Slots -> {STATE_EMPTY, STATE_OCCUPIED, STATE_TOMBSTONE}]
      /\ key \in [Slots -> BOOLEAN]
      /\ bytes \in [Slots -> Lengths \cup {Torn}]
      /\ len \in [Slots -> Lengths \cup {0}]
      /\ kept \in [Procs -> Lengths \cup {Torn, Nothing}]
  BY Typed DEF RegionOK
<1>2. /\ Home[p] \in Slots /\ Home[p] \in Homes
      /\ \A q \in Procs : Home[q] \in Slots /\ (q # p => Home[q] # Home[p])
  BY ArenaAssumption DEF Homes
<1>3. /\ state'[Home[p]] = st /\ key'[Home[p]] = ky /\ bytes'[Home[p]] = b /\ len'[Home[p]] = l
      /\ kept'[p] = k
  BY <1>1, <1>2
<1>4. /\ \A j \in Slots \ {Home[p]} : /\ state'[j] = state[j] /\ key'[j] = key[j]
                                      /\ bytes'[j] = bytes[j] /\ len'[j] = len[j]
      /\ \A q \in Procs \ {p} : kept'[q] = kept[q]
  BY <1>1, <1>2
<1>5. Used'
  <2>1. ASSUME NEW q \in Procs, sound, Writing(q)' PROVE AtSlot(q)'
    <3>1. CASE q = p
      BY <2>1, <3>1
    <3>2. CASE q # p
      <4>1. Writing(q) /\ AtSlot(q)
        BY <2>1, <3>2 DEF Moved, Writing, IInv, Data, Used
      <4> QED  BY <1>2, <1>4, <3>2, <4>1 DEF Moved, AtSlot
    <3> QED  BY <3>1, <3>2
  <2>2. ASSUME sound, NEW j \in Slots \ Homes PROVE state'[j] = STATE_EMPTY
    BY <1>2, <1>4, <2>2 DEF IInv, Data, Used
  <2> QED  BY <2>1, <2>2 DEF Used
<1>6. SoundArena'
  <2>1. ASSUME sound, NEW j \in Entries' PROVE j \in Homes /\ key'[j]
    BY <1>2, <1>3, <1>4, <2>1 DEF IInv, Data, SoundArena, Entries
  <2>2. sound => region' = "sized" /\ header' = Checked
    BY DEF IInv, Data, SoundArena
  <2> QED  BY <2>1, <2>2 DEF SoundArena, Tally
<1>7. EntriesKept'
  <2>1. ASSUME NEW q \in Procs, kept'[q] # Nothing
        PROVE  /\ region' = "sized" /\ "magic" \in header'
               /\ state'[Home[q]] = STATE_OCCUPIED /\ key'[Home[q]]
               /\ kept'[q] # Torn => bytes'[Home[q]] = kept'[q] /\ len'[Home[q]] = kept'[q]
    <3>1. CASE q = p
      BY <1>3, <2>1, <3>1 DEF IInv, Data, SoundArena, Checked
    <3>2. CASE q # p
      BY <1>2, <1>4, <2>1, <3>2 DEF IInv, Data, EntriesKept
    <3> QED  BY <3>1, <3>2
  <2> QED  BY <2>1 DEF EntriesKept
<1> QED  BY <1>1, <1>2, <1>5, <1>6, <1>7

\* The slot of p's key as it is.
LEMMA SlotTyped ==
  ASSUME IInv, NEW p \in Procs
  PROVE  /\ Home[p] \in Slots
         /\ state[Home[p]] \in {STATE_EMPTY, STATE_OCCUPIED, STATE_TOMBSTONE}
         /\ key[Home[p]] \in BOOLEAN
         /\ bytes[Home[p]] \in Lengths \cup {Torn} /\ len[Home[p]] \in Lengths \cup {0}
         /\ kept[p] \in Lengths \cup {Torn, Nothing}
         /\ state = [state EXCEPT ![Home[p]] = state[Home[p]]]
         /\ key = [key EXCEPT ![Home[p]] = key[Home[p]]]
         /\ bytes = [bytes EXCEPT ![Home[p]] = bytes[Home[p]]]
         /\ len = [len EXCEPT ![Home[p]] = len[Home[p]]]
         /\ kept = [kept EXCEPT ![p] = kept[p]]
  BY Typed, ArenaAssumption DEF RegionOK

\* Entries come and go with the state of p's slot.
LEMMA EntriesMove ==
  ASSUME IInv, NEW p \in Procs, NEW st \in {STATE_EMPTY, STATE_OCCUPIED, STATE_TOMBSTONE},
         state' = [state EXCEPT ![Home[p]] = st]
  PROVE  Cardinality(Entries') =
           Cardinality(Entries) - One(state[Home[p]], STATE_OCCUPIED) + One(st, STATE_OCCUPIED)
<1> DEFINE Others == Entries \ {Home[p]}
<1>1. IsFiniteSet(Entries) /\ Cardinality(Entries) \in Nat /\ IsFiniteSet(Others)
      /\ Cardinality(Others) \in Nat
  BY SlotsFinite DEF Entries
<1>2. Cardinality(Others) = Cardinality(Entries) - One(state[Home[p]], STATE_OCCUPIED)
  <2>1. Home[p] \in Entries <=> state[Home[p]] = STATE_OCCUPIED
    BY SlotTyped DEF Entries
  <2> QED  BY <1>1, <2>1, FS_RemoveElement DEF One
<1>3. Entries' = IF st = STATE_OCCUPIED THEN Others \cup {Home[p]} ELSE Others
  BY SlotTyped, Typed DEF Entries, RegionOK
<1>4. Cardinality(Others \cup {Home[p]}) = Cardinality(Others) + 1
  BY <1>1, FS_AddElement
<1> QED  BY <1>1, <1>2, <1>3, <1>4 DEF One

\* The whole of a step: where p moves, its slot, and the count.
UseStep(p, label, i, st, ky, b, l, k, d) ==
  /\ handle[p] /\ (Idle(p) \/ Writing(p) \/ pc[p] \in {"count", "del_count"})
  /\ label \in {"idle", "copy", "length", "publish", "count", "del_count"} /\ i \in Nat
  /\ MoveTo(p, label, i, handle[p])
  /\ label \in {"copy", "length", "publish"} => i \in Lengths
  /\ UNCHANGED <<region, header, alone, sound, lost>>
  /\ st \in {STATE_EMPTY, STATE_OCCUPIED, STATE_TOMBSTONE} /\ ky \in BOOLEAN
  /\ b \in Lengths \cup {Torn} /\ l \in Lengths \cup {0} /\ k \in Lengths \cup {Torn, Nothing}
  /\ state' = [state EXCEPT ![Home[p]] = st] /\ key' = [key EXCEPT ![Home[p]] = ky]
  /\ bytes' = [bytes EXCEPT ![Home[p]] = b] /\ len' = [len EXCEPT ![Home[p]] = l]
  /\ kept' = [kept EXCEPT ![p] = k]
  /\ d \in {-1, 0, 1} /\ used_count' = IF d = 0 THEN used_count ELSE (used_count + d) % Wrap
  /\ d = One(st, STATE_OCCUPIED) - One(state[Home[p]], STATE_OCCUPIED)
            - One(pc[p], "del_count") + One(label, "del_count")
            + One(pc[p], "count") - One(label, "count") \/ ~sound
  /\ sound => /\ st = STATE_OCCUPIED => ky
              /\ Writing(p)' => AtSlot(p)'
              /\ k # Nothing => st = STATE_OCCUPIED
              /\ k \in Lengths => b = k /\ l = k
  /\ ~sound => k = Nothing

LEMMA UseKeeps ==
  ASSUME IInv, NEW p \in Procs, NEW label, NEW i, NEW st, NEW ky, NEW b, NEW l, NEW k, NEW d,
         UseStep(p, label, i, st, ky, b, l, k, d)
  PROVE  IInv'
<1> USE DEF UseStep
<1>1. Wrap \in Nat \ {0} /\ used_count \in 0 .. Wrap - 1 /\ lost \in Int
  BY Typed, ArenaAssumption DEF RegionOK
<1>2. \A q \in Procs : ~sound => kept'[q] = Nothing
  BY SlotTyped, Typed DEF IInv, Quiet, RegionOK
<1>3. /\ Moved(p, label, i, handle[p]) /\ Control' /\ Alone' /\ Wiped' /\ Emptied' /\ Quiet'
      /\ alone' = NoProc /\ sound' \in BOOLEAN /\ header' \subseteq Checked
      /\ lost' \in 0 .. Wrap - 1
  BY <1>2, UserKeeps
<1>4. sound => used_count' = Tally' % Wrap
  <2> SUFFICES ASSUME sound PROVE used_count' = Tally' % Wrap
    OBVIOUS
  <2>1. /\ Tally \in Int
        /\ Cardinality(Entries) \in Nat
        /\ Tally' = Tally + Cardinality(Entries') - Cardinality(Entries)
                     - One(pc[p], "del_count") + One(label, "del_count")
                     + One(pc[p], "count") - One(label, "count") + lost - lost'
    <3>1. pc' = [pc EXCEPT ![p] = label]
      BY DEF MoveTo
    <3> QED  BY <1>3, <3>1, TallyMoves
  <2>2. Cardinality(Entries') =
          Cardinality(Entries) - One(state[Home[p]], STATE_OCCUPIED) + One(st, STATE_OCCUPIED)
    BY EntriesMove
  <2>3. Tally' = Tally + d
    <3>1. /\ One(st, STATE_OCCUPIED) \in Int /\ One(state[Home[p]], STATE_OCCUPIED) \in Int
          /\ One(pc[p], "del_count") \in Int /\ One(label, "del_count") \in Int
          /\ One(pc[p], "count") \in Int /\ One(label, "count") \in Int
      BY DEF One
    <3> QED  BY <1>1, <2>1, <2>2, <3>1
  <2>4. used_count = Tally % Wrap
    BY DEF IInv, Data, SoundArena, Tally
  <2>5. CASE d = 0
    BY <2>1, <2>3, <2>4, <2>5
  <2>6. CASE d # 0
    BY <2>1, <2>3, <2>6, CountFollows
  <2> QED  BY <2>5, <2>6
<1>5. used_count' \in 0 .. Wrap - 1
  <2>1. (used_count + d) % Wrap \in 0 .. Wrap - 1
    BY <1>1, ModDiv
  <2> QED  BY <1>1, <2>1
<1>6. /\ Used' /\ SoundArena' /\ EntriesKept'
      /\ state' \in [Slots -> {STATE_EMPTY, STATE_OCCUPIED, STATE_TOMBSTONE}]
      /\ key' \in [Slots -> BOOLEAN]
      /\ bytes' \in [Slots -> Lengths \cup {Torn}]
      /\ len' \in [Slots -> Lengths \cup {0}]
      /\ kept' \in [Procs -> Lengths \cup {Torn, Nothing}]
  BY <1>3, <1>4, UseDataKept
<1>7. RegionOK'
  BY <1>3, <1>5, <1>6, RegionTyped DEF RegionOK
<1> QED  BY <1>3, <1>6, <1>7, MovesPrimed DEF IInv, Data, Moved

\* What is true of p beside its call.
LEMMA UserSees ==
  ASSUME IInv, NEW p \in Procs
  PROVE  /\ sound /\ state[Home[p]] = STATE_OCCUPIED => key[Home[p]]
         /\ sound /\ state[Home[p]] # STATE_OCCUPIED => kept[p] = Nothing
         /\ ~sound => kept[p] = Nothing
         /\ sound => \E i \in Slots : state[i] = STATE_EMPTY
<1>1. Home[p] \in Slots
  BY SlotTyped
<1>2. sound => \E i \in Slots : state[i] = STATE_EMPTY
  BY ArenaAssumption DEF IInv, Data, Used
<1> QED  BY <1>1, <1>2 DEF IInv, Quiet, Data, SoundArena, EntriesKept, Entries

LEMMA UpdateKeeps ==
  ASSUME IInv, NEW p \in Procs, Update(p) PROVE IInv'
<1>1. PICK l \in Lens[p] : Write(p, "key", l)
  BY DEF Update
<1>2. /\ Idle(p) /\ pc[p] = "idle" /\ handle[p]
      /\ state[Home[p]] = STATE_OCCUPIED /\ key[Home[p]]
      /\ key' = key
  BY DEF Update, Idle, Holds
<1>3. l \in Lengths /\ l \in Nat
  BY ArenaAssumption DEF Lengths
<1>4. MoveTo(p, "copy", l, handle[p])
  <2>1. handle' = [handle EXCEPT ![p] = handle[p]]
    BY <1>1, Typed DEF Write, MovesOK
  <2> QED  BY <1>1, <2>1 DEF Write, MoveTo
<1>5. PICK k \in Lengths \cup {Torn, Nothing} :
        kept' = [kept EXCEPT ![p] = k] /\ k = IF sound THEN Torn ELSE Nothing
  BY DEF Update, Keep
<1>6. /\ UNCHANGED <<region, header, used_count, alone, sound, lost>>
      /\ state' = [state EXCEPT ![Home[p]] = STATE_OCCUPIED]
      /\ key' = [key EXCEPT ![Home[p]] = key[Home[p]]]
      /\ bytes' = [bytes EXCEPT ![Home[p]] = Torn]
      /\ len' = [len EXCEPT ![Home[p]] = len[Home[p]]]
  BY <1>1, <1>2, SlotTyped DEF Write
<1>7. AtSlot(p)'
  <2>1. /\ scan'[p] = "key" /\ pc'[p] = "copy" /\ kept'[p] = k /\ k \in {Torn, Nothing}
        /\ state' = state
    BY <1>1, <1>5, Typed DEF Write, MovesOK, RegionOK
  <2> QED  BY <1>2, <2>1 DEF AtSlot
<1>8. Torn \notin Lengths
  BY ArenaAssumption
<1>9. 0 = One(STATE_OCCUPIED, STATE_OCCUPIED) - One(state[Home[p]], STATE_OCCUPIED)
            - One(pc[p], "del_count") + One("copy", "del_count")
            + One(pc[p], "count") - One("copy", "count")
  BY <1>2 DEF One
<1> QED
  <2> DEFINE st == STATE_OCCUPIED  ky == key[Home[p]]  l2 == len[Home[p]]
  <2>1. st \in {STATE_EMPTY, STATE_OCCUPIED, STATE_TOMBSTONE} /\ ky \in BOOLEAN
        /\ l2 \in Lengths \cup {0} /\ ky
    BY <1>2, SlotTyped
  <2>2. k \notin Lengths
    BY <1>5, <1>8, ArenaAssumption
  <2>3. UseStep(p, "copy", l, st, ky, Torn, l2, k, 0)
    BY <1>2, <1>3, <1>4, <1>5, <1>6, <1>7, <1>9, <2>1, <2>2 DEF UseStep
  <2> QED  BY <2>3, UseKeeps

LEMMA ClaimKeeps ==
  ASSUME IInv, NEW p \in Procs, Claim(p) PROVE IInv'
<1>1. PICK l \in Lens[p] :
        Write(p, IF \E i \in Slots : state[i] = STATE_EMPTY THEN "empty" ELSE "last", l)
  BY DEF Claim
<1>2. /\ Idle(p) /\ pc[p] = "idle" /\ handle[p] /\ state[Home[p]] # STATE_OCCUPIED
      /\ key' = [key EXCEPT ![Home[p]] = TRUE]
  BY DEF Claim, Idle
<1>3. l \in Lengths /\ l \in Nat
  BY ArenaAssumption DEF Lengths
<1>4. MoveTo(p, "copy", l, handle[p])
  <2>1. handle' = [handle EXCEPT ![p] = handle[p]]
    BY <1>1, Typed DEF Write, MovesOK
  <2> QED  BY <1>1, <2>1 DEF Write, MoveTo
<1>5. kept[p] = Nothing /\ kept' = [kept EXCEPT ![p] = Nothing]
  BY <1>2, SlotTyped, UserSees DEF Claim
<1>6. /\ UNCHANGED <<region, header, used_count, alone, sound, lost>>
      /\ state' = [state EXCEPT ![Home[p]] = state[Home[p]]]
      /\ bytes' = [bytes EXCEPT ![Home[p]] = Torn]
      /\ len' = [len EXCEPT ![Home[p]] = len[Home[p]]]
  BY <1>1, SlotTyped DEF Write
<1>7. sound => AtSlot(p)'
  <2>1. pc'[p] = "copy" /\ state' = state /\ (sound => scan'[p] = "empty")
    BY <1>1, UserSees, Typed DEF Write, MovesOK
  <2>2. key'[Home[p]]
    BY <1>2, SlotTyped, Typed DEF RegionOK
  <2> QED  BY <1>2, <2>1, <2>2 DEF AtSlot
<1>8. 0 = One(state[Home[p]], STATE_OCCUPIED) - One(state[Home[p]], STATE_OCCUPIED)
            - One(pc[p], "del_count") + One("copy", "del_count")
            + One(pc[p], "count") - One("copy", "count")
  BY <1>2 DEF One
<1> QED
  <2> DEFINE st == state[Home[p]]  l2 == len[Home[p]]
  <2>1. st \in {STATE_EMPTY, STATE_OCCUPIED, STATE_TOMBSTONE} /\ l2 \in Lengths \cup {0}
        /\ st # STATE_OCCUPIED /\ Nothing \notin Lengths
    BY <1>2, SlotTyped, ArenaAssumption
  <2>2. UseStep(p, "copy", l, st, TRUE, Torn, l2, Nothing, 0)
    BY <1>2, <1>3, <1>4, <1>5, <1>6, <1>7, <1>8, <2>1 DEF UseStep
  <2> QED  BY <2>2, UseKeeps

\* A process that writes has an arena, and its slot is what AtSlot says.
LEMMA WriterSees ==
  ASSUME IInv, NEW p \in Procs, Writing(p)
  PROVE  /\ handle[p] /\ at[p] \in Lengths /\ at[p] \in Nat
         /\ sound => AtSlot(p)
         /\ sound /\ scan[p] # "key" => kept[p] = Nothing
  BY Typed, UserSees DEF IInv, Control, Using, Data, Used, MovesOK, AtSlot

LEMMA WriteBytesKeeps ==
  ASSUME IInv, NEW p \in Procs, WriteBytes(p) PROVE IInv'
<1>1. /\ Writing(p) /\ pc[p] = "copy" /\ Goto(p, "length", at[p])
      /\ bytes' = [bytes EXCEPT ![Home[p]] = at[p]]
      /\ UNCHANGED <<region, header, used_count, state, key, len, alone, sound, lost, kept>>
  BY DEF WriteBytes, Writing, history
<1>2. /\ handle[p] /\ at[p] \in Lengths /\ at[p] \in Nat
      /\ (sound => AtSlot(p))
      /\ (sound /\ scan[p] # "key" => kept[p] = Nothing)
  BY <1>1, WriterSees
<1>3. MoveTo(p, "length", at[p], handle[p])
  BY <1>1, GotoMoves
<1>4. /\ state' = [state EXCEPT ![Home[p]] = state[Home[p]]]
      /\ key' = [key EXCEPT ![Home[p]] = key[Home[p]]]
      /\ len' = [len EXCEPT ![Home[p]] = len[Home[p]]]
      /\ kept' = [kept EXCEPT ![p] = kept[p]]
  BY <1>1, SlotTyped
<1>5. sound => AtSlot(p)'
  <2>1. pc'[p] = "length" /\ bytes'[Home[p]] = at[p] /\ at' = at /\ scan' = scan
    BY <1>1, SlotTyped, Typed DEF Goto, MovesOK, RegionOK
  <2> QED  BY <1>1, <1>2, <2>1 DEF AtSlot
<1>6. 0 = One(state[Home[p]], STATE_OCCUPIED) - One(state[Home[p]], STATE_OCCUPIED)
            - One(pc[p], "del_count") + One("length", "del_count")
            + One(pc[p], "count") - One("length", "count")
  BY <1>1 DEF One
<1> QED
  <2> DEFINE st == state[Home[p]]  ky == key[Home[p]]  l2 == len[Home[p]]  k == kept[p]
  <2>1. st \in {STATE_EMPTY, STATE_OCCUPIED, STATE_TOMBSTONE} /\ l2 \in Lengths \cup {0}
        /\ ky \in BOOLEAN /\ k \in Lengths \cup {Torn, Nothing}
    BY SlotTyped
  <2>2. sound => /\ st = STATE_OCCUPIED => ky
                 /\ k # Nothing => st = STATE_OCCUPIED
                 /\ k \notin Lengths
    BY <1>2, UserSees, ArenaAssumption DEF AtSlot
  <2>3. ~sound => k = Nothing
    BY UserSees
  <2>4. UseStep(p, "length", at[p], st, ky, at[p], l2, k, 0)
    BY <1>1, <1>2, <1>3, <1>4, <1>5, <1>6, <2>1, <2>2, <2>3 DEF UseStep
  <2> QED  BY <2>4, UseKeeps

LEMMA WriteLenKeeps ==
  ASSUME IInv, NEW p \in Procs, WriteLen(p) PROVE IInv'
<1>1. /\ Writing(p) /\ pc[p] = "length"
      /\ len' = [len EXCEPT ![Home[p]] = at[p]]
      /\ UNCHANGED <<region, header, used_count, state, key, bytes, alone, sound, lost>>
  BY DEF WriteLen, Writing
<1>2. /\ handle[p] /\ at[p] \in Lengths /\ at[p] \in Nat
      /\ (sound => AtSlot(p))
      /\ (sound /\ scan[p] # "key" => kept[p] = Nothing)
  BY <1>1, WriterSees
<1>3. /\ state' = [state EXCEPT ![Home[p]] = state[Home[p]]]
      /\ key' = [key EXCEPT ![Home[p]] = key[Home[p]]]
      /\ bytes' = [bytes EXCEPT ![Home[p]] = bytes[Home[p]]]
  BY <1>1, SlotTyped
<1> DEFINE st == state[Home[p]]  ky == key[Home[p]]  b == bytes[Home[p]]
<1>4. st \in {STATE_EMPTY, STATE_OCCUPIED, STATE_TOMBSTONE} /\ b \in Lengths \cup {Torn}
      /\ ky \in BOOLEAN
  BY SlotTyped
<1>5. (sound /\ st = STATE_OCCUPIED => ky) /\ Nothing \notin Lengths
  BY UserSees, ArenaAssumption
<1>6. CASE scan[p] = "key"
  <2>1. MoveTo(p, "idle", 0, handle[p])
    BY <1>6, ReturnMoves DEF WriteLen, Answer
  <2>2. PICK k \in Lengths \cup {Torn, Nothing} :
          kept' = [kept EXCEPT ![p] = k] /\ k = IF sound THEN at[p] ELSE Nothing
    BY <1>2, <1>6 DEF WriteLen, Keep
  <2>3. sound => st = STATE_OCCUPIED /\ b = at[p]
    BY <1>1, <1>2, <1>6 DEF AtSlot
  <2>4. ~Writing(p)'
    BY <1>6, Typed DEF WriteLen, Answer, Return, MovesOK, Writing
  <2>5. 0 = One(st, STATE_OCCUPIED) - One(state[Home[p]], STATE_OCCUPIED)
              - One(pc[p], "del_count") + One("idle", "del_count")
              + One(pc[p], "count") - One("idle", "count")
    BY <1>1 DEF One
  <2>6. UseStep(p, "idle", 0, st, ky, b, at[p], k, 0)
    BY <1>1, <1>2, <1>3, <1>4, <1>5, <2>1, <2>2, <2>3, <2>4, <2>5 DEF UseStep
  <2> QED  BY <2>6, UseKeeps
<1>7. CASE scan[p] # "key"
  <2>0. Goto(p, "publish", at[p]) /\ kept' = kept
    BY <1>7 DEF WriteLen
  <2>1. MoveTo(p, "publish", at[p], handle[p])
    BY <2>0, GotoMoves
  <2>2. kept[p] = Nothing /\ kept' = [kept EXCEPT ![p] = Nothing]
    BY <1>2, <1>7, <2>0, SlotTyped, UserSees
  <2>3. sound => AtSlot(p)'
    <3>1. pc'[p] = "publish" /\ len'[Home[p]] = at[p] /\ at' = at /\ scan' = scan
      BY <1>1, <2>0, SlotTyped, Typed DEF Goto, MovesOK, RegionOK
    <3> QED  BY <1>1, <1>2, <1>7, <3>1 DEF AtSlot
  <2>5. 0 = One(st, STATE_OCCUPIED) - One(state[Home[p]], STATE_OCCUPIED)
              - One(pc[p], "del_count") + One("publish", "del_count")
              + One(pc[p], "count") - One("publish", "count")
    BY <1>1 DEF One
  <2>6. UseStep(p, "publish", at[p], st, ky, b, at[p], Nothing, 0)
    BY <1>1, <1>2, <1>3, <1>4, <1>5, <2>1, <2>2, <2>3, <2>5 DEF UseStep
  <2> QED  BY <2>6, UseKeeps
<1> QED  BY <1>6, <1>7

\* A new entry is owed to the count until its process has counted it.
LEMMA PublishKeeps ==
  ASSUME IInv, NEW p \in Procs, Publish(p) PROVE IInv'
<1>1. /\ Writing(p) /\ pc[p] = "publish"
      /\ state' = [state EXCEPT ![Home[p]] = STATE_OCCUPIED]
      /\ UNCHANGED <<region, header, used_count, key, bytes, len, alone, sound, lost>>
  BY DEF Publish, Writing
<1>2. /\ handle[p] /\ at[p] \in Lengths /\ at[p] \in Nat
      /\ (sound => AtSlot(p))
  BY <1>1, WriterSees
<1>3. /\ key' = [key EXCEPT ![Home[p]] = key[Home[p]]]
      /\ bytes' = [bytes EXCEPT ![Home[p]] = bytes[Home[p]]]
      /\ len' = [len EXCEPT ![Home[p]] = len[Home[p]]]
  BY <1>1, SlotTyped
<1>4. PICK k \in Lengths \cup {Torn, Nothing} :
        kept' = [kept EXCEPT ![p] = k] /\ k = IF sound THEN at[p] ELSE Nothing
  BY <1>2 DEF Publish, Keep
<1>5. PICK label \in {"count", "idle"} :
        /\ MoveTo(p, label, 0, handle[p])
        /\ sound => label = "count"
  <2>1. CASE scan[p] = "empty"
    BY <2>1, GotoMoves DEF Publish
  <2>2. CASE scan[p] # "empty"
    <3>1. ~sound
      BY <1>1, <1>2, <2>2 DEF AtSlot
    <3> QED  BY <2>2, <3>1, ReturnMoves DEF Publish, Answer
  <2> QED  BY <2>1, <2>2
<1> DEFINE ky == key[Home[p]]  b == bytes[Home[p]]  l == len[Home[p]]
<1>6. b \in Lengths \cup {Torn} /\ l \in Lengths \cup {0} /\ ky \in BOOLEAN
  BY SlotTyped
<1>7. sound => ky /\ b = at[p] /\ l = at[p] /\ state[Home[p]] # STATE_OCCUPIED
  BY <1>1, <1>2 DEF AtSlot
<1>8. ~Writing(p)'
  BY <1>5, MoveTyped, <1>2, HandleTyped DEF Moved, Writing, Labels
<1>9. 0 = One(STATE_OCCUPIED, STATE_OCCUPIED) - One(state[Home[p]], STATE_OCCUPIED)
            - One(pc[p], "del_count") + One(label, "del_count")
            + One(pc[p], "count") - One(label, "count") \/ ~sound
  BY <1>1, <1>5, <1>7 DEF One
<1> HIDE DEF ky, b, l
<1>10. STATE_OCCUPIED \in {STATE_EMPTY, STATE_OCCUPIED, STATE_TOMBSTONE}
  OBVIOUS
<1>11. UseStep(p, label, 0, STATE_OCCUPIED, ky, b, l, k, 0)
  BY <1>1, <1>2, <1>3, <1>4, <1>5, <1>6, <1>7, <1>8, <1>9, <1>10 DEF UseStep, ky, b, l
<1> QED  BY <1>11, UseKeeps

\* The two steps that pay what is owed.
LEMMA CountKeeps ==
  ASSUME IInv, NEW p \in Procs, Count(p) \/ DelCount(p) PROVE IInv'
<1>1. PICK d \in {-1, 1} :
        /\ used_count' = (used_count + d) % Wrap
        /\ pc[p] \in {"count", "del_count"}
        /\ d = One(pc[p], "count") - One(pc[p], "del_count")
  <2>1. CASE Count(p)
    BY <2>1 DEF Count, One
  <2>2. CASE DelCount(p)
    <3>1. used_count - 1 = used_count + (-1)
      BY Typed, ArenaAssumption DEF RegionOK
    <3> QED  BY <2>2, <3>1 DEF DelCount, One
  <2> QED  BY <2>1, <2>2
<1>2. MoveTo(p, "idle", 0, handle[p])
  BY ReturnMoves DEF Count, DelCount, Answer
<1>3. /\ handle[p]
      /\ UNCHANGED <<region, header, state, key, bytes, len, alone, sound, lost, kept>>
  BY <1>1 DEF Count, DelCount, history, IInv, Control, Using
<1> DEFINE st == state[Home[p]]  ky == key[Home[p]]  b == bytes[Home[p]]  l == len[Home[p]]
           k == kept[p]
<1>4. /\ st \in {STATE_EMPTY, STATE_OCCUPIED, STATE_TOMBSTONE} /\ ky \in BOOLEAN
      /\ b \in Lengths \cup {Torn} /\ l \in Lengths \cup {0}
      /\ k \in Lengths \cup {Torn, Nothing}
      /\ state' = [state EXCEPT ![Home[p]] = st] /\ key' = [key EXCEPT ![Home[p]] = ky]
      /\ bytes' = [bytes EXCEPT ![Home[p]] = b] /\ len' = [len EXCEPT ![Home[p]] = l]
      /\ kept' = [kept EXCEPT ![p] = k]
  BY <1>3, SlotTyped
<1>5. /\ sound => /\ st = STATE_OCCUPIED => ky
                  /\ k # Nothing => st = STATE_OCCUPIED
                  /\ k \in Lengths => b = k /\ l = k
      /\ ~sound => k = Nothing
  BY UserSees, ArenaAssumption DEF IInv, Data, EntriesKept
<1>6. ~Writing(p)'
  BY <1>2, <1>3, MoveTyped, HandleTyped DEF Moved, Writing, Labels
<1>7. d = One(st, STATE_OCCUPIED) - One(state[Home[p]], STATE_OCCUPIED)
            - One(pc[p], "del_count") + One("idle", "del_count")
            + One(pc[p], "count") - One("idle", "count")
  BY <1>1 DEF One
<1> HIDE DEF st, ky, b, l, k
<1>8. used_count' = (IF d = 0 THEN used_count ELSE (used_count + d) % Wrap) /\ d \in {-1, 0, 1}
  BY <1>1
<1>9. UseStep(p, "idle", 0, st, ky, b, l, k, d)
  BY <1>1, <1>2, <1>3, <1>4, <1>5, <1>6, <1>7, <1>8 DEF UseStep
<1> QED  BY <1>9, UseKeeps

LEMMA DelKeeps ==
  ASSUME IInv, NEW p \in Procs, Del(p) PROVE IInv'
<1>1. /\ Idle(p) /\ pc[p] = "idle" /\ handle[p]
      /\ UNCHANGED <<region, header, used_count, key, bytes, len, alone, sound, lost>>
  BY DEF Del, Idle
<1>2. CASE ~Holds(p) /\ Answer(p, 0) /\ UNCHANGED <<state, kept>>
  BY <1>1, <1>2, AnswerKeeps DEF Answer, slotVars, history
<1>3. CASE /\ Holds(p)
           /\ state' = [state EXCEPT ![Home[p]] = STATE_TOMBSTONE]
           /\ kept' = [kept EXCEPT ![p] = Nothing]
           /\ Goto(p, "del_count", 0)
  <2> DEFINE ky == key[Home[p]]  b == bytes[Home[p]]  l == len[Home[p]]
  <2>1. MoveTo(p, "del_count", 0, handle[p])
    BY <1>3, GotoMoves
  <2>2. /\ b \in Lengths \cup {Torn} /\ l \in Lengths \cup {0} /\ ky \in BOOLEAN
        /\ key' = [key EXCEPT ![Home[p]] = ky] /\ bytes' = [bytes EXCEPT ![Home[p]] = b]
        /\ len' = [len EXCEPT ![Home[p]] = l]
    BY <1>1, SlotTyped
  <2>3. ~Writing(p)'
    BY <1>1, <2>1, MoveTyped, HandleTyped DEF Moved, Writing, Labels
  <2>4. 0 = One(STATE_TOMBSTONE, STATE_OCCUPIED) - One(state[Home[p]], STATE_OCCUPIED)
              - One(pc[p], "del_count") + One("del_count", "del_count")
              + One(pc[p], "count") - One("del_count", "count")
    BY <1>1, <1>3 DEF One, Holds, STATE_OCCUPIED, STATE_TOMBSTONE
  <2>5. STATE_TOMBSTONE # STATE_OCCUPIED /\ Nothing \notin Lengths
    BY ArenaAssumption DEF STATE_OCCUPIED, STATE_TOMBSTONE
  <2>6. UseStep(p, "del_count", 0, STATE_TOMBSTONE, ky, b, l, Nothing, 0)
    BY <1>1, <1>3, <2>1, <2>2, <2>3, <2>4, <2>5 DEF UseStep
  <2> QED  BY <2>6, UseKeeps
<1> QED  BY <1>2, <1>3 DEF Del

-----------------------------------------------------------------------------
(* FLUSH.                                                                  *)

\* p is alone, begins to empty the table, goes on, or has done so.
LEMMA FlusherKeeps ==
  ASSUME IInv, NEW p \in Procs, handle[p], pc[p] = "idle" \/ Flushing(p),
         \A q \in Procs \ {p} : pc[q] = "idle",
         NEW label \in {"idle", "flush", "flush_count"}, NEW i \in Nat,
         MoveTo(p, label, i, handle[p]), label = "flush" => i \in Slots,
         UNCHANGED <<region, header, bytes, alone>>, lost' = 0,
         kept' \in [Procs -> {Nothing}],
         state' \in [Slots -> {STATE_EMPTY, STATE_OCCUPIED, STATE_TOMBSTONE}],
         key' \in [Slots -> BOOLEAN], len' \in [Slots -> Lengths \cup {0}],
         used_count' \in 0 .. Wrap - 1,
         \A j \in Slots : label # "flush" \/ j < i => state'[j] = STATE_EMPTY,
         sound' \in BOOLEAN,
         sound' => label = "idle" /\ header = Checked /\ used_count' = 0
  PROVE  IInv'
<1>1. Moved(p, label, i, handle[p])
  BY MoveTyped, HandleTyped DEF Labels
<1>2. alone = NoProc /\ region = "sized"
  BY DEF IInv, Alone, Control, Creating, Opening, Flushing
<1>3. RegionOK'
  BY Typed, ArenaAssumption DEF RegionOK
<1>4. Control'
  BY <1>1 DEF Moved, IInv, Control, Opening, Using, Writing, Flushing, Creating, Wiping
<1>5. Alone' /\ Wiped' /\ EntriesKept'
  BY <1>2 DEF Alone, Wiped, EntriesKept
<1>6. \A q \in Procs \ {p} : pc'[q] = "idle"
  BY <1>1 DEF Moved
<1>7. Quiet'
  BY <1>1, <1>2, <1>6 DEF Moved, Quiet, Creating, Flushing
<1>8. Emptied'
  BY <1>1, <1>6 DEF Moved, Emptied, Flushing
<1>9. Used'
  BY <1>1, <1>6 DEF Moved, Used, Writing
<1>10. SoundArena'
  <2> SUFFICES ASSUME sound' PROVE SoundArena'
    BY DEF SoundArena
  <2>1. Entries' = {}
    BY DEF Entries, STATE_EMPTY, STATE_OCCUPIED
  <2>2. \A q \in Procs : pc'[q] = "idle"
    BY <1>1, <1>6 DEF Moved
  <2>3. Under("count")' = {} /\ Under("del_count")' = {}
    BY <2>2 DEF Under
  <2>4. 0 = (0 + 0 - 0 - 0) % Wrap
    BY ArenaAssumption
  <2> QED  BY <1>2, <2>1, <2>3, <2>4, FS_EmptySet DEF SoundArena
<1> QED  BY <1>1, <1>3, <1>4, <1>5, <1>7, <1>8, <1>9, <1>10, MovesPrimed DEF IInv, Data, Moved

LEMMA FlushKeeps ==
  ASSUME IInv, NEW p \in Procs, Flush(p) PROVE IInv'
<1>1. MoveTo(p, "flush", 0, handle[p])
  BY GotoMoves DEF Flush
<1>2. 0 \in Slots /\ \A j \in Slots : ~(j < 0)
  BY ArenaAssumption DEF Slots
<1>3. /\ pc[p] = "idle" /\ handle[p] /\ \A q \in Procs \ {p} : pc[q] = "idle"
      /\ UNCHANGED <<region, header, used_count, state, key, bytes, len, alone>>
      /\ ~sound' /\ sound' \in BOOLEAN /\ lost' = 0 /\ kept' \in [Procs -> {Nothing}]
  BY DEF Flush, slotVars
<1>4. /\ state' \in [Slots -> {STATE_EMPTY, STATE_OCCUPIED, STATE_TOMBSTONE}]
      /\ key' \in [Slots -> BOOLEAN] /\ len' \in [Slots -> Lengths \cup {0}]
      /\ used_count' \in 0 .. Wrap - 1
  BY <1>3, Typed DEF RegionOK
<1> QED  BY <1>1, <1>2, <1>3, <1>4, FlusherKeeps

\* What a FLUSH under way has: its handle, and nobody else in a call.
LEMMA FlusherSees ==
  ASSUME IInv, NEW p \in Procs, Flushing(p)
  PROVE  /\ handle[p] /\ \A q \in Procs \ {p} : pc[q] = "idle"
         /\ \A j \in Slots : pc[p] = "flush_count" \/ j < at[p] => state[j] = STATE_EMPTY
         /\ ~sound /\ lost = 0 /\ kept \in [Procs -> {Nothing}]
         /\ pc[p] = "flush" => at[p] \in Slots
<1>1. handle[p] /\ ~sound
  BY DEF IInv, Control, Using, Quiet
<1>2. lost = 0 /\ kept \in [Procs -> {Nothing}]
  BY <1>1, Typed DEF IInv, Quiet, RegionOK
<1> QED  BY <1>1, <1>2, Typed DEF IInv, Data, Emptied, MovesOK

LEMMA FlushSlotKeeps ==
  ASSUME IInv, NEW p \in Procs, FlushSlot(p) PROVE IInv'
<1>1. /\ Flushing(p) /\ pc[p] = "flush" /\ at[p] \in Slots
      /\ handle[p] /\ \A q \in Procs \ {p} : pc[q] = "idle"
      /\ \A j \in Slots : j < at[p] => state[j] = STATE_EMPTY
      /\ ~sound /\ lost = 0 /\ kept \in [Procs -> {Nothing}]
  BY FlusherSees DEF FlushSlot, Flushing
<1>2. /\ UNCHANGED <<region, header, used_count, bytes, alone, sound, lost, kept>>
      /\ state' = [state EXCEPT ![at[p]] = STATE_EMPTY]
  BY DEF FlushSlot, history
<1>3. /\ state' \in [Slots -> {STATE_EMPTY, STATE_OCCUPIED, STATE_TOMBSTONE}]
      /\ key' \in [Slots -> BOOLEAN] /\ len' \in [Slots -> Lengths \cup {0}]
      /\ used_count' \in 0 .. Wrap - 1 /\ sound' \in BOOLEAN
  BY <1>2, Typed DEF FlushSlot, RegionOK
<1>4. \A j \in Slots : j < at[p] \/ j = at[p] => state'[j] = STATE_EMPTY
  BY <1>1, <1>2, Typed DEF RegionOK
<1>5. CASE at[p] = N - 1
  <2>1. MoveTo(p, "flush_count", 0, handle[p])
    BY <1>5, GotoMoves DEF FlushSlot
  <2>2. \A j \in Slots : state'[j] = STATE_EMPTY
    BY <1>4, <1>5, ArenaAssumption DEF Slots
  <2> QED  BY <1>1, <1>2, <1>3, <2>1, <2>2, FlusherKeeps
<1>6. CASE at[p] # N - 1
  <2>1. MoveTo(p, "flush", at[p] + 1, handle[p])
    BY <1>6, GotoMoves DEF FlushSlot
  <2>2. /\ at[p] + 1 \in Slots /\ at[p] + 1 \in Nat
        /\ \A j \in Slots : j < at[p] + 1 => j < at[p] \/ j = at[p]
    BY <1>1, <1>6, ArenaAssumption DEF Slots
  <2> QED  BY <1>1, <1>2, <1>3, <1>4, <2>1, <2>2, FlusherKeeps
<1> QED  BY <1>5, <1>6

LEMMA FlushCountKeeps ==
  ASSUME IInv, NEW p \in Procs, FlushCount(p) PROVE IInv'
<1>1. /\ Flushing(p) /\ pc[p] = "flush_count"
      /\ handle[p] /\ \A q \in Procs \ {p} : pc[q] = "idle"
      /\ \A j \in Slots : state[j] = STATE_EMPTY
      /\ lost = 0 /\ kept \in [Procs -> {Nothing}]
  BY FlusherSees DEF FlushCount, Flushing
<1>2. /\ UNCHANGED <<region, header, state, key, bytes, len, alone, lost, kept>>
      /\ used_count' = 0 /\ sound' = (header = Checked)
  BY DEF FlushCount
<1>3. /\ state' \in [Slots -> {STATE_EMPTY, STATE_OCCUPIED, STATE_TOMBSTONE}]
      /\ key' \in [Slots -> BOOLEAN] /\ len' \in [Slots -> Lengths \cup {0}]
      /\ used_count' \in 0 .. Wrap - 1 /\ sound' \in BOOLEAN
  BY <1>2, Typed, ArenaAssumption DEF RegionOK
<1>4. MoveTo(p, "idle", 0, handle[p])
  BY ReturnMoves DEF FlushCount, Answer
<1> QED  BY <1>1, <1>2, <1>3, <1>4, FlusherKeeps

-----------------------------------------------------------------------------
(* create_arena behind mmap.                                               *)

\* No arena is sound and no entry kept while one is created.
LEMMA Unsound ==
  ASSUME IInv, NEW p \in Procs, Creating(p)
  PROVE  /\ ~sound /\ lost = 0 /\ \A q \in Procs : kept[q] = Nothing
         /\ region = "sized" /\ ~handle[p] /\ (alone = p \/ alone = NoProc)
  BY Typed DEF IInv, Quiet, Alone, Control, Opening, Creating, RegionOK

LEMMA MapKeeps ==
  ASSUME IInv, NEW p \in Procs, Map(p) PROVE IInv'
<1>1. CASE Null(p) /\ UNCHANGED <<alone, history>>
  <2>1. ~Creating(p) /\ Opening(p)
    BY DEF Map, Creating, Opening
  <2> QED  BY <1>1, <2>1, NullKeeps DEF Map
<1>2. CASE /\ Goto(p, "header", 1)
           /\ alone' = IF \E q \in Procs \ {p} : handle[q] \/ Creating(q) THEN NoProc ELSE p
           /\ sound' = FALSE /\ lost' = 0
           /\ kept' = [q \in Procs |-> Nothing]
  <2>1. /\ MoveTo(p, "header", 1, handle[p]) /\ ~handle[p] /\ region = "sized" /\ pc[p] = "map"
        /\ \A q \in Procs \ {p} : ~Flushing(q)
    BY <1>2, GotoMoves, NoOtherFlush DEF Map, IInv, Control, Opening
  <2>2. Moved(p, "header", 1, handle[p])
    BY <2>1, MoveTyped, HandleTyped DEF Labels
  <2>3. /\ region' = region /\ header' = header /\ used_count' = used_count
        /\ state' = state /\ key' = key /\ bytes' = bytes /\ len' = len
    BY DEF Map, slotVars
  <2>4. RegionOK'
    <3>1. /\ alone' \in Procs \cup {NoProc} /\ sound' \in BOOLEAN
          /\ kept' \in [Procs -> Lengths \cup {Torn, Nothing}]
      BY <1>2
    <3>2. lost' \in 0 .. Wrap - 1
      BY <1>2, ArenaAssumption
    <3> QED  BY <2>3, <3>1, <3>2, Typed DEF RegionOK
  <2>5. Control'
    BY <2>1, <2>2, <2>3
    DEF Moved, IInv, Control, Opening, Using, Writing, Flushing, Creating, Wiping
  <2>6. Alone' /\ Quiet'
    BY <1>2, <2>2, ArenaAssumption DEF Moved, Alone, Quiet, Creating
  <2>7. Data'
    BY <1>2, <2>1, <2>2
    DEF Moved, Data, Wiped, Wiping, Emptied, Flushing, Used, SoundArena, EntriesKept
  <2> QED  BY <2>2, <2>4, <2>5, <2>6, <2>7, MovesPrimed DEF IInv, Moved
<1> QED  BY <1>1, <1>2 DEF Map

\* A creator goes on.
LEMMA CreatorKeeps ==
  ASSUME IInv, NEW p \in Procs, Creating(p),
         NEW label \in {"header", "init", "rest"}, NEW i \in Nat,
         MoveTo(p, label, i, handle[p]),
         UNCHANGED <<region, bytes, alone, sound, lost, kept>>,
         header \subseteq header', header' \subseteq Checked,
         label = "header" => i \in 1 .. 4 /\ \A j \in 1 .. 3 : j < i => Fields[j] \in header',
         label # "header" => i \in Slots /\ header' = Checked,
         alone = p /\ label # "header" =>
           /\ used_count' = 0
           /\ \A j \in Slots : j < i \/ (j = i /\ label = "rest") => state'[j] = STATE_EMPTY,
         used_count' \in 0 .. Wrap - 1,
         state' \in [Slots -> {STATE_EMPTY, STATE_OCCUPIED, STATE_TOMBSTONE}],
         key' \in [Slots -> BOOLEAN], len' \in [Slots -> Lengths \cup {0}]
  PROVE  IInv'
<1>1. /\ ~sound /\ lost = 0 /\ \A q \in Procs : kept[q] = Nothing
      /\ region = "sized" /\ ~handle[p] /\ (alone = p \/ alone = NoProc)
  BY Unsound
<1>2. Moved(p, label, i, handle[p]) /\ \A q \in Procs \ {p} : ~Flushing(q)
  BY MoveTyped, HandleTyped, NoOtherFlush DEF Labels, Creating
<1>3. RegionOK'
  BY Typed DEF RegionOK
<1>4. Control'
  <2>1. ASSUME NEW q \in Procs \ {p}
        PROVE  /\ Opening(q)' => ~handle'[q]
               /\ Using(q)' => handle'[q]
               /\ pc'[q] = "map" \/ Creating(q)' \/ handle'[q] => region' = "sized"
               /\ handle'[q] => "magic" \in header'
               /\ pc'[q] = "header" => \A j \in 1 .. 3 : j < at'[q] => Fields[j] \in header'
               /\ Wiping(q)' => header' = Checked
    BY <1>2
    DEF Moved, IInv, Control, Opening, Using, Writing, Flushing, Creating, Wiping
  <2>2. /\ Opening(p)' => ~handle'[p]
        /\ Using(p)' => handle'[p]
        /\ pc'[p] = "map" \/ Creating(p)' \/ handle'[p] => region' = "sized"
        /\ handle'[p] => "magic" \in header'
        /\ pc'[p] = "header" => \A j \in 1 .. 3 : j < at'[p] => Fields[j] \in header'
        /\ Wiping(p)' => header' = Checked
    BY <1>1, <1>2 DEF Moved, Opening, Using, Writing, Flushing, Creating, Wiping
  <2> QED  BY <2>1, <2>2 DEF Control
<1>5. Alone' /\ Quiet'
  BY <1>1, <1>2 DEF Moved, IInv, Alone, Quiet, Creating
<1>6. Wiped' /\ Emptied'
  BY <1>1, <1>2 DEF Moved, Wiped, Wiping, Emptied, Flushing
<1>7. Used' /\ SoundArena' /\ EntriesKept'
  BY <1>1 DEF Used, SoundArena, EntriesKept
<1> QED  BY <1>2, <1>3, <1>4, <1>5, <1>6, <1>7, MovesPrimed DEF IInv, Data, Moved

LEMMA StoreHeaderKeeps ==
  ASSUME IInv, NEW p \in Procs, StoreHeader(p) PROVE IInv'
<1>1. /\ Creating(p) /\ pc[p] = "header" /\ at[p] \in 1 .. 4 /\ header \subseteq Checked
      /\ \A j \in 1 .. 3 : j < at[p] => Fields[j] \in header
      /\ UNCHANGED <<region, state, key, bytes, len, alone, sound, lost, kept>>
  BY Typed DEF StoreHeader, Creating, IInv, Control, MovesOK, RegionOK, history
<1>2. /\ state' \in [Slots -> {STATE_EMPTY, STATE_OCCUPIED, STATE_TOMBSTONE}]
      /\ key' \in [Slots -> BOOLEAN] /\ len' \in [Slots -> Lengths \cup {0}]
      /\ used_count \in 0 .. Wrap - 1 /\ 0 \in 0 .. Wrap - 1
  BY <1>1, Typed, ArenaAssumption DEF RegionOK
<1>3. CASE at[p] = 4
  <2>1. Fields[at[p]] = "used_count" /\ header = Checked
    <3>1. {Fields[1], Fields[2], Fields[3]} \subseteq header
      BY <1>1, <1>3
    <3>2. /\ Fields[1] = "magic" /\ Fields[2] = "version" /\ Fields[3] = "slot_count"
          /\ Fields[4] = "used_count"
      BY DEF Fields
    <3> QED  BY <1>1, <1>3, <3>1, <3>2 DEF Checked
  <2>2. MoveTo(p, "init", 0, handle[p]) /\ header' = Checked /\ used_count' = 0
    BY <2>1, GotoMoves DEF StoreHeader, ResetCount
  <2>3. 0 \in Slots /\ \A j \in Slots : ~(j < 0)
    BY ArenaAssumption DEF Slots
  <2> QED  BY <1>1, <1>2, <2>1, <2>2, <2>3, CreatorKeeps
<1>4. CASE at[p] # 4
  <2>1. Fields[at[p]] \in Checked /\ Fields[at[p]] # "used_count"
    BY <1>1, <1>4 DEF Fields, Checked
  <2>2. /\ MoveTo(p, "header", at[p] + 1, handle[p])
        /\ header' = header \cup {Fields[at[p]]} /\ used_count' = used_count
    BY <2>1, GotoMoves DEF StoreHeader
  <2>3. at[p] + 1 \in 1 .. 4 /\ \A j \in 1 .. 3 : j < at[p] + 1 => Fields[j] \in header'
    BY <1>1, <1>4, <2>2
  <2> QED  BY <1>1, <1>2, <2>1, <2>2, <2>3, CreatorKeeps
<1> QED  BY <1>3, <1>4

\* The two halves of Slot::init.
LEMMA InitStateKeeps ==
  ASSUME IInv, NEW p \in Procs, InitState(p) PROVE IInv'
<1>1. /\ Creating(p) /\ at[p] \in Slots /\ at[p] \in Nat /\ header = Checked
      /\ MoveTo(p, "rest", at[p], handle[p])
      /\ state' = [state EXCEPT ![at[p]] = STATE_EMPTY]
      /\ UNCHANGED <<region, header, used_count, key, bytes, len, alone, sound, lost, kept>>
  BY Typed, GotoMoves DEF InitState, Creating, Wiping, IInv, Control, MovesOK, history
<1>2. /\ state' \in [Slots -> {STATE_EMPTY, STATE_OCCUPIED, STATE_TOMBSTONE}]
      /\ key' \in [Slots -> BOOLEAN] /\ len' \in [Slots -> Lengths \cup {0}]
      /\ used_count' \in 0 .. Wrap - 1
  BY <1>1, Typed DEF RegionOK
<1>3. alone = p =>
        /\ used_count' = 0
        /\ \A j \in Slots : j < at[p] \/ j = at[p] => state'[j] = STATE_EMPTY
  BY <1>1, ArenaAssumption, Typed DEF InitState, IInv, RegionOK, Data, Wiped, Wiping
<1> QED  BY <1>1, <1>2, <1>3, CreatorKeeps

LEMMA InitRestKeeps ==
  ASSUME IInv, NEW p \in Procs, InitRest(p) PROVE IInv'
<1>1. /\ Creating(p) /\ at[p] \in Slots /\ at[p] \in Nat /\ header = Checked
      /\ UNCHANGED <<region, header, used_count, state, bytes, lost, kept>>
  BY Typed DEF InitRest, Creating, Wiping, IInv, Control, MovesOK
<1>2. /\ state' \in [Slots -> {STATE_EMPTY, STATE_OCCUPIED, STATE_TOMBSTONE}]
      /\ key' \in [Slots -> BOOLEAN] /\ len' \in [Slots -> Lengths \cup {0}]
      /\ used_count' \in 0 .. Wrap - 1
  BY <1>1, Typed DEF RegionOK, InitRest
<1>3. alone = p =>
        /\ used_count = 0
        /\ \A j \in Slots : j < at[p] \/ j = at[p] => state[j] = STATE_EMPTY
  BY ArenaAssumption DEF InitRest, IInv, Data, Wiped, Wiping
<1>4. /\ ~sound /\ lost = 0 /\ \A q \in Procs : kept[q] = Nothing
      /\ region = "sized" /\ ~handle[p] /\ (alone = p \/ alone = NoProc)
  BY <1>1, Unsound
<1>5. CASE ~LastSlot(at[p])
  <2>1. /\ MoveTo(p, "init", at[p] + 1, handle[p]) /\ UNCHANGED <<sound, alone>>
    BY <1>5, GotoMoves DEF InitRest
  <2>2. at[p] + 1 \in Slots /\ \A j \in Slots : j < at[p] + 1 => j < at[p] \/ j = at[p]
    BY <1>1, <1>5, ArenaAssumption DEF LastSlot, Slots
  <2> QED  BY <1>1, <1>2, <1>3, <2>1, <2>2, CreatorKeeps
<1>6. CASE LastSlot(at[p])
  <2>1. /\ MoveTo(p, "idle", 0, TRUE)
        /\ sound' = (alone = p) /\ alone' = NoProc
    BY <1>4, <1>6, ReturnMoves DEF InitRest
  <2>1a. sound' => alone = p /\ alone # NoProc
    BY <2>1, ArenaAssumption
  <2>2. Moved(p, "idle", 0, TRUE) /\ \A q \in Procs \ {p} : ~Flushing(q)
    BY <1>1, <2>1, MoveTyped, NoOtherFlush DEF Labels, Creating
  <2>3. RegionOK'
    <3>1. sound' \in BOOLEAN /\ alone' \in Procs \cup {NoProc}
      BY <2>1
    <3> QED  BY <1>1, <1>2, <3>1, Typed DEF RegionOK
  <2>4. Control'
    BY <1>1, <1>4, <2>2
    DEF Moved, IInv, Control, Opening, Using, Writing, Flushing, Creating, Wiping, Checked
  <2>5. Alone' /\ Wiped'
    BY <2>1 DEF Alone, Wiped
  <2>6. Quiet' /\ EntriesKept' /\ Emptied'
    BY <1>1, <1>4, <2>1a, <2>1, <2>2
    DEF Moved, IInv, Alone, Quiet, EntriesKept, Emptied, Creating, Flushing
  <2>7. sound' => \A i \in Slots : state'[i] = STATE_EMPTY
    BY <1>1, <1>3, <1>6, <2>1a, ArenaAssumption DEF LastSlot, Slots
  <2>8. sound' => \A q \in Procs : ~Using(q)'
    BY <2>1a, <2>2 DEF Moved, IInv, Alone, Control, Using, Writing, Flushing
  <2>9. Used'
    BY <2>7, <2>8 DEF Used, Using
  <2>10. SoundArena'
    <3> SUFFICES ASSUME sound' PROVE SoundArena'
      BY DEF SoundArena
    <3>1. Entries' = {}
      BY <2>7 DEF Entries, STATE_EMPTY, STATE_OCCUPIED
    <3>2. Under("count")' = {} /\ Under("del_count")' = {}
      BY <2>8 DEF Under, Using
    <3>3. used_count' = 0 /\ lost' = 0 /\ region' = "sized" /\ header' = Checked
      BY <1>1, <1>3, <1>4, <2>1a
    <3>4. 0 = (0 + 0 - 0 - 0) % Wrap
      BY ArenaAssumption
    <3> QED  BY <3>1, <3>2, <3>3, <3>4, FS_EmptySet DEF SoundArena
  <2> QED  BY <2>2, <2>3, <2>4, <2>5, <2>6, <2>9, <2>10, MovesPrimed DEF IInv, Data, Moved
<1> QED  BY <1>5, <1>6

-----------------------------------------------------------------------------
(* The theorems.                                                           *)

LEMMA NextKeeps == ASSUME IInv, [Next]_vars PROVE IInv'
<1>1. ASSUME NEW p \in Procs, Creates(p) PROVE IInv'
  BY <1>1, CreateKeeps, SizeKeeps, MapKeeps, StoreHeaderKeeps, InitStateKeeps, InitRestKeeps
  DEF Creates
<1>2. ASSUME NEW p \in Procs, Opens(p) PROVE IInv'
  BY <1>2, OpenKeeps, AttachKeeps, BusErrorKeeps DEF Opens
<1>3. ASSUME NEW p \in Procs, Ends(p) PROVE IInv'
  BY <1>3, CloseKeeps, CrashKeeps DEF Ends
<1>4. ASSUME NEW p \in Procs, Uses(p) PROVE IInv'
  BY <1>4, RefuseKeeps, UpdateKeeps, ClaimKeeps, WriteBytesKeeps, WriteLenKeeps, PublishKeeps,
     CountKeeps, GetKeeps, ExistsKeeps, DelKeeps, FlushKeeps, FlushSlotKeeps, FlushCountKeeps,
     CountersKeep
  DEF Uses, Sets, Flushes
<1>5. CASE UNCHANGED vars
  <2>1. /\ UNCHANGED <<region, header, used_count, state, key, bytes, len>>
        /\ UNCHANGED <<pc, at, scan, handle, alone, sound, lost, kept>>
    BY <1>5 DEF vars, slotVars, history
  <2>2. TypeOK' /\ Control' /\ Alone' /\ Quiet'
    BY <2>1
    DEF IInv, TypeOK, Control, Alone, Quiet, Opening, Using, Writing, Flushing, Creating, Wiping
  <2>3. Wiped' /\ Emptied' /\ Used' /\ EntriesKept'
    BY <2>1
    DEF IInv, Data, Wiped, Emptied, Used, AtSlot, EntriesKept, Writing, Flushing, Wiping
  <2>4. SoundArena'
    <3>1. Entries' = Entries /\ Under("count")' = Under("count")
          /\ Under("del_count")' = Under("del_count")
      BY <2>1 DEF Entries, Under
    <3> QED  BY <2>1, <3>1 DEF IInv, Data, SoundArena
  <2> QED  BY <2>2, <2>3, <2>4 DEF IInv, Data
<1> QED  BY <1>1, <1>2, <1>3, <1>4, <1>5 DEF Next

LEMMA Inductive == Spec => []IInv
  BY InitHolds, NextKeeps, PTL DEF Spec

\* However processes create, open, use and close arenas and die, the stores of
\* create_arena and of the calls stay within the region and used_count within
\* its width.
THEOREM TypeCorrect == Spec => []TypeOK
<1>1. IInv => TypeOK
  BY DEF IInv
<1> QED  BY <1>1, Inductive, PTL

\* No handle, and no creator behind ftruncate, is ever without memory of the full
\* size: open_arena returns only what a creation has sized and marked.
THEOREM Backed == Spec => []AttachedIsBacked
<1>1. IInv => AttachedIsBacked
  BY DEF IInv, Control, AttachedIsBacked
<1> QED  BY <1>1, Inductive, PTL

\* An arena created undisturbed, or flushed, has a complete header and only entries
\* that were stored; and used_count is their number, but for the calls that are
\* between an entry and its count and those that died there.  So it stays up to the
\* next creation or FLUSH, whatever lay in the region before.
THEOREM SoundStays == Spec => []SoundArena
<1>1. IInv => SoundArena
  BY DEF IInv, Data
<1> QED  BY <1>1, Inductive, PTL

\* An entry stored in such an arena survives every drop and every death, and its
\* value is the last that was set, but where its owner is in the middle of
\* overwriting it, or died there.
THEOREM EntriesSurvive == Spec => []EntriesKept
<1>1. IInv => EntriesKept
  BY DEF IInv, Data
<1> QED  BY <1>1, Inductive, PTL

-----------------------------------------------------------------------------
(* What ml_get tells.                                                      *)

LEMMA CopyLenFits ==
  ASSUME NEW l \in Nat, NEW room \in Nat
  PROVE  /\ CopyLen(l, room) <= room
         /\ CopyLen(l, room) = l \/ (CopyLen(l, room) = room /\ room < l)
<1>1. CASE l < room
  BY <1>1 DEF CopyLen
<1>2. CASE ~(l < room)
  BY <1>2 DEF CopyLen
<1> QED  BY <1>1, <1>2

\* No step but ml_get and a refusal leaves an answer of op "get".
LEMMA GetAnswers ==
  ASSUME IInv, [Next]_vars, GetTells PROVE GetTells'
<1>1. ASSUME NEW p \in Procs, Refuse(p) PROVE GetTells'
  <2>1. answer' = Code(0) \/ answer' = Got(p, -2, 0)
    BY <1>1 DEF Refuse, Answer, Return
  <2> QED  BY <2>1 DEF GetTells, Code, Got
<1>2. ASSUME NEW p \in Procs, Get(p) PROVE GetTells'
  <2> DEFINE n(room) == IF Holds(p) THEN CopyLen(len[Home[p]], room) ELSE -1
  <2>1. PICK room \in Rooms : answer' = Got(p, n(room), room)
    BY <1>2 DEF Get, Return
  <2>2. kept' = kept /\ room \in Nat
    BY <1>2, ArenaAssumption DEF Get, history
  <2>3. ASSUME kept[p] \notin {Nothing, Torn} PROVE Holds(p) /\ len[Home[p]] = kept[p]
    BY <2>3 DEF IInv, Data, EntriesKept, Holds
  <2>4. len[Home[p]] \in Nat
    BY ArenaAssumption, SlotTyped
  <2>5. answer'.code = n(room) /\ answer'.room = room /\ answer'.proc = p
    BY <2>1 DEF Got
  <2> HIDE DEF n
  <2>6. /\ n(room) <= room
        /\ Holds(p) => n(room) = len[Home[p]] \/ (n(room) = room /\ room < len[Home[p]])
    <3>1. CASE Holds(p)
      <4>1. n(room) = CopyLen(len[Home[p]], room)
        BY <3>1 DEF n
      <4> QED  BY <2>2, <2>4, <4>1, CopyLenFits
    <3>2. CASE ~Holds(p)
      <4>1. n(room) = -1
        BY <3>2 DEF n
      <4> QED  BY <2>2, <3>2, <4>1
    <3> QED  BY <3>1, <3>2
  <2> QED  BY <2>2, <2>3, <2>5, <2>6 DEF GetTells
<1>3. ASSUME NEW p \in Procs, Creates(p) PROVE answer'.op # "get"
  BY <1>3 DEF Creates, Create, Size, Map, StoreHeader, InitState, InitRest, Goto, Null, Return,
     NoAnswer, Code
<1>4. ASSUME NEW p \in Procs, Opens(p) \/ Ends(p) PROVE answer'.op # "get"
  BY <1>4 DEF Opens, Ends, Open, Attach, BusError, Close, Crash, Gone, Goto, Null, Return,
     NoAnswer, Code
<1>5. ASSUME NEW p \in Procs, Uses(p), ~Refuse(p), ~Get(p) PROVE answer'.op # "get"
  BY <1>5 DEF Uses, Sets, Flushes, Update, Claim, Write, WriteBytes, WriteLen, Publish, Count,
     Exists, Del, DelCount, Flush, FlushSlot, FlushCount, UsedCount, Capacity, Goto, Answer,
     Return, NoAnswer, Code
<1>6. CASE UNCHANGED vars
  BY <1>6 DEF vars, history, GetTells
<1> QED  BY <1>1, <1>2, <1>3, <1>4, <1>5, <1>6 DEF Next, GetTells

\* ml_get answers the length of the value that was stored or the room it was
\* given, whichever is less, for every length, every room and every history.
THEOREM GetTellsTrue == Spec => []GetTells
<1>1. Init => GetTells
  BY DEF Init, GetTells, NoAnswer, Code
<1> QED  BY <1>1, Inductive, GetAnswers, PTL DEF Spec

=============================================================================
