------------------------------- MODULE Arena -------------------------------
(***************************************************************************)
(* The life of the shared arena (src/shm.rs) as seen through the handles   *)
(* of the C interface (src/lib.rs): processes create it, open it, use it   *)
(* and close it, in any order, and may die at any step.  The name and what *)
(* is behind it outlive them all.                                          *)
(*                                                                         *)
(* A process stands for one handle.  Each uses one key, and the keys lie   *)
(* in slots of their own: what goes wrong here is the arena's doing, not a *)
(* race of the map, whose steps are in HashMap.                            *)
(***************************************************************************)
EXTENDS Integers, FiniteSets

CONSTANTS
  Procs,   \* processes, each with a handle or without
  N,       \* SLOT_COUNT
  Home,    \* Home[p]: the slot of the key that p uses
  Lens,    \* Lens[p]: the lengths of the values that p sets
  Rooms,   \* the out_buf_len arguments in use
  Wrap,    \* 2^64: used_count is an AtomicU64
  Torn,    \* bytes that are no value as it was stored
  Nothing,
  NoProc

Slots == 0 .. N - 1
Homes == {Home[p] : p \in Procs}
Lengths == UNION {Lens[p] : p \in Procs}

ASSUME ArenaAssumption ==
  /\ N \in Nat \ {0}
  /\ Wrap \in Nat /\ Wrap > N
  /\ Home \in [Procs -> Slots]
  /\ \A p, q \in Procs : Home[p] = Home[q] => p = q
  /\ Slots \ Homes # {}        \* the table is never full
  /\ Lengths \subseteq Nat /\ Rooms \subseteq Nat
  /\ Torn \notin Lengths /\ Nothing \notin Lengths /\ Torn # Nothing
  /\ NoProc \notin Procs

VARIABLES
  region,      \* the named object: "absent", "empty" (of size 0) or "sized"
  header,      \* the fields of ArenaHeader that hold their proper value
  used_count,  \* ArenaHeader.used_count
  state,       \* the slots
  key,         \* key[i]: key and fingerprint are those of the key whose home i is
  bytes, len,  \* val_buf and val_len: a value is known by its length
  pc, at,      \* where a process is in its call; its loop index, or the length
               \* of the value it sets
  scan,        \* where the scan of its SET ended: at the key, at an EMPTY slot,
               \* or behind the last slot
  handle,      \* handle[p]: p has an Arena
  answer,      \* the code the last step returned, and the room ml_get had
  alone,       \* history: the creator nobody has joined since it began to write
  sound,       \* history: it, or a FLUSH, has returned, and none has begun since
  lost,        \* history: what used_count lacks because of deaths in a sound arena
  kept         \* history: kept[p]: what p stored in a sound arena, Torn if it
               \* was last seen overwriting it

slotVars == <<header, used_count, state, key, bytes, len>>
history == <<sound, lost, kept>>
vars == <<region, slotVars, pc, at, scan, handle, answer, alone, history>>

STATE_EMPTY     == 0
STATE_OCCUPIED  == 1
STATE_TOMBSTONE == 2

\* The stores to the header, in the order of create_arena.
Fields == <<"magic", "version", "slot_count", "used_count">>
Checked == {"magic", "version", "slot_count"}

\* p is past mmap in create_arena.
Creating(p) == pc[p] \in {"header", "init", "rest"}

\* The code of ml_get and that of any other function.
Got(p, n, room) == [op |-> "get", proc |-> p, code |-> n, room |-> room]
Code(n) == [op |-> "other", proc |-> NoProc, code |-> n, room |-> 0]
NoAnswer == Code(0)

-----------------------------------------------------------------------------
(* The moves of one process.                                               *)

Goto(p, label, i) ==
  /\ pc' = [pc EXCEPT ![p] = label]
  /\ at' = [at EXCEPT ![p] = i]
  /\ answer' = NoAnswer
  /\ UNCHANGED <<scan, handle>>

\* A call returns; h says whether p has an arena now.
Return(p, h, ans) ==
  /\ pc' = [pc EXCEPT ![p] = "idle"]
  /\ at' = [at EXCEPT ![p] = 0]
  /\ scan' = [scan EXCEPT ![p] = "none"]
  /\ handle' = [handle EXCEPT ![p] = h]
  /\ answer' = ans

Null(p) == Return(p, FALSE, Code(0))
Answer(p, n) == Return(p, handle[p], Code(n))

\* lib.rs on ml_flush: "Not safe to call while other processes are active."  The
\* callers are taken to heed it.
NoFlush == \A q \in Procs : pc[q] \notin {"flush", "flush_count"}

Idle(p) == pc[p] = "idle" /\ NoFlush

-----------------------------------------------------------------------------
(* create_arena.                                                           *)

\* shm_open with O_CREAT, neither O_EXCL nor O_TRUNC, or its failure.
Create(p) ==
  /\ Idle(p) /\ ~handle[p]
  /\ \/ /\ region' = IF region = "absent" THEN "empty" ELSE region
        /\ Goto(p, "size", 0)
     \/ Null(p) /\ UNCHANGED region
  /\ UNCHANGED <<slotVars, alone, history>>

\* ftruncate: what it adds is zero, what is there stays.
Size(p) ==
  /\ pc[p] = "size"
  /\ \/ region' = "sized" /\ Goto(p, "map", 0)
     \/ Null(p) /\ UNCHANGED region
  /\ UNCHANGED <<slotVars, alone, history>>

\* mmap.  From here on the region is written, whoever else uses it.
Map(p) ==
  /\ pc[p] = "map"
  /\ \/ /\ Goto(p, "header", 1)
        /\ alone' = IF \E q \in Procs \ {p} : handle[q] \/ Creating(q)
                    THEN NoProc ELSE p
        /\ sound' = FALSE /\ lost' = 0
        /\ kept' = [q \in Procs |-> Nothing]
     \/ Null(p) /\ UNCHANGED <<alone, history>>
  /\ UNCHANGED <<region, slotVars>>

\* Fault: the count of an earlier arena is left.
ResetCountForgotten == used_count

ResetCount == 0

StoreHeader(p) ==
  /\ pc[p] = "header"
  /\ IF Fields[at[p]] = "used_count"
     THEN used_count' = ResetCount /\ UNCHANGED header /\ Goto(p, "init", 0)
     ELSE /\ header' = header \cup {Fields[at[p]]}
          /\ Goto(p, "header", at[p] + 1)
          /\ UNCHANGED used_count
  /\ UNCHANGED <<region, state, key, bytes, len, alone, history>>

\* Slot::init stores the state first ...
InitState(p) ==
  /\ pc[p] = "init"
  /\ state' = [state EXCEPT ![at[p]] = STATE_EMPTY]
  /\ Goto(p, "rest", at[p])
  /\ UNCHANGED <<region, header, used_count, key, bytes, len, alone, history>>

\* Fault: the loop runs once too often.
LastSlotLate(i) == i = N

LastSlot(i) == i = N - 1

\* ... and then the other fields, not the buffers; create_arena returns after the
\* last slot.
InitRest(p) ==
  /\ pc[p] = "rest"
  /\ key' = [key EXCEPT ![at[p]] = FALSE]
  /\ len' = [len EXCEPT ![at[p]] = 0]
  /\ IF LastSlot(at[p])
     THEN /\ Return(p, TRUE, Code(1))
          /\ sound' = (alone = p)
          /\ alone' = IF alone = p THEN NoProc ELSE alone
     ELSE Goto(p, "init", at[p] + 1) /\ UNCHANGED <<sound, alone>>
  /\ UNCHANGED <<region, header, used_count, state, bytes, lost, kept>>

-----------------------------------------------------------------------------
(* open_arena and drop.                                                    *)

\* shm_open without O_CREAT, and mmap, which succeeds whatever the size is.
Open(p) ==
  /\ Idle(p) /\ ~handle[p]
  /\ \/ region # "absent" /\ Goto(p, "check", 0)
     \/ Null(p)
  /\ UNCHANGED <<region, slotVars, alone, history>>

\* Fault: the header is not looked at.
ValidUnchecked == TRUE

\* All that open_arena looks at.
Valid == "magic" \in header

Attach(p) ==
  /\ pc[p] = "check" /\ region = "sized"
  /\ \/ /\ Valid
        /\ Return(p, TRUE, Code(1))
        /\ alone' = NoProc
     \/ /\ ~Valid
        /\ Null(p)
        /\ UNCHANGED alone
  /\ UNCHANGED <<region, slotVars, history>>

Gone(p) ==
  /\ pc' = [pc EXCEPT ![p] = "idle"]
  /\ at' = [at EXCEPT ![p] = 0]
  /\ scan' = [scan EXCEPT ![p] = "none"]
  /\ handle' = [handle EXCEPT ![p] = FALSE]
  /\ alone' = IF alone = p THEN NoProc ELSE alone
  /\ answer' = NoAnswer

\* The header lies beyond the end of the object: the access ends the process.
BusError(p) ==
  /\ pc[p] = "check" /\ region # "sized"
  /\ Gone(p)
  /\ UNCHANGED <<region, slotVars, history>>

\* Fault: the last to close removes the name.
CloseUnlinks(p) ==
  /\ Idle(p) /\ handle[p]
  /\ Null(p)
  /\ region' = IF \A q \in Procs \ {p} : ~handle[q] THEN "absent" ELSE region
  /\ UNCHANGED <<slotVars, alone, history>>

\* munmap and close.  Nothing removes the name.
Close(p) ==
  /\ Idle(p) /\ handle[p]
  /\ Null(p)
  /\ UNCHANGED <<region, slotVars, alone, history>>

\* A process ends anywhere and another takes its place.  What it had still to
\* add to used_count, or to take off it, is lost.
Crash(p) ==
  /\ pc[p] # "idle" \/ handle[p]
  /\ Gone(p)
  /\ lost' = CASE sound /\ pc[p] = "count"     -> (lost + 1) % Wrap
               [] sound /\ pc[p] = "del_count" -> (lost - 1) % Wrap
               [] OTHER                        -> lost
  /\ UNCHANGED <<region, slotVars, sound, kept>>

-----------------------------------------------------------------------------
(* The functions of the C interface on an arena.                           *)

\* Every function checks its pointers first; a key or value that is too long
\* is an error as well, and it has the same code.
Refuse(p) ==
  /\ Idle(p)
  /\ Answer(p, 0) \/ Return(p, handle[p], Got(p, -2, 0))
  /\ UNCHANGED <<region, slotVars, alone, history>>

\* p's key is in the map.  A slot that a creation has wiped behind its OCCUPIED
\* holds no key.
Holds(p) == state[Home[p]] = STATE_OCCUPIED /\ key[Home[p]]

Keep(p, l) == kept' = [kept EXCEPT ![p] = IF sound THEN l ELSE Nothing]

\* A SET has scanned the table and begins to copy a value of length l into its
\* slot.
Write(p, end, l) ==
  /\ pc' = [pc EXCEPT ![p] = "copy"]
  /\ at' = [at EXCEPT ![p] = l]
  /\ scan' = [scan EXCEPT ![p] = end]
  /\ answer' = NoAnswer
  /\ bytes' = [bytes EXCEPT ![Home[p]] = Torn]
  /\ UNCHANGED <<region, header, used_count, state, len, handle, alone, sound, lost>>

\* ml_set of a key that is there overwrites its value in place.
Update(p) ==
  /\ Idle(p) /\ handle[p] /\ Holds(p)
  /\ \E l \in Lens[p] : Write(p, "key", l)
  /\ Keep(p, Torn)
  /\ UNCHANGED key

\* Otherwise it claims the slot and writes its key first.  (A set that meets its
\* slot OCCUPIED without its key goes on to another one.  That happens only in an
\* arena that is not sound, and is left out.)
Claim(p) ==
  /\ Idle(p) /\ handle[p] /\ state[Home[p]] # STATE_OCCUPIED
  /\ \E l \in Lens[p] :
       Write(p, IF \E i \in Slots : state[i] = STATE_EMPTY THEN "empty" ELSE "last", l)
  /\ key' = [key EXCEPT ![Home[p]] = TRUE]
  /\ UNCHANGED kept

\* The bytes of the value are all there ...
WriteBytes(p) ==
  /\ pc[p] = "copy"
  /\ bytes' = [bytes EXCEPT ![Home[p]] = at[p]]
  /\ Goto(p, "length", at[p])
  /\ UNCHANGED <<region, header, used_count, state, key, len, alone, history>>

\* ... and then their number.  With that an update is done.
WriteLen(p) ==
  /\ pc[p] = "length"
  /\ len' = [len EXCEPT ![Home[p]] = at[p]]
  /\ IF scan[p] = "key"
     THEN Answer(p, 1) /\ Keep(p, at[p])
     ELSE Goto(p, "publish", at[p]) /\ UNCHANGED kept
  /\ UNCHANGED <<region, header, used_count, state, key, bytes, alone, sound, lost>>

\* A new entry is published ...
Publish(p) ==
  /\ pc[p] = "publish"
  /\ state' = [state EXCEPT ![Home[p]] = STATE_OCCUPIED]
  /\ Keep(p, at[p])
  /\ IF scan[p] = "empty" THEN Goto(p, "count", 0) ELSE Answer(p, 1)
  /\ UNCHANGED <<region, header, used_count, key, bytes, len, alone, sound, lost>>

\* ... and then counted, if the scan ended at an EMPTY slot.
Count(p) ==
  /\ pc[p] = "count"
  /\ used_count' = (used_count + 1) % Wrap
  /\ Answer(p, 1)
  /\ UNCHANGED <<region, header, state, key, bytes, len, alone, history>>

\* Fault: the length of the value is not limited by the room for it.
CopyLenUnbounded(l, room) == l

CopyLen(l, room) == IF l < room THEN l ELSE room

Get(p) ==
  /\ Idle(p) /\ handle[p]
  /\ \E room \in Rooms :
       Return(p, TRUE, Got(p, IF Holds(p) THEN CopyLen(len[Home[p]], room) ELSE -1, room))
  /\ UNCHANGED <<region, slotVars, alone, history>>

Exists(p) ==
  /\ Idle(p) /\ handle[p]
  /\ Answer(p, IF Holds(p) THEN 1 ELSE 0)
  /\ UNCHANGED <<region, slotVars, alone, history>>

\* The compare-exchange of ml_del ...
Del(p) ==
  /\ Idle(p) /\ handle[p]
  /\ \/ /\ Holds(p)
        /\ state' = [state EXCEPT ![Home[p]] = STATE_TOMBSTONE]
        /\ kept' = [kept EXCEPT ![p] = Nothing]
        /\ Goto(p, "del_count", 0)
     \/ /\ ~Holds(p)
        /\ Answer(p, 0)
        /\ UNCHANGED <<state, kept>>
  /\ UNCHANGED <<region, header, used_count, key, bytes, len, alone, sound, lost>>

\* ... and the count after it.
DelCount(p) ==
  /\ pc[p] = "del_count"
  /\ used_count' = (used_count - 1) % Wrap
  /\ Answer(p, 1)
  /\ UNCHANGED <<region, header, state, key, bytes, len, alone, history>>

\* ml_flush, when no other process is active, slot by slot ...
Flush(p) ==
  /\ Idle(p) /\ handle[p]
  /\ \A q \in Procs : pc[q] = "idle"
  /\ Goto(p, "flush", 0)
  /\ sound' = FALSE /\ lost' = 0
  /\ kept' = [q \in Procs |-> Nothing]
  /\ UNCHANGED <<region, slotVars, alone>>

FlushSlot(p) ==
  /\ pc[p] = "flush"
  /\ state' = [state EXCEPT ![at[p]] = STATE_EMPTY]
  /\ key' = [key EXCEPT ![at[p]] = FALSE]
  /\ len' = [len EXCEPT ![at[p]] = 0]
  /\ IF at[p] = N - 1 THEN Goto(p, "flush_count", 0) ELSE Goto(p, "flush", at[p] + 1)
  /\ UNCHANGED <<region, header, used_count, bytes, alone, history>>

\* ... and then the count.
FlushCount(p) ==
  /\ pc[p] = "flush_count"
  /\ used_count' = 0
  /\ sound' = (header = Checked)
  /\ Answer(p, 1)
  /\ UNCHANGED <<region, header, state, key, bytes, len, alone, lost, kept>>

UsedCount(p) ==
  /\ Idle(p) /\ handle[p]
  /\ Answer(p, used_count)
  /\ UNCHANGED <<region, slotVars, alone, history>>

Capacity(p) ==
  /\ Idle(p) /\ handle[p]
  /\ Answer(p, N)
  /\ UNCHANGED <<region, slotVars, alone, history>>

-----------------------------------------------------------------------------
\* The name may be free, or taken by something that is no arena.
Init ==
  /\ \/ /\ region \in {"absent", "empty"}
        /\ state = [i \in Slots |-> STATE_EMPTY]
        /\ used_count = 0
     \/ /\ region = "sized"
        /\ \E st \in {STATE_EMPTY, STATE_OCCUPIED} : state = [i \in Slots |-> st]
        /\ used_count \in {0, Wrap - 1}
  /\ header = {}
  /\ key = [i \in Slots |-> FALSE]
  /\ bytes = [i \in Slots |-> Torn]
  /\ len = [i \in Slots |-> 0]
  /\ pc = [p \in Procs |-> "idle"]
  /\ at = [p \in Procs |-> 0]
  /\ scan = [p \in Procs |-> "none"]
  /\ handle = [p \in Procs |-> FALSE]
  /\ answer = NoAnswer
  /\ alone = NoProc
  /\ sound = FALSE
  /\ lost = 0
  /\ kept = [p \in Procs |-> Nothing]

Creates(p) == \/ Create(p) \/ Size(p) \/ Map(p) \/ StoreHeader(p)
              \/ InitState(p) \/ InitRest(p)
Opens(p) == Open(p) \/ Attach(p) \/ BusError(p)
Ends(p) == Close(p) \/ Crash(p)
Sets(p) == \/ Update(p) \/ Claim(p) \/ WriteBytes(p) \/ WriteLen(p) \/ Publish(p) \/ Count(p)
Flushes(p) == Flush(p) \/ FlushSlot(p) \/ FlushCount(p)
Uses(p) == \/ Refuse(p) \/ Sets(p) \/ Get(p) \/ Exists(p) \/ Del(p) \/ DelCount(p)
           \/ Flushes(p) \/ UsedCount(p) \/ Capacity(p)

Next == \E p \in Procs : Creates(p) \/ Opens(p) \/ Ends(p) \/ Uses(p)

Spec == Init /\ [][Next]_vars

-----------------------------------------------------------------------------
(* Properties.                                                             *)

Labels == {"idle", "size", "map", "header", "init", "rest", "check", "copy", "length",
           "publish", "count", "del_count", "flush", "flush_count"}

\* The type of the state: the stores of the header and the slots stay within
\* the region, used_count within its width.
TypeOK ==
  /\ region \in {"absent", "empty", "sized"}
  /\ header \subseteq Checked
  /\ used_count \in 0 .. Wrap - 1
  /\ state \in [Slots -> {STATE_EMPTY, STATE_OCCUPIED, STATE_TOMBSTONE}]
  /\ key \in [Slots -> BOOLEAN]
  /\ bytes \in [Slots -> Lengths \cup {Torn}]
  /\ len \in [Slots -> Lengths \cup {0}]
  /\ pc \in [Procs -> Labels]
  /\ at \in [Procs -> Nat]
  /\ \A p \in Procs : /\ pc[p] = "header" => at[p] \in 1 .. 4
                      /\ pc[p] \in {"init", "rest", "flush"} => at[p] \in Slots
                      /\ pc[p] \in {"copy", "length", "publish"} => at[p] \in Lengths
  /\ scan \in [Procs -> {"none", "key", "empty", "last"}]
  /\ handle \in [Procs -> BOOLEAN]
  /\ alone \in Procs \cup {NoProc}
  /\ sound \in BOOLEAN
  /\ lost \in 0 .. Wrap - 1
  /\ kept \in [Procs -> Lengths \cup {Torn, Nothing}]

\* Whoever has an arena, or is initialising one, has memory of the full size
\* behind it, and the magic number stays from the moment it was found valid:
\* no process but one that opens dies of a bus error, and that only before the
\* first creation has sized the region.
AttachedIsBacked ==
  \A p \in Procs :
    /\ handle[p] => region = "sized" /\ "magic" \in header
    /\ Creating(p) => region = "sized"

\* The entries in the table, and the calls that have still to count the one they
\* published, or removed.
Entries == {i \in Slots : state[i] = STATE_OCCUPIED}
Under(label) == {p \in Procs : pc[p] = label}

\* An arena whose creator nobody joined before it had returned, or that has been
\* flushed since, has a complete header, no entry that was not stored, and a
\* count that is off by no more than the operations under way, and those that
\* died between an entry and its count; so it stays, whoever opens, closes and
\* dies, until another creation or FLUSH begins.  What is in the region when a
\* creation starts is of no consequence.
SoundArena ==
  sound =>
    /\ region = "sized" /\ header = Checked
    /\ \A i \in Entries : i \in Homes /\ key[i]
    /\ used_count = (Cardinality(Entries) + Cardinality(Under("del_count"))
                       - Cardinality(Under("count")) - lost) % Wrap

\* An entry stored in such an arena is there until its owner deletes it, a
\* FLUSH or another creation, whoever drops the arena and dies; and its value is
\* the last one that was set, in bytes and length, unless its owner is, or died,
\* in the middle of overwriting it.
EntriesKept ==
  \A p \in Procs : kept[p] # Nothing =>
    /\ region = "sized" /\ "magic" \in header
    /\ state[Home[p]] = STATE_OCCUPIED /\ key[Home[p]]
    /\ kept[p] # Torn => bytes[Home[p]] = kept[p] /\ len[Home[p]] = kept[p]

\* memlane.h: ml_get returns the "number of bytes written": all of the value
\* that was stored or as much of it as there is room for, and never more.
GetTells ==
  answer.op = "get" =>
    /\ answer.code <= answer.room
    /\ \A l \in {kept[answer.proc]} \ {Nothing, Torn} : answer.code # -2 =>
         \/ answer.code = l
         \/ answer.code = answer.room /\ answer.room < l

=============================================================================
