# MemLane in TLA+

MemLane is a key-value store in shared memory. Processes map one arena, a table of 65536
slots, and call `get`, `set` and `del` on it directly; there is no server on that path and
no lock. A TCP server with the Redis protocol, a WebSocket bridge with metrics and a
dashboard are built around it.

This directory holds TLA+ modules of the code, TLC configurations that check them on small
instances, and theorems that TLAPS checks for every size. Paths below are relative to
`src/`, where the repository is. A module is checked with
`tlc -config X.cfg M` and proved with `tlapm M.tla`.

## The system

| part | code | state | operations |
|---|---|---|---|
| hash map | `src/hashmap.rs` | none of its own: the slots and `used_count` of the arena | `get`, `set`, `del`, `exists`, `flush_all` |
| slot | `src/slot.rs` | `state`, `fingerprint`, `expires_at_ms` (atomics); `key_len`, `val_len`, key and value buffers (plain bytes) | `read_key`, `read_value`, `write_key`, `write_value` |
| expiry | `src/ttl.rs` | none | `ttl_to_expiry`, `is_expired`, `lazy_evict_if_expired` |
| arena | `src/shm.rs` | the mapping; a header with magic, version, slot count and `used_count` | `create_arena`, `open_arena`, drop |
| client | `src/client.rs` | an arena | the map's operations with length checks; `mget`, `mset`, `incr`, `decr` |
| C interface | `src/lib.rs`, `c_bindings/memlane.h` | a boxed client | one function per client operation |
| RESP | `src/server/resp.rs` | none | `parse`, `encode` |
| TCP server | `src/server/mod.rs` | one task and one `pending` buffer per connection; one client for all | read, parse, dispatch, answer, emit a metric |
| metrics bridge | `src/server/ws_bridge.rs` | bounded channel of events, window counters, broadcast channel | receive event, tick, subscribe, send |
| dashboard | `dashboard/src/hooks/useMetrics.js` | sockets, reconnect timers, history of 60 snapshots | mount, connect, open, message, close, unmount |

Processes meet only in the arena. The server is one more of its users: its connections are
tasks on several threads that call one client, so the hash map is also shared by threads of
one process. The server talks to the bridge through a channel it never waits for
(`try_send`), the bridge to its sockets through a broadcast channel that drops what a slow
reader has not taken, and the dashboard to the bridge through one socket it reopens.

### What makes it hard, and what each part must get right

*Hash map.* Everything is an interleaving of single accesses to shared memory. A lookup
stops at the first EMPTY slot, so a deletion must leave a tombstone; a SET must look beyond a
tombstone before it reuses it, must claim the slot before anybody else, must write all of it
before it publishes it, and must not count it twice or not at all. An expired entry is
removed by whoever meets it. Any process can die anywhere, and the arena survives.
Correctness: probe chains never break; a key has one entry; an occupied slot is whole; an
answer is true of some moment of the call; the count is right; every call returns.

*Client.* `incr`, `decr`, `mget` and `mset` are several map calls, and others call in
between. Correctness: left alone, a call of several steps does what it says, a batch up to the
pair that fails; and beside others a counter never shows more than the number last stored in it
and what was counted since. (That no increment is lost cannot be asked: the second of two that
overlap overwrites the first.)

*Arena.* Creating and opening race: the magic number is stored before the slots are
initialised, and creating again wipes the arena under its users. Nobody removes the name, so an
arena outlives its processes. Correctness: whoever has an arena has memory behind it; an arena
that was created undisturbed is initialised, whatever was there before; through every close
and every death it keeps its entries, with the value last set unless its owner was overwriting it,
and a count that is off by no more than the operations under way and those that died before they
had counted.

*RESP and TCP server.* A command may arrive in pieces and several in one piece, and the
buffer is cleared after an error. Correctness: every complete command is answered once, in
order, however the bytes were cut; what `encode` writes `parse` reads.

*Bridge and dashboard.* A full channel drops events, a slow subscriber skips snapshots. The
page opens a socket again two seconds after each that has closed, and an unmount closes the
socket whose close handler arms the next timer. Correctness: a snapshot counts each event at
most once; there is one chain of sockets and timers, which never ends while the page stays and
never becomes two; what the page shows is true, and no snapshot is in its history twice.

## Plan

1. **HashMap**, **HashMapHistory**, **KVStore**, **HashMapKVStore**: the map, its expiry and
   its slots; an abstract store; the refinement. *Done.* **HashMapProofs**: type correctness,
   the probe chains, a bound on the steps of a call, and with one setter the invariants of the
   table. *Done.*
   **AnswerProofs**: what the answers mean. *Done.* **StoreProofs**: the refinement. *Done.*
2. **Client**, **ClientProofs**: batches and counters over the map. *Done.*
3. **WsBridge**, **WsBridgeProofs**: the metrics from the connections to the dashboards, with
   the numbers of a snapshot. *Done.*
4. **Connection**, with **Parser**, **Resp** and **Commands** as its parameters: `handle_client`
   over a stream cut anywhere. *Done.* **ConnectionProofs**: that the cuts do not matter, and
   that the parser is one for which they do not. *Done.*
5. **Arena**: create, open and close by several processes that use the arena through the C
   interface and may die. *Done.* **ArenaProofs**: all its invariants. *Done.*
6. **Dashboard**: the socket that reconnects, mounting twice and unmounting. *Done.*
   **DashboardProofs**: all its invariants. *Done.*
7. What stays with TLC, and why, is listed at the end of the section on proofs: liveness, and
   two properties of the server's answers.

## Modules

| module | models | |
|---|---|---|
| `HashMap` | `hashmap.rs`, `slot.rs`, `ttl.rs` | the state, one action per access to shared memory, invariants, wait-freedom |
| `HashMapHistory` | | a history of what the map held while a call ran, and what answers mean |
| `KVStore` | | abstract: a dictionary whose calls take effect at one instant |
| `HashMapKVStore` | | the mapping from HashMap to KVStore |
| `HashMapClaims` | | what comments in the code say and the code does not do |
| `Client` | `client.rs` | calls made of map calls |
| `WsBridge` | `server/ws_bridge.rs`, the accept loop and metrics of `server/mod.rs` | channel, windows, snapshots, dashboards |
| `Connection` | `run_server`, `handle_client` in `server/mod.rs` | one task per connection: read, parse, execute, answer |
| `Parser` | `parse` in `server/resp.rs` | values and the parser, without recursive operators, so that it can be proved about |
| `Resp` | the rest of `server/resp.rs` | `parse_all`, encoder, commands |
| `Commands` | `dispatch_command` in `server/mod.rs` | the answer to every command and its effect |
| `Arena` | `shm.rs`, the C interface in `lib.rs` | creating, opening, using and closing the arena; deaths |
| `Dashboard` | `dashboard/src/hooks/useMetrics.js` | sockets, timers, what the page shows |
| `HashMapProofs`, `AnswerProofs`, `StoreProofs`, `ClientProofs`, `WsBridgeProofs`, `ConnectionProofs`, `ArenaProofs`, `DashboardProofs` | | the theorems |
| `MC...` | | constants for TLC: who calls what, and the hash of each key |

Operators after a comment "Fault:" are not used by the specifications. Each is a plausible
bug in the definition that follows it, and with the bug in place TLC refutes a property: the
property does say something about the code.

### HashMap

A process is any thread attached to the arena. `pc[p]` says which access comes next;
`probe` is the loop index `i`, `first_tombstone` the variable of that name in `set`,
`got` the bytes a GET has copied. The loop of the three operations is one set of actions:

- `ProbeEmpty`, `ProbeTombstone`, `ProbeOccupied`: the load of `state` and its three arms;
- `LoadFingerprint`: the fast reject;
- `LoadExpiry`, `ReadClock`, `Evict`: `lazy_evict_if_expired`. The expiry is loaded, *then*
  the clock is read, *then* the compare-exchange runs, and others move in between;
- `CompareKey`, `ReadValue`, `UpdateValue`, `UpdateExpiry`, `DelCas`, `DelCount`: what each
  operation does with a key that matches (GET reads, SET overwrites the value and then the
  expiry, DEL runs its compare-exchange and then lowers the count);
- `WriteKey`, `WriteVal`, `WriteFp`, `WriteExp`, `Publish`, `CountInsert`: `claim_slot` and
  the `fetch_add` that follows it for an EMPTY slot, but not for a reused tombstone at the
  end of the loop;
- `FlushSlot`, `FlushCount`; `Crash`: the process is gone, what it wrote stays; `Tick`.

Abstractions:

- **Buffers** are plain memory that one process may write while another copies it, which is
  a data race: any mix of old and new bytes can be read. A buffer has two halves and each
  copy takes two steps, enough to produce a mix. `key_len` and `val_len` are part of the
  bytes, so a copy whose length belongs to another entry counts as torn.
- **Memory order**: steps interleave sequentially consistently. The code uses Acquire and
  Release throughout, and every slot is published through its own `state`; reorderings that
  the hardware may add between different slots are not explored.
- **Hashing**: `Fp` is any function from keys to numbers. The runs give keys distinct hashes
  that share slots.
- **FLUSH** requires that nothing else runs (`flush_all` says so), and `NoFlush` and
  `CallFlush` enforce it; a process may still die in the middle of it, and `wiping` remembers
  that until another FLUSH completes.
- `exists` is `get` with its answer reduced, and is not repeated.

### Client

A call of the map is one step, as KVStore promises. `Expire` may remove any entry with an
expiry at any time. `before` holds the map at the start of the call as long as nobody else
has changed it; `most[k]` is the number last stored in `k` (0 once it is deleted, flushed or
expired) and the INCRs that have written it since. Both are history. SET and MSET store any value
of `SetVals`, numbers included. If an INCR or DECR has read a higher number before such a store and
is to write after it, that number may come back: `GoesOn` keeps it possible while one is
`Between` its read and its write.
A counter is a number below `W`, which stands for 2^64; every other value is a member of
`Texts` and parses to 0, as `unwrap_or(0)` makes it. `PlusOne` wraps, as a release build
does; a debug build panics there instead. The length checks come before each map call.
FLUSH waits until no other call runs, the contract its comment states.

### WsBridge

Three kinds of tasks. A connection holds a clone of `metrics_tx` (`senders`) and its `Emit` is
the `try_send` after a command: into `queue`, or nowhere if that is full. The aggregator's
`Record`, `Close` and `Tick` are the arms of its `select!`; `Tick` drains the window, computes
the snapshot with its percentiles and sends it. A dashboard's task goes from `WsAccept`
through the handshake and the welcome message into its loop, where it takes a snapshot
(`Receive`), sends it (`Sent`, `SendFails`) or finds that it has been overrun (`Lagged`).

- `log` holds every snapshot sent, and the broadcast channel its last `RingSize`. `next[d]` is
  the position of a receiver. A snapshot sent while there is no receiver is gone.
- The channels of tokio are modelled from their documented behaviour: first in first out,
  `recv` of the metrics channel returns None only when it is empty and no sender is left.
- A tick may come at any time: the time between two windows plays no part in what is checked.
- `last`, `emitted`, `dropped` and `drained` are history.
- `percentile` multiplies and rounds floating-point numbers; `PercentileIndex` does so in
  tenths of a percent.
- The slot counts, a dashboard's pings and other messages are left out: they change nothing
  that is modelled. Both addresses are taken to be free; if 9001 is not, `run_ws_server`
  panics, and every later `try_send` fails and is ignored.
- When the last sender goes, the runtime is taken to live on. (If it is dropped with
  `start_all`'s caller, every task ends where it is.)

### Connection, Parser, Resp and Commands

A task is at `read`, `parse`, `run`, `write` or `write_error`. `Read` appends what has arrived,
any number of pieces up to `ReadBufSize`; `Execute` takes a command that is complete (`val`) and
advances `offset`; `Turn` is one call of the map for it, with `results` what the calls so far have
returned, and after the last one the answer is there; `Reply` has written it and goes back to the
parser; `NeedMore` drains the buffer and reads again; `Reject` and `ReplyError` answer a protocol
error and clear the buffer. `Disconnect` and `WriteFails` end the task at the two places where the
code returns. `Accept` gives a connection a stream, all that its peer is going to write; the peer
may stop anywhere, and may come back. `done`, `replies`, `out`, `clean` and `turns` (the store
before and after each call of the running command) are history.

Parser, encoder and commands are constant operators, which `MCConnection` takes from `Parser`,
`Resp` and `Commands`. All that `Connection` assumes of the parser is `ParseAssumption`: bytes
that come later never change what it has made of the beginning. `ServerParser` proves it of
`Parse` for all buffers; TLC evaluates it on every run, for every piece of every stream.

- `parse` calls itself for the items of an array. `ParseHead` is what it does with everything
  but the items. `Parse` is a recursive function on the offsets into a buffer: the value at an
  offset needs those at later ones only, and `ParseItems` goes through the items of an array in
  the same way. An item that begins where the buffer ends is incomplete.

- The wire consists of *pieces*: the type byte of a line with the text behind it, a run of
  data, the end of a line. Lengths count pieces. A cut inside a piece leaves the parser
  undecided, just as one before it. It differs only after a protocol error: the buffer is
  cleared, and what the rest of a piece is then taken for depends on the cut.
- The store is a dictionary of live keys with the ttl they were set with; `Others` lets an
  entry with a ttl expire at any time, and another process set a key that is not there. `Dispatch`
  is one call of the map: DEL and EXISTS go from key to key, MGET and MSET too, INCR and DECR get
  and then set, and other connections act in between. `HashMap` has the steps of each call. The
  text of errors and of INFO is abstracted, as is letter case.
- `u64` and `i64` are numbers below `W` and from `-W/2` on: INCR may answer a negative number
  (`n as i64`).

`AsWhole` compares with the stream parsed as a whole: it fails if a byte is executed twice or
skipped, wherever the stream was cut. `AnswersReadBack` parses everything written to the peer.
`AnswerTrue` compares an answer with what the calls of its command did to the store. A command
whose task ends before its answer is written has taken effect all the same; no property forbids it.

### Arena

A process stands for one handle of the C interface: it is out (`handle[p]` FALSE), in a call
(`pc[p]`) or attached. `Create`, `Size` and `Map` are `shm_open`, `ftruncate` and `mmap`, each
of which may fail; `StoreHeader` is one store to the header, `InitState` and `InitRest` one
slot. `Open` is `shm_open` and `mmap`, `Attach` the look at the magic number, `BusError` the
same look at an object that has no size yet: such a mapping succeeds, the access ends the
process. `Close` is `ml_close`, `Crash` a death anywhere. The other functions of `lib.rs`
answer as they do, with the one error code they have for everything.

- The map is `HashMap`'s business: each process has a key of its own with a slot of its own, so
  two processes never meet in a slot. A SET has the steps between which a death shows: `Update` or
  `Claim` begins to copy the value (and `Claim` has written the key), `WriteBytes` has copied it,
  `WriteLen` stores its length, `Publish` the state, `Count` the count, if the scan ended at an
  EMPTY slot. `Del` is the compare-exchange and `DelCount` the count after it; `Flush`, `FlushSlot`
  and `FlushCount` are `ml_flush`. `Crash` may come at any of them. A lookup is one step.
- `len` and `bytes` are `val_len` and `val_buf`; a value is known by its length, and `bytes` that
  are being copied are `Torn`. Entries have no expiry: what expires is in `HashMap`.
- A set whose slot is OCCUPIED without its key, as a concurrent creation may leave it, would go on
  to another slot. That is left out; no property speaks of such an arena.
- `ml_flush` requires that no other process is active, as its comment says: it begins when nobody is
  in a call, and until it ends nobody begins one. It may die in the middle.
- The name may be free, exist with size 0, or be taken by something that is no arena, with
  any bytes where the states of the slots and the count will be.
- `alone` is the creator that nobody has joined since it began to write, `sound` says that it, or a
  FLUSH since, has returned and no other has begun, `lost` is what `used_count` lacks because
  somebody died between an entry and its count, `kept[p]` is what `p` stored, or `Torn` if it was
  last seen overwriting it. All four are history: the code knows none of them, and `SoundArena`,
  `EntriesKept` and `GetTells` say what holds if callers keep to "create once, then open".

### Dashboard

A step is one task of the browser: a mount or a cleanup, an event of a socket, a timer, with
all that the handler does. `ready[s]` is the `readyState` of a socket, `wsRef` and
`reconnectTimer` are the refs of the hook. An id is used again when nothing refers to it, so
the page may run for ever.

- `Arm` is `setTimeout(connect, 2000)`. `older[t]` are the sockets that were connecting or
  closing when `t` was armed: they settle before it fires. Without that `connect`, which looks
  for an *open* socket only, could replace one that is still connecting.
- `React.StrictMode` (`dashboard/src/main.jsx:6`) mounts, cleans up and mounts again in a
  development build; `strict` says which build it is, and no other task runs in between.
- A snapshot is its number. `Message` takes any one behind the last over its socket, as the
  bridge may skip some; `WsBridge` has that part. The welcome message and what does not parse
  change nothing.
- The bridge is `up`, `down`, or `blocked`: then the constructor of `WebSocket` throws, which
  is the `catch` of `connect`. It may end one connection (`Ended`) or go away (`Lost`).

## Runs

| run | instance | shows |
|---|---|---|
| `concurrent` | 2 processes call everything, one may die for ever; 2 keys with neighbouring home slots, 2 slots, no expiry | `TypeOK`, `StepsBounded`: a call takes a bounded number of its own steps; `WaitFree`: every call returns, whatever the other process does |
| `one_setter` | one sets 2 keys, one looks up, deletes and evicts; 3 slots, ttl 0 and 1 | `UniqueKey`, `ProbeChainIntact`, `OccupiedIsWhole`, `AnswerSound` |
| `chains` | one sets 3 keys, one looks up and deletes; 2 slots, no expiry | `CountExact`, `UniqueKey`, `AnswerSound`, `FullSound`: tables that fill up and tombstones that are reused |
| `kvstore` | one process, every operation, 3 keys, 2 values, 2 slots, ttl 0 and 1 | `ImplementsKVStore`: refinement of the abstract store |
| `client` | a client that calls everything, one that increments and deletes; batches of up to 2 pairs with too long keys and values; sets of a text and of the highest number; 2 keys, capacity 1; 0.6 million states | `TypeOK`, `NeverOvercounts`, `CallEffect` |
| `metrics` | 1 connection, 1 dashboard that comes and goes; 2 commands, 2 latencies, 3 events, 4 snapshots, channels of 2; 0.5 million states | `TypeOK`, `EventsConserved`, `SnapshotSound`, `InOrder`, `DrainsThenEnds` |
| `commands` | 1 peer that stays, with 8 streams of one to three commands that name every command but FLUSH, and 1 that flushes and may fail at any point; another process that sets a key to the highest number; capacity 1; 0.1 million states | `TypeOK`, `AsWhole`, `AnswersReadBack`, `AnswerTrue`, `AllAnswered` |
| `arena` | 2 processes that may die anywhere; 3 slots, keys in the first and the last, values of length 1 and 2, room for 1 and 2; 1.9 million states | `TypeOK`, `AttachedIsBacked`, `SoundArena`, `EntriesKept`, `GetTells` |
| `dashboard` | both builds; ids for 4 sockets and 3 timers, a history of 2, 4 snapshots; 83 thousand states | `TypeOK`, `OneChain`, `ShownTruly`, `HistoryOnce`, `Reconnects` |
| `claim_...` | 2 processes; the page of a development build | refuted, see below |

`ProbeChainIntact` is model-checked in `one_setter`; that it holds with concurrent setters and
crashes too is proved (`ChainsIntact`).

**Why the bounds are enough.** Two slots and two keys already give a chain that wraps
around the end of the table, and with three keys a table that is full, full of tombstones,
or a mix; three slots add chains of which one part is EMPTY while another is in use. `Fp` puts two
keys on one slot and the third on the next, so chains overlap. A clock
that ticks once, with entries that live one tick, separates "not yet", "just now" and
"refreshed meanwhile".
Calls are not bounded: the processes call for ever, so long histories of reused slots are
explored. `Wrap`, the width of `used_count`, is 1 where the count plays no part (it is
then constantly 0 and drops out of the state), and otherwise small, so that the wrap below
zero happens. In `client` `MaxCount` bounds `most`, and with it the INCRs of a key (and nothing
else: the numbers SET stores are `SetVals`), `MaxBatch` the pairs of a batch. Counters are below
`W` = 3 and a SET may store 2, so one INCR wraps; the first of two overlapping ones is lost. The
keys of `client` are interchangeable and TLC treats them as symmetric; that run
checks no liveness. In `metrics` three events (`MaxEvents`) fill a channel of two and
overflow it, or make windows of up to three samples in any order; four snapshots
(`MaxTicks`) overrun a ring of two by more than one. Dashboards share nothing but `log`, so
one is enough. In `commands` the streams have two commands in a row, values with a
line break, a key that is too long, a table that is full, an option without its value, an
unknown command, a nested array, a protocol error between two commands and an unfinished
command at the end. `W` is 8192, so that a number that another process set to `W` - 1 wraps, and is
answered as a negative one, and 1001 milliseconds are below it. They are cut in every possible way: a read takes up to 8 pieces, longer
commands need several. In `arena` two processes are a creator and whoever disturbs it; of three
slots the first and the last hold keys and the middle one never does, which tells the ends of the
initialising loop apart from its middle; `Wrap` is 4, so the arbitrary count that a creation must
reset is more than any real one, and the count wraps when deaths have taken enough from it. A
value is as long as the room, longer, or shorter. In
`dashboard` the ids are no bound: `OneChain` leaves at most two sockets that have not closed and
two timers, and the ref may hold one more, so three of each always suffice, and
`TypeCorrect` of `DashboardProofs` proves it. `MaxTicks` bounds the snapshots and with them the
history; four are twice the history of two, so entries fall out of it.

**One setter.** `UniqueKey`, `OccupiedIsWhole`, `AnswerSound`, `FullSound` and `CountExact`
do not hold with two processes that call `set` at once, because `set` claims a slot without a
compare-exchange. The runs give `set` to one process while another looks up, deletes and
evicts; what goes wrong beyond that is among the refuted claims. For one setter and any number
of other processes all five are proved. `AnswerSound` lets an answer
Expired be justified by the eviction itself: the entry is gone when the call returns. Whether
it *should* have been evicted is another question, see below. `CountExact` needs a
table with a slot that was never used and no expiry, because an eviction never lowers the
count; without that the count may even go below zero, see below.

**Refinement.** `HashMapKVStore` maps an insertion to its publication, a deletion to its
compare-exchange, an update to its first written half, a flush to its first slot and a GET
to the moment it has found the entry alive. In between the writer's own half-done work is
hidden. The run checks the mapping for a process alone on the arena; `ImplementsStore` proves
it for one writer with any number of readers beside it.

**Fairness.** `FairSpec` has weak fairness of each process's next step, for processes that
cannot die: the operating system schedules a running thread, and no step of the code waits
for another process. No fairness is assumed of calls, of the clock, or of processes that may
die. `WaitFree` would fail if a call retried or waited, which the fault `ContinueRetries`
shows. `StepsBounded` says the same without a scheduler: `StepsLeft`, which is at most
`26 * (N + 1)`, goes down with each step of the call and never up with anybody else's. A visit to
a slot takes at most 26 of these steps, two for each of up to 13 labels in a row, since a copy
has two halves.

In `metrics` it is of `Record` and `Close`: `select!` picks among its ready branches at
random, so the clock cannot starve `recv`. Without that, ticks for ever would be a
counterexample to `DrainsThenEnds`. Connections, ticks and dashboards have no fairness.

In `commands` the runtime polls a task that can go on, and a peer in `Reliable` writes all of
its stream and reads all answers: `AllAnswered` is about those. The fairness of `Step` is
written out, since `Step(c)` is enabled exactly when the task is busy.

In `dashboard` the browser runs the mounts and the timers, and an attempt to open or to close a
socket comes to an end, since it has timeouts of its own. Nothing is assumed of the bridge:
`Reconnects` is about the executions in which it stays up from some point on. It is free to end
connections for ever even then.

Deadlock is checked in every run but those of `Dashboard`. A process can always call again, and a
dashboard of the bridge connect again, so there is none. A page that was unmounted before it had
a socket really stops, and so does the bridge at its last tick.

### Refuted claims

Each run checks one sentence of the repository and TLC finds what the code does instead.

- `claim_torn`: "Concurrent SET + GET: safe" (`hashmap.rs:19`). A SET that updates in place
  leaves `state` alone; a GET beside it returns half of each value.
- `claim_last_writer`: "Concurrent SET + SET on same key: last writer wins"
  (`hashmap.rs:20`). Two SETs that chose different slots leave two entries, after both have
  returned.
- `claim_history`: "Keep 60 seconds of history" (`dashboard/src/hooks/useMetrics.js:4`) of 60
  snapshots. `connect` returns only if its socket is already open, so the two mounts of
  StrictMode may leave two chains of attempts, then two sockets, and every snapshot is in the
  history twice.

Also seen while modelling, with no run of their own.

In the map and the client: `used_count` is not "a float between 0.0 and 1.0" times the capacity
(`client.rs:135`), since a reused tombstone is not counted if the scan ended without an EMPTY slot,
while its deletion is, and one process alone can drive the count below zero; `mset` "Returns count of
successful inserts" (`client.rs:153`), updates included; "INCR / DECR — atomic
integer operations" (`README.md:35`) are a get and a set, the second of two that overlap
overwrites the first, and what holds is `NeverOvercounts`: an update can be lost, never
invented, but a number that SET, DEL or FLUSH has replaced can come back; `lazy_evict_if_expired` says "If another
thread beat us to it, that's fine — the slot is already dead" (`ttl.rs:69`), but if a SET
refreshed the entry between the load of the expiry and the compare-exchange, the entry that is
evicted is the fresh one; `claim_slot` says that its caller owns
the slot by EMPTY or by a compare-exchange (`hashmap.rs:394`), but `set` makes none; `del`
says "Re-read and retry this slot" (`hashmap.rs:333`) and goes on to the next; `hashmap.rs:18`
calls the GET path read-only, but it evicts; `get` checks the expiry before it compares the
keys (`hashmap.rs:169`), so of two keys with one hash the expired one answers for the other;
`del` runs its compare-exchange on the state only, so if another process reused the slot
since the keys were compared, it deletes that key; and a GET that loaded OCCUPIED before a
DEL may read the buffers that `claim_slot` is writing and answer Found.

In the arena: `open_arena` promises an error if the "header is invalid" (`shm.rs:191`) and looks at
the magic number only, not at version and slot count; a process that opens while the creator is at
work gets an arena that is being wiped, so `Slot::init`'s "Caller must ensure no other thread
is accessing this slot" (`slot.rs:71`) is not ensured; one that opens before `ftruncate` dies
of a bus error; the error paths of `create_arena` and `open_arena` leave the descriptor or the
mapping behind. In the C interface `ml_get` returns the length it has copied, so a value that
was cut to the room cannot be told from one that fits exactly, and `ml_del` and `ml_exists`
answer 0 to an error as to a key that is not there.

In the bridge, the window that is open when the last connection ends is never sent (`ws_bridge.rs:204`); the
latencies of a window take memory without a bound, since `recv` keeps emptying the channel;
and `Err(_) => break` (`ws_bridge.rs:275`) cannot happen, because `run_ws_server` keeps a
sender of the broadcast channel. After an unmount the closing socket arms a timer that nobody
clears, so one chain of attempts may go on for ever on a page that is gone; and in a development build
the second socket to close makes the page say "Disconnected" while the first is open.

In the server, bytes read behind a protocol error are thrown
away, so how much of the stream is lost depends on how it was cut; an error that quotes a
command name with a line break reads back as several lines; the line break behind a bulk
string is skipped, never checked; an EX or PX that is not a number counts as no expiry, and
`px + 999` overflows near 2^64; TTL always answers -1; and an error of `accept` ends the whole
server (`server/mod.rs:68`).

## Proofs

The theorems about the map hold for any number of processes, keys and slots, any hash function
and any width of the count. `HashMapProofs` proves under the assumption of HashMap on its
constants only:

- `TypeCorrect`: `Spec => []TypeOK`;
- `ChainsIntact`: `Spec => []ProbeChainIntact`, with concurrent setters and processes that
  die anywhere;
- `CallsBounded`: `Spec => StepsBounded`, the part of wait-freedom that is a safety property. From
  it, weak fairness of a process that is never stuck gives `WaitFree`, which TLC checks.

`ProbeChainIntact` is not inductive: it does not know that the slots a running SET has passed
are still not EMPTY when it publishes. The invariant proved, `IInv`, adds

- `Passed`: no slot an operation has passed, nor the one it is examining, is EMPTY;
- `Reusable`: the tombstone SET remembers is on the chain of its key;
- `Placed`: every *half* of a key, in whatever state its slot is, lies where a probe of that
  key comes by. Halves matter because two setters may write one slot at once: the key that
  results may be one that neither of them wrote last as a whole;
- `Busy`, `Resting`: the loop index and the candidate of a running and of an idle process;
- `Exclusive`: a running FLUSH is alone, and has emptied what it passed.

`CallsBounded` needs from it that a loop that is running has not left the table. Every step of a
call goes to a label of lower rank, to the second half of a copy, to the next slot or to its end
(`Nearer`), and each of the four lowers `StepsLeft` (`NearerShortens`).

That a step keeps `IInv` follows for all steps of get, set and del from three facts proved for
each action: it is a step of one process that keeps its own bookkeeping (`OpStep`), it
turns no slot EMPTY (`NothingFreed`), and it writes a key only where that key can be reached
(`WritesPlaced`). Calls, FLUSH, crashes and the clock have lemmas of their own.

More holds if at most one process calls `set` (`OneSetter`). The others get, delete and flush,
processes may die anywhere, and where a theorem needs more its hypotheses say so:

- `OccupiedWhole`: `Spec => []OccupiedIsWhole`. `WholeInv` adds which operation each label
  belongs to (`Labelled`), and that a slot between its claim and its publication is its setter's
  own and holds what it has written so far (`Owned`). Most steps of the others only take slots
  away (`Erodes`).
- `OneEntry`: `Spec => []UniqueKey`, if no process that flushes dies in the flush
  (`FlushCompletes`). A flush that dies leaves chains with holes, and a SET then misses its own
  key. `UInv` adds that a SET has passed no entry of its key (`Scanned`), so that there is none
  when it claims a slot (`Absent`); this is where `ProbeChainIntact` is needed.
- `ExactCount`: `Spec => []CountExact`, if in addition nothing expires and nobody dies, because
  no eviction lowers the count, and whoever dies between its store and its count leaves it
  wrong; there are finitely many processes. `Tally` counts occupied slots and the operations
  between their store and their `fetch_add` or `fetch_sub`; a process more or less at such a
  label is one more or less (`WhereMoves`).

`AnswerProofs` proves what answers mean, by the history of HashMapHistory, with one setter:

- `SoundAnswers`: `HSpec => AnswerSound`, if flushes complete and no two keys have the same hash
  (`DistinctHashes`), since `get` looks at the expiry before it compares the keys. The invariant
  says of a running call that the present moment is recorded (`Current`); that if it has passed
  all places where its key could be, there was a moment without the key (`Missed`), and
  likewise when it inserts (`Inserting`); and what is known of an entry that is being evicted or
  overwritten (`Evicting`, `Updating`).
- `SoundRefusals`: `HSpec => FullSound`. `Sought` says of a SET that has found no room so far
  that there was one moment of the call at which the table was full, unless a slot ahead of the
  SET is free now, and at which its key was absent, unless an entry of the key is ahead of it
  now. It is the first moment: nobody but the SET itself fills a slot.

`StoreProofs` proves that the map implements the dictionary:

- `ImplementsStore`: `Spec => ImplementsKVStore`. Its hypothesis `OneWriter` is a process that
  does not die and beside which the others only look up; if there are others, nothing expires,
  because `get` evicts. With `DistinctHashes`, as before.

`SInv` adds to the invariants above that every stored value is whole except the one being
overwritten (`Solid`), what the writer has written of it (`Written`), that a slot it works on is
its key's (`Found`), that it has passed neither an entry of its key nor, in a SET,
anything it could use (`Gone`), and what a flush has emptied (`Cleaned`). Then each step of the
writer is one step of the dictionary or none (the lemmas `...Maps`), and the steps of the others
are none. `Entries` and `Phases` say in one place what the mapped state is. That SET
answers Full with exactly `N` keys and inserts with fewer is `HeldCount`: the keys held and the
slots that hold them are equally many.

All these hypotheses hold in the runs that check the properties, and the refuted claims show
what happens without `OneSetter`.

`ClientProofs` proves for any number of clients, keys, values and any capacity, width and
bounds:

- `TypeCorrect`: `Spec => []TypeOK`;
- `CountersCovered`: `Spec => []NeverOvercounts`, for sets of any value, numbers included;
- `CallsTakeEffect`: `Spec => CallEffect`, for batches of any length.

The strengthening for the second is `ReadsCounted`: the number that a running INCR or DECR has read is
no higher than `most` of its key. It survives a SET because `most` does not go down while a call
is between its two steps, and it is what the second of them needs. `ReqsOK` types the running
calls.

For the third, `BInv` says how far a call that nobody has disturbed has got. `CountSoFar`: an INCR or
DECR has changed nothing, and what it has read is still there. `MsetSoFar`: the
map is the one of the start with the pairs so far laid over it (`Laid`), the last of a key
winning, and none of those pairs was one that fails. `MgetSoFar`: the map is the one of the
start, and what has been read is what it holds. `CallEffect` says in terms of the map *before*
the call which pair is the first to fail, while the code finds the table full by the keys that
are held *then*; `HeldWith` and `FitsNot` show that the two agree. `LaidIsOverlay` and `FailsAtIs`
connect what the invariant says with the operators of `CallEffect`.

`WsBridgeProofs` proves for any number of connections and dashboards and any size of the two
channels:

- `TypeCorrect`: `Spec => []TypeOK`;
- `Conserved`: `Spec => []EventsConserved`;
- `SnapshotsAgree`: `Spec => []SnapshotSound`, for a finite set of command names (the command of
  an event is the name a client has sent, and a run of the program sees finitely many);
- `OrderKept`: `Spec => InOrder`.

`SnapshotsAgree` rests on two facts about data. The counts by command add up to the number of
samples, which is kept because a count one higher makes the sum one higher (`SumGrows`); the sum
is a fold over a set, and what it does is shown by way of a smallest set for which it would not
(`SmallestIn`). And percentiles of higher rank are not lower (`PercentilesAscend`), once the
samples have been sorted. `Sorted` picks an arrangement in order, as any sort does, and
`SortingExists` shows that there is one: among all arrangements of the samples, one that is
lexicographically least has no pair in the wrong order.

`OrderKept` needs to know where a receiver stands in each state. `Follows` says that it is always
ahead of what its dashboard got; by more than one only if the ring has overrun it or a
snapshot is being sent, which is then the one before it. Steps that leave the dashboards alone
share one lemma (`DashboardsKept`), the steps of a dashboard another (`GoesKeeps`), which says
what the new task and numbers must satisfy.

`ConnectionProofs` proves for any number of connections, any streams, commands and answers, and
for every parser that satisfies `ParseAssumption`:

- `TypeCorrect`: `Spec => []TypeOK`;
- `CutsUnseen`: `Spec => []AsWhole`;
- `ServerParser`: the parser of `resp.rs` is such a parser, for all buffers and all that may
  follow them. Its hypotheses say only what that means: the bytes are pieces of the wire, and
  `parse` is `Parse`.

The invariant is `Located`: what is left in the buffer is exactly the part of the stream
between the place of the next command and the place up to which it has been read. The former is
where the last command ended (`NextPlace`), unless a protocol error has cleared the buffer.
Four lemmas on slices of a sequence and one on the parser (`ParsedAsWhole`) are all that the
steps need. Calls of the map (`TurnGood`) leave the buffer alone, whatever they do; a step of another connection is covered by `Kept`.

`ServerParser` is about a recursion, and no induction theorem of the library can be used with the
provers at hand. Instead each of its inductions takes the last offset, or the fewest items, for
which the statement would fail, and derives a contradiction (`MostIn`). `TablesExist` and
`TurnsExist` show that the recursive functions have values that satisfy their equations, `ParseIs`
and `ItemsAre` what the equations are. `HeadStable` is the claim for a header, `ItemsAgree` and
`FromAgree` for the items of an array in a buffer and in a longer one; `ParseStable` puts them
together, with the number of pieces a value takes up (`Fits`).

`ArenaProofs` proves for any number of processes, any table, any lengths and rooms and any width
of the count:

- `TypeCorrect`: `Spec => []TypeOK`;
- `Backed`: `Spec => []AttachedIsBacked`;
- `SoundStays`: `Spec => []SoundArena`;
- `EntriesSurvive`: `Spec => []EntriesKept`;
- `GetTellsTrue`: `Spec => []GetTells`.

`SoundArena` begins when the creator or a FLUSH returns, so the invariant must say what one that is
still at work has done: `Wiped` (a creator that is alone has set the count to 0, and the slots it has
passed are still empty), `Alone` (nobody else has an arena or is creating one) and `Emptied` (a
FLUSH is beside no other call). `Quiet` says that nobody creates or flushes beside a sound arena,
`Used` that its other slots are empty and what a SET between its steps has written so far
(`AtSlot`). `Control` ties `pc` to `handle`, to the region and to the header.

The count is `Tally`: occupied slots, plus the deletions and minus the insertions that have still
to count, minus what deaths have lost, modulo the width. An action that moves one process to or
from such a label, or one slot to or from OCCUPIED, moves the tally by as much (`TallyMoves`, from
`UnderMoves` and `EntriesMove`), and a death at such a label moves it into `lost` (`CrashTally`);
the lemmas `Mod...` are the arithmetic of the wrapping count.

`DashboardProofs` proves for any ids (at least three sockets and timers), any history and any
number of snapshots:

- `TypeCorrect`: `Spec => []TypeOK`;
- `ChainKept`: `Spec => []OneChain`;
- `ShowsTruth`: `Spec => []ShownTruly`;
- `NothingTwice`: `Spec => []HistoryOnce`.

`TypeOK` and `OneChain` need each other: the ids that `CHOOSE` picks exist because there are
few chains, and the chains are few because an id that is picked was free. `Stage` says how many
attempts each phase of the mounts allows, and that the only closed socket remembered is the one
in `wsRef`; `Behind` says that nothing in the history is newer than what an open socket has
brought.

Only model-checked:

- `WaitFree`, `DrainsThenEnds`, `AllAnswered` and `Reconnects`, which are liveness;
- `AnswersReadBack`, since `Encode` and `ParseAll` are recursive operators. It is also not true of
  every stream: an error quotes the name of an unknown command, and a name with a line break
  reads back as several values. The streams of the run have no such name;
- `AnswerTrue`, since `Commands` and `Resp`, of which it speaks, have recursive operators.

## Not modelled

The dashboard's panels render what they are given. Benchmarks and the example are users of the
library. `now_ms() + ttl_secs * 1000` overflows for a ttl near 2^64 / 1000; the clock of the
model has no width, so this is only listed among the hazards. On Windows `create_arena` and
`open_arena` are stubs that fail. What runs out of file descriptors or memory is not modelled
beyond the failures of the calls, and two handles of one process, or a handle used after
`ml_close`, are what its contract excludes.
