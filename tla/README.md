# In-Memory-Cache: TLA+ verification

This directory holds TLA+ models of the server in `src/src`, the TLC runs that check them on small
instances, and TLAPS proofs of the results that hold for every size of the system. `PROJECT.json`
lists the runs, the line of code behind every definition, one mutant per property, the findings,
the hazards and the theorems.

## 1. The system

A Redis-like cache: TCP clients speak RESP, every connection is a tokio task on a multi-threaded
runtime, and all tasks share one `Db`.

| Component | Source | State | Operations | Hard part |
|---|---|---|---|---|
| Cache entry | `db.rs` 16-60 | data of four types, expiry instant, last access | `new`, `is_expired`, `size_bytes` | the byte charge must match on the way in and out |
| Key space | `db.rs` 62-1073 | sharded maps under `RwLock`, `current_memory` (atomic, wraps) | string, list, hash and set commands, `expire`, `ttl`, `del` | methods that drop a lock and take another, clock read before the lock, passive expiry |
| LRU eviction | `db.rs` 163-173, 897-934 | the counter against `maxmemory` | `ensure_capacity`, `evict_lru_step` | test and insertion are separate; random sampling; a loop that must end |
| Active sweeper | `main.rs` 93-114, `db.rs` 848-894 | none of its own | up to 16 sampling steps each 100 ms | two locks per step, draws with replacement, must reach every key |
| Append-only file | `aof.rs` | bounded channel, `BufWriter`, file | `record`, `sync`, writer task, `load` | order against the database, full channel, failing disk, torn tail |
| Connection task | `main.rs` 208-257, `connection.rs` | input and output buffers | read, record, apply, answer | input in chunks, pipelining, replies flushed late, cancelled by the shutdown at any await, panics |
| Process lifecycle | `main.rs` 21-206 | listener, semaphore, client gauge, broadcast | load, accept, shutdown | the signal's future lives for one turn of the accept loop; tasks still run while the log is synced |
| Commands | `cmd/` | none | `from_frame`, `is_write`, `apply` | which commands are logged |
| KEYS, SCAN, `glob_match` | `db.rs` 937-1161 | cursor | `keys`, `scan` | a cursor that is an offset into a map that changes |
| Pub/Sub | `pubsub.rs`, `main.rs` 259-338 | broadcast rings | `publish`, `subscribe` | lagging subscribers, the count returned |
| Metrics | `metrics.rs` | atomics, latency ring, history | `record_*`, `tick_second` | counters read while they change |
| RESP framing | `frame.rs` | none | `check`, `parse`, `write_to_buf` | incomplete input, nesting |
| Web dashboard | `web.rs` | none | HTTP, server-sent events, `/api/simulate` | input and output; the simulation writes keys past the log |

A connection calls `Aof::record` (channel send, may wait) and then the `Db` method (synchronous,
takes shard locks). The sweeper and evictions remove keys behind the clients' backs. The writer
task is the only one that touches the file. `main` broadcasts the shutdown, sends a `Flush` through
the same channel as the records, and returns when it is answered.

What makes each part correct: no live key disappears and no expired one is seen (key space,
sweeper); the counter equals the bytes held, and the loop that makes room ends (eviction; the limit itself
is best effort, see the findings); the log is ahead of the database, complete at shutdown, and rebuilds the
same database (append-only file); nobody waits for ever (channel, shutdown; the eviction loop unless others
keep adding keys); frames are read as they were sent and answered in order (connection); a confirmed
subscriber hears what is published (Pub/Sub); permits and the gauge come back on every way out (process); an iteration with SCAN ends
and returns what stayed (key inspection).

## 2. Modules

| Module | Models |
|---|---|
| `CacheEntry` | the entry, its expiry test and its byte charge |
| `Db` | the key space under concurrent clients, eviction and the sweeper |
| `Keyspace` | abstract: what the key space promises, with atomic commands and no locks |
| `DbRefinement` | the mapping under which `Db` implements `Keyspace` |
| `MCDb`, `MCDb_*.cfg` | instances of `Db` and `DbRefinement` |
| `Frame` | RESP: `check`, `parse`, `write_to_buf` on bytes |
| `Connection` | a connection task: buffers, frames, commands, replies |
| `Server` | accept loop, connection limit, signals, shutdown, around the tasks of `Connection` |
| `MCServer`, `MCServer*.cfg` | instances of `Server` |
| `Glob` | `glob_match`, and the meaning of a pattern |
| `Scan` | KEYS and SCAN against a map that changes |
| `MCScan`, `MCScan.cfg` | an instance of `Scan` |
| `Aof` | connection loop, channel, writer task, file, shutdown, crash, restart |
| `MCAof`, `MCAof_*.cfg` | instances of `Aof` |
| `PubSub` | the hub, publishers, connections in subscriber mode |
| `MCPubSub`, `MCPubSub.cfg` | an instance of `PubSub` |
| `DbProofs` | the algebra of `SumOver`, facts about the byte charges, the inductive invariant of `Db`; `TypeCorrect`, `CollectionsNeverEmpty` |
| `DbLiveProofs` | `LiveKeysAreKept`, `LiveEntriesAreKept`, `ExpirationsAreCountedOnce`, `ExpiredEntriesAreAbsent` |
| `DbMemoryProofs` | `DriftHasOneSource`, `MemoryIsExact` |
| `DbRefinementProofs` | `DbImplementsKeyspace` |
| `PubSubProofs` | `ConfirmedClientsHear`, `DistinctSubscribersHear`, `PublishCountsReceivers` |
| `ServerProofs` | `PermitsAndGaugeBalance`, `RepliesInOrder`, `FramesRead` |
| `ScanProofs` | `GlobMatches`, `KeysAreExact`, `ScansAreComplete` |
| `AofProofs` | `AofTypeCorrect`, `WriteAhead`, `FlushReachesDisk`, `LogRebuildsDatabase` |

`Server` extends `Connection`, which extends `Frame`; `Scan` extends `Glob`; `DbRefinement` extends `Db`
and instantiates `Keyspace`. Each proof module extends the module it is about; `DbLiveProofs` and
`DbMemoryProofs` extend `DbProofs`, and `DbRefinementProofs` extends `DbLiveProofs` and `DbRefinement`.

### CacheEntry and Db

An entry is a record `[type, data, expires_at, last_accessed]`; the data of every type is a function
(string `<<b>>`, list a sequence, hash field to value, set the identity on its members), so the items
of an entry are the domain of its data whatever its type. Payloads are members of `Bytes` with a
length each; nothing in `db.rs` looks inside them.

*One lock, one action.* What runs under one shard lock is one action. `lpush` ... `pttl` and
`expire` are one action each. `get` is `GetRead` and, when it saw an expired entry, `GetWrite`. `set`
is `SetCall`, then `EnsureCapacity`, `SampleShard` and `Evict` in a loop, then `SetInsert`. `del` is
`DelCall` and one `DelKey` per key. The sweeper is `SweeperTick`, then `PurgeSample` and
`PurgeRemove` up to `SWEEP_ROUNDS` times. The locals of these methods live in `threads[t]` and
`sweeper`. Reads that share a lock may store their access times in either order (`Touch` takes any
instant since the call).

*The clock.* Most methods call `Instant::now()` before they wait for the lock, so the instant `now`
they test against is a parameter that ranges over every instant up to the clock. `expire` reads it
under the lock. A SET carries a deadline that was fixed when it was parsed.

*The counter.* `current_memory` wraps modulo `UsizeMod`, as `fetch_sub` does. A method that calls
`add_memory` several times under one lock moves the counter once in the model; values that only
another thread could read in the middle of that lock region are not represented.

*out* records what the last step answered and counted (operation, keys, the instant it used, reply,
metrics). It is not read by any action and is left out of the fingerprint (`VIEW StateView`); action
properties are checked on every step, before states are merged, and no liveness property or fair action
depends on it: every fair action changes `threads` or `sweeper`.

### Keyspace and DbRefinement

`Keyspace` knows keys, a clock and the last answer. A command is one step on the keys visible at an
instant no later than the clock; an entry past its deadline may be forgotten at any time, and a live one
only if a memory limit is set. The mapping drops access times, the memory counter, the locals of threads
and sweeper, and turns the functions of `Db` back into values and sets. `ImplementsKeyspace` then says
that commands are atomic to clients although `get`, `set` and the sweeper take two locks or more, and that
each answer (the range of LRANGE, the counts of HSET and SREM, the seconds of TTL) is the right one for the
arguments given. Every
step is compared with the abstract next-state relation, also one that repeats the answer before it. With a memory limit the abstract key space may forget a live key at any time, so a live key that the sweeper
removed by mistake would pass as an eviction; that the sweeper removes none is `LiveKeysKept`. (Both runs set
a limit; the proof covers a server without one, where the abstract key space forgets nothing live.) DEL
of several keys is one abstract deletion per key, as it takes one lock per key, and its count is not part
of the promise.

### Frame, Connection and Server

`Frame` works on bytes (ASCII codes; the words of an inline command are divided by ASCII white space) with the cursor of the code as the number of bytes read. `check` and
`parse` are two separate functions, as in the code; both recurse through arrays by counting the frames that
are left to read. `Connection` keeps for every client the bytes under way, the read buffer, the frames read,
the replies in the `BufWriter` and those on the wire; a reply is the number of the request it answers.
`ReadMore` delivers any number of bytes, `ReadFrame`, `ReadInvalid` and `ReadEnds` are the three results of
`read_frame`, `Refuse` and `Execute` the two ways through the loop body with the flush that belongs to each.
The `BufWriter` may pass replies on early (`Buffered`). `Panic` is a command that unwinds the task;
`SocketFails` is an error of a read or a write.

In `Server` the main task is in `select`, in `spawn` (a connection accepted, its task not yet running) or on
its way out. `wait_for_shutdown_signal()` is called anew in each turn of the loop: its future registers with
the signal handler when it is first polled (`Listen`), hears signals while it lives, and is dropped when the
accept branch is taken (`Select`). `select!` polls its branches in random order, so the accept branch may win
without the other having been polled, and may win although the other has been woken. Before the handler is
installed for the first time a signal ends the process. Each task ends by `Uncount` and `Release`; a panic
goes straight to `Release`, because the permit is dropped by the unwinding and `client_disconnected` is not
reached.

### Glob and Scan

`glob_match` takes the loop over the text turn by turn (`Turn`), with its one point of return, and for a class
the inner loop (`ClassTurn`); `After` is a loop after a number of turns, and `Turns` and the length of the pattern
are enough of them. `Matches` is the meaning of a pattern: `Item` reads an item as the set of bytes that may stand
there, and `MatchedFrom` has, for the pattern from each position on, every place of the text from which it matches
the rest. In `Scan` the map of a
shard is the order in which it is iterated: an insertion may come anywhere in it, a removal closes the gap, a
new deadline (EXPIRE, or SET over a stored key) leaves the entry where it is, a growth of the table shuffles it. KEYS and SCAN visit a shard per step, with the instant read when they were
called. A client iterates with the cursors it is given. `steady` (keys live all the time) and `shaken`
(shards whose visited part was shifted while the iteration stood inside) are history variables.

### Aof

`conns[c] -> rx -> buf -> file`, with `file[1..synced]` on the disk. A connection reads a command
(`ReadCommand`), sends it (`RecordCommand`, held back by a full channel), applies it
(`ApplyCommand`), answers (`Reply`). The send and the application run in one poll but on different
threads than other connections, so they interleave with them. The shutdown branch of the `select!`
can only win where the task waits (`Cancel`). The writer is `WriterOpens`, `WriteRecord` (to the
buffer, with or without writing the buffer out first), `WriteFlush`, `WriterDrains`. `main` is
`Shutdown`, `SendFlush`, `FlushReturns`, `Exit`; `Crash` may happen at any time and keeps a prefix of
the file that includes what was synced, the next record possibly cut; `Boot` is `Aof::load` followed
by `Aof::start`. With `DiskFails`, opening, writing and flushing may each fail as the code handles
it.

The database here is only the effect of a command on its key (`Effect`); RPUSH stands for the
commands that grow a collection and LPOP for those that shrink one. `Replay` applies the records at a
set of positions of the file in their order, a recursive function over the positions. Evictions are not
part of this module (they are not logged either). `Replayable` says which records `load` may replay: a torn record
at the end is `Incomplete`; one that later records follow takes their bytes for its own, so `check`
fails or a frame comes out that `from_frame` refuses, and at least the next record is lost. (For some
cuts the mixture even parses as a command with a mangled argument; the model takes it as refused,
which is the milder outcome.)

`applied`, `answered` and `due` are history variables for the properties.

### PubSub

A channel is a tokio broadcast ring (external): `sent[ch]` messages so far, of which the last
`CHANNEL_CAPACITY` are kept, and a read position per receiver. `publish` holds the read lock of the hub
and is two steps, `PublishCount` and `PublishSend`, between which nobody can join, but another publisher
may send and a subscriber may leave. A connection in subscriber mode joins (`Join`, under the write
lock) and confirms (`Confirm`) one channel after the other, then delivers (`Deliver`; a lag moves it to
the oldest message of the ring and is not reported). The first SUBSCRIBE takes a new receiver for every
name on its list, also for one it has just confirmed, later ones only for channels not yet followed. `Leave` may happen at any step: end of
stream, a failed write, the shutdown. A message is its position in the channel; `heard`, `since`
(the first message after the first confirmation) and `renewed` (the first message the present receiver of a
first SUBSCRIBE can see) are history variables.

## 3. Runs

Lengths in `MCDb` are in units of 16 bytes, so the overheads 64, 16, 32 become 4, 1, 2.

| Run | Checks | Instance | Distinct states |
|---|---|---|---|
| `collections` | `TypeOK`, `NoEmptyCollection`, `LiveKeysKept`, `LiveEntryKept`, `ExpiredIsAbsent`, `DriftOnlyFromCreation`, `ImplementsKeyspace`, `CallsReturn` | one key, all 19 commands, two payloads of different length, lists up to 2, a TTL of 1, a memory limit that one of the payloads exceeds, one thread inside `get`, `set` or `del` while other clients run the other commands, fair | 14,480 |
| `expiry` | `MemoryTracksEntries`, `LiveKeysKept`, `ExpirationsCountedOnce`, `ImplementsKeyspace`, `ExpiredEntriesGo` | GET, SET, DEL on two keys, one client, sweeper, a memory limit and an item larger than it, fair | 93,720 |
| `server` | `FramesAsSent`, `AnswersComplete`, `AccountsBalance` | three clients, two permits, one signal; 14 streams | 865,740 |
| `scan` | `KeysExact`, `ScanComplete`, `ScanEnds` | three keys in three shards (two, none, one), 23 patterns for KEYS and one for SCAN, TYPE, COUNT 0, 1, 2, two changes of the map, fair | 225,691 |
| `pubsub` | `ConfirmedHears`, `CountCoversReceivers` | two subscribers, two publishers, one channel with a ring of 2, four messages, two SUBSCRIBEs per connection, a channel named twice | 463,298 |
| `aof_log` | `TypeOK`, `AppliedAreLogged`, `FlushCoversApplied`, `ReplayRebuilds` | two connections on a key each, three commands, channel of 2, one crash, one restart | 3,007,699 |
| `aof_progress` | `ShutdownCompletes`, `RecordReturns` | two connections, channel of 1, failing disk, fair | 268,194 |
| `aof_order`, `aof_shutdown_loss`, `aof_torn_tail`, `aof_ttl`, `server_signal` | one property each, violated | see the findings | |

Why the bounds are enough. One key suffices for the collection commands because each of them
touches one key under one lock. Two keys are what the two-lock races need: one actor
between its locks, one that rewrites the key, one key drawn twice or not at all; the single-lock commands
need no thread, so they come between the locks of the one thread that has two. A list of two
elements has a first, a last and an only element. Two clock instants give "before the deadline" and
"at it"; `now` ranges over both whatever the clock says. Three commands and a channel of 2 give a
full channel, a record behind the `Flush` and a record cut by a crash. `UsizeMod` is small (16 or 64)
so that wrapping happens. The `aof` runs do not check deadlock: a server that has shut down, and has
used up its bound of restarts, stops. Nor does `pubsub`: every subscriber may have left and every
message may be sent. One channel is enough there because channels share only the lock of the hub; four
messages on a ring of 2 give a receiver that lags by one and by two.

In `collections` the other clients write, rewrite and remove the key between any two steps of the loop of
`ensure_capacity`. Without its exception `CallsReturn` is violated in this instance: a SET that finds the memory
over the limit evicts the key, another client pushes to it before the next test, and so on for ever. With two
tasks in SET and DEL on two keys (`Threads = {t1, t2}`, `Commands = {"set", "del", "rpush"}`, no TTL) the
property holds as well and fails without the exception in the same way.

The streams of `server` hold every kind of frame, a payload that is a CRLF, an empty one, nested arrays,
inline commands, three kinds of malformed tail and two of cut ones, up to three requests in one stream, each
delivered in every possible division into chunks. Three clients on two permits give a rejection, a permit
that comes back and is used again, and a panic next to a connection that is served. Connections do not share
anything but the accounts, so one client with rich streams is enough. Neither `server` nor `scan` checks
deadlock: all clients may have been served, and all calls answered.

In `scan` a shard of two keys is the least in which the offset can be in the middle; the empty shard in
between and COUNT 2 give a call that crosses shards. The patterns have every kind of item alone and behind
a star; that `glob_match` is right for all patterns is proved. The one of SCAN fits both keys of the first shard, one
of which TYPE excludes, and not the third key. `OFFSET_RANGE` (2^32 in the code)
need only exceed the number of keys. Two changes are a removal and an insertion, so a shard can shrink below the offset and grow
again. Without the exception for `shaken` shards `ScanComplete` is violated in this instance: SCAN does skip
a key that is present throughout when an entry before it is removed.

`MemoryTracksEntries` passes for strings (`expiry`); `DriftOnlyFromCreation` shows on all commands that the
missing header of a created collection is the only error. `ReplayRebuilds` passes while connections keep to
their own keys and fails when they share one.

Fairness. `WF` for a thread inside a method, for the connection tasks, the writer, `main` and the
sweeper: tokio polls a task that can make progress, shard locks are held for bounded times, and the
sweeper's interval keeps ticking. `SF` for `Draws(k)`, a sweeper step that draws key `k`: shard and
keys are drawn uniformly and independently each time, so a key that can be drawn again and again is
drawn with probability one. In `Server`, `WF` for the main task and for each connection task. In `Scan`, `WF` for
a call under way and for the client that goes on with its iteration (`ScanEnds` is about that client). No
fairness is assumed of other clients, the clock, crashes, signals or the shutdown; so others may come between
two steps of a task whenever they like, which is why `CallsReturn` excepts clients that add keys for ever.

## 4. Findings

1. Log order and application order differ between connections (`aof_order`).
2. A command answered during the shutdown may be lost (`aof_shutdown_loss`).
3. A torn tail is kept in the file and spoils the records appended after it (`aof_torn_tail`).
4. Expired keys come back after a restart with a new time to live (`aof_ttl`).
5. A shutdown signal can be lost: one that arrives while a connection is waiting to be accepted wakes a future
   that the accept branch then drops, and one that arrives while the accepted connection is set up is heard by
   nobody (`server_signal`). A second signal is needed.

What the passing runs also show of the code, by the exceptions their properties have to make:

* `current_memory` drifts: a collection is never charged its key and overhead when it is created, its removal
  gives both back, and the counter wraps below zero; with `MAXMEMORY` set every SET then evicts until it finds
  nothing (`DriftOnlyFromCreation`).
* A panic in a command leaves the gauge of clients too high (`AccountsBalance`).
* A SET under memory pressure can be kept in `ensure_capacity` for as long as other clients add keys, one
  eviction per key added (`CallsReturn`).
* A first `SUBSCRIBE a a` confirms `a` and then replaces its receiver (main.rs 268-278): what was published in
  between is never delivered, although the client had been told it was subscribed (`ConfirmedHears` excepts
  it; `SubscribedHears`, without the exception, is violated in the instance of the run `pubsub`).
* PUBLISH answers with an upper bound: pubsub.rs:22 says "the number of subscribers that received it", but a
  subscriber that leaves between the count and the send is counted (`CountCoversReceivers` is an inequality).
* SCAN may miss a key when an entry of the same shard is removed between two calls (`ScanComplete`).
* Replies that are still buffered are dropped when a later frame of the stream is malformed or cut
  (`AnswersComplete` claims a prefix there).

The memory limit is best effort. The test of `ensure_capacity` and the insertion are two steps, so two SETs that
each fit pass the test together and exceed the limit, although db.rs:162 says "Ensure memory limit is maintained
before adding `needed_bytes`"; commands that grow a collection do not ask for capacity; and an eviction step that
draws only empty shards, or a candidate that has just gone, ends the loop. No property bounds the excess, because
the code does not.

## 5. Proofs

Every theorem holds for every value of the constants that satisfies the named assumptions of the modules
(`LenAssumption`, `OverheadAssumption`, `DbAssumption`, `StreamsAssumption`, `ServerAssumption`,
`ScanAssumption`, `PubSubAssumption`, `AofAssumption`: finite sets of keys, payloads, clients and subscribers, natural lengths
and bounds, a positive modulus, streams of requests and a tail that are sequences of bytes, placeholders that are not members of the
sets they stand beside). TLC evaluates them on every run. Each invariance proof has one step per action and,
under it, one per conjunct the action can disturb.

### Key space

`DbProofs` proves `Spec => []IInv`. `IInv` strengthens `TypeOK` in three ways:

* stored entries have non-empty data. `lpop` and `rpop` take the head or the last element of the list
  they find, so their typing already needs it, and the commands that shrink a collection keep it
  through `Remaining`;
* `ThreadOK(t)`: what a thread carries between two locks. A thread inside `get`, `set` or `del` has a
  real key, the entry that `set` will insert is a full string entry, and the instant a `get` carries
  is not in the future;
* the sweeper's instant is not in the future.

The commands go through one lemma for `Grow`, one for `Shrink` and one for `Read`, as the model does.
`TypeCorrect` and `CollectionsNeverEmpty` are corollaries.

`DbLiveProofs` proves four action properties from `IInv`. `LiveKeysAreKept`: the expiry paths test
`is_expired` again under the second lock against an instant that is not later than the clock, so what they
remove is dead at the clock; everything else that removes a key is named by the property.
`LiveEntriesAreKept`: an entry that is live at the clock is live at any earlier instant a command may have
read, so `or_insert` finds it and keeps its type and deadline. `ExpirationsAreCountedOnce`: what the sweeper
counts is the cardinality of a set of keys, not of draws, and each of them is removed in that step.
`ExpiredEntriesAreAbsent`: the code's test finds exactly the entries that are dead at its instant
(`ExpiredIsDeadAt`), and each command's branch for an expired key answers as its branch for a missing one;
the growing commands start from the entry of `or_insert`, whose items are then those given.

`DbMemoryProofs` proves `DriftHasOneSource`: an action changes the slot of one key (the sweeper: a set of
keys), so `TotalBytes` moves by the difference of the sizes at that key (`SumSplit`, `SumPoint`, `SumPlus` of
`DbProofs`), and the size of an entry is its header plus a sum over its items, which the code charges
item by item (`SumJoin` for an append, `SumReindex` for a shifted list, `SumReverse` for LPUSH). The equality
is modulo `UsizeMod` (`ModShift`, `ModUnique`): nothing is assumed about the counter not wrapping.
`MemoryIsExact` follows for servers whose clients use none of `lpush`, `rpush`, `hset`, `sadd`
(`Commands \cap Growers = {}`): no collection is created, so the drift of every step is zero. Without that
hypothesis the statement is false, as the findings say.

`DbRefinementProofs` proves the refinement, `DbImplementsKeyspace`: `Spec => ImplementsKeyspace`, where
`ImplementsKeyspace` is the abstract specification under the mapping of `DbRefinement`. `IInv` is not quite
enough: `CarryInv` adds that the deadline a SET carries from its call to its insertion was fixed at an instant of
the past, and that a thread looks for a victim only where a memory limit is set. The argument is in three layers.
The mapping: a slot is mapped by `Kept`, an expired entry that is still stored is `Dead` for the abstract key
space exactly when the code's test finds it expired (`DeadIsExpired`), and what a command sees of a key at its
instant is the abstract `Visible` (`VisibleFacts`). The answers: `AnswerMaps` takes what a step puts into `out` to
the abstract reply. The steps: one lemma per command and per step of `get`, `set`, `del`, the eviction and the
sweeper, each naming the abstract action it is (a command, `Forget` of dead or evicted keys, the clock) or showing
that nothing visible has changed.

### Pub/Sub

`PInv`: a receiver stands no further than one past the last message and every message since the first
confirmation is heard, ahead of it, dropped by the ring, or older than the receiver that a first SUBSCRIBE put in
the place of a confirmed one (`HeardOf`, with the state of a joined but unconfirmed channel);
a publisher between its count and its send has counted at least the receivers there are now, which holds
because `Join` needs the write lock and the others can only leave. `ConfirmedClientsHear` is `ConfirmedHears`
with that exception. `DistinctSubscribersHear` proves the claim without it, `SubscribedHears`, for clients that
name no channel twice in one SUBSCRIBE (`NoRepeats`): `FreshInv` says that what a first SUBSCRIBE has still to
join or to confirm (`Pending`) is not confirmed yet, so a receiver is only taken before its channel is
confirmed and `renewed` never exceeds `since`; later SUBSCRIBEs
join only what is not followed. TLC finds `SubscribedHears` violated where a channel is named twice, so the
hypothesis is needed.

### Connections and their accounts

`SInv`: the replies in the `BufWriter` and on the wire are the numbers of the requests in order
(`RepliesOK`), `main.socket` names a client exactly while its task is being set up and that client is
knocking (`SocketOK`), `permits` is the limit minus the number of tasks that hold one, and the gauge is the
tasks served plus those that panicked. `check` and `parse` stay uninterpreted: `RepliesInOrder` holds however
bytes are cut into frames, and does not rest on what `Frame` computes.

`FramesRead` is `FramesAsSent` for any streams in any chunks. Its hypothesis `CodecReads` is what the framing
promises of single buffers: of the first bytes of what is left of a stream `check` says that they are incomplete
while they are fewer than the next request has, and where that request ends from then on, whatever follows it,
and `parse` returns its frame; of the tail it never finds a frame. TLC confirms `CodecReads` for the streams of
the run `server` (`FramesAsSent` fails there if it fails). What is proved is the part that spans steps and
tasks: `StreamOK` says that the buffer followed by the bytes under way is what the stream holds behind
the requests already read (`Ahead`), through reads of any size, pipelining, replies, panics and the shutdown.
`SentIsAhead` connects it with `SentBytes`, `SplitTail` and `Arrives` with the cuts that `ReadFrame` and
`ReadMore` make.

### KEYS and SCAN

`ScanInv` holds for any keys, any distribution over shards, any order of a map, any COUNT and any number of
changes. `KeysOK`: every key that has been live since the call, fits and lies in a shard behind the walk is in
the result. `WalkOK`: the same for SCAN, where a key is behind the iteration when its shard is, or when it stands
at or before the offset in its own shard (`Behind`), except in shards that were `shaken`; while the map has not
changed, what was found is behind the iteration and was found once. `PhaseOK`: a call that has answered left a
cursor from which the next one finds the same shard and offset. An insertion in front of the offset pushes a key
that was behind it ahead, which repeats a key but loses none; a removal or a growth marks the shard.

`GlobMatches`: for every pattern and every text `glob_match` answers what `Matches` says. The recursions of the
reference have values because each looks only behind its position (`BackwardExists`); a loop is followed by a
family of sets, one for each number of turns (`LoopInvariant`). For a class the invariant (`ClassInv`) is that no
`]` has been passed and that what is matched already, or listed from here to the first `]`, is what the class
lists; `ClassFacts` and `MatchItemFacts` follow: the code accepts the bytes of the item and ends where the next one
begins. For the loop over the text, `Claim` is what is still to be tried: the rest matches from here, or behind the
last star with more text given to it. No turn changes whether `Claim` holds. That it is enough to go back to the
last star is `PathOf`: since that star every item took one byte, so wherever the part behind the star matches
with more text given to the star, the pattern from the current item on matches as much further on; at a new star
(`StarStep`) this makes the older one superfluous. `Measure` falls with every turn, so the loop has ended after
`Turns`, and then only stars may be left (`MatchedAtEnd`).

`KeysAreExact` and `ScansAreComplete` follow from `ScanInv` and `GlobMatches`; keys and patterns are sequences of
bytes (`ScanAssumption`).

### Append-only file

`AofTypeCorrect` holds with failing disks, crashes and any number of restarts; its invariant `TInv` says in
addition what a connection holds at each point of its loop. `LInv` is the log: a command about to be applied
is in it; a `Flush` in the channel has everything that was due in front of it; the writer is gone only when
everybody else is; when `sync` has been answered, what was due is within the synced part of the file.
`WriteAhead` and `FlushReachesDisk` follow on a disk that does not fail (`~DiskFails`): after a failed open or
write the code logs the error and goes on, so both are false there.

`LogRebuildsDatabase` is about what the log means. `RInv`: for every key, replaying the log gives either the
value in the database, or the value that the one connection with a recorded but unapplied command for that key
is about to give it (`Follows`). The hypotheses are the conditions under which this is true at all:

* `Separate`: no two connections write the same key (`aof_order` is the counterexample otherwise) and no
  command carries a TTL (`aof_ttl`);
* `OneTear`: no crash, or a single restart, so that no file is loaded that has a torn record before its end
  (`aof_torn_tail`);
* `~DiskFails`.

The run `aof_log` is an instance of all three. `Replay` is a recursive function over positions; what it
computes is proved by taking the least position at which a claim fails (`LeastNat`), and from that its value on
a log with one more record, which is all the actions need.

### Only model-checked

* Liveness (`ExpiredEntriesGo`, `CallsReturn`, `ScanEnds`, `ShutdownCompletes`, `RecordReturns`): fairness and
  `ENABLED` are beyond the prover.
* `CodecReads`, the hypothesis of `FramesRead`: it compares recursive parsers (`check`, `parse`) with what was
  sent, an induction over the structure of nested frames and of the digits in them. The run `server` checks it on
  every kind of frame, since `FramesAsSent` compares the frames that were read with those that were sent.

## 6. Plan

Done: all modules, and the theorems above. Left, and of interest only if the code changes there: an induction over
frames for `CodecReads`.

## 7. Not modelled

* Web dashboard, `/proc` readers, INFO and JSON text, the latency ring and the history of the dashboard,
  environment variables: input, output and formatting. `/api/simulate` writes keys without logging them, so a restart
  forgets them and brings back what they had overwritten; to the key space it is one more client of `set` and
  `get`, and `Aof` has no writer that does not record.
* Counters that only grow and that nothing but the dashboard reads: `total_connections`, `peak_clients`,
  `connection_errors`, `total_commands`.
* Text that is not UTF-8, white space outside ASCII in inline commands, and integers beyond an i64 in frames; the arguments each command accepts (a refused
  command is `Refuse`, whatever the reason) and the wording of errors.
* SCAN with a cursor the client made up, and TYPE in other cases than lower.
* A collection or string that changes its type during a SCAN.
* The example client, which is a separate application. The README of the repository names commands and options
  that `from_frame` does not know (EXISTS, HLEN, SET NX and others); there is no behaviour to model.

## 8. Running

    tlc -config MCDb_expiry.cfg MCDb
    tlc -config MCServer.cfg MCServer
    tlc -config MCScan.cfg MCScan
    tlapm DbProofs.tla
    tlapm DbRefinementProofs.tla
