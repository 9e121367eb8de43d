--------------------------------- MODULE Db ---------------------------------
(***************************************************************************)
(* The sharded key space of src/src/db.rs, under concurrent clients, the   *)
(* active sweeper of src/src/main.rs and approximated LRU eviction.        *)
(*                                                                         *)
(* A region of code that runs under one shard lock is one action.  A       *)
(* method that takes one lock is therefore one action, whatever thread     *)
(* runs it; a method that releases a lock and takes another (get, set with *)
(* its ensure_capacity loop, del, purge_expired_step) is a sequence of     *)
(* actions with its locals kept in threads[t] or in sweeper, and anything  *)
(* may happen in between.                                                  *)
(*                                                                         *)
(* Most methods read Instant::now() BEFORE they take the lock, so the      *)
(* instant they test expiry against is any one up to the current clock.    *)
(* Those actions have a parameter now \in 0..clock.                        *)
(***************************************************************************)
EXTENDS CacheEntry, SequencesExt

CONSTANTS
    NoKey,              \* no candidate key (Option::None)
    Shards,             \* shard indexes
    ShardOf,            \* get_shard_index, any function of the key
    Threads,            \* connection tasks that may be inside a method
    MaxMemory,          \* maxmemory, 0 = unlimited
    UsizeMod,           \* 2^64 in the source: current_memory wraps here
    LRU_SAMPLE_SIZE,    \* DEFAULT_LRU_SAMPLE_SIZE, 8 in the source
    SWEEP_SAMPLE_SIZE,  \* 20 in the source
    SWEEP_ROUNDS,       \* 16 in the source
    Durations,          \* TTLs clients ask for
    Indexes,            \* LRANGE start and stop
    Commands,           \* bound: the commands clients issue in this instance
    MaxArgs,            \* bound: elements per LPUSH or RPUSH
    MaxListLen,         \* bound: length of a list
    MaxClock            \* bound: last instant of the clock

ASSUME DbAssumption ==
    /\ NoKey \notin Keys
    /\ ShardOf \in [Keys -> Shards]
    /\ MaxMemory \in Nat
    /\ UsizeMod \in Nat \ {0}
    /\ LRU_SAMPLE_SIZE \in Nat
    /\ SWEEP_SAMPLE_SIZE \in Nat \ {0}
    /\ SWEEP_ROUNDS \in Nat \ {0}
    /\ Durations \subseteq Nat
    /\ Indexes \subseteq Int
    /\ MaxArgs \in Nat
    /\ MaxListLen \in Nat
    /\ MaxClock \in Nat

VARIABLES
    entries,         \* the shards' maps, as one function of the key
    current_memory,  \* Shared::current_memory
    clock,           \* Instant::now(), in milliseconds since start_time
    threads,         \* where each connection task is inside get, set or del
    sweeper,         \* where the sweeper task is inside its loop
    out              \* what the last step answered and counted

vars == <<entries, current_memory, clock, threads, sweeper, out>>

-----------------------------------------------------------------------------
(* State *)

Idle ==
    [pc |-> "idle", key |-> NoKey, entry |-> Absent, now |-> 0, left |-> 0,
     oldest_key |-> NoKey, oldest_time |-> 0, todo |-> {}, removed |-> 0]

ThreadStates ==
    [pc          : {"idle", "get", "check", "sample", "insert", "del"},
     key         : Keys \cup {NoKey},
     entry       : Slots,
     now         : Nat,
     left        : Nat,
     oldest_key  : Keys \cup {NoKey},
     oldest_time : Nat,
     todo        : SUBSET Keys,
     removed     : Nat]

Resting == [pc |-> "idle", round |-> 0, now |-> 0, sampled |-> 0, drawn |-> 0, expired_keys |-> {}]

SweeperStates ==
    [pc           : {"idle", "step", "remove"},
     round        : Nat,
     now          : Nat,
     sampled      : Nat,
     drawn        : Nat,
     expired_keys : SUBSET Keys]

\* The metrics a step records (record_hit, record_miss, record_expiration, record_eviction).
Counted(hits, misses, expired, evicted) ==
    [hits |-> hits, misses |-> misses, expired |-> expired, evicted |-> evicted]
NoMetric == Counted(0, 0, 0, 0)
Hit == Counted(1, 0, 0, 0)
Miss == Counted(0, 1, 0, 0)
HitIf(found) == IF found THEN Hit ELSE Miss

\* A step inside a method, before its answer.
Silent == [op |-> "none", keys |-> {}, now |-> 0, given |-> <<>>, err |-> FALSE,
           reply |-> <<>>, metrics |-> NoMetric]

\* given: the arguments of the command besides its key, where the answer depends on them.
Answer(op, k, now, given, reply, metrics) ==
    out' = [op |-> op, keys |-> {k}, now |-> now, given |-> given, err |-> FALSE,
            reply |-> reply, metrics |-> metrics]

\* Err(WRONG_TYPE_ERR)
WrongType(op, k, now, metrics) ==
    out' = [op |-> op, keys |-> {k}, now |-> now, given |-> <<>>, err |-> TRUE,
            reply |-> <<>>, metrics |-> metrics]

Present(k) == entries[k].type # "none"
Expired(k, now) == Present(k) /\ is_expired(entries[k], now)
Live(k, now) == Present(k) /\ ~is_expired(entries[k], now)

ShardKeys(s) == {k \in Keys : ShardOf[k] = s /\ Present(k)}

TotalBytes ==
    SumOver([k \in {kk \in Keys : Present(kk)} |-> size_bytes(k, entries[k])])

Init ==
    /\ entries = [k \in Keys |-> Absent]
    /\ current_memory = 0
    /\ clock = 0
    /\ threads = [t \in Threads |-> Idle]
    /\ sweeper = Resting
    /\ out = Silent

-----------------------------------------------------------------------------
(* Building blocks *)

\* Mutant of AddMemory: a counter that neither wraps nor stops at zero.
AddMemorySigned(delta) == current_memory' = current_memory + delta

\* add_memory and sub_memory: fetch_add and fetch_sub wrap.
AddMemory(delta) == current_memory' = (current_memory + delta) % UsizeMod

\* Replace what the shard holds under k.
Store(k, e, delta) ==
    /\ entries' = [entries EXCEPT ![k] = e]
    /\ AddMemory(delta)

\* entry.last_accessed.store(at): readers share the lock, so two of them may store
\* their timestamps in either order.
Touch(k, at) ==
    /\ entries' = [entries EXCEPT ![k].last_accessed = at]
    /\ UNCHANGED current_memory

Untouched == UNCHANGED <<entries, current_memory>>
OneLock == UNCHANGED <<clock, threads, sweeper>>
ThreadStep(t, state) ==
    /\ threads' = [threads EXCEPT ![t] = state]
    /\ UNCHANGED <<clock, sweeper>>

ElementBytes(els) == SumOver([i \in DOMAIN els |-> ByteLen[els[i]] + ITEM_OVERHEAD])

PairBytes(f, v) == ByteLen[f] + ByteLen[v] + PAIR_OVERHEAD

-----------------------------------------------------------------------------
(* Commands that create or grow a collection: LPUSH, RPUSH, HSET, SADD *)

\* What the passive eviction at the head of the command gives back.
ReclaimedBytes(k, now) == IF Expired(k, now) THEN size_bytes(k, entries[k]) ELSE 0

\* Mutant of OrInsert: the passive eviction forgotten.
OrInsertKeepsExpired(k, now, type) ==
    IF Present(k) THEN entries[k] ELSE new(type, <<>>, None, clock)

\* entries.entry(key).or_insert_with(...), after the passive eviction.
OrInsert(k, now, type) ==
    IF Live(k, now) THEN entries[k] ELSE new(type, <<>>, None, clock)

Grow(op, k, now, type, data, added, given, count) ==
    /\ op \in Commands
    /\ \/ /\ OrInsert(k, now, type).type = type
          /\ Store(k, [OrInsert(k, now, type) EXCEPT !.data = data, !.last_accessed = clock],
                   added - ReclaimedBytes(k, now))
          /\ Answer(op, k, now, given, <<count>>, NoMetric)
       \/ /\ OrInsert(k, now, type).type # type
          /\ Untouched
          /\ WrongType(op, k, now, NoMetric)
    /\ OneLock

ListFits(k, els, now) ==
    LET base == OrInsert(k, now, "list")
    IN  base.type = "list" => Len(els) + Len(base.data) <= MaxListLen

lpush(k, els, now) ==
    LET list == OrInsert(k, now, "list").data
    IN  /\ ListFits(k, els, now)
        /\ Grow("lpush", k, now, "list", Reverse(els) \o list, ElementBytes(els),
                els, Len(els) + Len(list))

rpush(k, els, now) ==
    LET list == OrInsert(k, now, "list").data
    IN  /\ ListFits(k, els, now)
        /\ Grow("rpush", k, now, "list", list \o els, ElementBytes(els),
                els, Len(els) + Len(list))

\* map.insert(field, value) for each pair.
Inserted(map, fields) ==
    [f \in DOMAIN map \cup DOMAIN fields |->
       IF f \in DOMAIN fields THEN fields[f] ELSE map[f]]

\* fields is the map the field-value arguments amount to: a repeated field keeps its
\* last value, and the bytes charged for the earlier ones cancel out.
hset(k, fields, now) ==
    LET map   == OrInsert(k, now, "hash").data
        old   == DOMAIN fields \cap DOMAIN map
        fresh == DOMAIN fields \ DOMAIN map
    IN  Grow("hset", k, now, "hash", Inserted(map, fields),
             SumOver([f \in fresh |-> PairBytes(f, fields[f])])
               + SumOver([f \in old |-> ByteLen[fields[f]]])
               - SumOver([f \in old |-> ByteLen[map[f]]]),
             fields, Cardinality(fresh))

sadd(k, members, now) ==
    LET set   == OrInsert(k, now, "set").data
        fresh == members \ DOMAIN set
    IN  Grow("sadd", k, now, "set", [m \in DOMAIN set \cup members |-> m],
             SumOver([m \in fresh |-> ByteLen[m] + ITEM_OVERHEAD]),
             members, Cardinality(fresh))

-----------------------------------------------------------------------------
(* Commands that shrink a collection: LPOP, RPOP, HDEL, SREM *)

Pops == {"lpop", "rpop"}
NilOrZero(op) == IF op \in Pops THEN <<>> ELSE <<0>>

\* Mutant of Remaining: the is_empty test forgotten.
RemainingEmpty(k, data) == [entries[k] EXCEPT !.data = data, !.last_accessed = clock]

\* Mutant of Remaining: the entry rebuilt, its TTL lost.
RemainingWithoutTtl(k, data) ==
    IF DOMAIN data = {} THEN Absent ELSE new(entries[k].type, data, None, clock)

\* The slot left when data remains, and the bytes given back besides the items.
Remaining(k, data) ==
    IF DOMAIN data = {} THEN Absent
    ELSE [entries[k] EXCEPT !.data = data, !.last_accessed = clock]
\* Mutant of EmptiedBytes: the header of an emptied collection not given back.
EmptiedBytesForgotten(k, data) == 0

EmptiedBytes(k, data) == IF DOMAIN data = {} THEN HeaderBytes(k) ELSE 0

Shrink(op, k, now, type, data, freed, given, reply, metrics) ==
    /\ op \in Commands
    /\ \/ /\ ~Present(k)
          /\ Untouched
          /\ Answer(op, k, now, given, NilOrZero(op), IF op \in Pops THEN Miss ELSE NoMetric)
       \/ /\ Expired(k, now)
          /\ Store(k, Absent, -size_bytes(k, entries[k]))
          /\ Answer(op, k, now, given, NilOrZero(op),
                    IF op \in Pops THEN Counted(0, 1, 1, 0) ELSE NoMetric)
       \/ /\ Live(k, now)
          /\ entries[k].type = type
          /\ Store(k, Remaining(k, data), -(freed + EmptiedBytes(k, data)))
          /\ Answer(op, k, now, given, reply, metrics)
       \/ /\ Live(k, now)
          /\ entries[k].type # type
          /\ Untouched
          /\ WrongType(op, k, now, NoMetric)
    /\ OneLock

\* No stored list is empty (NoEmptyCollection), so pop_front and pop_back return Some.
lpop(k, now) ==
    LET list == entries[k].data
    IN  Shrink("lpop", k, now, "list", Tail(list), ByteLen[Head(list)] + ITEM_OVERHEAD,
               <<>>, <<Head(list)>>, Hit)

rpop(k, now) ==
    LET list == entries[k].data
        last == list[Len(list)]
    IN  Shrink("rpop", k, now, "list", SubSeq(list, 1, Len(list) - 1),
               ByteLen[last] + ITEM_OVERHEAD, <<>>, <<last>>, Hit)

hdel(k, fields, now) ==
    LET map  == entries[k].data
        gone == fields \cap DOMAIN map
    IN  Shrink("hdel", k, now, "hash", [f \in DOMAIN map \ fields |-> map[f]],
               SumOver([f \in gone |-> PairBytes(f, map[f])]),
               fields, <<Cardinality(gone)>>, NoMetric)

srem(k, members, now) ==
    LET set  == entries[k].data
        gone == members \cap DOMAIN set
    IN  Shrink("srem", k, now, "set", [m \in DOMAIN set \ members |-> m],
               SumOver([m \in gone |-> ByteLen[m] + ITEM_OVERHEAD]),
               members, <<Cardinality(gone)>>, NoMetric)

-----------------------------------------------------------------------------
(* Commands that read under a shared lock: LRANGE, HGET, HGETALL, SMEMBERS, *)
(* SISMEMBER, TTL, PTTL                                                     *)

\* nil: the answer for a key that is absent or expired.
Read(op, k, now, at, type, given, nil, reply, metrics) ==
    /\ op \in Commands
    /\ \/ /\ ~Live(k, now)
          /\ Untouched
          /\ Answer(op, k, now, given, nil, Miss)
       \/ /\ Live(k, now)
          /\ entries[k].type = type
          /\ Touch(k, at)
          /\ Answer(op, k, now, given, reply, metrics)
       \/ /\ Live(k, now)
          /\ entries[k].type # type
          /\ Untouched
          /\ WrongType(op, k, now, NoMetric)
    /\ OneLock

\* Mutant of Slice: stop taken as exclusive.
SliceExclusive(list, start, stop) ==
    LET len == Len(list)
        s   == Max({0, IF start < 0 THEN len + start ELSE start})
        e   == Min({len - 1, IF stop < 0 THEN len + stop ELSE stop})
    IN  IF s > e \/ s >= len THEN <<>> ELSE SubSeq(list, s + 1, e)

\* The index arithmetic of LRANGE on a non-empty list; s and e count from 0.
Slice(list, start, stop) ==
    LET len == Len(list)
        s   == Max({0, IF start < 0 THEN len + start ELSE start})
        e   == Min({len - 1, IF stop < 0 THEN len + stop ELSE stop})
    IN  IF s > e \/ s >= len THEN <<>> ELSE SubSeq(list, s + 1, e + 1)

lrange(k, start, stop, now, at) ==
    Read("lrange", k, now, at, "list", <<start, stop>>, <<>>,
         Slice(entries[k].data, start, stop), Hit)

hget(k, f, now, at) ==
    LET map   == entries[k].data
        found == f \in DOMAIN map
    IN  Read("hget", k, now, at, "hash", <<f>>, <<>>, IF found THEN <<map[f]>> ELSE <<>>,
             HitIf(found))

hgetall(k, now, at) == Read("hgetall", k, now, at, "hash", <<>>, <<>>, entries[k].data, Hit)

smembers(k, now, at) == Read("smembers", k, now, at, "set", <<>>, <<>>, entries[k].data, Hit)

sismember(k, m, now, at) ==
    LET found == m \in DOMAIN entries[k].data
    IN  Read("sismember", k, now, at, "set", <<m>>, <<0>>, IF found THEN <<1>> ELSE <<0>>,
             HitIf(found))

RemainingTtl(k, now, unit) ==
    CASE ~Live(k, now)                                -> -2
      [] Live(k, now) /\ entries[k].expires_at = None -> -1
      [] OTHER                                        -> (entries[k].expires_at - now) \div unit

\* unit is 1000 for TTL and 1 for PTTL.
ttl(op, unit, k, now) ==
    /\ op \in Commands
    /\ Untouched
    /\ Answer(op, k, now, <<>>, <<RemainingTtl(k, now, unit)>>, NoMetric)
    /\ OneLock

-----------------------------------------------------------------------------
(* EXPIRE and PEXPIRE: now is read inside the lock *)

expire(k, duration) ==
    /\ "expire" \in Commands
    /\ \/ /\ ~Present(k)
          /\ Untouched
          /\ Answer("expire", k, clock, <<>>, <<0>>, NoMetric)
       \/ /\ Expired(k, clock)
          /\ Store(k, Absent, -size_bytes(k, entries[k]))
          /\ Answer("expire", k, clock, <<>>, <<0>>, NoMetric)
       \/ /\ Live(k, clock)
          /\ Store(k, [entries[k] EXCEPT !.expires_at = clock + duration], 0)
          /\ Answer("expire", k, clock, <<>>, <<1>>, NoMetric)
    /\ OneLock

-----------------------------------------------------------------------------
(* GET: a read lock, then a write lock if the entry had expired *)

\* A live entry, under either lock: the access counts as a hit even when the type is wrong.
GetLive(k, now, at) ==
    /\ Touch(k, at)
    /\ \/ /\ entries[k].type = "string"
          /\ Answer("get", k, now, <<>>, entries[k].data, Hit)
       \/ /\ entries[k].type # "string"
          /\ WrongType("get", k, now, Hit)

GetRead(t, k, now, at) ==
    /\ "get" \in Commands
    /\ threads[t].pc = "idle"
    /\ \/ /\ ~Present(k)
          /\ Untouched
          /\ Answer("get", k, now, <<>>, <<>>, Miss)
          /\ OneLock
       \/ /\ Live(k, now)
          /\ GetLive(k, now, at)
          /\ OneLock
       \/ /\ Expired(k, now)
          /\ Untouched
          /\ out' = Silent
          /\ ThreadStep(t, [Idle EXCEPT !.pc = "get", !.key = k, !.now = now])

\* Mutant of GetWrite: the entry not tested again under the write lock.
GetWriteUnchecked(t) ==
    LET k   == threads[t].key
        now == threads[t].now
    IN  /\ threads[t].pc = "get"
        /\ \/ /\ ~Present(k)
              /\ Untouched
              /\ Answer("get", k, now, <<>>, <<>>, Miss)
           \/ /\ Present(k)
              /\ Store(k, Absent, -size_bytes(k, entries[k]))
              /\ Answer("get", k, now, <<>>, <<>>, Counted(0, 1, 1, 0))
        /\ ThreadStep(t, Idle)

\* The entry is tested again, against the instant of the first test.
GetWrite(t) ==
    LET k   == threads[t].key
        now == threads[t].now
    IN  /\ threads[t].pc = "get"
        /\ \/ /\ ~Present(k)
              /\ Untouched
              /\ Answer("get", k, now, <<>>, <<>>, Miss)
           \/ /\ Live(k, now)
              /\ GetLive(k, now, clock)
           \/ /\ Expired(k, now)
              /\ Store(k, Absent, -size_bytes(k, entries[k]))
              /\ Answer("get", k, now, <<>>, <<>>, Counted(0, 1, 1, 0))
        /\ ThreadStep(t, Idle)

-----------------------------------------------------------------------------
(* SET: ensure_capacity, then the insertion *)

\* The expiry instant was fixed when the command was parsed, some time before the call.
ExpiryInstants == {None} \cup {parsed + d : parsed \in 0 .. clock, d \in Durations}

SetCall(t, k, b, expires_at) ==
    /\ "set" \in Commands
    /\ threads[t].pc = "idle"
    /\ ThreadStep(t, [Idle EXCEPT !.pc = IF MaxMemory > 0 THEN "check" ELSE "insert",
                                  !.key = k,
                                  !.entry = new("string", <<b>>, expires_at, clock)])
    /\ Untouched
    /\ out' = Silent

\* The loop condition of ensure_capacity; the sum is computed in usize.
OverCapacity(t) ==
    (current_memory + size_bytes(threads[t].key, threads[t].entry)) % UsizeMod > MaxMemory

EnsureCapacity(t) ==
    /\ threads[t].pc = "check"
    /\ ThreadStep(t, IF OverCapacity(t)
                     THEN [threads[t] EXCEPT !.pc = "sample", !.left = LRU_SAMPLE_SIZE,
                                             !.oldest_key = NoKey, !.oldest_time = 0]
                     ELSE [threads[t] EXCEPT !.pc = "insert"])
    /\ Untouched
    /\ out' = Silent

\* One draw of evict_lru_step, under the read lock of the shard it falls on.
SampleShard(t, s) ==
    /\ threads[t].pc = "sample"
    /\ threads[t].left > 0
    /\ \/ /\ ShardKeys(s) = {}
          /\ ThreadStep(t, [threads[t] EXCEPT !.left = @ - 1])
       \/ \E k \in ShardKeys(s) :
            ThreadStep(t,
              IF threads[t].oldest_key = NoKey
                   \/ entries[k].last_accessed < threads[t].oldest_time
              THEN [threads[t] EXCEPT !.left = @ - 1, !.oldest_key = k,
                                      !.oldest_time = entries[k].last_accessed]
              ELSE [threads[t] EXCEPT !.left = @ - 1])
    /\ Untouched
    /\ out' = Silent

\* Mutant of Evict: ensure_capacity tries again when nothing was evicted.
EvictRetries(t) ==
    LET k == threads[t].oldest_key
    IN  /\ threads[t].pc = "sample"
        /\ threads[t].left = 0
        /\ \/ /\ k \in Keys
              /\ Present(k)
              /\ Store(k, Absent, -size_bytes(k, entries[k]))
           \/ /\ k \in Keys => ~Present(k)
              /\ Untouched
        /\ out' = Silent
        /\ ThreadStep(t, [threads[t] EXCEPT !.pc = "check", !.oldest_key = NoKey,
                                            !.oldest_time = 0])

\* The end of evict_lru_step, under the write lock of the candidate's shard.  It answers
\* false, which ends the loop of ensure_capacity, when there is no candidate or it is gone.
Evict(t) ==
    LET k == threads[t].oldest_key
    IN  /\ threads[t].pc = "sample"
        /\ threads[t].left = 0
        /\ \/ /\ k \in Keys
              /\ Present(k)
              /\ Store(k, Absent, -size_bytes(k, entries[k]))
              /\ out' = [Silent EXCEPT !.op = "evict", !.keys = {k},
                                       !.now = threads[t].oldest_time,
                                       !.metrics = Counted(0, 0, 0, 1)]
              /\ ThreadStep(t, [threads[t] EXCEPT !.pc = "check", !.oldest_key = NoKey,
                                                  !.oldest_time = 0])
           \/ /\ k \in Keys => ~Present(k)
              /\ Untouched
              /\ out' = Silent
              /\ ThreadStep(t, [threads[t] EXCEPT !.pc = "insert", !.oldest_key = NoKey,
                                                  !.oldest_time = 0])

\* Mutant of SetInsert: the bytes of the replaced entry not given back.
SetInsertKeepsOldBytes(t) ==
    LET k == threads[t].key
        e == threads[t].entry
    IN  /\ threads[t].pc = "insert"
        /\ Store(k, e, size_bytes(k, e))
        /\ Answer("set", k, clock, <<>>, <<>>, NoMetric)
        /\ ThreadStep(t, Idle)

SetInsert(t) ==
    LET k   == threads[t].key
        e   == threads[t].entry
        old == IF Present(k) THEN size_bytes(k, entries[k]) ELSE 0
    IN  /\ threads[t].pc = "insert"
        /\ Store(k, e, size_bytes(k, e) - old)
        /\ Answer("set", k, clock, <<>>, <<>>, NoMetric)
        /\ ThreadStep(t, Idle)

-----------------------------------------------------------------------------
(* DEL: one write lock per key, no expiry test *)

DelCall(t, ks) ==
    /\ "del" \in Commands
    /\ threads[t].pc = "idle"
    /\ ThreadStep(t, [Idle EXCEPT !.pc = "del", !.todo = ks])
    /\ Untouched
    /\ out' = Silent

DelKey(t, k) ==
    LET removed == threads[t].removed + (IF Present(k) THEN 1 ELSE 0)
    IN  /\ threads[t].pc = "del"
        /\ k \in threads[t].todo
        /\ \/ /\ Present(k)
              /\ Store(k, Absent, -size_bytes(k, entries[k]))
           \/ /\ ~Present(k)
              /\ Untouched
        /\ Answer("del", k, clock, <<>>, <<removed>>, NoMetric)
        /\ ThreadStep(t, IF threads[t].todo = {k} THEN Idle
                         ELSE [threads[t] EXCEPT !.todo = @ \ {k}, !.removed = removed])

-----------------------------------------------------------------------------
(* The active sweeper: every tick, up to SWEEP_ROUNDS purge_expired_steps *)

SweeperTick ==
    /\ "sweep" \in Commands
    /\ sweeper.pc = "idle"
    /\ sweeper' = [Resting EXCEPT !.pc = "step", !.round = 1]
    /\ Untouched
    /\ out' = Silent
    /\ UNCHANGED <<clock, threads>>

\* What the loop does with the (sampled, expired) a step returns.
AfterStep(sampled, expired) ==
    IF sampled = 0 \/ expired * 4 <= sampled \/ sweeper.round = SWEEP_ROUNDS
    THEN Resting
    ELSE [Resting EXCEPT !.pc = "step", !.round = sweeper.round + 1]

\* Mutant of SampleSize: one draw too few.
SampleSizeShort(s) == Min({Cardinality(ShardKeys(s)), SWEEP_SAMPLE_SIZE}) - 1

SampleSize(s) == Min({Cardinality(ShardKeys(s)), SWEEP_SAMPLE_SIZE})

\* The read lock of purge_expired_step: keys are drawn with replacement, so the number of
\* expired draws may exceed the number of expired keys.
PurgeSample(s, draws, now) ==
    LET expired == {i \in DOMAIN draws : Expired(draws[i], now)}
    IN  /\ sweeper.pc = "step"
        /\ sweeper' = IF expired = {} THEN AfterStep(Len(draws), 0)
                      ELSE [sweeper EXCEPT !.pc = "remove", !.now = now,
                                           !.sampled = Len(draws),
                                           !.drawn = Cardinality(expired),
                                           !.expired_keys = {draws[i] : i \in expired}]
        /\ Untouched
        /\ out' = Silent
        /\ UNCHANGED <<clock, threads>>

\* Mutant of StillExpired: the keys drawn not tested again under the write lock.
StillPresent(ks, now) == {k \in ks : Present(k)}

\* Its write lock: each key drawn is looked up and tested again.
StillExpired(ks, now) == {k \in ks : Expired(k, now)}

\* Mutant of PurgeRemove: the expired draws counted instead of the entries removed.
PurgeRemoveCountsDraws ==
    LET gone == StillExpired(sweeper.expired_keys, sweeper.now)
    IN  /\ sweeper.pc = "remove"
        /\ entries' = [k \in Keys |-> IF k \in gone THEN Absent ELSE entries[k]]
        /\ AddMemory(-SumOver([k \in gone |-> size_bytes(k, entries[k])]))
        /\ out' = [Silent EXCEPT !.op = "purge", !.keys = gone, !.now = sweeper.now,
                                 !.metrics = Counted(0, 0, sweeper.drawn, 0)]
        /\ sweeper' = AfterStep(sweeper.sampled, sweeper.drawn)
        /\ UNCHANGED <<clock, threads>>

PurgeRemove ==
    LET gone == StillExpired(sweeper.expired_keys, sweeper.now)
    IN  /\ sweeper.pc = "remove"
        /\ entries' = [k \in Keys |-> IF k \in gone THEN Absent ELSE entries[k]]
        /\ AddMemory(-SumOver([k \in gone |-> size_bytes(k, entries[k])]))
        /\ out' = [Silent EXCEPT !.op = "purge", !.keys = gone, !.now = sweeper.now,
                                 !.metrics = Counted(0, 0, Cardinality(gone), 0)]
        /\ sweeper' = AfterStep(sweeper.sampled, sweeper.drawn)
        /\ UNCHANGED <<clock, threads>>

-----------------------------------------------------------------------------
Tick ==
    /\ clock < MaxClock
    /\ clock' = clock + 1
    /\ out' = Silent
    /\ UNCHANGED <<entries, current_memory, threads, sweeper>>

ElementArgs == UNION {[1 .. n -> Bytes] : n \in 1 .. MaxArgs}
MemberArgs == (SUBSET Bytes) \ {{}}
FieldArgs == UNION {[F -> Bytes] : F \in MemberArgs}

WriteCommand(k, now) ==
    \/ \E els \in ElementArgs : lpush(k, els, now)
    \/ \E els \in ElementArgs : rpush(k, els, now)
    \/ \E fields \in FieldArgs : hset(k, fields, now)
    \/ \E members \in MemberArgs : sadd(k, members, now)
    \/ lpop(k, now)
    \/ rpop(k, now)
    \/ \E fields \in MemberArgs : hdel(k, fields, now)
    \/ \E members \in MemberArgs : srem(k, members, now)

ReadCommand(k, now, at) ==
    \/ \E start, stop \in Indexes : lrange(k, start, stop, now, at)
    \/ \E f \in Bytes : hget(k, f, now, at)
    \/ hgetall(k, now, at)
    \/ smembers(k, now, at)
    \/ \E m \in Bytes : sismember(k, m, now, at)
    \/ ttl("ttl", 1000, k, now)
    \/ ttl("pttl", 1, k, now)

Command(k) ==
    \/ \E now \in 0 .. clock : WriteCommand(k, now)
    \/ \E now \in 0 .. clock : \E at \in now .. clock : ReadCommand(k, now, at)
    \/ \E duration \in Durations : expire(k, duration)

ThreadNext(t) ==
    \/ \E k \in Keys, now \in 0 .. clock : \E at \in now .. clock : GetRead(t, k, now, at)
    \/ GetWrite(t)
    \/ \E k \in Keys, b \in Bytes, expires_at \in ExpiryInstants : SetCall(t, k, b, expires_at)
    \/ EnsureCapacity(t)
    \/ \E s \in Shards : SampleShard(t, s)
    \/ Evict(t)
    \/ SetInsert(t)
    \/ \E ks \in (SUBSET Keys) \ {{}} : DelCall(t, ks)
    \/ \E k \in Keys : DelKey(t, k)

SweeperNext ==
    \/ SweeperTick
    \/ \E s \in Shards, now \in 0 .. clock :
         \E draws \in [1 .. SampleSize(s) -> ShardKeys(s)] : PurgeSample(s, draws, now)
    \/ PurgeRemove

Next ==
    \/ \E k \in Keys : Command(k)
    \/ \E t \in Threads : ThreadNext(t)
    \/ SweeperNext
    \/ Tick

Spec == Init /\ [][Next]_vars

-----------------------------------------------------------------------------
(* Properties *)

\* Every variable stays in its type; in particular current_memory stays a usize and every
\* slot of the shards is absent or a well-formed CacheEntry.
TypeOK ==
    /\ entries \in [Keys -> Slots]
    /\ current_memory \in 0 .. UsizeMod - 1
    /\ clock \in Nat
    /\ threads \in [Threads -> ThreadStates]
    /\ sweeper \in SweeperStates

\* No list, hash or set stays in the map once its last item is gone (the is_empty tests of
\* lpop, rpop, hdel and srem), so a pop always finds an element.
NoEmptyCollection == \A k \in Keys : Present(k) => DOMAIN entries[k].data # {}

\* Dead from this instant on, stated without the code's own test.
DeadAt(e, now) == e.expires_at \in 0 .. now
Alive(k) == Present(k) /\ ~DeadAt(entries[k], clock)

\* The step took the last items of the collection under k.
TookLastItems(k) ==
    \/ out'.op \in Pops /\ Len(entries[k].data) = 1
    \/ out'.op \in {"hdel", "srem"} /\ out'.reply = <<Cardinality(DOMAIN entries[k].data)>>

\* A key that has not expired leaves the map only because a command that names it deletes it
\* or takes its last items, or because it is evicted: no expiry path (get's second lock, the
\* sweeper's second lock, the passive evictions, all acting on an instant read before the
\* lock) ever removes a live key, even one written after the expired one was seen.
LiveKeysKept ==
    [][\A k \in Keys :
         Alive(k) /\ entries'[k].type = "none"
           => k \in out'.keys /\ (out'.op \in {"del", "evict"} \/ TookLastItems(k))]_vars

\* While a key is live its type changes only by SET, its expiry only by SET and EXPIRE (a
\* collection command keeps the TTL), and its data only by a command that names it.
LiveEntryKept ==
    [][\A k \in Keys :
         Alive(k) /\ entries'[k].type # "none" /\ out'.op # "set"
           => /\ entries'[k].type = entries[k].type
              /\ entries'[k].expires_at # entries[k].expires_at => out'.op = "expire"
              /\ entries'[k].data # entries[k].data => out'.keys = {k} /\ ~out'.err]_vars

Growers == {"lpush", "rpush", "hset", "sadd"}
\* SADD is given a set, the others a sequence or a map.
ItemsGiven == Cardinality(IF out'.op = "sadd" THEN out'.given ELSE DOMAIN out'.given)

ReplyForAbsent(op) ==
    CASE op \in {"ttl", "pttl"}                           -> <<-2>>
      [] op \in {"hdel", "srem", "sismember", "expire"}   -> <<0>>
      [] op \in Growers                                   -> <<ItemsGiven>>
      [] OTHER                                            -> <<>>

\* An entry that had expired when the command read the clock behaves as if it were absent:
\* every command but DEL and SET answers what it answers for a missing key, and one that
\* creates a collection starts it empty and without the old TTL.
ExpiredIsAbsent ==
    [][\A k \in out'.keys :
         /\ Present(k) /\ DeadAt(entries[k], out'.now)
         /\ out'.op \notin {"set", "del", "evict", "purge"}
         => /\ out'.reply = ReplyForAbsent(out'.op)
            /\ ~out'.err
            /\ out'.op \in Growers =>
                 /\ entries'[k].expires_at = None
                 /\ Cardinality(DOMAIN entries'[k].data) = ItemsGiven]_vars

\* expired_keys counts each expiration once: when get, a pop or the sweeper removes expired
\* entries it counts exactly those, although the sweeper draws keys with replacement and
\* another task may have removed or rewritten a key between its two locks.
ExpirationsCountedOnce ==
    [][out'.op \in {"get", "purge"} \cup Pops =>
         out'.metrics.expired =
           Cardinality({k \in Keys : /\ Present(k) /\ DeadAt(entries[k], out'.now)
                                      /\ entries'[k].type = "none"})]_vars

\* current_memory is the number of bytes size_bytes charges for the entries held ("Current
\* tracked memory usage in bytes", src/src/db.rs:949).
MemoryTracksEntries == current_memory = TotalBytes % UsizeMod

\* The collections a step creates: those whose header the code does not charge.
CreatedCollections ==
    {k \in out'.keys : out'.op \in Growers /\ ~out'.err /\ ~Live(k, out'.now)}

\* The drift of current_memory has one source: every step moves the counter by exactly the
\* bytes it adds to or takes from the map, but for the header (key and fixed overhead) of a
\* collection it creates, which is never charged.
DriftOnlyFromCreation ==
    [][current_memory' =
         (current_memory + TotalBytes' - TotalBytes
            - SumOver([k \in CreatedCollections |-> HeaderBytes(k)])) % UsizeMod]_vars

-----------------------------------------------------------------------------
(* Fairness and liveness *)

\* A thread inside a method keeps running.
ThreadProgress(t) ==
    \/ GetWrite(t)
    \/ EnsureCapacity(t)
    \/ \E s \in Shards : SampleShard(t, s)
    \/ Evict(t)
    \/ SetInsert(t)
    \/ \E k \in Keys : DelKey(t, k)

\* A sweeper step that draws k with a clock read at the time of the step.
Draws(k) ==
    \E draws \in [1 .. SampleSize(ShardOf[k]) -> ShardKeys(ShardOf[k])] :
       (\E i \in DOMAIN draws : draws[i] = k) /\ PurgeSample(ShardOf[k], draws, clock)

FairSpec ==
    /\ Spec
    /\ \A t \in Threads : WF_vars(ThreadProgress(t))
    /\ WF_vars(SweeperNext)
    /\ \A k \in Keys : SF_vars(Draws(k))

\* A key comes into the map.
KeyAppears == \E k \in Keys : ~Present(k) /\ entries'[k].type # "none"

\* A thread that enters get, set or del comes out of it, unless other clients add keys for
\* ever: the loop of ensure_capacity goes on only after an eviction, which takes a key out,
\* and ends when nothing is found, although the candidate may be gone, the item may be
\* larger than the limit, and another thread may be in the same loop.
CallsReturn == \A t \in Threads : []<>(threads[t].pc = "idle") \/ []<><<KeyAppears>>_vars

\* An expired entry does not stay for ever, even if nobody asks for its key: the sweeper
\* removes it, unless a client does or gives the key a new life first.
ExpiredEntriesGo ==
    \A k \in Keys : (Present(k) /\ DeadAt(entries[k], clock)) ~> Alive(k) \/ ~Present(k)

\* The state without the record of the last step.
StateView == <<entries, current_memory, clock, threads, sweeper>>
=============================================================================
