---------------------------- MODULE DbLiveProofs ----------------------------
(***************************************************************************)
(* Expiry, for every interleaving of clients, sweeper and evictions and    *)
(* every value of the constants: no expiry path removes a key that has not *)
(* expired, a live entry changes only by the commands that name it, each   *)
(* expiration is counted once, and an expired entry is absent to clients.  *)
(* The argument: an instant that a task reads before it takes a lock is    *)
(* never ahead of the clock (ThreadOK and sweeper.now in IInv), and every  *)
(* test of expiry is made at that instant under the lock.                  *)
(***************************************************************************)
EXTENDS DbProofs

\* The step does not take a live key away.
NoLiveKeyLost == \A x \in Keys : ~(Alive(x) /\ entries'[x].type = "none")

\* What LiveKeysKept asks of a step.
LossExplained ==
    \A k \in Keys :
      Alive(k) /\ entries'[k].type = "none"
        => k \in out'.keys /\ (out'.op \in {"del", "evict"} \/ TookLastItems(k))

\* An entry that the code finds expired at a past instant is dead now.
LEMMA ExpiredIsDead ==
    ASSUME IInv, NEW k \in Keys, NEW now \in Nat, now <= clock, Expired(k, now)
    PROVE  ~Alive(k)
<1>1. entries[k] \in CacheEntries
  BY PresentSize, SlotCases DEF Expired
<1>2. entries[k].expires_at \in Nat
  BY <1>1 DEF CacheEntries, Expired, is_expired
<1>3. entries[k].expires_at <= clock
  BY <1>2 DEF IInv, Expired, is_expired
<1> QED BY <1>2, <1>3 DEF Alive, DeadAt, IInv

\* A step that leaves the map alone, or only stamps an entry, loses nothing.
LEMMA UntouchedKeeps ==
    ASSUME entries' = entries
    PROVE  NoLiveKeyLost
  BY DEF NoLiveKeyLost, Alive, Present

\* Touch keeps the type of every slot.
LEMMA TouchKeeps ==
    ASSUME IInv, NEW k \in Keys, Present(k), NEW at \in Nat, Touch(k, at)
    PROVE  NoLiveKeyLost
<1>1. [entries[k] EXCEPT !.last_accessed = at] \in FullEntries
  BY PresentSize, StampType
<1>2. [entries[k] EXCEPT !.last_accessed = at].type # "none"
  BY <1>1, SlotCases DEF FullSlots
<1>3. entries' = [entries EXCEPT ![k] = [entries[k] EXCEPT !.last_accessed = at]]
  BY DEF Touch
<1>4. entries \in [Keys -> FullSlots]
  BY DEF IInv
<1> QED BY <1>2, <1>3, <1>4 DEF NoLiveKeyLost, Alive, Present

\* Storing an entry loses nothing.
LEMMA StoreKeeps ==
    ASSUME IInv, NEW k \in Keys, NEW e \in FullEntries, NEW delta, Store(k, e, delta)
    PROVE  NoLiveKeyLost
<1>1. e.type # "none"
  BY SlotCases DEF FullSlots
<1> QED BY <1>1 DEF NoLiveKeyLost, Alive, Present, Store, IInv

\* Removing an entry found expired at a past instant loses no live key.
LEMMA RemoveKeeps ==
    ASSUME IInv, NEW k \in Keys, NEW now \in Nat, now <= clock, Expired(k, now),
           NEW delta, Store(k, Absent, delta)
    PROVE  NoLiveKeyLost
<1>1. ~Alive(k)
  BY ExpiredIsDead
<1> QED BY <1>1 DEF NoLiveKeyLost, Alive, Present, Store, IInv

\* The growing commands lose nothing: what they store is an entry.
LEMMA GrowKeeps ==
    ASSUME IInv, NEW op, NEW k \in Keys, NEW now, NEW type \in CollectionTypes,
           NEW data, NEW added, NEW given, NEW count,
           Grow(op, k, now, type, data, added, given, count)
    PROVE  NoLiveKeyLost
<1> DEFINE base == OrInsert(k, now, type)
           e    == [base EXCEPT !.data = data, !.last_accessed = clock]
<1>1. CASE Untouched
  BY <1>1, UntouchedKeeps DEF Untouched
<1>2. CASE base.type = type /\ Store(k, e, added - ReclaimedBytes(k, now))
  <2>1. base \in CacheEntries
    BY OrInsertType
  <2>2. e.type = base.type
    BY <2>1 DEF CacheEntries
  <2>3. e.type # "none"
    BY <1>2, <2>2 DEF CollectionTypes
  <2>4. entries' = [entries EXCEPT ![k] = e]
    BY <1>2 DEF Store
  <2>5. entries \in [Keys -> FullSlots]
    BY DEF IInv
  <2> HIDE DEF e
  <2> QED BY <2>3, <2>4, <2>5 DEF NoLiveKeyLost, Alive, Present
<1> QED BY <1>1, <1>2 DEF Grow

\* The shrinking commands lose the key they name, and only with its last items.
LEMMA ShrinkExplained ==
    ASSUME IInv, NEW op, NEW k \in Keys, NEW now \in Nat, now <= clock,
           NEW type \in CollectionTypes, NEW data, NEW freed, NEW given, NEW reply, NEW metrics,
           Present(k) /\ entries[k].type = type /\ DOMAIN data = {}
             => \/ op \in Pops /\ Len(entries[k].data) = 1
                \/ op \in {"hdel", "srem"} /\ reply = <<Cardinality(DOMAIN entries[k].data)>>,
           Shrink(op, k, now, type, data, freed, given, reply, metrics)
    PROVE  LossExplained
<1>1. CASE Untouched
  BY <1>1, UntouchedKeeps DEF Untouched, NoLiveKeyLost, LossExplained
<1>2. CASE Expired(k, now) /\ Store(k, Absent, -size_bytes(k, entries[k]))
  BY <1>2, RemoveKeeps DEF NoLiveKeyLost, LossExplained
<1>3. CASE /\ Live(k, now)
           /\ entries[k].type = type
           /\ Store(k, Remaining(k, data), -(freed + EmptiedBytes(k, data)))
           /\ Answer(op, k, now, given, reply, metrics)
  <2>1. entries \in [Keys -> FullSlots] /\ Present(k)
    BY <1>3 DEF IInv, Live
  <2>2. entries[k] \in CacheEntries
    BY <2>1, PresentSize, SlotCases
  <2>3. CASE DOMAIN data = {}
    <3>1. out'.op = op /\ out'.keys = {k} /\ out'.reply = reply
      BY <1>3 DEF Answer
    <3>2. TookLastItems(k)
      BY <1>3, <2>1, <2>3, <3>1 DEF TookLastItems
    <3>3. entries' = [entries EXCEPT ![k] = Absent]
      BY <1>3, <2>3 DEF Store, Remaining
    <3> QED BY <2>1, <3>1, <3>2, <3>3 DEF LossExplained, Alive, Present
  <2>4. CASE DOMAIN data # {}
    <3> DEFINE e == [entries[k] EXCEPT !.data = data, !.last_accessed = clock]
    <3>1. e.type = type
      BY <1>3, <2>2 DEF CacheEntries
    <3>2. e.type # "none"
      BY <3>1 DEF CollectionTypes
    <3>3. entries' = [entries EXCEPT ![k] = e]
      BY <1>3, <2>4 DEF Store, Remaining
    <3> HIDE DEF e
    <3> QED BY <2>1, <3>2, <3>3 DEF LossExplained, Alive, Present
  <2> QED BY <2>3, <2>4
<1> QED BY <1>1, <1>2, <1>3 DEF Shrink

\* LPOP and RPOP remove a key with its last element.
LEMMA PopExplained ==
    ASSUME IInv, NEW k \in Keys, NEW now \in Nat, now <= clock,
           lpop(k, now) \/ rpop(k, now)
    PROVE  LossExplained
<1> DEFINE list  == entries[k].data
           front == SubSeq(list, 1, Len(list) - 1)
<1>1. ASSUME Present(k), entries[k].type = "list"
      PROVE  /\ DOMAIN Tail(list) = {} => Len(list) = 1
             /\ DOMAIN front = {} => Len(list) = 1
  <2>1. list \in Seq(Bytes) /\ list # <<>> /\ Len(list) \in Nat \ {0}
    BY <1>1, StoredList
  <2>2. Tail(list) \in Seq(Bytes) /\ Len(Tail(list)) = Len(list) - 1
    BY <2>1, HeadTailProperties
  <2>3. DOMAIN Tail(list) = 1 .. Len(list) - 1
    BY <2>2, LenProperties
  <2>4. \A i \in 1 .. Len(list) - 1 : list[i] \in Bytes
    BY <2>1, ElementOfSeq
  <2>5. front \in Seq(Bytes) /\ Len(front) = Len(list) - 1
    BY <2>1, <2>4, SubSeqProperties
  <2>6. DOMAIN front = 1 .. Len(list) - 1
    <3> HIDE DEF front
    <3> QED BY <2>5, LenProperties
  <2>7. 1 .. Len(list) - 1 = {} => Len(list) = 1
    <3>1. ASSUME NEW n \in Nat \ {0}, n # 1
          PROVE  1 \in 1 .. n - 1
      BY <3>1
    <3> QED BY <2>1, <3>1
  <2> QED BY <2>3, <2>6, <2>7
<1>2. CASE lpop(k, now)
  <2>1. Shrink("lpop", k, now, "list", Tail(list), ByteLen[Head(list)] + ITEM_OVERHEAD,
               <<>>, <<Head(list)>>, Hit)
    BY <1>2 DEF lpop
  <2> QED BY <1>1, <2>1, ShrinkExplained DEF CollectionTypes, Pops
<1>3. CASE rpop(k, now)
  <2>1. Shrink("rpop", k, now, "list", front, ByteLen[list[Len(list)]] + ITEM_OVERHEAD,
               <<>>, <<list[Len(list)]>>, Hit)
    BY <1>3 DEF rpop
  <2> HIDE DEF front
  <2> QED BY <1>1, <2>1, ShrinkExplained DEF CollectionTypes, Pops
<1> QED BY <1>2, <1>3

\* HDEL and SREM remove a key when they remove all its items.
LEMMA DeleteItemsExplained ==
    ASSUME IInv, NEW k \in Keys, NEW now \in Nat, now <= clock,
           NEW items \in MemberArgs, hdel(k, items, now) \/ srem(k, items, now)
    PROVE  LossExplained
<1> DEFINE map  == entries[k].data
           gone == items \cap DOMAIN map
           kept == [f \in DOMAIN map \ items |-> map[f]]
           left == [m \in DOMAIN map \ items |-> m]
<1>1. DOMAIN kept = {} \/ DOMAIN left = {} => gone = DOMAIN map
  OBVIOUS
<1>2. CASE hdel(k, items, now)
  <2>1. Shrink("hdel", k, now, "hash", kept, SumOver([f \in gone |-> PairBytes(f, map[f])]),
               items, <<Cardinality(gone)>>, NoMetric)
    BY <1>2 DEF hdel
  <2> HIDE DEF kept, gone, left
  <2> QED BY <1>1, <2>1, ShrinkExplained DEF CollectionTypes
<1>3. CASE srem(k, items, now)
  <2>1. Shrink("srem", k, now, "set", left,
               SumOver([m \in gone |-> ByteLen[m] + ITEM_OVERHEAD]),
               items, <<Cardinality(gone)>>, NoMetric)
    BY <1>3 DEF srem
  <2> HIDE DEF kept, gone, left
  <2> QED BY <1>1, <2>1, ShrinkExplained DEF CollectionTypes
<1> QED BY <1>2, <1>3

-----------------------------------------------------------------------------
(* Every step *)

\* A step of a connection task takes a live key away only by DEL or by eviction.
LEMMA ThreadExplained ==
    ASSUME IInv, NEW t \in Threads, ThreadNext(t)
    PROVE  LossExplained
<1>0. clock \in Nat /\ ThreadOK(t) /\ threads[t] \in ThreadStates
  BY DEF IInv
<1>1. ASSUME NoLiveKeyLost
      PROVE  LossExplained
  BY <1>1 DEF NoLiveKeyLost, LossExplained
<1>2. ASSUME Untouched
      PROVE  LossExplained
  BY <1>1, <1>2, UntouchedKeeps DEF Untouched
<1>3. ASSUME NEW k \in Keys, NEW now \in 0 .. clock, NEW at \in now .. clock,
             GetRead(t, k, now, at)
      PROVE  LossExplained
  <2>1. at \in Nat
    BY <1>0
  <2>2. CASE Live(k, now) /\ GetLive(k, now, at)
    BY <1>1, <2>1, <2>2, TouchKeeps DEF GetLive, Live
  <2> QED BY <1>2, <1>3, <2>2 DEF GetRead
<1>4. CASE GetWrite(t)
  <2> DEFINE k   == threads[t].key
             now == threads[t].now
  <2>1. k \in Keys /\ now \in Nat /\ now <= clock
    BY <1>0, <1>4 DEF GetWrite, ThreadOK, ThreadStates
  <2>2. CASE Live(k, now) /\ GetLive(k, now, clock)
    <3>1. Present(k) /\ Touch(k, clock)
      BY <2>2 DEF GetLive, Live
    <3> HIDE DEF k
    <3> QED BY <1>0, <1>1, <2>1, <3>1, TouchKeeps
  <2>3. CASE Expired(k, now) /\ Store(k, Absent, -size_bytes(k, entries[k]))
    <3> HIDE DEF k, now
    <3> QED BY <1>1, <2>1, <2>3, RemoveKeeps
  <2> QED BY <1>2, <1>4, <2>2, <2>3 DEF GetWrite
<1>5. ASSUME NEW k, NEW b, NEW exp, SetCall(t, k, b, exp)
      PROVE  LossExplained
  BY <1>2, <1>5 DEF SetCall
<1>6. CASE EnsureCapacity(t)
  BY <1>2, <1>6 DEF EnsureCapacity
<1>7. ASSUME NEW s, SampleShard(t, s)
      PROVE  LossExplained
  BY <1>2, <1>7 DEF SampleShard
<1>8. CASE Evict(t)
  <2> DEFINE k == threads[t].oldest_key
  <2>1. CASE /\ k \in Keys
             /\ Store(k, Absent, -size_bytes(k, entries[k]))
             /\ out' = [Silent EXCEPT !.op = "evict", !.keys = {k},
                                      !.now = threads[t].oldest_time,
                                      !.metrics = Counted(0, 0, 0, 1)]
    <3>1. out'.op = "evict" /\ out'.keys = {k}
      BY <2>1 DEF Silent
    <3>2. entries' = [entries EXCEPT ![k] = Absent] /\ entries \in [Keys -> FullSlots]
      BY <2>1 DEF Store, IInv
    <3> HIDE DEF k
    <3> QED BY <3>1, <3>2 DEF LossExplained, Alive, Present
  <2> QED BY <1>2, <1>8, <2>1 DEF Evict
<1>9. CASE SetInsert(t)
  <2> DEFINE k == threads[t].key
             e == threads[t].entry
             d == size_bytes(k, e) - (IF Present(k) THEN size_bytes(k, entries[k]) ELSE 0)
  <2>1. k \in Keys /\ e \in FullEntries /\ Store(k, e, d)
    BY <1>0, <1>9 DEF SetInsert, ThreadOK
  <2> HIDE DEF k, e, d
  <2> QED BY <1>1, <2>1, StoreKeeps
<1>10. ASSUME NEW ks, DelCall(t, ks)
       PROVE  LossExplained
  BY <1>2, <1>10 DEF DelCall
<1>11. ASSUME NEW k \in Keys, DelKey(t, k)
       PROVE  LossExplained
  <2>1. CASE Store(k, Absent, -size_bytes(k, entries[k]))
    <3>1. out'.op = "del" /\ out'.keys = {k}
      BY <1>11 DEF DelKey, Answer
    <3>2. entries' = [entries EXCEPT ![k] = Absent] /\ entries \in [Keys -> FullSlots]
      BY <2>1 DEF Store, IInv
    <3> QED BY <3>1, <3>2 DEF LossExplained, Alive, Present
  <2> QED BY <1>2, <1>11, <2>1 DEF DelKey
<1> QED BY <1>3, <1>4, <1>5, <1>6, <1>7, <1>8, <1>9, <1>10, <1>11 DEF ThreadNext

\* A step of the sweeper takes no live key away: the keys it drew are tested again, at an
\* instant that is not ahead of the clock.
LEMMA SweeperExplained ==
    ASSUME IInv, SweeperNext
    PROVE  LossExplained
<1>1. ASSUME Untouched
      PROVE  LossExplained
  BY <1>1, UntouchedKeeps DEF Untouched, NoLiveKeyLost, LossExplained
<1>2. CASE PurgeRemove
  <2> DEFINE gone == StillExpired(sweeper.expired_keys, sweeper.now)
  <2>1. sweeper.now \in Nat /\ sweeper.now <= clock
    BY DEF IInv, SweeperStates
  <2>2. \A x \in Keys : x \in gone => ~Alive(x)
    BY <2>1, ExpiredIsDead DEF StillExpired
  <2>3. entries' = [x \in Keys |-> IF x \in gone THEN Absent ELSE entries[x]]
    BY <1>2 DEF PurgeRemove
  <2> HIDE DEF gone
  <2> QED BY <2>2, <2>3 DEF LossExplained, Alive, Present
<1> QED BY <1>1, <1>2 DEF SweeperNext, SweeperTick, PurgeSample

\* Every step explains the live keys it takes away.
LEMMA NextExplained ==
    ASSUME IInv, Next
    PROVE  LossExplained
<1>0. clock \in Nat
  BY DEF IInv
<1>1. ASSUME NoLiveKeyLost
      PROVE  LossExplained
  BY <1>1 DEF NoLiveKeyLost, LossExplained
<1>2. ASSUME Untouched
      PROVE  LossExplained
  BY <1>1, <1>2, UntouchedKeeps DEF Untouched
<1>3. ASSUME NEW k \in Keys, NEW now \in 0 .. clock, WriteCommand(k, now)
      PROVE  LossExplained
  <2>1. now \in Nat /\ now <= clock
    BY <1>0
  <2>2. ASSUME NEW op, NEW type \in CollectionTypes, NEW data, NEW added, NEW given, NEW count,
               Grow(op, k, now, type, data, added, given, count)
        PROVE  LossExplained
    BY <1>1, <2>2, GrowKeeps
  <2>3. ASSUME NEW els, lpush(k, els, now) \/ rpush(k, els, now)
        PROVE  LossExplained
    BY <2>2, <2>3 DEF lpush, rpush, CollectionTypes
  <2>4. ASSUME NEW fields, hset(k, fields, now)
        PROVE  LossExplained
    BY <2>2, <2>4 DEF hset, CollectionTypes
  <2>5. ASSUME NEW members, sadd(k, members, now)
        PROVE  LossExplained
    BY <2>2, <2>5 DEF sadd, CollectionTypes
  <2> QED BY <1>3, <2>1, <2>3, <2>4, <2>5, PopExplained, DeleteItemsExplained DEF WriteCommand
<1>4. ASSUME NEW k \in Keys, NEW now \in 0 .. clock, NEW at \in now .. clock,
             ReadCommand(k, now, at)
      PROVE  LossExplained
  <2>1. at \in Nat
    BY <1>0
  <2>2. ASSUME NEW op, NEW type, NEW given, NEW nil, NEW reply, NEW metrics,
               Read(op, k, now, at, type, given, nil, reply, metrics)
        PROVE  LossExplained
    BY <1>1, <1>2, <2>1, <2>2, TouchKeeps DEF Read, Live
  <2>3. ASSUME NEW start, NEW stop, lrange(k, start, stop, now, at)
        PROVE  LossExplained
    BY <2>2, <2>3 DEF lrange
  <2>4. ASSUME NEW f, hget(k, f, now, at)
        PROVE  LossExplained
    BY <2>2, <2>4 DEF hget
  <2>5. ASSUME hgetall(k, now, at) \/ smembers(k, now, at)
        PROVE  LossExplained
    BY <2>2, <2>5 DEF hgetall, smembers
  <2>6. ASSUME NEW m, sismember(k, m, now, at)
        PROVE  LossExplained
    BY <2>2, <2>6 DEF sismember
  <2>7. ASSUME NEW op, NEW unit, ttl(op, unit, k, now)
        PROVE  LossExplained
    BY <1>2, <2>7 DEF ttl
  <2> QED BY <1>4, <2>3, <2>4, <2>5, <2>6, <2>7 DEF ReadCommand
<1>5. ASSUME NEW k \in Keys, NEW duration \in Durations, expire(k, duration)
      PROVE  LossExplained
  <2>1. CASE Expired(k, clock) /\ Store(k, Absent, -size_bytes(k, entries[k]))
    BY <1>0, <1>1, <2>1, RemoveKeeps
  <2>2. CASE /\ Live(k, clock)
             /\ Store(k, [entries[k] EXCEPT !.expires_at = clock + duration], 0)
    <3>1. clock + duration \in Nat
      BY <1>0, DbAssumption
    <3>2. [entries[k] EXCEPT !.expires_at = clock + duration] \in FullEntries
      BY <2>2, <3>1, PresentSize, StampType DEF Live
    <3> QED BY <1>1, <2>2, <3>2, StoreKeeps
  <2> QED BY <1>2, <1>5, <2>1, <2>2 DEF expire
<1>6. CASE Tick
  BY <1>1, <1>6, UntouchedKeeps DEF Tick
<1> QED BY <1>3, <1>4, <1>5, <1>6, ThreadExplained, SweeperExplained DEF Next, Command

\* A key that has not expired leaves the map only by DEL, by eviction, or with its last
\* items by a pop, HDEL or SREM that names it: GET's second lock, the sweeper's second lock
\* and the passive evictions of the other commands never remove a live key.
THEOREM LiveKeysAreKept == Spec => LiveKeysKept
<1>1. IInv /\ [Next]_vars =>
        [\A k \in Keys :
           Alive(k) /\ entries'[k].type = "none"
             => k \in out'.keys /\ (out'.op \in {"del", "evict"} \/ TookLastItems(k))]_vars
  BY NextExplained DEF LossExplained
<1> QED BY <1>1, Invariance, PTL DEF Spec, LiveKeysKept

-----------------------------------------------------------------------------
(* What a live entry keeps *)

\* What LiveEntryKept asks of a step, for one key.
EntryKept(k) ==
    Alive(k) /\ entries'[k].type # "none" /\ out'.op # "set"
      => /\ entries'[k].type = entries[k].type
         /\ entries'[k].expires_at # entries[k].expires_at => out'.op = "expire"
         /\ entries'[k].data # entries[k].data => out'.keys = {k} /\ ~out'.err

\* What LiveEntryKept asks of a step.
EntriesKept == \A k \in Keys : EntryKept(k)

\* An instant that is past finds a live entry live.
LEMMA AliveIsLive ==
    ASSUME IInv, NEW k \in Keys, NEW now \in Nat, now <= clock, Alive(k)
    PROVE  Live(k, now)
<1>1. ~Expired(k, now)
  BY ExpiredIsDead
<1> QED BY <1>1 DEF Alive, Live, Expired

\* A slot that a step leaves alone keeps everything.
LEMMA SameSlotKept ==
    ASSUME NEW k, entries'[k] = entries[k]
    PROVE  EntryKept(k)
  BY DEF EntryKept

\* A step that leaves the map alone.
LEMMA UntouchedEntries ==
    ASSUME entries' = entries
    PROVE  EntriesKept
  BY SameSlotKept DEF EntriesKept

\* A step that changes one slot answers for that slot only.
LEMMA OneSlotKept ==
    ASSUME IInv, NEW k \in Keys, NEW e, entries' = [entries EXCEPT ![k] = e], EntryKept(k)
    PROVE  EntriesKept
<1>1. ASSUME NEW x \in Keys, x # k
      PROVE  EntryKept(x)
  <2>1. entries'[x] = entries[x]
    BY <1>1 DEF IInv
  <2> QED BY <2>1, SameSlotKept
<1> QED BY <1>1 DEF EntriesKept

\* A removal leaves nothing to compare.
LEMMA RemovedEntries ==
    ASSUME IInv, NEW k \in Keys, NEW delta, Store(k, Absent, delta)
    PROVE  EntriesKept
<1>1. entries' = [entries EXCEPT ![k] = Absent] /\ entries'[k] = Absent
  BY DEF Store, IInv
<1>2. EntryKept(k)
  BY <1>1 DEF EntryKept, Absent
<1> QED BY <1>1, <1>2, OneSlotKept

\* A timestamp leaves type, expiry and data alone.
LEMMA TouchedEntries ==
    ASSUME IInv, NEW k \in Keys, Present(k), NEW at, Touch(k, at)
    PROVE  EntriesKept
<1> DEFINE e == [entries[k] EXCEPT !.last_accessed = at]
<1>1. entries' = [entries EXCEPT ![k] = e] /\ entries'[k] = e
  BY DEF Touch, IInv
<1>2. entries[k] \in CacheEntries
  BY PresentSize, SlotCases
<1>3. /\ e.type = entries[k].type
      /\ e.expires_at = entries[k].expires_at
      /\ e.data = entries[k].data
  BY <1>2 DEF CacheEntries
<1> HIDE DEF e
<1>4. EntryKept(k)
  BY <1>1, <1>3 DEF EntryKept
<1> QED BY <1>1, <1>4, OneSlotKept

\* Writing new data into an entry, in answer to a command that names it.
LEMMA RewrittenEntries ==
    ASSUME IInv, NEW k \in Keys, Alive(k) => Present(k), NEW base, NEW data, NEW at, NEW delta,
           Alive(k) => base = entries[k],
           Store(k, [base EXCEPT !.data = data, !.last_accessed = at], delta),
           out'.keys = {k}, ~out'.err
    PROVE  EntriesKept
<1> DEFINE e == [base EXCEPT !.data = data, !.last_accessed = at]
<1>1. entries' = [entries EXCEPT ![k] = e] /\ entries'[k] = e
  BY DEF Store, IInv
<1>2. EntryKept(k)
  <2>1. ASSUME Alive(k)
        PROVE  e.type = entries[k].type /\ e.expires_at = entries[k].expires_at
    <3>1. base = entries[k] /\ entries[k] \in CacheEntries
      BY <2>1, PresentSize, SlotCases
    <3>2. base \in CacheEntries
      BY <3>1
    <3>3. e.type = base.type /\ e.expires_at = base.expires_at
      BY <3>2 DEF CacheEntries
    <3> QED BY <3>1, <3>3
  <2> HIDE DEF e
  <2> QED BY <1>1, <2>1 DEF EntryKept
<1> HIDE DEF e
<1> QED BY <1>1, <1>2, OneSlotKept

\* The growing commands keep the type and the TTL of a live entry.
LEMMA GrowEntries ==
    ASSUME IInv, NEW op, NEW k \in Keys, NEW now \in Nat, now <= clock,
           NEW type, NEW data, NEW added, NEW given, NEW count,
           Grow(op, k, now, type, data, added, given, count)
    PROVE  EntriesKept
<1> DEFINE base == OrInsert(k, now, type)
<1>1. CASE Untouched
  BY <1>1, UntouchedEntries DEF Untouched
<1>2. CASE /\ Store(k, [base EXCEPT !.data = data, !.last_accessed = clock],
                    added - ReclaimedBytes(k, now))
           /\ Answer(op, k, now, given, <<count>>, NoMetric)
  <2>1. Alive(k) => Present(k) /\ base = entries[k]
    BY AliveIsLive DEF Alive, OrInsert
  <2>2. out'.keys = {k} /\ ~out'.err
    BY <1>2 DEF Answer
  <2> HIDE DEF base
  <2> QED BY <1>2, <2>1, <2>2, RewrittenEntries
<1> QED BY <1>1, <1>2 DEF Grow

\* So do the shrinking commands, unless they remove the key.
LEMMA ShrinkEntries ==
    ASSUME IInv, NEW op, NEW k \in Keys, NEW now, NEW type, NEW data, NEW freed, NEW given,
           NEW reply, NEW metrics,
           Shrink(op, k, now, type, data, freed, given, reply, metrics)
    PROVE  EntriesKept
<1>1. CASE Untouched
  BY <1>1, UntouchedEntries DEF Untouched
<1>2. CASE Store(k, Absent, -size_bytes(k, entries[k]))
  BY <1>2, RemovedEntries
<1>3. CASE /\ Store(k, Remaining(k, data), -(freed + EmptiedBytes(k, data)))
           /\ Answer(op, k, now, given, reply, metrics)
  <2>1. CASE DOMAIN data = {}
    <3>1. Store(k, Absent, -(freed + EmptiedBytes(k, data)))
      BY <1>3, <2>1 DEF Remaining
    <3> QED BY <3>1, RemovedEntries
  <2>2. CASE DOMAIN data # {}
    <3>1. Store(k, [entries[k] EXCEPT !.data = data, !.last_accessed = clock],
                -(freed + EmptiedBytes(k, data)))
      BY <1>3, <2>2 DEF Remaining
    <3>2. out'.keys = {k} /\ ~out'.err /\ (Alive(k) => Present(k))
      BY <1>3 DEF Answer, Alive
    <3> QED BY <3>1, <3>2, RewrittenEntries
  <2> QED BY <2>1, <2>2
<1> QED BY <1>1, <1>2, <1>3 DEF Shrink

\* A step of a connection task inside get, set or del.
LEMMA ThreadEntries ==
    ASSUME IInv, NEW t \in Threads, ThreadNext(t)
    PROVE  EntriesKept
<1>0. ThreadOK(t)
  BY DEF IInv
<1>1. ASSUME Untouched
      PROVE  EntriesKept
  BY <1>1, UntouchedEntries DEF Untouched
<1>2. ASSUME NEW k \in Keys, NEW now, NEW at, Live(k, now), GetLive(k, now, at)
      PROVE  EntriesKept
  BY <1>2, TouchedEntries DEF GetLive, Live
<1>3. ASSUME NEW k \in Keys, NEW now, NEW at, GetRead(t, k, now, at)
      PROVE  EntriesKept
  BY <1>1, <1>2, <1>3 DEF GetRead
<1>4. CASE GetWrite(t)
  <2> DEFINE k   == threads[t].key
             now == threads[t].now
  <2>1. k \in Keys
    BY <1>0, <1>4 DEF GetWrite, ThreadOK
  <2>2. \/ Untouched
        \/ Live(k, now) /\ GetLive(k, now, clock)
        \/ Store(k, Absent, -size_bytes(k, entries[k]))
    BY <1>4 DEF GetWrite
  <2> HIDE DEF k, now
  <2> QED BY <1>1, <1>2, <2>1, <2>2, RemovedEntries
<1>5. ASSUME NEW k, NEW b, NEW exp, SetCall(t, k, b, exp)
      PROVE  EntriesKept
  BY <1>1, <1>5 DEF SetCall
<1>6. ASSUME NEW s, EnsureCapacity(t) \/ SampleShard(t, s) \/ DelCall(t, s)
      PROVE  EntriesKept
  BY <1>1, <1>6 DEF EnsureCapacity, SampleShard, DelCall
<1>7. CASE Evict(t)
  BY <1>1, <1>7, RemovedEntries DEF Evict
<1>8. CASE SetInsert(t)
  <2>1. out'.op = "set"
    BY <1>8 DEF SetInsert, Answer
  <2> QED BY <2>1 DEF EntriesKept, EntryKept
<1>9. ASSUME NEW k \in Keys, DelKey(t, k)
      PROVE  EntriesKept
  BY <1>1, <1>9, RemovedEntries DEF DelKey
<1> QED BY <1>3, <1>4, <1>5, <1>6, <1>7, <1>8, <1>9 DEF ThreadNext

\* Every step.
LEMMA NextEntries ==
    ASSUME IInv, Next
    PROVE  EntriesKept
<1>0. clock \in Nat
  BY DEF IInv
<1>1. ASSUME Untouched
      PROVE  EntriesKept
  BY <1>1, UntouchedEntries DEF Untouched
<1>2. ASSUME NEW k \in Keys, NEW now \in 0 .. clock, WriteCommand(k, now)
      PROVE  EntriesKept
  <2>1. now \in Nat /\ now <= clock
    BY <1>0
  <2>2. ASSUME NEW op, NEW type, NEW data, NEW added, NEW given, NEW count,
               Grow(op, k, now, type, data, added, given, count)
        PROVE  EntriesKept
    BY <2>1, <2>2, GrowEntries
  <2>3. ASSUME NEW op, NEW type, NEW data, NEW freed, NEW given, NEW reply, NEW metrics,
               Shrink(op, k, now, type, data, freed, given, reply, metrics)
        PROVE  EntriesKept
    BY <2>3, ShrinkEntries
  <2>4. ASSUME NEW els, lpush(k, els, now) \/ rpush(k, els, now)
        PROVE  EntriesKept
    BY <2>2, <2>4 DEF lpush, rpush
  <2>5. ASSUME NEW fields, hset(k, fields, now) \/ sadd(k, fields, now)
        PROVE  EntriesKept
    BY <2>2, <2>5 DEF hset, sadd
  <2>6. ASSUME lpop(k, now) \/ rpop(k, now)
        PROVE  EntriesKept
    BY <2>3, <2>6 DEF lpop, rpop
  <2>7. ASSUME NEW fields, hdel(k, fields, now) \/ srem(k, fields, now)
        PROVE  EntriesKept
    BY <2>3, <2>7 DEF hdel, srem
  <2> QED BY <1>2, <2>4, <2>5, <2>6, <2>7 DEF WriteCommand
<1>3. ASSUME NEW k \in Keys, NEW now, NEW at, ReadCommand(k, now, at)
      PROVE  EntriesKept
  <2>1. ASSUME NEW op, NEW type, NEW given, NEW nil, NEW reply, NEW metrics,
               Read(op, k, now, at, type, given, nil, reply, metrics)
        PROVE  EntriesKept
    BY <1>1, <2>1, TouchedEntries DEF Read, Live
  <2>2. ASSUME NEW op, NEW unit, ttl(op, unit, k, now)
        PROVE  EntriesKept
    BY <1>1, <2>2 DEF ttl
  <2>3. ASSUME NEW start, NEW stop, lrange(k, start, stop, now, at)
        PROVE  EntriesKept
    BY <2>1, <2>3 DEF lrange
  <2>4. ASSUME NEW f, hget(k, f, now, at) \/ sismember(k, f, now, at)
        PROVE  EntriesKept
    BY <2>1, <2>4 DEF hget, sismember
  <2>5. ASSUME hgetall(k, now, at) \/ smembers(k, now, at)
        PROVE  EntriesKept
    BY <2>1, <2>5 DEF hgetall, smembers
  <2> QED BY <1>3, <2>2, <2>3, <2>4, <2>5 DEF ReadCommand
<1>4. ASSUME NEW k \in Keys, NEW duration, expire(k, duration)
      PROVE  EntriesKept
  <2>1. CASE /\ Live(k, clock)
             /\ Store(k, [entries[k] EXCEPT !.expires_at = clock + duration], 0)
             /\ Answer("expire", k, clock, <<>>, <<1>>, NoMetric)
    <3> DEFINE e == [entries[k] EXCEPT !.expires_at = clock + duration]
    <3>1. entries' = [entries EXCEPT ![k] = e] /\ entries'[k] = e /\ out'.op = "expire"
      BY <2>1 DEF Store, IInv, Answer
    <3>2. entries[k] \in CacheEntries
      BY <2>1, PresentSize, SlotCases DEF Live
    <3>3. e.type = entries[k].type /\ e.data = entries[k].data
      BY <3>2 DEF CacheEntries
    <3> HIDE DEF e
    <3>4. EntryKept(k)
      BY <3>1, <3>3 DEF EntryKept
    <3> QED BY <3>1, <3>4, OneSlotKept
  <2> QED BY <1>1, <1>4, <2>1, RemovedEntries DEF expire
<1>5. CASE SweeperNext
  <2>1. CASE PurgeRemove
    <3> DEFINE gone == StillExpired(sweeper.expired_keys, sweeper.now)
    <3>1. entries' = [x \in Keys |-> IF x \in gone THEN Absent ELSE entries[x]]
      BY <2>1 DEF PurgeRemove
    <3>2. ASSUME NEW k \in Keys
          PROVE  EntryKept(k)
      <4>1. CASE k \in gone
        <5>1. entries'[k].type = "none"
          BY <3>1, <4>1 DEF Absent
        <5> QED BY <5>1 DEF EntryKept
      <4>2. CASE k \notin gone
        <5>1. entries'[k] = entries[k]
          BY <3>1, <4>2
        <5> QED BY <5>1, SameSlotKept
      <4> QED BY <4>1, <4>2
    <3> QED BY <3>2 DEF EntriesKept
  <2> QED BY <1>1, <1>5, <2>1 DEF SweeperNext, SweeperTick, PurgeSample
<1>6. CASE Tick
  BY <1>6, UntouchedEntries DEF Tick
<1> QED BY <1>2, <1>3, <1>4, <1>5, <1>6, ThreadEntries DEF Next, Command

\* While a key is live, only SET changes its type, only SET and EXPIRE its expiry, and only
\* a command that names it and succeeds its data: no collection command loses or resets a
\* TTL, and no other key is touched, whatever the interleaving.
THEOREM LiveEntriesAreKept == Spec => LiveEntryKept
<1>1. IInv /\ [Next]_vars =>
        [\A k \in Keys :
           Alive(k) /\ entries'[k].type # "none" /\ out'.op # "set"
             => /\ entries'[k].type = entries[k].type
                /\ entries'[k].expires_at # entries[k].expires_at => out'.op = "expire"
                /\ entries'[k].data # entries[k].data => out'.keys = {k} /\ ~out'.err]_vars
  BY NextEntries DEF EntriesKept, EntryKept
<1> QED BY <1>1, Invariance, PTL DEF Spec, LiveEntryKept

-----------------------------------------------------------------------------
(* Expirations are counted once *)

\* The keys a step removes although it found them dead at the instant it answers for.
Buried == {k \in Keys : Present(k) /\ DeadAt(entries[k], out'.now) /\ entries'[k].type = "none"}

\* What ExpirationsCountedOnce asks of a step.
ExpirationsExplained ==
    out'.op \in {"get", "purge"} \cup Pops => out'.metrics.expired = Cardinality(Buried)

\* The code's test finds exactly the entries that are dead at that instant.
LEMMA ExpiredIsDeadAt ==
    ASSUME IInv, NEW k \in Keys, NEW now \in Nat, Present(k)
    PROVE  Expired(k, now) <=> DeadAt(entries[k], now)
<1>1. entries[k] \in CacheEntries
  BY PresentSize, SlotCases
<1>2. entries[k].expires_at \in Nat \cup {-1}
  BY <1>1 DEF CacheEntries, None
<1> QED BY <1>2 DEF Expired, is_expired, DeadAt, None

\* The other commands are not counted there.
LEMMA NotCounted ==
    ASSUME out'.op \notin {"get", "purge", "lpop", "rpop"}
    PROVE  ExpirationsExplained
  BY DEF ExpirationsExplained, Pops

\* A step that removes nothing counts nothing.
LEMMA NoneBuried ==
    ASSUME \A k \in Keys : Present(k) => entries'[k].type # "none", out'.metrics.expired = 0
    PROVE  ExpirationsExplained
<1>1. Buried = {}
  BY DEF Buried
<1> QED BY <1>1, FS_EmptySet DEF ExpirationsExplained

\* A step that leaves the map alone.
LEMMA UntouchedUncounted ==
    ASSUME entries' = entries, out'.metrics.expired = 0
    PROVE  ExpirationsExplained
  BY NoneBuried DEF Present

\* A reader that stamps a live entry.
LEMMA TouchUncounted ==
    ASSUME IInv, NEW k \in Keys, Present(k), NEW at, Touch(k, at), out'.metrics.expired = 0
    PROVE  ExpirationsExplained
<1> DEFINE e == [entries[k] EXCEPT !.last_accessed = at]
<1>1. entries[k] \in CacheEntries
  BY PresentSize, SlotCases
<1>2. e.type = entries[k].type
  BY <1>1 DEF CacheEntries
<1>3. entries' = [entries EXCEPT ![k] = e] /\ entries \in [Keys -> FullSlots]
  BY DEF Touch, IInv
<1> HIDE DEF e
<1>4. \A x \in Keys : Present(x) => entries'[x].type # "none"
  BY <1>2, <1>3 DEF Present
<1> QED BY <1>4, NoneBuried

\* The removal of one entry found expired is counted once.
LEMMA RemovalCounted ==
    ASSUME IInv, NEW k \in Keys, NEW now \in Nat, Expired(k, now), NEW delta,
           Store(k, Absent, delta), out'.now = now, out'.metrics.expired = 1
    PROVE  ExpirationsExplained
<1>1. entries' = [entries EXCEPT ![k] = Absent] /\ entries \in [Keys -> FullSlots]
  BY DEF Store, IInv
<1>2. Present(k) /\ DeadAt(entries[k], now)
  BY ExpiredIsDeadAt DEF Expired
<1>3. Absent.type = "none"
  BY DEF Absent
<1>4. Buried = {k}
  <2>1. k \in Buried
    BY <1>1, <1>2, <1>3 DEF Buried
  <2>2. \A x \in Buried : x = k
    BY <1>1 DEF Buried, Present
  <2> QED BY <2>1, <2>2
<1>5. Cardinality({k}) = 1
  BY FS_Singleton
<1> QED BY <1>4, <1>5 DEF ExpirationsExplained

\* The pops count an expired entry they remove, and not a live one whose last element they
\* take.
LEMMA PopCounted ==
    ASSUME IInv, NEW op \in Pops, NEW k \in Keys, NEW now \in Nat, NEW type, NEW data, NEW freed,
           NEW given, NEW reply, Shrink(op, k, now, type, data, freed, given, reply, Hit)
    PROVE  ExpirationsExplained
<1>1. CASE Untouched
  <2>1. CASE ~Present(k)
    <3>1. out'.metrics.expired = 0
      BY <2>1 DEF Shrink, Answer, Expired, Live, Miss, Counted
    <3> QED BY <1>1, <3>1, UntouchedUncounted DEF Untouched
  <2>2. CASE Live(k, now)
    <3>1. out'.metrics.expired = 0
      BY <2>2 DEF Shrink, Answer, WrongType, Expired, Live, Hit, NoMetric, Counted
    <3> QED BY <1>1, <3>1, UntouchedUncounted DEF Untouched
  <2>3. CASE Expired(k, now)
    <3>1. /\ Store(k, Absent, -size_bytes(k, entries[k]))
          /\ out'.now = now /\ out'.metrics.expired = 1
      BY <2>3 DEF Shrink, Answer, Expired, Live, Counted
    <3> QED BY <2>3, <3>1, RemovalCounted
  <2> QED BY <2>1, <2>2, <2>3 DEF Live, Expired
<1>2. CASE /\ Expired(k, now)
           /\ Store(k, Absent, -size_bytes(k, entries[k]))
           /\ Answer(op, k, now, given, NilOrZero(op),
                     IF op \in Pops THEN Counted(0, 1, 1, 0) ELSE NoMetric)
  <2>1. out'.now = now /\ out'.metrics.expired = 1
    BY <1>2 DEF Answer, Counted
  <2> QED BY <1>2, <2>1, RemovalCounted
<1>3. CASE /\ Live(k, now)
           /\ Store(k, Remaining(k, data), -(freed + EmptiedBytes(k, data)))
           /\ Answer(op, k, now, given, reply, Hit)
  <2>1. out'.now = now /\ out'.metrics.expired = 0
    BY <1>3 DEF Answer, Hit, Counted
  <2>2. entries' = [entries EXCEPT ![k] = Remaining(k, data)] /\ entries \in [Keys -> FullSlots]
    BY <1>3 DEF Store, IInv
  <2>3. ~DeadAt(entries[k], now)
    BY <1>3, ExpiredIsDeadAt DEF Live, Expired
  <2>4. Buried = {}
    BY <2>1, <2>2, <2>3 DEF Buried, Present
  <2> QED BY <2>1, <2>4, FS_EmptySet DEF ExpirationsExplained
<1> QED BY <1>1, <1>2, <1>3 DEF Shrink

\* A step of a connection task: get counts the expired entry it removes under its second
\* lock, and only if it is still there.
LEMMA ThreadCounted ==
    ASSUME IInv, NEW t \in Threads, ThreadNext(t)
    PROVE  ExpirationsExplained
<1>0. clock \in Nat /\ ThreadOK(t) /\ threads[t] \in ThreadStates
  BY DEF IInv
<1>1. ASSUME out' = Silent
      PROVE  ExpirationsExplained
  <2>1. out'.op = "none"
    BY <1>1 DEF Silent
  <2> QED BY <2>1, NotCounted
<1>2. ASSUME NEW k, NEW now, Untouched, Answer("get", k, now, <<>>, <<>>, Miss)
      PROVE  ExpirationsExplained
  <2>1. out'.metrics.expired = 0
    BY <1>2 DEF Answer, Miss, Counted
  <2> QED BY <1>2, <2>1, UntouchedUncounted DEF Untouched
<1>3. ASSUME NEW k \in Keys, NEW now, NEW at, Live(k, now), GetLive(k, now, at)
      PROVE  ExpirationsExplained
  <2>1. out'.metrics.expired = 0
    BY <1>3 DEF GetLive, Answer, WrongType, Hit, Counted
  <2> QED BY <1>3, <2>1, TouchUncounted DEF GetLive, Live
<1>4. ASSUME NEW k \in Keys, NEW now, NEW at, GetRead(t, k, now, at)
      PROVE  ExpirationsExplained
  BY <1>1, <1>2, <1>3, <1>4 DEF GetRead
<1>5. CASE GetWrite(t)
  <2> DEFINE k   == threads[t].key
             now == threads[t].now
  <2>1. k \in Keys /\ now \in Nat
    BY <1>0, <1>5 DEF GetWrite, ThreadOK, ThreadStates
  <2>2. \/ Untouched /\ Answer("get", k, now, <<>>, <<>>, Miss)
        \/ Live(k, now) /\ GetLive(k, now, clock)
        \/ /\ Expired(k, now)
           /\ Store(k, Absent, -size_bytes(k, entries[k]))
           /\ Answer("get", k, now, <<>>, <<>>, Counted(0, 1, 1, 0))
    BY <1>5 DEF GetWrite
  <2> HIDE DEF k, now
  <2>3. CASE /\ Expired(k, now)
             /\ Store(k, Absent, -size_bytes(k, entries[k]))
             /\ Answer("get", k, now, <<>>, <<>>, Counted(0, 1, 1, 0))
    <3>1. out'.now = now /\ out'.metrics.expired = 1
      BY <2>3 DEF Answer, Counted
    <3> QED BY <2>1, <2>3, <3>1, RemovalCounted
  <2> QED BY <1>2, <1>3, <2>1, <2>2, <2>3
<1>6. ASSUME NEW k, NEW b, NEW exp, SetCall(t, k, b, exp)
      PROVE  ExpirationsExplained
  BY <1>1, <1>6 DEF SetCall
<1>7. ASSUME NEW s, EnsureCapacity(t) \/ SampleShard(t, s) \/ DelCall(t, s)
      PROVE  ExpirationsExplained
  BY <1>1, <1>7 DEF EnsureCapacity, SampleShard, DelCall
<1>8. CASE Evict(t)
  <2>1. CASE out' = [Silent EXCEPT !.op = "evict", !.keys = {threads[t].oldest_key},
                                   !.now = threads[t].oldest_time,
                                   !.metrics = Counted(0, 0, 0, 1)]
    <3>1. out'.op = "evict"
      BY <2>1 DEF Silent
    <3> QED BY <3>1, NotCounted
  <2> QED BY <1>1, <1>8, <2>1 DEF Evict
<1>9. ASSUME NEW k, SetInsert(t) \/ DelKey(t, k)
      PROVE  ExpirationsExplained
  <2>1. out'.op \in {"set", "del"}
    BY <1>9 DEF SetInsert, DelKey, Answer
  <2> QED BY <2>1, NotCounted
<1> QED BY <1>4, <1>5, <1>6, <1>7, <1>8, <1>9 DEF ThreadNext

\* Every step.
LEMMA NextCounted ==
    ASSUME IInv, Next
    PROVE  ExpirationsExplained
<1>0. clock \in Nat
  BY DEF IInv
<1>1. ASSUME NEW k \in Keys, NEW now \in 0 .. clock, WriteCommand(k, now)
      PROVE  ExpirationsExplained
  <2>1. now \in Nat
    BY <1>0
  <2>2. ASSUME NEW op \in {"lpush", "rpush", "hset", "sadd"}, NEW type, NEW data, NEW added,
               NEW given, NEW count, Grow(op, k, now, type, data, added, given, count)
        PROVE  ExpirationsExplained
    <3>1. out'.op = op
      BY <2>2 DEF Grow, Answer, WrongType
    <3> QED BY <3>1, NotCounted
  <2>3. ASSUME NEW op \in {"hdel", "srem"}, NEW type, NEW data, NEW freed, NEW given, NEW reply,
               NEW metrics, Shrink(op, k, now, type, data, freed, given, reply, metrics)
        PROVE  ExpirationsExplained
    <3>1. out'.op = op
      BY <2>3 DEF Shrink, Answer, WrongType
    <3> QED BY <3>1, NotCounted
  <2>4. ASSUME NEW els, lpush(k, els, now) \/ rpush(k, els, now)
        PROVE  ExpirationsExplained
    BY <2>2, <2>4 DEF lpush, rpush
  <2>5. ASSUME NEW fields, hset(k, fields, now) \/ sadd(k, fields, now)
        PROVE  ExpirationsExplained
    BY <2>2, <2>5 DEF hset, sadd
  <2>6. ASSUME lpop(k, now) \/ rpop(k, now)
        PROVE  ExpirationsExplained
    BY <2>1, <2>6, PopCounted DEF lpop, rpop, Pops
  <2>7. ASSUME NEW fields, hdel(k, fields, now) \/ srem(k, fields, now)
        PROVE  ExpirationsExplained
    BY <2>3, <2>7 DEF hdel, srem
  <2> QED BY <1>1, <2>4, <2>5, <2>6, <2>7 DEF WriteCommand
<1>2. ASSUME NEW k \in Keys, NEW now, NEW at, ReadCommand(k, now, at)
      PROVE  ExpirationsExplained
  <2>1. ASSUME NEW op \in {"lrange", "hget", "hgetall", "smembers", "sismember"}, NEW type,
               NEW given, NEW nil, NEW reply, NEW metrics,
               Read(op, k, now, at, type, given, nil, reply, metrics)
        PROVE  ExpirationsExplained
    <3>1. out'.op = op
      BY <2>1 DEF Read, Answer, WrongType
    <3> QED BY <3>1, NotCounted
  <2>2. ASSUME NEW op \in {"ttl", "pttl"}, NEW unit, ttl(op, unit, k, now)
        PROVE  ExpirationsExplained
    <3>1. out'.op = op
      BY <2>2 DEF ttl, Answer
    <3> QED BY <3>1, NotCounted
  <2>3. ASSUME NEW start, NEW stop, lrange(k, start, stop, now, at)
        PROVE  ExpirationsExplained
    BY <2>1, <2>3 DEF lrange
  <2>4. ASSUME NEW f, hget(k, f, now, at) \/ sismember(k, f, now, at)
        PROVE  ExpirationsExplained
    BY <2>1, <2>4 DEF hget, sismember
  <2>5. ASSUME hgetall(k, now, at) \/ smembers(k, now, at)
        PROVE  ExpirationsExplained
    BY <2>1, <2>5 DEF hgetall, smembers
  <2> QED BY <1>2, <2>2, <2>3, <2>4, <2>5 DEF ReadCommand
<1>3. ASSUME NEW k, NEW duration, expire(k, duration)
      PROVE  ExpirationsExplained
  <2>1. out'.op = "expire"
    BY <1>3 DEF expire, Answer
  <2> QED BY <2>1, NotCounted
<1>4. ASSUME out' = Silent
      PROVE  ExpirationsExplained
  <2>1. out'.op = "none"
    BY <1>4 DEF Silent
  <2> QED BY <2>1, NotCounted
<1>5. CASE PurgeRemove
  <2> DEFINE gone == StillExpired(sweeper.expired_keys, sweeper.now)
  <2>1. entries' = [x \in Keys |-> IF x \in gone THEN Absent ELSE entries[x]]
    BY <1>5 DEF PurgeRemove
  <2>2. out'.now = sweeper.now /\ out'.metrics.expired = Cardinality(gone)
    BY <1>5 DEF PurgeRemove, Silent, Counted
  <2>3. sweeper.now \in Nat /\ gone \in SUBSET Keys
    BY DEF IInv, SweeperStates, StillExpired
  <2>4. \A k \in gone : Present(k) /\ DeadAt(entries[k], sweeper.now)
    BY <2>3, ExpiredIsDeadAt DEF StillExpired, Expired
  <2> HIDE DEF gone
  <2>5. Buried = gone
    <3>1. \A k \in gone : k \in Buried
      BY <2>1, <2>2, <2>3, <2>4 DEF Buried, Absent
    <3>2. \A k \in Buried : k \in gone
      BY <2>1 DEF Buried, Present
    <3> QED BY <3>1, <3>2
  <2> QED BY <2>2, <2>5 DEF ExpirationsExplained
<1>6. CASE SweeperNext
  BY <1>4, <1>5, <1>6 DEF SweeperNext, SweeperTick, PurgeSample
<1>7. CASE Tick
  BY <1>4, <1>7 DEF Tick
<1> QED BY <1>1, <1>2, <1>3, <1>6, <1>7, ThreadCounted DEF Next, Command

\* GET, the pops and the sweeper count exactly the expired entries they remove, each once,
\* although the sweeper draws keys with replacement and any of these entries may be removed
\* or rewritten by another task between the two locks.
THEOREM ExpirationsAreCountedOnce == Spec => ExpirationsCountedOnce
<1>1. IInv /\ [Next]_vars =>
        [out'.op \in {"get", "purge"} \cup Pops =>
           out'.metrics.expired =
             Cardinality({k \in Keys : /\ Present(k) /\ DeadAt(entries[k], out'.now)
                                        /\ entries'[k].type = "none"})]_vars
  BY NextCounted DEF ExpirationsExplained, Buried
<1> QED BY <1>1, Invariance, PTL DEF Spec, ExpirationsCountedOnce

-----------------------------------------------------------------------------
(* An expired entry is an absent one *)

\* The number of items a growing command is given.
GivenItems(op, given) == Cardinality(IF op = "sadd" THEN given ELSE DOMAIN given)

\* What ExpiredIsAbsent asks of a step, for one key it answers for.
DeadAnswered(k) ==
    /\ Present(k) /\ DeadAt(entries[k], out'.now)
    /\ out'.op \notin {"set", "del", "evict", "purge"}
    => /\ out'.reply = ReplyForAbsent(out'.op)
       /\ ~out'.err
       /\ out'.op \in Growers =>
            /\ entries'[k].expires_at = None
            /\ Cardinality(DOMAIN entries'[k].data) = ItemsGiven

\* What ExpiredIsAbsent asks of a step.
DeadIsAbsent == \A k \in out'.keys : DeadAnswered(k)

\* A step inside a method answers nothing.
LEMMA SilentAnswers ==
    ASSUME out' = Silent
    PROVE  DeadIsAbsent
  BY DEF Silent, DeadIsAbsent

\* The commands the property leaves out.
LEMMA NotAsked ==
    ASSUME out'.op \in {"set", "del", "evict", "purge"}
    PROVE  DeadIsAbsent
  BY DEF DeadIsAbsent, DeadAnswered

\* What each command answers for a missing key.
LEMMA AbsentReplies ==
    /\ \A op \in {"ttl", "pttl"} : ReplyForAbsent(op) = <<-2>>
    /\ \A op \in {"hdel", "srem", "sismember", "expire"} : ReplyForAbsent(op) = <<0>>
    /\ \A op \in {"get", "lpop", "rpop", "lrange", "hget", "hgetall", "smembers"} :
          ReplyForAbsent(op) = <<>>
    /\ \A op \in Growers : ReplyForAbsent(op) = <<ItemsGiven>>
  BY DEF ReplyForAbsent, Growers

\* A command that grows nothing and finds the key expired answers for an absent one.
LEMMA NilAnswer ==
    ASSUME IInv, NEW k \in Keys, NEW now \in Nat,
           out'.keys = {k}, out'.now = now, out'.op \notin Growers,
           Expired(k, now) => out'.reply = ReplyForAbsent(out'.op) /\ ~out'.err
    PROVE  DeadIsAbsent
<1>1. Present(k) /\ DeadAt(entries[k], now) => Expired(k, now)
  BY ExpiredIsDeadAt
<1> QED BY <1>1 DEF DeadIsAbsent, DeadAnswered

\* A growing command that finds the key expired starts a new collection without TTL.
LEMMA GrowAnswers ==
    ASSUME IInv, NEW op \in Growers, NEW k \in Keys, NEW now \in Nat,
           NEW type, NEW data, NEW added, NEW given, NEW count,
           Grow(op, k, now, type, data, added, given, count),
           ~Live(k, now) => /\ count = GivenItems(op, given)
                            /\ Cardinality(DOMAIN data) = GivenItems(op, given)
    PROVE  DeadIsAbsent
<1>1. out'.keys = {k} /\ out'.now = now /\ out'.op = op
  BY DEF Grow, Answer, WrongType
<1>2. CASE Expired(k, now)
  <2>1. ~Live(k, now)
    BY <1>2 DEF Expired, Live
  <2> DEFINE base == new(type, <<>>, None, clock)
             e == [base EXCEPT !.data = data, !.last_accessed = clock]
  <2>2. OrInsert(k, now, type) = base
    BY <2>1 DEF OrInsert
  <2>3. /\ base.type = type
        /\ e.expires_at = None
        /\ e.data = data
    BY DEF new
  <2>4. /\ Store(k, e, added - ReclaimedBytes(k, now))
        /\ Answer(op, k, now, given, <<count>>, NoMetric)
    BY <2>2, <2>3 DEF Grow
  <2> HIDE DEF base, e
  <2>5. entries'[k] = e
    BY <2>4 DEF Store, IInv
  <2>6. out'.reply = <<count>> /\ ~out'.err /\ out'.given = given
    BY <2>4 DEF Answer
  <2>7. ItemsGiven = GivenItems(op, given)
    BY <1>1, <2>6 DEF ItemsGiven, GivenItems
  <2>8. out'.reply = ReplyForAbsent(out'.op)
    BY <1>1, <2>1, <2>6, <2>7, AbsentReplies
  <2> QED BY <1>1, <2>1, <2>3, <2>5, <2>6, <2>7, <2>8 DEF DeadIsAbsent, DeadAnswered
<1>3. CASE ~Expired(k, now)
  <2>1. ~(Present(k) /\ DeadAt(entries[k], now))
    BY <1>3, ExpiredIsDeadAt
  <2> QED BY <1>1, <2>1 DEF DeadIsAbsent, DeadAnswered
<1> QED BY <1>2, <1>3

\* What the four growing commands make of a key that is absent or expired.
LEMMA FreshList ==
    ASSUME NEW els \in ElementArgs
    PROVE  /\ Len(els) + Len(<<>>) = Cardinality(DOMAIN els)
           /\ Cardinality(DOMAIN (Reverse(els) \o <<>>)) = Cardinality(DOMAIN els)
           /\ Cardinality(DOMAIN (<<>> \o els)) = Cardinality(DOMAIN els)
<1>1. PICK n \in Nat : els \in [1 .. n -> Bytes]
  BY DEF ElementArgs
<1>2. els \in Seq(Bytes) /\ Len(els) = n /\ DOMAIN els = 1 .. n
  BY <1>1
<1>3. Cardinality(1 .. n) = n
  BY FS_Interval
<1>4. Reverse(els) \in Seq(Bytes) /\ Len(Reverse(els)) = n
  BY <1>2 DEF Reverse
<1>5. DOMAIN (Reverse(els) \o <<>>) = 1 .. n
  BY <1>4
<1>6. DOMAIN (<<>> \o els) = 1 .. n
  BY <1>2
<1>7. Len(els) + Len(<<>>) = n
  BY <1>2
<1> QED BY <1>2, <1>3, <1>5, <1>6, <1>7

\* The commands that take the write lock once.
LEMMA WriteAnswers ==
    ASSUME IInv, NEW k \in Keys, NEW now \in Nat, WriteCommand(k, now)
    PROVE  DeadIsAbsent
<1> DEFINE Base(type) == OrInsert(k, now, type).data
<1>0. ASSUME ~Live(k, now), NEW type
      PROVE  Base(type) = <<>>
  BY <1>0 DEF OrInsert, new
<1> HIDE DEF Base
<1>1. ASSUME NEW els \in ElementArgs, lpush(k, els, now)
      PROVE  DeadIsAbsent
  <2>1. Grow("lpush", k, now, "list", Reverse(els) \o Base("list"), ElementBytes(els),
             els, Len(els) + Len(Base("list")))
    BY <1>1 DEF lpush, Base
  <2>2. GivenItems("lpush", els) = Cardinality(DOMAIN els)
    BY DEF GivenItems
  <2>3. ~Live(k, now) => /\ Len(els) + Len(Base("list")) = GivenItems("lpush", els)
                         /\ Cardinality(DOMAIN (Reverse(els) \o Base("list")))
                              = GivenItems("lpush", els)
    BY <1>0, <2>2, FreshList
  <2>4. "lpush" \in Growers
    BY DEF Growers
  <2> QED BY <2>1, <2>3, <2>4, GrowAnswers
<1>2. ASSUME NEW els \in ElementArgs, rpush(k, els, now)
      PROVE  DeadIsAbsent
  <2>1. Grow("rpush", k, now, "list", Base("list") \o els, ElementBytes(els),
             els, Len(els) + Len(Base("list")))
    BY <1>2 DEF rpush, Base
  <2>2. GivenItems("rpush", els) = Cardinality(DOMAIN els)
    BY DEF GivenItems
  <2>3. ~Live(k, now) => /\ Len(els) + Len(Base("list")) = GivenItems("rpush", els)
                         /\ Cardinality(DOMAIN (Base("list") \o els))
                              = GivenItems("rpush", els)
    BY <1>0, <2>2, FreshList
  <2>4. "rpush" \in Growers
    BY DEF Growers
  <2> QED BY <2>1, <2>3, <2>4, GrowAnswers
<1>3. ASSUME NEW fields \in FieldArgs, hset(k, fields, now)
      PROVE  DeadIsAbsent
  <2> DEFINE fresh == DOMAIN fields \ DOMAIN Base("hash")
  <2>1. PICK added : Grow("hset", k, now, "hash", Inserted(Base("hash"), fields), added,
                          fields, Cardinality(fresh))
    BY <1>3 DEF hset, Base
  <2>2. GivenItems("hset", fields) = Cardinality(DOMAIN fields)
    BY DEF GivenItems
  <2>3. ~Live(k, now) => DOMAIN Base("hash") = {}
    BY <1>0
  <2>4. DOMAIN Inserted(Base("hash"), fields) = DOMAIN Base("hash") \cup DOMAIN fields
    BY DEF Inserted
  <2>5. ~Live(k, now) => fresh = DOMAIN fields /\ DOMAIN Inserted(Base("hash"), fields) = DOMAIN fields
    BY <2>3, <2>4
  <2>6. "hset" \in Growers
    BY DEF Growers
  <2> HIDE DEF fresh
  <2> QED BY <2>1, <2>2, <2>5, <2>6, GrowAnswers
<1>4. ASSUME NEW members \in MemberArgs, sadd(k, members, now)
      PROVE  DeadIsAbsent
  <2> DEFINE fresh == members \ DOMAIN Base("set")
             data  == [m \in DOMAIN Base("set") \cup members |-> m]
  <2>1. PICK added : Grow("sadd", k, now, "set", data, added, members, Cardinality(fresh))
    BY <1>4 DEF sadd, Base
  <2>2. GivenItems("sadd", members) = Cardinality(members)
    BY DEF GivenItems
  <2>3. ~Live(k, now) => DOMAIN Base("set") = {}
    BY <1>0
  <2>4. ~Live(k, now) => fresh = members /\ DOMAIN data = members
    BY <2>3
  <2>5. "sadd" \in Growers
    BY DEF Growers
  <2> HIDE DEF fresh, data
  <2> QED BY <2>1, <2>2, <2>4, <2>5, GrowAnswers
<1>5. ASSUME NEW op \in {"lpop", "rpop", "hdel", "srem"}, NEW type, NEW data, NEW freed,
             NEW given, NEW reply, NEW metrics,
             Shrink(op, k, now, type, data, freed, given, reply, metrics)
      PROVE  DeadIsAbsent
  <2>1. out'.keys = {k} /\ out'.now = now /\ out'.op = op
    BY <1>5 DEF Shrink, Answer, WrongType
  <2>2. Expired(k, now) => out'.reply = NilOrZero(op) /\ ~out'.err
    BY <1>5 DEF Shrink, Answer, Expired, Live
  <2>3. NilOrZero(op) = ReplyForAbsent(op) /\ op \notin Growers
    BY AbsentReplies DEF NilOrZero, Pops, Growers
  <2> QED BY <2>1, <2>2, <2>3, NilAnswer
<1>6. ASSUME lpop(k, now) \/ rpop(k, now)
      PROVE  DeadIsAbsent
  BY <1>5, <1>6 DEF lpop, rpop
<1>7. ASSUME NEW fields, hdel(k, fields, now) \/ srem(k, fields, now)
      PROVE  DeadIsAbsent
  BY <1>5, <1>7 DEF hdel, srem
<1> QED BY <1>1, <1>2, <1>3, <1>4, <1>6, <1>7 DEF WriteCommand

\* The commands that take the read lock once.
LEMMA ReadAnswers ==
    ASSUME IInv, NEW k \in Keys, NEW now \in Nat, NEW at, ReadCommand(k, now, at)
    PROVE  DeadIsAbsent
<1>1. ASSUME NEW op \in {"lrange", "hget", "hgetall", "smembers", "sismember"}, NEW type,
             NEW given, NEW reply, NEW metrics,
             Read(op, k, now, at, type, given, ReplyForAbsent(op), reply, metrics)
      PROVE  DeadIsAbsent
  <2>1. out'.keys = {k} /\ out'.now = now /\ out'.op = op
    BY <1>1 DEF Read, Answer, WrongType
  <2>2. Expired(k, now) => out'.reply = ReplyForAbsent(op) /\ ~out'.err
    BY <1>1 DEF Read, Answer, Expired, Live
  <2>3. op \notin Growers
    BY DEF Growers
  <2> QED BY <2>1, <2>2, <2>3, NilAnswer
<1>2. /\ ReplyForAbsent("lrange") = <<>> /\ ReplyForAbsent("hget") = <<>>
      /\ ReplyForAbsent("hgetall") = <<>> /\ ReplyForAbsent("smembers") = <<>>
      /\ ReplyForAbsent("sismember") = <<0>>
  BY AbsentReplies
<1>3. ASSUME NEW op \in {"ttl", "pttl"}, NEW unit, ttl(op, unit, k, now)
      PROVE  DeadIsAbsent
  <2>1. out'.keys = {k} /\ out'.now = now /\ out'.op = op
    BY <1>3 DEF ttl, Answer
  <2>2. Expired(k, now) => RemainingTtl(k, now, unit) = -2
    BY DEF RemainingTtl, Expired, Live
  <2>3. out'.reply = <<RemainingTtl(k, now, unit)>> /\ ~out'.err
    BY <1>3 DEF ttl, Answer
  <2>4. ReplyForAbsent(op) = <<-2>> /\ op \notin Growers
    BY AbsentReplies DEF Growers
  <2> QED BY <2>1, <2>2, <2>3, <2>4, NilAnswer
<1>4. ASSUME NEW start, NEW stop, lrange(k, start, stop, now, at)
      PROVE  DeadIsAbsent
  BY <1>1, <1>2, <1>4 DEF lrange
<1>5. ASSUME NEW f, hget(k, f, now, at)
      PROVE  DeadIsAbsent
  BY <1>1, <1>2, <1>5 DEF hget
<1>6. ASSUME NEW f, sismember(k, f, now, at)
      PROVE  DeadIsAbsent
  BY <1>1, <1>2, <1>6 DEF sismember
<1>7. ASSUME hgetall(k, now, at) \/ smembers(k, now, at)
      PROVE  DeadIsAbsent
  BY <1>1, <1>2, <1>7 DEF hgetall, smembers
<1> QED BY <1>3, <1>4, <1>5, <1>6, <1>7 DEF ReadCommand

\* A step of a connection task: a GET answers for its key in its first or its second lock,
\* with the instant of the first.
LEMMA ThreadAnswers ==
    ASSUME IInv, NEW t \in Threads, ThreadNext(t)
    PROVE  DeadIsAbsent
<1>0. clock \in Nat /\ ThreadOK(t) /\ threads[t] \in ThreadStates
  BY DEF IInv
<1>1. ASSUME NEW k \in Keys, NEW now \in Nat, NEW metrics,
             Answer("get", k, now, <<>>, <<>>, metrics)
      PROVE  DeadIsAbsent
  <2>1. /\ out'.keys = {k} /\ out'.now = now /\ out'.op = "get"
        /\ out'.reply = <<>> /\ ~out'.err
    BY <1>1 DEF Answer
  <2>2. ReplyForAbsent("get") = <<>> /\ "get" \notin Growers
    BY AbsentReplies DEF Growers
  <2> QED BY <2>1, <2>2, NilAnswer
<1>2. ASSUME NEW k \in Keys, NEW now \in Nat, NEW at, Live(k, now), GetLive(k, now, at)
      PROVE  DeadIsAbsent
  <2>1. out'.keys = {k} /\ out'.now = now /\ out'.op = "get"
    BY <1>2 DEF GetLive, Answer, WrongType
  <2>2. ~Expired(k, now) /\ "get" \notin Growers
    BY <1>2 DEF Live, Expired, Growers
  <2> QED BY <2>1, <2>2, NilAnswer
<1>3. ASSUME NEW k \in Keys, NEW now \in Nat, NEW at, GetRead(t, k, now, at)
      PROVE  DeadIsAbsent
  BY <1>1, <1>2, <1>3, SilentAnswers DEF GetRead
<1>4. CASE GetWrite(t)
  <2> DEFINE k   == threads[t].key
             now == threads[t].now
  <2>1. k \in Keys /\ now \in Nat
    BY <1>0, <1>4 DEF GetWrite, ThreadOK, ThreadStates
  <2>2. \/ Answer("get", k, now, <<>>, <<>>, Miss)
        \/ Live(k, now) /\ GetLive(k, now, clock)
        \/ Answer("get", k, now, <<>>, <<>>, Counted(0, 1, 1, 0))
    BY <1>4 DEF GetWrite
  <2> HIDE DEF k, now
  <2> QED BY <1>1, <1>2, <2>1, <2>2
<1>5. ASSUME NEW k, NEW b, NEW exp, SetCall(t, k, b, exp)
      PROVE  DeadIsAbsent
  BY <1>5, SilentAnswers DEF SetCall
<1>6. ASSUME NEW s, EnsureCapacity(t) \/ SampleShard(t, s) \/ DelCall(t, s)
      PROVE  DeadIsAbsent
  BY <1>6, SilentAnswers DEF EnsureCapacity, SampleShard, DelCall
<1>7. CASE Evict(t)
  <2>1. CASE out' = [Silent EXCEPT !.op = "evict", !.keys = {threads[t].oldest_key},
                                   !.now = threads[t].oldest_time,
                                   !.metrics = Counted(0, 0, 0, 1)]
    <3>1. out'.op = "evict"
      BY <2>1 DEF Silent
    <3> QED BY <3>1, NotAsked
  <2> QED BY <1>7, <2>1, SilentAnswers DEF Evict
<1>8. ASSUME NEW k, SetInsert(t) \/ DelKey(t, k)
      PROVE  DeadIsAbsent
  <2>1. out'.op \in {"set", "del"}
    BY <1>8 DEF SetInsert, DelKey, Answer
  <2> QED BY <2>1, NotAsked
<1>9. ASSUME NEW k \in Keys, NEW now \in 0 .. clock, NEW at, GetRead(t, k, now, at)
      PROVE  DeadIsAbsent
  <2>1. now \in Nat
    BY <1>0
  <2> QED BY <1>3, <1>9, <2>1
<1> QED BY <1>4, <1>5, <1>6, <1>7, <1>8, <1>9 DEF ThreadNext

\* Every step.
LEMMA NextAnswers ==
    ASSUME IInv, Next
    PROVE  DeadIsAbsent
<1>0. clock \in Nat
  BY DEF IInv
<1>1. ASSUME NEW k \in Keys, NEW now \in 0 .. clock, WriteCommand(k, now)
      PROVE  DeadIsAbsent
  <2>1. now \in Nat
    BY <1>0
  <2> QED BY <1>1, <2>1, WriteAnswers
<1>2. ASSUME NEW k \in Keys, NEW now \in 0 .. clock, NEW at, ReadCommand(k, now, at)
      PROVE  DeadIsAbsent
  <2>1. now \in Nat
    BY <1>0
  <2> QED BY <1>2, <2>1, ReadAnswers
<1>3. ASSUME NEW k \in Keys, NEW duration, expire(k, duration)
      PROVE  DeadIsAbsent
  <2>1. out'.keys = {k} /\ out'.now = clock /\ out'.op = "expire"
    BY <1>3 DEF expire, Answer
  <2>2. Expired(k, clock) => out'.reply = <<0>> /\ ~out'.err
    BY <1>3 DEF expire, Answer, Expired, Live
  <2>3. ReplyForAbsent("expire") = <<0>> /\ "expire" \notin Growers
    BY AbsentReplies DEF Growers
  <2> QED BY <1>0, <2>1, <2>2, <2>3, NilAnswer
<1>4. CASE SweeperNext
  <2>1. CASE PurgeRemove
    <3>1. out'.op = "purge"
      BY <2>1 DEF PurgeRemove, Silent
    <3> QED BY <3>1, NotAsked
  <2> QED BY <1>4, <2>1, SilentAnswers DEF SweeperNext, SweeperTick, PurgeSample
<1>5. CASE Tick
  BY <1>5, SilentAnswers DEF Tick
<1> QED BY <1>1, <1>2, <1>3, <1>4, <1>5, ThreadAnswers DEF Next, Command

\* An entry that had expired when the command read the clock is absent to every client, long
\* before anything removes it: reads, pops, EXPIRE and TTL answer what they answer for a
\* missing key, and LPUSH, RPUSH, HSET and SADD start an empty collection without the old TTL.
THEOREM ExpiredEntriesAreAbsent == Spec => ExpiredIsAbsent
<1>1. IInv /\ [Next]_vars =>
        [\A k \in out'.keys :
           /\ Present(k) /\ DeadAt(entries[k], out'.now)
           /\ out'.op \notin {"set", "del", "evict", "purge"}
           => /\ out'.reply = ReplyForAbsent(out'.op)
              /\ ~out'.err
              /\ out'.op \in Growers =>
                   /\ entries'[k].expires_at = None
                   /\ Cardinality(DOMAIN entries'[k].data) = ItemsGiven]_vars
  BY NextAnswers DEF DeadIsAbsent, DeadAnswered
<1> QED BY <1>1, Invariance, PTL DEF Spec, ExpiredIsAbsent
=============================================================================
