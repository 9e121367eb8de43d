-------------------------------- MODULE Scan --------------------------------
(***************************************************************************)
(* KEYS and SCAN (src/src/db.rs, src/src/cmd/keys.rs, src/src/cmd/scan.rs) *)
(* while other clients change the map.  Both take one shard lock at a time *)
(* and read the clock once, before the first.  The cursor of SCAN is a     *)
(* shard and an offset into the order in which that shard's hash map is    *)
(* iterated, so the map is modelled by that order: an insertion may come   *)
(* anywhere in it, a removal closes the gap, and a growth of the table     *)
(* shuffles it.                                                            *)
(***************************************************************************)
EXTENDS Glob

CONSTANTS
    Keys,           \* keys, as sequences of bytes
    NumShards,      \* num_shards, 64 by default
    ShardOf,        \* get_shard_index
    TypeOf,         \* the type of the value under each key
    OFFSET_RANGE,   \* 2^32: cursor = shard * OFFSET_RANGE + offset
    DefaultCount,   \* 10: the entries a call visits when COUNT is 0
    KeysPatterns,   \* patterns of KEYS
    ScanPatterns,   \* patterns of SCAN
    Counts,         \* COUNT of SCAN
    TypeFilters,    \* TYPE of SCAN, AnyType if there is none
    MaxClock,       \* bound: last instant of the clock
    MaxChanges      \* bound: changes of the map by other clients

ASSUME ScanAssumption ==
    /\ IsFiniteSet(Keys) /\ Keys \subseteq Seq(AllBytes)
    /\ KeysPatterns \subseteq Seq(AllBytes) /\ ScanPatterns \subseteq Seq(AllBytes)
    /\ NumShards \in Nat \ {0}
    /\ ShardOf \in [Keys -> 0 .. NumShards - 1]
    /\ OFFSET_RANGE \in Nat
    /\ OFFSET_RANGE > Cardinality(Keys)
    /\ DefaultCount \in Nat \ {0}
    /\ Counts \subseteq Nat
    /\ MaxClock \in Nat
    /\ MaxChanges \in Nat

VARIABLES
    order,          \* order[s]: the keys of shard s as its map is iterated
    expires_at,     \* the expiry instant of each key; Never for none
    clock,
    changes,        \* changes of the map so far
    keys,           \* the KEYS in progress
    scan            \* the iteration with SCAN in progress

vars == <<order, expires_at, clock, changes, keys, scan>>

AnyType == "any"
Never == MaxClock + 1
ShardIndexes == 0 .. NumShards - 1

Holds(k) == k \in Range(order[ShardOf[k]])
is_expired(k, now) == now >= expires_at[k]
Live(k) == Holds(k) /\ ~is_expired(k, clock)

NoKeys == [pc |-> "idle", pattern |-> <<>>, now |-> 0, shard |-> 0, result |-> <<>>, steady |-> {}]

NoScan ==
    [pc       |-> "idle",
     pattern  |-> <<>>, count |-> 0, type |-> AnyType,      \* the arguments of every call
     cursor   |-> 0,                                        \* the cursor last returned
     now      |-> 0, shard_idx |-> 0, offset |-> 0, scanned |-> 0, matched |-> <<>>,
     returned |-> <<>>,     \* the keys returned by the calls so far
     steady   |-> {},       \* keys live since the iteration began
     shaken   |-> {},       \* shards whose visited part was shifted between two calls or locks
     calm     |-> TRUE]     \* the map has not changed since then

\* The elements of s that are in S, in the order of s.  (SelectSeq, for the provers.)
Only(s, S) ==
    LET taken[i \in 0 .. Len(s)] ==
          IF i = 0 THEN <<>>
          ELSE IF s[i] \in S THEN Append(taken[i - 1], s[i]) ELSE taken[i - 1]
    IN  taken[Len(s)]

Orders(S) == {o \in [1 .. Cardinality(S) -> S] : Range(o) = S}

Init ==
    /\ order \in {o \in [ShardIndexes -> UNION {Orders(S) : S \in SUBSET Keys}] :
                   \A s \in ShardIndexes : Range(o[s]) = {k \in Keys : ShardOf[k] = s}}
    /\ expires_at \in [Keys -> {1, Never}]
    /\ clock = 0
    /\ changes = 0
    /\ keys = NoKeys
    /\ scan = NoScan

-----------------------------------------------------------------------------
(* Other clients, the sweeper and eviction *)

\* The iteration is inside shard s, with i or more of its entries behind it.
Passed(s, i) == scan.pc # "idle" /\ scan.shard_idx = s /\ scan.offset >= i

Change(s, o, gone, shakes) ==
    /\ changes < MaxChanges
    /\ changes' = changes + 1
    /\ order' = [order EXCEPT ![s] = o]
    /\ keys' = [keys EXCEPT !.steady = @ \ gone]
    /\ scan' = [scan EXCEPT !.steady = @ \ gone, !.calm = FALSE,
                            !.shaken = IF shakes THEN @ \cup {s} ELSE @]
    /\ UNCHANGED clock

InsertKey(k) ==
    LET s == ShardOf[k]
    IN  /\ ~Holds(k)
        /\ \E i \in 1 .. Len(order[s]) + 1 :
             Change(s, InsertAt(order[s], i, k), {}, FALSE)
        /\ expires_at' \in {[expires_at EXCEPT ![k] = e] : e \in {1, Never}}

RemoveKey(k) ==
    LET s == ShardOf[k]
    IN  /\ \E i \in DOMAIN order[s] :
             /\ order[s][i] = k
             /\ Change(s, RemoveAt(order[s], i), {k}, Passed(s, i))
        /\ UNCHANGED expires_at

\* EXPIRE of a stored key, or SET over it: the entry keeps its place in the map and gets a new
\* deadline, which may have passed; SET also gives new life to an expired one.
NewDeadline(k) ==
    /\ Holds(k)
    /\ \E e \in clock .. Never :
         /\ Change(ShardOf[k], order[ShardOf[k]], IF e <= clock THEN {k} ELSE {}, FALSE)
         /\ expires_at' = [expires_at EXCEPT ![k] = e]

\* The table of a shard grows: its entries are hashed again.
Rehash(s) ==
    /\ \E o \in Orders(Range(order[s])) : Change(s, o, {}, Passed(s, 1))
    /\ UNCHANGED expires_at

Tick ==
    /\ clock < MaxClock
    /\ clock' = clock + 1
    /\ keys' = [keys EXCEPT !.steady = {k \in @ : ~is_expired(k, clock + 1)}]
    /\ scan' = [scan EXCEPT !.steady = {k \in @ : ~is_expired(k, clock + 1)}]
    /\ UNCHANGED <<order, expires_at, changes>>

-----------------------------------------------------------------------------
(* KEYS *)

\* "*" is not looked at byte by byte.
Fits(pattern, k) == pattern = <<ANY>> \/ glob_match(pattern, k)

\* KEYS and SCAN only read, so one of them at a time is enough.
KeysCall(pattern) ==
    /\ keys.pc = "idle"
    /\ scan.pc = "idle"
    /\ keys' = [NoKeys EXCEPT !.pc = "shard", !.pattern = pattern, !.now = clock,
                              !.steady = {k \in Keys : Live(k)}]
    /\ UNCHANGED <<order, expires_at, clock, changes, scan>>

\* One shard, under its read lock.
KeysShard ==
    LET wanted == {k \in Range(order[keys.shard]) :
                     ~is_expired(k, keys.now) /\ Fits(keys.pattern, k)}
    IN  /\ keys.pc = "shard"
        /\ keys' = [keys EXCEPT !.result = @ \o Only(order[keys.shard], wanted),
                                !.shard = @ + 1,
                                !.pc = IF keys.shard + 1 = NumShards THEN "done" ELSE "shard"]
        /\ UNCHANGED <<order, expires_at, clock, changes, scan>>

-----------------------------------------------------------------------------
(* SCAN: a client calls it with the cursor it was given, until that is 0 *)

Cursor(shard_idx, offset) ==
    IF shard_idx >= NumShards THEN 0 ELSE shard_idx * OFFSET_RANGE + offset

\* Mutant of TargetScan: COUNT 0 taken as it is.
TargetScanZero(count) == count

TargetScan(count) == IF count = 0 THEN DefaultCount ELSE count

\* The condition of the loop over the shards: it goes on, or the call answers.
Continue(state) ==
    IF state.shard_idx < NumShards /\ state.scanned < TargetScan(state.count) THEN state
    ELSE [state EXCEPT !.pc = "answered", !.cursor = Cursor(state.shard_idx, state.offset),
                       !.returned = @ \o state.matched, !.matched = <<>>]

\* One call: it splits the cursor and reads the clock.
Call(state) ==
    Continue([state EXCEPT !.pc = "shard", !.now = clock, !.scanned = 0, !.matched = <<>>,
                           !.shard_idx = state.cursor \div OFFSET_RANGE,
                           !.offset = state.cursor % OFFSET_RANGE])

ScanBegin(pattern, count, type) ==
    /\ keys.pc = "idle"
    /\ scan.pc = "idle"
    /\ scan' = Call([NoScan EXCEPT !.pattern = pattern, !.count = count, !.type = type,
                                   !.steady = {k \in Keys : Live(k)}])
    /\ UNCHANGED <<order, expires_at, clock, changes, keys>>

ScanAgain ==
    /\ scan.pc = "answered"
    /\ scan.cursor # 0
    /\ scan' = Call(scan)
    /\ UNCHANGED <<order, expires_at, clock, changes, keys>>

\* An entry that has expired, or is of another type, or does not match, is only counted.
Wanted(k) ==
    /\ ~is_expired(k, scan.now)
    /\ scan.type \in {AnyType, TypeOf[k]}
    /\ Fits(scan.pattern, k)

\* Mutant of VisitShard: a shard is left when it is empty, not when it has shrunk to the offset.
VisitShardNotShrunk ==
    LET entries == order[scan.shard_idx]
        visited == Min({TargetScan(scan.count) - scan.scanned, Len(entries) - scan.offset})
        end     == scan.offset + visited
        part    == SubSeq(entries, scan.offset + 1, end)
    IN  IF entries = <<>> THEN [scan EXCEPT !.shard_idx = @ + 1, !.offset = 0]
        ELSE IF scan.offset >= Len(entries) THEN scan
        ELSE [scan EXCEPT
                !.shard_idx = IF end >= Len(entries) THEN @ + 1 ELSE @,
                !.offset    = IF end >= Len(entries) THEN 0 ELSE end,
                !.scanned   = @ + visited,
                !.matched   = @ \o Only(part, {k \in Range(part) : Wanted(k)})]

\* Under the read lock of one shard: entries are visited from the offset on, until the
\* shard or the count is used up.
VisitShard ==
    LET entries == order[scan.shard_idx]
        visited == Min({TargetScan(scan.count) - scan.scanned, Len(entries) - scan.offset})
        end     == scan.offset + visited
        part    == SubSeq(entries, scan.offset + 1, end)
    IN  IF scan.offset >= Len(entries) THEN [scan EXCEPT !.shard_idx = @ + 1, !.offset = 0]
        ELSE [scan EXCEPT
                !.shard_idx = IF end >= Len(entries) THEN @ + 1 ELSE @,
                !.offset    = IF end >= Len(entries) THEN 0 ELSE end,
                !.scanned   = @ + visited,
                !.matched   = @ \o Only(part, {k \in Range(part) : Wanted(k)})]

ScanShard ==
    /\ scan.pc = "shard"
    /\ scan' = Continue(VisitShard)
    /\ UNCHANGED <<order, expires_at, clock, changes, keys>>

-----------------------------------------------------------------------------
ChangeNext ==
    \/ \E k \in Keys : InsertKey(k)
    \/ \E k \in Keys : RemoveKey(k)
    \/ \E k \in Keys : NewDeadline(k)
    \/ \E s \in ShardIndexes : Rehash(s)

ReaderNext ==
    \/ KeysShard
    \/ ScanShard
    \/ ScanAgain

Next ==
    \/ ChangeNext
    \/ Tick
    \/ \E pattern \in KeysPatterns : KeysCall(pattern)
    \/ \E pattern \in ScanPatterns, count \in Counts, type \in TypeFilters :
         ScanBegin(pattern, count, type)
    \/ ReaderNext

Spec == Init /\ [][Next]_vars

\* A call under way goes on, and a client that iterates calls again.
FairSpec == Spec /\ WF_vars(ReaderNext)

-----------------------------------------------------------------------------
(* Properties *)

\* KEYS answers with keys that match the pattern and with every such key that was live
\* all the time, although it goes from lock to lock while keys come, go and expire; and
\* glob_match, with its one point of return, means by a pattern what Matches says.
KeysExact ==
    keys.pc = "done" =>
      /\ \A i \in DOMAIN keys.result : Matches(keys.pattern, keys.result[i])
      /\ \A k \in keys.steady : Matches(keys.pattern, k) => k \in Range(keys.result)

ScanDone == scan.pc = "answered" /\ scan.cursor = 0

ScanMatches(k) == Matches(scan.pattern, k) /\ scan.type \in {AnyType, TypeOf[k]}

\* An iteration from cursor 0 back to cursor 0 returns every key that was live all the time
\* and matches, wherever the counts cut the shards and wherever keys were inserted, unless
\* in the key's own shard an entry already passed was removed, or the table grew, while the
\* iteration stood inside that shard.  In a map that did not change it returns each key
\* once.  It never returns a key that does not match.
ScanComplete ==
    ScanDone =>
      /\ \A k \in scan.steady :
           ScanMatches(k) /\ ShardOf[k] \notin scan.shaken => k \in Range(scan.returned)
      /\ scan.calm => IsInjective(scan.returned)
      /\ \A i \in DOMAIN scan.returned : ScanMatches(scan.returned[i])

\* An iteration ends: the cursor comes back to 0.
ScanEnds == scan.pc # "idle" ~> ScanDone
=============================================================================
