------------------------------ MODULE Keyspace ------------------------------
(***************************************************************************)
(* What the key space promises its clients, with no shards, locks, memory  *)
(* counter, access times or tasks: every command takes effect in one step, *)
(* on the keys visible at an instant no later than that step.  A list,     *)
(* hash or set that holds nothing is the same as no key at all, and an     *)
(* entry whose deadline has passed may be forgotten at any time without    *)
(* anyone noticing.                                                        *)
(***************************************************************************)
EXTENDS Integers, SequencesExt

CONSTANTS
    Keys,
    Bytes,          \* values, elements, members and fields
    Batches,        \* the sequences of elements a push may carry, a subset of Seq(Bytes)
    Durations,      \* the times to live clients ask for
    Indexes,        \* the bounds LRANGE is asked for
    NoDeadline,     \* not a natural: the entry lives until it is removed
    Evicts          \* TRUE if live keys may be evicted (maxmemory is set)

VARIABLES
    store,      \* store[k]: what is kept under k
    clock,
    answer      \* the last answer given

vars == <<store, clock, answer>>

Nothing == [type |-> "none", contents |-> {}, deadline |-> NoDeadline]
NoAnswer == [op |-> "none", key |-> {}, given |-> <<>>, err |-> FALSE, reply |-> <<>>]

\* Nobody needs the entry: its deadline has passed.
Dead(e, now) == e.deadline # NoDeadline /\ e.deadline <= now
Visible(k, now) == IF Dead(store[k], now) THEN Nothing ELSE store[k]
Missing(k, now) == Visible(k, now).type = "none"

\* An absent list, hash or set is an empty one.
Blank(type) == IF type = "set" THEN {} ELSE <<>>
Held(k, now, type) ==
    IF Missing(k, now) THEN Blank(type) ELSE Visible(k, now).contents

\* The operation is compared first: answers to different operations have arguments and
\* replies of different kinds, which TLC cannot compare.
Replies(op, k, given, reply) ==
    /\ answer'.op = op
    /\ ~answer'.err
    /\ answer' = [op |-> op, key |-> {k}, given |-> given, err |-> FALSE, reply |-> reply]

Refuses(op, k) ==
    /\ answer'.op = op
    /\ answer'.err
    /\ answer' = [op |-> op, key |-> {k}, given |-> <<>>, err |-> TRUE, reply |-> <<>>]

\* Only what is dead now may be forgotten.
MayForget(ks) ==
    \E gone \in SUBSET {k \in ks : Dead(store[k], clock)} :
       store' = [k \in Keys |-> IF k \in gone THEN Nothing ELSE store[k]]

\* The contents of k become those given, under the deadline k had.
Rewrite(k, now, type, contents) ==
    store' = [store EXCEPT ![k] =
                IF contents = Blank(type) THEN Nothing
                ELSE [type |-> type, contents |-> contents,
                      deadline |-> Visible(k, now).deadline]]

Allows(k, now, type) == Visible(k, now).type \in {"none", type}

\* A command on a value of another type is refused and changes nothing.
WrongType(op, k, now, type) ==
    /\ Refuses(op, k)
    /\ ~Allows(k, now, type)
    /\ UNCHANGED store

Update(op, k, now, type, given, contents, reply) ==
    \/ /\ answer'.op = op
       /\ Allows(k, now, type)
       /\ Replies(op, k, given, reply)
       /\ Rewrite(k, now, type, contents)
    \/ WrongType(op, k, now, type)

Query(op, k, now, type, given, reply) ==
    \/ /\ answer'.op = op
       /\ Allows(k, now, type)
       /\ Replies(op, k, given, reply)
       /\ MayForget({k})
    \/ WrongType(op, k, now, type)

-----------------------------------------------------------------------------
Lists(k, now) ==
    LET list == Held(k, now, "list")
        len  == Len(list)
        Position(i) == IF i < 0 THEN len + i + 1 ELSE i + 1
    IN  \/ \E els \in Batches :
             Update("lpush", k, now, "list", els, Reverse(els) \o list, <<Len(els) + len>>)
        \/ \E els \in Batches :
             Update("rpush", k, now, "list", els, list \o els, <<len + Len(els)>>)
        \/ Update("lpop", k, now, "list", <<>>, SubSeq(list, 2, len),
                  IF list = <<>> THEN <<>> ELSE <<Head(list)>>)
        \/ Update("rpop", k, now, "list", <<>>, SubSeq(list, 1, len - 1),
                  IF list = <<>> THEN <<>> ELSE <<Last(list)>>)
        \/ \E start, stop \in Indexes :
             LET asked == {i \in 1 .. len : Position(start) <= i /\ i <= Position(stop)}
             IN  Query("lrange", k, now, "list", <<start, stop>>,
                       [i \in 1 .. Cardinality(asked) |-> list[Min(asked) + i - 1]])

Hashes(k, now) ==
    LET map == Held(k, now, "hash")
    IN  \/ \E F \in (SUBSET Bytes) \ {{}} : \E fields \in [F -> Bytes] :
             Update("hset", k, now, "hash", fields,
                    [f \in F \cup DOMAIN map |-> IF f \in F THEN fields[f] ELSE map[f]],
                    <<Cardinality(F \ DOMAIN map)>>)
        \/ \E F \in SUBSET Bytes :
             Update("hdel", k, now, "hash", F, [f \in DOMAIN map \ F |-> map[f]],
                    <<Cardinality(F \cap DOMAIN map)>>)
        \/ \E f \in Bytes :
             Query("hget", k, now, "hash", <<f>>, IF f \in DOMAIN map THEN <<map[f]>> ELSE <<>>)
        \/ Query("hgetall", k, now, "hash", <<>>, map)

Sets(k, now) ==
    LET set == Held(k, now, "set")
    IN  \/ \E members \in (SUBSET Bytes) \ {{}} :
             Update("sadd", k, now, "set", members, set \cup members, <<Cardinality(members \ set)>>)
        \/ \E members \in SUBSET Bytes :
             Update("srem", k, now, "set", members, set \ members, <<Cardinality(set \cap members)>>)
        \/ \E m \in Bytes :
             Query("sismember", k, now, "set", <<m>>, IF m \in set THEN <<1>> ELSE <<0>>)
        \/ Query("smembers", k, now, "set", <<>>, set)

Strings(k, now) ==
    \/ Query("get", k, now, "string", <<>>,
             IF Missing(k, now) THEN <<>> ELSE <<Visible(k, now).contents>>)
    \/ \E b \in Bytes, d \in {NoDeadline} \cup {now + d : d \in Durations} :
         /\ Replies("set", k, <<>>, <<>>)
         /\ store' = [store EXCEPT ![k] = [type |-> "string", contents |-> b, deadline |-> d]]

\* TTL counts in seconds, PTTL in milliseconds; the clock is in milliseconds.
Lifetimes(k, now) ==
    \E op \in {"ttl", "pttl"} :
       /\ Replies(op, k, <<>>,
            <<IF Missing(k, now) THEN -2
              ELSE IF Visible(k, now).deadline = NoDeadline THEN -1
              ELSE (Visible(k, now).deadline - now) \div (IF op = "ttl" THEN 1000 ELSE 1)>>)
       /\ UNCHANGED store

Expire(k) ==
    \/ /\ Missing(k, clock)
       /\ Replies("expire", k, <<>>, <<0>>)
       /\ MayForget({k})
    \/ /\ ~Missing(k, clock)
       /\ Replies("expire", k, <<>>, <<1>>)
       /\ \E d \in Durations : store' = [store EXCEPT ![k].deadline = clock + d]

\* DEL of several keys is one of these for each: other commands may come between.
Delete(k) ==
    /\ Replies("del", k, <<>>, <<>>)
    /\ store' = [store EXCEPT ![k] = Nothing]

\* What a command answers names its key.
Command ==
    /\ \E k \in {key \in Keys : answer'.key = {key}} :
         \/ \E now \in 0 .. clock :
              \/ Lists(k, now)
              \/ Hashes(k, now)
              \/ Sets(k, now)
              \/ Strings(k, now)
              \/ Lifetimes(k, now)
         \/ Expire(k)
         \/ Delete(k)
    /\ UNCHANGED clock

\* Nobody is answered: dead entries may go, and a live one if there is a memory limit.
Housekeeping ==
    /\ answer'.op = "none"
    /\ answer' = NoAnswer
    /\ \/ MayForget(Keys)
       \/ Evicts /\ \E k \in Keys : store' = [store EXCEPT ![k] = Nothing]
    /\ UNCHANGED clock

Tick ==
    /\ answer'.op = "none"
    /\ answer' = NoAnswer
    /\ clock' = clock + 1
    /\ UNCHANGED store

Init ==
    /\ store = [k \in Keys |-> Nothing]
    /\ clock = 0
    /\ answer = NoAnswer

Next == Housekeeping \/ Tick \/ Command

Spec == Init /\ [][Next]_vars
=============================================================================
