---------------------------- MODULE DbRefinement ----------------------------
(***************************************************************************)
(* Db implements Keyspace: the shards, the locks taken twice, the eviction *)
(* loop and the sweeper are invisible to clients.                          *)
(***************************************************************************)
EXTENDS Db

\* Strings and sets are kept as functions in Db.
Contents(e) ==
    CASE e.type = "string" -> e.data[1]
      [] e.type = "set"    -> DOMAIN e.data
      [] OTHER             -> e.data

\* The entry without the time of its last access.
Kept(e) ==
    IF e.type = "none" THEN [type |-> "none", contents |-> {}, deadline |-> None]
    ELSE [type |-> e.type, contents |-> Contents(e), deadline |-> e.expires_at]

\* The count of DEL is built up over several locks and is not part of the promise.
Said ==
    CASE out.op = "del"                  -> <<>>
      [] out.op = "smembers" /\ ~out.err -> DOMAIN out.reply
      [] OTHER                           -> out.reply

Answered ==
    IF out.op \in {"none", "evict", "purge"}
    THEN [op |-> "none", key |-> {}, given |-> <<>>, err |-> FALSE, reply |-> <<>>]
    ELSE [op |-> out.op, key |-> out.keys, given |-> out.given, err |-> out.err,
          reply |-> Said]

\* What the maps hold, seen from outside.
Stored == [k \in Keys |-> Kept(entries[k])]

Abstract == INSTANCE Keyspace WITH
    Batches    <- ElementArgs,
    NoDeadline <- None,
    Evicts     <- MaxMemory > 0,
    store      <- Stored,
    answer     <- Answered

\* Every step of the implementation (one lock of one method, of the sweeper or of an
\* eviction) is a command of the abstract key space, or nobody is answered: commands are
\* atomic although several of them take a lock twice, an expired entry is never seen whether
\* or not it has been removed, and nothing but eviction takes a live key away.  The second
\* conjunct keeps an answer that repeats the one before it from passing as a stuttering step.
ImplementsKeyspace ==
    /\ Abstract!Spec
    /\ [][Abstract!Next]_vars
=============================================================================
