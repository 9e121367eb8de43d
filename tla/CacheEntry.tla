----------------------------- MODULE CacheEntry -----------------------------
(***************************************************************************)
(* The item the cache stores under a key (src/src/db.rs, DataType and      *)
(* CacheEntry): its type, its data, its expiry instant and the time of its *)
(* last access; when it counts as expired; how many bytes it is charged.   *)
(*                                                                         *)
(* Payloads are members of the set Bytes.  The data of every type is kept  *)
(* as a function, so that one definition of "the items of an entry" serves *)
(* all four: a string is <<b>>, a list its sequence of elements, a hash    *)
(* the function from field to value, a set the identity on its members.    *)
(***************************************************************************)
EXTENDS Integers, Sequences, FiniteSets

CONSTANTS
    Keys,                       \* the keys clients use
    Bytes,                      \* values, list elements, set members, hash fields
    KeyLen,                     \* KeyLen[k]: key.len()
    ByteLen,                    \* ByteLen[b]: b.len()
    ESTIMATED_ENTRY_OVERHEAD,   \* 64 in the source
    ITEM_OVERHEAD,              \* the 16 charged per list element and set member
    PAIR_OVERHEAD               \* the 32 charged per hash field

ASSUME LenAssumption ==
    /\ IsFiniteSet(Keys)
    /\ IsFiniteSet(Bytes)
    /\ KeyLen \in [Keys -> Nat]
    /\ ByteLen \in [Bytes -> Nat]

ASSUME OverheadAssumption ==
    /\ ESTIMATED_ENTRY_OVERHEAD \in Nat
    /\ ITEM_OVERHEAD \in Nat
    /\ PAIR_OVERHEAD \in Nat

CollectionTypes == {"list", "set", "hash"}
DataTypes == {"string"} \cup CollectionTypes

Maps == UNION {[S -> Bytes] : S \in SUBSET Bytes}
Data == Maps \cup Seq(Bytes)

\* What each variant of DataType holds.
DataOf(type) ==
    CASE type = "string" -> {d \in Seq(Bytes) : Len(d) = 1}
      [] type = "list"   -> Seq(Bytes)
      [] type = "hash"   -> Maps
      [] type = "set"    -> {d \in Maps : \A m \in DOMAIN d : d[m] = m}

\* expires_at: None
None == -1

CacheEntries ==
    {e \in [type          : DataTypes,
            data          : Data,
            expires_at    : Nat \cup {None},
            last_accessed : Nat] : e.data \in DataOf(e.type)}

\* A key the map does not hold.
Absent == [type |-> "none", data |-> <<>>, expires_at |-> None, last_accessed |-> 0]

Slots == CacheEntries \cup {Absent}

new(type, data, expires_at, now) ==
    [type |-> type, data |-> data, expires_at |-> expires_at, last_accessed |-> now]

is_expired(e, now) == e.expires_at # None /\ now >= e.expires_at

(***************************************************************************)
(* SumOver(f) is the sum of the naturals f[x], counted as the pairs <<x,i>> *)
(* with 1 <= i <= f[x]: no recursion, so the provers can reason about it.  *)
(***************************************************************************)
SumOver(f) == Cardinality(UNION {{x} \X (1 .. f[x]) : x \in DOMAIN f})

ItemBytes(e, x) ==
    CASE e.type = "string"          -> ByteLen[e.data[x]]
      [] e.type \in {"list", "set"} -> ByteLen[e.data[x]] + ITEM_OVERHEAD
      [] e.type = "hash"            -> ByteLen[x] + ByteLen[e.data[x]] + PAIR_OVERHEAD

data_size(e) == SumOver([x \in DOMAIN e.data |-> ItemBytes(e, x)])

HeaderBytes(k) == KeyLen[k] + ESTIMATED_ENTRY_OVERHEAD

size_bytes(k, e) == HeaderBytes(k) + data_size(e)
=============================================================================
