------------------------- MODULE DbRefinementProofs -------------------------
(***************************************************************************)
(* Db implements Keyspace, for every value of the constants: each step of  *)
(* a client, of the sweeper or of an eviction is a command of the abstract *)
(* key space, or nobody is answered.                                       *)
(***************************************************************************)
EXTENDS DbLiveProofs, DbRefinement

-----------------------------------------------------------------------------
(* What SET and the eviction carry from one lock to the next *)

\* The deadline that a SET will store was fixed at some instant of the past, and only a
\* server with a memory limit evicts.
CarriesOK(t) ==
    /\ threads[t].pc \in {"check", "sample", "insert"} =>
         threads[t].entry.type = "string" /\ threads[t].entry.expires_at \in ExpiryInstants
    /\ threads[t].pc \in {"check", "sample"} => MaxMemory > 0

\* The invariant the refinement needs besides IInv.
CarryInv == \A t \in Threads : CarriesOK(t)

-----------------------------------------------------------------------------
(* The mapping *)

\* One slot as a client sees it.
LEMMA KeptFacts ==
    /\ Kept(Absent) = Abstract!Nothing
    /\ \A e \in FullEntries :
         /\ Kept(e) = [type |-> e.type, contents |-> Contents(e), deadline |-> e.expires_at]
         /\ Kept(e).type = e.type
         /\ Kept(e).contents = Contents(e)
         /\ Kept(e).deadline = e.expires_at
         /\ e.type \in DataTypes /\ e.type # "none"
    /\ Abstract!Nothing.type = "none"
    /\ Abstract!Nothing.deadline = None
<1>1. Kept(Absent) = Abstract!Nothing
  BY DEF Kept, Absent, Abstract!Nothing
<1>2. ASSUME NEW e \in FullEntries
      PROVE  e.type \in DataTypes /\ e.type # "none"
  BY DEF FullEntries, CacheEntries, DataTypes, CollectionTypes
<1>3. ASSUME NEW e \in FullEntries
      PROVE  Kept(e) = [type |-> e.type, contents |-> Contents(e), deadline |-> e.expires_at]
  BY <1>2 DEF Kept
<1> QED BY <1>1, <1>2, <1>3 DEF Abstract!Nothing

\* What the abstract store holds under a key.
LEMMA StoredSlot ==
    ASSUME NEW k \in Keys
    PROVE  Stored[k] = Kept(entries[k])
  BY DEF Stored

\* The abstract key space finds dead exactly what the code's test finds expired.
LEMMA DeadIsExpired ==
    ASSUME IInv, NEW k \in Keys, NEW now \in Nat
    PROVE  Abstract!Dead(Stored[k], now) <=> Expired(k, now)
<1>1. CASE Present(k)
  <2>1. entries[k] \in FullEntries
    BY <1>1, PresentSize
  <2>2. Stored[k].deadline = entries[k].expires_at
    BY <2>1, StoredSlot, KeptFacts
  <2>3. entries[k].expires_at \in Nat \cup {-1}
    BY <2>1 DEF FullEntries, CacheEntries, None
  <2> QED BY <1>1, <2>2, <2>3 DEF Abstract!Dead, Expired, is_expired, None
<1>2. CASE ~Present(k)
  <2>1. entries[k] = Absent
    BY <1>2, SlotCases DEF IInv, Present, FullSlots
  <2>2. Stored[k].deadline = None
    BY <2>1, StoredSlot, KeptFacts
  <2> QED BY <1>2, <2>2 DEF Abstract!Dead, Expired
<1> QED BY <1>1, <1>2

\* What a command that reads the clock at now sees under k.
LEMMA VisibleFacts ==
    ASSUME IInv, NEW k \in Keys, NEW now \in Nat
    PROVE  /\ Live(k, now) =>
                /\ entries[k] \in FullEntries
                /\ Abstract!Visible(k, now) = Kept(entries[k])
                /\ ~Abstract!Missing(k, now)
           /\ ~Live(k, now) =>
                /\ Abstract!Visible(k, now) = Abstract!Nothing
                /\ Abstract!Missing(k, now)
<1>1. CASE Live(k, now)
  <2>1. entries[k] \in FullEntries
    BY <1>1, PresentSize DEF Live
  <2>2. Abstract!Visible(k, now) = Kept(entries[k])
    BY <1>1, DeadIsExpired, StoredSlot DEF Abstract!Visible, Live, Expired
  <2> QED BY <1>1, <2>1, <2>2, KeptFacts DEF Abstract!Missing
<1>2. CASE ~Live(k, now)
  <2>1. CASE Expired(k, now)
    BY <1>2, <2>1, DeadIsExpired, KeptFacts DEF Abstract!Visible, Abstract!Missing
  <2>2. CASE ~Expired(k, now)
    <3>1. entries[k] = Absent
      BY <1>2, <2>2, SlotCases DEF IInv, Live, Expired, Present, FullSlots
    <3>2. Stored[k] = Abstract!Nothing
      BY <3>1, StoredSlot, KeptFacts
    <3> QED BY <1>2, <3>2, KeptFacts DEF Abstract!Visible, Abstract!Missing
  <2> QED BY <2>1, <2>2
<1> QED BY <1>1, <1>2

\* Which commands are allowed.
LEMMA AllowsFacts ==
    ASSUME IInv, NEW k \in Keys, NEW now \in Nat, NEW type
    PROVE  /\ ~Live(k, now) => Abstract!Allows(k, now, type)
           /\ Live(k, now) => (Abstract!Allows(k, now, type) <=> entries[k].type = type)
<1>1. CASE Live(k, now)
  <2>1. Abstract!Visible(k, now).type = entries[k].type /\ entries[k].type # "none"
    BY <1>1, VisibleFacts, KeptFacts
  <2> QED BY <1>1, <2>1 DEF Abstract!Allows
<1>2. CASE ~Live(k, now)
  BY <1>2, VisibleFacts, KeptFacts DEF Abstract!Allows
<1> QED BY <1>1, <1>2

\* What a collection command finds.
LEMMA HeldFacts ==
    ASSUME IInv, NEW k \in Keys, NEW now \in Nat, NEW type
    PROVE  /\ ~Live(k, now) => Abstract!Held(k, now, type) = Abstract!Blank(type)
           /\ Live(k, now) => Abstract!Held(k, now, type) = Contents(entries[k])
<1>1. CASE Live(k, now)
  BY <1>1, VisibleFacts, KeptFacts DEF Abstract!Held
<1>2. CASE ~Live(k, now)
  BY <1>2, VisibleFacts DEF Abstract!Held
<1> QED BY <1>1, <1>2

-----------------------------------------------------------------------------
(* Steps of the map *)

\* A slot replaced.
LEMMA StoreMaps ==
    ASSUME IInv, NEW k \in Keys, NEW e, NEW delta, Store(k, e, delta)
    PROVE  Stored' = [Stored EXCEPT ![k] = Kept(e)]
<1>1. entries' = [entries EXCEPT ![k] = e] /\ DOMAIN entries = Keys
  BY DEF Store, IInv
<1> QED BY <1>1 DEF Stored

\* A slot emptied.
LEMMA RemovalMaps ==
    ASSUME IInv, NEW k \in Keys, NEW delta, Store(k, Absent, delta)
    PROVE  Stored' = [Stored EXCEPT ![k] = Abstract!Nothing]
  BY StoreMaps, KeptFacts

\* A map left alone.
LEMMA UntouchedMaps ==
    ASSUME entries' = entries
    PROVE  Stored' = Stored
  BY DEF Stored

\* A key that is not there may as well be taken away.
LEMMA AbsentMaps ==
    ASSUME IInv, NEW k \in Keys, ~Present(k)
    PROVE  Stored = [Stored EXCEPT ![k] = Abstract!Nothing]
<1>1. entries[k] = Absent
  BY SlotCases DEF IInv, Present, FullSlots
<1>2. Stored[k] = Abstract!Nothing
  BY <1>1, StoredSlot, KeptFacts
<1> QED BY <1>2 DEF Stored

\* Nobody sees the time of an access.
LEMMA TouchMaps ==
    ASSUME IInv, NEW k \in Keys, Present(k), NEW at, Touch(k, at)
    PROVE  Stored' = Stored
<1> DEFINE e == [entries[k] EXCEPT !.last_accessed = at]
<1>1. entries[k] \in FullEntries
  BY PresentSize
<1>2. entries[k] \in CacheEntries
  BY <1>1, SlotCases
<1>3. /\ e.type = entries[k].type
      /\ e.data = entries[k].data
      /\ e.expires_at = entries[k].expires_at
  BY <1>2 DEF CacheEntries
<1>4. entries' = [entries EXCEPT ![k] = e] /\ DOMAIN entries = Keys
  BY DEF Touch, IInv
<1> HIDE DEF e
<1>5. Contents(e) = Contents(entries[k])
  BY <1>3 DEF Contents
<1>6. Kept(e) = Kept(entries[k])
  BY <1>3, <1>5 DEF Kept
<1> QED BY <1>4, <1>6 DEF Stored

-----------------------------------------------------------------------------
(* Answers *)

\* The steps that answer nobody.
Unanswered == {"none", "evict", "purge"}

\* The answer a client is given is the answer of the abstract key space.
LEMMA AnswerMaps ==
    ASSUME NEW op, op \notin Unanswered, op # "del", op # "smembers", NEW k, NEW now, NEW given,
           NEW reply, NEW metrics, Answer(op, k, now, given, reply, metrics)
    PROVE  /\ Abstract!Replies(op, k, given, reply)
           /\ Answered'.op = op
           /\ Answered'.key = {k}
<1>1. /\ out'.op = op /\ out'.keys = {k} /\ out'.given = given
      /\ out'.err = FALSE /\ out'.reply = reply
  BY DEF Answer
<1>2. Said' = reply
  BY <1>1 DEF Said
<1>3. Answered' = [op |-> op, key |-> {k}, given |-> given, err |-> FALSE, reply |-> reply]
  BY <1>1, <1>2 DEF Answered, Unanswered
<1> QED BY <1>3 DEF Abstract!Replies

\* SMEMBERS answers with the members of the function that stands for the set.
LEMMA MembersMap ==
    ASSUME NEW k, NEW now, NEW given, NEW reply, NEW metrics,
           Answer("smembers", k, now, given, reply, metrics)
    PROVE  /\ Abstract!Replies("smembers", k, given, DOMAIN reply)
           /\ Answered'.op = "smembers"
           /\ Answered'.key = {k}
<1>1. /\ out'.op = "smembers" /\ out'.keys = {k} /\ out'.given = given
      /\ out'.err = FALSE /\ out'.reply = reply
  BY DEF Answer
<1>2. Said' = DOMAIN reply
  BY <1>1 DEF Said
<1>3. Answered' = [op |-> "smembers", key |-> {k}, given |-> given, err |-> FALSE,
                   reply |-> DOMAIN reply]
  BY <1>1, <1>2 DEF Answered
<1> QED BY <1>3 DEF Abstract!Replies

\* The count of DEL is not part of the answer.
LEMMA DelMaps ==
    ASSUME NEW k, NEW now, NEW reply, NEW metrics,
           Answer("del", k, now, <<>>, reply, metrics)
    PROVE  /\ Abstract!Replies("del", k, <<>>, <<>>)
           /\ Answered'.key = {k}
<1>1. /\ out'.op = "del" /\ out'.keys = {k} /\ out'.given = <<>> /\ out'.err = FALSE
  BY DEF Answer
<1>2. Said' = <<>>
  BY <1>1 DEF Said
<1>3. Answered' = [op |-> "del", key |-> {k}, given |-> <<>>, err |-> FALSE, reply |-> <<>>]
  BY <1>1, <1>2 DEF Answered
<1> QED BY <1>3 DEF Abstract!Replies

\* A refusal.
LEMMA RefusalMaps ==
    ASSUME NEW op, op \notin Unanswered, op # "del", NEW k, NEW now, NEW metrics,
           WrongType(op, k, now, metrics)
    PROVE  /\ Abstract!Refuses(op, k)
           /\ Answered'.key = {k}
<1>1. /\ out'.op = op /\ out'.keys = {k} /\ out'.given = <<>>
      /\ out'.err = TRUE /\ out'.reply = <<>>
  BY DEF WrongType
<1>2. Said' = <<>>
  BY <1>1 DEF Said
<1>3. Answered' = [op |-> op, key |-> {k}, given |-> <<>>, err |-> TRUE, reply |-> <<>>]
  BY <1>1, <1>2 DEF Answered, Unanswered
<1> QED BY <1>3 DEF Abstract!Refuses

\* Nobody is answered.
LEMMA SilenceMaps ==
    ASSUME out'.op \in Unanswered
    PROVE  Answered' = Abstract!NoAnswer /\ Answered'.op = "none"
<1>1. Answered' = [op |-> "none", key |-> {}, given |-> <<>>, err |-> FALSE, reply |-> <<>>]
  BY DEF Answered, Unanswered
<1> QED BY <1>1 DEF Abstract!NoAnswer

\* The read of a key leaves the store alone or forgets it.
LEMMA ForgetNothing ==
    ASSUME NEW ks, Stored' = Stored
    PROVE  Abstract!MayForget(ks)
<1>1. Stored = [k \in Keys |-> IF k \in {} THEN Abstract!Nothing ELSE Stored[k]]
  BY DEF Stored
<1>2. {} \in SUBSET {k \in ks : Abstract!Dead(Stored[k], clock)}
  OBVIOUS
<1>3. Stored' = [k \in Keys |-> IF k \in {} THEN Abstract!Nothing ELSE Stored[k]]
  BY <1>1
<1> QED BY <1>2, <1>3, Zenon DEF Abstract!MayForget

-----------------------------------------------------------------------------
(* The shapes of the commands *)

\* The last clause of every command's refinement: it is a command of the abstract key space
\* on the key its answer names.
LEMMA CommandIsNext ==
    ASSUME NEW k \in Keys, Answered'.key = {k}, clock' = clock,
           \/ \E now \in 0 .. clock :
                \/ Abstract!Lists(k, now)
                \/ Abstract!Hashes(k, now)
                \/ Abstract!Sets(k, now)
                \/ Abstract!Strings(k, now)
                \/ Abstract!Lifetimes(k, now)
           \/ Abstract!Expire(k)
           \/ Abstract!Delete(k)
    PROVE  Abstract!Next
<1>1. k \in {key \in Keys : Answered'.key = {key}}
  OBVIOUS
<1>2. Abstract!Command
  BY <1>1 DEF Abstract!Command
<1> QED BY <1>2 DEF Abstract!Next

\* A command that grows a collection is an update; its reply and its contents are those the
\* code computes on the entry it found or made.
LEMMA GrowRefines ==
    ASSUME IInv, NEW op, op \notin Unanswered, op # "del", op # "smembers",
           NEW k \in Keys, NEW now \in 0 .. clock, NEW type \in CollectionTypes,
           NEW data, NEW added, NEW given, NEW count, NEW contents, NEW said,
           OrInsert(k, now, type).type = type =>
             /\ DOMAIN data # {}
             /\ contents = IF type = "set" THEN DOMAIN data ELSE data
             /\ said = <<count>>,
           Grow(op, k, now, type, data, added, given, count)
    PROVE  /\ Answered'.key = {k} /\ clock' = clock
           /\ Abstract!Update(op, k, now, type, given, contents, said)
<1> DEFINE base == OrInsert(k, now, type)
           e    == [base EXCEPT !.data = data, !.last_accessed = clock]
<1>0. now \in Nat /\ clock \in Nat /\ clock' = clock
  BY DEF IInv, Grow, OneLock
<1>1. CASE /\ base.type = type
           /\ Store(k, e, added - ReclaimedBytes(k, now))
           /\ Answer(op, k, now, given, <<count>>, NoMetric)
  <2>1. base \in CacheEntries
    BY OrInsertType
  <2>2. /\ e.type = type /\ e.data = data /\ e.expires_at = base.expires_at
    <3>1. e.type = base.type /\ e.data = data /\ e.expires_at = base.expires_at
      <4> HIDE DEF base
      <4> QED BY <2>1 DEF CacheEntries
    <3> HIDE DEF e, base
    <3> QED BY <1>1, <3>1
  <2>3. Contents(e) = contents /\ contents # Abstract!Blank(type)
    <3> HIDE DEF e, base
    <3>1. type # "string"
      BY DEF CollectionTypes
    <3>2. DOMAIN <<>> = {}
      BY EmptySeq, LenProperties
    <3>3. DOMAIN data # {} /\ contents = IF type = "set" THEN DOMAIN data ELSE data
      BY <1>1 DEF base
    <3>4. Contents(e) = contents
      BY <2>2, <3>1, <3>3 DEF Contents
    <3>5. CASE type = "set"
      BY <3>3, <3>4, <3>5 DEF Abstract!Blank
    <3>6. CASE type # "set"
      BY <3>2, <3>3, <3>4, <3>6 DEF Abstract!Blank
    <3> QED BY <3>4, <3>5, <3>6
  <2>4. Kept(e) = [type |-> type, contents |-> contents, deadline |-> base.expires_at]
    <3> HIDE DEF e, base
    <3> QED BY <2>2, <2>3 DEF Kept, CollectionTypes
  <2>5. base.expires_at = Abstract!Visible(k, now).deadline
    <3>1. CASE Live(k, now)
      BY <1>0, <3>1, VisibleFacts, KeptFacts DEF OrInsert
    <3>2. CASE ~Live(k, now)
      BY <1>0, <3>2, VisibleFacts, KeptFacts DEF OrInsert, new
    <3> QED BY <3>1, <3>2
  <2>6. Abstract!Allows(k, now, type)
    BY <1>0, <1>1, AllowsFacts DEF OrInsert
  <2>7. Stored' = [Stored EXCEPT ![k] = Kept(e)]
    <3> HIDE DEF e, base
    <3> QED BY <1>1, StoreMaps
  <2> HIDE DEF e, base
  <2>8. Abstract!Rewrite(k, now, type, contents)
    BY <2>3, <2>4, <2>5, <2>7 DEF Abstract!Rewrite
  <2>9. /\ Abstract!Replies(op, k, given, said)
        /\ Answered'.op = op /\ Answered'.key = {k}
    BY <1>1, AnswerMaps DEF base
  <2> QED BY <1>0, <2>6, <2>8, <2>9 DEF Abstract!Update
<1>2. CASE base.type # type /\ Untouched /\ WrongType(op, k, now, NoMetric)
  <2>1. Live(k, now) /\ entries[k].type # type
    BY <1>2 DEF OrInsert, new
  <2>2. ~Abstract!Allows(k, now, type)
    BY <1>0, <2>1, AllowsFacts
  <2>3. Stored' = Stored
    BY <1>2, UntouchedMaps DEF Untouched
  <2>4. Abstract!Refuses(op, k) /\ Answered'.key = {k}
    BY <1>2, RefusalMaps
  <2>5. Abstract!WrongType(op, k, now, type)
    BY <2>2, <2>3, <2>4 DEF Abstract!WrongType
  <2> QED BY <1>0, <2>4, <2>5 DEF Abstract!Update
<1> QED BY <1>1, <1>2 DEF Grow

\* Data without items is the empty sequence, whatever its type.
LEMMA NoItems ==
    ASSUME NEW type \in DataTypes, NEW d \in DataOf(type), DOMAIN d = {}
    PROVE  d = <<>>
<1>0. /\ <<>> \in Seq(Bytes)
      /\ DOMAIN <<>> = {}
  BY EmptySeq, LenProperties
<1>1. CASE d \in Seq(Bytes)
  <2>1. Len(d) \in Nat /\ DOMAIN d = 1 .. Len(d)
    BY <1>1, LenProperties
  <2>2. Len(d) = 0
    <3>1. 1 \notin 1 .. Len(d)
      BY <2>1
    <3> QED BY <2>1, <3>1
  <2> QED BY <1>1, <2>2, EmptySeq
<1>2. CASE d \in Maps
  <2>1. PICK S \in SUBSET Bytes : d \in [S -> Bytes]
    BY <1>2 DEF Maps
  <2>2. d \in [{} -> Bytes]
    BY <2>1
  <2>3. <<>> \in [{} -> Bytes]
    <3>1. <<>> \in [1 .. 0 -> Bytes] /\ 1 .. 0 = {}
      BY <1>0, LenProperties, EmptySeq
    <3> QED BY <3>1
  <2> QED BY <2>2, <2>3
<1>3. d \in Seq(Bytes) \/ d \in Maps
  BY DataOfData DEF Data
<1> QED BY <1>1, <1>2, <1>3

\* A command that shrinks a collection is an update too; the entry goes when the abstract
\* contents become empty.
LEMMA ShrinkRefines ==
    ASSUME IInv, NEW op, op \notin Unanswered, op # "del", op # "smembers",
           NEW k \in Keys, NEW now \in 0 .. clock, NEW type \in CollectionTypes,
           NEW data, NEW freed, NEW given, NEW reply, NEW metrics, NEW contents, NEW said,
           ~Live(k, now) => contents = Abstract!Blank(type) /\ said = NilOrZero(op),
           Live(k, now) /\ entries[k].type = type =>
             /\ data \in DataOf(type)
             /\ contents = IF type = "set" THEN DOMAIN data ELSE data
             /\ said = reply,
           Shrink(op, k, now, type, data, freed, given, reply, metrics)
    PROVE  /\ Answered'.key = {k} /\ clock' = clock
           /\ Abstract!Update(op, k, now, type, given, contents, said)
<1>0. now \in Nat /\ clock \in Nat /\ clock' = clock
  BY DEF IInv, Shrink, OneLock
<1>1. CASE /\ ~Live(k, now)
           /\ Stored' = [Stored EXCEPT ![k] = Abstract!Nothing]
           /\ \E m : Answer(op, k, now, given, NilOrZero(op), m)
  <2>1. Abstract!Allows(k, now, type)
    BY <1>0, <1>1, AllowsFacts
  <2>2. Abstract!Rewrite(k, now, type, contents)
    BY <1>1 DEF Abstract!Rewrite
  <2>3. Abstract!Replies(op, k, given, said) /\ Answered'.op = op /\ Answered'.key = {k}
    BY <1>1, AnswerMaps
  <2> QED BY <1>0, <2>1, <2>2, <2>3 DEF Abstract!Update
<1>2. CASE ~Present(k) /\ Untouched /\ \E m : Answer(op, k, now, given, NilOrZero(op), m)
  <2>1. ~Live(k, now) /\ Stored' = [Stored EXCEPT ![k] = Abstract!Nothing]
    BY <1>2, AbsentMaps, UntouchedMaps DEF Live, Untouched
  <2> QED BY <1>1, <1>2, <2>1
<1>3. CASE /\ Expired(k, now)
           /\ Store(k, Absent, -size_bytes(k, entries[k]))
           /\ \E m : Answer(op, k, now, given, NilOrZero(op), m)
  <2>1. ~Live(k, now) /\ Stored' = [Stored EXCEPT ![k] = Abstract!Nothing]
    BY <1>3, RemovalMaps DEF Live, Expired
  <2> QED BY <1>1, <1>3, <2>1
<1>4. CASE /\ Live(k, now)
           /\ entries[k].type = type
           /\ Store(k, Remaining(k, data), -(freed + EmptiedBytes(k, data)))
           /\ Answer(op, k, now, given, reply, metrics)
  <2>1. /\ data \in DataOf(type)
        /\ contents = IF type = "set" THEN DOMAIN data ELSE data
        /\ said = reply
    BY <1>4
  <2>2. /\ entries[k] \in FullEntries /\ entries[k] \in CacheEntries
        /\ Abstract!Visible(k, now).deadline = entries[k].expires_at
    BY <1>0, <1>4, VisibleFacts, KeptFacts, SlotCases
  <2>3. Stored' = [Stored EXCEPT ![k] = Kept(Remaining(k, data))]
    BY <1>4, StoreMaps
  <2>4. Kept(Remaining(k, data)) =
          IF contents = Abstract!Blank(type) THEN Abstract!Nothing
          ELSE [type |-> type, contents |-> contents,
                deadline |-> Abstract!Visible(k, now).deadline]
    <3>0. type \in DataTypes /\ type # "string" /\ DOMAIN <<>> = {}
      BY EmptySeq, LenProperties DEF CollectionTypes, DataTypes
    <3>1. CASE DOMAIN data = {}
      <4>1. data = <<>>
        BY <2>1, <3>0, <3>1, NoItems
      <4>2. contents = Abstract!Blank(type)
        BY <2>1, <3>1, <4>1 DEF Abstract!Blank
      <4> QED BY <3>1, <4>2, KeptFacts DEF Remaining
    <3>2. CASE DOMAIN data # {}
      <4> DEFINE e == [entries[k] EXCEPT !.data = data, !.last_accessed = clock]
      <4>1. contents # Abstract!Blank(type)
        <5>1. CASE type = "set"
          BY <2>1, <3>2, <5>1 DEF Abstract!Blank
        <5>2. CASE type # "set"
          BY <2>1, <3>0, <3>2, <5>2 DEF Abstract!Blank
        <5> QED BY <5>1, <5>2
      <4>2. e.type = type /\ e.data = data /\ e.expires_at = entries[k].expires_at
        BY <1>4, <2>2 DEF CacheEntries
      <4>3. Remaining(k, data) = e
        BY <3>2 DEF Remaining
      <4> HIDE DEF e
      <4>4. Contents(e) = contents
        BY <2>1, <3>0, <4>2 DEF Contents
      <4>5. Kept(e) = [type |-> type, contents |-> contents, deadline |-> entries[k].expires_at]
        BY <4>2, <4>4 DEF Kept, CollectionTypes
      <4> QED BY <2>2, <4>1, <4>3, <4>5
    <3> QED BY <3>1, <3>2
  <2>5. Abstract!Rewrite(k, now, type, contents)
    BY <2>3, <2>4 DEF Abstract!Rewrite
  <2>6. Abstract!Replies(op, k, given, said) /\ Answered'.op = op /\ Answered'.key = {k}
    BY <1>4, <2>1, AnswerMaps
  <2>7. Abstract!Allows(k, now, type)
    BY <1>0, <1>4, AllowsFacts
  <2> QED BY <1>0, <2>5, <2>6, <2>7 DEF Abstract!Update
<1>5. CASE /\ Live(k, now)
           /\ entries[k].type # type
           /\ Untouched
           /\ WrongType(op, k, now, NoMetric)
  <2>1. ~Abstract!Allows(k, now, type)
    BY <1>0, <1>5, AllowsFacts
  <2>2. Stored' = Stored
    BY <1>5, UntouchedMaps DEF Untouched
  <2>3. Abstract!Refuses(op, k) /\ Answered'.key = {k}
    BY <1>5, RefusalMaps
  <2>4. Abstract!WrongType(op, k, now, type)
    BY <2>1, <2>2, <2>3 DEF Abstract!WrongType
  <2> QED BY <1>0, <2>3, <2>4 DEF Abstract!Update
<1> QED BY <1>2, <1>3, <1>4, <1>5 DEF Shrink

\* A command that reads under a shared lock is a query.
LEMMA ReadRefines ==
    ASSUME IInv, NEW op, op \notin Unanswered, op # "del",
           NEW k \in Keys, NEW now \in 0 .. clock, NEW at, NEW type \in CollectionTypes,
           NEW given, NEW nil, NEW reply, NEW metrics, NEW said,
           ~Live(k, now) => said = IF op = "smembers" THEN DOMAIN nil ELSE nil,
           Live(k, now) /\ entries[k].type = type
             => said = IF op = "smembers" THEN DOMAIN reply ELSE reply,
           Read(op, k, now, at, type, given, nil, reply, metrics)
    PROVE  /\ Answered'.key = {k} /\ clock' = clock
           /\ Abstract!Query(op, k, now, type, given, said)
<1>0. now \in Nat /\ clock \in Nat /\ clock' = clock
  BY DEF IInv, Read, OneLock
<1>1. ASSUME NEW r, NEW m, Answer(op, k, now, given, r, m),
             said = IF op = "smembers" THEN DOMAIN r ELSE r,
             Stored' = Stored,
             Abstract!Allows(k, now, type)
      PROVE  /\ Answered'.key = {k}
             /\ Abstract!Query(op, k, now, type, given, said)
  <2>1. Abstract!Replies(op, k, given, said) /\ Answered'.op = op /\ Answered'.key = {k}
    <3>1. CASE op = "smembers"
      BY <1>1, <3>1, MembersMap
    <3>2. CASE op # "smembers"
      BY <1>1, <3>2, AnswerMaps
    <3> QED BY <3>1, <3>2
  <2>2. Abstract!MayForget({k})
    BY <1>1, ForgetNothing
  <2> QED BY <1>1, <2>1, <2>2 DEF Abstract!Query
<1>2. CASE ~Live(k, now) /\ Untouched /\ Answer(op, k, now, given, nil, Miss)
  <2>1. Stored' = Stored
    BY <1>2, UntouchedMaps DEF Untouched
  <2>2. Abstract!Allows(k, now, type)
    BY <1>0, <1>2, AllowsFacts
  <2> QED BY <1>0, <1>1, <1>2, <2>1, <2>2
<1>3. CASE /\ Live(k, now)
           /\ entries[k].type = type
           /\ Touch(k, at)
           /\ Answer(op, k, now, given, reply, metrics)
  <2>1. Stored' = Stored
    BY <1>3, TouchMaps DEF Live
  <2>2. Abstract!Allows(k, now, type)
    BY <1>0, <1>3, AllowsFacts
  <2> QED BY <1>0, <1>1, <1>3, <2>1, <2>2
<1>4. CASE /\ Live(k, now)
           /\ entries[k].type # type
           /\ Untouched
           /\ WrongType(op, k, now, NoMetric)
  <2>1. ~Abstract!Allows(k, now, type)
    BY <1>0, <1>4, AllowsFacts
  <2>2. Stored' = Stored
    BY <1>4, UntouchedMaps DEF Untouched
  <2>3. Abstract!Refuses(op, k) /\ Answered'.key = {k}
    BY <1>4, RefusalMaps
  <2>4. Abstract!WrongType(op, k, now, type)
    BY <2>1, <2>2, <2>3 DEF Abstract!WrongType
  <2> QED BY <1>0, <2>3, <2>4 DEF Abstract!Query
<1> QED BY <1>2, <1>3, <1>4 DEF Read

-----------------------------------------------------------------------------
(* Lists *)

\* What a growing command finds or makes is what the abstract key space holds.
LEMMA OrInsertHeld ==
    ASSUME IInv, NEW k \in Keys, NEW now \in 0 .. clock, NEW type \in CollectionTypes,
           OrInsert(k, now, type).type = type
    PROVE  /\ OrInsert(k, now, type).data \in DataOf(type)
           /\ Abstract!Held(k, now, type) = IF type = "set" THEN DOMAIN OrInsert(k, now, type).data
                                            ELSE OrInsert(k, now, type).data
<1>0. now \in Nat /\ clock \in Nat
  BY DEF IInv
<1>1. OrInsert(k, now, type).data \in DataOf(type)
  BY OrInsertType DEF CacheEntries
<1>2. CASE Live(k, now)
  <2>1. OrInsert(k, now, type) = entries[k] /\ entries[k].type = type
    BY <1>2 DEF OrInsert
  <2>2. Abstract!Held(k, now, type) = Contents(entries[k])
    BY <1>0, <1>2, HeldFacts
  <2>3. type # "string"
    BY DEF CollectionTypes
  <2> QED BY <1>1, <2>1, <2>2, <2>3 DEF Contents
<1>3. CASE ~Live(k, now)
  <2>1. OrInsert(k, now, type).data = <<>>
    BY <1>3 DEF OrInsert, new
  <2>2. Abstract!Held(k, now, type) = Abstract!Blank(type)
    BY <1>0, <1>3, HeldFacts
  <2>3. DOMAIN <<>> = {}
    BY EmptySeq, LenProperties
  <2> QED BY <1>1, <2>1, <2>2, <2>3 DEF Abstract!Blank
<1> QED BY <1>2, <1>3

\* Items pushed to a list leave it with items.
LEMMA PushFull ==
    ASSUME NEW a \in Seq(Bytes), NEW b \in Seq(Bytes), Len(a) # 0 \/ Len(b) # 0
    PROVE  a \o b \in Seq(Bytes) /\ DOMAIN (a \o b) # {}
<1>1. a \o b \in Seq(Bytes) /\ Len(a \o b) = Len(a) + Len(b)
  BY ConcatProperties
<1>2. Len(a) \in Nat /\ Len(b) \in Nat
  BY LenProperties
<1>3. DOMAIN (a \o b) = 1 .. Len(a \o b)
  BY <1>1, LenProperties
<1>4. 1 \in 1 .. Len(a \o b)
  BY <1>1, <1>2
<1> QED BY <1>1, <1>3, <1>4

\* The operators of the library, in the instance.
LEMMA SameReverse ==
    ASSUME NEW s
    PROVE  Abstract!Reverse(s) = Reverse(s)
  BY DEF Abstract!Reverse, Reverse

\* LPUSH.
LEMMA LpushRefines ==
    ASSUME IInv, NEW k \in Keys, NEW now \in 0 .. clock, NEW els \in ElementArgs,
           lpush(k, els, now)
    PROVE  Abstract!Next
<1> DEFINE list     == OrInsert(k, now, "list").data
           held     == Abstract!Held(k, now, "list")
           contents == Abstract!Reverse(els) \o held
           said     == <<Len(els) + Len(held)>>
<1>1. ASSUME OrInsert(k, now, "list").type = "list"
      PROVE  /\ DOMAIN (Reverse(els) \o list) # {}
             /\ contents = Reverse(els) \o list
             /\ said = <<Len(els) + Len(list)>>
  <2>1. list \in Seq(Bytes) /\ held = list
    BY <1>1, OrInsertHeld DEF CollectionTypes, DataOf
  <2>2. Reverse(els) \in Seq(Bytes) /\ Len(Reverse(els)) # 0
    BY ElementArgsType, ReverseType
  <2>3. DOMAIN (Reverse(els) \o list) # {}
    <3> HIDE DEF list
    <3> QED BY <2>1, <2>2, PushFull
  <2> QED BY <2>1, <2>3, SameReverse
<1>2. Grow("lpush", k, now, "list", Reverse(els) \o list, ElementBytes(els),
           els, Len(els) + Len(list))
  BY DEF lpush
<1> HIDE DEF list, contents, said
<1>3. /\ Answered'.key = {k} /\ clock' = clock
      /\ Abstract!Update("lpush", k, now, "list", els, contents, said)
  BY <1>1, <1>2, GrowRefines DEF CollectionTypes, Unanswered
<1>4. Abstract!Lists(k, now)
  BY <1>3 DEF Abstract!Lists, contents, said
<1> QED BY <1>3, <1>4, CommandIsNext

\* RPUSH.
LEMMA RpushRefines ==
    ASSUME IInv, NEW k \in Keys, NEW now \in 0 .. clock, NEW els \in ElementArgs,
           rpush(k, els, now)
    PROVE  Abstract!Next
<1> DEFINE list     == OrInsert(k, now, "list").data
           held     == Abstract!Held(k, now, "list")
           contents == held \o els
           said     == <<Len(held) + Len(els)>>
<1>1. ASSUME OrInsert(k, now, "list").type = "list"
      PROVE  /\ DOMAIN (list \o els) # {}
             /\ contents = list \o els
             /\ said = <<Len(els) + Len(list)>>
  <2>1. list \in Seq(Bytes) /\ held = list
    BY <1>1, OrInsertHeld DEF CollectionTypes, DataOf
  <2>2. els \in Seq(Bytes) /\ Len(els) \in Nat \ {0}
    BY ElementArgsType
  <2>3. DOMAIN (list \o els) # {}
    <3> HIDE DEF list
    <3> QED BY <2>1, <2>2, PushFull
  <2>4. Len(list) + Len(els) = Len(els) + Len(list)
    <3> HIDE DEF list
    <3> QED BY <2>1, <2>2, LenProperties
  <2> QED BY <2>1, <2>3, <2>4
<1>2. Grow("rpush", k, now, "list", list \o els, ElementBytes(els),
           els, Len(els) + Len(list))
  BY DEF rpush
<1> HIDE DEF list, contents, said
<1>3. /\ Answered'.key = {k} /\ clock' = clock
      /\ Abstract!Update("rpush", k, now, "list", els, contents, said)
  BY <1>1, <1>2, GrowRefines DEF CollectionTypes, Unanswered
<1>4. Abstract!Lists(k, now)
  BY <1>3 DEF Abstract!Lists, contents, said
<1> QED BY <1>3, <1>4, CommandIsNext

\* What a command finds of a collection that is stored, or of one that is not.
LEMMA HeldCollection ==
    ASSUME IInv, NEW k \in Keys, NEW now \in 0 .. clock, NEW type \in CollectionTypes
    PROVE  /\ ~Live(k, now) => Abstract!Held(k, now, type) = Abstract!Blank(type)
           /\ Live(k, now) /\ entries[k].type = type =>
                /\ Present(k)
                /\ entries[k].data \in DataOf(type)
                /\ Abstract!Held(k, now, type) = IF type = "set" THEN DOMAIN entries[k].data
                                                 ELSE entries[k].data
<1>0. now \in Nat /\ clock \in Nat
  BY DEF IInv
<1>1. CASE ~Live(k, now)
  BY <1>0, <1>1, HeldFacts
<1>2. CASE Live(k, now) /\ entries[k].type = type
  <2>1. Abstract!Held(k, now, type) = Contents(entries[k]) /\ Present(k)
    BY <1>0, <1>2, HeldFacts DEF Live
  <2>2. entries[k] \in CacheEntries
    BY <2>1, PresentSize, SlotCases
  <2>3. type # "string"
    BY DEF CollectionTypes
  <2> QED BY <1>2, <2>1, <2>2, <2>3 DEF Contents, CacheEntries
<1> QED BY <1>1, <1>2

\* LPOP.
LEMMA LpopRefines ==
    ASSUME IInv, NEW k \in Keys, NEW now \in 0 .. clock, lpop(k, now)
    PROVE  Abstract!Next
<1> DEFINE list     == entries[k].data
           held     == Abstract!Held(k, now, "list")
           contents == SubSeq(held, 2, Len(held))
           said     == IF held = <<>> THEN <<>> ELSE <<Head(held)>>
<1>1. ASSUME ~Live(k, now)
      PROVE  contents = Abstract!Blank("list") /\ said = NilOrZero("lpop")
  <2>1. held = <<>>
    BY <1>1, HeldCollection DEF CollectionTypes, Abstract!Blank
  <2>2. SubSeq(<<>>, 2, Len(<<>>)) = <<>>
    BY EmptySeq, SubSeqEmpty
  <2> QED BY <2>1, <2>2 DEF Abstract!Blank, NilOrZero, Pops
<1>2. ASSUME Live(k, now), entries[k].type = "list"
      PROVE  /\ Tail(list) \in DataOf("list")
             /\ contents = Tail(list)
             /\ said = <<Head(list)>>
  <2>1. held = list /\ Present(k)
    BY <1>2, HeldCollection DEF CollectionTypes
  <2>2. list \in Seq(Bytes) /\ list # <<>>
    BY <1>2, <2>1, StoredList
  <2>3. Tail(list) \in Seq(Bytes) /\ Tail(list) = SubSeq(list, 2, Len(list))
    <3> HIDE DEF list
    <3> QED BY <2>2, HeadTailProperties, TailIsSubSeq
  <2> QED BY <2>1, <2>2, <2>3 DEF DataOf
<1>3. Shrink("lpop", k, now, "list", Tail(list), ByteLen[Head(list)] + ITEM_OVERHEAD,
             <<>>, <<Head(list)>>, Hit)
  BY DEF lpop
<1> HIDE DEF list, contents, said
<1>4. /\ Answered'.key = {k} /\ clock' = clock
      /\ Abstract!Update("lpop", k, now, "list", <<>>, contents, said)
  BY <1>1, <1>2, <1>3, ShrinkRefines DEF CollectionTypes, Unanswered
<1>5. Abstract!Lists(k, now)
  BY <1>4 DEF Abstract!Lists, contents, said
<1> QED BY <1>4, <1>5, CommandIsNext

\* RPOP.
LEMMA RpopRefines ==
    ASSUME IInv, NEW k \in Keys, NEW now \in 0 .. clock, rpop(k, now)
    PROVE  Abstract!Next
<1> DEFINE list     == entries[k].data
           last     == list[Len(list)]
           front    == SubSeq(list, 1, Len(list) - 1)
           held     == Abstract!Held(k, now, "list")
           contents == SubSeq(held, 1, Len(held) - 1)
           said     == IF held = <<>> THEN <<>> ELSE <<Abstract!Last(held)>>
<1>1. ASSUME ~Live(k, now)
      PROVE  contents = Abstract!Blank("list") /\ said = NilOrZero("rpop")
  <2>1. held = <<>>
    BY <1>1, HeldCollection DEF CollectionTypes, Abstract!Blank
  <2>2. SubSeq(<<>>, 1, Len(<<>>) - 1) = <<>>
    BY EmptySeq, SubSeqEmpty
  <2> QED BY <2>1, <2>2 DEF Abstract!Blank, NilOrZero, Pops
<1>2. ASSUME Live(k, now), entries[k].type = "list"
      PROVE  /\ front \in DataOf("list")
             /\ contents = front
             /\ said = <<last>>
  <2>1. held = list /\ Present(k)
    BY <1>2, HeldCollection DEF CollectionTypes
  <2>2. list \in Seq(Bytes) /\ list # <<>> /\ Len(list) \in Nat \ {0}
    BY <1>2, <2>1, StoredList
  <2>3. \A i \in 1 .. Len(list) - 1 : list[i] \in Bytes
    BY <2>2, ElementOfSeq
  <2>4. front \in Seq(Bytes)
    <3> HIDE DEF list
    <3> QED BY <2>2, <2>3, SubSeqProperties
  <2>5. Abstract!Last(held) = last
    BY <2>1 DEF Abstract!Last
  <2> QED BY <2>1, <2>2, <2>4, <2>5 DEF DataOf
<1>3. Shrink("rpop", k, now, "list", front, ByteLen[last] + ITEM_OVERHEAD,
             <<>>, <<last>>, Hit)
  BY DEF rpop
<1> HIDE DEF list, contents, said, front, last
<1>4. /\ Answered'.key = {k} /\ clock' = clock
      /\ Abstract!Update("rpop", k, now, "list", <<>>, contents, said)
  BY <1>1, <1>2, <1>3, ShrinkRefines DEF CollectionTypes, Unanswered
<1>5. Abstract!Lists(k, now)
  BY <1>4 DEF Abstract!Lists, contents, said
<1> QED BY <1>4, <1>5, CommandIsNext

\* The smaller and the larger of two integers.
LEMMA MinMaxOfTwo ==
    ASSUME NEW a \in Int, NEW b \in Int
    PROVE  /\ Min({a, b}) = IF a <= b THEN a ELSE b
           /\ Max({a, b}) = IF a >= b THEN a ELSE b
<1>1. \E x \in {a, b} : \A y \in {a, b} : x =< y
  OBVIOUS
<1>2. \E x \in {a, b} : \A y \in {a, b} : x >= y
  OBVIOUS
<1>3. Min({a, b}) \in {a, b} /\ \A y \in {a, b} : Min({a, b}) =< y
  BY <1>1 DEF Min
<1>4. Max({a, b}) \in {a, b} /\ \A y \in {a, b} : Max({a, b}) >= y
  BY <1>2 DEF Max
<1> QED BY <1>3, <1>4

\* The least member of an interval, in the instance.
LEMMA MinOfInterval ==
    ASSUME NEW a \in Int, NEW b \in Int, a <= b
    PROVE  Abstract!Min(a .. b) = a
<1>1. a \in a .. b /\ \A y \in a .. b : a =< y
  OBVIOUS
<1>2. Abstract!Min(a .. b) \in a .. b /\ \A y \in a .. b : Abstract!Min(a .. b) =< y
  BY <1>1 DEF Abstract!Min
<1> QED BY <1>1, <1>2

\* Where LRANGE starts and stops: the index arithmetic of the code cuts out the elements
\* whose positions the abstract query asks for.
Position(len, i) == IF i < 0 THEN len + i + 1 ELSE i + 1
Asked(len, start, stop) ==
    {i \in 1 .. len : Position(len, start) <= i /\ i <= Position(len, stop)}

LEMMA SliceIsAsked ==
    ASSUME NEW list \in Seq(Bytes), NEW start \in Int, NEW stop \in Int, Len(list) # 0
    PROVE  Slice(list, start, stop) =
             [i \in 1 .. Abstract!Cardinality(Asked(Len(list), start, stop)) |->
                list[Abstract!Min(Asked(Len(list), start, stop)) + i - 1]]
<1> DEFINE len   == Len(list)
           lo    == Max({0, IF start < 0 THEN len + start ELSE start})
           hi    == Min({len - 1, IF stop < 0 THEN len + stop ELSE stop})
           asked == Asked(len, start, stop)
<1>0. len \in Nat \ {0} /\ list \in [1 .. len -> Bytes]
  BY LenProperties
<1>1. /\ lo \in Int /\ hi \in Int
      /\ lo >= 0 /\ hi <= len - 1
      /\ asked = lo + 1 .. hi + 1
  <2> HIDE DEF len
  <2> DEFINE p == IF start < 0 THEN len + start ELSE start
             q == IF stop < 0 THEN len + stop ELSE stop
  <2>0. p \in Int /\ q \in Int
    BY <1>0
  <2>1. Position(len, start) = p + 1 /\ Position(len, stop) = q + 1
    BY <1>0 DEF Position
  <2>2. lo = (IF 0 >= p THEN 0 ELSE p) /\ hi = (IF len - 1 <= q THEN len - 1 ELSE q)
    <3>1. lo = Max({0, p}) /\ hi = Min({len - 1, q})
      OBVIOUS
    <3> HIDE DEF p, q, lo, hi
    <3>2. 0 \in Int /\ len - 1 \in Int
      BY <1>0
    <3>3. ASSUME NEW a \in Int
          PROVE  /\ Max({a, p}) = IF a >= p THEN a ELSE p
                 /\ Min({a, q}) = IF a <= q THEN a ELSE q
      BY <2>0, MinMaxOfTwo
    <3>4. Max({0, p}) = IF 0 >= p THEN 0 ELSE p
      BY <3>2, <3>3
    <3>5. Min({len - 1, q}) = IF len - 1 <= q THEN len - 1 ELSE q
      BY <3>2, <3>3
    <3> QED BY <3>1, <3>4, <3>5
  <2> HIDE DEF p, q
  <2> HIDE DEF lo, hi
  <2>3. lo \in Int /\ hi \in Int /\ lo >= 0 /\ hi <= len - 1
    BY <1>0, <2>0, <2>2
  <2>4. \A i \in Int : i \in asked <=> i \in lo + 1 .. hi + 1
    <3>1. \A i \in Int : i \in asked <=> i \in 1 .. len /\ p + 1 <= i /\ i <= q + 1
      BY <2>1 DEF Asked
    <3> HIDE DEF asked
    <3> QED BY <1>0, <2>0, <2>2, <3>1
  <2>5. asked \subseteq Int /\ lo + 1 .. hi + 1 \subseteq Int
    BY <1>0, <2>3 DEF Asked
  <2>6. asked = lo + 1 .. hi + 1
    <3> HIDE DEF asked
    <3> QED BY <2>4, <2>5
  <2> QED BY <2>3, <2>6
<1>2. Slice(list, start, stop) = IF lo > hi \/ lo >= len THEN <<>> ELSE SubSeq(list, lo + 1, hi + 1)
  BY DEF Slice
<1> HIDE DEF len, lo, hi, asked
<1>3. Abstract!Cardinality(asked) = Cardinality(asked)
  BY DEF Abstract!Cardinality, Cardinality
<1>4. Cardinality(asked) = IF lo > hi THEN 0 ELSE hi - lo + 1
  <2>1. Cardinality(lo + 1 .. hi + 1) = IF lo + 1 > hi + 1 THEN 0 ELSE (hi + 1) - (lo + 1) + 1
    BY <1>1, FS_Interval
  <2> QED BY <1>1, <2>1
<1>5. CASE lo > hi
  <2>1. 1 .. Abstract!Cardinality(asked) = {}
    BY <1>3, <1>4, <1>5
  <2>2. [i \in 1 .. Abstract!Cardinality(asked) |-> list[Abstract!Min(asked) + i - 1]] = <<>>
    <3>1. [i \in {} |-> list[Abstract!Min(asked) + i - 1]] = <<>>
      <4>1. DOMAIN <<>> = {}
        BY EmptySeq, LenProperties
      <4> QED BY <4>1
    <3> QED BY <2>1, <3>1
  <2> QED BY <1>2, <1>5, <2>2 DEF asked, len
<1>6. CASE lo <= hi
  <2>1. lo < len /\ Abstract!Cardinality(asked) = hi - lo + 1
    BY <1>0, <1>1, <1>3, <1>4, <1>6
  <2>2. Abstract!Min(asked) = lo + 1
    BY <1>1, <1>6, MinOfInterval
  <2>3. Slice(list, start, stop) = SubSeq(list, lo + 1, hi + 1)
    BY <1>0, <1>1, <1>2, <1>6, <2>1
  <2>4. \A i \in lo + 1 .. hi + 1 : list[i] \in Bytes
    BY <1>0, <1>1
  <2> DEFINE sub == SubSeq(list, lo + 1, hi + 1)
             cut == [i \in 1 .. hi - lo + 1 |-> list[lo + 1 + i - 1]]
  <2>5. /\ sub \in Seq(Bytes)
        /\ Len(sub) = hi - lo + 1
        /\ \A i \in 1 .. (hi + 1) - (lo + 1) + 1 : sub[i] = list[lo + 1 + i - 1]
    BY <1>1, <1>6, <2>4, SubSeqProperties
  <2>6. cut = sub
    <3> HIDE DEF sub
    <3>1. sub \in [1 .. hi - lo + 1 -> Bytes]
      BY <2>5, LenProperties
    <3>2. \A i \in 1 .. hi - lo + 1 : sub[i] = list[lo + 1 + i - 1]
      BY <1>1, <2>5
    <3> QED BY <3>1, <3>2
  <2>7. cut = [i \in 1 .. Abstract!Cardinality(asked) |-> list[Abstract!Min(asked) + i - 1]]
    BY <2>1, <2>2
  <2> HIDE DEF sub, cut
  <2> QED BY <2>3, <2>6, <2>7 DEF sub, asked, len
<1> QED BY <1>1, <1>5, <1>6

\* A function without arguments is the empty sequence.
LEMMA EmptyFunction ==
    ASSUME NEW f, f = [x \in DOMAIN f |-> f[x]], DOMAIN f = {}
    PROVE  f = <<>>
<1>1. DOMAIN <<>> = {}
  BY EmptySeq, LenProperties
<1> QED BY <1>1

\* The size of a set, in the instance.
LEMMA SameCardinality ==
    ASSUME NEW S
    PROVE  Abstract!Cardinality(S) = Cardinality(S)
  BY DEF Abstract!Cardinality, Cardinality

\* LRANGE.
LEMMA LrangeRefines ==
    ASSUME IInv, NEW k \in Keys, NEW now \in 0 .. clock, NEW at,
           NEW start \in Indexes, NEW stop \in Indexes, lrange(k, start, stop, now, at)
    PROVE  Abstract!Next
<1> DEFINE list  == entries[k].data
           held  == Abstract!Held(k, now, "list")
           asked == Asked(Len(held), start, stop)
           said  == [i \in 1 .. Abstract!Cardinality(asked) |-> held[Abstract!Min(asked) + i - 1]]
<1>0. start \in Int /\ stop \in Int
  BY DbAssumption
<1>1. ASSUME ~Live(k, now)
      PROVE  said = <<>>
  <2>1. held = <<>> /\ Len(held) = 0
    BY <1>1, HeldCollection, EmptySeq DEF CollectionTypes, Abstract!Blank
  <2>2. asked = {}
    <3> HIDE DEF held
    <3> QED BY <2>1 DEF Asked
  <2>3. Abstract!Cardinality(asked) = 0
    BY <2>2, SameCardinality, FS_EmptySet
  <2>4. DOMAIN said = {}
    <3> HIDE DEF asked, held
    <3> QED BY <2>3
  <2>5. said = [i \in DOMAIN said |-> said[i]]
    OBVIOUS
  <2> HIDE DEF said
  <2> QED BY <2>4, <2>5, EmptyFunction
<1>2. ASSUME Live(k, now), entries[k].type = "list"
      PROVE  said = Slice(list, start, stop)
  <2>1. held = list /\ Present(k)
    BY <1>2, HeldCollection DEF CollectionTypes
  <2>2. list \in Seq(Bytes) /\ Len(list) # 0
    BY <1>2, <2>1, StoredList
  <2> HIDE DEF list, held
  <2>3. Slice(list, start, stop) =
          [i \in 1 .. Abstract!Cardinality(Asked(Len(list), start, stop)) |->
             list[Abstract!Min(Asked(Len(list), start, stop)) + i - 1]]
    BY <1>0, <2>2, SliceIsAsked
  <2> QED BY <2>1, <2>3
<1>3. Read("lrange", k, now, at, "list", <<start, stop>>, <<>>, Slice(list, start, stop), Hit)
  BY DEF lrange
<1> HIDE DEF list, said
<1>4. /\ Answered'.key = {k} /\ clock' = clock
      /\ Abstract!Query("lrange", k, now, "list", <<start, stop>>, said)
  BY <1>1, <1>2, <1>3, ReadRefines DEF CollectionTypes, Unanswered
<1>5. Abstract!Lists(k, now)
  BY <1>4 DEF Abstract!Lists, said, Asked, Position
<1> QED BY <1>4, <1>5, CommandIsNext

-----------------------------------------------------------------------------
(* Hashes *)

\* HSET.
LEMMA HsetRefines ==
    ASSUME IInv, NEW k \in Keys, NEW now \in 0 .. clock, NEW fields \in FieldArgs,
           hset(k, fields, now)
    PROVE  Abstract!Next
<1>0. PICK F \in (SUBSET Bytes) \ {{}} : fields \in [F -> Bytes]
  BY DEF FieldArgs, MemberArgs
<1> DEFINE map      == OrInsert(k, now, "hash").data
           fresh    == DOMAIN fields \ DOMAIN map
           held     == Abstract!Held(k, now, "hash")
           contents == [f \in F \cup DOMAIN held |-> IF f \in F THEN fields[f] ELSE held[f]]
           said     == <<Abstract!Cardinality(F \ DOMAIN held)>>
<1>1. ASSUME OrInsert(k, now, "hash").type = "hash"
      PROVE  /\ DOMAIN Inserted(map, fields) # {}
             /\ contents = Inserted(map, fields)
             /\ said = <<Cardinality(fresh)>>
  <2>1. held = map
    BY <1>1, OrInsertHeld DEF CollectionTypes
  <2>2. DOMAIN fields = F
    BY <1>0
  <2> HIDE DEF map, held
  <2>3. F \cup DOMAIN held = DOMAIN map \cup DOMAIN fields
    BY <2>1, <2>2
  <2>4. contents = Inserted(map, fields)
    BY <2>1, <2>2, <2>3 DEF Inserted
  <2>5. DOMAIN contents # {}
    BY <1>0
  <2> QED BY <2>1, <2>2, <2>4, <2>5, SameCardinality
<1>2. PICK added : Grow("hset", k, now, "hash", Inserted(map, fields), added, fields,
                        Cardinality(fresh))
  BY DEF hset
<1> HIDE DEF map, contents, said, fresh
<1>3. /\ Answered'.key = {k} /\ clock' = clock
      /\ Abstract!Update("hset", k, now, "hash", fields, contents, said)
  BY <1>1, <1>2, GrowRefines DEF CollectionTypes, Unanswered
<1>4. Abstract!Hashes(k, now)
  BY <1>0, <1>3 DEF Abstract!Hashes, contents, said
<1> QED BY <1>3, <1>4, CommandIsNext

\* HDEL.
LEMMA HdelRefines ==
    ASSUME IInv, NEW k \in Keys, NEW now \in 0 .. clock, NEW fields \in MemberArgs,
           hdel(k, fields, now)
    PROVE  Abstract!Next
<1> DEFINE map      == entries[k].data
           gone     == fields \cap DOMAIN map
           data     == [f \in DOMAIN map \ fields |-> map[f]]
           held     == Abstract!Held(k, now, "hash")
           contents == [f \in DOMAIN held \ fields |-> held[f]]
           said     == <<Abstract!Cardinality(fields \cap DOMAIN held)>>
<1>0. fields \in SUBSET Bytes
  BY DEF MemberArgs
<1>1. ASSUME ~Live(k, now)
      PROVE  contents = Abstract!Blank("hash") /\ said = NilOrZero("hdel")
  <2>1. held = <<>>
    BY <1>1, HeldCollection DEF CollectionTypes, Abstract!Blank
  <2>2. DOMAIN held = {}
    BY <2>1, EmptySeq, LenProperties
  <2>3. contents = <<>>
    <3>1. DOMAIN contents = {} /\ contents = [f \in DOMAIN contents |-> contents[f]]
      <4> HIDE DEF held
      <4> QED BY <2>2
    <3> HIDE DEF contents
    <3> QED BY <3>1, EmptyFunction
  <2>4. fields \cap DOMAIN held = {}
    BY <2>2
  <2>5. said = <<0>>
    BY <2>4, SameCardinality, FS_EmptySet
  <2> HIDE DEF said, contents
  <2> QED BY <2>3, <2>5 DEF Abstract!Blank, NilOrZero, Pops
<1>2. ASSUME Live(k, now), entries[k].type = "hash"
      PROVE  /\ data \in DataOf("hash")
             /\ contents = data
             /\ said = <<Cardinality(gone)>>
  <2>1. held = map /\ Present(k)
    BY <1>2, HeldCollection DEF CollectionTypes
  <2>2. map \in [DOMAIN map -> Bytes] /\ DOMAIN map \in SUBSET Bytes
    BY <1>2, <2>1, StoredMap
  <2> HIDE DEF map, held
  <2>3. data \in [DOMAIN map \ fields -> Bytes]
    BY <2>2
  <2>4. data \in Maps
    <3> HIDE DEF data
    <3> QED BY <2>2, <2>3 DEF Maps
  <2> QED BY <2>1, <2>4, SameCardinality DEF DataOf
<1>3. PICK freed : Shrink("hdel", k, now, "hash", data, freed, fields, <<Cardinality(gone)>>,
                          NoMetric)
  BY DEF hdel
<1> HIDE DEF map, contents, said, data, gone
<1>4. /\ Answered'.key = {k} /\ clock' = clock
      /\ Abstract!Update("hdel", k, now, "hash", fields, contents, said)
  BY <1>1, <1>2, <1>3, ShrinkRefines DEF CollectionTypes, Unanswered
<1>5. Abstract!Hashes(k, now)
  BY <1>0, <1>4 DEF Abstract!Hashes, contents, said
<1> QED BY <1>4, <1>5, CommandIsNext

\* HGET.
LEMMA HgetRefines ==
    ASSUME IInv, NEW k \in Keys, NEW now \in 0 .. clock, NEW at, NEW f \in Bytes,
           hget(k, f, now, at)
    PROVE  Abstract!Next
<1> DEFINE map   == entries[k].data
           reply == IF f \in DOMAIN map THEN <<map[f]>> ELSE <<>>
           held  == Abstract!Held(k, now, "hash")
           said  == IF f \in DOMAIN held THEN <<held[f]>> ELSE <<>>
<1>1. ASSUME ~Live(k, now)
      PROVE  said = <<>>
  <2>1. held = <<>>
    BY <1>1, HeldCollection DEF CollectionTypes, Abstract!Blank
  <2>2. DOMAIN held = {}
    BY <2>1, EmptySeq, LenProperties
  <2> QED BY <2>2
<1>2. ASSUME Live(k, now), entries[k].type = "hash"
      PROVE  said = reply
  BY <1>2, HeldCollection DEF CollectionTypes
<1>3. PICK metrics : Read("hget", k, now, at, "hash", <<f>>, <<>>, reply, metrics)
  BY DEF hget
<1> HIDE DEF map, said, reply
<1>4. /\ Answered'.key = {k} /\ clock' = clock
      /\ Abstract!Query("hget", k, now, "hash", <<f>>, said)
  BY <1>1, <1>2, <1>3, ReadRefines DEF CollectionTypes, Unanswered
<1>5. Abstract!Hashes(k, now)
  BY <1>4 DEF Abstract!Hashes, said
<1> QED BY <1>4, <1>5, CommandIsNext

\* HGETALL.
LEMMA HgetallRefines ==
    ASSUME IInv, NEW k \in Keys, NEW now \in 0 .. clock, NEW at, hgetall(k, now, at)
    PROVE  Abstract!Next
<1> DEFINE held == Abstract!Held(k, now, "hash")
<1>1. ~Live(k, now) => held = <<>>
  BY HeldCollection DEF CollectionTypes, Abstract!Blank
<1>2. Live(k, now) /\ entries[k].type = "hash" => held = entries[k].data
  BY HeldCollection DEF CollectionTypes
<1>3. Read("hgetall", k, now, at, "hash", <<>>, <<>>, entries[k].data, Hit)
  BY DEF hgetall
<1>4. /\ Answered'.key = {k} /\ clock' = clock
      /\ Abstract!Query("hgetall", k, now, "hash", <<>>, held)
  <2> DEFINE data == entries[k].data
  <2>1. Read("hgetall", k, now, at, "hash", <<>>, <<>>, data, Hit)
    BY <1>3
  <2>2. Live(k, now) /\ entries[k].type = "hash" => held = data
    BY <1>2
  <2> HIDE DEF held, data
  <2> QED BY <1>1, <2>1, <2>2, ReadRefines DEF CollectionTypes, Unanswered
<1>5. Abstract!Hashes(k, now)
  BY <1>4 DEF Abstract!Hashes
<1> QED BY <1>4, <1>5, CommandIsNext

-----------------------------------------------------------------------------
(* Sets *)

\* SADD.
LEMMA SaddRefines ==
    ASSUME IInv, NEW k \in Keys, NEW now \in 0 .. clock, NEW members \in MemberArgs,
           sadd(k, members, now)
    PROVE  Abstract!Next
<1> DEFINE set      == OrInsert(k, now, "set").data
           fresh    == members \ DOMAIN set
           data     == [m \in DOMAIN set \cup members |-> m]
           held     == Abstract!Held(k, now, "set")
           contents == held \cup members
           said     == <<Abstract!Cardinality(members \ held)>>
<1>0. members \in (SUBSET Bytes) \ {{}}
  BY DEF MemberArgs
<1>1. ASSUME OrInsert(k, now, "set").type = "set"
      PROVE  /\ DOMAIN data # {}
             /\ contents = DOMAIN data
             /\ said = <<Cardinality(fresh)>>
  <2>1. held = DOMAIN set
    BY <1>1, OrInsertHeld DEF CollectionTypes
  <2> HIDE DEF set, held
  <2>2. DOMAIN data = DOMAIN set \cup members
    OBVIOUS
  <2> QED BY <1>0, <2>1, <2>2, SameCardinality
<1>2. PICK added : Grow("sadd", k, now, "set", data, added, members, Cardinality(fresh))
  BY DEF sadd
<1> HIDE DEF set, contents, said, fresh, data
<1>3. /\ Answered'.key = {k} /\ clock' = clock
      /\ Abstract!Update("sadd", k, now, "set", members, contents, said)
  BY <1>1, <1>2, GrowRefines DEF CollectionTypes, Unanswered
<1>4. Abstract!Sets(k, now)
  BY <1>0, <1>3 DEF Abstract!Sets, contents, said
<1> QED BY <1>3, <1>4, CommandIsNext

\* SREM.
LEMMA SremRefines ==
    ASSUME IInv, NEW k \in Keys, NEW now \in 0 .. clock, NEW members \in MemberArgs,
           srem(k, members, now)
    PROVE  Abstract!Next
<1> DEFINE set      == entries[k].data
           gone     == members \cap DOMAIN set
           data     == [m \in DOMAIN set \ members |-> m]
           held     == Abstract!Held(k, now, "set")
           contents == held \ members
           said     == <<Abstract!Cardinality(held \cap members)>>
<1>0. members \in SUBSET Bytes
  BY DEF MemberArgs
<1>1. ASSUME ~Live(k, now)
      PROVE  contents = Abstract!Blank("set") /\ said = NilOrZero("srem")
  <2>1. held = {}
    BY <1>1, HeldCollection DEF CollectionTypes, Abstract!Blank
  <2>2. contents = {} /\ held \cap members = {}
    BY <2>1
  <2>3. said = <<0>>
    BY <2>2, SameCardinality, FS_EmptySet
  <2> HIDE DEF said, contents
  <2> QED BY <2>2, <2>3 DEF Abstract!Blank, NilOrZero, Pops
<1>2. ASSUME Live(k, now), entries[k].type = "set"
      PROVE  /\ data \in DataOf("set")
             /\ contents = DOMAIN data
             /\ said = <<Cardinality(gone)>>
  <2>1. held = DOMAIN set /\ Present(k)
    BY <1>2, HeldCollection DEF CollectionTypes
  <2>2. DOMAIN set \in SUBSET Bytes
    BY <1>2, <2>1, StoredMap
  <2> HIDE DEF set, held
  <2>3. data \in [DOMAIN set \ members -> Bytes] /\ \A m \in DOMAIN data : data[m] = m
    BY <2>2
  <2>4. DOMAIN data = DOMAIN set \ members
    OBVIOUS
  <2>5. data \in Maps
    <3> HIDE DEF data
    <3> QED BY <2>2, <2>3 DEF Maps
  <2>6. held \cap members = gone
    BY <2>1
  <2> HIDE DEF data, gone
  <2> QED BY <2>1, <2>3, <2>4, <2>5, <2>6, SameCardinality DEF DataOf
<1>3. PICK freed : Shrink("srem", k, now, "set", data, freed, members, <<Cardinality(gone)>>,
                          NoMetric)
  BY DEF srem
<1> HIDE DEF set, contents, said, data, gone
<1>4. /\ Answered'.key = {k} /\ clock' = clock
      /\ Abstract!Update("srem", k, now, "set", members, contents, said)
  BY <1>1, <1>2, <1>3, ShrinkRefines DEF CollectionTypes, Unanswered
<1>5. Abstract!Sets(k, now)
  BY <1>0, <1>4 DEF Abstract!Sets, contents, said
<1> QED BY <1>4, <1>5, CommandIsNext

\* SISMEMBER.
LEMMA SismemberRefines ==
    ASSUME IInv, NEW k \in Keys, NEW now \in 0 .. clock, NEW at, NEW m \in Bytes,
           sismember(k, m, now, at)
    PROVE  Abstract!Next
<1> DEFINE reply == IF m \in DOMAIN entries[k].data THEN <<1>> ELSE <<0>>
           held  == Abstract!Held(k, now, "set")
           said  == IF m \in held THEN <<1>> ELSE <<0>>
<1>1. ~Live(k, now) => said = <<0>>
  BY HeldCollection DEF CollectionTypes, Abstract!Blank
<1>2. Live(k, now) /\ entries[k].type = "set" => said = reply
  BY HeldCollection DEF CollectionTypes
<1>3. PICK metrics : Read("sismember", k, now, at, "set", <<m>>, <<0>>, reply, metrics)
  BY DEF sismember
<1> HIDE DEF said, reply
<1>4. /\ Answered'.key = {k} /\ clock' = clock
      /\ Abstract!Query("sismember", k, now, "set", <<m>>, said)
  BY <1>1, <1>2, <1>3, ReadRefines DEF CollectionTypes, Unanswered
<1>5. Abstract!Sets(k, now)
  BY <1>4 DEF Abstract!Sets, said
<1> QED BY <1>4, <1>5, CommandIsNext

\* SMEMBERS.
LEMMA SmembersRefines ==
    ASSUME IInv, NEW k \in Keys, NEW now \in 0 .. clock, NEW at, smembers(k, now, at)
    PROVE  Abstract!Next
<1> DEFINE held == Abstract!Held(k, now, "set")
<1>1. ~Live(k, now) => held = DOMAIN <<>>
  <2>1. DOMAIN <<>> = {}
    BY EmptySeq, LenProperties
  <2> QED BY <2>1, HeldCollection DEF CollectionTypes, Abstract!Blank
<1>2. Live(k, now) /\ entries[k].type = "set" => held = DOMAIN entries[k].data
  BY HeldCollection DEF CollectionTypes
<1>3. Read("smembers", k, now, at, "set", <<>>, <<>>, entries[k].data, Hit)
  BY DEF smembers
<1>4. /\ Answered'.key = {k} /\ clock' = clock
      /\ Abstract!Query("smembers", k, now, "set", <<>>, held)
  <2> HIDE DEF held
  <2> QED BY <1>1, <1>2, <1>3, ReadRefines DEF CollectionTypes, Unanswered
<1>5. Abstract!Sets(k, now)
  BY <1>4 DEF Abstract!Sets
<1> QED BY <1>4, <1>5, CommandIsNext

-----------------------------------------------------------------------------
(* Lifetimes *)

\* What had expired when the command read the clock is dead now, and may be forgotten.
LEMMA RemovalForgets ==
    ASSUME IInv, NEW k \in Keys, NEW now \in 0 .. clock, Expired(k, now), NEW delta,
           Store(k, Absent, delta), NEW ks, k \in ks
    PROVE  Abstract!MayForget(ks)
<1>0. now \in Nat /\ clock \in Nat
  BY DEF IInv
<1>1. entries[k] \in FullEntries
  BY PresentSize DEF Expired
<1>2. Expired(k, clock)
  <2>1. entries[k].expires_at \in Nat \cup {-1}
    BY <1>1 DEF FullEntries, CacheEntries, None
  <2> QED BY <1>0, <2>1 DEF Expired, is_expired
<1>3. {k} \in SUBSET {x \in ks : Abstract!Dead(Stored[x], clock)}
  <2>1. Abstract!Dead(Stored[k], clock)
    BY <1>0, <1>2, DeadIsExpired
  <2> QED BY <2>1
<1>4. Stored' = [Stored EXCEPT ![k] = Abstract!Nothing]
  BY RemovalMaps
<1>5. Stored' = [x \in Keys |-> IF x \in {k} THEN Abstract!Nothing ELSE Stored[x]]
  <2>1. Stored = [x \in Keys |-> Stored[x]]
    BY DEF Stored
  <2> QED BY <1>4, <2>1
<1> QED BY <1>3, <1>5, Zenon DEF Abstract!MayForget

\* TTL and PTTL.
LEMMA TtlRefines ==
    ASSUME IInv, NEW k \in Keys, NEW now \in 0 .. clock, NEW op \in {"ttl", "pttl"},
           ttl(op, IF op = "ttl" THEN 1000 ELSE 1, k, now)
    PROVE  Abstract!Next
<1> DEFINE unit == IF op = "ttl" THEN 1000 ELSE 1
           left == IF Abstract!Missing(k, now) THEN -2
                   ELSE IF Abstract!Visible(k, now).deadline = None THEN -1
                   ELSE (Abstract!Visible(k, now).deadline - now) \div unit
<1>0. now \in Nat /\ clock \in Nat /\ clock' = clock
  BY DEF IInv, ttl, OneLock
<1>1. RemainingTtl(k, now, unit) = left
  <2> HIDE DEF unit
  <2>1. CASE ~Live(k, now)
    BY <1>0, <2>1, VisibleFacts DEF RemainingTtl
  <2>2. CASE Live(k, now)
    <3>1. ~Abstract!Missing(k, now) /\ Abstract!Visible(k, now).deadline = entries[k].expires_at
      BY <1>0, <2>2, VisibleFacts, KeptFacts
    <3> QED BY <2>2, <3>1 DEF RemainingTtl
  <2> QED BY <2>1, <2>2
<1>2. Answer(op, k, now, <<>>, <<left>>, NoMetric) /\ Stored' = Stored
  <2> DEFINE remaining == RemainingTtl(k, now, unit)
  <2>1. Answer(op, k, now, <<>>, <<remaining>>, NoMetric)
    BY DEF ttl
  <2>2. Stored' = Stored
    BY UntouchedMaps DEF ttl, Untouched
  <2>3. remaining = left
    BY <1>1
  <2> HIDE DEF remaining, left
  <2>4. Answer(op, k, now, <<>>, <<left>>, NoMetric)
    BY <2>1, <2>3, Zenon
  <2> QED BY <2>2, <2>4
<1>3. Abstract!Replies(op, k, <<>>, <<left>>) /\ Answered'.key = {k}
  <2> DEFINE reply == <<left>>
             given == <<>>
  <2>1. op \notin Unanswered /\ op # "del" /\ op # "smembers"
    BY DEF Unanswered
  <2>2. Answer(op, k, now, given, reply, NoMetric)
    BY <1>2
  <2> HIDE DEF reply, given
  <2>3. Abstract!Replies(op, k, given, reply) /\ Answered'.key = {k}
    BY <2>1, <2>2, AnswerMaps
  <2> QED BY <2>3 DEF reply, given
<1>4. Abstract!Lifetimes(k, now)
  BY <1>2, <1>3 DEF Abstract!Lifetimes
<1> QED BY <1>0, <1>3, <1>4, CommandIsNext

\* EXPIRE and PEXPIRE.
LEMMA ExpireRefines ==
    ASSUME IInv, NEW k \in Keys, NEW duration \in Durations, expire(k, duration)
    PROVE  Abstract!Next
<1>0. clock \in 0 .. clock /\ clock \in Nat /\ clock' = clock
  BY DEF IInv, expire, OneLock
<1> DEFINE AnswersNo == Answer("expire", k, clock, <<>>, <<0>>, NoMetric)
<1>1. ASSUME ~Live(k, clock), Abstract!MayForget({k}), AnswersNo
      PROVE  Abstract!Next
  <2>1. Abstract!Missing(k, clock)
    BY <1>0, <1>1, VisibleFacts
  <2>2. Abstract!Replies("expire", k, <<>>, <<0>>) /\ Answered'.key = {k}
    BY <1>1, AnswerMaps DEF Unanswered
  <2>3. Abstract!Expire(k)
    BY <1>1, <2>1, <2>2 DEF Abstract!Expire
  <2> QED BY <1>0, <2>2, <2>3, CommandIsNext
<1>2. CASE ~Present(k) /\ Untouched /\ Answer("expire", k, clock, <<>>, <<0>>, NoMetric)
  <2>1. Abstract!MayForget({k})
    BY <1>2, UntouchedMaps, ForgetNothing DEF Untouched
  <2> QED BY <1>1, <1>2, <2>1 DEF Live
<1>3. CASE /\ Expired(k, clock)
           /\ Store(k, Absent, -size_bytes(k, entries[k]))
           /\ Answer("expire", k, clock, <<>>, <<0>>, NoMetric)
  <2>1. Abstract!MayForget({k})
    BY <1>0, <1>3, RemovalForgets
  <2> QED BY <1>1, <1>3, <2>1 DEF Live, Expired
<1>4. CASE /\ Live(k, clock)
           /\ Store(k, [entries[k] EXCEPT !.expires_at = clock + duration], 0)
           /\ Answer("expire", k, clock, <<>>, <<1>>, NoMetric)
  <2> DEFINE e == [entries[k] EXCEPT !.expires_at = clock + duration]
  <2>1. ~Abstract!Missing(k, clock) /\ entries[k] \in FullEntries
    BY <1>0, <1>4, VisibleFacts
  <2>2. /\ e.type = entries[k].type /\ e.data = entries[k].data
        /\ e.expires_at = clock + duration
    BY <2>1 DEF FullEntries, CacheEntries
  <2>3. Stored' = [Stored EXCEPT ![k] = Kept(e)]
    BY <1>4, StoreMaps
  <2> HIDE DEF e
  <2>4. Contents(e) = Contents(entries[k])
    BY <2>2 DEF Contents
  <2>5. Kept(e) = [type |-> entries[k].type, contents |-> Contents(entries[k]),
                   deadline |-> clock + duration]
    BY <2>1, <2>2, <2>4, KeptFacts DEF Kept
  <2>6. Stored[k] = [type |-> entries[k].type, contents |-> Contents(entries[k]),
                     deadline |-> entries[k].expires_at]
    BY <2>1, StoredSlot, KeptFacts
  <2>7. Kept(e) = [Stored[k] EXCEPT !.deadline = clock + duration]
    BY <2>5, <2>6
  <2>8. Stored' = [Stored EXCEPT ![k].deadline = clock + duration]
    BY <2>3, <2>7
  <2>9. Abstract!Replies("expire", k, <<>>, <<1>>) /\ Answered'.key = {k}
    BY <1>4, AnswerMaps DEF Unanswered
  <2>10. Abstract!Expire(k)
    BY <2>1, <2>8, <2>9 DEF Abstract!Expire
  <2> QED BY <1>0, <2>9, <2>10, CommandIsNext
<1> QED BY <1>2, <1>3, <1>4 DEF expire

-----------------------------------------------------------------------------
(* GET, SET and DEL *)

\* A stored string is one payload.
LEMMA StringContents ==
    ASSUME NEW e \in FullEntries, e.type = "string"
    PROVE  /\ Contents(e) \in Bytes
           /\ e.data = <<Contents(e)>>
           /\ Kept(e) = [type |-> "string", contents |-> Contents(e), deadline |-> e.expires_at]
<1>1. e.data \in Seq(Bytes) /\ Len(e.data) = 1
  BY DEF FullEntries, CacheEntries, DataOf
<1>2. Contents(e) = e.data[1]
  BY DEF Contents
<1>3. e.data \in [1 .. 1 -> Bytes]
  BY <1>1, LenProperties
<1>4. e.data = <<e.data[1]>>
  <2> DEFINE d == e.data
  <2>1. d \in Seq(Bytes) /\ Len(d) = 1 /\ d[1] \in Bytes
    BY <1>1, <1>3
  <2> HIDE DEF d
  <2>2. d = <<d[1]>>
    BY <2>1
  <2> QED BY <2>2 DEF d
<1> QED BY <1>2, <1>3, <1>4, KeptFacts

\* GET finds no live entry: nil, whether or not an expired one is removed.
LEMMA GetMisses ==
    ASSUME IInv, NEW k \in Keys, NEW now \in 0 .. clock, ~Live(k, now), clock' = clock,
           Abstract!MayForget({k}), NEW metrics, Answer("get", k, now, <<>>, <<>>, metrics)
    PROVE  Abstract!Next
<1>0. now \in Nat
  BY DEF IInv
<1>1. Abstract!Missing(k, now) /\ Abstract!Allows(k, now, "string")
  BY <1>0, VisibleFacts, AllowsFacts
<1>2. /\ Abstract!Replies("get", k, <<>>, <<>>)
      /\ Answered'.op = "get" /\ Answered'.key = {k}
  BY AnswerMaps DEF Unanswered
<1>3. Abstract!Query("get", k, now, "string", <<>>,
                     IF Abstract!Missing(k, now) THEN <<>> ELSE <<Abstract!Visible(k, now).contents>>)
  BY <1>1, <1>2 DEF Abstract!Query
<1>4. Abstract!Strings(k, now)
  BY <1>3 DEF Abstract!Strings
<1> QED BY <1>2, <1>4, CommandIsNext

\* GET finds a live entry, under either lock.
LEMMA GetHits ==
    ASSUME IInv, NEW k \in Keys, NEW now \in 0 .. clock, Live(k, now), clock' = clock,
           NEW at, GetLive(k, now, at)
    PROVE  Abstract!Next
<1>0. now \in Nat
  BY DEF IInv
<1>1. /\ entries[k] \in FullEntries
      /\ Abstract!Visible(k, now).contents = Contents(entries[k])
      /\ ~Abstract!Missing(k, now)
  BY <1>0, VisibleFacts, KeptFacts
<1>2. Stored' = Stored
  BY TouchMaps DEF GetLive, Live
<1>3. CASE entries[k].type = "string" /\ Answer("get", k, now, <<>>, entries[k].data, Hit)
  <2>1. entries[k].data = <<Abstract!Visible(k, now).contents>>
    BY <1>1, <1>3, StringContents
  <2>2. /\ Abstract!Replies("get", k, <<>>, entries[k].data)
        /\ Answered'.op = "get" /\ Answered'.key = {k}
    BY <1>3, AnswerMaps DEF Unanswered
  <2>3. Abstract!Allows(k, now, "string") /\ Abstract!MayForget({k})
    BY <1>0, <1>2, <1>3, AllowsFacts, ForgetNothing
  <2>4. Abstract!Query("get", k, now, "string", <<>>,
          IF Abstract!Missing(k, now) THEN <<>> ELSE <<Abstract!Visible(k, now).contents>>)
    BY <1>1, <2>1, <2>2, <2>3 DEF Abstract!Query
  <2>5. Abstract!Strings(k, now)
    BY <2>4 DEF Abstract!Strings
  <2> QED BY <2>2, <2>5, CommandIsNext
<1>4. CASE entries[k].type # "string" /\ WrongType("get", k, now, Hit)
  <2>1. Abstract!Refuses("get", k) /\ Answered'.key = {k}
    BY <1>4, RefusalMaps DEF Unanswered
  <2>2. ~Abstract!Allows(k, now, "string")
    BY <1>0, <1>4, AllowsFacts
  <2>3. Abstract!WrongType("get", k, now, "string")
    BY <1>2, <2>1, <2>2 DEF Abstract!WrongType
  <2>4. Abstract!Strings(k, now)
    BY <2>3 DEF Abstract!Strings, Abstract!Query
  <2> QED BY <2>1, <2>4, CommandIsNext
<1> QED BY <1>3, <1>4 DEF GetLive

\* Nobody is answered and nothing seen changes.
LEMMA SilentRefines ==
    ASSUME out' = Silent, entries' = entries, clock' = clock
    PROVE  Abstract!Next
<1>1. Answered' = Abstract!NoAnswer /\ Answered'.op = "none"
  BY SilenceMaps DEF Silent, Unanswered
<1>2. Abstract!MayForget(Keys)
  BY UntouchedMaps, ForgetNothing
<1>3. Abstract!Housekeeping
  BY <1>1, <1>2 DEF Abstract!Housekeeping
<1> QED BY <1>3 DEF Abstract!Next

\* The first lock of GET.
LEMMA GetReadRefines ==
    ASSUME IInv, NEW t \in Threads, NEW k \in Keys, NEW now \in 0 .. clock, NEW at,
           GetRead(t, k, now, at)
    PROVE  Abstract!Next
<1>0. clock' = clock
  BY DEF GetRead, OneLock, ThreadStep
<1>1. CASE ~Present(k) /\ Untouched /\ Answer("get", k, now, <<>>, <<>>, Miss)
  <2>1. Abstract!MayForget({k}) /\ ~Live(k, now)
    BY <1>1, UntouchedMaps, ForgetNothing DEF Untouched, Live
  <2> QED BY <1>0, <1>1, <2>1, GetMisses
<1>2. CASE Live(k, now) /\ GetLive(k, now, at)
  BY <1>0, <1>2, GetHits
<1>3. CASE Untouched /\ out' = Silent
  BY <1>0, <1>3, SilentRefines DEF Untouched
<1> QED BY <1>1, <1>2, <1>3 DEF GetRead

\* Its second lock, which answers on the instant of the first.
LEMMA GetWriteRefines ==
    ASSUME IInv, NEW t \in Threads, GetWrite(t)
    PROVE  Abstract!Next
<1> DEFINE k   == threads[t].key
           now == threads[t].now
<1>0. clock' = clock /\ k \in Keys /\ now \in 0 .. clock
  <2>1. threads[t] \in ThreadStates /\ ThreadOK(t) /\ clock \in Nat
    BY DEF IInv
  <2>2. now \in Nat
    BY <2>1 DEF ThreadStates
  <2> QED BY <2>1, <2>2 DEF GetWrite, ThreadStep, ThreadOK
<1>1. CASE ~Present(k) /\ Untouched /\ Answer("get", k, now, <<>>, <<>>, Miss)
  <2>1. Abstract!MayForget({k}) /\ ~Live(k, now)
    BY <1>1, UntouchedMaps, ForgetNothing DEF Untouched, Live
  <2> HIDE DEF k, now
  <2> QED BY <1>0, <1>1, <2>1, GetMisses
<1>2. CASE Live(k, now) /\ GetLive(k, now, clock)
  <2> HIDE DEF k, now
  <2> QED BY <1>0, <1>2, GetHits
<1>3. CASE /\ Expired(k, now)
           /\ Store(k, Absent, -size_bytes(k, entries[k]))
           /\ Answer("get", k, now, <<>>, <<>>, Counted(0, 1, 1, 0))
  <2> HIDE DEF k, now
  <2>1. Abstract!MayForget({k}) /\ ~Live(k, now)
    BY <1>0, <1>3, RemovalForgets DEF Live, Expired
  <2> QED BY <1>0, <1>3, <2>1, GetMisses
<1> QED BY <1>1, <1>2, <1>3 DEF GetWrite

\* The insertion of SET: the instant at which it takes effect is the one at which it was
\* parsed, the deadline being counted from there.
LEMMA SetInsertRefines ==
    ASSUME IInv, CarryInv, NEW t \in Threads, SetInsert(t)
    PROVE  Abstract!Next
<1> DEFINE k == threads[t].key
           e == threads[t].entry
<1>0. /\ clock' = clock /\ clock \in Nat /\ k \in Keys /\ e \in FullEntries
      /\ e.type = "string" /\ e.expires_at \in ExpiryInstants
  <2>1. ThreadOK(t) /\ CarriesOK(t) /\ clock \in Nat /\ threads[t].pc = "insert"
    BY DEF IInv, CarryInv, SetInsert
  <2> QED BY <2>1 DEF SetInsert, ThreadStep, ThreadOK, CarriesOK
<1>1. PICK delta : Store(k, e, delta)
  BY DEF SetInsert
<1>2. Answer("set", k, clock, <<>>, <<>>, NoMetric)
  BY DEF SetInsert
<1> HIDE DEF k, e
<1>3. Abstract!Replies("set", k, <<>>, <<>>) /\ Answered'.key = {k}
  BY <1>2, AnswerMaps DEF Unanswered
<1>4. /\ Contents(e) \in Bytes
      /\ Stored' = [Stored EXCEPT ![k] = [type |-> "string", contents |-> Contents(e),
                                          deadline |-> e.expires_at]]
  BY <1>0, <1>1, StoreMaps, StringContents
<1>5. \E now \in 0 .. clock : e.expires_at \in {None} \cup {now + d : d \in Durations}
  <2>1. CASE e.expires_at = None
    <3>1. 0 \in 0 .. clock
      BY <1>0
    <3> QED BY <2>1, <3>1
  <2>2. CASE e.expires_at \in {parsed + d : parsed \in 0 .. clock, d \in Durations}
    BY <2>2
  <2> QED BY <1>0, <2>1, <2>2 DEF ExpiryInstants
<1>6. PICK now \in 0 .. clock : e.expires_at \in {None} \cup {now + d : d \in Durations}
  BY <1>5
<1>7. Abstract!Strings(k, now)
  BY <1>3, <1>4, <1>6 DEF Abstract!Strings
<1> QED BY <1>0, <1>3, <1>7, CommandIsNext

\* One key of DEL.
LEMMA DelKeyRefines ==
    ASSUME IInv, NEW t \in Threads, NEW k \in Keys, DelKey(t, k)
    PROVE  Abstract!Next
<1>0. clock' = clock
  BY DEF DelKey, ThreadStep
<1>1. Abstract!Replies("del", k, <<>>, <<>>) /\ Answered'.key = {k}
  <2>1. PICK removed : Answer("del", k, clock, <<>>, <<removed>>, NoMetric)
    BY DEF DelKey
  <2> QED BY <2>1, DelMaps
<1>2. Stored' = [Stored EXCEPT ![k] = Abstract!Nothing]
  <2>1. CASE Store(k, Absent, -size_bytes(k, entries[k]))
    BY <2>1, RemovalMaps
  <2>2. CASE ~Present(k) /\ Untouched
    BY <2>2, AbsentMaps, UntouchedMaps DEF Untouched
  <2> QED BY <2>1, <2>2 DEF DelKey
<1>3. Abstract!Delete(k)
  BY <1>1, <1>2 DEF Abstract!Delete
<1> QED BY <1>0, <1>1, <1>3, CommandIsNext

-----------------------------------------------------------------------------
(* Evictions and the sweeper *)

\* Only a server with a memory limit takes a live key away.
LEMMA EvictRefines ==
    ASSUME IInv, CarryInv, NEW t \in Threads, Evict(t)
    PROVE  Abstract!Next
<1> DEFINE k == threads[t].oldest_key
<1>0. clock' = clock /\ MaxMemory > 0
  <2>1. CarriesOK(t) /\ threads[t].pc = "sample"
    BY DEF CarryInv, Evict
  <2> QED BY <2>1 DEF Evict, ThreadStep, CarriesOK
<1>1. CASE k \in Keys /\ Store(k, Absent, -size_bytes(k, entries[k])) /\ out'.op = "evict"
  <2> HIDE DEF k
  <2>1. Answered' = Abstract!NoAnswer /\ Answered'.op = "none"
    BY <1>1, SilenceMaps DEF Unanswered
  <2>2. Stored' = [Stored EXCEPT ![k] = Abstract!Nothing]
    BY <1>1, RemovalMaps
  <2>3. Abstract!Housekeeping
    BY <1>0, <1>1, <2>1, <2>2 DEF Abstract!Housekeeping
  <2> QED BY <2>3 DEF Abstract!Next
<1>2. CASE Untouched /\ out' = Silent
  BY <1>0, <1>2, SilentRefines DEF Untouched
<1> QED BY <1>1, <1>2 DEF Evict, Silent

\* The write lock of the sweeper: what had expired at its instant is dead now.
LEMMA PurgeRefines ==
    ASSUME IInv, PurgeRemove
    PROVE  Abstract!Next
<1> DEFINE gone == StillExpired(sweeper.expired_keys, sweeper.now)
<1>0. clock \in Nat /\ sweeper.now \in Nat /\ sweeper.now <= clock /\ clock' = clock
  BY DEF IInv, SweeperStates, PurgeRemove
<1>1. out'.op = "purge" /\ entries' = [k \in Keys |-> IF k \in gone THEN Absent ELSE entries[k]]
  BY DEF PurgeRemove, Silent
<1>2. Answered' = Abstract!NoAnswer /\ Answered'.op = "none"
  BY <1>1, SilenceMaps DEF Unanswered
<1>3. gone \in SUBSET {k \in Keys : Abstract!Dead(Stored[k], clock)}
  <2>1. ASSUME NEW k \in gone
        PROVE  k \in Keys /\ Abstract!Dead(Stored[k], clock)
    <3>1. k \in Keys /\ Expired(k, sweeper.now)
      BY DEF IInv, SweeperStates, StillExpired
    <3>2. entries[k] \in FullEntries
      BY <3>1, PresentSize DEF Expired
    <3>3. entries[k].expires_at \in Nat \cup {-1}
      BY <3>2 DEF FullEntries, CacheEntries, None
    <3>4. Expired(k, clock)
      BY <1>0, <3>1, <3>3 DEF Expired, is_expired
    <3> QED BY <1>0, <3>1, <3>4, DeadIsExpired
  <2> HIDE DEF gone
  <2> QED BY <2>1
<1> HIDE DEF gone
<1>4. Stored' = [k \in Keys |-> IF k \in gone THEN Abstract!Nothing ELSE Stored[k]]
  <2>1. Stored' = [k \in Keys |-> Kept(entries'[k])]
    BY DEF Stored
  <2>2. \A k \in Keys : Kept(entries'[k]) = IF k \in gone THEN Abstract!Nothing ELSE Stored[k]
    BY <1>1, StoredSlot, KeptFacts
  <2> QED BY <2>1, <2>2
<1>5. Abstract!MayForget(Keys)
  BY <1>3, <1>4, Zenon DEF Abstract!MayForget
<1>6. Abstract!Housekeeping
  BY <1>0, <1>2, <1>5 DEF Abstract!Housekeeping
<1> QED BY <1>6 DEF Abstract!Next

-----------------------------------------------------------------------------
(* CarryInv is inductive *)

\* What the state s of a thread must satisfy, for CarryInv.
Carries(s) ==
    /\ s.pc \in {"check", "sample", "insert"} =>
         s.entry.type = "string" /\ s.entry.expires_at \in ExpiryInstants
    /\ s.pc \in {"check", "sample"} => MaxMemory > 0

\* The instants a deadline may be counted from stay when the clock advances.
LEMMA CarryKept ==
    ASSUME IInv, CarryInv, threads' = threads, clock' \in Nat, clock <= clock'
    PROVE  CarryInv'
<1>1. ExpiryInstants \subseteq ExpiryInstants'
  <2>1. 0 .. clock \subseteq 0 .. clock'
    BY DEF IInv
  <2> QED BY <2>1 DEF ExpiryInstants
<1>2. ASSUME NEW t \in Threads
      PROVE  CarriesOK(t)'
  <2>1. CarriesOK(t)
    BY DEF CarryInv
  <2> QED BY <1>1, <2>1 DEF CarriesOK
<1> QED BY <1>2 DEF CarryInv

\* A thread's own step.
LEMMA CarryStep ==
    ASSUME IInv, CarryInv, NEW t \in Threads, NEW s, ThreadStep(t, s), Carries(s)
    PROVE  CarryInv'
<1>1. ExpiryInstants' = ExpiryInstants
  BY DEF ThreadStep, ExpiryInstants
<1>2. ASSUME NEW u \in Threads
      PROVE  CarriesOK(u)'
  <2>1. CASE u = t
    <3>1. threads'[u] = s
      BY <2>1 DEF IInv, ThreadStep
    <3> QED BY <1>1, <3>1 DEF CarriesOK, Carries
  <2>2. CASE u # t
    <3>1. threads'[u] = threads[u] /\ CarriesOK(u)
      BY <2>2 DEF IInv, ThreadStep, CarryInv
    <3> QED BY <1>1, <3>1 DEF CarriesOK
  <2> QED BY <2>1, <2>2
<1> QED BY <1>2 DEF CarryInv

\* Idle carries nothing.
LEMMA CarryIdle ==
    /\ Carries(Idle)
    /\ \A k : Carries([Idle EXCEPT !.pc = "get", !.key = k])
  BY DEF Carries, Idle

\* A step of a thread.
LEMMA ThreadCarries ==
    ASSUME IInv, CarryInv, NEW t \in Threads, ThreadNext(t)
    PROVE  CarryInv'
<1>0. threads[t] \in ThreadStates /\ clock \in Nat /\ CarriesOK(t)
  BY DEF IInv, CarryInv
<1>1. ASSUME OneLock
      PROVE  CarryInv'
  BY <1>0, <1>1, CarryKept DEF OneLock
<1>2. ASSUME NEW k, NEW now, ThreadStep(t, [Idle EXCEPT !.pc = "get", !.key = k, !.now = now])
      PROVE  CarryInv'
  <2>1. Carries([Idle EXCEPT !.pc = "get", !.key = k, !.now = now])
    BY DEF Carries, Idle
  <2> QED BY <1>2, <2>1, CarryStep
<1>3. ASSUME ThreadStep(t, Idle)
      PROVE  CarryInv'
  BY <1>3, CarryIdle, CarryStep
<1>4. ASSUME NEW k \in Keys, NEW now \in 0 .. clock, NEW at, GetRead(t, k, now, at)
      PROVE  CarryInv'
  BY <1>1, <1>2, <1>4 DEF GetRead
<1>5. ASSUME GetWrite(t)
      PROVE  CarryInv'
  BY <1>3, <1>5 DEF GetWrite
<1>6. ASSUME NEW k \in Keys, NEW b \in Bytes, NEW expires_at \in ExpiryInstants,
             SetCall(t, k, b, expires_at)
      PROVE  CarryInv'
  <2> DEFINE s == [Idle EXCEPT !.pc = IF MaxMemory > 0 THEN "check" ELSE "insert",
                               !.key = k,
                               !.entry = new("string", <<b>>, expires_at, clock)]
  <2>1. /\ s.pc = IF MaxMemory > 0 THEN "check" ELSE "insert"
        /\ s.entry = new("string", <<b>>, expires_at, clock)
    BY DEF Idle
  <2>2. ThreadStep(t, s)
    BY <1>6 DEF SetCall
  <2> HIDE DEF s
  <2>3. Carries(s)
    BY <2>1 DEF Carries, new
  <2> QED BY <2>2, <2>3, CarryStep
<1>7. ASSUME NEW s, ThreadStep(t, s), s.entry = threads[t].entry,
             threads[t].pc = "check" \/ threads[t].pc = "sample"
      PROVE  CarryInv'
  <2>1. Carries(s)
    BY <1>0, <1>7 DEF Carries, CarriesOK
  <2> QED BY <1>7, <2>1, CarryStep
<1>8. ASSUME EnsureCapacity(t)
      PROVE  CarryInv'
  <2> DEFINE a == [threads[t] EXCEPT !.pc = "sample", !.left = LRU_SAMPLE_SIZE,
                                     !.oldest_key = NoKey, !.oldest_time = 0]
             b == [threads[t] EXCEPT !.pc = "insert"]
  <2>1. a.entry = threads[t].entry /\ b.entry = threads[t].entry
    BY <1>0 DEF ThreadStates
  <2>2. threads[t].pc = "check" /\ (ThreadStep(t, a) \/ ThreadStep(t, b))
    BY <1>8 DEF EnsureCapacity
  <2> HIDE DEF a, b
  <2> QED BY <1>7, <2>1, <2>2
<1>9. ASSUME NEW s \in Shards, SampleShard(t, s)
      PROVE  CarryInv'
  <2>0. threads[t].pc = "sample"
    BY <1>9 DEF SampleShard
  <2>1. CASE ThreadStep(t, [threads[t] EXCEPT !.left = @ - 1])
    <3> DEFINE a == [threads[t] EXCEPT !.left = @ - 1]
    <3>1. a.entry = threads[t].entry
      BY <1>0 DEF ThreadStates
    <3> HIDE DEF a
    <3> QED BY <1>7, <2>0, <2>1, <3>1 DEF a
  <2>2. ASSUME NEW k, ThreadStep(t, [threads[t] EXCEPT !.left = @ - 1, !.oldest_key = k,
                                       !.oldest_time = entries[k].last_accessed])
        PROVE  CarryInv'
    <3> DEFINE a == [threads[t] EXCEPT !.left = @ - 1, !.oldest_key = k,
                                       !.oldest_time = entries[k].last_accessed]
    <3>1. a.entry = threads[t].entry
      BY <1>0 DEF ThreadStates
    <3>2. ThreadStep(t, a)
      BY <2>2
    <3> HIDE DEF a
    <3> QED BY <1>7, <2>0, <3>1, <3>2
  <2> QED BY <1>9, <2>1, <2>2 DEF SampleShard
<1>10. ASSUME Evict(t)
       PROVE  CarryInv'
  <2> DEFINE a == [threads[t] EXCEPT !.pc = "check", !.oldest_key = NoKey, !.oldest_time = 0]
             b == [threads[t] EXCEPT !.pc = "insert", !.oldest_key = NoKey, !.oldest_time = 0]
  <2>1. a.entry = threads[t].entry /\ b.entry = threads[t].entry
    BY <1>0 DEF ThreadStates
  <2>2. threads[t].pc = "sample" /\ (ThreadStep(t, a) \/ ThreadStep(t, b))
    BY <1>10 DEF Evict
  <2> HIDE DEF a, b
  <2> QED BY <1>7, <2>1, <2>2
<1>11. ASSUME SetInsert(t)
       PROVE  CarryInv'
  BY <1>3, <1>11 DEF SetInsert
<1>12. ASSUME NEW ks, DelCall(t, ks)
       PROVE  CarryInv'
  <2> DEFINE s == [Idle EXCEPT !.pc = "del", !.todo = ks]
  <2>1. s.pc = "del"
    BY DEF Idle
  <2>2. ThreadStep(t, s)
    BY <1>12 DEF DelCall
  <2> HIDE DEF s
  <2>3. Carries(s)
    BY <2>1 DEF Carries
  <2> QED BY <2>2, <2>3, CarryStep
<1>13. ASSUME NEW k \in Keys, DelKey(t, k)
       PROVE  CarryInv'
  <2>1. PICK removed : ThreadStep(t, IF threads[t].todo = {k} THEN Idle
                         ELSE [threads[t] EXCEPT !.todo = @ \ {k}, !.removed = removed])
    BY <1>13 DEF DelKey
  <2> DEFINE s == [threads[t] EXCEPT !.todo = @ \ {k}, !.removed = removed]
  <2>2. s.pc = "del"
    BY <1>0, <1>13 DEF ThreadStates, DelKey
  <2>3. ThreadStep(t, Idle) \/ ThreadStep(t, s)
    BY <2>1
  <2> HIDE DEF s
  <2>4. Carries(s)
    BY <2>2 DEF Carries
  <2> QED BY <1>3, <2>3, <2>4, CarryStep
<1> QED BY <1>4, <1>5, <1>6, <1>8, <1>9, <1>10, <1>11, <1>12, <1>13 DEF ThreadNext

\* CarryInv holds at the start: nobody is inside a method.
LEMMA CarryInit == Init => CarryInv
<1> SUFFICES ASSUME Init, NEW t \in Threads
             PROVE  CarriesOK(t)
  BY DEF CarryInv
<1>1. threads[t].pc = "idle"
  BY DEF Init, Idle
<1> QED BY <1>1 DEF CarriesOK

\* Every step preserves it: a command under one lock and the sweeper leave the threads alone,
\* and the clock only advances.
LEMMA CarryNext == IInv /\ CarryInv /\ [Next]_vars => CarryInv'
<1> SUFFICES ASSUME IInv, CarryInv, [Next]_vars
             PROVE  CarryInv'
  OBVIOUS
<1>0. clock \in Nat
  BY DEF IInv
<1>1. CASE threads' = threads /\ clock' = clock
  BY <1>0, <1>1, CarryKept
<1>2. ASSUME NEW k \in Keys, Command(k)
      PROVE  OneLock
  <2>1. ASSUME NEW now, WriteCommand(k, now)
        PROVE  OneLock
    <3>1. \A els : lpush(k, els, now) \/ rpush(k, els, now) => OneLock
      BY DEF lpush, rpush, Grow
    <3>2. \A fields : hset(k, fields, now) \/ sadd(k, fields, now) => OneLock
      BY DEF hset, sadd, Grow
    <3>3. lpop(k, now) \/ rpop(k, now) => OneLock
      BY DEF lpop, rpop, Shrink
    <3>4. \A fields : hdel(k, fields, now) \/ srem(k, fields, now) => OneLock
      BY DEF hdel, srem, Shrink
    <3> QED BY <2>1, <3>1, <3>2, <3>3, <3>4 DEF WriteCommand
  <2>2. ASSUME NEW now, NEW at, ReadCommand(k, now, at)
        PROVE  OneLock
    BY <2>2 DEF ReadCommand, lrange, hget, hgetall, smembers, sismember, ttl, Read
  <2>3. \A duration : expire(k, duration) => OneLock
    BY DEF expire
  <2> QED BY <1>2, <2>1, <2>2, <2>3 DEF Command
<1>3. ASSUME SweeperNext
      PROVE  threads' = threads /\ clock' = clock
  BY <1>3 DEF SweeperNext, SweeperTick, PurgeSample, PurgeRemove
<1>4. CASE Tick
  <2>1. threads' = threads /\ clock' \in Nat /\ clock <= clock'
    BY <1>0, <1>4 DEF Tick
  <2> QED BY <2>1, CarryKept
<1> QED BY <1>1, <1>2, <1>3, <1>4, ThreadCarries DEF Next, vars, OneLock

-----------------------------------------------------------------------------
(* The refinement *)

\* The first state.
LEMMA InitRefines == Init => Abstract!Init
<1> SUFFICES ASSUME Init
             PROVE  Abstract!Init
  OBVIOUS
<1>1. Stored = [k \in Keys |-> Abstract!Nothing]
  BY KeptFacts DEF Init, Stored
<1>2. Answered = Abstract!NoAnswer
  BY DEF Init, Silent, Answered, Abstract!NoAnswer
<1> QED BY <1>1, <1>2 DEF Init, Abstract!Init

\* A client's command under one lock.
LEMMA CommandRefines ==
    ASSUME IInv, NEW k \in Keys, Command(k)
    PROVE  Abstract!Next
<1>1. ASSUME NEW now \in 0 .. clock, WriteCommand(k, now)
      PROVE  Abstract!Next
  BY <1>1, LpushRefines, RpushRefines, HsetRefines, SaddRefines, LpopRefines, RpopRefines,
     HdelRefines, SremRefines DEF WriteCommand
<1>2. ASSUME NEW now \in 0 .. clock, NEW at, ReadCommand(k, now, at)
      PROVE  Abstract!Next
  <2>1. CASE ttl("ttl", 1000, k, now) \/ ttl("pttl", 1, k, now)
    BY <2>1, TtlRefines
  <2> QED BY <1>2, <2>1, LrangeRefines, HgetRefines, HgetallRefines, SmembersRefines,
             SismemberRefines DEF ReadCommand
<1> QED BY <1>1, <1>2, ExpireRefines DEF Command

\* Every step but a stuttering one is a step of the abstract key space.
LEMMA NextRefines ==
    ASSUME IInv, CarryInv, Next
    PROVE  Abstract!Next
<1>1. ASSUME NEW t \in Threads, ThreadNext(t)
      PROVE  Abstract!Next
  <2>1. ASSUME Untouched, out' = Silent, clock' = clock
        PROVE  Abstract!Next
    BY <2>1, SilentRefines DEF Untouched
  <2>2. ASSUME NEW k \in Keys, NEW b \in Bytes, NEW expires_at, SetCall(t, k, b, expires_at)
        PROVE  Abstract!Next
    BY <2>1, <2>2 DEF SetCall, ThreadStep
  <2>3. ASSUME EnsureCapacity(t)
        PROVE  Abstract!Next
    BY <2>1, <2>3 DEF EnsureCapacity, ThreadStep
  <2>4. ASSUME NEW s \in Shards, SampleShard(t, s)
        PROVE  Abstract!Next
    BY <2>1, <2>4 DEF SampleShard, ThreadStep
  <2>5. ASSUME NEW ks, DelCall(t, ks)
        PROVE  Abstract!Next
    BY <2>1, <2>5 DEF DelCall, ThreadStep
  <2> QED BY <1>1, <2>2, <2>3, <2>4, <2>5, GetReadRefines, GetWriteRefines, EvictRefines,
             SetInsertRefines, DelKeyRefines DEF ThreadNext
<1>2. ASSUME SweeperNext
      PROVE  Abstract!Next
  <2>1. ASSUME Untouched, out' = Silent, clock' = clock
        PROVE  Abstract!Next
    BY <2>1, SilentRefines DEF Untouched
  <2> QED BY <1>2, <2>1, PurgeRefines DEF SweeperNext, SweeperTick, PurgeSample
<1>3. CASE Tick
  <2>1. Answered' = Abstract!NoAnswer /\ Answered'.op = "none"
    BY <1>3, SilenceMaps DEF Tick, Silent, Unanswered
  <2>2. Stored' = Stored
    BY <1>3, UntouchedMaps DEF Tick
  <2>3. Abstract!Tick
    BY <1>3, <2>1, <2>2 DEF Tick, Abstract!Tick
  <2> QED BY <2>3 DEF Abstract!Next
<1> QED BY <1>1, <1>2, <1>3, CommandRefines DEF Next

\* What is seen does not change when nothing does.
LEMMA StutterRefines == UNCHANGED vars => UNCHANGED Abstract!vars
<1> SUFFICES ASSUME UNCHANGED vars
             PROVE  UNCHANGED Abstract!vars
  OBVIOUS
<1>1. entries' = entries /\ clock' = clock /\ out' = out
  BY DEF vars
<1>2. Answered' = Answered
  BY <1>1 DEF Answered, Said
<1> QED BY <1>1, <1>2, UntouchedMaps DEF Abstract!vars

\* Db implements Keyspace: every method of db.rs, although several release a lock in the
\* middle, takes effect at one instant on the keys visible then; an expired entry is never
\* seen, whether or not get, a command or the sweeper has removed it; and only an eviction
\* takes away a live key nobody asked to delete.
THEOREM DbImplementsKeyspace == Spec => ImplementsKeyspace
<1>1. IInv /\ CarryInv /\ [Next]_vars => [Abstract!Next]_(Abstract!vars)
  BY NextRefines, StutterRefines
<1>2. IInv /\ CarryInv /\ [Next]_vars => [Abstract!Next]_vars
  BY NextRefines
<1>3. Spec => []IInv
  BY Invariance
<1>4. Spec => []CarryInv
  BY <1>3, CarryInit, CarryNext, PTL DEF Spec
<1> QED BY <1>1, <1>2, <1>3, <1>4, InitRefines, PTL DEF Spec, ImplementsKeyspace, Abstract!Spec
=============================================================================
