----------------------------- MODULE AofProofs -----------------------------
(***************************************************************************)
(* Theorems about Aof, for every set of keys, payloads and connections,    *)
(* every capacity of the channel and any number of commands, crashes and   *)
(* restarts.                                                               *)
(***************************************************************************)
EXTENDS Aof, SequenceTheorems, WellFoundedInduction, TLAPS

-----------------------------------------------------------------------------
(* Recursion over the records of a log *)

\* A set of naturals has a least one: the form of induction used below, a least
\* counterexample.
LEMMA LeastNat ==
    ASSUME NEW T \in SUBSET Nat, T # {}
    PROVE  \E m \in T : \A n \in T : m <= n
<1> DEFINE R == OpToRel(<, Nat)
<1>1. IsWellFoundedOn(R, Nat)
  BY NatLessThanWellFounded
<1>2. \A n, m \in Nat : n < m => <<n, m>> \in R
  <2> SUFFICES ASSUME NEW n \in Nat, NEW m \in Nat, n < m
               PROVE  <<n, m>> \in {ss \in Nat \X Nat : ss[1] < ss[2]}
    BY Zenon DEF OpToRel
  <2> QED OBVIOUS
<1> HIDE DEF R
<1>3. PICK m \in T : \A n \in T : ~(<<n, m>> \in R)
  BY <1>1, WFMin
<1>4. ASSUME NEW n \in T
      PROVE  m <= n
  <2>1. ~(n < m)
    BY <1>2, <1>3
  <2> QED BY <2>1
<1> QED BY <1>4

\* g holds the values of the steps G[1] .. G[N] taken one after the other from b.
Iteration(g, N, S, b, G) ==
    /\ g \in [0 .. N -> S]
    /\ g[0] = b
    /\ \A n \in 1 .. N : g[n] = G[n][g[n - 1]]

\* Such values exist and stay in S when every step does.
LEMMA Iterates ==
    ASSUME NEW N \in Nat, NEW S, NEW b \in S, NEW G \in [1 .. N -> [S -> S]]
    PROVE  \E g : Iteration(g, N, S, b, G)
<1> DEFINE Good(m) == \E g \in [0 .. m -> S] : g[0] = b /\ \A n \in 1 .. m : g[n] = G[n][g[n - 1]]
           T == {m \in 0 .. N : ~Good(m)}
<1>1. Good(0)
  <2> DEFINE g == [n \in 0 .. 0 |-> b]
  <2>1. g \in [0 .. 0 -> S] /\ g[0] = b /\ \A n \in 1 .. 0 : g[n] = G[n][g[n - 1]]
    OBVIOUS
  <2> QED BY <2>1
<1>2. ASSUME NEW m \in 1 .. N, Good(m - 1)
      PROVE  Good(m)
  <2>1. PICK h \in [0 .. m - 1 -> S] : h[0] = b /\ \A n \in 1 .. m - 1 : h[n] = G[n][h[n - 1]]
    BY <1>2
  <2> DEFINE g == [n \in 0 .. m |-> IF n = m THEN G[m][h[m - 1]] ELSE h[n]]
  <2>2. G[m] \in [S -> S] /\ h[m - 1] \in S
    OBVIOUS
  <2>3. g \in [0 .. m -> S]
    BY <2>2
  <2>4. g[0] = b
    BY <2>1
  <2>5. ASSUME NEW n \in 1 .. m
        PROVE  g[n] = G[n][g[n - 1]]
    BY <2>1
  <2> HIDE DEF g
  <2> QED BY <2>3, <2>4, <2>5
<1> HIDE DEF Good
<1>3. T = {}
  <2> SUFFICES ASSUME T # {}
               PROVE  FALSE
    OBVIOUS
  <2>1. T \in SUBSET Nat /\ \A n \in 0 .. N : n \in T <=> ~Good(n)
    OBVIOUS
  <2>2. T \subseteq 0 .. N
    OBVIOUS
  <2> HIDE DEF T
  <2>3. PICK m \in T : \A n \in T : m <= n
    BY <2>1, LeastNat
  <2>4. m \in 0 .. N /\ ~Good(m)
    BY <2>1, <2>2
  <2>5. m # 0
    BY <1>1, <2>4
  <2>6. m \in 1 .. N /\ m - 1 \in 0 .. N /\ ~(m <= m - 1)
    BY <2>4, <2>5
  <2>7. Good(m - 1)
    BY <2>1, <2>3, <2>6
  <2> QED BY <1>2, <2>4, <2>6, <2>7
<1>4. N \in 0 .. N
  OBVIOUS
<1>5. Good(N)
  BY <1>3, <1>4
<1> QED BY <1>5 DEF Good, Iteration

\* A sequence of positive length has elements.
LEMMA NonEmpty ==
    ASSUME NEW B, NEW s \in Seq(B), Len(s) # 0
    PROVE  s # <<>>
<1>1. Len(<< >>) = 0
  OBVIOUS
<1> QED BY <1>1

-----------------------------------------------------------------------------
(* What commands do to the database *)

\* What a key may hold: no list is ever empty, since LPOP removes the key with its last
\* element.
DbSlots == {e \in CacheEntries : e.type = "list" => e.data # <<>>} \cup {Absent}
Dbs == [Keys -> DbSlots]

\* The ways an entry comes into being or changes.
LEMMA EntryTypes ==
    ASSUME NEW b \in Bytes, NEW exp \in Nat \cup {None}
    PROVE  /\ Absent \in DbSlots
           /\ new("string", <<b>>, exp, 0) \in DbSlots
           /\ new("list", <<b>>, exp, 0) \in DbSlots
<1> DEFINE d == <<b>>
<1>1. d \in Seq(Bytes) /\ Len(d) = 1 /\ d # <<>>
  OBVIOUS
<1> HIDE DEF d
<1>2. d \in DataOf("string") /\ d \in DataOf("list") /\ d \in Data
  BY <1>1 DEF DataOf, Data
<1>3. /\ new("string", d, exp, 0) \in [type : DataTypes, data : Data, expires_at : Nat \cup {None},
                                       last_accessed : Nat]
      /\ new("list", d, exp, 0) \in [type : DataTypes, data : Data, expires_at : Nat \cup {None},
                                     last_accessed : Nat]
  BY <1>2 DEF new, DataTypes, CollectionTypes
<1>4. /\ new("string", d, exp, 0).type = "string" /\ new("string", d, exp, 0).data = d
      /\ new("list", d, exp, 0).type = "list" /\ new("list", d, exp, 0).data = d
  BY DEF new
<1>5. new("string", d, exp, 0) \in CacheEntries /\ new("list", d, exp, 0) \in CacheEntries
  BY <1>2, <1>3, <1>4 DEF CacheEntries
<1> QED BY <1>1, <1>4, <1>5 DEF DbSlots, d

\* A slot is an entry or the absent one.
LEMMA SlotFacts ==
    ASSUME NEW e \in DbSlots
    PROVE  /\ e \in CacheEntries \/ e = Absent
           /\ e.type = "list" => e.data \in Seq(Bytes) /\ e.data # <<>> /\ e \in CacheEntries
           /\ e.type = "none" <=> e = Absent
<1>1. Absent.type = "none"
  BY DEF Absent
<1>2. \A x \in CacheEntries : x.type \in DataTypes /\ x.data \in DataOf(x.type)
  BY DEF CacheEntries
<1>3. DataOf("list") = Seq(Bytes)
  BY DEF DataOf
<1> QED BY <1>1, <1>2, <1>3 DEF DbSlots, DataTypes, CollectionTypes

\* EXPIRE stores a deadline and nothing else.
LEMMA ExpireType ==
    ASSUME NEW e \in DbSlots, e # Absent, NEW exp \in Nat \cup {None}
    PROVE  [e EXCEPT !.expires_at = exp] \in DbSlots
<1>1. e \in CacheEntries /\ (e.type = "list" => e.data # <<>>)
  BY DEF DbSlots
<1> QED BY <1>1 DEF CacheEntries, DbSlots

\* RPUSH and LPOP store another list.
LEMMA ListType ==
    ASSUME NEW e \in DbSlots, e.type = "list", NEW d \in Seq(Bytes), d # <<>>
    PROVE  [e EXCEPT !.data = d] \in DbSlots
<1>1. e \in CacheEntries
  BY SlotFacts
<1>2. d \in Data /\ d \in DataOf("list")
  BY DEF Data, DataOf
<1> QED BY <1>1, <1>2 DEF CacheEntries, DbSlots

\* Every command leaves a slot in its key.
LEMMA EffectType ==
    ASSUME NEW e \in DbSlots, NEW cmd \in AnyCommand, NEW parsed \in Nat, NEW now \in Nat
    PROVE  Effect(e, cmd, parsed, now) \in DbSlots
<1> DEFINE found == Found(e, now)
<1>1. cmd.op \in Ops /\ cmd.value \in Bytes /\ cmd.ttl \in Nat \cup {None}
  BY DEF AnyCommand
<1>2. Deadline(cmd.ttl, parsed) \in Nat \cup {None} /\ Deadline(cmd.ttl, now) \in Nat \cup {None}
  BY <1>1 DEF Deadline, None
<1>3. Absent \in DbSlots /\ None \in Nat \cup {None}
  BY <1>1, EntryTypes
<1>4. found \in DbSlots
  BY <1>3 DEF Found
<1>5. SetEffect(cmd, parsed) \in DbSlots
  BY <1>1, <1>2, EntryTypes DEF SetEffect
<1> HIDE DEF found
<1>6. ExpireEffect(found, cmd, now) \in DbSlots
  BY <1>2, <1>3, <1>4, ExpireType DEF ExpireEffect
<1>7. RpushEffect(found, cmd) \in DbSlots
  <2>1. CASE found = Absent
    <3>1. RpushEffect(found, cmd) = new("list", <<cmd.value>>, None, 0)
      BY <2>1 DEF RpushEffect, Absent
    <3> QED BY <1>1, <1>3, <3>1, EntryTypes
  <2>2. CASE found # Absent /\ found.type = "list"
    <3>1. found.data \in Seq(Bytes)
      BY <1>4, <2>2, SlotFacts
    <3> DEFINE d == Append(found.data, cmd.value)
    <3>2. d \in Seq(Bytes) /\ d # <<>>
      BY <1>1, <3>1
    <3>3. RpushEffect(found, cmd) = [found EXCEPT !.data = d]
      BY <2>2 DEF RpushEffect
    <3> HIDE DEF d
    <3> QED BY <1>4, <2>2, <3>2, <3>3, ListType
  <2>3. CASE found # Absent /\ found.type # "list"
    BY <1>4, <2>3 DEF RpushEffect
  <2> QED BY <2>1, <2>2, <2>3
<1>8. LpopEffect(found) \in DbSlots
  <2>1. CASE found.type # "list"
    BY <1>4, <2>1 DEF LpopEffect
  <2>2. CASE found.type = "list" /\ Len(found.data) = 1
    BY <1>3, <2>2 DEF LpopEffect
  <2>3. CASE found.type = "list" /\ Len(found.data) # 1
    <3>1. found.data \in Seq(Bytes) /\ found.data # <<>>
      BY <1>4, <2>3, SlotFacts
    <3> DEFINE d == Tail(found.data)
    <3>2. d \in Seq(Bytes) /\ d # <<>>
      <4>1. Len(found.data) \in Nat /\ Len(found.data) # 0
        BY <3>1
      <4>2. d \in Seq(Bytes) /\ Len(d) = Len(found.data) - 1
        BY <3>1
      <4>3. Len(d) # 0
        BY <2>3, <4>1, <4>2
      <4>4. d # <<>>
        BY <4>2, <4>3, NonEmpty
      <4> QED BY <4>2, <4>4
    <3>3. LpopEffect(found) = [found EXCEPT !.data = d]
      BY <2>3 DEF LpopEffect
    <3> HIDE DEF d
    <3> QED BY <1>4, <2>3, <3>2, <3>3, ListType
  <2> QED BY <2>1, <2>2, <2>3
<1> QED BY <1>1, <1>3, <1>4, <1>5, <1>6, <1>7, <1>8 DEF Effect, Ops, found

\* A command changes its key and leaves a database.
LEMMA AppliedType ==
    ASSUME NEW d \in Dbs, NEW cmd \in AnyCommand, NEW parsed \in Nat, NEW now \in Nat
    PROVE  Applied(d, cmd, parsed, now) \in Dbs
<1>1. cmd.key \in Keys
  BY DEF AnyCommand
<1>2. d[cmd.key] \in DbSlots
  BY <1>1 DEF Dbs
<1>3. Effect(d[cmd.key], cmd, parsed, now) \in DbSlots
  BY <1>2, EffectType
<1> QED BY <1>1, <1>3 DEF Applied, Dbs

\* The database a process starts from is well typed.
LEMMA EmptyType == EmptyDb \in Dbs
<1>1. Absent \in DbSlots
  BY DEF DbSlots
<1> QED BY <1>1 DEF EmptyDb, Dbs

\* What a step of the replay does.
ReplayStep(f, positions, now, n, d) ==
    IF n \in positions THEN Applied(d, f[n].cmd, now, now) ELSE d

\* The recursion of load has a value: it takes the database from one record to the next.
LEMMA ReplaySteps ==
    ASSUME NEW f \in Seq(Records \cup {Flush}), NEW positions, NEW now \in Nat,
           \A n \in positions : f[n] \in Records
    PROVE  \E g \in [0 .. Len(f) -> Dbs] :
             /\ g[0] = EmptyDb
             /\ \A n \in 1 .. Len(f) : g[n] = ReplayStep(f, positions, now, n, g[n - 1])
             /\ Replay(f, positions, now) = g[Len(f)]
<1> DEFINE N == Len(f)
           S(n, d) == ReplayStep(f, positions, now, n, d)
           F(h) == [n \in 0 .. N |-> IF n = 0 THEN EmptyDb ELSE S(n, h[n - 1])]
           after == CHOOSE h : h = F(h)
<1>1. N \in Nat
  OBVIOUS
<1>2. ASSUME NEW n \in 1 .. N, NEW d \in Dbs
      PROVE  S(n, d) \in Dbs
  <2>1. CASE n \in positions
    <3>1. f[n].cmd \in AnyCommand
      BY <2>1 DEF Records
    <3> QED BY <2>1, <3>1, AppliedType DEF ReplayStep
  <2>2. CASE n \notin positions
    BY <2>2 DEF ReplayStep
  <2> QED BY <2>1, <2>2
<1> HIDE DEF N, S
<1>3. PICK g \in [0 .. N -> Dbs] : g[0] = EmptyDb /\ \A n \in 1 .. N : g[n] = S(n, g[n - 1])
  <2> DEFINE G == [n \in 1 .. N |-> [d \in Dbs |-> S(n, d)]]
  <2>1. G \in [1 .. N -> [Dbs -> Dbs]]
    BY <1>2
  <2>2. PICK g : Iteration(g, N, Dbs, EmptyDb, G)
    <3> HIDE DEF G
    <3> QED BY <1>1, <2>1, EmptyType, Iterates
  <2>3. g \in [0 .. N -> Dbs] /\ g[0] = EmptyDb /\ \A n \in 1 .. N : g[n] = G[n][g[n - 1]]
    <3> HIDE DEF G
    <3> QED BY <2>2 DEF Iteration
  <2>4. ASSUME NEW n \in 1 .. N
        PROVE  g[n] = S(n, g[n - 1])
    <3>1. n - 1 \in 0 .. N
      BY <1>1
    <3>2. g[n - 1] \in Dbs
      BY <2>3, <3>1
    <3> QED BY <2>3, <3>2
  <2> QED BY <2>3, <2>4
<1>4. g = F(g)
  BY <1>1, <1>3
<1>5. after = F(after)
  <2> HIDE DEF F
  <2> QED BY <1>4
<1>6. Replay(f, positions, now) = after[N]
  BY DEF Replay, N, S, ReplayStep
<1> HIDE DEF after
<1>7. after[0] = EmptyDb /\ \A n \in 1 .. N : after[n] = S(n, after[n - 1])
  BY <1>1, <1>5
<1>8. after \in [0 .. N -> Dbs]
  <2> DEFINE T == {n \in 0 .. N : after[n] \notin Dbs}
  <2>1. T = {}
    <3> SUFFICES ASSUME T # {}
                 PROVE  FALSE
      OBVIOUS
    <3>1. T \in SUBSET Nat
      BY <1>1
    <3>2. PICK m \in T : \A n \in T : m <= n
      <4> HIDE DEF T
      <4> QED BY <3>1, LeastNat
    <3>3. m \in 0 .. N /\ after[m] \notin Dbs /\ m # 0
      BY <1>7, EmptyType
    <3>4. m \in 1 .. N /\ m - 1 \in 0 .. N /\ ~(m <= m - 1)
      BY <1>1, <3>3
    <3>5. after[m - 1] \in Dbs
      BY <3>2, <3>4
    <3> QED BY <1>2, <1>7, <3>3, <3>4, <3>5
  <2>2. \A n \in 0 .. N : after[n] \in Dbs
    BY <2>1
  <2>3. after = [n \in 0 .. N |-> after[n]]
    BY <1>5
  <2> QED BY <2>2, <2>3
<1> QED BY <1>6, <1>7, <1>8 DEF N, S

-----------------------------------------------------------------------------
(* The inductive invariants *)

\* A connection past its read holds a command; it answers a write command the database
\* has taken.
ConnOK(conn, taken) ==
    /\ conn.pc \in {"record", "apply", "reply"} => conn.msg \in Records
    /\ conn.pc = "reply" /\ is_write(conn.msg.cmd) => conn.msg.id \in taken

\* The type invariant, strengthened to be inductive.
TInv ==
    /\ db \in Dbs
    /\ clock \in Nat
    /\ conns \in [Conns -> ConnStates]
    /\ \A c \in Conns : ConnOK(conns[c], applied)
    /\ rx \in Seq(Records \cup {Flush})
    /\ Len(rx) <= AOF_CHANNEL
    /\ buf \in Seq(Records)
    /\ file \in Seq(Records)
    /\ synced \in 0 .. Len(file)
    /\ writer \in {"opening", "open", "dead"}
    /\ server \in ServerStates
    /\ applied \subseteq Nat
    /\ answered \subseteq applied
    /\ due \subseteq Nat

\* The commands of the log.
Recorded == Ids(file) \cup Ids(buf) \cup Ids(rx)

\* A command that is about to be applied has been recorded.
AboutOK(conn, recorded) ==
    conn.pc = "apply" /\ is_write(conn.msg.cmd) => conn.msg.id \in recorded

\* A Flush in the channel is behind every command that was due when it was sent.
FlushOK(s, ahead, owed) ==
    \A j \in DOMAIN s : s[j] = Flush => owed \subseteq ahead \cup {s[i].id : i \in 1 .. j - 1}

\* Before main sends its Flush there is none, and no answer to one.
NoFlush(s, main) ==
    main.pc \in {"running", "syncing"}
      => ~main.replied /\ \A j \in DOMAIN s : s[j] # Flush

OnDisk(f, n) == {f[i].id : i \in 1 .. n}

\* What a disk that does not fail keeps true of the log.
LInv ==
    /\ ~Up => rx = <<>> /\ buf = <<>>
    /\ Up => applied \subseteq Recorded
    /\ Up => \A c \in Conns : AboutOK(conns[c], Recorded)
    /\ Up /\ writer = "dead" => server.pc = "done" /\ \A c \in Conns : conns[c].pc = "gone"
    /\ NoFlush(rx, server)
    /\ Up => FlushOK(rx, Ids(file) \cup Ids(buf), due)
    /\ server.pc = "done" => server.replied
    /\ Up /\ server.replied => due \subseteq OnDisk(file, synced)

-----------------------------------------------------------------------------
(* Type correctness *)

\* The invariant gives what the run checks.
LEMMA TInvGivesTypes == TInv => TypeOK
<1> SUFFICES ASSUME TInv
             PROVE  TypeOK
  OBVIOUS
<1>1. ASSUME NEW k \in Keys
      PROVE  db[k].type = "none" \/ db[k] \in CacheEntries
  <2>1. db[k] \in DbSlots
    BY DEF TInv, Dbs
  <2> QED BY <2>1, SlotFacts
<1> QED BY <1>1 DEF TInv, TypeOK

\* The states a connection task moves to.
LEMMA ConnTypes ==
    ASSUME NEW conn \in ConnStates
    PROVE  /\ Reading \in ConnStates /\ Reading.pc = "read"
           /\ Gone \in ConnStates /\ Gone.pc = "gone"
           /\ \A pc \in {"apply", "reply"} :
                /\ [conn EXCEPT !.pc = pc] \in ConnStates
                /\ [conn EXCEPT !.pc = pc].pc = pc
                /\ [conn EXCEPT !.pc = pc].msg = conn.msg
BY DEF ConnStates, Reading, Gone, NoCommand

\* What a step of one connection leaves true of all of them.
LEMMA ConnStepTypes ==
    ASSUME TInv, NEW c \in Conns, NEW state \in ConnStates, ConnStep(c, state),
           applied \subseteq applied', ConnOK(state, applied')
    PROVE  conns' \in [Conns -> ConnStates] /\ \A d \in Conns : ConnOK(conns'[d], applied')
<1>1. conns \in [Conns -> ConnStates] /\ conns' = [conns EXCEPT ![c] = state]
  BY DEF TInv, ConnStep
<1>2. conns' \in [Conns -> ConnStates]
  BY <1>1
<1>3. ASSUME NEW d \in Conns
      PROVE  ConnOK(conns'[d], applied')
  <2>1. CASE d = c
    <3>1. conns'[d] = state
      BY <1>1, <2>1
    <3> QED BY <3>1
  <2>2. CASE d # c
    <3>1. conns'[d] = conns[d] /\ ConnOK(conns[d], applied)
      BY <1>1, <2>2 DEF TInv
    <3> QED BY <3>1 DEF ConnOK
  <2> QED BY <2>1, <2>2
<1> QED BY <1>2, <1>3

\* A record is never a Flush.
LEMMA RecordFacts ==
    ASSUME NEW r \in Records
    PROVE  r # Flush /\ r.id \in Nat \ {0} /\ r.cmd \in AnyCommand /\ r.torn \in BOOLEAN
BY DEF Records, Flush

\* Before the first start everything is empty.
LEMMA TInvInit == Init => TInv
<1> SUFFICES ASSUME Init
             PROVE  TInv
  OBVIOUS
<1>1. Reading \in ConnStates /\ Reading.pc = "read"
  BY DEF ConnStates, Reading, NoCommand
<1>2. conns \in [Conns -> ConnStates] /\ \A c \in Conns : ConnOK(conns[c], applied)
  BY <1>1 DEF Init, ConnOK
<1>3. server \in ServerStates
  BY DEF Init, ServerStates
<1>4. <<>> \in Seq(Records \cup {Flush}) /\ <<>> \in Seq(Records) /\ Len(<<>>) = 0
  OBVIOUS
<1>5. rx \in Seq(Records \cup {Flush}) /\ buf \in Seq(Records) /\ file \in Seq(Records)
      /\ Len(rx) <= AOF_CHANNEL /\ synced \in 0 .. Len(file)
  BY <1>4, AofAssumption DEF Init
<1> QED BY <1>2, <1>3, <1>5, EmptyType DEF Init, TInv

\* A connection takes a command off its socket.
LEMMA ReadCommandTypes ==
    ASSUME TInv, NEW c \in Conns, NEW cmd \in Requests[c], ReadCommand(c, cmd)
    PROVE  TInv'
<1> DEFINE n == server.sent + 1
           r == Record(n, cmd)
           pc == IF is_write(cmd) THEN "record" ELSE "apply"
           state == [pc |-> pc, msg |-> r, parsed |-> clock]
<1>1. n \in Nat \ {0} /\ server' \in ServerStates
  BY SMTT(30) DEF TInv, ReadCommand, ServerStates
<1>2. cmd \in AnyCommand
  BY AofAssumption
<1> HIDE DEF n
<1>3. r \in Records
  BY <1>1, <1>2 DEF Record, Records
<1>4. pc \in {"record", "apply"}
  OBVIOUS
<1>5. ConnStep(c, state) /\ applied' = applied
  BY DEF ReadCommand, n
<1> HIDE DEF r, pc
<1>6. state \in ConnStates /\ state.pc = pc /\ state.msg = r
  BY <1>3, <1>4 DEF ConnStates, TInv
<1>7. ConnOK(state, applied')
  BY <1>3, <1>4, <1>6 DEF ConnOK
<1> HIDE DEF state
<1>8. conns' \in [Conns -> ConnStates] /\ \A d \in Conns : ConnOK(conns'[d], applied')
  BY <1>5, <1>6, <1>7, ConnStepTypes
<1> QED BY <1>1, <1>8 DEF TInv, ReadCommand

\* record sends into the channel, which has room.
LEMMA RecordCommandTypes ==
    ASSUME TInv, NEW c \in Conns, RecordCommand(c)
    PROVE  TInv'
<1> DEFINE state == [conns[c] EXCEPT !.pc = "apply"]
<1>1. conns[c] \in ConnStates /\ ConnOK(conns[c], applied) /\ conns[c].pc = "record"
  BY DEF TInv, RecordCommand
<1>2. state \in ConnStates /\ state.pc = "apply" /\ state.msg = conns[c].msg
  BY <1>1, ConnTypes
<1>3. conns[c].msg \in Records
  BY <1>1 DEF ConnOK
<1>4. ConnStep(c, state) /\ applied' = applied
  BY DEF RecordCommand
<1> HIDE DEF state
<1>5. ConnOK(state, applied')
  BY <1>2, <1>3 DEF ConnOK
<1>6. conns' \in [Conns -> ConnStates] /\ \A d \in Conns : ConnOK(conns'[d], applied')
  BY <1>2, <1>4, <1>5, ConnStepTypes
<1>7. rx' \in Seq(Records \cup {Flush}) /\ Len(rx') <= AOF_CHANNEL
  <2>1. CASE rx' = rx
    BY <2>1 DEF TInv
  <2>2. CASE Len(rx) < AOF_CHANNEL /\ rx' = Append(rx, conns[c].msg)
    BY <1>3, <2>2, AofAssumption DEF TInv
  <2> QED BY <2>1, <2>2 DEF RecordCommand
<1> QED BY <1>6, <1>7 DEF TInv, RecordCommand

\* apply changes the database and remembers the command.
LEMMA ApplyCommandTypes ==
    ASSUME TInv, NEW c \in Conns, ApplyCommand(c)
    PROVE  TInv'
<1> DEFINE state == [conns[c] EXCEPT !.pc = "reply"]
<1>1. conns[c] \in ConnStates /\ ConnOK(conns[c], applied) /\ conns[c].pc = "apply"
  BY DEF TInv, ApplyCommand
<1>2. state \in ConnStates /\ state.pc = "reply" /\ state.msg = conns[c].msg
  BY <1>1, ConnTypes
<1>3. conns[c].msg \in Records /\ conns[c].parsed \in Nat
  BY <1>1 DEF ConnOK, ConnStates
<1>4. conns[c].msg.id \in Nat /\ conns[c].msg.cmd \in AnyCommand
  BY <1>3, RecordFacts
<1>5. ConnStep(c, state) /\ applied' = IF is_write(conns[c].msg.cmd) THEN applied \cup {conns[c].msg.id} ELSE applied
  BY DEF ApplyCommand
<1>6. applied \subseteq applied' /\ applied' \subseteq Nat
  BY <1>4, <1>5 DEF TInv
<1> HIDE DEF state
<1>7. ConnOK(state, applied')
  BY <1>2, <1>3, <1>5 DEF ConnOK
<1>8. conns' \in [Conns -> ConnStates] /\ \A d \in Conns : ConnOK(conns'[d], applied')
  BY <1>2, <1>5, <1>6, <1>7, ConnStepTypes
<1>9. db' \in Dbs
  <2>1. db \in Dbs /\ clock \in Nat
    BY DEF TInv
  <2>2. db' = Applied(db, conns[c].msg.cmd, conns[c].parsed, clock)
    BY DEF ApplyCommand
  <2> QED BY <1>3, <1>4, <2>1, <2>2, AppliedType
<1> QED BY <1>6, <1>8, <1>9 DEF TInv, ApplyCommand

\* The reply of a command that was applied.
LEMMA ReplyTypes ==
    ASSUME TInv, NEW c \in Conns, Reply(c)
    PROVE  TInv'
<1>1. conns[c] \in ConnStates /\ ConnOK(conns[c], applied) /\ conns[c].pc = "reply"
  BY DEF TInv, Reply
<1>2. ConnStep(c, Reading) /\ applied' = applied
  BY DEF Reply
<1>3. Reading \in ConnStates /\ ConnOK(Reading, applied')
  BY <1>1, ConnTypes DEF ConnOK
<1>4. conns' \in [Conns -> ConnStates] /\ \A d \in Conns : ConnOK(conns'[d], applied')
  BY <1>2, <1>3, ConnStepTypes
<1>5. answered' \subseteq applied'
  BY <1>1, <1>2 DEF ConnOK, Reply, TInv
<1> QED BY <1>4, <1>5 DEF TInv, Reply

\* The shutdown ends a task that waits.
LEMMA CancelTypes ==
    ASSUME TInv, NEW c \in Conns, Cancel(c)
    PROVE  TInv'
<1>1. conns[c] \in ConnStates
  BY DEF TInv
<1>2. ConnStep(c, Gone) /\ applied' = applied
  BY DEF Cancel
<1>3. Gone \in ConnStates /\ ConnOK(Gone, applied')
  BY <1>1, ConnTypes DEF ConnOK
<1>4. conns' \in [Conns -> ConnStates] /\ \A d \in Conns : ConnOK(conns'[d], applied')
  BY <1>2, <1>3, ConnStepTypes
<1> QED BY <1>4 DEF TInv, Cancel

\* What joining, cutting and growing the logs gives.
LEMMA JoinTypes ==
    ASSUME NEW f \in Seq(Records), NEW b \in Seq(Records)
    PROVE  f \o b \in Seq(Records) /\ Len(f \o b) = Len(f) + Len(b)
OBVIOUS

\* What stays in the channel when the writer takes the first message.
LEMMA TailTypes ==
    ASSUME NEW S, NEW s \in Seq(S), s # <<>>
    PROVE  /\ Head(s) \in S
           /\ Tail(s) \in Seq(S)
           /\ Len(s) \in Nat \ {0}
           /\ Len(Tail(s)) = Len(s) - 1
OBVIOUS

\* A record at the head of the channel is one.
LEMMA HeadTypes ==
    ASSUME NEW s \in Seq(Records \cup {Flush}), s # <<>>
    PROVE  Head(s) = Flush \/ Head(s) \in Records
BY TailTypes

\* The writer puts a record into its buffer, or the buffer into the file.
LEMMA WriteRecordTypes ==
    ASSUME TInv, WriteRecord
    PROVE  TInv'
<1> DEFINE h == Head(rx)
<1>1. /\ rx \in Seq(Records \cup {Flush}) /\ rx # <<>> /\ h # Flush
      /\ Len(rx) <= AOF_CHANNEL /\ AOF_CHANNEL \in Nat
      /\ buf \in Seq(Records) /\ file \in Seq(Records) /\ synced \in 0 .. Len(file)
  BY AofAssumption DEF TInv, WriteRecord
<1>2. h \in Records
  BY <1>1, HeadTypes
<1>3. rx' \in Seq(Records \cup {Flush}) /\ Len(rx') <= AOF_CHANNEL
  <2>1. rx' = Tail(rx)
    BY DEF WriteRecord
  <2> QED BY <1>1, <2>1, TailTypes
<1>4. \/ buf' = Append(buf, h) /\ file' = file
      \/ file' = file \o buf /\ buf' = <<h>>
      \/ file' = Append(file \o buf, h) /\ buf' = <<>>
      \/ buf' = buf /\ file' = file
  BY DEF WriteRecord
<1> HIDE DEF h
<1>5. buf' \in Seq(Records)
  <2>1. <<>> \in Seq(Records) /\ <<h>> \in Seq(Records) /\ Append(buf, h) \in Seq(Records)
    BY <1>1, <1>2
  <2> QED BY <1>1, <1>4, <2>1
<1>6. file' \in Seq(Records) /\ Len(file') >= Len(file)
  <2>1. /\ file \o buf \in Seq(Records)
        /\ Len(file \o buf) = Len(file) + Len(buf) /\ Len(file) \in Nat /\ Len(buf) \in Nat
    BY <1>1, JoinTypes
  <2>2. /\ Append(file \o buf, h) \in Seq(Records)
        /\ Len(Append(file \o buf, h)) = Len(file \o buf) + 1
    BY <1>2, <2>1
  <2>3. CASE file' = file
    BY <1>1, <2>3
  <2>4. CASE file' = file \o buf
    BY <2>1, <2>4
  <2>5. CASE file' = Append(file \o buf, h)
    BY <2>1, <2>2, <2>5
  <2> QED BY <1>4, <2>3, <2>4, <2>5
<1>7. synced' \in 0 .. Len(file')
  <2>1. synced' = synced /\ Len(file') \in Nat
    BY <1>6 DEF WriteRecord
  <2> QED BY <1>1, <1>6, <2>1
<1> QED BY <1>3, <1>5, <1>6, <1>7 DEF TInv, WriteRecord

\* A flush, done or failed, leaves file, buffer and synced well typed.
LEMMA SyncedTypes ==
    ASSUME TInv, Synced
    PROVE  buf' \in Seq(Records) /\ file' \in Seq(Records) /\ synced' \in 0 .. Len(file')
<1>1. buf \in Seq(Records) /\ file \in Seq(Records) /\ synced \in 0 .. Len(file)
  BY DEF TInv
<1>2. CASE UNCHANGED <<file, buf, synced>>
  BY <1>1, <1>2
<1>3. CASE file' = file \o buf /\ buf' = <<>> /\ synced' = Len(file')
  <2>1. file' \in Seq(Records)
    BY <1>1, <1>3, JoinTypes
  <2>2. Len(file') \in Nat
    BY <2>1
  <2> QED BY <1>3, <2>1, <2>2
<1> QED BY <1>2, <1>3 DEF Synced

\* The steps of the writer.
LEMMA WriterTypes ==
    ASSUME TInv, WriterNext
    PROVE  TInv'
<1>1. CASE WriterOpens
  <2>1. rx' \in Seq(Records \cup {Flush}) /\ Len(rx') <= AOF_CHANNEL
    <3>1. <<>> \in Seq(Records \cup {Flush}) /\ Len(<<>>) = 0 /\ 0 <= AOF_CHANNEL
      BY AofAssumption
    <3> QED BY <1>1, <3>1 DEF WriterOpens, TInv
  <2> QED BY <1>1, <2>1 DEF WriterOpens, TInv
<1>2. CASE WriteRecord
  BY <1>2, WriteRecordTypes
<1>3. CASE WriteFlush
  <2>1. buf' \in Seq(Records) /\ file' \in Seq(Records) /\ synced' \in 0 .. Len(file')
    BY <1>3, SyncedTypes DEF WriteFlush
  <2>2. rx' \in Seq(Records \cup {Flush}) /\ Len(rx') <= AOF_CHANNEL
    <3>1. rx \in Seq(Records \cup {Flush}) /\ Len(rx) <= AOF_CHANNEL /\ AOF_CHANNEL \in Nat
      BY AofAssumption DEF TInv
    <3>2. rx # <<>> /\ rx' = Tail(rx)
      BY <1>3 DEF WriteFlush
    <3> QED BY <3>1, <3>2, TailTypes
  <2>3. server' \in ServerStates
    BY <1>3 DEF WriteFlush, TInv, ServerStates
  <2> QED BY <1>3, <2>1, <2>2, <2>3 DEF WriteFlush, TInv
<1>4. CASE WriterDrains
  <2>1. buf' \in Seq(Records) /\ file' \in Seq(Records) /\ synced' \in 0 .. Len(file')
    BY <1>4, SyncedTypes DEF WriterDrains
  <2> QED BY <1>4, <2>1 DEF WriterDrains, TInv
<1> QED BY <1>1, <1>2, <1>3, <1>4 DEF WriterNext

\* The steps of main.
LEMMA MainTypes ==
    ASSUME TInv, MainNext \/ Shutdown \/ Tick
    PROVE  TInv'
<1>1. CASE SendFlush
  <2>1. rx' \in Seq(Records \cup {Flush}) /\ Len(rx') <= AOF_CHANNEL
    <3>1. CASE rx' = rx
      BY <3>1 DEF TInv
    <3>2. CASE Len(rx) < AOF_CHANNEL /\ rx' = Append(rx, Flush)
      BY <3>2, AofAssumption DEF TInv
    <3> QED BY <1>1, <3>1, <3>2 DEF SendFlush
  <2>2. server' \in ServerStates
    BY <1>1 DEF SendFlush, TInv, ServerStates
  <2>3. due' \subseteq Nat
    BY <1>1 DEF SendFlush, TInv
  <2> QED BY <1>1, <2>1, <2>2, <2>3 DEF SendFlush, TInv
<1>2. CASE FlushReturns
  <2>1. server' \in ServerStates
    BY <1>2 DEF FlushReturns, TInv, ServerStates
  <2> QED BY <1>2, <2>1 DEF FlushReturns, TInv
<1>3. CASE Shutdown
  <2>1. server' \in ServerStates
    BY <1>3 DEF Shutdown, TInv, ServerStates
  <2> QED BY <1>3, <2>1 DEF Shutdown, TInv
<1>4. CASE Tick
  BY <1>4 DEF Tick, TInv
<1> QED BY <1>1, <1>2, <1>3, <1>4 DEF MainNext

\* What is left of the tasks when the process ends.
LEMMA TasksEndTypes ==
    ASSUME TInv, TasksEnd
    PROVE  /\ conns' \in [Conns -> ConnStates]
           /\ \A c \in Conns : ConnOK(conns'[c], applied')
           /\ rx' \in Seq(Records \cup {Flush}) /\ Len(rx') <= AOF_CHANNEL
           /\ buf' \in Seq(Records)
           /\ writer' = "dead"
<1>1. Gone \in ConnStates /\ Gone.pc = "gone"
  BY DEF ConnStates, Reading, Gone, NoCommand
<1>2. ConnOK(Gone, applied')
  BY <1>1 DEF ConnOK
<1>3. <<>> \in Seq(Records \cup {Flush}) /\ Len(<<>>) = 0 /\ <<>> \in Seq(Records) /\ 0 <= AOF_CHANNEL
  BY AofAssumption
<1> QED BY <1>1, <1>2, <1>3 DEF TasksEnd

\* What a crash leaves of a file: a prefix, and perhaps a torn record behind it.
LEMMA CutTypes ==
    ASSUME NEW f \in Seq(Records), NEW n \in 0 .. Len(f)
    PROVE  /\ SubSeq(f, 1, n) \in Seq(Records) /\ Len(SubSeq(f, 1, n)) = n
           /\ n < Len(f) =>
                Append(SubSeq(f, 1, n), [f[n + 1] EXCEPT !.torn = TRUE]) \in Seq(Records)
<1>1. SubSeq(f, 1, n) \in Seq(Records) /\ Len(SubSeq(f, 1, n)) = n
  OBVIOUS
<1>2. ASSUME n < Len(f)
      PROVE  Append(SubSeq(f, 1, n), [f[n + 1] EXCEPT !.torn = TRUE]) \in Seq(Records)
  <2>1. f[n + 1] \in Records
    BY <1>2
  <2> DEFINE r == [f[n + 1] EXCEPT !.torn = TRUE]
  <2>2. r \in Records
    BY <2>1 DEF Records
  <2> DEFINE p == SubSeq(f, 1, n)
  <2> HIDE DEF r, p
  <2>3. p \in Seq(Records)
    BY <1>1 DEF p
  <2>4. Append(p, r) \in Seq(Records)
    BY <2>2, <2>3
  <2> QED BY <2>4 DEF p, r
<1> QED BY <1>1, <1>2

\* A crash keeps a prefix of the file, its last record cut or not.
LEMMA CrashTypes ==
    ASSUME TInv, Crash
    PROVE  TInv'
<1>1. PICK n \in synced .. Len(file) :
        /\ \/ file' = SubSeq(file, 1, n)
           \/ /\ n < Len(file)
              /\ file' = Append(SubSeq(file, 1, n), [file[n + 1] EXCEPT !.torn = TRUE])
        /\ synced' = Len(file')
  BY DEF Crash
<1>2. file \in Seq(Records) /\ n \in 0 .. Len(file)
  <2>1. file \in Seq(Records) /\ synced \in 0 .. Len(file) /\ Len(file) \in Nat
    BY DEF TInv
  <2> QED BY <2>1
<1>3. file' \in Seq(Records)
  BY <1>1, <1>2, CutTypes
<1>4. synced' \in 0 .. Len(file')
  <2>1. Len(file') \in Nat
    BY <1>3
  <2> QED BY <1>1, <2>1
<1>5. server' \in ServerStates
  <2> DEFINE m == server.crashes + 1
  <2>1. /\ server \in ServerStates
        /\ server' = [server EXCEPT !.pc = "down", !.clean = FALSE, !.crashes = m]
    BY DEF Crash, TInv
  <2>2. m \in Nat
    BY <2>1 DEF ServerStates
  <2> HIDE DEF m
  <2> QED BY <2>1, <2>2 DEF ServerStates
<1>6. TasksEnd
  BY DEF Crash
<1> QED BY <1>3, <1>4, <1>5, <1>6, TasksEndTypes DEF Crash, TInv

\* The end of the process drops channel and buffer.
LEMMA ExitTypes ==
    ASSUME TInv, Exit
    PROVE  TInv'
<1>1. server' \in ServerStates
  BY DEF Exit, TInv, ServerStates
<1>2. TasksEnd
  BY DEF Exit
<1> QED BY <1>1, <1>2, TasksEndTypes DEF Exit, TInv

\* load replays the file into an empty database.
LEMMA BootTypes ==
    ASSUME TInv, Boot
    PROVE  TInv'
<1>1. PICK kept \in Replayable(file) :
        db' = Replay(file, kept, clock) /\ applied' = {file[i].id : i \in kept}
  BY DEF Boot
<1>2. file \in Seq(Records) /\ clock \in Nat
  BY DEF TInv
<1>3. \A i \in kept : file[i] \in Records
  BY <1>2 DEF Replayable
<1>4. db' \in Dbs
  <2>1. file \in Seq(Records \cup {Flush}) /\ Len(file) \in Nat
    BY <1>2
  <2>2. PICK g \in [0 .. Len(file) -> Dbs] : Replay(file, kept, clock) = g[Len(file)]
    BY <1>2, <1>3, <2>1, ReplaySteps
  <2> QED BY <1>1, <2>1, <2>2
<1>5. applied' \subseteq Nat
  BY <1>1, <1>3, RecordFacts
<1>6. Reading \in ConnStates /\ Reading.pc = "read"
  BY DEF ConnStates, Reading, NoCommand
<1>7. conns' \in [Conns -> ConnStates] /\ \A c \in Conns : ConnOK(conns'[c], applied')
  BY <1>6 DEF Boot, ConnOK
<1>8. server' \in ServerStates
  <2> DEFINE n == server.boots + 1
  <2>1. /\ server \in ServerStates
        /\ server' = [server EXCEPT !.pc = "running", !.replied = FALSE, !.clean = FALSE,
                                    !.boots = n]
    BY DEF Boot, TInv
  <2>2. n \in Nat
    BY <2>1 DEF ServerStates
  <2> HIDE DEF n
  <2> QED BY <2>1, <2>2 DEF ServerStates
<1> QED BY <1>4, <1>5, <1>7, <1>8 DEF Boot, TInv

\* One step per action.
LEMMA TInvNext == TInv /\ [Next]_vars => TInv'
<1> SUFFICES ASSUME TInv, [Next]_vars
             PROVE  TInv'
  OBVIOUS
<1>1. ASSUME NEW c \in Conns, NEW cmd \in Requests[c], ReadCommand(c, cmd)
      PROVE  TInv'
  BY <1>1, ReadCommandTypes
<1>2. ASSUME NEW c \in Conns, ConnNext(c)
      PROVE  TInv'
  BY <1>2, RecordCommandTypes, ApplyCommandTypes, ReplyTypes DEF ConnNext
<1>3. ASSUME NEW c \in Conns, Cancel(c)
      PROVE  TInv'
  BY <1>3, CancelTypes
<1>4. CASE WriterNext
  BY <1>4, WriterTypes
<1>5. CASE MainNext \/ Shutdown \/ Tick
  BY <1>5, MainTypes
<1>6. CASE Exit \/ Crash \/ Boot
  BY <1>6, ExitTypes, CrashTypes, BootTypes
<1>7. CASE UNCHANGED vars
  BY <1>7 DEF vars, TInv
<1> QED BY <1>1, <1>2, <1>3, <1>4, <1>5, <1>6, <1>7 DEF Next

\* Every variable keeps its type, the channel never holds more than its capacity and only
\* commands the database has taken are answered (record, apply and process_connection),
\* whether or not the disk fails.
THEOREM AofTypeCorrect == Spec => []TypeOK
<1>1. Init => TInv
  BY TInvInit
<1>2. TInv /\ [Next]_vars => TInv'
  BY TInvNext
<1>3. TInv => TypeOK
  BY TInvGivesTypes
<1> QED BY <1>1, <1>2, <1>3, PTL DEF Spec

-----------------------------------------------------------------------------
(* The commands of a log *)

\* The commands of logs put together, appended to and taken from.
LEMMA IdsEmpty == Ids(<<>>) = {}
BY DEF Ids

\* Length and elements of two sequences put together.
LEMMA Joined ==
    ASSUME NEW S, NEW s \in Seq(S), NEW t \in Seq(S)
    PROVE  /\ s \o t \in Seq(S) /\ Len(s) \in Nat /\ Len(t) \in Nat
           /\ Len(s \o t) = Len(s) + Len(t)
           /\ \A i \in 1 .. Len(s) : (s \o t)[i] = s[i]
           /\ \A i \in 1 .. Len(t) : (s \o t)[Len(s) + i] = t[i]
OBVIOUS

\* Two logs put together hold the commands of both.
LEMMA IdsJoin ==
    ASSUME NEW S, NEW s \in Seq(S), NEW t \in Seq(S)
    PROVE  Ids(s \o t) = Ids(s) \cup Ids(t)
<1> DEFINE w == s \o t
<1>1. /\ w \in Seq(S) /\ Len(w) = Len(s) + Len(t) /\ Len(s) \in Nat /\ Len(t) \in Nat
      /\ DOMAIN w = 1 .. Len(w) /\ DOMAIN s = 1 .. Len(s) /\ DOMAIN t = 1 .. Len(t)
      /\ \A i \in 1 .. Len(s) : w[i] = s[i]
      /\ \A i \in 1 .. Len(t) : w[Len(s) + i] = t[i]
  BY Joined
<1> HIDE DEF w
<1>2. ASSUME NEW i \in DOMAIN w
      PROVE  w[i].id \in {s[j].id : j \in DOMAIN s} \cup {t[j].id : j \in DOMAIN t}
  <2>1. CASE i <= Len(s)
    <3>1. i \in DOMAIN s /\ w[i] = s[i]
      BY <1>1, <2>1
    <3> QED BY <3>1
  <2>2. CASE ~(i <= Len(s))
    <3>1. i - Len(s) \in DOMAIN t /\ Len(s) + (i - Len(s)) = i
      BY <1>1, <2>2
    <3>2. w[i] = t[i - Len(s)]
      BY <1>1, <3>1
    <3> QED BY <3>1, <3>2
  <2> QED BY <2>1, <2>2
<1>3. ASSUME NEW j \in DOMAIN s
      PROVE  s[j].id \in {w[i].id : i \in DOMAIN w}
  <2>1. j \in DOMAIN w /\ w[j] = s[j]
    BY <1>1
  <2> QED BY <2>1
<1>4. ASSUME NEW j \in DOMAIN t
      PROVE  t[j].id \in {w[i].id : i \in DOMAIN w}
  <2>1. Len(s) + j \in DOMAIN w /\ w[Len(s) + j] = t[j]
    BY <1>1
  <2> QED BY <2>1
<1> QED BY <1>2, <1>3, <1>4 DEF Ids, w

\* One more record adds its command.
LEMMA IdsAppend ==
    ASSUME NEW S, NEW s \in Seq(S), NEW r \in S
    PROVE  Ids(Append(s, r)) = Ids(s) \cup ({r.id} \ {0})
<1> DEFINE t == <<r>>
<1>1. Append(s, r) = s \o t /\ t \in Seq(S) /\ DOMAIN t = {1} /\ t[1] = r
  OBVIOUS
<1> HIDE DEF t
<1>2. Ids(t) = {r.id} \ {0}
  BY <1>1 DEF Ids
<1> QED BY <1>1, <1>2, IdsJoin

\* Without its first record a log loses at most that command.
LEMMA IdsTail ==
    ASSUME NEW S, NEW s \in Seq(S), s # <<>>
    PROVE  Ids(s) = ({Head(s).id} \ {0}) \cup Ids(Tail(s))
<1> DEFINE h == <<Head(s)>>
           t == Tail(s)
<1>1. h \in Seq(S) /\ t \in Seq(S) /\ s = h \o t /\ DOMAIN h = {1} /\ h[1] = Head(s)
  OBVIOUS
<1> HIDE DEF h, t
<1>2. Ids(h) = {Head(s).id} \ {0}
  BY <1>1 DEF Ids
<1>3. Ids(s) = Ids(h) \cup Ids(t)
  BY <1>1, IdsJoin
<1> QED BY <1>2, <1>3 DEF t

\* The log of the properties and the parts the invariant speaks of.
LEMMA LogIds ==
    ASSUME TInv
    PROVE  Ids(Log) = Recorded
<1> DEFINE S == Records \cup {Flush}
<1>1. file \in Seq(S) /\ buf \in Seq(S) /\ rx \in Seq(S)
  BY DEF TInv
<1> HIDE DEF S
<1> DEFINE w == file \o buf
<1>2. w \in Seq(S) /\ Ids(w) = Ids(file) \cup Ids(buf)
  BY <1>1, IdsJoin
<1> HIDE DEF w
<1>3. Ids(w \o rx) = Ids(w) \cup Ids(rx)
  BY <1>1, <1>2, IdsJoin
<1> QED BY <1>2, <1>3 DEF Log, Recorded, w

\* What the writer moves from the channel to the buffer or the file is still recorded.
LEMMA WriteRecordIds ==
    ASSUME TInv, WriteRecord, ~DiskFails
    PROVE  /\ Recorded' = Recorded
           /\ Ids(file') \cup Ids(buf') = Ids(file) \cup Ids(buf) \cup {Head(rx).id}
<1> DEFINE h == Head(rx)
           S == Records \cup {Flush}
<1>1. /\ rx \in Seq(S) /\ rx # <<>> /\ h # Flush
      /\ buf \in Seq(Records) /\ file \in Seq(Records) /\ rx' = Tail(rx)
  BY DEF TInv, WriteRecord
<1>2. h \in Records /\ h.id # 0
  BY <1>1, HeadTypes, RecordFacts
<1>3. Ids(rx) = {h.id} \cup Ids(rx')
  <2> HIDE DEF S
  <2>1. Ids(rx) = ({h.id} \ {0}) \cup Ids(rx')
    BY <1>1, IdsTail
  <2> QED BY <1>2, <2>1
<1>4. \/ buf' = Append(buf, h) /\ file' = file
      \/ file' = file \o buf /\ buf' = <<h>>
      \/ file' = Append(file \o buf, h) /\ buf' = <<>>
  BY DEF WriteRecord
<1> HIDE DEF h
<1>5. Ids(file \o buf) = Ids(file) \cup Ids(buf) /\ file \o buf \in Seq(Records)
  BY <1>1, IdsJoin, JoinTypes
<1>6. Ids(Append(buf, h)) = Ids(buf) \cup {h.id}
  BY <1>1, <1>2, IdsAppend
<1>7. Ids(Append(file \o buf, h)) = Ids(file) \cup Ids(buf) \cup {h.id}
  <2> DEFINE w == file \o buf
  <2> HIDE DEF w
  <2>1. w \in Seq(Records) /\ Ids(w) = Ids(file) \cup Ids(buf)
    BY <1>5 DEF w
  <2>2. Ids(Append(w, h)) = Ids(w) \cup {h.id}
    BY <1>2, <2>1, IdsAppend
  <2> QED BY <2>1, <2>2 DEF w
<1>8. Ids(<<h>>) = {h.id}
  BY <1>2 DEF Ids
<1>9. Ids(file') \cup Ids(buf') = Ids(file) \cup Ids(buf) \cup {h.id}
  BY <1>4, <1>5, <1>6, <1>7, <1>8, IdsEmpty
<1> QED BY <1>3, <1>9 DEF Recorded, h

\* A flush moves the buffer to the file, all of which is on the disk then.
LEMMA SyncedIdsOf ==
    ASSUME TInv, Synced, ~DiskFails
    PROVE  /\ Ids(file') \cup Ids(buf') = Ids(file) \cup Ids(buf)
           /\ Ids(file) \cup Ids(buf) \subseteq OnDisk(file', synced')
           /\ OnDisk(file, synced) \subseteq OnDisk(file', synced')
<1>1. /\ file \in Seq(Records) /\ buf \in Seq(Records) /\ synced \in 0 .. Len(file)
      /\ file' = file \o buf /\ buf' = <<>> /\ synced' = Len(file')
  BY DEF TInv, Synced
<1>2. Ids(file') = Ids(file) \cup Ids(buf)
  BY <1>1, IdsJoin
<1>3. Ids(file') \subseteq OnDisk(file', synced')
  <2>1. file' \in Seq(Records)
    BY <1>1, JoinTypes
  <2>2. DOMAIN file' = 1 .. synced'
    BY <1>1, <2>1
  <2> QED BY <2>2 DEF Ids, OnDisk
<1>4. OnDisk(file, synced) \subseteq Ids(file)
  <2>1. \A i \in 1 .. synced : i \in DOMAIN file /\ file[i] \in Records
    BY <1>1
  <2> QED BY <2>1, RecordFacts DEF Ids, OnDisk
<1> QED BY <1>1, <1>2, <1>3, <1>4, IdsEmpty

-----------------------------------------------------------------------------
(* The log, on a disk that does not fail *)

\* The writer takes the head of the channel, which joins what is ahead of the rest.
LEMMA FlushTail ==
    ASSUME NEW s \in Seq(Records \cup {Flush}), s # <<>>, NEW ahead, NEW after, NEW owed,
           FlushOK(s, ahead, owed), ahead \subseteq after,
           Head(s) = Flush \/ Head(s).id \in after
    PROVE  FlushOK(Tail(s), after, owed)
<1> DEFINE t == Tail(s)
<1>1. /\ Len(s) \in Nat \ {0} /\ Head(s) = s[1] /\ t \in Seq(Records \cup {Flush})
      /\ Len(t) = Len(s) - 1 /\ DOMAIN t = 1 .. Len(t) /\ DOMAIN s = 1 .. Len(s)
      /\ \A i \in 1 .. Len(t) : t[i] = s[i + 1]
  OBVIOUS
<1> HIDE DEF t
<1> SUFFICES ASSUME NEW j \in DOMAIN t, t[j] = Flush, NEW x \in owed
             PROVE  x \in after \cup {t[i].id : i \in 1 .. j - 1}
  BY DEF FlushOK, t
<1>2. CASE Head(s) = Flush
  <2>1. owed \subseteq ahead \cup {s[i].id : i \in 1 .. 1 - 1}
    BY <1>1, <1>2 DEF FlushOK
  <2> QED BY <2>1
<1>3. CASE Head(s).id \in after
  <2>1. j + 1 \in DOMAIN s /\ s[j + 1] = Flush
    BY <1>1
  <2>2. x \in ahead \cup {s[i].id : i \in 1 .. (j + 1) - 1}
    BY <2>1 DEF FlushOK
  <2>3. ASSUME NEW i \in 1 .. (j + 1) - 1, x = s[i].id
        PROVE  x \in after \cup {t[n].id : n \in 1 .. j - 1}
    <3>1. CASE i = 1
      BY <1>1, <1>3, <2>3, <3>1
    <3>2. CASE i # 1
      <4>1. i - 1 \in 1 .. j - 1 /\ i - 1 \in 1 .. Len(t) /\ (i - 1) + 1 = i
        BY <1>1, <3>2
      <4>2. t[i - 1] = s[i]
        BY <1>1, <4>1
      <4> QED BY <2>3, <4>1, <4>2
    <3> QED BY <3>1, <3>2
  <2> QED BY <2>2, <2>3
<1> QED BY <1>2, <1>3

\* A record joins the end of the channel.
LEMMA FlushAppend ==
    ASSUME NEW s \in Seq(Records \cup {Flush}), NEW r \in Records, NEW ahead, NEW owed,
           FlushOK(s, ahead, owed)
    PROVE  FlushOK(Append(s, r), ahead, owed)
<1> DEFINE t == Append(s, r)
<1>1. /\ Len(s) \in Nat /\ DOMAIN s = 1 .. Len(s) /\ DOMAIN t = 1 .. Len(s) + 1
      /\ t[Len(s) + 1] = r /\ \A i \in 1 .. Len(s) : t[i] = s[i]
  OBVIOUS
<1> HIDE DEF t
<1> SUFFICES ASSUME NEW j \in DOMAIN t, t[j] = Flush
             PROVE  owed \subseteq ahead \cup {t[i].id : i \in 1 .. j - 1}
  BY DEF FlushOK, t
<1>2. r # Flush
  BY RecordFacts
<1>3. j \in DOMAIN s /\ s[j] = Flush
  BY <1>1, <1>2
<1>4. \A i \in 1 .. j - 1 : t[i] = s[i]
  BY <1>1, <1>3
<1>5. owed \subseteq ahead \cup {s[i].id : i \in 1 .. j - 1}
  BY <1>3 DEF FlushOK
<1> QED BY <1>4, <1>5

\* Nothing is applied before anything is recorded.
LEMMA LInvInit == Init => LInv
<1> SUFFICES ASSUME Init
             PROVE  LInv
  OBVIOUS
<1>1. DOMAIN rx = {} /\ applied = {} /\ due = {}
  BY DEF Init
<1>2. \A c \in Conns : AboutOK(conns[c], Recorded)
  BY DEF Init, AboutOK, Reading
<1>3. FlushOK(rx, Ids(file) \cup Ids(buf), due) /\ NoFlush(rx, server)
  BY <1>1 DEF FlushOK, NoFlush, Init
<1> QED BY <1>1, <1>2, <1>3 DEF LInv, Init, Up

\* A connection task that does not touch the log: it reads, applies, answers or goes away.
LEMMA ConnStepLogs ==
    ASSUME TInv, LInv, NEW c \in Conns, NEW state, ConnStep(c, state),
           AboutOK(state, Recorded), writer = "dead" => state.pc = "gone",
           applied' \subseteq applied \cup Recorded,
           server'.pc = server.pc, server'.replied = server.replied,
           UNCHANGED <<rx, buf, file, synced, writer, due>>
    PROVE  LInv'
<1>1. Up /\ Up' /\ Recorded' = Recorded /\ conns' = [conns EXCEPT ![c] = state]
      /\ conns \in [Conns -> ConnStates]
  BY DEF ConnStep, Up, Recorded, TInv
<1>2. applied' \subseteq Recorded'
  BY <1>1 DEF LInv
<1>3. ASSUME NEW d \in Conns
      PROVE  AboutOK(conns'[d], Recorded')
  BY <1>1 DEF LInv
<1>4. writer' = "dead" => server'.pc = "done" /\ \A d \in Conns : conns'[d].pc = "gone"
  BY <1>1 DEF LInv
<1>5. NoFlush(rx', server')
  BY DEF NoFlush, LInv
<1>6. FlushOK(rx', Ids(file') \cup Ids(buf'), due')
  BY <1>1 DEF LInv
<1>7. Up' /\ server'.replied => due' \subseteq OnDisk(file', synced')
  BY <1>1 DEF LInv
<1> QED BY <1>1, <1>2, <1>3, <1>4, <1>5, <1>6, <1>7 DEF LInv

\* A recorded command is in the channel, behind any Flush that is there.
LEMMA RecordCommandLogs ==
    ASSUME TInv, LInv, NEW c \in Conns, RecordCommand(c)
    PROVE  LInv'
<1> DEFINE r == conns[c].msg
           S == Records \cup {Flush}
<1>1. /\ Up /\ Up' /\ conns[c].pc = "record" /\ conns \in [Conns -> ConnStates]
      /\ conns' = [conns EXCEPT ![c] = [conns[c] EXCEPT !.pc = "apply"]]
  BY DEF RecordCommand, ConnStep, Up, TInv
<1>2. conns[c] \in ConnStates /\ ConnOK(conns[c], applied)
  BY DEF TInv
<1>3. r \in Records /\ r.id # 0
  BY <1>1, <1>2, RecordFacts DEF ConnOK
<1>4. writer # "dead"
  BY <1>1 DEF LInv
<1>5. rx \in Seq(S) /\ rx' = Append(rx, r)
  BY <1>4 DEF TInv, RecordCommand
<1>6. Ids(rx') = Ids(rx) \cup {r.id}
  <2>1. r \in S
    BY <1>3
  <2> HIDE DEF r, S
  <2> QED BY <1>3, <1>5, <2>1, IdsAppend
<1>7. Recorded' = Recorded \cup {r.id}
  BY <1>6 DEF Recorded, RecordCommand
<1>8. applied' \subseteq Recorded'
  BY <1>1, <1>7 DEF LInv, RecordCommand
<1>9. ASSUME NEW d \in Conns
      PROVE  AboutOK(conns'[d], Recorded')
  <2>1. CASE d = c
    <3>1. conns'[d].msg = r
      BY <1>1, <1>2, <2>1 DEF ConnStates
    <3> QED BY <1>7, <3>1 DEF AboutOK
  <2>2. CASE d # c
    <3>1. conns'[d] = conns[d] /\ AboutOK(conns[d], Recorded)
      BY <1>1, <2>2 DEF LInv
    <3> QED BY <1>7, <3>1 DEF AboutOK
  <2> QED BY <2>1, <2>2
<1>10. NoFlush(rx', server')
  <2>1. NoFlush(rx, server) /\ server' = server /\ r # Flush
    BY <1>3, RecordFacts DEF LInv, RecordCommand
  <2>2. \A j \in DOMAIN rx' : (j \in DOMAIN rx /\ rx'[j] = rx[j]) \/ rx'[j] = r
    BY <1>5
  <2> QED BY <2>1, <2>2 DEF NoFlush
<1>11. FlushOK(rx', Ids(file') \cup Ids(buf'), due')
  <2>1. FlushOK(rx, Ids(file) \cup Ids(buf), due)
    BY <1>1 DEF LInv
  <2>2. FlushOK(rx', Ids(file) \cup Ids(buf), due)
    BY <1>3, <1>5, <2>1, FlushAppend
  <2> QED BY <2>2 DEF RecordCommand
<1>12. /\ server'.replied => due' \subseteq OnDisk(file', synced')
       /\ server'.pc = "done" => server'.replied
       /\ writer' # "dead"
  BY <1>1, <1>4 DEF LInv, RecordCommand
<1> QED BY <1>1, <1>8, <1>9, <1>10, <1>11, <1>12 DEF LInv

\* The other steps of a connection.
LEMMA ConnLogs ==
    ASSUME TInv, LInv, NEW c \in Conns,
           ApplyCommand(c) \/ Reply(c) \/ Cancel(c) \/ \E cmd \in Requests[c] : ReadCommand(c, cmd)
    PROVE  LInv'
<1>1. conns[c] \in ConnStates /\ Up
  BY DEF TInv, ApplyCommand, Reply, Cancel, ReadCommand, ConnStep
<1>2. writer = "dead" => conns[c].pc = "gone"
  BY <1>1 DEF LInv
<1>3. CASE ApplyCommand(c)
  <2> DEFINE state == [conns[c] EXCEPT !.pc = "reply"]
  <2>1. conns[c].pc = "apply" /\ AboutOK(conns[c], Recorded) /\ state.pc = "reply"
    BY <1>1, <1>3, ConnTypes DEF LInv, ApplyCommand
  <2>2. ConnStep(c, state) /\ applied' \subseteq applied \cup Recorded
    BY <1>3, <2>1 DEF ApplyCommand, AboutOK
  <2>3. AboutOK(state, Recorded)
    BY <2>1 DEF AboutOK
  <2> HIDE DEF state
  <2> QED BY <1>2, <1>3, <2>1, <2>2, <2>3, ConnStepLogs DEF ApplyCommand
<1>4. CASE Reply(c)
  <2>1. AboutOK(Reading, Recorded)
    BY DEF AboutOK, Reading
  <2> QED BY <1>2, <1>4, <2>1, ConnStepLogs DEF Reply
<1>5. CASE Cancel(c)
  <2>1. AboutOK(Gone, Recorded) /\ Gone.pc = "gone"
    BY DEF AboutOK, Gone, Reading
  <2> QED BY <1>5, <2>1, ConnStepLogs DEF Cancel
<1>6. ASSUME NEW cmd \in Requests[c], ReadCommand(c, cmd)
      PROVE  LInv'
  <2> DEFINE state == [pc |-> IF is_write(cmd) THEN "record" ELSE "apply",
                       msg |-> Record(server.sent + 1, cmd), parsed |-> clock]
  <2>1. ConnStep(c, state) /\ AboutOK(state, Recorded)
    BY <1>6 DEF ReadCommand, AboutOK, Record
  <2>2. server'.pc = server.pc /\ server'.replied = server.replied
    BY <1>6 DEF ReadCommand, TInv, ServerStates
  <2> HIDE DEF state
  <2> QED BY <1>2, <1>6, <2>1, <2>2, ConnStepLogs DEF ReadCommand
<1> QED BY <1>3, <1>4, <1>5, <1>6

\* What the invariant says of the log when only the writer moves.
LEMMA WriterStepLogs ==
    ASSUME LInv, Up, Up', Recorded' = Recorded, UNCHANGED <<conns, applied, due>>,
           server'.pc = server.pc,
           server.pc # "done" => writer' # "dead",
           writer' = "dead" => \A c \in Conns : conns[c].pc = "gone",
           FlushOK(rx', Ids(file') \cup Ids(buf'), due'), NoFlush(rx', server'),
           server'.pc = "done" => server'.replied,
           server'.replied => due' \subseteq OnDisk(file', synced')
    PROVE  LInv'
BY DEF LInv

\* What is left in the channel when its head is taken.
LEMMA NoFlushTail ==
    ASSUME NEW s \in Seq(Records \cup {Flush}), s # <<>>, NEW main, NoFlush(s, main)
    PROVE  NoFlush(Tail(s), main)
<1>1. \A j \in DOMAIN Tail(s) : j + 1 \in DOMAIN s /\ Tail(s)[j] = s[j + 1]
  OBVIOUS
<1> QED BY <1>1 DEF NoFlush

\* A record moves from the channel to the buffer and stays in the log.
LEMMA WriteRecordLogs ==
    ASSUME TInv, LInv, ~DiskFails, WriteRecord
    PROVE  LInv'
<1> DEFINE ahead == Ids(file) \cup Ids(buf)
           after == Ids(file') \cup Ids(buf')
<1>1. /\ Up /\ Up' /\ rx \in Seq(Records \cup {Flush}) /\ rx # <<>> /\ rx' = Tail(rx)
      /\ writer' = "open" /\ server' = server /\ due' = due
  BY DEF WriteRecord, TInv, Up
<1>2. Recorded' = Recorded /\ after = ahead \cup {Head(rx).id}
  BY WriteRecordIds
<1>3. NoFlush(rx', server')
  <2>1. NoFlush(rx, server)
    BY DEF LInv
  <2> QED BY <1>1, <2>1, NoFlushTail
<1>4. FlushOK(rx', after, due')
  <2>1. FlushOK(rx, ahead, due) /\ ahead \subseteq after /\ Head(rx).id \in after
    BY <1>1, <1>2 DEF LInv
  <2> HIDE DEF ahead, after
  <2>2. FlushOK(Tail(rx), after, due)
    BY <1>1, <2>1, FlushTail
  <2> QED BY <1>1, <2>2
<1>5. OnDisk(file', synced') = OnDisk(file, synced)
  <2>1. /\ file \in Seq(Records) /\ buf \in Seq(Records) /\ synced \in 0 .. Len(file)
        /\ synced' = synced
    BY DEF TInv, WriteRecord
  <2>2. \A i \in 1 .. synced : file'[i] = file[i]
    <3> DEFINE w == file \o buf
    <3>1. w \in Seq(Records) /\ \A i \in 1 .. synced : i \in 1 .. Len(w) /\ w[i] = file[i]
      BY <2>1
    <3>2. file' = file \/ file' = w \/ file' = Append(w, Head(rx))
      BY DEF WriteRecord
    <3> HIDE DEF w
    <3>3. \A i \in 1 .. Len(w) : Append(w, Head(rx))[i] = w[i]
      BY <3>1
    <3> QED BY <3>1, <3>2, <3>3
  <2> QED BY <2>1, <2>2 DEF OnDisk
<1>6. /\ server'.pc = "done" => server'.replied
      /\ server'.replied => due' \subseteq OnDisk(file', synced')
  BY <1>1, <1>5 DEF LInv
<1> QED BY <1>1, <1>2, <1>3, <1>4, <1>6, WriterStepLogs DEF WriteRecord

\* A Flush brings to the disk all that was in front of it.
LEMMA WriteFlushLogs ==
    ASSUME TInv, LInv, ~DiskFails, WriteFlush
    PROVE  LInv'
<1> DEFINE ahead == Ids(file) \cup Ids(buf)
           after == Ids(file') \cup Ids(buf')
<1>1. /\ Up /\ rx \in Seq(Records \cup {Flush}) /\ rx # <<>> /\ rx' = Tail(rx)
      /\ Head(rx) = Flush /\ writer' = "open" /\ due' = due /\ Synced
  BY DEF WriteFlush, TInv
<1>2. server'.pc = server.pc /\ server'.replied = TRUE /\ Up'
  BY <1>1 DEF WriteFlush, TInv, ServerStates, Up
<1>3. /\ after = ahead
      /\ ahead \subseteq OnDisk(file', synced')
  BY <1>1, SyncedIdsOf
<1>4. Recorded' = Recorded
  <2>1. Ids(rx) = ({Head(rx).id} \ {0}) \cup Ids(rx')
    BY <1>1, IdsTail
  <2>2. Ids(rx) = Ids(rx')
    BY <1>1, <2>1 DEF Flush
  <2> QED BY <1>3, <2>2 DEF Recorded
<1>5. FlushOK(rx, ahead, due)
  BY <1>1 DEF LInv
<1>6. rx[1] = Flush /\ 1 \in DOMAIN rx
  BY <1>1
<1>7. NoFlush(rx', server')
  BY <1>2, <1>6 DEF LInv, NoFlush
<1>8. FlushOK(rx', after, due')
  <2> HIDE DEF ahead, after
  <2>1. FlushOK(Tail(rx), after, due)
    BY <1>1, <1>3, <1>5, FlushTail
  <2> QED BY <1>1, <2>1
<1>9. due' \subseteq OnDisk(file', synced')
  <2>1. due \subseteq ahead \cup {rx[i].id : i \in 1 .. 1 - 1}
    BY <1>5, <1>6 DEF FlushOK
  <2>2. due \subseteq ahead
    BY <2>1
  <2> QED BY <1>1, <1>3, <2>2
<1> QED BY <1>1, <1>2, <1>4, <1>7, <1>8, <1>9, WriterStepLogs DEF WriteFlush

\* The writer ends when nobody can record any more.
LEMMA WriterDrainsLogs ==
    ASSUME TInv, LInv, ~DiskFails, WriterDrains
    PROVE  LInv'
<1>1. Up /\ Up' /\ Synced /\ UNCHANGED <<rx, conns, applied, due, server>> /\ server.pc = "done"
      /\ \A c \in Conns : conns[c].pc = "gone"
  BY DEF WriterDrains, Up
<1>2. /\ Ids(file') \cup Ids(buf') = Ids(file) \cup Ids(buf)
      /\ OnDisk(file, synced) \subseteq OnDisk(file', synced')
  BY <1>1, SyncedIdsOf
<1>3. Recorded' = Recorded
  BY <1>1, <1>2 DEF Recorded
<1>4. FlushOK(rx', Ids(file') \cup Ids(buf'), due') /\ NoFlush(rx', server')
  BY <1>1, <1>2 DEF LInv
<1>5. /\ server'.pc = "done" => server'.replied
      /\ server'.replied => due' \subseteq OnDisk(file', synced')
  BY <1>1, <1>2 DEF LInv
<1> QED BY <1>1, <1>3, <1>4, <1>5, WriterStepLogs

\* On a disk that does not fail the file opens.
LEMMA WriterOpensLogs ==
    ASSUME LInv, ~DiskFails, WriterOpens
    PROVE  LInv'
<1>1. Up /\ Up' /\ writer' = "open" /\ UNCHANGED <<rx, buf, file, synced, conns, applied, due, server>>
  BY DEF WriterOpens, Up
<1>2. Recorded' = Recorded
  BY <1>1 DEF Recorded
<1>3. FlushOK(rx', Ids(file') \cup Ids(buf'), due') /\ NoFlush(rx', server')
  BY <1>1 DEF LInv
<1>4. /\ server'.pc = "done" => server'.replied
      /\ server'.replied => due' \subseteq OnDisk(file', synced')
  BY <1>1 DEF LInv
<1> QED BY <1>1, <1>2, <1>3, <1>4, WriterStepLogs

\* What is due when the Flush is sent is in front of it.
LEMMA SendFlushLogs ==
    ASSUME TInv, LInv, SendFlush
    PROVE  LInv'
<1> DEFINE S == Records \cup {Flush}
           ahead == Ids(file) \cup Ids(buf)
<1>1. server.pc = "syncing" /\ Up /\ rx \in Seq(S)
  BY DEF SendFlush, Up, TInv
<1>2. writer # "dead"
  BY <1>1 DEF LInv
<1>3. /\ rx' = Append(rx, Flush) /\ due' = applied
      /\ server' = [server EXCEPT !.pc = "waiting"]
      /\ UNCHANGED <<conns, buf, file, synced, writer, applied>>
  BY <1>2 DEF SendFlush
<1>4. server'.pc = "waiting" /\ server'.replied = server.replied /\ Up' /\ ~server.replied
  BY <1>1, <1>3 DEF TInv, ServerStates, Up, LInv, NoFlush
<1>5. Recorded' = Recorded
  <2>1. Flush \in S /\ Flush.id = 0
    BY DEF Flush
  <2> HIDE DEF S
  <2>2. Ids(rx') = Ids(rx) \cup ({Flush.id} \ {0})
    BY <1>1, <1>3, <2>1, IdsAppend
  <2> QED BY <1>3, <2>1, <2>2 DEF Recorded
<1>6. FlushOK(rx', Ids(file') \cup Ids(buf'), due')
  <2>1. \A j \in DOMAIN rx : rx[j] # Flush
    BY <1>1 DEF LInv, NoFlush
  <2>2. applied \subseteq ahead \cup Ids(rx)
    BY <1>1 DEF LInv, Recorded
  <2>3. /\ Len(rx) \in Nat /\ DOMAIN rx = 1 .. Len(rx) /\ DOMAIN rx' = 1 .. Len(rx) + 1
        /\ \A i \in 1 .. Len(rx) : rx'[i] = rx[i]
    BY <1>1, <1>3
  <2> SUFFICES ASSUME NEW j \in DOMAIN rx', rx'[j] = Flush
               PROVE  applied \subseteq ahead \cup {rx'[i].id : i \in 1 .. j - 1}
    BY <1>3 DEF FlushOK
  <2>4. j = Len(rx) + 1
    BY <2>1, <2>3
  <2>5. 1 .. j - 1 = DOMAIN rx
    BY <2>3, <2>4
  <2>6. Ids(rx) \subseteq {rx'[i].id : i \in 1 .. j - 1}
    BY <2>3, <2>5 DEF Ids
  <2> QED BY <2>2, <2>6
<1>7. NoFlush(rx', server')
  BY <1>4 DEF NoFlush
<1>8. applied' \subseteq Recorded' /\ \A c \in Conns : AboutOK(conns'[c], Recorded')
  BY <1>1, <1>3, <1>5 DEF LInv
<1> QED BY <1>2, <1>3, <1>4, <1>6, <1>7, <1>8 DEF LInv

\* The other steps of main.
LEMMA MainLogs ==
    ASSUME TInv, LInv, FlushReturns \/ Shutdown \/ Tick
    PROVE  LInv'
<1>1. /\ UNCHANGED <<conns, rx, buf, file, synced, writer, applied, due>> /\ Recorded' = Recorded
  BY DEF FlushReturns, Shutdown, Tick, Recorded
<1>2. CASE FlushReturns
  <2>1. server'.pc = "done" /\ server'.replied = server.replied /\ Up /\ Up'
    BY <1>2 DEF FlushReturns, TInv, ServerStates, Up
  <2>2. writer # "dead"
    BY <1>2, <2>1 DEF LInv, FlushReturns
  <2>3. server.replied /\ NoFlush(rx', server')
    BY <1>2, <2>1, <2>2 DEF FlushReturns, NoFlush
  <2> QED BY <1>1, <2>1, <2>2, <2>3 DEF LInv
<1>3. CASE Shutdown
  <2>1. server'.pc = "syncing" /\ server'.replied = server.replied /\ Up /\ Up'
    BY <1>3 DEF Shutdown, TInv, ServerStates, Up
  <2>2. writer # "dead" /\ NoFlush(rx', server')
    BY <1>1, <1>3, <2>1 DEF LInv, Shutdown, NoFlush
  <2> QED BY <1>1, <2>1, <2>2 DEF LInv
<1>4. CASE Tick
  BY <1>1, <1>4 DEF LInv, Tick, Up
<1> QED BY <1>2, <1>3, <1>4

\* After a crash or an exit there is no channel and no buffer.
LEMMA EndLogs ==
    ASSUME TInv, LInv, Exit \/ Crash
    PROVE  LInv'
<1>1. server'.pc = "down" /\ rx' = <<>> /\ buf' = <<>>
  BY DEF Exit, Crash, TasksEnd, TInv, ServerStates
<1> QED BY <1>1 DEF LInv, Up, NoFlush

\* A new process has applied nothing but what it has loaded.
LEMMA BootLogs ==
    ASSUME TInv, LInv, Boot
    PROVE  LInv'
<1>1. server'.pc = "running" /\ server'.replied = FALSE /\ Up'
  <2>1. server \in ServerStates /\ server' = [server EXCEPT !.pc = "running", !.replied = FALSE,
                                               !.clean = FALSE, !.boots = @ + 1]
    BY DEF Boot, TInv
  <2> QED BY <2>1 DEF ServerStates, Up
<1>2. rx' = <<>> /\ DOMAIN rx' = {}
  BY DEF Boot, LInv, Up
<1>3. applied' \subseteq Recorded'
  <2>1. PICK kept \in Replayable(file) : applied' = {file[i].id : i \in kept}
    BY DEF Boot
  <2>2. \A i \in kept : i \in DOMAIN file /\ file[i] \in Records
    BY DEF Replayable, TInv
  <2>3. applied' \subseteq Ids(file)
    BY <2>1, <2>2, RecordFacts DEF Ids
  <2> QED BY <2>3 DEF Recorded, Boot
<1>4. \A c \in Conns : AboutOK(conns'[c], Recorded')
  BY DEF Boot, AboutOK, Reading
<1>5. FlushOK(rx', Ids(file') \cup Ids(buf'), due') /\ NoFlush(rx', server') /\ writer' # "dead"
  BY <1>1, <1>2 DEF FlushOK, NoFlush, Boot
<1> QED BY <1>1, <1>3, <1>4, <1>5 DEF LInv

\* One step per action.
LEMMA LInvNext ==
    ASSUME TInv, LInv, ~DiskFails, [Next]_vars
    PROVE  LInv'
<1>1. ASSUME NEW c \in Conns, NEW cmd \in Requests[c], ReadCommand(c, cmd)
      PROVE  LInv'
  BY <1>1, ConnLogs
<1>2. ASSUME NEW c \in Conns, ConnNext(c) \/ Cancel(c)
      PROVE  LInv'
  BY <1>2, RecordCommandLogs, ConnLogs DEF ConnNext
<1>3. CASE WriterNext
  BY <1>3, WriterOpensLogs, WriteRecordLogs, WriteFlushLogs, WriterDrainsLogs DEF WriterNext
<1>4. CASE MainNext \/ Shutdown \/ Tick
  BY <1>4, SendFlushLogs, MainLogs DEF MainNext
<1>5. CASE Exit \/ Crash \/ Boot
  BY <1>5, EndLogs, BootLogs
<1>6. CASE UNCHANGED vars
  BY <1>6 DEF vars, LInv, Recorded, Up
<1> QED BY <1>1, <1>2, <1>3, <1>4, <1>5, <1>6 DEF Next

\* Write ahead: as long as the disk takes what it is given, every write command the
\* database has taken is in the channel, the buffer or the file (record before apply in
\* process_connection), over any number of crashes and restarts.
THEOREM WriteAhead ==
    ASSUME ~DiskFails
    PROVE  Spec => []AppliedAreLogged
<1>1. Init => TInv /\ LInv
  BY TInvInit, LInvInit
<1>2. (TInv /\ LInv) /\ [Next]_vars => (TInv /\ LInv)'
  BY TInvNext, LInvNext
<1>3. TInv /\ LInv => AppliedAreLogged
  BY LogIds DEF LInv, AppliedAreLogged
<1> QED BY <1>1, <1>2, <1>3, PTL DEF Spec

\* When Aof::sync returns, every write command the database had taken before the Flush was
\* sent is on the disk, whichever connection sent it: the channel is first in, first out,
\* and the writer answers only after flush and sync_all.
THEOREM FlushReachesDisk ==
    ASSUME ~DiskFails
    PROVE  Spec => []FlushCoversApplied
<1>1. Init => TInv /\ LInv
  BY TInvInit, LInvInit
<1>2. (TInv /\ LInv) /\ [Next]_vars => (TInv /\ LInv)'
  BY TInvNext, LInvNext
<1>3. TInv /\ LInv => FlushCoversApplied
  BY DEF LInv, FlushCoversApplied, OnDisk, Up
<1> QED BY <1>1, <1>2, <1>3, PTL DEF Spec

-----------------------------------------------------------------------------
(***************************************************************************)
(* When the log rebuilds the database (ReplayRebuilds of Aof): if no two   *)
(* connections write the same key, nothing expires, the disk does not fail *)
(* and no process starts on a file that was cut before it grew.  The runs  *)
(* aof_order, aof_ttl and aof_torn_tail show what happens where a key has  *)
(* two writers, where keys expire and where such a file is loaded.         *)
(***************************************************************************)

\* Where the records of two connections never meet and nothing expires.
Separate ==
    /\ \A c, d \in Conns : \A x \in Requests[c] : \A y \in Requests[d] : c # d => x.key # y.key
    /\ \A c \in Conns : \A x \in Requests[c] : x.ttl = None

\* No process starts on a file that two crashes may have cut: clean restarts only, or one
\* restart.
OneTear == MaxCrashes = 0 \/ MaxBoots <= 1

\* Records, commands and databases without a deadline.
Undated == {r \in Records : r.cmd.ttl = None}
Whole == {r \in Undated : ~r.torn}
UndatedDbs == [Keys -> {e \in DbSlots : e.expires_at = None}]

\* A connection that has recorded a command for k and not applied it yet.
Pending(conn, k) ==
    conn.pc = "apply" /\ is_write(conn.msg.cmd) /\ conn.msg.cmd.key = k

\* What a connection holds is one of its own requests.
HoldsOwn(conn, requests) ==
    conn.pc \in {"record", "apply", "reply"}
      => /\ conn.msg \in Whole
         /\ conn.msg.cmd \in requests
         /\ conn.pc = "record" => is_write(conn.msg.cmd)

\* Where a torn record may be: nowhere without a crash, and before the first restart only
\* at the end of a file nobody has open.
Tears(f, main) ==
    /\ main.crashes = 0 \/ (main.boots = 0 /\ main.pc # "down") => f \in Seq(Whole)
    /\ main.boots = 0 => \A i \in DOMAIN f : f[i].torn => i = Len(f)

\* What memory holds under k, and what the log says it holds.
Follows(rebuilt, d, cs, k) ==
    /\ (\A c \in Conns : ~Pending(cs[c], k)) => rebuilt[k] = d[k]
    /\ \A c \in Conns : Pending(cs[c], k) => rebuilt[k] = Effect(d[k], cs[c].msg.cmd, 0, 0)

RInv ==
    /\ db \in UndatedDbs
    /\ file \in Seq(Undated)
    /\ buf \in Seq(Whole)
    /\ rx \in Seq(Whole \cup {Flush})
    /\ server.crashes <= MaxCrashes
    /\ Tears(file, server)
    /\ \A c \in Conns : HoldsOwn(conns[c], Requests[c])
    /\ Up => \A k \in Keys : Follows(Replay(Log, Intact(Log), 0), db, conns, k)

-----------------------------------------------------------------------------
(* Replaying one record after the other *)

LogRecords == Undated \cup {Flush}

\* What one record does to a database in which nothing expires.
Step(r, d) == IF r.id # 0 /\ ~r.torn THEN Applied(d, r.cmd, 0, 0) ELSE d

\* h is the database before the first record of f, after it, after the second, ...
IsReplay(f, h) ==
    /\ h \in [0 .. Len(f) -> UndatedDbs]
    /\ h[0] = EmptyDb
    /\ \A n \in 1 .. Len(f) : h[n] = Step(f[n], h[n - 1])

\* Without deadlines the instant of a command does not matter.
LEMMA UndatedEffect ==
    ASSUME NEW e \in DbSlots, e.expires_at = None, NEW cmd \in AnyCommand, cmd.ttl = None,
           NEW parsed \in Nat, NEW now \in Nat
    PROVE  /\ Effect(e, cmd, parsed, now) = Effect(e, cmd, 0, 0)
           /\ Effect(e, cmd, 0, 0) \in DbSlots
           /\ Effect(e, cmd, 0, 0).expires_at = None
           /\ cmd.op = "get" => Effect(e, cmd, 0, 0) = e
<1>1. \A t \in Nat : Found(e, t) = e
  BY DEF Found, is_expired
<1>2. \A t \in Nat : Deadline(cmd.ttl, t) = None
  BY DEF Deadline
<1>3. Effect(e, cmd, 0, 0) \in DbSlots
  BY EffectType
<1>4. cmd.op \in Ops
  BY DEF AnyCommand
<1>5. SetEffect(cmd, parsed) = SetEffect(cmd, 0) /\ ExpireEffect(e, cmd, now) = ExpireEffect(e, cmd, 0)
  BY <1>2 DEF SetEffect, ExpireEffect
<1>6. Effect(e, cmd, parsed, now) = Effect(e, cmd, 0, 0)
  BY <1>1, <1>4, <1>5 DEF Effect, Ops
<1>7. cmd.op = "get" => Effect(e, cmd, 0, 0) = e
  BY <1>1 DEF Effect
<1>8. Absent.expires_at = None /\ SetEffect(cmd, 0).expires_at = None
  BY <1>2 DEF Absent, SetEffect, new
<1>9. e = Absent \/ e \in CacheEntries
  BY SlotFacts
<1>10. ExpireEffect(e, cmd, 0).expires_at = None
  BY <1>2, <1>8, <1>9 DEF ExpireEffect, CacheEntries
<1>11. RpushEffect(e, cmd).expires_at = None
  <2>1. CASE e = Absent
    BY <2>1 DEF RpushEffect, new, Absent
  <2>2. CASE e # Absent
    BY <1>9, <2>2 DEF RpushEffect, CacheEntries
  <2> QED BY <2>1, <2>2
<1>12. LpopEffect(e).expires_at = None
  <2>1. CASE e = Absent
    BY <2>1 DEF LpopEffect, Absent
  <2>2. CASE e # Absent
    BY <1>8, <1>9, <2>2 DEF LpopEffect, CacheEntries
  <2> QED BY <2>1, <2>2
<1>13. Effect(e, cmd, 0, 0).expires_at = None
  BY <1>1, <1>4, <1>8, <1>10, <1>11, <1>12 DEF Effect, Ops
<1> QED BY <1>3, <1>6, <1>7, <1>13

\* A command without a deadline leaves a database without deadlines.
LEMMA UndatedApplied ==
    ASSUME NEW d \in UndatedDbs, NEW cmd \in AnyCommand, cmd.ttl = None,
           NEW parsed \in Nat, NEW now \in Nat
    PROVE  /\ Applied(d, cmd, parsed, now) = Applied(d, cmd, 0, 0)
           /\ Applied(d, cmd, 0, 0) \in UndatedDbs
           /\ Applied(d, cmd, 0, 0)[cmd.key] = Effect(d[cmd.key], cmd, 0, 0)
           /\ \A k \in Keys \ {cmd.key} : Applied(d, cmd, 0, 0)[k] = d[k]
<1>1. cmd.key \in Keys
  BY DEF AnyCommand
<1>2. d[cmd.key] \in DbSlots /\ d[cmd.key].expires_at = None
  BY <1>1 DEF UndatedDbs
<1>3. Effect(d[cmd.key], cmd, parsed, now) = Effect(d[cmd.key], cmd, 0, 0)
  BY <1>2, UndatedEffect
<1>4. Effect(d[cmd.key], cmd, 0, 0) \in {e \in DbSlots : e.expires_at = None}
  BY <1>2, UndatedEffect
<1> DEFINE v == Effect(d[cmd.key], cmd, 0, 0)
<1>5. Applied(d, cmd, parsed, now) = [d EXCEPT ![cmd.key] = v] /\ Applied(d, cmd, 0, 0) = [d EXCEPT ![cmd.key] = v]
  BY <1>3 DEF Applied
<1> HIDE DEF v
<1>6. d \in [Keys -> {e \in DbSlots : e.expires_at = None}] /\ v \in {e \in DbSlots : e.expires_at = None}
  BY <1>4 DEF UndatedDbs, v
<1> DEFINE E == {e \in DbSlots : e.expires_at = None}
<1> HIDE DEF E
<1>7. [d EXCEPT ![cmd.key] = v] \in [Keys -> E] /\ [d EXCEPT ![cmd.key] = v][cmd.key] = v
      /\ \A k \in Keys \ {cmd.key} : [d EXCEPT ![cmd.key] = v][k] = d[k]
  BY <1>1, <1>6 DEF E
<1> QED BY <1>5, <1>7 DEF E, UndatedDbs, v

\* So does a record, torn or not.
LEMMA StepType ==
    ASSUME NEW r \in LogRecords, NEW d \in UndatedDbs
    PROVE  Step(r, d) \in UndatedDbs
<1>1. CASE r = Flush
  BY <1>1 DEF Step, Flush
<1>2. CASE r \in Undated
  <2>1. r.cmd \in AnyCommand /\ r.cmd.ttl = None
    BY <1>2 DEF Undated, Records
  <2> QED BY <2>1, UndatedApplied DEF Step
<1> QED BY <1>1, <1>2 DEF LogRecords

\* An empty database has no deadlines.
LEMMA EmptyUndated == EmptyDb \in UndatedDbs
<1>1. Absent \in DbSlots /\ Absent.expires_at = None
  BY DEF DbSlots, Absent
<1> QED BY <1>1 DEF EmptyDb, UndatedDbs

\* Every log has its sequence of databases.
LEMMA ReplayExists ==
    ASSUME NEW f \in Seq(LogRecords)
    PROVE  \E h : IsReplay(f, h)
<1> DEFINE N == Len(f)
           G == [n \in 1 .. N |-> [d \in UndatedDbs |-> Step(f[n], d)]]
<1>1. N \in Nat /\ \A n \in 1 .. N : f[n] \in LogRecords
  OBVIOUS
<1> HIDE DEF N
<1>2. G \in [1 .. N -> [UndatedDbs -> UndatedDbs]]
  BY <1>1, StepType
<1>3. PICK h : Iteration(h, N, UndatedDbs, EmptyDb, G)
  <2> HIDE DEF G
  <2> QED BY <1>1, <1>2, EmptyUndated, Iterates
<1>4. h \in [0 .. N -> UndatedDbs] /\ h[0] = EmptyDb /\ \A n \in 1 .. N : h[n] = G[n][h[n - 1]]
  <2> HIDE DEF G
  <2> QED BY <1>3 DEF Iteration
<1>5. ASSUME NEW n \in 1 .. N
      PROVE  h[n] = Step(f[n], h[n - 1])
  <2>1. n - 1 \in 0 .. N
    BY <1>1
  <2>2. h[n - 1] \in UndatedDbs
    BY <1>4, <2>1
  <2> QED BY <1>4, <2>2
<1>6. IsReplay(f, h)
  BY <1>4, <1>5 DEF IsReplay, N
<1> QED BY <1>6

\* The recursion of load computes what replaying one record after the other does.
LEMMA ReplayIs ==
    ASSUME NEW f \in Seq(LogRecords), NEW h, IsReplay(f, h), NEW now \in Nat
    PROVE  Replay(f, Intact(f), now) = h[Len(f)]
<1> DEFINE N == Len(f)
           P == Intact(f)
<1>1. N \in Nat /\ DOMAIN f = 1 .. N /\ (\A n \in 1 .. N : f[n] \in LogRecords)
  OBVIOUS
<1>2. f \in Seq(Records \cup {Flush}) /\ \A n \in P : f[n] \in Records
  BY DEF LogRecords, Undated, Intact, Flush
<1>3. PICK g \in [0 .. N -> Dbs] :
        /\ g[0] = EmptyDb
        /\ \A n \in 1 .. N : g[n] = ReplayStep(f, P, now, n, g[n - 1])
        /\ Replay(f, P, now) = g[N]
  BY <1>2, ReplaySteps
<1>4. /\ h \in [0 .. N -> UndatedDbs] /\ h[0] = EmptyDb
      /\ \A n \in 1 .. N : h[n] = Step(f[n], h[n - 1])
  BY DEF IsReplay
<1>5. ASSUME NEW n \in 1 .. N, NEW d \in UndatedDbs
      PROVE  ReplayStep(f, P, now, n, d) = Step(f[n], d)
  <2>1. CASE n \in P
    <3>1. f[n] \in Undated /\ f[n].id # 0 /\ ~f[n].torn
      BY <1>1, <2>1 DEF Intact, LogRecords, Flush
    <3>2. f[n].cmd \in AnyCommand /\ f[n].cmd.ttl = None
      BY <3>1 DEF Undated, Records
    <3>3. Applied(d, f[n].cmd, now, now) = Applied(d, f[n].cmd, 0, 0)
      BY <3>2, UndatedApplied
    <3> QED BY <2>1, <3>1, <3>3 DEF ReplayStep, Step
  <2>2. CASE n \notin P
    <3>1. ~(f[n].id # 0 /\ ~f[n].torn)
      BY <1>1, <2>2 DEF Intact
    <3> QED BY <2>2, <3>1 DEF ReplayStep, Step
  <2> QED BY <2>1, <2>2
<1> HIDE DEF N, P
<1>6. \A n \in 0 .. N : g[n] = h[n]
  <2> DEFINE T == {n \in 0 .. N : g[n] # h[n]}
  <2> SUFFICES ASSUME T # {}
               PROVE  FALSE
    OBVIOUS
  <2>1. T \in SUBSET Nat
    BY <1>1
  <2>2. PICK m \in T : \A n \in T : m <= n
    <3> HIDE DEF T
    <3> QED BY <2>1, LeastNat
  <2>3. m \in 0 .. N /\ g[m] # h[m] /\ m # 0
    BY <1>3, <1>4
  <2>4. m \in 1 .. N /\ m - 1 \in 0 .. N /\ ~(m <= m - 1)
    BY <1>1, <2>3
  <2>5. g[m - 1] = h[m - 1] /\ h[m - 1] \in UndatedDbs
    BY <1>4, <2>2, <2>4
  <2>6. g[m] = ReplayStep(f, P, now, m, g[m - 1]) /\ h[m] = Step(f[m], h[m - 1])
    BY <1>3, <1>4, <2>4
  <2> QED BY <1>5, <2>3, <2>4, <2>5, <2>6
<1> QED BY <1>1, <1>3, <1>6 DEF N, P

\* The database a log describes.
Rebuilt(f) == Replay(f, Intact(f), 0)

\* What the replay of a log is: the last database of that sequence.
LEMMA RebuiltFacts ==
    ASSUME NEW f \in Seq(LogRecords), NEW now \in Nat
    PROVE  Rebuilt(f) \in UndatedDbs /\ Replay(f, Intact(f), now) = Rebuilt(f)
<1>1. PICK h : IsReplay(f, h)
  BY ReplayExists
<1>2. h[Len(f)] \in UndatedDbs
  <2>1. h \in [0 .. Len(f) -> UndatedDbs] /\ Len(f) \in Nat
    BY <1>1 DEF IsReplay
  <2> QED BY <2>1
<1>3. Replay(f, Intact(f), now) = h[Len(f)] /\ Replay(f, Intact(f), 0) = h[Len(f)]
  BY <1>1, ReplayIs
<1> QED BY <1>2, <1>3 DEF Rebuilt

\* A record at the end of the log is replayed last.
LEMMA RebuiltAppend ==
    ASSUME NEW f \in Seq(LogRecords), NEW r \in LogRecords
    PROVE  Rebuilt(Append(f, r)) = Step(r, Rebuilt(f))
<1> DEFINE N == Len(f)
           t == Append(f, r)
<1>1. /\ N \in Nat /\ t \in Seq(LogRecords) /\ Len(t) = N + 1 /\ t[N + 1] = r
      /\ \A n \in 1 .. N : t[n] = f[n]
  OBVIOUS
<1>2. PICK g : IsReplay(f, g)
  BY ReplayExists
<1>3. Rebuilt(f) = g[N]
  BY <1>2, ReplayIs DEF Rebuilt
<1>4. /\ g \in [0 .. N -> UndatedDbs] /\ g[0] = EmptyDb
      /\ \A n \in 1 .. N : g[n] = Step(f[n], g[n - 1])
  BY <1>2 DEF IsReplay
<1> HIDE DEF N, t
<1> DEFINE last == Step(r, g[N])
           h == [n \in 0 .. N + 1 |-> IF n = N + 1 THEN last ELSE g[n]]
<1>5. last \in UndatedDbs
  BY <1>1, <1>4, StepType
<1>6. h \in [0 .. N + 1 -> UndatedDbs] /\ h[0] = EmptyDb
  <2> HIDE DEF last
  <2> QED BY <1>1, <1>4, <1>5
<1>7. ASSUME NEW n \in 1 .. N + 1
      PROVE  h[n] = Step(t[n], h[n - 1])
  <2>1. CASE n = N + 1
    <3>1. h[n] = last /\ h[n - 1] = g[N] /\ t[n] = r
      BY <1>1, <2>1
    <3> QED BY <3>1
  <2>2. CASE n # N + 1
    <3>1. n \in 1 .. N /\ h[n] = g[n] /\ h[n - 1] = g[n - 1] /\ t[n] = f[n]
      BY <1>1, <2>2
    <3> QED BY <1>4, <3>1
  <2> QED BY <2>1, <2>2
<1>8. h[N + 1] = last
  BY <1>1
<1> HIDE DEF h
<1>9. IsReplay(t, h)
  BY <1>1, <1>6, <1>7 DEF IsReplay
<1>10. Rebuilt(t) = h[Len(t)]
  BY <1>1, <1>9, ReplayIs DEF Rebuilt
<1> QED BY <1>1, <1>3, <1>8, <1>10 DEF t

\* A Flush leaves no trace: the log describes the same database once it is taken out.
LEMMA RebuiltWithoutFlush ==
    ASSUME NEW a \in Seq(LogRecords), NEW b \in Seq(LogRecords)
    PROVE  Rebuilt(a \o (<<Flush>> \o b)) = Rebuilt(a \o b)
<1> DEFINE p == Len(a)
           f == a \o b
           t == a \o (<<Flush>> \o b)
           N == Len(f)
<1>1. /\ p \in Nat /\ Len(b) \in Nat /\ N = p + Len(b)
      /\ f \in Seq(LogRecords) /\ \A n \in 1 .. p : f[n] = a[n]
      /\ \A n \in 1 .. Len(b) : f[p + n] = b[n]
  OBVIOUS
<1>2. /\ t \in Seq(LogRecords) /\ Len(t) = N + 1 /\ t[p + 1] = Flush
      /\ \A n \in 1 .. p : t[n] = a[n]
      /\ \A n \in 1 .. Len(b) : t[p + 1 + n] = b[n]
  <2> DEFINE w == <<Flush>> \o b
  <2>1. Flush \in LogRecords
    BY DEF LogRecords
  <2> DEFINE u == <<Flush>>
  <2>2. u \in Seq(LogRecords) /\ Len(u) = 1 /\ u[1] = Flush
    BY <2>1
  <2>3. w = u \o b
    OBVIOUS
  <2> HIDE DEF u, w
  <2>4. w \in Seq(LogRecords) /\ Len(w) = Len(b) + 1 /\ w[1] = Flush
        /\ \A n \in 1 .. Len(b) : w[n + 1] = b[n]
    <3> DEFINE v == u \o b
    <3>1. /\ v \in Seq(LogRecords) /\ Len(v) = Len(u) + Len(b) /\ Len(b) \in Nat
          /\ \A n \in 1 .. Len(u) : v[n] = u[n]
          /\ \A n \in 1 .. Len(b) : v[Len(u) + n] = b[n]
      BY SMTT(30), <2>2, Joined
    <3>2. w = v
      BY <2>3
    <3> HIDE DEF v
    <3>3. \A n \in 1 .. Len(b) : Len(u) + n = n + 1
      BY <2>2, <3>1
    <3> QED BY <2>2, <3>1, <3>2, <3>3
  <2>5. /\ a \o w \in Seq(LogRecords) /\ Len(a \o w) = p + Len(w)
        /\ \A n \in 1 .. p : (a \o w)[n] = a[n]
        /\ \A n \in 1 .. Len(w) : (a \o w)[p + n] = w[n]
    <3> DEFINE v == a \o w
    <3>0. w \in Seq(LogRecords)
      BY <2>4
    <3>1. /\ v \in Seq(LogRecords) /\ Len(v) = Len(a) + Len(w)
          /\ \A n \in 1 .. Len(a) : v[n] = a[n]
          /\ \A n \in 1 .. Len(w) : v[Len(a) + n] = w[n]
      BY <3>0, Joined
    <3> HIDE DEF v
    <3> QED BY <3>1 DEF v
  <2>6. t = a \o w
    BY DEF w
  <2> HIDE DEF p, N, t
  <2>7. Len(t) = N + 1 /\ t[p + 1] = Flush
    BY <1>1, <2>4, <2>5, <2>6
  <2>8. ASSUME NEW n \in 1 .. Len(b)
        PROVE  t[p + 1 + n] = b[n]
    <3>1. n + 1 \in 1 .. Len(w) /\ p + (n + 1) = p + 1 + n
      BY <1>1, <2>4
    <3> QED BY <2>4, <2>5, <2>6, <3>1
  <2> QED BY <2>5, <2>6, <2>7, <2>8
<1>3. PICK g : IsReplay(f, g)
  BY <1>1, ReplayExists
<1>4. Rebuilt(f) = g[N]
  BY <1>1, <1>3, ReplayIs DEF Rebuilt
<1>5. /\ g \in [0 .. N -> UndatedDbs] /\ g[0] = EmptyDb
      /\ \A n \in 1 .. N : g[n] = Step(f[n], g[n - 1])
  BY <1>3 DEF IsReplay
<1> HIDE DEF p, f, t, N
<1> DEFINE h == [n \in 0 .. N + 1 |-> IF n <= p THEN g[n] ELSE g[n - 1]]
<1>6. h \in [0 .. N + 1 -> UndatedDbs] /\ h[0] = EmptyDb /\ h[N + 1] = g[N]
  BY <1>1, <1>5
<1>7. ASSUME NEW n \in 1 .. N + 1
      PROVE  h[n] = Step(t[n], h[n - 1])
  <2>1. CASE n <= p
    <3>1. n \in 1 .. N /\ n \in 1 .. p /\ h[n] = g[n] /\ h[n - 1] = g[n - 1]
      BY <1>1, <2>1
    <3>2. t[n] = f[n]
      BY <1>1, <1>2, <3>1
    <3> QED BY <1>5, <3>1, <3>2
  <2>2. CASE n = p + 1
    <3>1. h[n] = g[p] /\ h[n - 1] = g[p]
      BY <1>1, <2>2
    <3> QED BY <1>2, <2>2, <3>1 DEF Step, Flush
  <2>3. CASE n > p + 1
    <3> DEFINE i == n - (p + 1)
    <3>1. i \in 1 .. Len(b) /\ p + 1 + i = n /\ p + i = n - 1 /\ n - 1 \in 1 .. N
      BY <1>1, <2>3
    <3>2. t[n] = f[n - 1]
      <4> HIDE DEF i
      <4> QED BY <1>1, <1>2, <3>1
    <3>3. h[n] = g[n - 1] /\ h[n - 1] = g[(n - 1) - 1]
      BY <1>1, <2>3
    <3> QED BY <1>5, <3>1, <3>2, <3>3
  <2> QED BY <1>1, <2>1, <2>2, <2>3
<1> HIDE DEF h
<1>8. IsReplay(t, h)
  BY <1>2, <1>6, <1>7 DEF IsReplay
<1>9. Rebuilt(t) = h[Len(t)]
  BY <1>2, <1>8, ReplayIs DEF Rebuilt
<1> QED BY <1>2, <1>4, <1>6, <1>9 DEF f, t

-----------------------------------------------------------------------------
(* The log as the tasks move its records *)

\* However file, buffer and channel share h, the log reads the same.
SameLog(f, b, t, h) ==
    /\ (f \o Append(b, h)) \o t = (f \o b) \o (<<h>> \o t)
    /\ ((f \o b) \o <<h>>) \o t = (f \o b) \o (<<h>> \o t)
    /\ (Append(f \o b, h) \o <<>>) \o t = (f \o b) \o (<<h>> \o t)
    /\ (f \o b) \o Append(t, h) = Append((f \o b) \o t, h)

\* Associativity of the log under each move of a record.
LEMMA LogShapes ==
    ASSUME NEW S, NEW f \in Seq(S), NEW b \in Seq(S), NEW t \in Seq(S), NEW h \in S
    PROVE  SameLog(f, b, t, h)
<1> DEFINE u == <<h>>
           w == f \o b
           a == Append(w, h)
           v == w \o t
<1>1. u \in Seq(S)
  OBVIOUS
<1>2. Append(b, h) = b \o u /\ Append(t, h) = t \o u
  BY AppendIsConcat
<1>3. w \in Seq(S)
  BY ConcatProperties
<1>4. f \o (b \o u) = w \o u
  <2> HIDE DEF u
  <2> QED BY SMTT(30), <1>1
<1> HIDE DEF w
<1>5. a = w \o u /\ a \in Seq(S)
  BY <1>3, AppendIsConcat, AppendProperties
<1>6. v \in Seq(S)
  BY <1>3, ConcatProperties
<1>7. Append(v, h) = v \o u
  <2> HIDE DEF v
  <2> QED BY <1>6, AppendIsConcat
<1> HIDE DEF u, a
<1>8. (w \o u) \o t = w \o (u \o t)
  BY <1>1, <1>3
<1>9. w \o (t \o u) = v \o u
  BY <1>1, <1>3
<1>10. w \o <<>> = w /\ a \o <<>> = a
  BY <1>3, <1>5, ConcatEmptySeq
<1> HIDE DEF v
<1> QED BY <1>2, <1>5, <1>7, <1>4, <1>8, <1>10, <1>9 DEF u, w, a, v, SameLog

\* A channel is its first message and the rest.
LEMMA HeadAndTail ==
    ASSUME NEW S, NEW s \in Seq(S), s # <<>>
    PROVE  s = <<Head(s)>> \o Tail(s) /\ Head(s) \in S /\ Tail(s) \in Seq(S)
OBVIOUS

\* Every part of the log, and the log, consist of undated records and Flushes.
LEMMA LogTypes ==
    ASSUME RInv
    PROVE  /\ file \in Seq(LogRecords) /\ buf \in Seq(LogRecords) /\ rx \in Seq(LogRecords)
           /\ file \o buf \in Seq(LogRecords)
           /\ Log \in Seq(LogRecords)
           /\ Log = (file \o buf) \o rx
<1>1. file \in Seq(LogRecords) /\ buf \in Seq(LogRecords) /\ rx \in Seq(LogRecords)
  BY DEF RInv, LogRecords, Whole
<1>2. file \o buf \in Seq(LogRecords)
  BY <1>1, ConcatProperties
<1> DEFINE w == file \o buf
<1> HIDE DEF w
<1>3. w \o rx \in Seq(LogRecords)
  BY <1>1, <1>2, ConcatProperties DEF w
<1> QED BY <1>1, <1>2, <1>3 DEF Log, w

\* The writer moves records along the log and leaves their order alone.
LEMMA WriteRecordKeepsLog ==
    ASSUME RInv, WriteRecord, ~DiskFails
    PROVE  Log' = Log
<1> DEFINE h == Head(rx)
           t == Tail(rx)
<1>1. rx' = t /\ rx # <<>>
  BY DEF WriteRecord
<1>2. file \in Seq(LogRecords) /\ buf \in Seq(LogRecords) /\ rx \in Seq(LogRecords)
  BY LogTypes
<1>3. h \in LogRecords /\ t \in Seq(LogRecords) /\ rx = <<h>> \o t
  BY <1>1, <1>2, HeadAndTail
<1>4. \/ buf' = Append(buf, h) /\ file' = file
      \/ file' = file \o buf /\ buf' = <<h>>
      \/ file' = Append(file \o buf, h) /\ buf' = <<>>
  BY DEF WriteRecord
<1>5. Log = (file \o buf) \o rx /\ Log' = (file' \o buf') \o rx'
  BY LogTypes DEF Log
<1> HIDE DEF h, t
<1>6. SameLog(file, buf, t, h)
  BY <1>2, <1>3, LogShapes
<1>7. CASE buf' = Append(buf, h) /\ file' = file
  BY <1>1, <1>3, <1>5, <1>7, <1>6 DEF SameLog
<1>8. CASE file' = file \o buf /\ buf' = <<h>>
  BY <1>1, <1>3, <1>5, <1>8, <1>6 DEF SameLog
<1>9. CASE file' = Append(file \o buf, h) /\ buf' = <<>>
  BY <1>1, <1>3, <1>5, <1>9, <1>6 DEF SameLog
<1> QED BY <1>4, <1>7, <1>8, <1>9

\* Taking the Flush out of the channel does not change what the log describes.
LEMMA WriteFlushKeepsRebuilt ==
    ASSUME RInv, WriteFlush, ~DiskFails
    PROVE  Rebuilt(Log)' = Rebuilt(Log)
<1> DEFINE t == Tail(rx)
           w == file \o buf
<1>1. rx' = t /\ rx # <<>> /\ Head(rx) = Flush /\ file' = w /\ buf' = <<>>
  BY DEF WriteFlush, Synced
<1>2. file \in Seq(LogRecords) /\ buf \in Seq(LogRecords) /\ rx \in Seq(LogRecords) /\ w \in Seq(LogRecords)
  BY LogTypes
<1>3. Flush \in LogRecords /\ t \in Seq(LogRecords) /\ rx = <<Flush>> \o t
  BY <1>1, <1>2, HeadAndTail
<1>4. Log = w \o rx /\ Log' = (w \o <<>>) \o t
  BY <1>1, LogTypes DEF Log
<1> HIDE DEF t, w
<1>5. w \o <<>> = w
  BY <1>2, ConcatEmptySeq
<1>6. Rebuilt(w \o (<<Flush>> \o t)) = Rebuilt(w \o t)
  BY <1>2, <1>3, RebuiltWithoutFlush
<1>7. Rebuilt(Log') = Rebuilt(Log)
  BY <1>3, <1>4, <1>5, <1>6
<1>8. Rebuilt(Log)' = Rebuilt(Log')
  BY DEF Rebuilt
<1> QED BY <1>7, <1>8

\* Draining moves the buffer into the file and nothing else.
LEMMA WriterDrainsKeepsLog ==
    ASSUME RInv, WriterDrains, ~DiskFails
    PROVE  Log' = Log
<1> DEFINE w == file \o buf
<1>1. rx' = rx /\ file' = w /\ buf' = <<>>
  BY DEF WriterDrains, Synced
<1>2. w \in Seq(LogRecords)
  BY LogTypes
<1>3. Log = w \o rx /\ Log' = (w \o <<>>) \o rx
  BY <1>1, LogTypes DEF Log
<1> HIDE DEF w
<1>4. w \o <<>> = w
  BY <1>2, ConcatEmptySeq
<1> QED BY <1>3, <1>4

\* A message sent to the writer is the end of the log.
LEMMA SendExtendsLog ==
    ASSUME RInv, NEW r \in LogRecords, rx' = Append(rx, r), UNCHANGED <<file, buf>>
    PROVE  Rebuilt(Log)' = Step(r, Rebuilt(Log))
<1> DEFINE w == file \o buf
<1>1. file \in Seq(LogRecords) /\ buf \in Seq(LogRecords) /\ rx \in Seq(LogRecords)
  BY LogTypes
<1>2. Log' = (file \o buf) \o Append(rx, r) /\ Log = (file \o buf) \o rx /\ Log \in Seq(LogRecords)
  BY LogTypes DEF Log
<1>3. (file \o buf) \o Append(rx, r) = Append((file \o buf) \o rx, r)
  <2>1. SameLog(file, buf, rx, r)
    BY <1>1, LogShapes
  <2> QED BY <2>1 DEF SameLog
<1>4. Log' = Append(Log, r)
  BY <1>2, <1>3
<1>5. Rebuilt(Append(Log, r)) = Step(r, Rebuilt(Log))
  BY <1>2, RebuiltAppend
<1>6. Rebuilt(Log)' = Rebuilt(Log')
  BY DEF Rebuilt
<1> QED BY <1>4, <1>5, <1>6

-----------------------------------------------------------------------------
(* What memory holds and what the log says of it *)

\* RInv's last conjunct speaks of Rebuilt(Log).
LEMMA FollowsNow ==
    ASSUME RInv, Up, NEW k \in Keys
    PROVE  Follows(Rebuilt(Log), db, conns, k)
BY DEF RInv, Rebuilt

\* A step of a connection that has nothing pending for k, before or after.
LEMMA FollowsQuiet ==
    ASSUME NEW cs \in [Conns -> ConnStates], NEW c \in Conns, NEW state, NEW k,
           NEW rebuilt, NEW d, Follows(rebuilt, d, cs, k),
           ~Pending(cs[c], k), ~Pending(state, k)
    PROVE  Follows(rebuilt, d, [cs EXCEPT ![c] = state], k)
<1> DEFINE ds == [cs EXCEPT ![c] = state]
<1>1. ds[c] = state /\ \A x \in Conns : x # c => ds[x] = cs[x]
  OBVIOUS
<1> HIDE DEF ds
<1>2. ASSUME \A x \in Conns : ~Pending(ds[x], k)
      PROVE  rebuilt[k] = d[k]
  <2>1. \A x \in Conns : ~Pending(cs[x], k)
    BY <1>1, <1>2
  <2> QED BY <2>1 DEF Follows
<1>3. ASSUME NEW x \in Conns, Pending(ds[x], k)
      PROVE  rebuilt[k] = Effect(d[k], ds[x].msg.cmd, 0, 0)
  <2>1. ds[x] = cs[x]
    BY <1>1, <1>3
  <2> QED BY <1>3, <2>1 DEF Follows
<1>4. Follows(rebuilt, d, ds, k)
  BY <1>2, <1>3 DEF Follows
<1> QED BY <1>4 DEF ds

\* Only one connection has a command for a key.
LEMMA OwnsKey ==
    ASSUME RInv, Separate, NEW c \in Conns, NEW x \in Requests[c], NEW d \in Conns, d # c
    PROVE  ~Pending(conns[d], x.key)
<1> SUFFICES ASSUME Pending(conns[d], x.key)
             PROVE  FALSE
  OBVIOUS
<1>1. conns[d].pc = "apply" /\ conns[d].msg.cmd.key = x.key
  BY DEF Pending
<1>2. conns[d].msg.cmd \in Requests[d]
  BY <1>1 DEF RInv, HoldsOwn
<1> QED BY <1>1, <1>2 DEF Separate

\* The parts of RInv that a connection's step keeps.
LEMMA HoldsStep ==
    ASSUME TInv, RInv, NEW c \in Conns, NEW state, ConnStep(c, state),
           HoldsOwn(state, Requests[c])
    PROVE  \A d \in Conns : HoldsOwn(conns'[d], Requests[d])
<1>1. conns \in [Conns -> ConnStates] /\ conns' = [conns EXCEPT ![c] = state]
  BY DEF TInv, ConnStep
<1> QED BY <1>1 DEF RInv

\* A connection that reads, answers or goes away.
LEMMA QuietReplays ==
    ASSUME TInv, RInv, NEW c \in Conns, NEW state, ConnStep(c, state),
           HoldsOwn(state, Requests[c]),
           \A k \in Keys : ~Pending(state, k) /\ ~Pending(conns[c], k),
           server'.crashes = server.crashes, server'.boots = server.boots,
           server'.pc = server.pc, UNCHANGED <<db, rx, buf, file>>
    PROVE  RInv'
<1>1. conns \in [Conns -> ConnStates] /\ conns' = [conns EXCEPT ![c] = state] /\ Up
  BY DEF TInv, ConnStep
<1>2. \A d \in Conns : HoldsOwn(conns'[d], Requests[d])
  BY HoldsStep
<1>3. ASSUME NEW k \in Keys
      PROVE  Follows(Rebuilt(Log)', db', conns', k)
  <2>1. Rebuilt(Log)' = Rebuilt(Log)
    BY DEF Rebuilt, Log
  <2>2. Follows(Rebuilt(Log), db, [conns EXCEPT ![c] = state], k)
    BY <1>1, FollowsNow, FollowsQuiet
  <2> QED BY <1>1, <2>1, <2>2
<1>4. Tears(file', server')
  BY DEF Tears, RInv
<1> QED BY <1>2, <1>3, <1>4 DEF RInv, Rebuilt

\* A command that is read is not yet recorded.
LEMMA ReadReplays ==
    ASSUME TInv, RInv, Separate, NEW c \in Conns, NEW cmd \in Requests[c], ReadCommand(c, cmd)
    PROVE  RInv'
<1> DEFINE n == server.sent + 1
           r == Record(n, cmd)
           state == [pc |-> IF is_write(cmd) THEN "record" ELSE "apply",
                     msg |-> r, parsed |-> clock]
<1>1. cmd \in AnyCommand /\ cmd.ttl = None
  BY AofAssumption DEF Separate
<1>2. n \in Nat \ {0}
  BY DEF TInv, ServerStates
<1>3. ConnStep(c, state) /\ conns[c].pc = "read"
  BY DEF ReadCommand
<1>4. /\ server'.crashes = server.crashes /\ server'.boots = server.boots
      /\ server'.pc = server.pc /\ UNCHANGED <<db, rx, buf, file>>
  BY DEF ReadCommand, TInv, ServerStates
<1> HIDE DEF n
<1>5. r \in Whole /\ r.cmd = cmd
  BY <1>1, <1>2 DEF Record, Records, Undated, Whole
<1> HIDE DEF r
<1>6. HoldsOwn(state, Requests[c])
  BY <1>5 DEF HoldsOwn
<1>7. \A k \in Keys : ~Pending(state, k) /\ ~Pending(conns[c], k)
  BY <1>3, <1>5 DEF Pending
<1> HIDE DEF state
<1> QED BY <1>3, <1>4, <1>6, <1>7, QuietReplays

\* A task that answers or ends holds no recorded command.
LEMMA AnswerReplays ==
    ASSUME TInv, RInv, NEW c \in Conns, Reply(c) \/ Cancel(c)
    PROVE  RInv'
<1>1. \A k \in Keys : ~Pending(conns[c], k)
  BY DEF Reply, Cancel, Pending
<1>2. Reading.pc = "read" /\ Gone.pc = "gone"
  BY DEF Reading, Gone
<1>3. \A k \in Keys : ~Pending(Reading, k) /\ ~Pending(Gone, k)
  BY <1>2 DEF Pending
<1>4. HoldsOwn(Reading, Requests[c]) /\ HoldsOwn(Gone, Requests[c])
  BY <1>2 DEF HoldsOwn
<1>5. (ConnStep(c, Reading) \/ ConnStep(c, Gone)) /\ UNCHANGED <<db, rx, buf, file, server>>
  BY DEF Reply, Cancel
<1> QED BY <1>1, <1>3, <1>4, <1>5, QuietReplays

\* The database catches up with the log at the key of the command.
LEMMA ApplyReplays ==
    ASSUME TInv, RInv, Separate, NEW c \in Conns, ApplyCommand(c)
    PROVE  RInv'
<1> DEFINE state == [conns[c] EXCEPT !.pc = "reply"]
           cmd == conns[c].msg.cmd
<1>1. conns \in [Conns -> ConnStates] /\ conns[c] \in ConnStates /\ conns[c].pc = "apply"
  BY DEF TInv, ApplyCommand
<1>2. state.pc = "reply" /\ state.msg = conns[c].msg
  BY <1>1, ConnTypes
<1>3. /\ ConnStep(c, state) /\ Up /\ conns' = [conns EXCEPT ![c] = state]
      /\ UNCHANGED <<rx, buf, file, server>>
      /\ db' = Applied(db, cmd, conns[c].parsed, clock)
  BY DEF ApplyCommand, ConnStep
<1>4. conns[c].msg \in Whole /\ cmd \in Requests[c]
  BY <1>1 DEF RInv, HoldsOwn
<1>5. cmd \in AnyCommand /\ cmd.ttl = None
  BY <1>4 DEF Whole, Undated, Records
<1>6. HoldsOwn(state, Requests[c]) /\ \A k \in Keys : ~Pending(state, k)
  BY <1>2, <1>4 DEF HoldsOwn, Pending
<1>7. /\ db \in UndatedDbs /\ db' \in UndatedDbs
      /\ db'[cmd.key] = Effect(db[cmd.key], cmd, 0, 0)
      /\ \A k \in Keys \ {cmd.key} : db'[k] = db[k]
  <2>1. db \in UndatedDbs /\ clock \in Nat /\ conns[c].parsed \in Nat
    BY <1>1 DEF RInv, TInv, ConnStates
  <2> HIDE DEF cmd
  <2> QED BY <1>3, <1>5, <2>1, UndatedApplied
<1>8. Rebuilt(Log)' = Rebuilt(Log)
  BY <1>3 DEF Rebuilt, Log
<1>9. \A d \in Conns : HoldsOwn(conns'[d], Requests[d])
  <2> HIDE DEF state
  <2> QED BY <1>3, <1>6, HoldsStep
<1> HIDE DEF state
<1>10. ASSUME NEW k \in Keys
       PROVE  Follows(Rebuilt(Log), db', conns', k)
  <2>1. Follows(Rebuilt(Log), db, conns, k)
    BY <1>3, FollowsNow
  <2>2. CASE ~Pending(conns[c], k)
    <3>1. db'[k] = db[k]
      <4>1. CASE k = cmd.key
        <5>1. cmd.op = "get"
          BY <1>1, <1>5, <2>2, <4>1 DEF Pending, is_write, AnyCommand, Ops
        <5>2. db[k] \in DbSlots /\ db[k].expires_at = None
          BY <1>7 DEF UndatedDbs
        <5>3. Effect(db[k], cmd, 0, 0) = db[k]
          <6> HIDE DEF cmd
          <6> QED BY <1>5, <5>1, <5>2, UndatedEffect
        <5> QED BY <1>7, <4>1, <5>3
      <4>2. CASE k # cmd.key
        BY <1>7, <4>2
      <4> QED BY <4>1, <4>2
    <3>2. Follows(Rebuilt(Log), db, conns', k)
      BY <1>1, <1>3, <1>6, <2>1, <2>2, FollowsQuiet
    <3> QED BY <3>1, <3>2 DEF Follows
  <2>3. CASE Pending(conns[c], k)
    <3>1. k = cmd.key
      BY <2>3 DEF Pending
    <3>2. Rebuilt(Log)[k] = db'[k]
      BY <1>7, <2>1, <2>3, <3>1 DEF Follows
    <3>3. ASSUME NEW d \in Conns
          PROVE  ~Pending(conns'[d], k)
      <4>1. CASE d = c
        BY <1>1, <1>3, <1>6, <4>1
      <4>2. CASE d # c
        <5>1. conns'[d] = conns[d]
          BY <1>1, <1>3, <4>2
        <5>2. ~Pending(conns[d], cmd.key)
          <6> HIDE DEF cmd
          <6> QED BY <1>4, <4>2, OwnsKey
        <5> QED BY <3>1, <5>1, <5>2
      <4> QED BY <4>1, <4>2
    <3> QED BY <3>2, <3>3 DEF Follows
  <2> QED BY <2>2, <2>3
<1>11. Tears(file', server')
  BY <1>3 DEF Tears, RInv
<1>12. file' \in Seq(Undated) /\ buf' \in Seq(Whole) /\ rx' \in Seq(Whole \cup {Flush})
       /\ server'.crashes <= MaxCrashes
  BY <1>3 DEF RInv
<1> QED BY <1>7, <1>8, <1>9, <1>10, <1>11, <1>12 DEF RInv, Rebuilt

\* The log goes ahead of the database at the key of the command.
LEMMA RecordReplays ==
    ASSUME TInv, LInv, RInv, Separate, NEW c \in Conns, RecordCommand(c)
    PROVE  RInv'
<1> DEFINE state == [conns[c] EXCEPT !.pc = "apply"]
           r == conns[c].msg
           cmd == conns[c].msg.cmd
<1>1. conns \in [Conns -> ConnStates] /\ conns[c] \in ConnStates /\ conns[c].pc = "record"
  BY DEF TInv, RecordCommand
<1>2. state.pc = "apply" /\ state.msg = r
  BY <1>1, ConnTypes
<1>3. /\ ConnStep(c, state) /\ Up /\ conns' = [conns EXCEPT ![c] = state]
      /\ UNCHANGED <<db, buf, file, server>>
  BY DEF RecordCommand, ConnStep
<1>4. rx' = Append(rx, r)
  <2>1. writer # "dead"
    BY <1>1, <1>3 DEF LInv
  <2> QED BY <2>1 DEF RecordCommand
<1>5. r \in Whole /\ cmd \in Requests[c] /\ is_write(cmd)
  BY <1>1 DEF RInv, HoldsOwn
<1>6. cmd \in AnyCommand /\ cmd.ttl = None /\ r.id # 0 /\ ~r.torn /\ r \in LogRecords
  BY <1>5 DEF Whole, Undated, Records, LogRecords
<1>7. HoldsOwn(state, Requests[c])
  BY <1>2, <1>5 DEF HoldsOwn
<1>8. \A d \in Conns : HoldsOwn(conns'[d], Requests[d])
  <2> HIDE DEF state
  <2> QED BY <1>3, <1>7, HoldsStep
<1>9. Rebuilt(Log)' = Applied(Rebuilt(Log), cmd, 0, 0)
  <2>1. Rebuilt(Log)' = Step(r, Rebuilt(Log))
    <3> HIDE DEF r
    <3> QED BY <1>3, <1>4, <1>6, SendExtendsLog
  <2> QED BY <1>6, <2>1 DEF Step
<1>10. Rebuilt(Log) \in UndatedDbs
  BY LogTypes, RebuiltFacts
<1>11. /\ Rebuilt(Log)'[cmd.key] = Effect(Rebuilt(Log)[cmd.key], cmd, 0, 0)
       /\ \A k \in Keys \ {cmd.key} : Rebuilt(Log)'[k] = Rebuilt(Log)[k]
  <2> DEFINE old == Rebuilt(Log)
  <2> HIDE DEF old, cmd
  <2>1. old \in UndatedDbs
    BY <1>10 DEF old
  <2>2. /\ Applied(old, cmd, 0, 0)[cmd.key] = Effect(old[cmd.key], cmd, 0, 0)
        /\ \A k \in Keys \ {cmd.key} : Applied(old, cmd, 0, 0)[k] = old[k]
    BY <1>6, <2>1, UndatedApplied
  <2> QED BY <1>9, <2>2 DEF old
<1> HIDE DEF state
<1>12. ASSUME NEW k \in Keys
       PROVE  Follows(Rebuilt(Log)', db, conns', k)
  <2>1. Follows(Rebuilt(Log), db, conns, k) /\ ~Pending(conns[c], k)
    BY <1>1, <1>3, FollowsNow DEF Pending
  <2>2. conns'[c] = state /\ \A d \in Conns : d # c => conns'[d] = conns[d]
    BY <1>1, <1>3
  <2>3. CASE k = cmd.key
    <3>1. \A d \in Conns : d # c => ~Pending(conns[d], k)
      <4> HIDE DEF cmd
      <4> QED BY <1>5, <2>3, OwnsKey
    <3>2. Rebuilt(Log)[k] = db[k]
      BY <2>1, <3>1 DEF Follows
    <3>3. Pending(conns'[c], k) /\ conns'[c].msg.cmd = cmd
      BY <1>2, <1>5, <2>2, <2>3 DEF Pending
    <3>4. \A d \in Conns : Pending(conns'[d], k) => d = c
      BY <2>2, <3>1
    <3>5. Rebuilt(Log)'[k] = Effect(db[k], cmd, 0, 0)
      BY <1>11, <2>3, <3>2
    <3> QED BY <3>3, <3>4, <3>5 DEF Follows
  <2>4. CASE k # cmd.key
    <3>1. ~Pending(state, k)
      BY <1>2, <2>4 DEF Pending
    <3>2. Follows(Rebuilt(Log), db, conns', k)
      BY <1>1, <1>3, <2>1, <3>1, FollowsQuiet
    <3>3. Rebuilt(Log)'[k] = Rebuilt(Log)[k]
      BY <1>11, <2>4
    <3> QED BY <3>2, <3>3 DEF Follows
  <2> QED BY <2>3, <2>4
<1>13. Tears(file', server')
  BY <1>3 DEF Tears, RInv
<1>14. /\ file' \in Seq(Undated) /\ buf' \in Seq(Whole) /\ rx' \in Seq(Whole \cup {Flush})
       /\ server'.crashes <= MaxCrashes /\ db' \in UndatedDbs
  <2> HIDE DEF r
  <2> QED BY <1>3, <1>4, <1>5 DEF RInv
<1> QED BY <1>3, <1>8, <1>12, <1>13, <1>14 DEF RInv, Rebuilt

\* A step of the writer or of main that keeps what the log describes.
LEMMA LogReplays ==
    ASSUME RInv, Up, Rebuilt(Log)' = Rebuilt(Log), UNCHANGED <<db, conns>>,
           file' \in Seq(Undated), buf' \in Seq(Whole), rx' \in Seq(Whole \cup {Flush}),
           server'.crashes = server.crashes, Tears(file', server')
    PROVE  RInv'
<1>1. \A k \in Keys : Follows(Rebuilt(Log)', db', conns', k)
  BY FollowsNow
<1>2. server'.crashes <= MaxCrashes /\ db' \in UndatedDbs
      /\ \A c \in Conns : HoldsOwn(conns'[c], Requests[c])
  BY DEF RInv
<1> QED BY <1>1, <1>2 DEF RInv, Rebuilt

\* Whole records behind a file do not tear it.
LEMMA GrowsWhole ==
    ASSUME NEW f \in Seq(Undated), NEW b \in Seq(Whole), NEW main, main.pc # "down",
           Tears(f, main)
    PROVE  f \o b \in Seq(Undated) /\ Tears(f \o b, main)
<1>1. Whole \subseteq Undated
  BY DEF Whole
<1>2. b \in Seq(Undated)
  BY <1>1
<1>3. f \o b \in Seq(Undated)
  BY <1>2, Joined
<1>4. f \in Seq(Whole) => f \o b \in Seq(Whole)
  BY Joined
<1>5. main.boots = 0 => \A i \in DOMAIN (f \o b) : ~(f \o b)[i].torn
  <2> SUFFICES ASSUME main.boots = 0
               PROVE  \A i \in DOMAIN (f \o b) : ~(f \o b)[i].torn
    OBVIOUS
  <2> DEFINE w == f \o b
  <2>1. w \in Seq(Whole)
    BY <1>4 DEF Tears
  <2> HIDE DEF w
  <2>2. \A i \in DOMAIN w : w[i] \in Whole
    BY <2>1
  <2>3. \A i \in DOMAIN w : ~w[i].torn
    BY <2>2 DEF Whole
  <2> QED BY <2>3 DEF w
<1> DEFINE w == f \o b
<1> HIDE DEF w
<1>6. Tears(w, main)
  BY <1>4, <1>5 DEF Tears, w
<1> QED BY <1>3, <1>6 DEF w

\* A record that moves on leaves the log as it is.
LEMMA WriteRecordReplays ==
    ASSUME TInv, RInv, ~DiskFails, WriteRecord
    PROVE  RInv'
<1> DEFINE h == Head(rx)
           w == file \o buf
<1>1. /\ Up /\ server.pc # "down" /\ UNCHANGED <<db, conns, server>>
      /\ rx' = Tail(rx) /\ rx # <<>> /\ h # Flush
  BY DEF WriteRecord, Up
<1>2. /\ file \in Seq(Undated) /\ buf \in Seq(Whole) /\ rx \in Seq(Whole \cup {Flush})
      /\ Tears(file, server)
  BY DEF RInv
<1>3. h \in Whole /\ rx' \in Seq(Whole \cup {Flush})
  BY <1>1, <1>2, TailTypes
<1>4. \/ buf' = Append(buf, h) /\ file' = file
      \/ file' = w /\ buf' = <<h>>
      \/ file' = Append(w, h) /\ buf' = <<>>
  BY DEF WriteRecord
<1> HIDE DEF h
<1>5. w \in Seq(Undated) /\ Tears(w, server)
  BY <1>1, <1>2, GrowsWhole
<1> HIDE DEF w
<1>6. Append(w, h) \in Seq(Undated) /\ Tears(Append(w, h), server)
  <2> DEFINE u == <<h>>
  <2>1. u \in Seq(Whole) /\ Append(w, h) = w \o u
    BY <1>3, <1>5
  <2> HIDE DEF u
  <2>2. w \o u \in Seq(Undated) /\ Tears(w \o u, server)
    BY <1>1, <1>5, <2>1, GrowsWhole
  <2> QED BY <2>1, <2>2
<1>7. Append(buf, h) \in Seq(Whole) /\ <<h>> \in Seq(Whole) /\ <<>> \in Seq(Whole)
  BY <1>2, <1>3
<1>8. file' \in Seq(Undated) /\ Tears(file', server') /\ buf' \in Seq(Whole)
  BY <1>1, <1>2, <1>4, <1>5, <1>6, <1>7
<1>9. Rebuilt(Log)' = Rebuilt(Log)
  BY WriteRecordKeepsLog DEF Rebuilt
<1> QED BY <1>1, <1>3, <1>8, <1>9, LogReplays

\* A flush moves the buffer into the file and takes the Flush, which replays nothing.
LEMMA SyncReplays ==
    ASSUME TInv, RInv, ~DiskFails, WriteFlush \/ WriterDrains
    PROVE  RInv'
<1>1. /\ Up /\ server.pc # "down" /\ UNCHANGED <<db, conns>>
      /\ server'.pc = server.pc /\ server'.crashes = server.crashes /\ server'.boots = server.boots
  BY DEF WriteFlush, WriterDrains, Up, TInv, ServerStates
<1>2. file' = file \o buf /\ buf' = <<>>
  BY DEF WriteFlush, WriterDrains, Synced
<1>3. /\ file \in Seq(Undated) /\ buf \in Seq(Whole) /\ rx \in Seq(Whole \cup {Flush})
      /\ Tears(file, server)
  BY DEF RInv
<1>4. file' \in Seq(Undated) /\ Tears(file', server)
  BY <1>1, <1>2, <1>3, GrowsWhole
<1>5. Tears(file', server') /\ buf' \in Seq(Whole)
  BY <1>1, <1>2, <1>4 DEF Tears
<1>6. rx' \in Seq(Whole \cup {Flush})
  <2>1. CASE rx' = rx
    BY <1>3, <2>1
  <2>2. CASE rx # <<>> /\ rx' = Tail(rx)
    BY <1>3, <2>2, TailTypes
  <2> QED BY <2>1, <2>2 DEF WriteFlush, WriterDrains
<1>7. Rebuilt(Log)' = Rebuilt(Log)
  BY WriteFlushKeepsRebuilt, WriterDrainsKeepsLog DEF Rebuilt
<1> QED BY <1>1, <1>4, <1>5, <1>6, <1>7, LogReplays

\* A step that touches neither log nor database.
LEMMA StillReplays ==
    ASSUME TInv, RInv, ~DiskFails, WriterOpens \/ FlushReturns \/ Shutdown
    PROVE  RInv'
<1>1. /\ Up /\ Up' /\ UNCHANGED <<db, conns, rx, buf, file>>
      /\ server'.crashes = server.crashes /\ server'.boots = server.boots
  BY DEF WriterOpens, FlushReturns, Shutdown, Up, TInv, ServerStates
<1>2. Rebuilt(Log)' = Rebuilt(Log)
  BY <1>1 DEF Rebuilt, Log
<1>3. /\ Tears(file', server') /\ file' \in Seq(Undated) /\ buf' \in Seq(Whole)
      /\ rx' \in Seq(Whole \cup {Flush})
  BY <1>1 DEF Tears, RInv, Up
<1> QED BY <1>1, <1>2, <1>3, LogReplays

\* One more Flush is nothing to the replay.
LEMMA SendFlushReplays ==
    ASSUME TInv, LInv, RInv, SendFlush
    PROVE  RInv'
<1>1. /\ Up /\ Up' /\ UNCHANGED <<db, conns, buf, file>>
      /\ server'.crashes = server.crashes /\ server'.boots = server.boots
  BY DEF SendFlush, Up, TInv, ServerStates
<1>2. rx' = Append(rx, Flush)
  <2>1. writer # "dead"
    BY DEF LInv, SendFlush, Up
  <2> QED BY <2>1 DEF SendFlush
<1>3. Flush \in LogRecords /\ Flush.id = 0
  BY DEF LogRecords, Flush
<1>4. Rebuilt(Log)' = Rebuilt(Log)
  <2>1. Rebuilt(Log)' = Step(Flush, Rebuilt(Log))
    BY <1>1, <1>2, <1>3, SendExtendsLog
  <2> QED BY <1>3, <2>1 DEF Step
<1>5. /\ Tears(file', server') /\ file' \in Seq(Undated) /\ buf' \in Seq(Whole)
  BY <1>1 DEF Tears, RInv, Up
<1>6. rx' \in Seq(Whole \cup {Flush})
  BY <1>2 DEF RInv
<1> QED BY <1>1, <1>4, <1>5, <1>6, LogReplays

\* A crash cuts the file once; only the record it cuts in the middle is torn.
LEMMA CutTears ==
    ASSUME NEW f \in Seq(Undated), NEW n \in 0 .. Len(f), NEW g,
           \/ g = SubSeq(f, 1, n)
           \/ n < Len(f) /\ g = Append(SubSeq(f, 1, n), [f[n + 1] EXCEPT !.torn = TRUE])
    PROVE  /\ g \in Seq(Undated)
           /\ f \in Seq(Whole) => \A i \in DOMAIN g : g[i].torn => i = Len(g)
<1> DEFINE p == SubSeq(f, 1, n)
           r == [f[n + 1] EXCEPT !.torn = TRUE]
<1>1. p \in Seq(Undated) /\ Len(p) = n /\ DOMAIN p = 1 .. n /\ \A i \in 1 .. n : p[i] = f[i] /\ i \in DOMAIN f
  OBVIOUS
<1>2. n < Len(f) => r \in Undated
  <2> SUFFICES ASSUME n < Len(f)
               PROVE  r \in Undated
    OBVIOUS
  <2>1. f[n + 1] \in Undated
    OBVIOUS
  <2> QED BY <2>1 DEF Undated, Records
<1> HIDE DEF p, r
<1>3. g = p \/ (n < Len(f) /\ g = Append(p, r))
  BY DEF p, r
<1>4. g \in Seq(Undated)
  <2>1. CASE g = p
    BY <1>1, <2>1
  <2>2. CASE n < Len(f) /\ g = Append(p, r)
    <3>1. p \in Seq(Undated) /\ r \in Undated
      BY <1>1, <1>2, <2>2
    <3> QED BY <2>2, <3>1, AppendProperties
  <2> QED BY <1>3, <2>1, <2>2
<1>5. ASSUME f \in Seq(Whole), NEW i \in DOMAIN g, g[i].torn
      PROVE  i = Len(g)
  <2>1. \A j \in 1 .. n : ~p[j].torn
    <3>1. \A j \in DOMAIN f : f[j] \in Whole
      BY <1>5
    <3> QED BY <1>1, <3>1 DEF Whole
  <2>2. CASE g = p
    BY <1>1, <1>5, <2>1, <2>2
  <2>3. CASE g = Append(p, r)
    <3>1. DOMAIN g = 1 .. n + 1 /\ Len(g) = n + 1 /\ \A j \in 1 .. n : g[j] = p[j]
      BY <1>1, <2>3
    <3> QED BY <1>5, <2>1, <3>1
  <2> QED BY <1>3, <2>2, <2>3
<1> QED BY <1>4, <1>5

\* A crash may cut the last record it keeps.
LEMMA CrashReplays ==
    ASSUME TInv, RInv, Crash
    PROVE  RInv'
<1>1. PICK n \in synced .. Len(file) :
        \/ file' = SubSeq(file, 1, n)
        \/ n < Len(file) /\ file' = Append(SubSeq(file, 1, n), [file[n + 1] EXCEPT !.torn = TRUE])
  BY DEF Crash
<1>2. file \in Seq(Undated) /\ n \in 0 .. Len(file)
  <2>1. file \in Seq(Undated) /\ synced \in 0 .. Len(file) /\ Len(file) \in Nat
    BY DEF TInv, RInv
  <2> QED BY <2>1
<1>3. file' \in Seq(Undated) /\ (file \in Seq(Whole) => \A i \in DOMAIN file' : file'[i].torn => i = Len(file'))
  BY <1>1, <1>2, CutTears
<1>4. /\ server'.pc = "down" /\ server'.crashes = server.crashes + 1
      /\ server'.boots = server.boots /\ server.crashes \in Nat /\ server.crashes < MaxCrashes
  BY DEF Crash, TInv, ServerStates
<1>5. server.pc # "down"
  BY DEF Crash, Up
<1>6. Tears(file', server')
  BY <1>3, <1>4, <1>5 DEF Tears, RInv
<1>7. /\ buf' = <<>> /\ rx' = <<>> /\ db' = db /\ \A c \in Conns : HoldsOwn(conns'[c], Requests[c])
  BY DEF Crash, TasksEnd, HoldsOwn, Gone, Reading
<1>8. buf' \in Seq(Whole) /\ rx' \in Seq(Whole \cup {Flush})
  BY <1>7
<1>9. server'.crashes <= MaxCrashes
  BY <1>4, AofAssumption
<1> QED BY <1>3, <1>4, <1>6, <1>7, <1>8, <1>9 DEF RInv, Up

\* An exit keeps the file.
LEMMA ExitReplays ==
    ASSUME TInv, RInv, Exit
    PROVE  RInv'
<1>1. /\ server.pc = "done" /\ server'.pc = "down" /\ server'.crashes = server.crashes
      /\ server'.boots = server.boots /\ file' = file /\ db' = db
  BY DEF Exit, TInv, ServerStates
<1>2. Tears(file', server')
  BY <1>1 DEF Tears, RInv
<1>3. /\ buf' = <<>> /\ rx' = <<>> /\ \A c \in Conns : HoldsOwn(conns'[c], Requests[c])
  BY DEF Exit, TasksEnd, HoldsOwn, Gone, Reading
<1>4. buf' \in Seq(Whole) /\ rx' \in Seq(Whole \cup {Flush})
  BY <1>3
<1> QED BY <1>1, <1>2, <1>3, <1>4 DEF RInv, Up

\* A file whose only torn record is its last is replayed up to that record.
LEMMA KeptIsIntact ==
    ASSUME NEW f \in Seq(Records), \A i \in DOMAIN f : f[i].torn => i = Len(f),
           NEW kept \in Replayable(f)
    PROVE  kept = Intact(f)
<1> DEFINE T == {i \in DOMAIN f : ~f[i].torn /\ i \notin kept}
<1>1. Len(f) \in Nat /\ DOMAIN f = 1 .. Len(f)
  OBVIOUS
<1>2. \A i \in DOMAIN f : f[i].id # 0 /\ f[i] \in Records
  BY RecordFacts
<1>3. /\ kept \subseteq DOMAIN f
      /\ \A i \in DOMAIN f :
           /\ i \in kept => ~f[i].torn
           /\ i \notin kept => f[i].torn \/ (i > 1 /\ (i - 1) \notin kept)
  BY DEF Replayable
<1>4. T = {}
  <2> SUFFICES ASSUME T # {}
               PROVE  FALSE
    OBVIOUS
  <2>1. T \in SUBSET Nat
    BY <1>1
  <2>2. PICK m \in T : \A n \in T : m <= n
    <3> HIDE DEF T
    <3> QED BY <2>1, LeastNat
  <2>3. m \in DOMAIN f /\ ~f[m].torn /\ m \notin kept
    OBVIOUS
  <2>4. m > 1 /\ (m - 1) \notin kept
    BY <1>3, <2>3
  <2>5. m - 1 \in DOMAIN f /\ m - 1 # Len(f) /\ ~(m <= m - 1)
    BY <1>1, <2>3, <2>4
  <2>6. m - 1 \in T
    BY <2>4, <2>5
  <2> QED BY <2>2, <2>5, <2>6
<1> QED BY <1>2, <1>3, <1>4 DEF Intact

\* load rebuilds what the file says, up to the record that may be torn.
LEMMA BootReplays ==
    ASSUME TInv, LInv, RInv, OneTear, Boot
    PROVE  RInv'
<1>1. PICK kept \in Replayable(file) : db' = Replay(file, kept, clock)
  BY DEF Boot
<1>2. /\ server \in ServerStates /\ server.pc = "down" /\ server.boots < MaxBoots
      /\ server' = [server EXCEPT !.pc = "running", !.replied = FALSE, !.clean = FALSE,
                                  !.boots = @ + 1]
  BY DEF Boot, TInv
<1>3. /\ server.boots \in Nat /\ server.crashes \in Nat /\ server'.boots = server.boots + 1
      /\ server'.crashes = server.crashes
  BY <1>2 DEF ServerStates
<1>4. server.boots = 0 \/ server.crashes = 0
  BY <1>2, <1>3, AofAssumption DEF OneTear, RInv
<1>5. \A i \in DOMAIN file : file[i].torn => i = Len(file)
  <2>1. CASE server.boots = 0
    BY <2>1 DEF RInv, Tears
  <2>2. CASE server.crashes = 0
    <3>1. file \in Seq(Whole)
      BY <2>2 DEF RInv, Tears
    <3>2. \A i \in DOMAIN file : file[i] \in Whole
      BY <3>1
    <3> QED BY <3>2 DEF Whole
  <2> QED BY <1>4, <2>1, <2>2
<1>6. kept = Intact(file)
  BY <1>5, KeptIsIntact DEF TInv
<1>7. file \in Seq(LogRecords) /\ clock \in Nat
  BY LogTypes DEF TInv
<1>8. db' = Rebuilt(file) /\ db' \in UndatedDbs
  <2>1. Rebuilt(file) \in UndatedDbs /\ Replay(file, Intact(file), clock) = Rebuilt(file)
    BY <1>7, RebuiltFacts
  <2>2. db' = Replay(file, Intact(file), clock)
    BY <1>1, <1>6
  <2> QED BY <2>1, <2>2
<1>9. rx' = <<>> /\ buf' = <<>> /\ file' = file
  BY <1>2 DEF Boot, LInv, Up
<1>10. Log' = file
  <2>1. file \o <<>> = file
    BY <1>7, ConcatEmptySeq
  <2>2. Log' = (file \o <<>>) \o <<>>
    BY <1>9 DEF Log
  <2> QED BY <2>1, <2>2
<1>11. Rebuilt(Log)' = db'
  <2>1. Rebuilt(Log)' = Rebuilt(Log')
    BY DEF Rebuilt
  <2> QED BY <1>8, <1>10, <2>1
<1>12. Reading.pc = "read" /\ \A c \in Conns : conns'[c] = Reading
  BY DEF Reading, Boot
<1>13. /\ \A c \in Conns : HoldsOwn(conns'[c], Requests[c])
       /\ \A k \in Keys : Follows(Rebuilt(Log)', db', conns', k)
  BY <1>11, <1>12 DEF HoldsOwn, Follows, Pending
<1>14. Tears(file', server')
  BY <1>3, <1>9 DEF Tears, RInv
<1>15. /\ file' \in Seq(Undated) /\ buf' \in Seq(Whole) /\ rx' \in Seq(Whole \cup {Flush})
       /\ server'.crashes <= MaxCrashes
  BY <1>3, <1>9 DEF RInv
<1> QED BY <1>8, <1>13, <1>14, <1>15 DEF RInv, Rebuilt

\* An empty log and an empty database.
LEMMA RInvInit == Init => RInv
<1> SUFFICES ASSUME Init
             PROVE  RInv
  OBVIOUS
<1>1. <<>> \in Seq(Undated) /\ <<>> \in Seq(Whole) /\ <<>> \in Seq(Whole \cup {Flush}) /\ DOMAIN <<>> = {}
  OBVIOUS
<1>2. Tears(file, server) /\ server.crashes <= MaxCrashes
  BY <1>1, AofAssumption DEF Tears, Init
<1>3. Reading.pc = "read" /\ \A c \in Conns : conns[c] = Reading
  BY DEF Reading, Init
<1>4. Rebuilt(Log) = EmptyDb
  <2> DEFINE s == <<>>
  <2>1. Log = s /\ s \in Seq(LogRecords) /\ Len(s) = 0
    BY DEF Log, Init
  <2> HIDE DEF s
  <2>2. PICK h : IsReplay(s, h)
    BY <2>1, ReplayExists
  <2>3. Rebuilt(s) = h[Len(s)]
    BY <2>1, <2>2, ReplayIs DEF Rebuilt
  <2> QED BY <2>1, <2>2, <2>3 DEF IsReplay
<1>5. /\ \A c \in Conns : HoldsOwn(conns[c], Requests[c])
      /\ \A k \in Keys : Follows(Rebuilt(Log), db, conns, k)
  BY <1>3, <1>4 DEF HoldsOwn, Follows, Pending, Init
<1> QED BY <1>1, <1>2, <1>5, EmptyUndated DEF RInv, Init, Rebuilt

\* One step per action.
LEMMA RInvNext ==
    ASSUME TInv, LInv, RInv, ~DiskFails, Separate, OneTear, [Next]_vars
    PROVE  RInv'
<1>1. ASSUME NEW c \in Conns, NEW cmd \in Requests[c], ReadCommand(c, cmd)
      PROVE  RInv'
  BY <1>1, ReadReplays
<1>2. ASSUME NEW c \in Conns, ConnNext(c) \/ Cancel(c)
      PROVE  RInv'
  BY <1>2, RecordReplays, ApplyReplays, AnswerReplays DEF ConnNext
<1>3. CASE WriterNext
  BY <1>3, StillReplays, WriteRecordReplays, SyncReplays DEF WriterNext
<1>4. CASE MainNext \/ Shutdown
  BY <1>4, SendFlushReplays, StillReplays DEF MainNext
<1>5. CASE Exit \/ Crash \/ Boot
  BY <1>5, ExitReplays, CrashReplays, BootReplays
<1>6. CASE Tick \/ UNCHANGED vars
  BY <1>6 DEF Tick, vars, RInv, Up, Log
<1> QED BY <1>1, <1>2, <1>3, <1>4, <1>5, <1>6 DEF Next

\* RInv gives the property at every instant, since nothing in the log is dated.
LEMMA RInvRebuilds == TInv /\ RInv => ReplayRebuilds
<1> SUFFICES ASSUME TInv, RInv, Up, Settled
             PROVE  Replay(Log, Intact(Log), clock) = db
  BY DEF ReplayRebuilds
<1>1. Log \in Seq(LogRecords) /\ clock \in Nat
  BY LogTypes DEF TInv
<1>2. Replay(Log, Intact(Log), clock) = Rebuilt(Log) /\ Rebuilt(Log) \in UndatedDbs
  BY <1>1, RebuiltFacts
<1>3. ASSUME NEW k \in Keys
      PROVE  Rebuilt(Log)[k] = db[k]
  <2>1. \A c \in Conns : ~Pending(conns[c], k)
    BY DEF Settled, Pending
  <2> QED BY <2>1, FollowsNow DEF Follows
<1>4. db \in UndatedDbs
  BY DEF RInv
<1> QED BY <1>2, <1>3, <1>4 DEF UndatedDbs

\* The log rebuilds the database (load and the record before apply of process_connection)
\* over any number of commands, clean restarts and crashes, where every key has one writer,
\* nothing expires, the disk does not fail and no process starts on a file that was cut
\* before it grew.
THEOREM LogRebuildsDatabase ==
    ASSUME ~DiskFails, Separate, OneTear
    PROVE  Spec => []ReplayRebuilds
<1> DEFINE I == TInv /\ LInv /\ RInv
<1>1. Init => I
  BY TInvInit, LInvInit, RInvInit
<1>2. I /\ [Next]_vars => I'
  <2> SUFFICES ASSUME TInv, LInv, RInv, [Next]_vars
               PROVE  TInv' /\ LInv' /\ RInv'
    OBVIOUS
  <2>1. TInv'
    BY TInvNext
  <2>2. LInv'
    BY LInvNext
  <2>3. RInv'
    BY RInvNext
  <2> QED BY <2>1, <2>2, <2>3
<1>3. I => ReplayRebuilds
  BY RInvRebuilds
<1> HIDE DEF I
<1> QED BY <1>1, <1>2, <1>3, PTL DEF Spec

=============================================================================
