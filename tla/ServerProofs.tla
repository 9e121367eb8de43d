---------------------------- MODULE ServerProofs ----------------------------
(***************************************************************************)
(* Theorems about Server and the connection tasks it runs, for every set   *)
(* of clients, every stream they send and every limit of connections.      *)
(* check and parse stay uninterpreted: what is proved of the replies and   *)
(* the accounts holds however frames are cut out of the bytes, and what is *)
(* proved of the frames rests on CodecReads, which says what check and     *)
(* parse make of the first bytes of what a client sends.                   *)
(***************************************************************************)
EXTENDS Server, FiniteSetTheorems, SequenceTheorems, WellFoundedInduction, TLAPS

Byte == 0 .. 255
ParsedFrames == {parse(buf) : buf \in Seq(Byte)}

Ends == {"none", "invalid", "closed", "cut", "reset", "cancelled", "panic"}

ConnStates ==
    [pc     : {"out", "knocking", "rejected", "read", "command", "uncount", "release", "gone"},
     end    : Ends,
     stream : {NoStream} \cup UNION {Streams[c] : c \in Clients},
     input  : Seq(Byte),
     buffer : Seq(Byte),
     parsed : Seq(ParsedFrames),
     outbuf : Seq(Nat),
     wire   : Seq(Nat)]

MainStates ==
    [pc        : {"select", "spawn", "stopping", "exited"},
     socket    : Clients \cup {NoClient},
     installed : BOOLEAN,
     listening : BOOLEAN,
     heard     : BOOLEAN]

\* The requests a connection in state r has answered.
Done(r) == IF r.pc = "command" THEN Len(r.parsed) - 1 ELSE Len(r.parsed)

\* The replies in seq answer the requests behind the first n, one after the other.
Numbered(seq, n) == \A i \in 1 .. Len(seq) : seq[i] = n + i

\* The replies of a connection: those on the wire are the first ones, and those in the
\* BufWriter the next ones up to the last.
Ordered(r) ==
    /\ r.pc = "command" => r.parsed # <<>>
    /\ Numbered(r.wire, 0)
    /\ Len(r.wire) <= Done(r)
    /\ r.pc \in {"knocking", "read", "command"} =>
         Numbered(r.outbuf, Len(r.wire)) /\ Len(r.wire) + Len(r.outbuf) = Done(r)
    /\ r.end = "closed" => Len(r.wire) = Len(r.parsed)

\* The BufWriter holds nothing back where the task waits for more bytes.
RepliesOK(r) ==
    /\ Ordered(r)
    /\ r.pc = "knocking" => r.buffer = <<>>
    /\ r.pc \in {"knocking", "read"} /\ r.buffer = <<>> => r.outbuf = <<>>

\* process_connection has ended only behind the states that run it, and a panic goes past
\* the one that counts the client out.
EndOK(r) ==
    /\ r.end # "none" => r.pc \in {"uncount", "release", "gone"}
    /\ r.end = "panic" => r.pc # "uncount"

Panicked == {c \in Clients : conns[c].end = "panic"}

\* A socket that main holds, between its permit and its task, is still knocking.
SocketOK ==
    /\ main.socket # NoClient => conns[main.socket].pc = "knocking"
    /\ main.pc = "spawn" => main.socket # NoClient
    /\ main.pc = "select" => main.socket = NoClient

\* The inductive invariant.
SInv ==
    /\ conns \in [Clients -> ConnStates]
    /\ main \in MainStates
    /\ \A c \in Clients : RepliesOK(conns[c]) /\ EndOK(conns[c])
    /\ SocketOK
    /\ permits = MAX_CONNECTIONS - Cardinality(Holders)
    /\ connected_clients = Cardinality(Counted) + Cardinality(Panicked)

-----------------------------------------------------------------------------
(* Streams of bytes *)

\* What is left of a stream when its first i requests have been read: left[n] is the last n
\* of them and the tail.
Ahead(stream, i) ==
    LET len == Len(stream.requests)
        left[n \in 0 .. len] ==
          IF n = 0 THEN stream.tail ELSE stream.requests[len - n + 1].bytes \o left[n - 1]
    IN  left[len - i]

\* What check and parse say of a buffer that holds the first bytes of what is left: nothing
\* yet of a part of a frame, the frame and where it ends of all of it and whatever follows,
\* and no frame of what is not one.
CodecReads ==
    \A c \in Clients : \A stream \in Streams[c] :
       LET requests == stream.requests
       IN  /\ \A i \in 0 .. Len(requests) - 1 : \A n \in 0 .. Len(Ahead(stream, i)) :
                LET buf == SubSeq(Ahead(stream, i), 1, n)
                IN  IF n < Len(requests[i + 1].bytes) THEN check(buf) = INCOMPLETE
                    ELSE /\ check(buf) = Len(requests[i + 1].bytes)
                         /\ parse(buf) = requests[i + 1].frame
           /\ \A n \in 0 .. Len(stream.tail) :
                check(SubSeq(stream.tail, 1, n)) \in IF n = 0 THEN {INCOMPLETE} ELSE {INCOMPLETE, INVALID}

\* A set of naturals has a least one: the form of induction used below.
LEMMA LeastOf ==
    ASSUME NEW T \in SUBSET Nat, T # {}
    PROVE  \E m \in T : \A n \in T : m <= n
<1> DEFINE R == OpToRel(<, Nat)
<1>1. IsWellFoundedOn(R, Nat)
  BY NatLessThanWellFounded
<1>2. \A n, m \in Nat : n < m => <<n, m>> \in R
  <2> SUFFICES ASSUME NEW n \in Nat, NEW m \in Nat, n < m
               PROVE  <<n, m>> \in {ss \in Nat \X Nat : ss[1] < ss[2]}
    BY Zenon DEF OpToRel
  <2> QED OBVIOUS
<1> HIDE DEF R
<1>3. PICK m \in T : \A n \in T : ~(<<n, m>> \in R)
  BY <1>1, WFMin
<1>4. ASSUME NEW n \in T
      PROVE  m <= n
  <2>1. ~(n < m)
    BY <1>2, <1>3
  <2> QED BY <2>1
<1> QED BY <1>4

\* g holds the values of the steps G[1] .. G[N] taken one after the other from b.
Iteration(g, N, S, b, G) ==
    /\ g \in [0 .. N -> S]
    /\ g[0] = b
    /\ \A n \in 1 .. N : g[n] = G[n][g[n - 1]]

\* Such values exist and stay in S when every step does.
LEMMA Iterates ==
    ASSUME NEW N \in Nat, NEW S, NEW b \in S, NEW G \in [1 .. N -> [S -> S]]
    PROVE  \E g : Iteration(g, N, S, b, G)
<1> DEFINE Good(m) == \E g \in [0 .. m -> S] : g[0] = b /\ \A n \in 1 .. m : g[n] = G[n][g[n - 1]]
           T == {m \in 0 .. N : ~Good(m)}
<1>1. Good(0)
  <2> DEFINE g == [n \in 0 .. 0 |-> b]
  <2>1. g \in [0 .. 0 -> S] /\ g[0] = b /\ \A n \in 1 .. 0 : g[n] = G[n][g[n - 1]]
    OBVIOUS
  <2> QED BY <2>1
<1>2. ASSUME NEW m \in 1 .. N, Good(m - 1)
      PROVE  Good(m)
  <2>1. PICK h \in [0 .. m - 1 -> S] : h[0] = b /\ \A n \in 1 .. m - 1 : h[n] = G[n][h[n - 1]]
    BY <1>2
  <2> DEFINE g == [n \in 0 .. m |-> IF n = m THEN G[m][h[m - 1]] ELSE h[n]]
  <2>2. G[m] \in [S -> S] /\ h[m - 1] \in S
    OBVIOUS
  <2>3. g \in [0 .. m -> S]
    BY <2>2
  <2>4. g[0] = b
    BY <2>1
  <2>5. ASSUME NEW n \in 1 .. m
        PROVE  g[n] = G[n][g[n - 1]]
    BY <2>1
  <2> HIDE DEF g
  <2> QED BY <2>3, <2>4, <2>5
<1> HIDE DEF Good
<1>3. T = {}
  <2> SUFFICES ASSUME T # {}
               PROVE  FALSE
    OBVIOUS
  <2>1. T \in SUBSET Nat /\ T \subseteq 0 .. N /\ \A n \in 0 .. N : n \in T <=> ~Good(n)
    OBVIOUS
  <2> HIDE DEF T
  <2>2. PICK m \in T : \A n \in T : m <= n
    BY <2>1, LeastOf
  <2>3. m \in 0 .. N /\ ~Good(m)
    BY <2>1
  <2>4. m \in 1 .. N /\ m - 1 \in 0 .. N /\ ~(m <= m - 1)
    BY <1>1, <2>3
  <2>5. Good(m - 1)
    BY <2>1, <2>2, <2>4
  <2> QED BY <1>2, <2>3, <2>4, <2>5
<1>4. N \in 0 .. N
  OBVIOUS
<1>5. Good(N)
  BY <1>3, <1>4
<1> QED BY <1>5 DEF Good, Iteration

\* The requests of a stream and its tail, as every stream has them.
WellFormed(stream) ==
    /\ Len(stream.requests) \in Nat
    /\ DOMAIN stream.requests = 1 .. Len(stream.requests)
    /\ \A i \in 1 .. Len(stream.requests) :
         stream.requests[i].bytes \in Seq(Byte) /\ stream.requests[i].bytes # <<>>
    /\ stream.tail \in Seq(Byte)

AllStreams == {NoStream} \cup UNION {Streams[c] : c \in Clients}

\* Streams are well formed.
LEMMA StreamForm ==
    ASSUME NEW stream \in AllStreams
    PROVE  WellFormed(stream)
<1>1. CASE stream = NoStream
  <2>1. stream.requests = <<>> /\ stream.tail = <<>>
    BY <1>1 DEF NoStream
  <2> QED BY <2>1 DEF WellFormed
<1>2. CASE stream \in UNION {Streams[c] : c \in Clients}
  <2>1. /\ stream.requests \in Seq(Range(stream.requests))
        /\ \A i \in DOMAIN stream.requests :
             stream.requests[i].bytes \in Seq(Byte) /\ stream.requests[i].bytes # <<>>
        /\ stream.tail \in Seq(Byte)
    BY <1>2, StreamsAssumption DEF Byte
  <2>2. Len(stream.requests) \in Nat /\ DOMAIN stream.requests = 1 .. Len(stream.requests)
    BY <2>1, LenProperties
  <2> QED BY <2>1, <2>2 DEF WellFormed
<1> QED BY <1>1, <1>2 DEF AllStreams

\* What is left begins with the next request, and at the end is the tail.
LEMMA AheadFacts ==
    ASSUME NEW stream, WellFormed(stream)
    PROVE  /\ \A i \in 0 .. Len(stream.requests) : Ahead(stream, i) \in Seq(Byte)
           /\ Ahead(stream, Len(stream.requests)) = stream.tail
           /\ \A i \in 0 .. Len(stream.requests) - 1 :
                Ahead(stream, i) = stream.requests[i + 1].bytes \o Ahead(stream, i + 1)
<1> DEFINE N == Len(stream.requests)
           bytes(n) == stream.requests[N - n + 1].bytes
           Step(n, s) == bytes(n) \o s
           F(h) == [n \in 0 .. N |-> IF n = 0 THEN stream.tail ELSE Step(n, h[n - 1])]
           left == CHOOSE h : h = F(h)
<1>0. N \in Nat /\ stream.tail \in Seq(Byte)
  BY DEF WellFormed
<1>1. \A i : Ahead(stream, i) = left[N - i]
  BY DEF Ahead
<1>2. \A n \in 1 .. N : bytes(n) \in Seq(Byte)
  <2>1. \A n \in 1 .. N : N - n + 1 \in 1 .. N
    BY <1>0
  <2> QED BY <2>1 DEF WellFormed
<1> HIDE DEF N, bytes, Step
<1>3. PICK g \in [0 .. N -> Seq(Byte)] :
        g[0] = stream.tail /\ \A n \in 1 .. N : g[n] = Step(n, g[n - 1])
  <2> DEFINE G == [n \in 1 .. N |-> [s \in Seq(Byte) |-> Step(n, s)]]
  <2>1. G \in [1 .. N -> [Seq(Byte) -> Seq(Byte)]]
    <3>1. \A n \in 1 .. N : \A s \in Seq(Byte) : Step(n, s) \in Seq(Byte)
      BY <1>2, ConcatProperties DEF Step
    <3> QED BY <3>1
  <2>2. PICK g : Iteration(g, N, Seq(Byte), stream.tail, G)
    <3> HIDE DEF G
    <3> QED BY <1>0, <2>1, Iterates
  <2>3. /\ g \in [0 .. N -> Seq(Byte)] /\ g[0] = stream.tail
        /\ \A n \in 1 .. N : g[n] = G[n][g[n - 1]]
    <3> HIDE DEF G
    <3> QED BY <2>2 DEF Iteration
  <2>4. ASSUME NEW n \in 1 .. N
        PROVE  g[n] = Step(n, g[n - 1])
    <3>1. n - 1 \in 0 .. N
      BY <1>0
    <3>2. g[n - 1] \in Seq(Byte)
      BY <2>3, <3>1
    <3> QED BY <2>3, <3>2
  <2> QED BY <2>3, <2>4
<1>4. g = F(g)
  BY <1>0, <1>3
<1>5. left = F(left)
  <2> HIDE DEF F
  <2> QED BY <1>4
<1> HIDE DEF left
<1>6. left[0] = stream.tail /\ \A n \in 1 .. N : left[n] = Step(n, left[n - 1])
  BY <1>0, <1>5
<1> HIDE DEF F
<1>7. \A n \in 0 .. N : left[n] \in Seq(Byte)
  <2> DEFINE T == {n \in 0 .. N : left[n] \notin Seq(Byte)}
  <2> SUFFICES ASSUME T # {}
               PROVE  FALSE
    OBVIOUS
  <2>1. T \in SUBSET Nat /\ T \subseteq 0 .. N /\ \A n \in 0 .. N : n \in T <=> left[n] \notin Seq(Byte)
    BY <1>0
  <2> HIDE DEF T
  <2>2. PICK m \in T : \A n \in T : m <= n
    BY <2>1, LeastOf
  <2>3. m \in 0 .. N /\ left[m] \notin Seq(Byte) /\ m # 0
    BY <1>0, <1>6, <2>1
  <2>4. m \in 1 .. N /\ m - 1 \in 0 .. N /\ ~(m <= m - 1)
    BY <1>0, <2>3
  <2>5. left[m - 1] \in Seq(Byte)
    BY <2>1, <2>2, <2>4
  <2>6. Step(m, left[m - 1]) \in Seq(Byte)
    BY <1>2, <2>4, <2>5, ConcatProperties DEF Step
  <2> QED BY <1>6, <2>3, <2>4, <2>6
<1>8. \A i \in 0 .. N : Ahead(stream, i) \in Seq(Byte)
  <2>1. \A i \in 0 .. N : N - i \in 0 .. N
    BY <1>0
  <2> QED BY <1>1, <1>7, <2>1
<1>9. Ahead(stream, N) = stream.tail
  <2>1. N - N = 0
    BY <1>0
  <2> QED BY <1>1, <1>6, <2>1
<1>10. ASSUME NEW i \in 0 .. N - 1
       PROVE  Ahead(stream, i) = stream.requests[i + 1].bytes \o Ahead(stream, i + 1)
  <2>1. N - i \in 1 .. N /\ (N - i) - 1 = N - (i + 1) /\ N - (N - i) + 1 = i + 1
    BY <1>0
  <2>2. left[N - i] = bytes(N - i) \o left[(N - i) - 1]
    BY <1>6, <2>1 DEF Step
  <2>3. bytes(N - i) = stream.requests[i + 1].bytes
    BY <2>1 DEF bytes
  <2> QED BY <1>1, <2>1, <2>2, <2>3
<1> QED BY <1>8, <1>9, <1>10 DEF N

\* FlattenSeq puts one sequence behind the other.
LEMMA FlattenFacts ==
    ASSUME NEW N \in Nat, NEW b \in [1 .. N -> Seq(Byte)]
    PROVE  \E f \in [0 .. N -> Seq(Byte)] :
             /\ f[0] = <<>>
             /\ \A n \in 1 .. N : f[n] = f[n - 1] \o b[n]
             /\ FlattenSeq(b) = f[N]
<1> DEFINE Step(n, s) == s \o b[n]
<1>0. b \in Seq(Seq(Byte)) /\ Len(b) = N /\ <<>> \in Seq(Byte)
  OBVIOUS
<1>1. \A n \in 1 .. N : \A s \in Seq(Byte) : Step(n, s) \in Seq(Byte)
  BY ConcatProperties
<1>2. \A n \in 1 .. N : Step(n, <<>>) = b[n]
  BY ConcatEmptySeq
<1> DEFINE F(h) == [i \in 1 .. N |-> IF i = 1 THEN b[i] ELSE Step(i, h[i - 1])]
           flatten == CHOOSE h : h = F(h)
<1>3. FlattenSeq(b) = IF N = 0 THEN b ELSE flatten[N]
  BY <1>0 DEF FlattenSeq
<1> HIDE DEF Step
<1>4. PICK f \in [0 .. N -> Seq(Byte)] :
        f[0] = <<>> /\ \A n \in 1 .. N : f[n] = Step(n, f[n - 1])
  <2> DEFINE G == [n \in 1 .. N |-> [s \in Seq(Byte) |-> Step(n, s)]]
             e == <<>>
  <2>1. G \in [1 .. N -> [Seq(Byte) -> Seq(Byte)]] /\ e \in Seq(Byte)
    BY <1>0, <1>1
  <2>2. PICK f : Iteration(f, N, Seq(Byte), e, G)
    <3> HIDE DEF G, e
    <3> QED BY <2>1, Iterates
  <2>3. /\ f \in [0 .. N -> Seq(Byte)] /\ f[0] = <<>>
        /\ \A n \in 1 .. N : f[n] = G[n][f[n - 1]]
    <3> HIDE DEF G
    <3> QED BY <2>2 DEF Iteration
  <2>4. ASSUME NEW n \in 1 .. N
        PROVE  f[n] = Step(n, f[n - 1])
    <3>1. n - 1 \in 0 .. N
      OBVIOUS
    <3>2. f[n - 1] \in Seq(Byte)
      BY <2>3, <3>1
    <3> QED BY <2>3, <3>2
  <2> QED BY <2>3, <2>4
<1>5. CASE N = 0
  <2>1. b = <<>>
    BY <1>0, <1>5
  <2> QED BY <1>3, <1>4, <1>5, <2>1 DEF Step
<1>6. CASE N # 0
  <2> DEFINE g == [i \in 1 .. N |-> f[i]]
  <2>1. g = F(g)
    <3>1. ASSUME NEW i \in 1 .. N
          PROVE  f[i] = IF i = 1 THEN b[i] ELSE Step(i, g[i - 1])
      <4>1. CASE i = 1
        BY <1>2, <1>4, <4>1
      <4>2. CASE i # 1
        <5>1. i - 1 \in 1 .. N
          BY <4>2
        <5> QED BY <1>4, <4>2, <5>1
      <4> QED BY <4>1, <4>2
    <3> QED BY <3>1
  <2>2. flatten = F(flatten)
    <3> HIDE DEF F
    <3> QED BY <2>1
  <2> HIDE DEF flatten
  <2>3. \A i \in 1 .. N : flatten[i] = IF i = 1 THEN b[i] ELSE Step(i, flatten[i - 1])
    BY <2>2
  <2> HIDE DEF F
  <2> DEFINE T == {i \in 1 .. N : flatten[i] # f[i]}
  <2>4. T = {}
    <3> SUFFICES ASSUME T # {}
                 PROVE  FALSE
      OBVIOUS
    <3>1. T \in SUBSET Nat /\ T \subseteq 1 .. N /\ \A i \in 1 .. N : i \in T <=> flatten[i] # f[i]
      OBVIOUS
    <3> HIDE DEF T
    <3>2. PICK m \in T : \A n \in T : m <= n
      BY <3>1, LeastOf
    <3>3. m \in 1 .. N /\ flatten[m] # f[m]
      BY <3>1
    <3>4. CASE m = 1
      <4>1. m - 1 = 0
        BY <3>4
      <4>2. f[m] = Step(m, f[0])
        BY <1>4, <3>3, <4>1
      <4>3. flatten[m] = b[m]
        BY <2>3, <3>3, <3>4
      <4> QED BY <1>2, <1>4, <3>3, <4>2, <4>3
    <3>5. CASE m # 1
      <4>1. m - 1 \in 1 .. N /\ ~(m <= m - 1)
        BY <3>3, <3>5
      <4>2. flatten[m - 1] = f[m - 1]
        BY <3>1, <3>2, <4>1
      <4> QED BY <1>4, <2>3, <3>3, <3>5, <4>2
    <3> QED BY <3>4, <3>5
  <2>5. flatten[N] = f[N]
    <3>1. N \in 1 .. N
      BY <1>6
    <3> QED BY <2>4, <3>1
  <2> QED BY <1>3, <1>4, <1>6, <2>5 DEF Step
<1> QED BY <1>5, <1>6

\* Bytes read and bytes to come make the same stream however they are cut.
LEMMA ConcatBytes ==
    ASSUME NEW a \in Seq(Byte), NEW b \in Seq(Byte), NEW c \in Seq(Byte)
    PROVE  (a \o b) \o c = a \o (b \o c)
  BY ConcatAssociative

\* What a client sends is its first request and what is behind it.
LEMMA SentIsAhead ==
    ASSUME NEW stream, WellFormed(stream)
    PROVE  SentBytes(stream) = Ahead(stream, 0) /\ SentBytes(stream) \in Seq(Byte)
<1> DEFINE N == Len(stream.requests)
           b == [i \in DOMAIN stream.requests |-> stream.requests[i].bytes]
           A(n) == Ahead(stream, n)
<1>1. N \in Nat /\ b \in [1 .. N -> Seq(Byte)] /\ stream.tail \in Seq(Byte)
      /\ \A n \in 1 .. N : b[n] = stream.requests[n].bytes
  BY DEF WellFormed
<1>2. SentBytes(stream) = FlattenSeq(b) \o stream.tail
  BY DEF SentBytes
<1>3. /\ \A n \in 0 .. N : A(n) \in Seq(Byte)
      /\ A(N) = stream.tail
      /\ \A n \in 0 .. N - 1 : A(n) = stream.requests[n + 1].bytes \o A(n + 1)
  BY AheadFacts
<1> HIDE DEF N, b, A
<1>4. PICK f \in [0 .. N -> Seq(Byte)] :
             /\ f[0] = <<>>
             /\ \A n \in 1 .. N : f[n] = f[n - 1] \o b[n]
             /\ FlattenSeq(b) = f[N]
  BY <1>1, FlattenFacts
<1> DEFINE s == f[N] \o stream.tail
           T == {n \in 0 .. N : f[N - n] \o A(N - n) # s}
<1>5. T = {}
  <2> SUFFICES ASSUME T # {}
               PROVE  FALSE
    OBVIOUS
  <2>1. T \in SUBSET Nat /\ T \subseteq 0 .. N /\ \A n \in 0 .. N : n \in T <=> f[N - n] \o A(N - n) # s
    BY <1>1
  <2> HIDE DEF T
  <2>2. PICK m \in T : \A n \in T : m <= n
    BY <2>1, LeastOf
  <2>3. m \in 0 .. N /\ f[N - m] \o A(N - m) # s
    BY <2>1
  <2>4. m # 0
    <3> SUFFICES ASSUME m = 0
                 PROVE  FALSE
      OBVIOUS
    <3>1. N - m = N
      BY <1>1
    <3> QED BY <1>3, <2>3, <3>1
  <2>5. m - 1 \in 0 .. N /\ ~(m <= m - 1)
    BY <1>1, <2>3, <2>4
  <2>6. f[N - (m - 1)] \o A(N - (m - 1)) = s
    BY <2>1, <2>2, <2>5
  <2> DEFINE k == N - m
  <2>7. k \in 0 .. N - 1 /\ k + 1 \in 1 .. N /\ N - (m - 1) = k + 1 /\ (k + 1) - 1 = k
        /\ k \in 0 .. N /\ k + 1 \in 0 .. N
    BY <1>1, <2>3, <2>4
  <2> HIDE DEF k
  <2>8. f[k + 1] = f[k] \o b[k + 1] /\ A(k) = b[k + 1] \o A(k + 1)
    BY <1>1, <1>3, <1>4, <2>7
  <2>9. f[k] \in Seq(Byte) /\ b[k + 1] \in Seq(Byte) /\ A(k + 1) \in Seq(Byte)
    BY <1>1, <1>3, <1>4, <2>7
  <2>10. (f[k] \o b[k + 1]) \o A(k + 1) = f[k] \o (b[k + 1] \o A(k + 1))
    BY <2>9, ConcatBytes
  <2>11. f[k] \o A(k) = s
    BY <2>6, <2>7, <2>8, <2>10
  <2> QED BY <2>3, <2>11 DEF k
<1>6. f[N - N] \o A(N - N) = s
  <2>1. N \in 0 .. N
    BY <1>1
  <2> QED BY <1>5, <2>1
<1>7. N - N = 0 /\ 0 \in 0 .. N
  BY <1>1
<1>8. A(0) \in Seq(Byte) /\ f[0] \o A(0) = A(0)
  BY <1>3, <1>4, <1>7, ConcatEmptySeq
<1>9. SentBytes(stream) = s
  BY <1>2, <1>4
<1> QED BY <1>6, <1>7, <1>8, <1>9 DEF A

-----------------------------------------------------------------------------
(* The replies of one connection *)

\* Replies put behind replies are numbered on.
LEMMA NumberedConcat ==
    ASSUME NEW s \in Seq(Nat), NEW t \in Seq(Nat), NEW n \in Nat,
           Numbered(s, n), Numbered(t, n + Len(s))
    PROVE  Numbered(s \o t, n) /\ s \o t \in Seq(Nat) /\ Len(s \o t) = Len(s) + Len(t)
<1>1. s \o t \in Seq(Nat) /\ Len(s \o t) = Len(s) + Len(t)
  OBVIOUS
<1>2. ASSUME NEW i \in 1 .. Len(s \o t)
      PROVE  (s \o t)[i] = n + i
  <2>1. CASE i <= Len(s)
    BY <1>1, <2>1 DEF Numbered
  <2>2. CASE i > Len(s)
    <3>1. i - Len(s) \in 1 .. Len(t) /\ (s \o t)[i] = t[i - Len(s)]
      BY <1>1, <2>2
    <3>2. t[i - Len(s)] = n + Len(s) + (i - Len(s))
      BY <3>1 DEF Numbered
    <3> QED BY <1>1, <3>1, <3>2
  <2> QED BY <1>1, <2>1, <2>2
<1> QED BY <1>1, <1>2 DEF Numbered

\* One reply is numbered by what came before it.
LEMMA NumberedOne ==
    ASSUME NEW n \in Nat
    PROVE  Numbered(<<n + 1>>, n) /\ <<n + 1>> \in Seq(Nat) /\ Len(<<n + 1>>) = 1
  BY DEF Numbered

\* No replies are in order.
LEMMA NumberedNone ==
    ASSUME NEW n
    PROVE  Numbered(<<>>, n) /\ <<>> \in Seq(Nat) /\ Len(<<>>) = 0
  BY DEF Numbered

\* Append is the concatenation of one reply.
LEMMA AppendReply ==
    ASSUME NEW s \in Seq(Nat), NEW n \in Nat
    PROVE  Append(s, n) = s \o <<n>>
  OBVIOUS

\* The fields of a connection that is flushed.
LEMMA FlushedFields ==
    ASSUME NEW r \in ConnStates
    PROVE  /\ Flushed(r) \in ConnStates
           /\ Flushed(r).pc = r.pc /\ Flushed(r).end = r.end /\ Flushed(r).buffer = r.buffer
           /\ Flushed(r).parsed = r.parsed /\ Flushed(r).outbuf = <<>>
           /\ Flushed(r).wire = r.wire \o r.outbuf
<1>1. r.wire \o r.outbuf \in Seq(Nat)
  BY DEF ConnStates
<1>2. <<>> \in Seq(Nat)
  OBVIOUS
<1> DEFINE w == r.wire \o r.outbuf
<1>3. Flushed(r) = [r EXCEPT !.wire = w, !.outbuf = <<>>]
  BY DEF Flushed
<1> HIDE DEF w
<1>4. Flushed(r) \in ConnStates
  BY <1>1, <1>2, <1>3 DEF ConnStates, w
<1> QED BY <1>3, <1>4 DEF ConnStates, w

\* The fields of a connection that has ended.
LEMMA EndedFields ==
    ASSUME NEW r \in ConnStates, NEW why \in Ends
    PROVE  /\ Ended(r, why) \in ConnStates
           /\ Ended(r, why).pc = "uncount" /\ Ended(r, why).end = why
           /\ Ended(r, why).parsed = r.parsed /\ Ended(r, why).wire = r.wire
<1>1. <<>> \in Seq(Nat) /\ <<>> \in Seq(Byte)
  OBVIOUS
<1> QED BY <1>1 DEF Ended, ConnStates

\* What has been answered is a number.
LEMMA DoneType ==
    ASSUME NEW r \in ConnStates, Ordered(r)
    PROVE  Done(r) \in Nat /\ Len(r.parsed) \in Nat /\ Done(r) <= Len(r.parsed)
<1>1. r.parsed \in Seq(ParsedFrames)
  BY DEF ConnStates
<1>2. Len(r.parsed) \in Nat /\ (r.parsed # <<>> => Len(r.parsed) > 0)
  BY <1>1
<1> QED BY <1>2 DEF Done, Ordered

\* A task that ends without having flushed leaves a prefix of its replies on the wire.
LEMMA EndedOK ==
    ASSUME NEW r \in ConnStates, Ordered(r), r.pc \in {"read", "command"},
           NEW why \in Ends \ {"none", "closed"}
    PROVE  /\ RepliesOK(Ended(r, why))
           /\ why # "panic" => EndOK(Ended(r, why))
<1> DEFINE q == Ended(r, why)
<1>1. /\ q \in ConnStates /\ q.pc = "uncount" /\ q.end = why
      /\ q.parsed = r.parsed /\ q.wire = r.wire
  BY EndedFields
<1> HIDE DEF q
<1>2. Len(r.wire) <= Len(r.parsed)
  <2>1. Len(r.wire) \in Nat
    BY DEF ConnStates
  <2>2. Done(r) \in Nat /\ Len(r.parsed) \in Nat /\ Done(r) <= Len(r.parsed)
    BY DoneType
  <2>3. Len(r.wire) <= Done(r)
    BY DEF Ordered
  <2> QED BY <2>1, <2>2, <2>3
<1>3. RepliesOK(q)
  BY <1>1, <1>2 DEF RepliesOK, Ordered, Done
<1>4. why # "panic" => EndOK(q)
  BY <1>1 DEF EndOK
<1> QED BY <1>3, <1>4 DEF q

\* A flush keeps the replies in order, whatever the BufWriter held.
LEMMA FlushedOK ==
    ASSUME NEW r \in ConnStates, Ordered(r), r.pc \in {"read", "command"},
           r.end = "none"
    PROVE  /\ RepliesOK(Flushed(r))
           /\ Len(Flushed(r).wire) = Done(r)
           /\ Done(Flushed(r)) = Done(r)
<1> DEFINE q == Flushed(r)
<1>1. /\ q \in ConnStates /\ q.pc = r.pc /\ q.end = r.end /\ q.buffer = r.buffer
      /\ q.parsed = r.parsed /\ q.outbuf = <<>> /\ q.wire = r.wire \o r.outbuf
  BY FlushedFields
<1> HIDE DEF q
<1>2. r.wire \in Seq(Nat) /\ r.outbuf \in Seq(Nat) /\ Len(r.wire) \in Nat
  BY DEF ConnStates
<1>3. /\ Numbered(r.wire, 0) /\ Numbered(r.outbuf, 0 + Len(r.wire))
      /\ Len(r.wire) + Len(r.outbuf) = Done(r)
  <2>1. 0 + Len(r.wire) = Len(r.wire)
    BY <1>2
  <2> QED BY <2>1 DEF Ordered
<1>4. Numbered(q.wire, 0) /\ Len(q.wire) = Done(r)
  <2>1. Numbered(r.wire \o r.outbuf, 0) /\ Len(r.wire \o r.outbuf) = Len(r.wire) + Len(r.outbuf)
    BY <1>2, <1>3, NumberedConcat
  <2> QED BY <1>1, <1>3, <2>1
<1>5. Done(q) = Done(r) /\ Done(r) \in Nat /\ Len(r.parsed) \in Nat
  BY <1>1, DoneType DEF Done
<1>6. Len(q.wire) <= Done(q) /\ Len(q.wire) + Len(q.outbuf) = Done(q)
  BY <1>1, <1>4, <1>5, NumberedNone
<1>7. Numbered(q.outbuf, Len(q.wire))
  BY <1>1, NumberedNone
<1>8. q.end = "closed" => Len(q.wire) = Len(q.parsed)
  BY <1>1
<1>9. q.pc = "command" => q.parsed # <<>>
  BY <1>1 DEF Ordered
<1>10. RepliesOK(q)
  BY <1>1, <1>4, <1>6, <1>7, <1>8, <1>9 DEF RepliesOK, Ordered
<1> QED BY <1>4, <1>5, <1>10 DEF q

\* The three things a BufWriter may do with the reply to the command that was read last.
LEMMA BufferedOK ==
    ASSUME NEW r \in ConnStates, Ordered(r), r.pc = "command", r.end = "none",
           NEW q \in Buffered(r, Len(r.parsed))
    PROVE  q \in ConnStates /\ Ordered(q) /\ q.pc = "read" /\ q.end = "none" /\ q.buffer = r.buffer
<1> DEFINE n    == Len(r.parsed)
           last == [r EXCEPT !.pc = "read", !.outbuf = Append(@, n)]
           only == [Flushed(r) EXCEPT !.pc = "read", !.outbuf = <<n>>]
<1>1. Done(r) \in Nat /\ n \in Nat /\ n = Done(r) + 1
  BY DoneType DEF Done
<1>2. r.wire \in Seq(Nat) /\ r.outbuf \in Seq(Nat) /\ Len(r.wire) \in Nat /\ Len(r.outbuf) \in Nat
  BY DEF ConnStates
<1>3. /\ Numbered(r.wire, 0) /\ Numbered(r.outbuf, Len(r.wire))
      /\ Len(r.wire) + Len(r.outbuf) = Done(r)
  BY DEF Ordered
<1>4. <<n>> \in Seq(Nat) /\ Numbered(<<n>>, Done(r)) /\ Len(<<n>>) = 1
  BY <1>1, NumberedOne
<1>5. last \in ConnStates /\ Ordered(last) /\ last.pc = "read" /\ last.end = "none"
      /\ last.buffer = r.buffer
  <2> DEFINE o == Append(r.outbuf, n)
  <2>1. o = r.outbuf \o <<n>>
    BY <1>1, <1>2, AppendReply
  <2>2. o \in Seq(Nat) /\ Numbered(o, Len(r.wire)) /\ Len(o) = Len(r.outbuf) + 1
    BY <1>2, <1>3, <1>4, <2>1, NumberedConcat
  <2>3. last = [r EXCEPT !.pc = "read", !.outbuf = o]
    OBVIOUS
  <2> HIDE DEF o, last
  <2>4. /\ last \in ConnStates /\ last.pc = "read" /\ last.end = "none" /\ last.buffer = r.buffer
        /\ last.parsed = r.parsed /\ last.wire = r.wire /\ last.outbuf = o
    BY <2>2, <2>3 DEF ConnStates
  <2>5. Done(last) = n
    BY <2>4 DEF Done
  <2>6. Len(last.wire) <= Done(last) /\ Len(last.wire) + Len(last.outbuf) = Done(last)
    <3> DEFINE w == Len(r.wire)
               b == Len(r.outbuf)
    <3>1. w \in Nat /\ b \in Nat /\ w + b = Done(r)
      BY <1>2, <1>3
    <3>2. Len(last.wire) = w /\ Len(last.outbuf) = b + 1
      BY <2>2, <2>4
    <3> HIDE DEF w, b, n
    <3>3. w <= n /\ w + (b + 1) = n
      BY <1>1, <3>1
    <3> QED BY <2>5, <3>2, <3>3
  <2> QED BY <1>3, <2>2, <2>4, <2>6 DEF Ordered
<1>6. only \in ConnStates /\ Ordered(only) /\ only.pc = "read" /\ only.end = "none"
      /\ only.buffer = r.buffer
  <2> DEFINE f == Flushed(r)
  <2>1. /\ f \in ConnStates /\ f.end = "none" /\ f.buffer = r.buffer /\ f.parsed = r.parsed
        /\ Numbered(f.wire, 0) /\ Len(f.wire) = Done(r)
    BY FlushedFields, FlushedOK DEF RepliesOK, Ordered
  <2> DEFINE o == <<n>>
  <2>2. only = [f EXCEPT !.pc = "read", !.outbuf = o] /\ o \in Seq(Nat)
    BY <1>4
  <2> HIDE DEF f, only, o
  <2>3. /\ only \in ConnStates /\ only.pc = "read" /\ only.end = "none" /\ only.buffer = r.buffer
        /\ only.parsed = r.parsed /\ only.wire = f.wire /\ only.outbuf = o
    BY <2>1, <2>2 DEF ConnStates
  <2>4. Done(only) = n
    BY <2>3 DEF Done
  <2>5. Len(only.wire) <= Done(only) /\ Len(only.wire) + Len(only.outbuf) = Done(only)
    BY <1>1, <1>4, <2>1, <2>3, <2>4 DEF o
  <2> QED BY <1>4, <2>1, <2>3, <2>5 DEF Ordered, o
<1>7. Flushed(last) \in ConnStates /\ Ordered(Flushed(last)) /\ Flushed(last).pc = "read"
      /\ Flushed(last).end = "none" /\ Flushed(last).buffer = r.buffer
  BY <1>5, FlushedFields, FlushedOK DEF RepliesOK
<1>8. q \in {last, only, Flushed(last)}
  BY DEF Buffered
<1> HIDE DEF last, only
<1> QED BY <1>5, <1>6, <1>7, <1>8

-----------------------------------------------------------------------------
(* The steps of a connection task *)

\* Where a task may get from inside process_connection: on with the loop, out of it, or, in
\* a panic, past the statement that counts the client out.
Moved(q) ==
    /\ q \in ConnStates /\ RepliesOK(q) /\ EndOK(q)
    /\ \/ q.pc \in {"read", "command", "uncount"} /\ q.end # "panic"
       \/ q.pc = "release" /\ q.end = "panic"

\* A task inside process_connection has not ended.
LEMMA RunningFacts ==
    ASSUME SInv, NEW c \in Clients, Running(c)
    PROVE  /\ conns[c] \in ConnStates /\ RepliesOK(conns[c]) /\ Ordered(conns[c])
           /\ conns[c].end = "none" /\ conns[c].pc \in {"read", "command"}
  BY DEF SInv, Running, RepliesOK, EndOK

\* process_connection fails, or is dropped.
LEMMA EndedMoved ==
    ASSUME NEW r \in ConnStates, Ordered(r), r.pc \in {"read", "command"},
           NEW why \in Ends \ {"none", "closed", "panic"}
    PROVE  Moved(Ended(r, why))
<1>1. why \in Ends /\ why \in Ends \ {"none", "closed"}
  OBVIOUS
<1> QED BY <1>1, EndedFields, EndedOK DEF Moved

\* Bytes arrive: an empty buffer does not become empty again.
LEMMA ReadMoreMoved ==
    ASSUME SInv, NEW c \in Clients, ReadMore(c)
    PROVE  \E q : Moved(q) /\ Become(c, q)
<1> DEFINE r == conns[c]
<1>1. /\ r \in ConnStates /\ RepliesOK(r) /\ Ordered(r) /\ r.end = "none" /\ r.pc = "read"
  BY RunningFacts DEF ReadMore, Running
<1>2. PICK n \in 1 .. Len(r.input) :
         Become(c, [r EXCEPT !.buffer = @ \o SubSeq(r.input, 1, n),
                             !.input = SubSeq(@, n + 1, Len(@))])
  BY DEF ReadMore
<1> DEFINE b == r.buffer \o SubSeq(r.input, 1, n)
           i == SubSeq(r.input, n + 1, Len(r.input))
           q == [r EXCEPT !.buffer = b, !.input = i]
<1>3. r.buffer \in Seq(Byte) /\ r.input \in Seq(Byte)
  BY <1>1 DEF ConnStates
<1>4. b \in Seq(Byte) /\ i \in Seq(Byte)
  <2> HIDE DEF r
  <2> QED BY <1>3
<1>5. b # <<>>
  <2> HIDE DEF r
  <2>1. SubSeq(r.input, 1, n) \in Seq(Byte) /\ Len(SubSeq(r.input, 1, n)) = n
    BY <1>3
  <2>2. Len(b) = Len(r.buffer) + n /\ Len(r.buffer) \in Nat
    BY <1>3, <2>1
  <2>3. Len(b) # 0
    BY <2>2
  <2> QED BY <2>3
<1>6. Become(c, q)
  BY <1>2
<1> HIDE DEF r, b, i, q
<1>7. /\ q \in ConnStates /\ q.pc = "read" /\ q.end = "none" /\ q.buffer = b
      /\ q.parsed = r.parsed /\ q.outbuf = r.outbuf /\ q.wire = r.wire
  BY <1>1, <1>4 DEF ConnStates, q
<1>8. RepliesOK(q) /\ EndOK(q)
  BY <1>1, <1>5, <1>7 DEF RepliesOK, Ordered, Done, EndOK
<1> QED BY <1>6, <1>7, <1>8 DEF Moved

\* A frame is taken from the buffer, and its reply is owed.
LEMMA ReadFrameMoved ==
    ASSUME SInv, NEW c \in Clients, ReadFrame(c)
    PROVE  \E q : Moved(q) /\ Become(c, q)
<1> DEFINE r == conns[c]
           b == SubSeq(r.buffer, check(r.buffer) + 1, Len(r.buffer))
           p == Append(r.parsed, parse(r.buffer))
           q == [r EXCEPT !.pc = "command", !.buffer = b, !.parsed = p]
<1>1. /\ r \in ConnStates /\ RepliesOK(r) /\ Ordered(r) /\ r.end = "none" /\ r.pc = "read"
  BY RunningFacts DEF ReadFrame, Running
<1>2. r.buffer \in Seq(Byte) /\ r.parsed \in Seq(ParsedFrames)
  BY <1>1 DEF ConnStates
<1>3. b \in Seq(Byte)
  <2>1. check(r.buffer) \in 0 .. Len(r.buffer)
    BY DEF ReadFrame
  <2> HIDE DEF r
  <2> QED BY <1>2, <2>1
<1>4. p \in Seq(ParsedFrames) /\ Len(p) = Len(r.parsed) + 1 /\ Len(r.parsed) \in Nat
  <2>1. parse(r.buffer) \in ParsedFrames
    BY <1>2 DEF ParsedFrames
  <2> HIDE DEF r
  <2> QED BY <1>2, <2>1
<1>5. Become(c, q)
  BY DEF ReadFrame
<1> HIDE DEF r, b, p, q
<1>6. /\ q \in ConnStates /\ q.pc = "command" /\ q.end = "none"
      /\ q.parsed = p /\ q.outbuf = r.outbuf /\ q.wire = r.wire
  BY <1>1, <1>3, <1>4 DEF ConnStates, q
<1>7. Done(q) = Done(r) /\ q.parsed # <<>>
  <2>1. Len(p) # 0 /\ Len(p) - 1 = Len(r.parsed)
    BY <1>4
  <2> QED BY <1>1, <1>6, <2>1 DEF Done
<1>8. RepliesOK(q) /\ EndOK(q)
  BY <1>1, <1>6, <1>7 DEF RepliesOK, Ordered, EndOK
<1> QED BY <1>5, <1>6, <1>8 DEF Moved

\* The end of the stream: between frames the BufWriter is flushed first.
LEMMA ReadEndsMoved ==
    ASSUME SInv, NEW c \in Clients, ReadEnds(c)
    PROVE  \E q : Moved(q) /\ Become(c, q)
<1> DEFINE r == conns[c]
<1>1. /\ r \in ConnStates /\ RepliesOK(r) /\ Ordered(r) /\ r.end = "none" /\ r.pc = "read"
  BY RunningFacts DEF ReadEnds, Running
<1>2. CASE Become(c, Ended(r, "cut"))
  BY <1>1, <1>2, EndedMoved DEF Ends
<1>3. CASE Become(c, Ended(Flushed(r), "closed"))
  <2> DEFINE f == Flushed(r)
             q == Ended(f, "closed")
  <2>1. f \in ConnStates /\ Ordered(f) /\ Len(f.wire) = Len(f.parsed)
    BY <1>1, FlushedFields, FlushedOK DEF RepliesOK, Done
  <2>2. /\ q \in ConnStates /\ q.pc = "uncount" /\ q.end = "closed"
        /\ q.parsed = f.parsed /\ q.wire = f.wire
    BY <2>1, EndedFields DEF Ends
  <2> HIDE DEF f, q
  <2>3. Len(q.wire) <= Done(q)
    <3>1. Len(f.parsed) \in Nat
      BY <2>1 DEF ConnStates
    <3> QED BY <2>1, <2>2, <3>1 DEF Done
  <2>4. RepliesOK(q) /\ EndOK(q)
    BY <2>1, <2>2, <2>3 DEF RepliesOK, Ordered, EndOK
  <2> QED BY <1>3, <2>2, <2>4 DEF Moved, q, f
<1> QED BY <1>2, <1>3 DEF ReadEnds

\* A reply that is buffered and then flushed, or kept because input is queued.
LEMMA ReplyMoved ==
    ASSUME SInv, NEW c \in Clients, conns[c].pc = "command",
           NEW b \in Buffered(conns[c], Len(conns[c].parsed))
    PROVE  /\ Moved(Flushed(b))
           /\ conns[c].buffer # <<>> => Moved(b)
<1>1. /\ conns[c] \in ConnStates /\ Ordered(conns[c]) /\ conns[c].end = "none"
  BY RunningFacts DEF Running
<1>2. b \in ConnStates /\ Ordered(b) /\ b.pc = "read" /\ b.end = "none"
      /\ b.buffer = conns[c].buffer
  BY <1>1, BufferedOK
<1>3. /\ Flushed(b) \in ConnStates /\ RepliesOK(Flushed(b))
      /\ Flushed(b).pc = "read" /\ Flushed(b).end = "none"
  BY <1>2, FlushedFields, FlushedOK
<1>4. Moved(Flushed(b))
  BY <1>3 DEF Moved, EndOK
<1>5. conns[c].buffer # <<>> => Moved(b)
  BY <1>2 DEF Moved, EndOK, RepliesOK
<1> QED BY <1>4, <1>5

\* A panic: nothing more is written, and the permit is all that is left to return.
LEMMA PanicMoved ==
    ASSUME SInv, NEW c \in Clients, Panic(c)
    PROVE  \E q : Moved(q) /\ Become(c, q)
<1> DEFINE e == Ended(conns[c], "panic")
           q == [e EXCEPT !.pc = "release"]
<1>1. /\ conns[c] \in ConnStates /\ Ordered(conns[c]) /\ conns[c].pc = "command"
  BY RunningFacts DEF Panic, Running
<1>2. e \in ConnStates /\ e.pc = "uncount" /\ e.end = "panic" /\ RepliesOK(e)
  BY <1>1, EndedFields, EndedOK DEF Ends
<1>3. Become(c, q)
  BY DEF Panic
<1> HIDE DEF e
<1>4. /\ q \in ConnStates /\ q.pc = "release" /\ q.end = "panic"
      /\ q.parsed = e.parsed /\ q.wire = e.wire
  BY <1>2 DEF ConnStates
<1> HIDE DEF q
<1>5. RepliesOK(q) /\ EndOK(q)
  BY <1>2, <1>4 DEF RepliesOK, Ordered, Done, EndOK
<1> QED BY <1>3, <1>4, <1>5 DEF Moved

\* Every step of a task is such a move.
LEMMA ConnMoved ==
    ASSUME SInv, NEW c \in Clients, ConnNext(c)
    PROVE  Running(c) /\ \E q : Moved(q) /\ Become(c, q)
<1>1. CASE ReadMore(c)
  BY <1>1, ReadMoreMoved DEF ReadMore, Running
<1>2. CASE ReadFrame(c)
  BY <1>2, ReadFrameMoved DEF ReadFrame, Running
<1>3. CASE ReadInvalid(c)
  <2>1. Running(c) /\ Become(c, Ended(conns[c], "invalid"))
    BY <1>3 DEF ReadInvalid, Running
  <2> QED BY <2>1, RunningFacts, EndedMoved DEF Ends
<1>4. CASE ReadEnds(c)
  BY <1>4, ReadEndsMoved DEF ReadEnds, Running
<1>5. CASE Refuse(c)
  BY <1>5, ReplyMoved DEF Refuse, Running
<1>6. CASE Execute(c)
  BY <1>6, ReplyMoved DEF Execute, Running
<1>7. CASE Panic(c)
  BY <1>7, PanicMoved DEF Panic, Running
<1>8. CASE SocketFails(c)
  <2>1. Running(c) /\ Become(c, Ended(conns[c], "reset"))
    BY <1>8 DEF SocketFails
  <2> QED BY <2>1, RunningFacts, EndedMoved DEF Ends
<1> QED BY <1>1, <1>2, <1>3, <1>4, <1>5, <1>6, <1>7, <1>8 DEF ConnNext

-----------------------------------------------------------------------------
(* The accounts *)

\* Sets of clients are finite, and one client more or less counts for one.
LEMMA ClientSets ==
    ASSUME NEW S \in SUBSET Clients
    PROVE  /\ IsFiniteSet(S) /\ Cardinality(S) \in Nat
           /\ \A c \in Clients \ S : Cardinality(S \cup {c}) = Cardinality(S) + 1
           /\ \A c \in S : Cardinality(S \ {c}) = Cardinality(S) - 1
<1>1. IsFiniteSet(S) /\ Cardinality(S) \in Nat
  BY FS_Subset, FS_CardinalityType, ServerAssumption
<1>2. \A c \in Clients \ S : Cardinality(S \cup {c}) = Cardinality(S) + 1
  BY <1>1, FS_AddElement
<1>3. \A c \in S : Cardinality(S \ {c}) = Cardinality(S) - 1
  BY <1>1, FS_RemoveElement
<1> QED BY <1>1, <1>2, <1>3

\* The three sets the accounts count.
LEMMA CountedSets ==
    /\ Holders \subseteq Clients /\ Cardinality(Holders) \in Nat
    /\ Counted \subseteq Clients /\ Cardinality(Counted) \in Nat
    /\ Panicked \subseteq Clients /\ Cardinality(Panicked) \in Nat
<1>1. Holders \subseteq Clients /\ Counted \subseteq Clients /\ Panicked \subseteq Clients
  BY DEF Holders, Counted, Panicked
<1> QED BY <1>1, ClientSets

\* What the accounts say.
Balanced ==
    /\ permits = MAX_CONNECTIONS - Cardinality(Holders)
    /\ connected_clients = Cardinality(Counted) + Cardinality(Panicked)

\* One client's state changes to q.
LEMMA BecomeOK ==
    ASSUME SInv, NEW c \in Clients, NEW q \in ConnStates, RepliesOK(q), EndOK(q), Become(c, q)
    PROVE  /\ conns' \in [Clients -> ConnStates]
           /\ \A x \in Clients : RepliesOK(conns'[x]) /\ EndOK(conns'[x])
           /\ conns'[c] = q /\ \A x \in Clients : x # c => conns'[x] = conns[x]
  BY DEF SInv, Become

\* A step that leaves the three sets and the accounts alone.
LEMMA SameAccountsOK ==
    ASSUME SInv, UNCHANGED Accounts,
           Holders' = Holders, Counted' = Counted, Panicked' = Panicked
    PROVE  Balanced'
  BY DEF SInv, Accounts, Balanced

\* The steps of main that move no client.
LEMMA MainOnlyOK ==
    ASSUME SInv, UNCHANGED <<conns, Accounts>>, main' \in MainStates,
           main'.socket = main.socket, SocketOK'
    PROVE  SInv'
<1>1. Holders' = Holders /\ Counted' = Counted /\ Panicked' = Panicked
  BY DEF Holders, Counted, Panicked
<1>2. Balanced'
  BY <1>1, SameAccountsOK
<1> QED BY <1>2 DEF SInv, Balanced

\* A task goes on, or ends: the permit stays taken, and the gauge keeps a task that panicked.
LEMMA MoveOK ==
    ASSUME SInv, NEW c \in Clients, Running(c), NEW q, Moved(q), Become(c, q),
           UNCHANGED <<main, Accounts>>
    PROVE  SInv'
<1>1. q \in ConnStates /\ RepliesOK(q) /\ EndOK(q)
  BY DEF Moved
<1>2. /\ conns' \in [Clients -> ConnStates]
      /\ \A x \in Clients : RepliesOK(conns'[x]) /\ EndOK(conns'[x])
      /\ conns'[c] = q /\ \A x \in Clients : x # c => conns'[x] = conns[x]
  BY <1>1, BecomeOK
<1>3. conns[c].pc \in {"read", "command"} /\ conns[c].end = "none"
  BY RunningFacts
<1>4. main' = main /\ permits' = permits /\ connected_clients' = connected_clients
  BY DEF Accounts
<1>5. main.socket # c /\ (main.socket # NoClient => main.socket \in Clients)
  BY <1>3, ServerAssumption DEF SInv, SocketOK, MainStates
<1>6. SocketOK'
  BY <1>2, <1>4, <1>5 DEF SInv, SocketOK
<1>7. Holders' = Holders
  BY <1>2, <1>3, <1>4 DEF Holders, Moved
<1>8. CASE q.end # "panic"
  <2>1. Counted' = Counted /\ Panicked' = Panicked
    BY <1>2, <1>3, <1>8 DEF Counted, Panicked, Moved
  <2>2. Balanced'
    BY <1>7, <2>1, SameAccountsOK
  <2> QED BY <1>2, <1>4, <1>6, <2>2 DEF SInv, Balanced
<1>9. CASE q.end = "panic"
  <2>1. Counted' = Counted \ {c} /\ Panicked' = Panicked \cup {c}
    BY <1>2, <1>3, <1>9 DEF Counted, Panicked, Moved
  <2>2. c \in Counted /\ c \in Clients \ Panicked
    BY <1>3 DEF Counted, Panicked
  <2>3. /\ Cardinality(Counted \ {c}) = Cardinality(Counted) - 1
        /\ Cardinality(Panicked \cup {c}) = Cardinality(Panicked) + 1
    BY <2>2, CountedSets, ClientSets
  <2>4. /\ Cardinality(Counted \ {c}) + Cardinality(Panicked \cup {c})
             = Cardinality(Counted) + Cardinality(Panicked)
    BY <2>3, CountedSets
  <2>5. Balanced'
    BY <1>4, <1>7, <2>1, <2>4 DEF SInv, Balanced
  <2> QED BY <1>2, <1>4, <1>6, <2>5 DEF SInv, Balanced
<1> QED BY <1>8, <1>9

-----------------------------------------------------------------------------
(* The steps of main *)

\* A socket nothing has been done with.
LEMMA SocketFields ==
    /\ Socket \in ConnStates /\ Socket.pc = "out" /\ Socket.end = "none"
    /\ Socket.buffer = <<>> /\ Socket.parsed = <<>> /\ Socket.outbuf = <<>> /\ Socket.wire = <<>>
<1> DEFINE e == <<>>
<1>1. /\ e \in Seq(Byte) /\ e \in Seq(ParsedFrames) /\ e \in Seq(Nat)
  OBVIOUS
<1>2. Socket = [pc |-> "out", end |-> "none", stream |-> NoStream, input |-> e, buffer |-> e,
                parsed |-> e, outbuf |-> e, wire |-> e]
  BY DEF Socket
<1> HIDE DEF e
<1>3. Socket \in ConnStates
  BY <1>1, <1>2 DEF ConnStates, Ends
<1> QED BY <1>2, <1>3 DEF e

\* A socket without a task is in order.
LEMMA SocketState ==
    ASSUME NEW q \in ConnStates, q.pc \in {"out", "knocking", "rejected"}, q.end = "none",
           q.buffer = <<>>, q.parsed = <<>>, q.outbuf = <<>>, q.wire = <<>>
    PROVE  RepliesOK(q) /\ EndOK(q)
<1>1. Ordered(q)
  BY NumberedNone DEF Ordered, Done
<1> QED BY <1>1 DEF RepliesOK, EndOK

\* A client connects.
LEMMA KnockOK ==
    ASSUME SInv, NEW c \in Clients, NEW stream \in Streams[c], Knock(c, stream)
    PROVE  SInv'
<1> DEFINE q == [Socket EXCEPT !.pc = "knocking", !.stream = stream, !.input = SentBytes(stream)]
<1>1. SentBytes(stream) \in Seq(Byte)
  BY StreamForm, SentIsAhead DEF AllStreams
<1>2. q \in ConnStates /\ RepliesOK(q) /\ EndOK(q) /\ q.pc = "knocking" /\ q.end = "none"
  <2> DEFINE bytes == SentBytes(stream)
  <2>1. q = [Socket EXCEPT !.pc = "knocking", !.stream = stream, !.input = bytes]
    OBVIOUS
  <2> HIDE DEF q, bytes
  <2>2. /\ q \in ConnStates /\ q.pc = "knocking" /\ q.end = "none" /\ q.buffer = <<>>
        /\ q.parsed = <<>> /\ q.outbuf = <<>> /\ q.wire = <<>>
    BY <1>1, <2>1, SocketFields DEF ConnStates, bytes
  <2> QED BY <2>2, SocketState
<1>3. Become(c, q) /\ conns[c].pc = "out" /\ UNCHANGED <<main, Accounts>>
  BY DEF Knock
<1> HIDE DEF q
<1>4. /\ conns' \in [Clients -> ConnStates]
      /\ \A x \in Clients : RepliesOK(conns'[x]) /\ EndOK(conns'[x])
      /\ conns'[c] = q /\ \A x \in Clients : x # c => conns'[x] = conns[x]
  BY <1>2, <1>3, BecomeOK
<1>5. main.socket \in Clients \cup {NoClient} /\ conns[c].end # "panic"
  BY <1>3 DEF SInv, MainStates, EndOK
<1>6. SocketOK'
  BY <1>2, <1>3, <1>4, <1>5 DEF SInv, SocketOK
<1>7. Holders' = Holders
  BY <1>2, <1>3, <1>4 DEF Holders
<1>8. Counted' = Counted /\ Panicked' = Panicked
  BY <1>2, <1>3, <1>4, <1>5 DEF Counted, Panicked
<1>9. Balanced'
  BY <1>3, <1>7, <1>8, SameAccountsOK
<1> QED BY <1>3, <1>4, <1>6, <1>9 DEF SInv, Balanced

\* A client is turned away: it never held a permit.
LEMMA RejectOK ==
    ASSUME SInv, NEW c \in Clients, Reject(c)
    PROVE  SInv'
<1> DEFINE q == [Socket EXCEPT !.pc = "rejected"]
<1>1. /\ q \in ConnStates /\ q.pc = "rejected" /\ q.end = "none" /\ q.buffer = <<>>
      /\ q.parsed = <<>> /\ q.outbuf = <<>> /\ q.wire = <<>>
  BY SocketFields DEF ConnStates
<1>2. q \in ConnStates /\ RepliesOK(q) /\ EndOK(q) /\ q.pc = "rejected" /\ q.end = "none"
  <2> HIDE DEF q
  <2> QED BY <1>1, SocketState
<1>3. Become(c, q) /\ conns[c].pc = "knocking" /\ UNCHANGED Accounts /\ Select("select", NoClient)
  BY DEF Reject
<1> HIDE DEF q
<1>4. /\ conns' \in [Clients -> ConnStates]
      /\ \A x \in Clients : RepliesOK(conns'[x]) /\ EndOK(conns'[x])
      /\ conns'[c] = q /\ \A x \in Clients : x # c => conns'[x] = conns[x]
  BY <1>2, <1>3, BecomeOK
<1>5. main' \in MainStates /\ main'.socket = NoClient /\ main'.pc = "select" /\ main.socket = NoClient
  BY <1>3 DEF SInv, Select, MainStates, SocketOK
<1>6. conns[c].end # "panic"
  BY <1>3 DEF SInv, EndOK
<1>7. Holders' = Holders /\ Counted' = Counted /\ Panicked' = Panicked
  BY <1>2, <1>3, <1>4, <1>5, <1>6 DEF Holders, Counted, Panicked
<1>8. Balanced'
  BY <1>3, <1>7, SameAccountsOK
<1> QED BY <1>4, <1>5, <1>8 DEF SInv, Balanced, SocketOK

\* A client is let in: its permit is taken while main still holds the socket.
LEMMA AcceptOK ==
    ASSUME SInv, NEW c \in Clients, Accept(c)
    PROVE  SInv'
<1>1. /\ conns' = conns /\ conns[c].pc = "knocking" /\ permits' = permits - 1
      /\ connected_clients' = connected_clients /\ Select("spawn", c)
  BY DEF Accept
<1>2. main' \in MainStates /\ main'.socket = c /\ main'.pc = "spawn" /\ main.socket = NoClient
  BY <1>1 DEF SInv, Select, MainStates, SocketOK
<1>3. SocketOK'
  BY <1>1, <1>2, ServerAssumption DEF SocketOK
<1>4. Holders' = Holders \cup {c} /\ Counted' = Counted /\ Panicked' = Panicked
  BY <1>1, <1>2, ServerAssumption DEF Holders, Counted, Panicked
<1>5. c \in Clients \ Holders
  BY <1>1, <1>2, ServerAssumption DEF Holders
<1>6. Cardinality(Holders') = Cardinality(Holders) + 1
  BY <1>4, <1>5, CountedSets, ClientSets
<1>7. Balanced'
  BY <1>1, <1>4, <1>6, CountedSets, ServerAssumption DEF SInv, Balanced
<1> QED BY <1>1, <1>2, <1>3, <1>7 DEF SInv, Balanced

\* The task of an accepted client starts with its permit, and is counted.
LEMMA SpawnOK ==
    ASSUME SInv, Spawn
    PROVE  SInv'
<1> DEFINE c == main.socket
           q == [conns[c] EXCEPT !.pc = "read"]
<1>1. /\ main.pc = "spawn" /\ Become(c, q) /\ permits' = permits
      /\ main' = [main EXCEPT !.pc = "select", !.socket = NoClient]
      /\ connected_clients' = connected_clients + 1
  BY DEF Spawn
<1>2. c \in Clients /\ conns[c].pc = "knocking" /\ conns[c] \in ConnStates
      /\ RepliesOK(conns[c]) /\ EndOK(conns[c])
  BY <1>1 DEF SInv, MainStates, SocketOK
<1>3. conns[c].end = "none"
  BY <1>2 DEF EndOK
<1>4. /\ q \in ConnStates /\ q.pc = "read" /\ q.end = "none" /\ q.buffer = conns[c].buffer
      /\ q.parsed = conns[c].parsed /\ q.outbuf = conns[c].outbuf /\ q.wire = conns[c].wire
  BY <1>2, <1>3 DEF ConnStates
<1> HIDE DEF q
<1>5. RepliesOK(q) /\ EndOK(q)
  BY <1>2, <1>4 DEF RepliesOK, Ordered, Done, EndOK
<1>6. PICK d \in Clients : d = c
  BY <1>2
<1>7. /\ conns' \in [Clients -> ConnStates]
      /\ \A x \in Clients : RepliesOK(conns'[x]) /\ EndOK(conns'[x])
      /\ conns'[d] = q /\ \A x \in Clients : x # d => conns'[x] = conns[x]
  BY <1>1, <1>4, <1>5, <1>6, BecomeOK
<1>8. main' \in MainStates /\ main'.socket = NoClient /\ main'.pc = "select"
  BY <1>1 DEF SInv, MainStates
<1>9. Holders' = Holders
  BY <1>4, <1>6, <1>7, <1>8, ServerAssumption DEF Holders
<1>10. Counted' = Counted \cup {d} /\ Panicked' = Panicked /\ d \in Clients \ Counted
  BY <1>2, <1>3, <1>4, <1>6, <1>7 DEF Counted, Panicked
<1>11. Cardinality(Counted') = Cardinality(Counted) + 1
  BY <1>10, CountedSets, ClientSets
<1>12. Balanced'
  BY <1>1, <1>9, <1>10, <1>11, CountedSets DEF SInv, Balanced
<1> QED BY <1>7, <1>8, <1>12 DEF SInv, Balanced, SocketOK

\* The steps of main that leave every client where it is.
LEMMA MainStepsOK ==
    ASSUME SInv, Signal \/ Listen \/ AcceptFails \/ Shutdown \/ Exit
    PROVE  SInv'
<1>1. CASE Signal
  BY <1>1, MainOnlyOK DEF Signal, SInv, MainStates, SocketOK
<1>2. CASE Listen
  BY <1>2, MainOnlyOK DEF Listen, SInv, MainStates, SocketOK
<1>3. CASE AcceptFails
  BY <1>3, MainOnlyOK DEF AcceptFails, Select, SInv, MainStates, SocketOK
<1>4. CASE Shutdown
  BY <1>4, MainOnlyOK DEF Shutdown, SInv, MainStates, SocketOK
<1>5. CASE Exit
  BY <1>5, MainOnlyOK DEF Exit, SInv, MainStates, SocketOK
<1> QED BY <1>1, <1>2, <1>3, <1>4, <1>5

-----------------------------------------------------------------------------
(* The last statements of a task *)

\* The fields of a task that has left process_connection and goes on to pc.
LEMMA LastSteps ==
    ASSUME NEW r \in ConnStates, RepliesOK(r), EndOK(r), r.pc \in {"uncount", "release"},
           NEW pc \in {"release", "gone"}, NEW q, q = [r EXCEPT !.pc = pc]
    PROVE  q \in ConnStates /\ RepliesOK(q) /\ EndOK(q) /\ q.pc = pc /\ q.end = r.end
<1>1. /\ q \in ConnStates /\ q.pc = pc /\ q.end = r.end
      /\ q.parsed = r.parsed /\ q.wire = r.wire
  BY DEF ConnStates
<1> QED BY <1>1 DEF RepliesOK, Ordered, Done, EndOK

\* client_disconnected.
LEMMA UncountOK ==
    ASSUME SInv, NEW c \in Clients, Uncount(c)
    PROVE  SInv'
<1> DEFINE q == [conns[c] EXCEPT !.pc = "release"]
<1>1. /\ conns[c].pc = "uncount" /\ Become(c, q) /\ main' = main /\ permits' = permits
      /\ connected_clients' = connected_clients - 1
  BY DEF Uncount
<1>2. conns[c] \in ConnStates /\ RepliesOK(conns[c]) /\ EndOK(conns[c]) /\ conns[c].end # "panic"
  BY <1>1 DEF SInv, EndOK
<1>3. q \in ConnStates /\ RepliesOK(q) /\ EndOK(q) /\ q.pc = "release" /\ q.end = conns[c].end
  BY <1>1, <1>2, LastSteps
<1> HIDE DEF q
<1>4. /\ conns' \in [Clients -> ConnStates]
      /\ \A x \in Clients : RepliesOK(conns'[x]) /\ EndOK(conns'[x])
      /\ conns'[c] = q /\ \A x \in Clients : x # c => conns'[x] = conns[x]
  BY <1>1, <1>3, BecomeOK
<1>5. main.socket \in Clients \cup {NoClient}
  BY DEF SInv, MainStates
<1>6. SocketOK'
  BY <1>1, <1>4, <1>5 DEF SInv, SocketOK
<1>7. Holders' = Holders
  BY <1>1, <1>3, <1>4 DEF Holders
<1>8. Counted' = Counted \ {c} /\ Panicked' = Panicked /\ c \in Counted
  BY <1>1, <1>2, <1>3, <1>4 DEF Counted, Panicked
<1>9. Cardinality(Counted') = Cardinality(Counted) - 1
  BY <1>8, CountedSets, ClientSets
<1>10. Balanced'
  BY <1>1, <1>7, <1>8, <1>9, CountedSets DEF SInv, Balanced
<1> QED BY <1>1, <1>4, <1>6, <1>10 DEF SInv, Balanced

\* The permit returns.
LEMMA ReleaseOK ==
    ASSUME SInv, NEW c \in Clients, Release(c)
    PROVE  SInv'
<1> DEFINE q == [conns[c] EXCEPT !.pc = "gone"]
<1>1. /\ conns[c].pc = "release" /\ Become(c, q) /\ main' = main /\ permits' = permits + 1
      /\ connected_clients' = connected_clients
  BY DEF Release
<1>2. conns[c] \in ConnStates /\ RepliesOK(conns[c]) /\ EndOK(conns[c])
  BY DEF SInv
<1>3. q \in ConnStates /\ RepliesOK(q) /\ EndOK(q) /\ q.pc = "gone" /\ q.end = conns[c].end
  BY <1>1, <1>2, LastSteps
<1> HIDE DEF q
<1>4. /\ conns' \in [Clients -> ConnStates]
      /\ \A x \in Clients : RepliesOK(conns'[x]) /\ EndOK(conns'[x])
      /\ conns'[c] = q /\ \A x \in Clients : x # c => conns'[x] = conns[x]
  BY <1>1, <1>3, BecomeOK
<1>5. main.socket \in Clients \cup {NoClient} /\ main.socket # c
  BY <1>1, ServerAssumption DEF SInv, MainStates, SocketOK
<1>6. SocketOK'
  BY <1>1, <1>4, <1>5 DEF SInv, SocketOK
<1>7. Holders' = Holders \ {c} /\ c \in Holders
  BY <1>1, <1>3, <1>4, <1>5 DEF Holders
<1>8. Counted' = Counted /\ Panicked' = Panicked
  BY <1>1, <1>3, <1>4 DEF Counted, Panicked
<1>9. Cardinality(Holders') = Cardinality(Holders) - 1
  BY <1>7, CountedSets, ClientSets
<1>10. Balanced'
  BY <1>1, <1>8, <1>9, CountedSets, ServerAssumption DEF SInv, Balanced
<1> QED BY <1>1, <1>4, <1>6, <1>10 DEF SInv, Balanced

\* The shutdown drops process_connection at an await.
LEMMA CancelOK ==
    ASSUME SInv, NEW c \in Clients, Cancel(c)
    PROVE  SInv'
<1>1. Running(c) /\ Become(c, Ended(conns[c], "cancelled")) /\ UNCHANGED <<main, Accounts>>
  BY DEF Cancel
<1>2. Moved(Ended(conns[c], "cancelled"))
  BY <1>1, RunningFacts, EndedMoved DEF Ends
<1> QED BY <1>1, <1>2, MoveOK

-----------------------------------------------------------------------------
(* The invariant *)

\* The process starts with all its permits and no client.
LEMMA InitOK ==
    ASSUME Init
    PROVE  SInv
<1>1. conns \in [Clients -> ConnStates] /\ \A c \in Clients : conns[c] = Socket
  BY SocketFields DEF Init
<1>2. \A c \in Clients : RepliesOK(conns[c]) /\ EndOK(conns[c])
  BY <1>1, SocketFields, SocketState
<1>3. main \in MainStates /\ main.socket = NoClient /\ SocketOK
  BY DEF Init, MainStates, SocketOK
<1>4. Holders = {} /\ Counted = {} /\ Panicked = {}
  BY <1>1, <1>3, SocketFields, ServerAssumption DEF Holders, Counted, Panicked
<1>5. Cardinality({}) = 0
  BY FS_EmptySet
<1> QED BY <1>1, <1>2, <1>3, <1>4, <1>5, ServerAssumption DEF Init, SInv

\* Every step preserves the invariant.
LEMMA NextOK ==
    ASSUME SInv, [Next]_vars
    PROVE  SInv'
<1>1. CASE \E c \in Clients : \E stream \in Streams[c] : Knock(c, stream)
  BY <1>1, KnockOK
<1>2. CASE Signal \/ AcceptFails
  BY <1>2, MainStepsOK
<1>3. CASE MainNext
  BY <1>3, MainStepsOK, AcceptOK, RejectOK, SpawnOK DEF MainNext
<1>4. ASSUME NEW c \in Clients, TaskNext(c)
      PROVE  SInv'
  <2>1. CASE Serve(c)
    <3>1. ConnNext(c) /\ UNCHANGED <<main, Accounts>>
      BY <2>1 DEF Serve
    <3> QED BY <3>1, ConnMoved, MoveOK
  <2> QED BY <1>4, <2>1, CancelOK, UncountOK, ReleaseOK DEF TaskNext
<1>5. CASE UNCHANGED vars
  BY <1>5 DEF vars, SInv, SocketOK, Holders, Counted, Panicked
<1> QED BY <1>1, <1>2, <1>3, <1>4, <1>5 DEF Next

\* The invariant holds in every reachable state.
LEMMA Invariance == Spec => []SInv
  BY InitOK, NextOK, PTL DEF Spec

\* Every way out of a connection task returns its permit exactly once, and the gauge of
\* clients is off by exactly the tasks that panicked, for any number of clients, any limit
\* and any order of accepts, ends, panics, signals and the shutdown.
THEOREM PermitsAndGaugeBalance == Spec => []AccountsBalance
<1>1. SInv => AccountsBalance
  BY DEF SInv, AccountsBalance, Panicked
<1> QED BY <1>1, Invariance, PTL

\* A sequence that agrees with the beginning of another is a prefix of it.
LEMMA PrefixOf ==
    ASSUME NEW s \in Seq(Nat), NEW t \in Seq(Nat), Len(s) <= Len(t),
           \A i \in 1 .. Len(s) : s[i] = t[i]
    PROVE  IsPrefix(s, t)
  BY DEF IsPrefix

\* Replies reach a client in the order of its requests, one for each, and none stays in the
\* BufWriter while the task waits with nothing queued or after it has ended well, whatever
\* the clients send and however the bytes and the writes are cut.
THEOREM RepliesInOrder == Spec => []AnswersComplete
<1>1. ASSUME SInv, NEW c \in Clients
      PROVE  LET all == [i \in 1 .. Answered(c) |-> i]
             IN  /\ IsPrefix(conns[c].wire, all)
                 /\ \/ conns[c].pc = "read" /\ conns[c].buffer = <<>>
                    \/ conns[c].end = "closed"
                    => conns[c].wire = all
  <2> DEFINE r   == conns[c]
             n   == Done(r)
             all == [i \in 1 .. n |-> i]
  <2>1. r \in ConnStates /\ RepliesOK(r) /\ EndOK(r) /\ Ordered(r)
    BY <1>1 DEF SInv, RepliesOK
  <2>2. n \in Nat /\ Answered(c) = n
    BY <2>1, DoneType DEF Answered, Done
  <2>3. r.wire \in Seq(Nat) /\ Len(r.wire) <= n /\ \A i \in 1 .. Len(r.wire) : r.wire[i] = i
    <3>1. r.wire \in Seq(Nat) /\ Len(r.wire) <= n
      BY <2>1 DEF ConnStates, Ordered
    <3>2. ASSUME NEW i \in 1 .. Len(r.wire)
          PROVE  r.wire[i] = i
      <4>1. r.wire[i] = 0 + i /\ i \in Int
        BY <2>1, <3>1 DEF Ordered, Numbered
      <4> QED BY <4>1
    <3> QED BY <3>1, <3>2
  <2> HIDE DEF n, r
  <2>4. all \in Seq(Nat) /\ Len(all) = n /\ \A i \in 1 .. n : all[i] = i
    BY <2>2
  <2> HIDE DEF all
  <2>5. IsPrefix(r.wire, all)
    <3>1. Len(r.wire) <= Len(all) /\ \A i \in 1 .. Len(r.wire) : r.wire[i] = all[i]
      BY <2>2, <2>3, <2>4
    <3> QED BY <2>3, <2>4, <3>1, PrefixOf
  <2>6. (r.pc = "read" /\ r.buffer = <<>>) \/ r.end = "closed" => Len(r.wire) = n
    <3>1. CASE r.pc = "read" /\ r.buffer = <<>>
      <4>1. r.outbuf = <<>> /\ Len(r.wire) + Len(r.outbuf) = n
        BY <2>1, <3>1 DEF RepliesOK, Ordered, n
      <4>2. Len(r.wire) \in Nat /\ Len(r.outbuf) = 0
        BY <2>3, <4>1
      <4> QED BY <4>1, <4>2
    <3>2. CASE r.end = "closed"
      BY <2>1, <3>2 DEF Ordered, EndOK, Done, n
    <3> QED BY <3>1, <3>2
  <2>7. Len(r.wire) = n => r.wire = all
    <3> SUFFICES ASSUME Len(r.wire) = n
                 PROVE  r.wire = all
      OBVIOUS
    <3>1. Len(r.wire) = Len(all) /\ \A i \in 1 .. Len(all) : r.wire[i] = all[i]
      BY <2>3, <2>4
    <3> QED BY <2>3, <2>4, <3>1
  <2> QED BY <2>2, <2>5, <2>6, <2>7 DEF r, all
<1>2. SInv => AnswersComplete
  BY <1>1 DEF AnswersComplete
<1> QED BY <1>2, Invariance, PTL

-----------------------------------------------------------------------------
(* The stream of one connection *)

\* The streams that clients send.
SentStreams == UNION {Streams[c] : c \in Clients}

\* The frames a connection has read are the first of its stream's, what it has not read is
\* ahead of it, and it ends at the end of the requests unless it is cut off.
StreamOK(r) ==
    /\ Len(r.parsed) <= Len(r.stream.requests)
    /\ \A i \in 1 .. Len(r.parsed) : r.parsed[i] = r.stream.requests[i].frame
    /\ r.pc \in {"knocking", "read", "command"} =>
         r.stream \in SentStreams /\ r.buffer \o r.input = Ahead(r.stream, Len(r.parsed))
    /\ r.end = "closed" => Len(r.parsed) = Len(r.stream.requests) /\ r.stream.tail = <<>>
    /\ r.end \in {"invalid", "cut"} =>
         Len(r.parsed) = Len(r.stream.requests) /\ r.stream.tail # <<>>

\* The beginning of two sequences put together is the first one.
LEMMA FirstPart ==
    ASSUME NEW a \in Seq(Byte), NEW b \in Seq(Byte)
    PROVE  SubSeq(a \o b, 1, Len(a)) = a /\ Len(a) \in 0 .. Len(a \o b)
<1> DEFINE s == a \o b
           t == SubSeq(s, 1, Len(a))
<1>1. /\ s \in Seq(Byte) /\ Len(s) = Len(a) + Len(b)
      /\ \A i \in 1 .. Len(a) : s[i] = a[i]
  OBVIOUS
<1>2. Len(a) \in Nat /\ Len(b) \in Nat
  OBVIOUS
<1> HIDE DEF s
<1>3. t \in Seq(Byte) /\ Len(t) = Len(a) /\ \A i \in 1 .. Len(a) : t[i] = s[i]
  BY <1>1, <1>2
<1> HIDE DEF t
<1>4. \A i \in 1 .. Len(a) : t[i] = a[i]
  BY <1>1, <1>3
<1>5. t = a
  BY <1>3, <1>4, SeqEqual
<1>6. Len(a) \in 0 .. Len(s)
  BY <1>1, <1>2
<1> QED BY <1>5, <1>6 DEF s, t

\* The elements of two sequences put together.
LEMMA ConcatLater ==
    ASSUME NEW a \in Seq(Byte), NEW b \in Seq(Byte)
    PROVE  /\ \A i \in 1 .. Len(a) : (a \o b)[i] = a[i]
           /\ \A i \in 1 .. Len(b) : (a \o b)[Len(a) + i] = b[i]
<1> DEFINE s == a \o b
           n == Len(a)
<1>1. \A i \in 1 .. n + Len(b) : s[i] = IF i <= n THEN a[i] ELSE b[i - n]
  BY ConcatProperties
<1>2. n \in Nat /\ Len(b) \in Nat
  OBVIOUS
<1> HIDE DEF s, n
<1>3. ASSUME NEW i \in 1 .. n
      PROVE  s[i] = a[i]
  <2>1. i \in 1 .. n + Len(b) /\ i <= n
    BY <1>2
  <2> QED BY <1>1, <2>1
<1>4. ASSUME NEW i \in 1 .. Len(b)
      PROVE  s[n + i] = b[i]
  <2>1. n + i \in 1 .. n + Len(b) /\ ~(n + i <= n) /\ (n + i) - n = i
    BY <1>2
  <2> QED BY <1>1, <2>1
<1> QED BY <1>3, <1>4 DEF s, n

\* What two sequences put together hold behind the beginning they share.
LEMMA SplitTail ==
    ASSUME NEW a \in Seq(Byte), NEW b \in Seq(Byte), NEW c \in Seq(Byte), NEW d \in Seq(Byte),
           a \o b = c \o d, Len(c) <= Len(a)
    PROVE  /\ SubSeq(a, Len(c) + 1, Len(a)) \in Seq(Byte)
           /\ SubSeq(a, Len(c) + 1, Len(a)) \o b = d
<1> DEFINE n == Len(c)
           t == SubSeq(a, n + 1, Len(a))
<1>1. n \in Nat /\ Len(a) \in Nat /\ Len(b) \in Nat /\ Len(d) \in Nat /\ n <= Len(a)
  OBVIOUS
<1>2. Len(a) + Len(b) = n + Len(d)
  <2>1. Len(a \o b) = Len(a) + Len(b) /\ Len(c \o d) = Len(c) + Len(d)
    BY ConcatProperties
  <2> QED BY <2>1
<1>3. \A i \in 1 .. Len(d) : (c \o d)[n + i] = d[i]
  <2>1. \A i \in 1 .. Len(d) : (c \o d)[Len(c) + i] = d[i]
    BY ConcatLater
  <2> QED BY <2>1
<1>4. \A i \in 1 .. Len(a) : (a \o b)[i] = a[i]
  BY ConcatLater
<1>5. \A i \in 1 .. Len(b) : (a \o b)[Len(a) + i] = b[i]
  BY ConcatLater
<1> HIDE DEF n
<1>6. t \in Seq(Byte) /\ Len(t) = Len(a) - n /\ \A i \in 1 .. Len(a) - n : t[i] = a[n + i]
  BY <1>1
<1> HIDE DEF t
<1> DEFINE u == t \o b
<1>7. /\ u \in Seq(Byte) /\ Len(u) = (Len(a) - n) + Len(b)
      /\ \A i \in 1 .. Len(a) - n : u[i] = t[i]
      /\ \A i \in Len(a) - n + 1 .. Len(u) : u[i] = b[i - (Len(a) - n)]
  <2> DEFINE l == Len(a) - n
  <2>1. l \in Nat /\ Len(t) = l
    BY <1>1, <1>6
  <2> HIDE DEF l
  <2>0. t \in Seq(Byte) /\ Len(b) \in Nat
    BY <1>6
  <2>2. /\ u \in Seq(Byte) /\ Len(u) = l + Len(b)
        /\ \A i \in 1 .. l + Len(b) : u[i] = IF i <= l THEN t[i] ELSE b[i - l]
    BY <2>0, <2>1, ConcatProperties
  <2> HIDE DEF u
  <2>3. ASSUME NEW i \in 1 .. l
        PROVE  u[i] = t[i]
    <3>1. i \in 1 .. l + Len(b) /\ i <= l
      BY <2>0, <2>1
    <3> QED BY <2>2, <3>1
  <2>4. ASSUME NEW i \in l + 1 .. Len(u)
        PROVE  u[i] = b[i - l]
    <3>1. i \in 1 .. l + Len(b) /\ ~(i <= l)
      BY <2>0, <2>1, <2>2
    <3> QED BY <2>2, <3>1
  <2> QED BY <2>2, <2>3, <2>4 DEF l
<1> HIDE DEF u
<1>8. Len(u) = Len(d)
  BY <1>1, <1>2, <1>7
<1>9. ASSUME NEW i \in 1 .. Len(d)
      PROVE  u[i] = d[i]
  <2>1. d[i] = (a \o b)[n + i]
    BY <1>3
  <2>2. CASE i <= Len(a) - n
    <3>1. i \in 1 .. Len(a) - n /\ n + i \in 1 .. Len(a)
      BY <1>1, <2>2
    <3> QED BY <1>4, <1>6, <1>7, <2>1, <3>1
  <2>3. CASE i > Len(a) - n
    <3> DEFINE k == i - (Len(a) - n)
    <3>1. i \in Len(a) - n + 1 .. Len(u) /\ k \in 1 .. Len(b) /\ n + i = Len(a) + k
      BY <1>1, <1>2, <1>8, <2>3
    <3>2. u[i] = b[k]
      BY <1>7, <3>1
    <3> HIDE DEF k
    <3> QED BY <1>5, <2>1, <3>1, <3>2
  <2> QED BY <1>1, <2>2, <2>3
<1>10. u = d
  BY <1>7, <1>8, <1>9, SeqEqual
<1> QED BY <1>6, <1>10 DEF t, u, n

\* Bytes that arrive change sides.
LEMMA Arrives ==
    ASSUME NEW a \in Seq(Byte), NEW s \in Seq(Byte), NEW n \in 1 .. Len(s)
    PROVE  (a \o SubSeq(s, 1, n)) \o SubSeq(s, n + 1, Len(s)) = a \o s
<1> DEFINE x == SubSeq(s, 1, n)
           y == SubSeq(s, n + 1, Len(s))
<1>1. x \in Seq(Byte) /\ y \in Seq(Byte)
  OBVIOUS
<1>2. x \o y = s
  <2>1. 1 \in 1 .. Len(s) + 1 /\ n \in 1 - 1 .. Len(s) /\ Len(s) \in n .. Len(s)
    OBVIOUS
  <2>2. x \o y = SubSeq(s, 1, Len(s))
    BY <2>1, ConcatAdjacentSubSeq
  <2>3. SubSeq(s, 1, Len(s)) = s
    BY SubSeqFull
  <2> QED BY <2>2, <2>3
<1> HIDE DEF x, y
<1>3. (a \o x) \o y = a \o (x \o y)
  BY <1>1, ConcatBytes
<1> QED BY <1>2, <1>3 DEF x, y

\* The request that a connection reads next.
Coming(r) == r.stream.requests[Len(r.parsed) + 1]

\* What check and parse say of the buffer of a connection: a part of the next request, all
\* of it, or a part of the tail.
PartRead(r) ==
    /\ Len(r.parsed) < Len(r.stream.requests)
    /\ check(r.buffer) = INCOMPLETE
    /\ Len(r.buffer) < Len(Coming(r).bytes)
WholeRead(r) ==
    /\ Len(r.parsed) < Len(r.stream.requests)
    /\ check(r.buffer) = Len(Coming(r).bytes)
    /\ Len(Coming(r).bytes) <= Len(r.buffer)
    /\ parse(r.buffer) = Coming(r).frame
TailRead(r) ==
    /\ Len(r.parsed) = Len(r.stream.requests)
    /\ r.buffer \o r.input = r.stream.tail
    /\ check(r.buffer) \in {INCOMPLETE, INVALID}
    /\ r.buffer = <<>> => check(r.buffer) = INCOMPLETE

\* The types of what a connection has read and of its stream.
LEMMA StreamTypes ==
    ASSUME NEW r \in ConnStates
    PROVE  /\ WellFormed(r.stream)
           /\ r.buffer \in Seq(Byte) /\ r.input \in Seq(Byte)
           /\ Len(r.buffer) \in Nat /\ Len(r.parsed) \in Nat /\ Len(r.stream.requests) \in Nat
<1>1. r.stream \in AllStreams /\ r.buffer \in Seq(Byte) /\ r.input \in Seq(Byte)
      /\ r.parsed \in Seq(ParsedFrames)
  BY DEF ConnStates, AllStreams
<1>2. WellFormed(r.stream)
  BY <1>1, StreamForm
<1>3. Len(r.buffer) \in Nat /\ Len(r.parsed) \in Nat
  BY <1>1
<1> QED BY <1>1, <1>2, <1>3 DEF WellFormed

\* One of the three holds wherever the stream has been cut.
LEMMA BufferRead ==
    ASSUME CodecReads, NEW r \in ConnStates, StreamOK(r), r.pc = "read"
    PROVE  PartRead(r) \/ WholeRead(r) \/ TailRead(r)
<1> DEFINE stream == r.stream
           i == Len(r.parsed)
           n == Len(r.buffer)
           A == Ahead(stream, i)
<1>1. /\ WellFormed(stream) /\ r.buffer \in Seq(Byte) /\ r.input \in Seq(Byte)
      /\ n \in Nat /\ i \in Nat /\ Len(stream.requests) \in Nat
  BY StreamTypes
<1>2. i <= Len(stream.requests) /\ stream \in SentStreams /\ r.buffer \o r.input = A
  BY DEF StreamOK
<1>3. SubSeq(A, 1, n) = r.buffer /\ n \in 0 .. Len(A)
  <2> HIDE DEF A
  <2>1. SubSeq(r.buffer \o r.input, 1, Len(r.buffer)) = r.buffer
        /\ Len(r.buffer) \in 0 .. Len(r.buffer \o r.input)
    BY <1>1, FirstPart
  <2> QED BY <1>2, <2>1
<1>4. PICK c \in Clients : stream \in Streams[c]
  BY <1>2 DEF SentStreams
<1>5. CASE i < Len(stream.requests)
  <2>1. i \in 0 .. Len(stream.requests) - 1
    BY <1>1, <1>5
  <2>2. IF n < Len(stream.requests[i + 1].bytes) THEN check(SubSeq(A, 1, n)) = INCOMPLETE
        ELSE /\ check(SubSeq(A, 1, n)) = Len(stream.requests[i + 1].bytes)
             /\ parse(SubSeq(A, 1, n)) = stream.requests[i + 1].frame
    BY <1>3, <1>4, <2>1 DEF CodecReads
  <2> HIDE DEF A
  <2>3. stream.requests[i + 1] = Coming(r) /\ i + 1 \in 1 .. Len(stream.requests)
    BY <1>1, <1>5 DEF Coming
  <2>4. Len(Coming(r).bytes) \in Nat
    <3>1. Coming(r).bytes \in Seq(Byte)
      BY <1>1, <2>3 DEF WellFormed
    <3> QED BY <3>1
  <2>5. CASE n < Len(Coming(r).bytes)
    BY <1>3, <1>5, <2>2, <2>3, <2>5 DEF PartRead
  <2>6. CASE ~(n < Len(Coming(r).bytes))
    <3>1. Len(Coming(r).bytes) <= n
      BY <1>1, <2>4, <2>6
    <3> QED BY <1>3, <1>5, <2>2, <2>3, <2>6, <3>1 DEF WholeRead
  <2> QED BY <2>5, <2>6
<1>6. CASE i = Len(stream.requests)
  <2>1. A = stream.tail
    BY <1>1, <1>6, AheadFacts
  <2> HIDE DEF A
  <2>2. check(SubSeq(stream.tail, 1, n)) \in IF n = 0 THEN {INCOMPLETE} ELSE {INCOMPLETE, INVALID}
    BY <1>3, <1>4, <2>1 DEF CodecReads
  <2>3. r.buffer = <<>> => n = 0
    OBVIOUS
  <2> QED BY <1>2, <1>3, <1>6, <2>1, <2>2, <2>3 DEF TailRead
<1> QED BY <1>1, <1>2, <1>5, <1>6

-----------------------------------------------------------------------------
(* What a step does to the stream of its connection *)

\* A step that leaves what is read and what is ahead alone.
LEMMA SameStream ==
    ASSUME NEW r, StreamOK(r), NEW q, q.stream = r.stream, q.parsed = r.parsed,
           q.pc \in {"knocking", "read", "command"} =>
             r.pc \in {"knocking", "read", "command"} /\ q.buffer \o q.input = r.buffer \o r.input,
           q.end = r.end \/ q.end \notin {"closed", "invalid", "cut"}
    PROVE  StreamOK(q)
  BY DEF StreamOK

\* A flush leaves the stream alone.
LEMMA FlushedStream ==
    ASSUME NEW r \in ConnStates
    PROVE  Flushed(r).stream = r.stream /\ Flushed(r).input = r.input
<1> DEFINE w == r.wire \o r.outbuf
<1>1. Flushed(r) = [r EXCEPT !.wire = w, !.outbuf = <<>>]
  BY DEF Flushed
<1> HIDE DEF w
<1> QED BY <1>1 DEF ConnStates

\* So does the end of a connection.
LEMMA EndedStream ==
    ASSUME NEW r \in ConnStates, NEW why
    PROVE  Ended(r, why).stream = r.stream
  BY DEF Ended, ConnStates

\* A connection cut off anywhere has read the first of its frames.
LEMMA CutOffOK ==
    ASSUME NEW r \in ConnStates, StreamOK(r), NEW why \in Ends \ {"closed", "invalid", "cut"}
    PROVE  StreamOK(Ended(r, why))
<1> DEFINE q == Ended(r, why)
<1>1. q.stream = r.stream /\ q.parsed = r.parsed /\ q.pc = "uncount" /\ q.end = why
  BY EndedStream, EndedFields
<1> HIDE DEF q
<1>2. StreamOK(q)
  BY <1>1, SameStream
<1> QED BY <1>2 DEF q

\* Bytes arrive.
LEMMA ReadMoreStream ==
    ASSUME NEW r \in ConnStates, StreamOK(r), r.pc = "read", NEW n \in 1 .. Len(r.input),
           NEW q, q = [r EXCEPT !.buffer = @ \o SubSeq(r.input, 1, n),
                                !.input = SubSeq(@, n + 1, Len(@))]
    PROVE  StreamOK(q)
<1> DEFINE b == r.buffer \o SubSeq(r.input, 1, n)
           i == SubSeq(r.input, n + 1, Len(r.input))
<1>1. r.buffer \in Seq(Byte) /\ r.input \in Seq(Byte)
  BY StreamTypes
<1>2. b \o i = r.buffer \o r.input
  BY <1>1, Arrives
<1>3. q = [r EXCEPT !.buffer = b, !.input = i]
  OBVIOUS
<1> HIDE DEF b, i
<1>4. /\ q.stream = r.stream /\ q.parsed = r.parsed /\ q.end = r.end /\ q.pc = r.pc
      /\ q.buffer = b /\ q.input = i
  BY <1>3 DEF ConnStates
<1> QED BY <1>2, <1>4, SameStream

\* The frame that is taken is the next one that was sent, and the buffer is left where the
\* one behind it begins.
LEMMA ReadFrameStream ==
    ASSUME CodecReads, NEW r \in ConnStates, StreamOK(r), r.pc = "read", r.end = "none",
           check(r.buffer) \in 0 .. Len(r.buffer),
           NEW q, q = [r EXCEPT !.pc = "command",
                                !.buffer = SubSeq(r.buffer, check(r.buffer) + 1, Len(r.buffer)),
                                !.parsed = Append(@, parse(r.buffer))]
    PROVE  StreamOK(q)
<1> DEFINE b == SubSeq(r.buffer, check(r.buffer) + 1, Len(r.buffer))
           p == Append(r.parsed, parse(r.buffer))
           i == Len(r.parsed)
           N == Len(r.stream.requests)
<1>1. /\ WellFormed(r.stream) /\ r.buffer \in Seq(Byte) /\ r.input \in Seq(Byte)
      /\ i \in Nat /\ N \in Nat /\ Len(r.buffer) \in Nat
  BY StreamTypes
<1>2. WholeRead(r)
  <2>1. check(r.buffer) # INCOMPLETE /\ check(r.buffer) # INVALID
    BY <1>1 DEF INCOMPLETE, INVALID
  <2>2. ~PartRead(r) /\ ~TailRead(r)
    BY <2>1 DEF PartRead, TailRead
  <2> QED BY <2>2, BufferRead
<1>3. i < N /\ i \in 0 .. N - 1 /\ i + 1 \in 1 .. N /\ i + 1 \in 0 .. N
  BY <1>1, <1>2 DEF WholeRead
<1>4. r.stream \in SentStreams /\ r.buffer \o r.input = Coming(r).bytes \o Ahead(r.stream, i + 1)
  <2>1. Ahead(r.stream, i) = Coming(r).bytes \o Ahead(r.stream, i + 1)
    BY <1>1, <1>3, AheadFacts DEF Coming
  <2> QED BY <2>1 DEF StreamOK
<1>5. Coming(r).bytes \in Seq(Byte) /\ Ahead(r.stream, i + 1) \in Seq(Byte)
  <2>1. Coming(r).bytes \in Seq(Byte)
    BY <1>1, <1>3 DEF Coming, WellFormed
  <2>2. Ahead(r.stream, i + 1) \in Seq(Byte)
    BY <1>1, <1>3, AheadFacts
  <2> QED BY <2>1, <2>2
<1>6. b \o r.input = Ahead(r.stream, i + 1)
  <2> DEFINE d == Ahead(r.stream, i + 1)
             a == Coming(r).bytes
  <2>1. b = SubSeq(r.buffer, Len(a) + 1, Len(r.buffer)) /\ Len(a) <= Len(r.buffer)
    BY <1>2 DEF WholeRead
  <2> HIDE DEF a, d, b
  <2>2. a \in Seq(Byte) /\ d \in Seq(Byte) /\ r.buffer \o r.input = a \o d
    BY <1>4, <1>5 DEF a, d
  <2>3. SubSeq(r.buffer, Len(a) + 1, Len(r.buffer)) \o r.input = d
    <3> DEFINE x == r.buffer
               y == r.input
    <3>1. x \in Seq(Byte) /\ y \in Seq(Byte) /\ x \o y = a \o d /\ Len(a) <= Len(x)
      BY <1>1, <2>1, <2>2
    <3> HIDE DEF x, y
    <3>2. a \in Seq(Byte) /\ d \in Seq(Byte)
      BY <2>2
    <3>3. SubSeq(x, Len(a) + 1, Len(x)) \o y = d
      BY <3>1, <3>2, SplitTail, ZenonT(30)
    <3> QED BY <3>3 DEF x, y
  <2> QED BY <2>1, <2>3 DEF d
<1>7. /\ Len(p) = i + 1 /\ p[i + 1] = Coming(r).frame
      /\ \A j \in 1 .. i : p[j] = r.parsed[j]
  <2>1. r.parsed \in Seq(ParsedFrames) /\ parse(r.buffer) = Coming(r).frame
    BY <1>2 DEF ConnStates, WholeRead
  <2>2. parse(r.buffer) \in ParsedFrames
    BY <1>1 DEF ParsedFrames
  <2> DEFINE x == parse(r.buffer)
             s == r.parsed
  <2> HIDE DEF x, s
  <2>3. /\ Len(Append(s, x)) = Len(s) + 1
        /\ \A j \in 1 .. Len(s) : Append(s, x)[j] = s[j]
        /\ Append(s, x)[Len(s) + 1] = x
    BY <2>1, <2>2, AppendProperties DEF s, x
  <2> QED BY <2>1, <2>3 DEF s, x
<1>8. q = [r EXCEPT !.pc = "command", !.buffer = b, !.parsed = p]
  OBVIOUS
<1> HIDE DEF b, p
<1>9. /\ q.stream = r.stream /\ q.parsed = p /\ q.end = "none" /\ q.pc = "command"
      /\ q.buffer = b /\ q.input = r.input
  BY <1>8 DEF ConnStates
<1>10. ASSUME NEW j \in 1 .. i + 1
       PROVE  p[j] = r.stream.requests[j].frame
  <2>1. CASE j = i + 1
    BY <1>7, <2>1 DEF Coming
  <2>2. CASE j # i + 1
    <3>1. j \in 1 .. i
      BY <1>1, <2>2
    <3> QED BY <1>7, <3>1 DEF StreamOK
  <2> QED BY <2>1, <2>2
<1>11. i + 1 <= N
  BY <1>1, <1>3
<1> QED BY <1>4, <1>6, <1>7, <1>9, <1>10, <1>11 DEF StreamOK

\* Bytes that are no frame are the tail's.
LEMMA ReadInvalidStream ==
    ASSUME CodecReads, NEW r \in ConnStates, StreamOK(r), r.pc = "read",
           check(r.buffer) = INVALID
    PROVE  StreamOK(Ended(r, "invalid"))
<1> DEFINE q == Ended(r, "invalid")
<1>1. /\ WellFormed(r.stream) /\ r.buffer \in Seq(Byte) /\ r.input \in Seq(Byte)
      /\ \A i \in 1 .. Len(r.stream.requests) : Len(r.stream.requests[i].bytes) \in Nat
  <2>1. WellFormed(r.stream) /\ r.buffer \in Seq(Byte) /\ r.input \in Seq(Byte)
    BY StreamTypes
  <2>2. ASSUME NEW i \in 1 .. Len(r.stream.requests)
        PROVE  Len(r.stream.requests[i].bytes) \in Nat
    <3>1. r.stream.requests[i].bytes \in Seq(Byte)
      BY <2>1 DEF WellFormed
    <3> QED BY <3>1
  <2> QED BY <2>1, <2>2
<1>2. TailRead(r)
  <2>1. ~PartRead(r)
    BY DEF PartRead, INCOMPLETE, INVALID
  <2>2. ~WholeRead(r)
    <3> SUFFICES ASSUME WholeRead(r)
                 PROVE  FALSE
      OBVIOUS
    <3>1. Len(r.parsed) + 1 \in 1 .. Len(r.stream.requests)
      BY StreamTypes DEF WholeRead
    <3>2. Len(Coming(r).bytes) \in Nat
      BY <1>1, <3>1 DEF Coming
    <3> QED BY <3>2 DEF WholeRead, INVALID
  <2> QED BY <2>1, <2>2, BufferRead
<1>3. r.buffer # <<>>
  BY <1>2 DEF TailRead, INCOMPLETE, INVALID
<1>4. r.stream.tail # <<>>
  <2>1. r.buffer \o r.input # <<>>
    BY <1>1, <1>3, ConcatEqualIffEmpty
  <2> QED BY <1>2, <2>1 DEF TailRead
<1>5. q.stream = r.stream /\ q.parsed = r.parsed /\ q.pc = "uncount" /\ q.end = "invalid"
  BY EndedStream, EndedFields DEF Ends
<1> HIDE DEF q
<1>6. StreamOK(q)
  BY <1>2, <1>4, <1>5 DEF StreamOK, TailRead
<1> QED BY <1>6 DEF q

\* The stream ends where its requests do, and what is in the buffer then is the tail.
LEMMA StreamEnds ==
    ASSUME CodecReads, NEW r \in ConnStates, StreamOK(r), r.pc = "read",
           check(r.buffer) = INCOMPLETE, r.input = <<>>
    PROVE  Len(r.parsed) = Len(r.stream.requests) /\ r.stream.tail = r.buffer
<1>1. /\ WellFormed(r.stream) /\ r.buffer \in Seq(Byte) /\ Len(r.parsed) \in Nat
      /\ Len(r.stream.requests) \in Nat /\ Len(r.buffer) \in Nat
  BY StreamTypes
<1>2. r.buffer \o r.input = r.buffer
  BY <1>1, ConcatEmptySeq
<1> DEFINE i == Len(r.parsed)
<1>3. CASE i < Len(r.stream.requests)
  <2>1. i \in 0 .. Len(r.stream.requests) - 1 /\ i + 1 \in 1 .. Len(r.stream.requests)
        /\ i + 1 \in 0 .. Len(r.stream.requests)
    BY <1>1, <1>3
  <2>2. Coming(r).bytes \in Seq(Byte) /\ Ahead(r.stream, i + 1) \in Seq(Byte)
    <3>1. Coming(r).bytes \in Seq(Byte)
      BY <1>1, <2>1 DEF Coming, WellFormed
    <3>2. Ahead(r.stream, i + 1) \in Seq(Byte)
      BY <1>1, <2>1, AheadFacts
    <3> QED BY <3>1, <3>2
  <2>3. r.buffer = Coming(r).bytes \o Ahead(r.stream, i + 1)
    <3>1. Ahead(r.stream, i) = Coming(r).bytes \o Ahead(r.stream, i + 1)
      BY <1>1, <2>1, AheadFacts DEF Coming
    <3> QED BY <1>2, <3>1 DEF StreamOK
  <2>4. ~(Len(r.buffer) < Len(Coming(r).bytes)) /\ Len(Coming(r).bytes) \in Nat
    <3> DEFINE a == Coming(r).bytes
               d == Ahead(r.stream, i + 1)
    <3>1. a \in Seq(Byte) /\ d \in Seq(Byte) /\ r.buffer = a \o d
      BY <2>2, <2>3
    <3> HIDE DEF a, d
    <3>2. Len(a \o d) = Len(a) + Len(d) /\ Len(a) \in Nat /\ Len(d) \in Nat
      BY <3>1
    <3>3. ~(Len(r.buffer) < Len(a))
      BY <3>1, <3>2
    <3> QED BY <3>2, <3>3 DEF a
  <2>5. ~PartRead(r) /\ ~WholeRead(r) /\ ~TailRead(r)
    BY <1>3, <2>4 DEF PartRead, WholeRead, TailRead, INCOMPLETE
  <2> QED BY <2>5, BufferRead
<1>4. CASE ~(i < Len(r.stream.requests))
  <2>1. i = Len(r.stream.requests)
    BY <1>1, <1>4 DEF StreamOK
  <2>2. TailRead(r)
    BY <1>4, BufferRead DEF PartRead, WholeRead
  <2> QED BY <1>2, <2>1, <2>2 DEF TailRead
<1> QED BY <1>3, <1>4

\* A stream ends between two frames if there is no tail, and inside one otherwise.
LEMMA ReadEndsStream ==
    ASSUME CodecReads, NEW r \in ConnStates, StreamOK(r), r.pc = "read",
           check(r.buffer) = INCOMPLETE, r.input = <<>>
    PROVE  /\ r.buffer = <<>> => StreamOK(Ended(Flushed(r), "closed"))
           /\ r.buffer # <<>> => StreamOK(Ended(r, "cut"))
<1> DEFINE f == Flushed(r)
           closed == Ended(f, "closed")
           cut == Ended(r, "cut")
<1>1. Len(r.parsed) = Len(r.stream.requests) /\ r.stream.tail = r.buffer
  BY StreamEnds
<1>2. f \in ConnStates /\ f.stream = r.stream /\ f.parsed = r.parsed
  BY FlushedFields, FlushedStream
<1> HIDE DEF f
<1>3. closed.stream = r.stream /\ closed.parsed = r.parsed /\ closed.pc = "uncount"
      /\ closed.end = "closed"
  BY <1>2, EndedStream, EndedFields DEF Ends
<1>4. cut.stream = r.stream /\ cut.parsed = r.parsed /\ cut.pc = "uncount" /\ cut.end = "cut"
  BY EndedStream, EndedFields DEF Ends
<1> HIDE DEF closed, cut
<1>5. r.buffer = <<>> => StreamOK(closed)
  BY <1>1, <1>3 DEF StreamOK
<1>6. r.buffer # <<>> => StreamOK(cut)
  BY <1>1, <1>4 DEF StreamOK
<1> QED BY <1>5, <1>6 DEF closed, cut, f

\* A reply reads nothing.
LEMMA ReplyStream ==
    ASSUME NEW r \in ConnStates, Ordered(r), StreamOK(r), r.pc = "command", r.end = "none",
           NEW b \in Buffered(r, Len(r.parsed))
    PROVE  StreamOK(b) /\ StreamOK(Flushed(b))
<1> DEFINE n    == Len(r.parsed)
           o    == Append(r.outbuf, n)
           last == [r EXCEPT !.pc = "read", !.outbuf = o]
           one  == <<n>>
           f    == Flushed(r)
           only == [f EXCEPT !.pc = "read", !.outbuf = one]
           Same(q) == q.stream = r.stream /\ q.input = r.input /\ q.parsed = r.parsed
<1>1. b \in ConnStates /\ b.pc = "read" /\ b.end = "none" /\ b.buffer = r.buffer
  BY BufferedOK
<1>2. b \in {last, only, Flushed(last)}
  BY DEF Buffered
<1>3. f \in ConnStates /\ Same(f)
  BY FlushedFields, FlushedStream
<1>4. last \in ConnStates /\ Same(last)
  <2>1. o \in Seq(Nat)
    BY StreamTypes DEF ConnStates
  <2> HIDE DEF o
  <2> QED BY <2>1 DEF ConnStates
<1>5. Same(only)
  <2> HIDE DEF f, one
  <2> QED BY <1>3 DEF ConnStates
<1>6. Same(Flushed(last))
  <2> HIDE DEF last
  <2> QED BY <1>4, FlushedFields, FlushedStream
<1>7. Same(b)
  <2> HIDE DEF Same, last, only
  <2> QED BY <1>2, <1>4, <1>5, <1>6
<1>8. StreamOK(b)
  BY <1>1, <1>7, SameStream
<1>9. /\ Flushed(b).stream = b.stream /\ Flushed(b).input = b.input
      /\ Flushed(b).parsed = b.parsed /\ Flushed(b).buffer = b.buffer
      /\ Flushed(b).pc = b.pc /\ Flushed(b).end = b.end
  BY <1>1, FlushedFields, FlushedStream
<1>10. StreamOK(Flushed(b))
  <2> DEFINE g == Flushed(b)
  <2> HIDE DEF last, only
  <2>1. g.stream = b.stream /\ g.input = b.input /\ g.parsed = b.parsed /\ g.buffer = b.buffer
        /\ g.pc = b.pc /\ g.end = b.end
    BY <1>9
  <2> HIDE DEF g
  <2>2. StreamOK(g)
    BY <1>1, <1>8, <2>1, SameStream
  <2> QED BY <2>2 DEF g
<1> QED BY <1>8, <1>10

-----------------------------------------------------------------------------
(* The frames that were sent *)

\* A socket nothing has been read from.
LEMMA FreshStream ==
    ASSUME NEW q, q.parsed = <<>>, q.end = "none", WellFormed(q.stream),
           q.pc \in {"knocking", "read", "command"} =>
             q.stream \in SentStreams /\ q.buffer \o q.input = Ahead(q.stream, 0)
    PROVE  StreamOK(q)
<1> DEFINE n == Len(q.parsed)
           N == Len(q.stream.requests)
<1>1. n = 0 /\ N \in Nat
  BY DEF WellFormed
<1>2. n <= N /\ \A i \in 1 .. n : FALSE
  <2> HIDE DEF n, N
  <2> QED BY <1>1
<1>3. q.pc \in {"knocking", "read", "command"} =>
        q.stream \in SentStreams /\ q.buffer \o q.input = Ahead(q.stream, n)
  BY <1>1
<1> QED BY <1>2, <1>3 DEF StreamOK

\* The fields of a socket that streams are about.
LEMMA SocketStream ==
    /\ Socket.stream = NoStream /\ Socket.input = <<>> /\ WellFormed(NoStream)
<1>1. NoStream \in AllStreams
  BY DEF AllStreams
<1> QED BY <1>1, StreamForm DEF Socket

\* The frames are read as sent, in every connection.
StreamsOK == \A c \in Clients : StreamOK(conns[c])

\* One client's state changes to q.
LEMMA BecomeStreams ==
    ASSUME SInv, StreamsOK, NEW c \in Clients, NEW q, StreamOK(q), Become(c, q)
    PROVE  StreamsOK'
<1>1. \A x \in Clients : conns'[x] = IF x = c THEN q ELSE conns[x]
  BY DEF SInv, Become
<1> QED BY <1>1 DEF StreamsOK

\* A step of a connection task reads as it should.
LEMMA ConnStreams ==
    ASSUME CodecReads, SInv, StreamsOK, NEW c \in Clients, ConnNext(c)
    PROVE  StreamsOK'
<1> DEFINE r == conns[c]
<1>1. /\ r \in ConnStates /\ Ordered(r) /\ r.end = "none" /\ r.pc \in {"read", "command"}
      /\ StreamOK(r)
  <2>1. Running(c)
    BY ConnMoved
  <2> QED BY <2>1, RunningFacts DEF StreamsOK
<1>2. CASE ReadMore(c)
  <2>1. PICK n \in 1 .. Len(r.input) :
           Become(c, [r EXCEPT !.buffer = @ \o SubSeq(r.input, 1, n),
                               !.input = SubSeq(@, n + 1, Len(@))])
    BY <1>2 DEF ReadMore
  <2> DEFINE q == [r EXCEPT !.buffer = @ \o SubSeq(r.input, 1, n),
                            !.input = SubSeq(@, n + 1, Len(@))]
  <2>2. StreamOK(q)
    BY <1>1, <1>2, ReadMoreStream DEF ReadMore
  <2> HIDE DEF q
  <2> QED BY <2>1, <2>2, BecomeStreams DEF q
<1>3. CASE ReadFrame(c)
  <2> DEFINE q == [r EXCEPT !.pc = "command",
                            !.buffer = SubSeq(r.buffer, check(r.buffer) + 1, Len(r.buffer)),
                            !.parsed = Append(@, parse(r.buffer))]
  <2>1. r.pc = "read" /\ check(r.buffer) \in 0 .. Len(r.buffer) /\ Become(c, q)
    BY <1>3 DEF ReadFrame
  <2>2. StreamOK(q)
    <3> HIDE DEF r
    <3> QED BY <1>1, <2>1, ReadFrameStream
  <2> HIDE DEF q
  <2> QED BY <2>1, <2>2, BecomeStreams
<1>4. CASE ReadInvalid(c)
  <2>1. r.pc = "read" /\ check(r.buffer) = INVALID /\ Become(c, Ended(r, "invalid"))
    BY <1>4 DEF ReadInvalid
  <2> QED BY <1>1, <2>1, ReadInvalidStream, BecomeStreams
<1>5. CASE ReadEnds(c)
  <2>1. /\ r.pc = "read" /\ check(r.buffer) = INCOMPLETE /\ r.input = <<>>
        /\ \/ r.buffer = <<>> /\ Become(c, Ended(Flushed(r), "closed"))
           \/ r.buffer # <<>> /\ Become(c, Ended(r, "cut"))
    BY <1>5 DEF ReadEnds
  <2> QED BY <1>1, <2>1, ReadEndsStream, BecomeStreams
<1>6. CASE Refuse(c)
  <2>1. r.pc = "command" /\ \E b \in Buffered(r, Len(r.parsed)) : Become(c, Flushed(b))
    BY <1>6 DEF Refuse
  <2> QED BY <1>1, <2>1, ReplyStream, BecomeStreams
<1>7. CASE Execute(c)
  <2>1. /\ r.pc = "command"
        /\ \E b \in Buffered(r, Len(r.parsed)) : Become(c, Flushed(b)) \/ Become(c, b)
    BY <1>7 DEF Execute
  <2> QED BY <1>1, <2>1, ReplyStream, BecomeStreams
<1>8. CASE Panic(c)
  <2> DEFINE e == Ended(r, "panic")
             q == [e EXCEPT !.pc = "release"]
  <2>1. Become(c, q)
    BY <1>8 DEF Panic
  <2>2. StreamOK(e) /\ e \in ConnStates
    BY <1>1, CutOffOK, EndedFields DEF Ends
  <2> HIDE DEF e
  <2>3. q.stream = e.stream /\ q.parsed = e.parsed /\ q.pc = "release" /\ q.end = e.end
    BY <2>2 DEF ConnStates
  <2> HIDE DEF q
  <2>4. StreamOK(q)
    BY <2>2, <2>3, SameStream
  <2> QED BY <2>1, <2>4, BecomeStreams
<1>9. CASE SocketFails(c)
  <2>1. Become(c, Ended(r, "reset")) /\ StreamOK(Ended(r, "reset"))
    BY <1>1, <1>9, CutOffOK DEF SocketFails, Ends
  <2> QED BY <2>1, BecomeStreams
<1> QED BY <1>2, <1>3, <1>4, <1>5, <1>6, <1>7, <1>8, <1>9 DEF ConnNext

\* A socket that is let in, counted out or released goes on with the same stream.
LEMMA GoesOnStreams ==
    ASSUME SInv, StreamsOK, NEW c \in Clients, NEW pc \in {"read", "release", "gone"},
           pc = "read" => conns[c].pc = "knocking",
           Become(c, [conns[c] EXCEPT !.pc = pc])
    PROVE  StreamsOK'
<1> DEFINE r == conns[c]
           q == [r EXCEPT !.pc = pc]
<1>1. r \in ConnStates /\ StreamOK(r)
  BY DEF SInv, StreamsOK
<1>2. /\ q.stream = r.stream /\ q.parsed = r.parsed /\ q.end = r.end /\ q.pc = pc
      /\ q.buffer = r.buffer /\ q.input = r.input
  BY <1>1 DEF ConnStates
<1>3. Become(c, q)
  OBVIOUS
<1> HIDE DEF q
<1>4. StreamOK(q)
  BY <1>1, <1>2, SameStream
<1> QED BY <1>3, <1>4, BecomeStreams

\* A client that connects has its whole stream ahead of it, and one that is turned away
\* none.
LEMMA SocketStreams ==
    ASSUME SInv, StreamsOK, NEW c \in Clients,
           Reject(c) \/ \E stream \in Streams[c] : Knock(c, stream)
    PROVE  StreamsOK'
<1>1. CASE Reject(c)
  <2> DEFINE q == [Socket EXCEPT !.pc = "rejected"]
  <2>1. Become(c, q)
    BY <1>1 DEF Reject
  <2>2. q.parsed = <<>> /\ q.end = "none" /\ q.stream = NoStream /\ q.pc = "rejected"
    BY SocketFields, SocketStream DEF ConnStates
  <2> HIDE DEF q
  <2>3. StreamOK(q)
    BY <2>2, SocketStream, FreshStream
  <2> QED BY <2>1, <2>3, BecomeStreams
<1>2. ASSUME NEW stream \in Streams[c], Knock(c, stream)
      PROVE  StreamsOK'
  <2> DEFINE bytes == SentBytes(stream)
             q == [Socket EXCEPT !.pc = "knocking", !.stream = stream, !.input = bytes]
  <2>1. Become(c, q)
    BY <1>2 DEF Knock
  <2>2. stream \in SentStreams /\ stream \in AllStreams
    BY DEF SentStreams, AllStreams
  <2>3. WellFormed(stream) /\ bytes \in Seq(Byte) /\ bytes = Ahead(stream, 0)
    BY <2>2, StreamForm, SentIsAhead
  <2> HIDE DEF bytes
  <2>4. /\ q.parsed = <<>> /\ q.end = "none" /\ q.stream = stream /\ q.buffer = <<>>
        /\ q.input = bytes
    BY SocketFields DEF ConnStates
  <2> HIDE DEF q
  <2>5. q.buffer \o q.input = Ahead(stream, 0)
    BY <2>3, <2>4, ConcatEmptySeq
  <2>6. StreamOK(q)
    BY <2>2, <2>3, <2>4, <2>5, FreshStream
  <2> QED BY <2>1, <2>6, BecomeStreams
<1> QED BY <1>1, <1>2

\* No client has sent anything yet.
LEMMA InitStreams ==
    ASSUME Init
    PROVE  StreamsOK
<1>1. \A c \in Clients : conns[c] = Socket
  BY DEF Init
<1>2. StreamOK(Socket)
  BY SocketFields, SocketStream, FreshStream
<1> QED BY <1>1, <1>2 DEF StreamsOK

\* Every step reads frames as they were sent.
LEMMA NextStreams ==
    ASSUME CodecReads, SInv, StreamsOK, [Next]_vars
    PROVE  StreamsOK'
<1>1. CASE \E c \in Clients : \E stream \in Streams[c] : Knock(c, stream)
  BY <1>1, SocketStreams
<1>2. CASE UNCHANGED conns
  BY <1>2 DEF StreamsOK
<1>3. CASE Signal \/ AcceptFails
  BY <1>2, <1>3 DEF Signal, AcceptFails
<1>4. CASE MainNext
  <2>1. CASE \E c \in Clients : Reject(c)
    BY <2>1, SocketStreams
  <2>2. CASE Spawn
    <3> DEFINE c == main.socket
    <3>1. main.pc = "spawn" /\ Become(c, [conns[c] EXCEPT !.pc = "read"])
      BY <2>2 DEF Spawn
    <3>2. c \in Clients /\ conns[c].pc = "knocking"
      BY <3>1 DEF SInv, MainStates, SocketOK
    <3> QED BY <3>1, <3>2, GoesOnStreams
  <2>3. CASE Listen \/ Shutdown \/ Exit \/ \E c \in Clients : Accept(c)
    BY <1>2, <2>3 DEF Listen, Shutdown, Exit, Accept
  <2> QED BY <1>4, <2>1, <2>2, <2>3 DEF MainNext
<1>5. ASSUME NEW c \in Clients, TaskNext(c)
      PROVE  StreamsOK'
  <2>1. CASE Cancel(c)
    <3>1. Running(c) /\ Become(c, Ended(conns[c], "cancelled"))
      BY <2>1 DEF Cancel
    <3>2. StreamOK(Ended(conns[c], "cancelled"))
      BY CutOffOK DEF Ends, SInv, StreamsOK
    <3> QED BY <3>1, <3>2, BecomeStreams
  <2>2. CASE Serve(c)
    BY <2>2, ConnStreams DEF Serve
  <2>3. CASE Uncount(c)
    BY <2>3, GoesOnStreams DEF Uncount
  <2>4. CASE Release(c)
    BY <2>4, GoesOnStreams DEF Release
  <2> QED BY <1>5, <2>1, <2>2, <2>3, <2>4 DEF TaskNext
<1>6. CASE UNCHANGED vars
  BY <1>2, <1>6 DEF vars
<1> QED BY <1>1, <1>3, <1>4, <1>5, <1>6 DEF Next

\* What the invariant says of one connection: its frames are a beginning of those sent.
LEMMA FramesOfOne ==
    ASSUME NEW r \in ConnStates, StreamOK(r)
    PROVE  LET sent == SentFrames(r.stream)
           IN  /\ IsPrefix(r.parsed, sent)
               /\ Len(r.parsed) = Len(r.stream.requests) => r.parsed = sent
<1> DEFINE s == r.parsed
           t == SentFrames(r.stream)
           N == Len(r.stream.requests)
           R == Range(s) \cup Range(t)
<1>1. s \in Seq(ParsedFrames) /\ Len(s) \in Nat /\ N \in Nat /\ WellFormed(r.stream)
  BY StreamTypes DEF ConnStates
<1>2. t = [i \in 1 .. N |-> r.stream.requests[i].frame]
  BY <1>1 DEF SentFrames, WellFormed
<1>3. /\ DOMAIN t = 1 .. N /\ \A i \in 1 .. N : t[i] = r.stream.requests[i].frame
  BY <1>2
<1>4. t \in Seq(R) /\ Len(t) = N
  <2>1. \A i \in 1 .. N : t[i] \in R
    BY <1>3 DEF Range
  <2>2. t \in [1 .. N -> R]
    <3> HIDE DEF R
    <3> QED BY <1>2, <1>3, <2>1
  <2> HIDE DEF R, t
  <2> QED BY <1>1, <2>2
<1>5. s \in Seq(R)
  <2>1. DOMAIN s = 1 .. Len(s) /\ \A i \in 1 .. Len(s) : s[i] \in R
    BY <1>1 DEF Range
  <2>2. s \in [1 .. Len(s) -> R]
    <3> HIDE DEF R
    <3> QED BY <1>1, <2>1
  <2> HIDE DEF R, s
  <2> QED BY <1>1, <2>2
<1>6. Len(s) <= N /\ \A i \in 1 .. Len(s) : s[i] = r.stream.requests[i].frame
  BY DEF StreamOK
<1>7. \A i \in 1 .. Len(s) : s[i] = t[i]
  <2>1. \A i \in 1 .. Len(s) : i \in 1 .. N
    BY <1>1, <1>6
  <2> QED BY <1>3, <1>6, <2>1
<1> HIDE DEF R, s, t
<1>8. IsPrefix(s, t)
  BY <1>1, <1>4, <1>5, <1>6, <1>7 DEF IsPrefix
<1>9. Len(s) = N => s = t
  BY <1>4, <1>5, <1>7, SeqEqual
<1> QED BY <1>8, <1>9 DEF s, t

\* If check and parse read each frame and nothing else, then however the bytes of a stream
\* arrive, read_frame yields the frames that were sent, in order, all of them when the
\* stream ends between frames or is refused, for any clients, streams, panics and shutdown.
THEOREM FramesRead ==
    ASSUME CodecReads
    PROVE  Spec => []FramesAsSent
<1>1. Init => SInv /\ StreamsOK
  BY InitOK, InitStreams
<1>2. (SInv /\ StreamsOK) /\ [Next]_vars => (SInv /\ StreamsOK)'
  BY NextOK, NextStreams
<1>3. SInv /\ StreamsOK => FramesAsSent
  <2> SUFFICES ASSUME SInv, StreamsOK, NEW c \in Clients
               PROVE  LET sent == SentFrames(conns[c].stream)
                          tail == conns[c].stream.tail
                      IN  /\ IsPrefix(conns[c].parsed, sent)
                          /\ conns[c].end = "closed" => conns[c].parsed = sent /\ tail = <<>>
                          /\ conns[c].end \in {"invalid", "cut"} =>
                               conns[c].parsed = sent /\ tail # <<>>
    BY DEF FramesAsSent
  <2>1. conns[c] \in ConnStates /\ StreamOK(conns[c])
    BY DEF SInv, StreamsOK
  <2>2. /\ IsPrefix(conns[c].parsed, SentFrames(conns[c].stream))
        /\ Len(conns[c].parsed) = Len(conns[c].stream.requests) =>
             conns[c].parsed = SentFrames(conns[c].stream)
    BY <2>1, FramesOfOne
  <2> QED BY <2>1, <2>2 DEF StreamOK
<1> QED BY <1>1, <1>2, <1>3, PTL DEF Spec

=============================================================================
