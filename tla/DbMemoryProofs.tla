--------------------------- MODULE DbMemoryProofs ---------------------------
(***************************************************************************)
(* What current_memory counts.  Every step of every task moves the counter *)
(* by the bytes it adds to or takes from the map, but for the header of a  *)
(* collection it creates; without the commands that create collections the *)
(* counter is the size of the map.                                         *)
(***************************************************************************)
EXTENDS DbProofs

-----------------------------------------------------------------------------
(* The bytes of one entry *)

\* size_bytes looks at the type and the data of an entry only.
LEMMA SameSize ==
    ASSUME NEW k, NEW e, NEW g, e.type = g.type, e.data = g.data
    PROVE  size_bytes(k, e) = size_bytes(k, g)
<1> DEFINE fe == [x \in DOMAIN e.data |-> ItemBytes(e, x)]
           fg == [x \in DOMAIN g.data |-> ItemBytes(g, x)]
<1>1. DOMAIN fe = DOMAIN fg
  OBVIOUS
<1>2. \A x \in DOMAIN fe : fe[x] = fg[x]
  BY DEF ItemBytes
<1>3. SumOver(fe) = SumOver(fg)
  <2> HIDE DEF fe, fg
  <2> QED BY <1>1, <1>2, SumSame
<1> QED BY <1>3 DEF size_bytes, data_size

\* A list is charged the bytes of its elements.
LEMMA ListSize ==
    ASSUME NEW e, e.type = "list"
    PROVE  data_size(e) = ElementBytes(e.data)
<1> DEFINE fe == [x \in DOMAIN e.data |-> ItemBytes(e, x)]
           fg == [i \in DOMAIN e.data |-> ByteLen[e.data[i]] + ITEM_OVERHEAD]
<1>1. DOMAIN fe = DOMAIN fg
  OBVIOUS
<1>2. \A x \in DOMAIN fe : fe[x] = fg[x]
  BY DEF ItemBytes
<1>3. SumOver(fe) = SumOver(fg)
  <2> HIDE DEF fe, fg
  <2> QED BY <1>1, <1>2, SumSame
<1> QED BY <1>3 DEF data_size, ElementBytes

\* A set is charged the bytes of its members.
LEMMA SetSize ==
    ASSUME NEW e, e.type = "set", \A m \in DOMAIN e.data : e.data[m] = m
    PROVE  data_size(e) = SumOver([m \in DOMAIN e.data |-> ByteLen[m] + ITEM_OVERHEAD])
<1> DEFINE fe == [x \in DOMAIN e.data |-> ItemBytes(e, x)]
           fg == [m \in DOMAIN e.data |-> ByteLen[m] + ITEM_OVERHEAD]
<1>1. DOMAIN fe = DOMAIN fg
  OBVIOUS
<1>2. \A x \in DOMAIN fe : fe[x] = fg[x]
  BY DEF ItemBytes
<1>3. SumOver(fe) = SumOver(fg)
  <2> HIDE DEF fe, fg
  <2> QED BY <1>1, <1>2, SumSame
<1> QED BY <1>3 DEF data_size

\* A hash is charged the bytes of its pairs.
LEMMA HashSize ==
    ASSUME NEW e, e.type = "hash"
    PROVE  data_size(e) = SumOver([f \in DOMAIN e.data |-> PairBytes(f, e.data[f])])
<1> DEFINE fe == [x \in DOMAIN e.data |-> ItemBytes(e, x)]
           fg == [f \in DOMAIN e.data |-> PairBytes(f, e.data[f])]
<1>1. DOMAIN fe = DOMAIN fg
  OBVIOUS
<1>2. \A x \in DOMAIN fe : fe[x] = fg[x]
  BY DEF ItemBytes, PairBytes
<1>3. SumOver(fe) = SumOver(fg)
  <2> HIDE DEF fe, fg
  <2> QED BY <1>1, <1>2, SumSame
<1> QED BY <1>3 DEF data_size

\* The terms ElementBytes adds up.
LEMMA ElementTerms ==
    ASSUME NEW s \in Seq(Bytes)
    PROVE  /\ Len(s) \in Nat
           /\ DOMAIN s = 1 .. Len(s)
           /\ \A i \in 1 .. Len(s) : s[i] \in Bytes
           /\ [i \in DOMAIN s |-> ByteLen[s[i]] + ITEM_OVERHEAD] \in [1 .. Len(s) -> Nat]
<1>1. Len(s) \in Nat /\ DOMAIN s = 1 .. Len(s) /\ s \in [1 .. Len(s) -> Bytes]
  BY LenProperties
<1> QED BY <1>1, LenAssumption, OverheadAssumption

\* A sequence that starts with the elements of s and goes on with those of t is charged
\* what both are charged.
LEMMA JoinedBytes ==
    ASSUME NEW s \in Seq(Bytes), NEW t \in Seq(Bytes), NEW u \in Seq(Bytes),
           Len(u) = Len(s) + Len(t),
           \A i \in 1 .. Len(s) : u[i] = s[i],
           \A i \in 1 .. Len(t) : u[Len(s) + i] = t[i]
    PROVE  ElementBytes(u) = ElementBytes(s) + ElementBytes(t)
<1> DEFINE m == Len(s)
           n == Len(t)
           f == [i \in DOMAIN s |-> ByteLen[s[i]] + ITEM_OVERHEAD]
           g == [i \in DOMAIN t |-> ByteLen[t[i]] + ITEM_OVERHEAD]
           h == [i \in DOMAIN u |-> ByteLen[u[i]] + ITEM_OVERHEAD]
<1>1. /\ m \in Nat /\ n \in Nat
      /\ DOMAIN s = 1 .. m /\ DOMAIN t = 1 .. n /\ DOMAIN u = 1 .. m + n
      /\ f \in [1 .. m -> Nat] /\ g \in [1 .. n -> Nat] /\ h \in [1 .. m + n -> Nat]
  BY ElementTerms
<1>2. \A i \in 1 .. m : h[i] = f[i]
  <2> SUFFICES ASSUME NEW i \in 1 .. m PROVE h[i] = f[i]
    OBVIOUS
  <2>1. i \in 1 .. m + n
    <3> HIDE DEF m, n
    <3> QED BY <1>1
  <2> QED BY <1>1, <2>1
<1>3. \A i \in 1 .. n : h[m + i] = g[i]
  <2> SUFFICES ASSUME NEW i \in 1 .. n PROVE h[m + i] = g[i]
    OBVIOUS
  <2>1. m + i \in 1 .. m + n
    <3> HIDE DEF m, n
    <3> QED BY <1>1
  <2> QED BY <1>1, <2>1
<1>4. SumOver(h) = SumOver(f) + SumOver(g)
  <2> HIDE DEF m, n, f, g, h
  <2> QED BY ZenonT(30), <1>1, <1>2, <1>3, SumJoin
<1> QED BY <1>4 DEF ElementBytes

\* Reversing a sequence, as LPUSH does with its arguments, keeps its bytes.
LEMMA ReversedBytes ==
    ASSUME NEW s \in Seq(Bytes)
    PROVE  ElementBytes(Reverse(s)) = ElementBytes(s)
<1> DEFINE n == Len(s)
           r == Reverse(s)
           f == [i \in DOMAIN s |-> ByteLen[s[i]] + ITEM_OVERHEAD]
           g == [i \in DOMAIN r |-> ByteLen[r[i]] + ITEM_OVERHEAD]
<1>1. n \in Nat /\ DOMAIN s = 1 .. n /\ f \in [1 .. n -> Nat]
  BY ElementTerms
<1>2. r \in Seq(Bytes) /\ Len(r) = n
  BY ReverseType
<1>3. DOMAIN r = 1 .. n /\ g \in [1 .. n -> Nat]
  <2> HIDE DEF r
  <2> QED BY <1>2, ElementTerms
<1>4. \A i \in 1 .. n : g[(n - i) + 1] = f[i]
  <2> SUFFICES ASSUME NEW i \in 1 .. n PROVE g[(n - i) + 1] = f[i]
    OBVIOUS
  <2>1. (n - i) + 1 \in 1 .. n /\ (n - ((n - i) + 1)) + 1 = i
    <3> HIDE DEF n
    <3> QED BY <1>1
  <2>2. r[(n - i) + 1] = s[i]
    BY <1>1, <2>1 DEF Reverse
  <2> HIDE DEF r
  <2> QED BY <1>1, <1>3, <2>1, <2>2
<1>5. SumOver(g) = SumOver(f)
  <2> HIDE DEF n, f, g
  <2> QED BY <1>1, <1>3, <1>4, SumReverse
<1> QED BY <1>5 DEF ElementBytes

\* One element.
LEMMA OneElement ==
    ASSUME NEW b \in Bytes
    PROVE  ElementBytes(<<b>>) = ByteLen[b] + ITEM_OVERHEAD
<1> DEFINE f == [i \in DOMAIN <<b>> |-> ByteLen[<<b>>[i]] + ITEM_OVERHEAD]
<1>1. DOMAIN f = {1} /\ f[1] = ByteLen[b] + ITEM_OVERHEAD
  OBVIOUS
<1>2. f[1] \in Nat
  BY <1>1, LenAssumption, OverheadAssumption
<1>3. SumOver(f) = f[1]
  <2> HIDE DEF f
  <2> QED BY <1>1, <1>2, SumPoint
<1> QED BY <1>1, <1>3 DEF ElementBytes

\* What LPUSH and RPUSH add to a list.
LEMMA PushBytes ==
    ASSUME NEW list \in Seq(Bytes), NEW els \in Seq(Bytes)
    PROVE  /\ ElementBytes(Reverse(els) \o list) = ElementBytes(list) + ElementBytes(els)
           /\ ElementBytes(list \o els) = ElementBytes(list) + ElementBytes(els)
<1>1. ASSUME NEW s \in Seq(Bytes), NEW t \in Seq(Bytes)
      PROVE  ElementBytes(s \o t) = ElementBytes(s) + ElementBytes(t)
  <2> DEFINE u == s \o t
  <2>1. /\ u \in Seq(Bytes) /\ Len(u) = Len(s) + Len(t)
        /\ \A i \in 1 .. Len(s) + Len(t) : u[i] = IF i <= Len(s) THEN s[i] ELSE t[i - Len(s)]
    BY ConcatProperties
  <2>2. Len(s) \in Nat /\ Len(t) \in Nat
    BY LenProperties
  <2> HIDE DEF u
  <2> DEFINE m == Len(s)
             n == Len(t)
  <2>3. \A i \in 1 .. m : u[i] = s[i]
    <3> SUFFICES ASSUME NEW i \in 1 .. m PROVE u[i] = s[i]
      OBVIOUS
    <3>1. i \in 1 .. m + n /\ i <= m
      <4> HIDE DEF m, n
      <4> QED BY <2>2 DEF m, n
    <3> QED BY <2>1, <3>1
  <2>4. \A i \in 1 .. n : u[m + i] = t[i]
    <3> SUFFICES ASSUME NEW i \in 1 .. n PROVE u[m + i] = t[i]
      OBVIOUS
    <3>1. m + i \in 1 .. m + n /\ ~(m + i <= m) /\ (m + i) - m = i
      <4> HIDE DEF m, n
      <4> QED BY <2>2 DEF m, n
    <3> QED BY <2>1, <3>1
  <2>5. ElementBytes(u) = ElementBytes(s) + ElementBytes(t)
    BY <2>1, <2>3, <2>4, JoinedBytes
  <2> QED BY <2>5 DEF u
<1>2. ASSUME NEW s \in Seq(Bytes)
      PROVE  ElementBytes(s) \in Nat
  <2> DEFINE f == [i \in DOMAIN s |-> ByteLen[s[i]] + ITEM_OVERHEAD]
  <2>1. f \in [1 .. Len(s) -> Nat] /\ Len(s) \in Nat
    BY ElementTerms
  <2>2. IsFiniteSet(1 .. Len(s))
    BY <2>1, FS_Interval
  <2>3. IsTally(f)
    <3> HIDE DEF f
    <3> QED BY <2>1, <2>2 DEF IsTally
  <2> QED BY <2>3, SumOverType DEF ElementBytes
<1>3. Reverse(els) \in Seq(Bytes) /\ ElementBytes(Reverse(els)) = ElementBytes(els)
  BY ReverseType, ReversedBytes
<1>4. ElementBytes(Reverse(els) \o list) = ElementBytes(Reverse(els)) + ElementBytes(list)
  BY <1>1, <1>3
<1> QED BY <1>1, <1>2, <1>3, <1>4

\* What LPOP and RPOP leave of a list.
LEMMA PopBytes ==
    ASSUME NEW list \in Seq(Bytes), list # <<>>, Len(list) \in Nat \ {0}
    PROVE  /\ ElementBytes(list) =
                ByteLen[Head(list)] + ITEM_OVERHEAD + ElementBytes(Tail(list))
           /\ ElementBytes(list) =
                ElementBytes(SubSeq(list, 1, Len(list) - 1))
                  + (ByteLen[list[Len(list)]] + ITEM_OVERHEAD)
<1> DEFINE n     == Len(list)
           head  == Head(list)
           tail  == Tail(list)
           last  == list[n]
           front == SubSeq(list, 1, n - 1)
           one   == <<head>>
           two   == <<last>>
<1>1. \A i \in 1 .. n : list[i] \in Bytes
  BY ElementOfSeq
<1>2. /\ head \in Bytes /\ head = list[1]
      /\ tail \in Seq(Bytes) /\ Len(tail) = n - 1
      /\ \A i \in 1 .. Len(tail) : tail[i] = list[i + 1]
  BY HeadTailProperties
<1>3. /\ one \in Seq(Bytes) /\ Len(one) = 1 /\ one[1] = head
      /\ ElementBytes(one) = ByteLen[head] + ITEM_OVERHEAD
  <2> HIDE DEF head
  <2> QED BY <1>2, OneElement
<1>4. last \in Bytes
  BY <1>1
<1>5. /\ two \in Seq(Bytes) /\ Len(two) = 1 /\ two[1] = last
      /\ ElementBytes(two) = ByteLen[last] + ITEM_OVERHEAD
  <2> HIDE DEF last
  <2> QED BY <1>4, OneElement
<1>6. /\ front \in Seq(Bytes) /\ Len(front) = n - 1
      /\ \A i \in 1 .. n - 1 : front[i] = list[i]
  <2>1. \A i \in 1 .. n - 1 : list[i] \in Bytes
    BY <1>1
  <2>2. /\ front \in Seq(Bytes)
        /\ Len(front) = IF 1 <= n - 1 THEN (n - 1) - 1 + 1 ELSE 0
        /\ \A i \in 1 .. (n - 1) - 1 + 1 : front[i] = list[1 + i - 1]
    BY <2>1, SubSeqProperties
  <2>3. n \in Nat \ {0}
    OBVIOUS
  <2> HIDE DEF front, n
  <2> QED BY <2>2, <2>3
<1>7. n \in Nat \ {0}
  OBVIOUS
<1> HIDE DEF head, tail, last, front, one, two
<1>8. ElementBytes(list) = ElementBytes(one) + ElementBytes(tail)
  <2>1. Len(list) = Len(one) + Len(tail)
    BY <1>2, <1>3, <1>7
  <2>2. \A i \in 1 .. Len(one) : list[i] = one[i]
    BY <1>2, <1>3
  <2>3. \A i \in 1 .. Len(tail) : list[Len(one) + i] = tail[i]
    BY <1>2, <1>3, <1>7
  <2> QED BY <1>2, <1>3, <2>1, <2>2, <2>3, JoinedBytes
<1>9. ElementBytes(list) = ElementBytes(front) + ElementBytes(two)
  <2>1. Len(list) = Len(front) + Len(two)
    BY <1>5, <1>6, <1>7
  <2>2. \A i \in 1 .. Len(front) : list[i] = front[i]
    BY <1>6
  <2>3. \A i \in 1 .. Len(two) : list[Len(front) + i] = two[i]
    <3> SUFFICES ASSUME NEW i \in 1 .. Len(two) PROVE list[Len(front) + i] = two[i]
      OBVIOUS
    <3>1. i = 1 /\ Len(front) + i = n
      BY <1>5, <1>6, <1>7
    <3> QED BY <1>5, <3>1 DEF last
  <2> QED BY <1>5, <1>6, <2>1, <2>2, <2>3, JoinedBytes
<1> QED BY <1>3, <1>5, <1>8, <1>9 DEF head, tail, last, front, n

-----------------------------------------------------------------------------
(* Sums over sets of payloads, for hashes and sets *)

\* The sum over a set of payloads splits along any subset.
LEMMA BytesSplit ==
    ASSUME NEW S \in SUBSET Bytes, NEW f \in [S -> Nat], NEW A, NEW B,
           S = A \cup B, A \cap B = {}
    PROVE  /\ SumOver(f) = SumOver([x \in A |-> f[x]]) + SumOver([x \in B |-> f[x]])
           /\ SumOver([x \in A |-> f[x]]) \in Nat
           /\ SumOver([x \in B |-> f[x]]) \in Nat
<1>1. IsFiniteSet(S)
  BY LenAssumption, FS_Subset
<1>2. IsTally(f) /\ DOMAIN f = A \cup B
  BY <1>1 DEF IsTally
<1>3. /\ IsTally([x \in A |-> f[x]]) /\ IsTally([x \in B |-> f[x]])
      /\ SumOver(f) = SumOver([x \in A |-> f[x]]) + SumOver([x \in B |-> f[x]])
  BY <1>2, SumSplit
<1> QED BY <1>3, SumOverType

\* The bytes a set with these members is charged.
MemberBytes(S) == SumOver([m \in S |-> ByteLen[m] + ITEM_OVERHEAD])

\* What SADD adds and SREM takes: the bytes of two disjoint sets of members add up.
LEMMA MembersSplit ==
    ASSUME NEW A \in SUBSET Bytes, NEW B \in SUBSET Bytes, A \cap B = {}
    PROVE  /\ MemberBytes(A \cup B) = MemberBytes(A) + MemberBytes(B)
           /\ MemberBytes(A) \in Nat /\ MemberBytes(B) \in Nat
<1> DEFINE S  == A \cup B
           f  == [m \in S |-> ByteLen[m] + ITEM_OVERHEAD]
           fa == [m \in A |-> ByteLen[m] + ITEM_OVERHEAD]
           fb == [m \in B |-> ByteLen[m] + ITEM_OVERHEAD]
<1>1. S \in SUBSET Bytes /\ f \in [S -> Nat]
  BY LenAssumption, OverheadAssumption
<1>2. [x \in A |-> f[x]] = fa /\ [x \in B |-> f[x]] = fb
  OBVIOUS
<1>3. S = A \cup B
  OBVIOUS
<1> HIDE DEF S, f, fa, fb
<1>4. SumOver(f) = SumOver(fa) + SumOver(fb) /\ SumOver(fa) \in Nat /\ SumOver(fb) \in Nat
  BY <1>1, <1>2, <1>3, BytesSplit
<1> QED BY <1>4 DEF MemberBytes, S, f, fa, fb

\* The bytes of the pairs with fields S and values v, and the parts of them that belong to
\* the fields and to the values.
PairSum(S, v) == SumOver([f \in S |-> PairBytes(f, v[f])])
FieldSum(S) == SumOver([f \in S |-> ByteLen[f] + PAIR_OVERHEAD])
ValueSum(S, v) == SumOver([f \in S |-> ByteLen[v[f]]])

\* Pairs with disjoint sets of fields add up.
LEMMA PairsSplit ==
    ASSUME NEW A \in SUBSET Bytes, NEW B \in SUBSET Bytes, A \cap B = {},
           NEW v, \A f \in A \cup B : v[f] \in Bytes
    PROVE  /\ PairSum(A \cup B, v) = PairSum(A, v) + PairSum(B, v)
           /\ PairSum(A, v) \in Nat /\ PairSum(B, v) \in Nat
<1> DEFINE S  == A \cup B
           g  == [f \in S |-> PairBytes(f, v[f])]
           ga == [f \in A |-> PairBytes(f, v[f])]
           gb == [f \in B |-> PairBytes(f, v[f])]
<1>1. S \in SUBSET Bytes /\ g \in [S -> Nat]
  BY LenAssumption, OverheadAssumption DEF PairBytes
<1>2. [x \in A |-> g[x]] = ga /\ [x \in B |-> g[x]] = gb
  OBVIOUS
<1>3. S = A \cup B
  OBVIOUS
<1> HIDE DEF S, g, ga, gb
<1>4. SumOver(g) = SumOver(ga) + SumOver(gb) /\ SumOver(ga) \in Nat /\ SumOver(gb) \in Nat
  <2>1. /\ SumOver(g) = SumOver([x \in A |-> g[x]]) + SumOver([x \in B |-> g[x]])
        /\ SumOver([x \in A |-> g[x]]) \in Nat
        /\ SumOver([x \in B |-> g[x]]) \in Nat
    BY <1>1, <1>3, BytesSplit
  <2> QED BY <1>2, <2>1
<1> QED BY <1>4 DEF PairSum, S, g, ga, gb

\* The bytes of the pairs are those of the fields and those of the values.
LEMMA PairsParts ==
    ASSUME NEW S \in SUBSET Bytes, NEW v, \A f \in S : v[f] \in Bytes
    PROVE  /\ PairSum(S, v) = FieldSum(S) + ValueSum(S, v)
           /\ FieldSum(S) \in Nat /\ ValueSum(S, v) \in Nat
<1> DEFINE fs == [f \in S |-> ByteLen[f] + PAIR_OVERHEAD]
           vs == [f \in S |-> ByteLen[v[f]]]
           ps == [f \in S |-> PairBytes(f, v[f])]
<1>1. fs \in [S -> Nat] /\ vs \in [S -> Nat]
  BY LenAssumption, OverheadAssumption
<1>2. IsFiniteSet(S)
  BY LenAssumption, FS_Subset
<1>3. \A f \in S : ps[f] = fs[f] + vs[f]
  <2> SUFFICES ASSUME NEW f \in S PROVE ps[f] = fs[f] + vs[f]
    OBVIOUS
  <2>1. ByteLen[f] \in Nat /\ ByteLen[v[f]] \in Nat /\ PAIR_OVERHEAD \in Nat
    BY LenAssumption, OverheadAssumption
  <2> QED BY <2>1 DEF PairBytes
<1>4. SumOver([f \in S |-> fs[f] + vs[f]]) = SumOver(fs) + SumOver(vs)
  <2> HIDE DEF fs, vs
  <2> QED BY <1>1, <1>2, SumPlus
<1>5. ps = [f \in S |-> fs[f] + vs[f]]
  <2>1. ps = [f \in S |-> ps[f]]
    OBVIOUS
  <2> HIDE DEF fs, vs, ps
  <2> QED BY <1>3, <2>1
<1>6. SumOver(fs) \in Nat /\ SumOver(vs) \in Nat
  <2> HIDE DEF fs, vs
  <2> QED BY <1>1, BytesSum
<1> HIDE DEF fs, vs, ps
<1>7. SumOver(ps) = SumOver(fs) + SumOver(vs)
  BY <1>4, <1>5
<1> QED BY <1>6, <1>7 DEF PairSum, FieldSum, ValueSum, ps, fs, vs

\* Only the values under the fields S matter.
LEMMA PairsSame ==
    ASSUME NEW S, NEW v, NEW w, \A f \in S : v[f] = w[f]
    PROVE  PairSum(S, v) = PairSum(S, w)
<1> DEFINE vs == [f \in S |-> PairBytes(f, v[f])]
           ws == [f \in S |-> PairBytes(f, w[f])]
<1>1. DOMAIN vs = DOMAIN ws /\ \A f \in DOMAIN vs : vs[f] = ws[f]
  OBVIOUS
<1>2. SumOver(vs) = SumOver(ws)
  <2> HIDE DEF vs, ws
  <2> QED BY <1>1, SumSame
<1> QED BY <1>2 DEF PairSum

\* HSET: the new pairs, and the difference of the values under the fields already there.
LEMMA InsertedBytes ==
    ASSUME NEW S \in SUBSET Bytes, NEW map \in [S -> Bytes],
           NEW F \in SUBSET Bytes, NEW fields \in [F -> Bytes]
    PROVE  PairSum(S \cup F, Inserted(map, fields)) =
             PairSum(S, map)
               + (PairSum(F \ S, fields) + ValueSum(F \cap S, fields) - ValueSum(F \cap S, map))
<1> DEFINE data  == Inserted(map, fields)
           kept  == S \ F
           old   == F \cap S
           fresh == F \ S
<1>1. /\ \A f \in S \cup F : data[f] \in Bytes
      /\ \A f \in kept : data[f] = map[f]
      /\ \A f \in F : data[f] = fields[f]
  BY DEF Inserted
<1>2. /\ S \cup F = kept \cup F /\ kept \cap F = {} /\ kept \in SUBSET Bytes
      /\ F = old \cup fresh /\ old \cap fresh = {}
      /\ S = kept \cup old /\ kept \cap old = {}
      /\ old \in SUBSET Bytes /\ fresh \in SUBSET Bytes
  OBVIOUS
<1>3. old \subseteq S /\ old \subseteq F
  OBVIOUS
<1> HIDE DEF data, kept, old, fresh
<1>4. /\ PairSum(S \cup F, data) = PairSum(kept, data) + PairSum(F, data)
      /\ PairSum(kept, data) \in Nat
  BY <1>1, <1>2, PairsSplit
<1>5. PairSum(kept, data) = PairSum(kept, map)
  BY <1>1, PairsSame
<1>6. PairSum(F, data) = PairSum(F, fields)
  BY <1>1, PairsSame
<1>7. /\ PairSum(F, fields) = PairSum(old, fields) + PairSum(fresh, fields)
      /\ PairSum(fresh, fields) \in Nat
  <2>1. \A f \in old \cup fresh : fields[f] \in Bytes
    BY <1>2
  <2>2. /\ PairSum(old \cup fresh, fields) = PairSum(old, fields) + PairSum(fresh, fields)
        /\ PairSum(fresh, fields) \in Nat
    <3>1. old \in SUBSET Bytes /\ fresh \in SUBSET Bytes /\ old \cap fresh = {}
      BY <1>2
    <3>2. PairSum(old \cup fresh, fields) = PairSum(old, fields) + PairSum(fresh, fields)
      BY <2>1, <3>1, PairsSplit
    <3>3. PairSum(fresh, fields) \in Nat
      BY <2>1, <3>1, PairsSplit
    <3> QED BY <3>2, <3>3
  <2> QED BY <1>2, <2>2
<1>8. PairSum(S, map) = PairSum(kept, map) + PairSum(old, map)
  BY <1>2, PairsSplit
<1>9. /\ PairSum(old, fields) = FieldSum(old) + ValueSum(old, fields)
      /\ FieldSum(old) \in Nat /\ ValueSum(old, fields) \in Nat
  BY <1>2, <1>3, PairsParts
<1>10. /\ PairSum(old, map) = FieldSum(old) + ValueSum(old, map)
       /\ ValueSum(old, map) \in Nat
  BY <1>2, <1>3, PairsParts
<1> QED BY <1>4, <1>5, <1>6, <1>7, <1>8, <1>9, <1>10 DEF data, old, fresh

-----------------------------------------------------------------------------
(* The bytes of the map *)

\* What a slot is charged, and the map as a whole.
SlotBytes(k, e) == IF e.type = "none" THEN 0 ELSE size_bytes(k, e)
BytesOf(map) == SumOver([k \in {kk \in Keys : map[kk].type # "none"} |-> size_bytes(k, map[k])])

\* A slot is charged a natural.
LEMMA SlotType ==
    ASSUME NEW k \in Keys, NEW e \in FullSlots
    PROVE  SlotBytes(k, e) \in Nat
<1>1. CASE e.type = "none"
  BY <1>1 DEF SlotBytes
<1>2. CASE e.type # "none"
  BY <1>2, SlotCases, SizeType DEF SlotBytes
<1> QED BY <1>1, <1>2

\* The empty slots add nothing, so the sum may run over all the keys.
LEMMA BytesOverKeys ==
    ASSUME NEW map \in [Keys -> FullSlots]
    PROVE  BytesOf(map) = SumOver([k \in Keys |-> SlotBytes(k, map[k])])
<1> DEFINE f == [k \in Keys |-> SlotBytes(k, map[k])]
           A == {kk \in Keys : map[kk].type # "none"}
           B == {kk \in Keys : map[kk].type = "none"}
           fa == [x \in A |-> f[x]]
           fb == [x \in B |-> f[x]]
<1>1. IsTally(f)
  BY LenAssumption, SlotType DEF IsTally
<1>2. DOMAIN f = A \cup B /\ A \cap B = {}
  OBVIOUS
<1>3. SumOver(f) = SumOver(fa) + SumOver(fb) /\ IsTally(fa)
  <2> HIDE DEF f, A, B
  <2> QED BY <1>1, <1>2, SumSplit
<1>4. SumOver(fb) = 0
  <2>1. \A x \in DOMAIN fb : fb[x] = 0
    BY DEF SlotBytes
  <2> HIDE DEF fb
  <2> QED BY <2>1, SumZero
<1>5. fa = [k \in A |-> size_bytes(k, map[k])]
  BY DEF SlotBytes
<1>6. SumOver(fa) = BytesOf(map)
  BY <1>5 DEF BytesOf
<1>7. SumOver(fa) \in Nat
  <2> HIDE DEF fa
  <2> QED BY <1>3, SumOverType
<1> QED BY <1>3, <1>4, <1>6, <1>7

\* Removing or replacing the entries under a set of keys changes the sum by theirs.
LEMMA BytesChanged ==
    ASSUME NEW map \in [Keys -> FullSlots], NEW next \in [Keys -> FullSlots],
           NEW G \in SUBSET Keys, \A k \in Keys \ G : next[k] = map[k]
    PROVE  /\ BytesOf(next) - BytesOf(map) =
                SumOver([k \in G |-> SlotBytes(k, next[k])])
                  - SumOver([k \in G |-> SlotBytes(k, map[k])])
           /\ BytesOf(map) \in Nat
           /\ BytesOf(next) \in Nat
           /\ SumOver([k \in G |-> SlotBytes(k, map[k])]) \in Nat
           /\ SumOver([k \in G |-> SlotBytes(k, next[k])]) \in Nat
<1> DEFINE R == Keys \ G
<1>1. ASSUME NEW m \in [Keys -> FullSlots]
      PROVE  /\ BytesOf(m) = SumOver([k \in G |-> SlotBytes(k, m[k])])
                               + SumOver([k \in R |-> SlotBytes(k, m[k])])
             /\ SumOver([k \in G |-> SlotBytes(k, m[k])]) \in Nat
             /\ SumOver([k \in R |-> SlotBytes(k, m[k])]) \in Nat
  <2> DEFINE f  == [k \in Keys |-> SlotBytes(k, m[k])]
             fg == [x \in G |-> f[x]]
             fr == [x \in R |-> f[x]]
  <2>1. IsTally(f)
    BY LenAssumption, SlotType DEF IsTally
  <2>2. DOMAIN f = G \cup R /\ G \cap R = {}
    OBVIOUS
  <2>3. SumOver(f) = SumOver(fg) + SumOver(fr) /\ IsTally(fg) /\ IsTally(fr)
    <3> HIDE DEF f, R
    <3> QED BY <2>1, <2>2, SumSplit
  <2>4. SumOver(fg) \in Nat /\ SumOver(fr) \in Nat
    <3> HIDE DEF fg, fr
    <3> QED BY <2>3, SumOverType
  <2>5. /\ fg = [k \in G |-> SlotBytes(k, m[k])]
        /\ fr = [k \in R |-> SlotBytes(k, m[k])]
    OBVIOUS
  <2>6. BytesOf(m) = SumOver(f)
    BY BytesOverKeys
  <2> HIDE DEF f, fg, fr
  <2> QED BY <2>3, <2>4, <2>5, <2>6
<1>2. [k \in R |-> SlotBytes(k, next[k])] = [k \in R |-> SlotBytes(k, map[k])]
  OBVIOUS
<1> HIDE DEF R
<1> DEFINE gm == SumOver([k \in G |-> SlotBytes(k, map[k])])
           gn == SumOver([k \in G |-> SlotBytes(k, next[k])])
           r  == SumOver([k \in R |-> SlotBytes(k, map[k])])
<1>3. BytesOf(map) = gm + r /\ gm \in Nat /\ r \in Nat
  BY <1>1
<1>4. BytesOf(next) = gn + r /\ gn \in Nat
  <2>1. /\ BytesOf(next) = gn + SumOver([k \in R |-> SlotBytes(k, next[k])])
        /\ gn \in Nat
    BY <1>1
  <2> QED BY <1>2, <2>1
<1> HIDE DEF gm, gn, r
<1>5. BytesOf(next) - BytesOf(map) = gn - gm
  BY <1>3, <1>4
<1>6. BytesOf(next) \in Nat /\ BytesOf(map) \in Nat
  BY <1>3, <1>4
<1> QED BY <1>3, <1>4, <1>5, <1>6 DEF gm, gn

\* Replacing one slot.
LEMMA BytesStored ==
    ASSUME NEW map \in [Keys -> FullSlots], NEW k \in Keys, NEW e \in FullSlots
    PROVE  /\ BytesOf([map EXCEPT ![k] = e]) - BytesOf(map) =
                SlotBytes(k, e) - SlotBytes(k, map[k])
           /\ BytesOf(map) \in Nat
           /\ BytesOf([map EXCEPT ![k] = e]) \in Nat
<1> DEFINE next == [map EXCEPT ![k] = e]
           G    == {k}
           gm   == [x \in G |-> SlotBytes(x, map[x])]
           gn   == [x \in G |-> SlotBytes(x, next[x])]
<1>1. next \in [Keys -> FullSlots] /\ G \in SUBSET Keys /\ next[k] = e
      /\ \A x \in Keys \ G : next[x] = map[x]
  OBVIOUS
<1>2. DOMAIN gm = {k} /\ gm[k] = SlotBytes(k, map[k]) /\ gm[k] \in Nat
  BY SlotType
<1>3. DOMAIN gn = {k} /\ gn[k] = SlotBytes(k, e) /\ gn[k] \in Nat
  BY <1>1, SlotType
<1>4. /\ BytesOf(next) - BytesOf(map) = SumOver(gn) - SumOver(gm)
      /\ BytesOf(map) \in Nat /\ BytesOf(next) \in Nat
  <2> HIDE DEF next, G
  <2> QED BY <1>1, BytesChanged
<1>5. SumOver(gm) = gm[k] /\ SumOver(gn) = gn[k]
  <2> HIDE DEF gm, gn
  <2> QED BY <1>2, <1>3, SumPoint
<1> QED BY <1>2, <1>3, <1>4, <1>5

-----------------------------------------------------------------------------
(* What the building blocks do to the counter *)

\* The bytes of the headers a step does not charge.
Uncharged == SumOver([k \in CreatedCollections |-> HeaderBytes(k)])

\* What DriftOnlyFromCreation asks of a step.
DriftExplained ==
    current_memory' = (current_memory + TotalBytes' - TotalBytes - Uncharged) % UsizeMod

\* Only the commands of Growers create collections, and not when they fail.
LEMMA NothingCreated ==
    ASSUME out'.op \notin Growers \/ out'.err
    PROVE  Uncharged = 0
<1>1. CreatedCollections = {}
  BY DEF CreatedCollections
<1>2. DOMAIN [k \in CreatedCollections |-> HeaderBytes(k)] = {}
  BY <1>1
<1> HIDE DEF CreatedCollections
<1> QED BY <1>2, SumPoint DEF Uncharged

\* A step that leaves the sizes and the counter alone.
LEMMA KeptExplained ==
    ASSUME IInv, BytesOf(entries') = BytesOf(entries), current_memory' = current_memory,
           Uncharged = 0
    PROVE  DriftExplained
<1>1. TotalBytes = BytesOf(entries) /\ TotalBytes' = BytesOf(entries')
  BY DEF TotalBytes, BytesOf, Present
<1>2. entries \in [Keys -> FullSlots] /\ current_memory \in 0 .. UsizeMod - 1
  BY DEF IInv
<1>3. BytesOf(entries) \in Nat
  BY <1>2, BytesChanged
<1>4. current_memory + BytesOf(entries) - BytesOf(entries) - 0 = current_memory
  BY <1>2, <1>3, DbAssumption
<1>5. current_memory % UsizeMod = current_memory
  BY <1>2, DbAssumption
<1> QED BY <1>1, <1>4, <1>5 DEF DriftExplained

\* A step that leaves the map alone.
LEMMA UntouchedExplained ==
    ASSUME IInv, Untouched, Uncharged = 0
    PROVE  DriftExplained
  BY KeptExplained DEF Untouched

\* A step that replaces one slot and moves the counter by delta.
LEMMA StoreExplained ==
    ASSUME IInv, NEW k \in Keys, NEW e \in FullSlots, NEW delta \in Int, Store(k, e, delta),
           Uncharged \in Nat,
           delta = SlotBytes(k, e) - SlotBytes(k, entries[k]) - Uncharged
    PROVE  DriftExplained
<1> DEFINE u == Uncharged
           a == BytesOf(entries)
           b == BytesOf(entries')
           c == current_memory
           s == SlotBytes(k, e)
           o == SlotBytes(k, entries[k])
<1>1. TotalBytes = a /\ TotalBytes' = b
  BY DEF TotalBytes, BytesOf, Present
<1>2. entries \in [Keys -> FullSlots] /\ c \in Int
  BY DbAssumption DEF IInv
<1>3. entries' = [entries EXCEPT ![k] = e]
  BY DEF Store
<1>4. b - a = s - o /\ a \in Nat /\ b \in Nat
  BY <1>2, <1>3, BytesStored
<1>5. s \in Nat /\ o \in Nat
  BY <1>2, SlotType
<1>6. c' = (c + delta) % UsizeMod
  BY DEF Store, AddMemory
<1>7. c + delta = c + b - a - u
  <2> HIDE DEF a, b, c, s, o, u
  <2> QED BY <1>2, <1>4, <1>5 DEF s, o, u
<1>8. DriftExplained <=> c' = (c + b - a - u) % UsizeMod
  BY <1>1 DEF DriftExplained
<1> QED BY <1>6, <1>7, <1>8

\* A removal gives back what the entry was charged.
LEMMA RemoveExplained ==
    ASSUME IInv, NEW k \in Keys, Present(k), Store(k, Absent, -size_bytes(k, entries[k])),
           Uncharged = 0
    PROVE  DriftExplained
<1>1. size_bytes(k, entries[k]) \in Nat /\ entries[k].type # "none"
  BY PresentSize DEF Present
<1>2. SlotBytes(k, Absent) = 0 /\ SlotBytes(k, entries[k]) = size_bytes(k, entries[k])
  BY <1>1 DEF SlotBytes, Absent
<1> DEFINE d == -size_bytes(k, entries[k])
<1>3. d \in Int /\ d = SlotBytes(k, Absent) - SlotBytes(k, entries[k]) - Uncharged
  BY <1>1, <1>2
<1>4. Absent \in FullSlots
  BY SlotCases
<1>5. Store(k, Absent, d)
  OBVIOUS
<1> HIDE DEF d
<1> QED BY <1>3, <1>4, <1>5, StoreExplained

\* Replacing an entry by one with the same type and data, as a reader's timestamp or
\* EXPIRE does, moves nothing.
LEMMA RestampExplained ==
    ASSUME IInv, NEW k \in Keys, Present(k), NEW e \in FullEntries,
           e.type = entries[k].type, e.data = entries[k].data,
           Store(k, e, 0) \/ (entries' = [entries EXCEPT ![k] = e] /\ UNCHANGED current_memory),
           Uncharged = 0
    PROVE  DriftExplained
<1>1. size_bytes(k, e) = size_bytes(k, entries[k])
  BY SameSize
<1>2. SlotBytes(k, e) = SlotBytes(k, entries[k])
  BY <1>1 DEF SlotBytes
<1>3. e \in FullSlots /\ entries \in [Keys -> FullSlots]
  BY DEF FullSlots, IInv
<1>4. entries[k] \in FullSlots
  BY <1>3
<1>5. SlotBytes(k, e) \in Nat
  BY <1>3, SlotType
<1>6. CASE Store(k, e, 0)
  <2>1. 0 = SlotBytes(k, e) - SlotBytes(k, entries[k]) - Uncharged
    BY <1>2, <1>5
  <2> QED BY <1>3, <1>6, <2>1, StoreExplained
<1>7. CASE entries' = [entries EXCEPT ![k] = e] /\ UNCHANGED current_memory
  <2>1. BytesOf(entries') - BytesOf(entries) = SlotBytes(k, e) - SlotBytes(k, entries[k])
        /\ BytesOf(entries) \in Nat /\ BytesOf(entries') \in Nat
    BY <1>3, <1>7, BytesStored
  <2>2. BytesOf(entries') = BytesOf(entries)
    BY <1>2, <1>5, <2>1
  <2> QED BY <1>7, <2>2, KeptExplained
<1> QED BY <1>6, <1>7

\* A timestamp moves nothing.
LEMMA TouchExplained ==
    ASSUME IInv, NEW k \in Keys, Present(k), NEW at \in Nat, Touch(k, at), Uncharged = 0
    PROVE  DriftExplained
<1> DEFINE e == [entries[k] EXCEPT !.last_accessed = at]
<1>1. entries[k] \in FullEntries
  BY PresentSize
<1>2. e \in FullEntries
  BY <1>1, StampType
<1>3. e.type = entries[k].type /\ e.data = entries[k].data
  BY <1>1 DEF FullEntries, CacheEntries
<1>4. entries' = [entries EXCEPT ![k] = e] /\ UNCHANGED current_memory
  BY DEF Touch
<1> HIDE DEF e
<1> QED BY <1>2, <1>3, <1>4, RestampExplained

-----------------------------------------------------------------------------
(* The commands on collections *)

\* An entry without items is charged its header only.
LEMMA EmptySize ==
    ASSUME NEW e, DOMAIN e.data = {}
    PROVE  data_size(e) = 0
<1>1. DOMAIN [x \in DOMAIN e.data |-> ItemBytes(e, x)] = {}
  OBVIOUS
<1> QED BY <1>1, SumPoint DEF data_size

\* The two parts of what an entry is charged.
LEMMA SizeParts ==
    ASSUME NEW k \in Keys, NEW e \in CacheEntries
    PROVE  /\ size_bytes(k, e) = HeaderBytes(k) + data_size(e)
           /\ HeaderBytes(k) \in Nat /\ data_size(e) \in Nat /\ size_bytes(k, e) \in Nat
           /\ SlotBytes(k, e) = size_bytes(k, e)
<1>1. HeaderBytes(k) \in Nat /\ size_bytes(k, e) \in Nat
  BY SizeType
<1>2. data_size(e) \in Nat
  BY ItemsTally, SumOverType DEF data_size
<1>3. e.type # "none"
  BY DEF CacheEntries, DataTypes, CollectionTypes
<1> QED BY <1>1, <1>2, <1>3 DEF size_bytes, SlotBytes

\* A growing command that charges its items charges all but the header of the collection
\* it creates.
LEMMA GrowExplained ==
    ASSUME IInv, NEW op \in Growers, NEW k \in Keys, NEW now, NEW type \in CollectionTypes,
           NEW data, NEW added, NEW given, NEW count,
           OrInsert(k, now, type).type = type
             => /\ data \in DataOf(type)
                /\ DOMAIN data # {}
                /\ added \in Int
                /\ data_size([OrInsert(k, now, type) EXCEPT !.data = data, !.last_accessed = clock])
                     = data_size(OrInsert(k, now, type)) + added,
           Grow(op, k, now, type, data, added, given, count)
    PROVE  DriftExplained
<1> DEFINE base == OrInsert(k, now, type)
           e    == [base EXCEPT !.data = data, !.last_accessed = clock]
           back == ReclaimedBytes(k, now)
<1>1. CASE Untouched /\ WrongType(op, k, now, NoMetric)
  <2>1. out'.err
    BY <1>1 DEF WrongType
  <2> QED BY <1>1, <2>1, NothingCreated, UntouchedExplained
<1>2. CASE /\ base.type = type
           /\ Store(k, e, added - back)
           /\ Answer(op, k, now, given, <<count>>, NoMetric)
  <2>1. base \in CacheEntries /\ back \in Nat /\ clock \in Nat
    BY OrInsertType DEF IInv
  <2>2. e \in CacheEntries /\ e.data = data
    <3>1. data \in DataOf(base.type)
      BY <1>2
    <3> HIDE DEF base
    <3> QED BY ZenonT(30), <2>1, <3>1, UpdateType
  <2>3. e \in FullSlots
    BY <1>2, <2>2 DEF FullSlots, FullEntries
  <2>4. data_size(e) = data_size(base) + added /\ added \in Int
    BY <1>2
  <2>5. out'.op = op /\ ~out'.err /\ out'.keys = {k} /\ out'.now = now
    BY <1>2 DEF Answer
  <2>6. /\ size_bytes(k, e) = HeaderBytes(k) + data_size(e)
        /\ HeaderBytes(k) \in Nat /\ data_size(e) \in Nat
        /\ SlotBytes(k, e) = size_bytes(k, e)
    <3> HIDE DEF e
    <3> QED BY <2>2, SizeParts
  <2>7. CASE Live(k, now)
    <3>1. CreatedCollections = {}
      BY <2>5, <2>7 DEF CreatedCollections
    <3>2. Uncharged = 0
      <4>1. DOMAIN [x \in CreatedCollections |-> HeaderBytes(x)] = {}
        BY <3>1
      <4> QED BY <4>1, SumPoint DEF Uncharged
    <3>3. base = entries[k] /\ back = 0
      BY <2>7 DEF OrInsert, Live, ReclaimedBytes, Expired
    <3>4. size_bytes(k, base) = HeaderBytes(k) + data_size(base) /\ data_size(base) \in Nat
          /\ SlotBytes(k, base) = size_bytes(k, base)
      <4> HIDE DEF base
      <4> QED BY <2>1, SizeParts
    <3> DEFINE d == added - back
    <3>5. d \in Int /\ d = SlotBytes(k, e) - SlotBytes(k, entries[k]) - Uncharged
      <4> HIDE DEF e, base, back
      <4> QED BY <2>1, <2>4, <2>6, <3>2, <3>3, <3>4
    <3>6. Store(k, e, d)
      BY <1>2
    <3> HIDE DEF e, d
    <3> QED BY <2>3, <3>2, <3>5, <3>6, StoreExplained
  <2>8. CASE ~Live(k, now)
    <3>1. CreatedCollections = {k}
      BY <2>5, <2>8 DEF CreatedCollections
    <3>2. Uncharged = HeaderBytes(k)
      <4> DEFINE f == [x \in CreatedCollections |-> HeaderBytes(x)]
      <4>1. DOMAIN f = {k} /\ f[k] = HeaderBytes(k) /\ f[k] \in Nat
        BY <2>6, <3>1
      <4>2. SumOver(f) = f[k]
        <5> HIDE DEF f
        <5> QED BY <4>1, SumPoint
      <4> QED BY <4>1, <4>2 DEF Uncharged
    <3>3. base = new(type, <<>>, None, clock)
      BY <2>8 DEF OrInsert
    <3>4. DOMAIN base.data = {}
      BY <3>3 DEF new
    <3>5. data_size(base) = 0
      <4> HIDE DEF base
      <4> QED BY <3>4, EmptySize
    <3>6. back = SlotBytes(k, entries[k])
      BY <2>8 DEF ReclaimedBytes, SlotBytes, Live, Expired, Present
    <3> DEFINE d == added - back
    <3>7. d \in Int /\ d = SlotBytes(k, e) - SlotBytes(k, entries[k]) - Uncharged
      <4> HIDE DEF e, base, back
      <4> QED BY <2>1, <2>4, <2>6, <3>2, <3>5, <3>6
    <3>8. Store(k, e, d)
      BY <1>2
    <3>9. Uncharged \in Nat
      BY <2>6, <3>2
    <3> HIDE DEF e, d
    <3> QED BY <2>3, <3>7, <3>8, <3>9, StoreExplained
  <2> QED BY <2>7, <2>8
<1> QED BY <1>1, <1>2 DEF Grow

\* A shrinking command gives back its items, and the header with the last of them.
LEMMA ShrinkExplained ==
    ASSUME IInv, NEW op, op \notin Growers, NEW k \in Keys, NEW now, NEW type \in CollectionTypes,
           NEW data, NEW freed, NEW given, NEW reply, NEW metrics,
           Present(k) /\ entries[k].type = type
             => /\ data \in DataOf(type)
                /\ freed \in Int
                /\ data_size([entries[k] EXCEPT !.data = data, !.last_accessed = clock]) + freed
                     = data_size(entries[k]),
           Shrink(op, k, now, type, data, freed, given, reply, metrics)
    PROVE  DriftExplained
<1>1. out'.op = op
  BY DEF Shrink, Answer, WrongType
<1>2. Uncharged = 0
  BY <1>1, NothingCreated
<1>3. CASE Untouched
  BY <1>2, <1>3, UntouchedExplained
<1>4. CASE Expired(k, now) /\ Store(k, Absent, -size_bytes(k, entries[k]))
  BY <1>2, <1>4, RemoveExplained DEF Expired
<1>5. CASE /\ Live(k, now)
           /\ entries[k].type = type
           /\ Store(k, Remaining(k, data), -(freed + EmptiedBytes(k, data)))
  <2> DEFINE old == entries[k]
             e   == [old EXCEPT !.data = data, !.last_accessed = clock]
             d   == -(freed + EmptiedBytes(k, data))
             r   == Remaining(k, data)
  <2>1. old \in CacheEntries /\ clock \in Nat /\ Present(k)
    BY <1>5, PresentSize, SlotCases DEF IInv, Live
  <2>2. data \in DataOf(type) /\ freed \in Int /\ data_size(e) + freed = data_size(old)
    BY <1>5, <2>1
  <2>3. e \in CacheEntries /\ e.data = data
    <3>1. data \in DataOf(old.type)
      BY <1>5, <2>2
    <3> HIDE DEF old
    <3> QED BY <2>1, <3>1, UpdateType
  <2>4. /\ size_bytes(k, old) = HeaderBytes(k) + data_size(old)
        /\ data_size(old) \in Nat
        /\ SlotBytes(k, old) = size_bytes(k, old)
    <3> HIDE DEF old
    <3> QED BY <2>1, SizeParts
  <2>5. /\ size_bytes(k, e) = HeaderBytes(k) + data_size(e)
        /\ HeaderBytes(k) \in Nat /\ data_size(e) \in Nat
        /\ SlotBytes(k, e) = size_bytes(k, e)
    <3> HIDE DEF e
    <3> QED BY <2>3, SizeParts
  <2>6. /\ r \in FullSlots
        /\ d \in Int
        /\ d = SlotBytes(k, r) - SlotBytes(k, old) - Uncharged
    <3>1. CASE DOMAIN data = {}
      <4>1. r = Absent /\ d = -(freed + HeaderBytes(k))
        BY <3>1 DEF Remaining, EmptiedBytes
      <4>2. data_size(e) = 0
        <5> HIDE DEF e
        <5> QED BY <2>3, <3>1, EmptySize
      <4>3. SlotBytes(k, Absent) = 0
        BY DEF SlotBytes, Absent
      <4> HIDE DEF r, d, e, old
      <4> QED BY <1>2, <2>2, <2>4, <2>5, <4>1, <4>2, <4>3, SlotCases
    <3>2. CASE DOMAIN data # {}
      <4>1. r = e /\ d = -(freed + 0)
        BY <3>2 DEF Remaining, EmptiedBytes
      <4>2. e \in FullSlots
        BY <2>3, <3>2 DEF FullSlots, FullEntries
      <4> HIDE DEF r, d, e, old
      <4> QED BY <1>2, <2>2, <2>4, <2>5, <4>1, <4>2
    <3> QED BY <3>1, <3>2
  <2>7. Store(k, r, d)
    BY <1>5
  <2> HIDE DEF r, d
  <2> QED BY <1>2, <2>6, <2>7, StoreExplained
<1> QED BY <1>3, <1>4, <1>5 DEF Shrink

\* LPUSH and RPUSH charge the elements they push.
LEMMA PushExplained ==
    ASSUME IInv, NEW k \in Keys, NEW now, NEW els \in ElementArgs,
           lpush(k, els, now) \/ rpush(k, els, now)
    PROVE  DriftExplained
<1> DEFINE base  == OrInsert(k, now, "list")
           list  == base.data
           added == ElementBytes(els)
           left  == Reverse(els) \o list
           right == list \o els
<1>1. els \in Seq(Bytes) /\ Len(els) \in Nat \ {0} /\ added \in Nat
  BY ElementArgsType
<1>2. base \in CacheEntries /\ clock \in Nat
  BY OrInsertType DEF CollectionTypes, IInv
<1>3. ASSUME NEW data \in Seq(Bytes), Len(data) \in Nat \ {0}, base.type = "list",
             ElementBytes(data) = ElementBytes(list) + added
      PROVE  /\ data \in DataOf("list") /\ DOMAIN data # {} /\ added \in Int
             /\ data_size([base EXCEPT !.data = data, !.last_accessed = clock])
                  = data_size(base) + added
  <2> DEFINE e == [base EXCEPT !.data = data, !.last_accessed = clock]
  <2>1. data \in DataOf("list")
    BY DEF DataOf
  <2>2. e.type = "list" /\ e.data = data
    <3>1. e.type = base.type /\ e.data = data
      <4> HIDE DEF base
      <4> QED BY <1>2 DEF CacheEntries
    <3> QED BY <1>3, <3>1
  <2>3. data_size(e) = ElementBytes(data)
    <3> HIDE DEF e
    <3> QED BY <2>2, ListSize
  <2>4. data_size(base) = ElementBytes(list)
    <3> HIDE DEF base
    <3> QED BY <1>3, ListSize DEF list
  <2>5. DOMAIN data # {}
    <3>1. DOMAIN data = 1 .. Len(data) /\ 1 \in 1 .. Len(data)
      BY <1>3, LenProperties
    <3> QED BY <3>1
  <2> QED BY <1>1, <1>3, <2>1, <2>3, <2>4, <2>5
<1>4. ASSUME base.type = "list"
      PROVE  /\ left \in Seq(Bytes) /\ Len(left) \in Nat \ {0}
             /\ right \in Seq(Bytes) /\ Len(right) \in Nat \ {0}
             /\ ElementBytes(left) = ElementBytes(list) + added
             /\ ElementBytes(right) = ElementBytes(list) + added
  <2>1. list \in Seq(Bytes)
    BY <1>2, <1>4 DEF CacheEntries, DataOf
  <2>2. Reverse(els) \in Seq(Bytes) /\ Len(Reverse(els)) = Len(els) /\ Len(list) \in Nat
    BY <1>1, <2>1, ReverseType, LenProperties
  <2> HIDE DEF list
  <2>3. left \in Seq(Bytes) /\ Len(left) = Len(Reverse(els)) + Len(list)
    BY <2>1, <2>2, ConcatProperties
  <2>4. right \in Seq(Bytes) /\ Len(right) = Len(list) + Len(els)
    BY <1>1, <2>1, ConcatProperties
  <2>5. /\ ElementBytes(left) = ElementBytes(list) + added
        /\ ElementBytes(right) = ElementBytes(list) + added
    BY <1>1, <2>1, PushBytes
  <2> HIDE DEF left, right
  <2> QED BY <1>1, <2>2, <2>3, <2>4, <2>5
<1>5. \/ Grow("lpush", k, now, "list", left, added, els, Len(els) + Len(list))
      \/ Grow("rpush", k, now, "list", right, added, els, Len(els) + Len(list))
  BY DEF lpush, rpush
<1>6. "lpush" \in Growers /\ "rpush" \in Growers /\ "list" \in CollectionTypes
  BY DEF Growers, CollectionTypes
<1> HIDE DEF left, right, added, list
<1>7. CASE Grow("lpush", k, now, "list", left, added, els, Len(els) + Len(list))
  BY <1>3, <1>4, <1>6, <1>7, GrowExplained
<1>8. CASE Grow("rpush", k, now, "list", right, added, els, Len(els) + Len(list))
  BY <1>3, <1>4, <1>6, <1>8, GrowExplained
<1> QED BY <1>5, <1>7, <1>8

\* HSET charges its new pairs and the difference of the values it replaces.
LEMMA HsetExplained ==
    ASSUME IInv, NEW k \in Keys, NEW now, NEW fields \in FieldArgs, hset(k, fields, now)
    PROVE  DriftExplained
<1> DEFINE base  == OrInsert(k, now, "hash")
           map   == base.data
           old   == DOMAIN fields \cap DOMAIN map
           fresh == DOMAIN fields \ DOMAIN map
           data  == Inserted(map, fields)
           added == SumOver([f \in fresh |-> PairBytes(f, fields[f])])
                      + SumOver([f \in old |-> ByteLen[fields[f]]])
                      - SumOver([f \in old |-> ByteLen[map[f]]])
           e     == [base EXCEPT !.data = data, !.last_accessed = clock]
<1>0. PICK F \in MemberArgs : fields \in [F -> Bytes]
  BY DEF FieldArgs
<1>1. ASSUME base.type = "hash"
      PROVE  /\ data \in DataOf("hash") /\ DOMAIN data # {} /\ added \in Int
             /\ data_size(e) = data_size(base) + added
  <2>1. base \in CacheEntries /\ clock \in Nat
    BY OrInsertType DEF CollectionTypes, IInv
  <2>2. map \in Maps
    BY <1>1, <2>1 DEF CacheEntries, DataOf
  <2>3. PICK S \in SUBSET Bytes : map \in [S -> Bytes]
    BY <2>2 DEF Maps
  <2>4. F \in SUBSET Bytes /\ F # {} /\ DOMAIN fields = F /\ DOMAIN map = S
    BY <1>0, <2>3 DEF MemberArgs
  <2>5. data \in [S \cup F -> Bytes]
    <3> HIDE DEF map
    <3> QED BY <1>0, <2>3 DEF Inserted
  <2>6. data \in Maps /\ DOMAIN data = S \cup F
    <3> HIDE DEF data
    <3> QED BY <2>4, <2>5 DEF Maps
  <2>7. data \in DataOf("hash") /\ DOMAIN data # {}
    BY <2>4, <2>6 DEF DataOf
  <2>8. e.type = "hash" /\ e.data = data
    <3>1. e.type = base.type /\ e.data = data
      <4> HIDE DEF base, data
      <4> QED BY <2>1 DEF CacheEntries
    <3> QED BY <1>1, <3>1
  <2>9. data_size(e) = PairSum(S \cup F, data)
    <3> HIDE DEF e, data
    <3>1. data_size(e) = SumOver([f \in DOMAIN e.data |-> PairBytes(f, e.data[f])])
      BY <2>8, HashSize
    <3> QED BY <2>6, <2>8, <3>1 DEF PairSum
  <2>10. data_size(base) = PairSum(S, map)
    <3>1. data_size(base) = SumOver([f \in DOMAIN map |-> PairBytes(f, map[f])])
      <4> HIDE DEF base
      <4> QED BY <1>1, HashSize DEF map
    <3> QED BY <2>4, <3>1 DEF PairSum
  <2>11. added = PairSum(F \ S, fields) + ValueSum(F \cap S, fields) - ValueSum(F \cap S, map)
    BY <2>4 DEF PairSum, ValueSum
  <2>12. PairSum(S \cup F, data) = PairSum(S, map) + added
    <3> HIDE DEF map, added
    <3>1. PairSum(S \cup F, Inserted(map, fields)) =
            PairSum(S, map)
              + (PairSum(F \ S, fields) + ValueSum(F \cap S, fields) - ValueSum(F \cap S, map))
      <4>1. F \in SUBSET Bytes
        BY <2>4
      <4> QED BY ONLY <1>0, <2>3, <4>1, S \in SUBSET Bytes, InsertedBytes
    <3> QED BY <2>11, <3>1
  <2>13. added \in Int
    <3>1. PairSum(F \ S, fields) \in Nat
      <4>1. F \ S \in SUBSET Bytes /\ \A f \in F \ S : fields[f] \in Bytes
        BY <1>0, <2>4
      <4> QED BY <4>1, PairsParts
    <3>2. F \cap S \in SUBSET Bytes /\ \A f \in F \cap S : fields[f] \in Bytes /\ map[f] \in Bytes
      <4> HIDE DEF map
      <4> QED BY <1>0, <2>3, <2>4
    <3>3. ValueSum(F \cap S, fields) \in Nat
      BY <3>2, PairsParts
    <3>4. ValueSum(F \cap S, map) \in Nat
      <4> HIDE DEF map
      <4> QED BY <3>2, PairsParts
    <3> HIDE DEF added, map
    <3> QED BY <2>11, <3>1, <3>3, <3>4
  <2> HIDE DEF e, data, added, base
  <2> QED BY <2>7, <2>9, <2>10, <2>12, <2>13
<1>2. Grow("hset", k, now, "hash", data, added, fields, Cardinality(fresh))
  BY DEF hset
<1>3. "hset" \in Growers /\ "hash" \in CollectionTypes
  BY DEF Growers, CollectionTypes
<1> HIDE DEF data, added, fresh
<1> QED BY <1>1, <1>2, <1>3, GrowExplained

\* SADD charges the members that were not there.
LEMMA SaddExplained ==
    ASSUME IInv, NEW k \in Keys, NEW now, NEW members \in MemberArgs, sadd(k, members, now)
    PROVE  DriftExplained
<1> DEFINE base  == OrInsert(k, now, "set")
           set   == base.data
           fresh == members \ DOMAIN set
           data  == [m \in DOMAIN set \cup members |-> m]
           added == SumOver([m \in fresh |-> ByteLen[m] + ITEM_OVERHEAD])
           e     == [base EXCEPT !.data = data, !.last_accessed = clock]
<1>1. ASSUME base.type = "set"
      PROVE  /\ data \in DataOf("set") /\ DOMAIN data # {} /\ added \in Int
             /\ data_size(e) = data_size(base) + added
  <2>1. base \in CacheEntries /\ clock \in Nat
    BY OrInsertType DEF CollectionTypes, IInv
  <2>2. set \in Maps /\ \A m \in DOMAIN set : set[m] = m
    BY <1>1, <2>1 DEF CacheEntries, DataOf
  <2>3. DOMAIN set \in SUBSET Bytes /\ members \in SUBSET Bytes /\ members # {}
    BY <2>2 DEF Maps, MemberArgs
  <2>4. data \in [DOMAIN set \cup members -> Bytes] /\ DOMAIN set \cup members \in SUBSET Bytes
    BY <2>3
  <2>5. data \in Maps
    <3> HIDE DEF data
    <3> QED BY <2>4 DEF Maps
  <2>6. data \in DataOf("set") /\ DOMAIN data # {}
    BY <2>3, <2>5 DEF DataOf
  <2>7. e.type = "set" /\ e.data = data
    <3>1. e.type = base.type /\ e.data = data
      <4> HIDE DEF base, data
      <4> QED BY <2>1 DEF CacheEntries
    <3> QED BY <1>1, <3>1
  <2>8. data_size(e) = MemberBytes(DOMAIN set \cup members)
    <3>1. DOMAIN e.data = DOMAIN set \cup members /\ \A m \in DOMAIN e.data : e.data[m] = m
      BY <2>7
    <3> HIDE DEF e, set
    <3>2. data_size(e) = SumOver([m \in DOMAIN e.data |-> ByteLen[m] + ITEM_OVERHEAD])
      BY <2>7, <3>1, SetSize
    <3> QED BY <3>1, <3>2 DEF MemberBytes
  <2>9. data_size(base) = MemberBytes(DOMAIN set)
    <3>1. base.type = "set" /\ \A m \in DOMAIN base.data : base.data[m] = m
      BY <1>1, <2>2
    <3> HIDE DEF base
    <3>2. data_size(base) = SumOver([m \in DOMAIN base.data |-> ByteLen[m] + ITEM_OVERHEAD])
      BY <3>1, SetSize
    <3> QED BY <3>2 DEF MemberBytes
  <2>10. added = MemberBytes(fresh)
    BY DEF MemberBytes
  <2>11. /\ DOMAIN set \cup members = DOMAIN set \cup fresh
         /\ DOMAIN set \cap fresh = {}
         /\ fresh \in SUBSET Bytes
    BY <2>3
  <2> HIDE DEF e, set, added, data, base, fresh
  <2>12. /\ MemberBytes(DOMAIN set \cup fresh) = MemberBytes(DOMAIN set) + MemberBytes(fresh)
         /\ MemberBytes(fresh) \in Nat
    BY <2>3, <2>11, MembersSplit
  <2> QED BY <2>6, <2>8, <2>9, <2>10, <2>11, <2>12
<1>2. Grow("sadd", k, now, "set", data, added, members, Cardinality(fresh))
  BY DEF sadd
<1>3. "sadd" \in Growers /\ "set" \in CollectionTypes
  BY DEF Growers, CollectionTypes
<1> HIDE DEF data, added, fresh
<1> QED BY <1>1, <1>2, <1>3, GrowExplained

\* LPOP and RPOP give back the element they take.
LEMMA PopDriftExplained ==
    ASSUME IInv, NEW k \in Keys, NEW now, lpop(k, now) \/ rpop(k, now)
    PROVE  DriftExplained
<1> DEFINE old   == entries[k]
           list  == old.data
           first == ByteLen[Head(list)] + ITEM_OVERHEAD
           final == ByteLen[list[Len(list)]] + ITEM_OVERHEAD
           front == SubSeq(list, 1, Len(list) - 1)
<1>1. ASSUME Present(k), old.type = "list"
      PROVE  /\ list \in Seq(Bytes) /\ list # <<>> /\ Len(list) \in Nat \ {0}
             /\ Tail(list) \in Seq(Bytes) /\ front \in Seq(Bytes)
             /\ first \in Nat /\ final \in Nat
  <2>1. list \in Seq(Bytes) /\ list # <<>> /\ Len(list) \in Nat \ {0}
    BY <1>1, StoredList
  <2>2. \A i \in 1 .. Len(list) : list[i] \in Bytes
    BY <2>1, ElementOfSeq
  <2>3. front \in Seq(Bytes) /\ list[Len(list)] \in Bytes
    BY <2>1, <2>2, SubSeqProperties
  <2>4. Head(list) \in Bytes /\ Tail(list) \in Seq(Bytes)
    BY <2>1, HeadTailProperties
  <2>5. \A b \in Bytes : ByteLen[b] + ITEM_OVERHEAD \in Nat
    BY LenAssumption, OverheadAssumption
  <2>6. first \in Nat /\ final \in Nat
    <3> HIDE DEF list
    <3> QED BY <2>3, <2>4, <2>5
  <2> HIDE DEF list, front, first, final
  <2> QED BY <2>1, <2>3, <2>4, <2>6
<1>2. ASSUME NEW data \in Seq(Bytes), NEW freed \in Nat, Present(k), old.type = "list",
             ElementBytes(list) = ElementBytes(data) + freed
      PROVE  /\ data \in DataOf("list") /\ freed \in Int
             /\ data_size([old EXCEPT !.data = data, !.last_accessed = clock]) + freed
                  = data_size(old)
  <2> DEFINE e == [old EXCEPT !.data = data, !.last_accessed = clock]
  <2>1. old \in CacheEntries
    BY <1>2, PresentSize, SlotCases
  <2>2. e.type = old.type /\ e.data = data
    <3> HIDE DEF old
    <3> QED BY <2>1 DEF CacheEntries
  <2>3. data_size(e) = ElementBytes(data)
    <3> HIDE DEF e
    <3> QED BY <1>2, <2>2, ListSize
  <2>4. data_size(old) = ElementBytes(list)
    <3> HIDE DEF old
    <3> QED BY <1>2, ListSize DEF list
  <2>5. data \in DataOf("list")
    BY DEF DataOf
  <2> QED BY <1>2, <2>3, <2>4, <2>5
<1>3. ASSUME Present(k), old.type = "list"
      PROVE  /\ ElementBytes(list) = ElementBytes(Tail(list)) + first
             /\ ElementBytes(list) = ElementBytes(front) + final
  <2>1. /\ ElementBytes(list) = first + ElementBytes(Tail(list))
        /\ ElementBytes(list) = ElementBytes(front) + final
    <3> HIDE DEF list
    <3> QED BY <1>1, <1>3, PopBytes
  <2>2. ElementBytes(Tail(list)) \in Nat
    <3> DEFINE s == Tail(list)
               f == [i \in DOMAIN s |-> ByteLen[s[i]] + ITEM_OVERHEAD]
    <3>1. s \in Seq(Bytes)
      BY <1>1, <1>3
    <3> HIDE DEF s
    <3>2. f \in [1 .. Len(s) -> Nat] /\ Len(s) \in Nat
      BY <3>1, ElementTerms
    <3>3. IsFiniteSet(1 .. Len(s))
      BY <3>2, FS_Interval
    <3>4. IsTally(f)
      <4> HIDE DEF f
      <4> QED BY <3>2, <3>3 DEF IsTally
    <3>5. ElementBytes(s) \in Nat
      BY <3>4, SumOverType DEF ElementBytes
    <3> QED BY <3>5 DEF s
  <2>3. first \in Nat
    BY <1>1, <1>3
  <2> HIDE DEF first, list
  <2> QED BY <2>1, <2>2, <2>3
<1>4. "lpop" \notin Growers /\ "rpop" \notin Growers /\ "list" \in CollectionTypes
  BY DEF Growers, CollectionTypes
<1>5. CASE lpop(k, now)
  <2>1. Shrink("lpop", k, now, "list", Tail(list), first, <<>>, <<Head(list)>>, Hit)
    BY <1>5 DEF lpop
  <2> HIDE DEF first, list
  <2> QED BY <1>1, <1>2, <1>3, <1>4, <2>1, ShrinkExplained
<1>6. CASE rpop(k, now)
  <2>1. Shrink("rpop", k, now, "list", front, final, <<>>, <<list[Len(list)]>>, Hit)
    BY <1>6 DEF rpop
  <2> HIDE DEF final, front, list
  <2> QED BY <1>1, <1>2, <1>3, <1>4, <2>1, ShrinkExplained
<1> QED BY <1>5, <1>6

\* HDEL gives back the pairs it removes.
LEMMA HdelExplained ==
    ASSUME IInv, NEW k \in Keys, NEW now, NEW fields \in MemberArgs, hdel(k, fields, now)
    PROVE  DriftExplained
<1> DEFINE old   == entries[k]
           map   == old.data
           gone  == fields \cap DOMAIN map
           kept  == DOMAIN map \ fields
           data  == [f \in kept |-> map[f]]
           freed == SumOver([f \in gone |-> PairBytes(f, map[f])])
           e     == [old EXCEPT !.data = data, !.last_accessed = clock]
<1>1. ASSUME Present(k), old.type = "hash"
      PROVE  /\ data \in DataOf("hash") /\ freed \in Int
             /\ data_size(e) + freed = data_size(old)
  <2>1. map \in [DOMAIN map -> Bytes] /\ DOMAIN map \in SUBSET Bytes
    BY <1>1, StoredMap
  <2>2. data \in [kept -> Bytes] /\ kept \in SUBSET Bytes
    <3> HIDE DEF map
    <3> QED BY <2>1
  <2>3. data \in DataOf("hash") /\ DOMAIN data = kept
    <3>1. data \in Maps
      <4> HIDE DEF data, kept
      <4> QED BY <2>2 DEF Maps
    <3> QED BY <3>1 DEF DataOf
  <2>4. old \in CacheEntries
    BY <1>1, PresentSize, SlotCases
  <2>5. e.type = old.type /\ e.data = data
    <3> HIDE DEF old, data
    <3> QED BY <2>4 DEF CacheEntries
  <2>6. data_size(e) = PairSum(kept, data)
    <3> HIDE DEF e, data, kept
    <3>1. data_size(e) = SumOver([f \in DOMAIN e.data |-> PairBytes(f, e.data[f])])
      BY <1>1, <2>5, HashSize
    <3> QED BY <2>3, <2>5, <3>1 DEF PairSum
  <2>7. data_size(old) = PairSum(DOMAIN map, map)
    <3> HIDE DEF old
    <3> QED BY <1>1, HashSize DEF map, PairSum
  <2>8. freed = PairSum(gone, map)
    BY DEF PairSum
  <2>9. PairSum(kept, data) = PairSum(kept, map)
    <3>1. \A f \in kept : data[f] = map[f]
      OBVIOUS
    <3> HIDE DEF data, kept, map
    <3> QED BY <3>1, PairsSame
  <2>10. /\ DOMAIN map = kept \cup gone /\ kept \cap gone = {}
         /\ gone \in SUBSET Bytes
         /\ \A f \in kept \cup gone : map[f] \in Bytes
    <3> HIDE DEF map
    <3> QED BY <2>1
  <2>11. /\ PairSum(kept \cup gone, map) = PairSum(kept, map) + PairSum(gone, map)
         /\ PairSum(gone, map) \in Nat
    <3> HIDE DEF map, kept, gone
    <3> QED BY <2>2, <2>10, PairsSplit
  <2> HIDE DEF e, old, data, freed, kept, gone, map
  <2> QED BY <2>3, <2>6, <2>7, <2>8, <2>9, <2>10, <2>11
<1>2. Shrink("hdel", k, now, "hash", data, freed, fields, <<Cardinality(gone)>>, NoMetric)
  BY DEF hdel
<1>3. "hdel" \notin Growers /\ "hash" \in CollectionTypes
  BY DEF Growers, CollectionTypes
<1> HIDE DEF data, freed, gone
<1> QED BY <1>1, <1>2, <1>3, ShrinkExplained

\* SREM gives back the members it removes.
LEMMA SremExplained ==
    ASSUME IInv, NEW k \in Keys, NEW now, NEW members \in MemberArgs, srem(k, members, now)
    PROVE  DriftExplained
<1> DEFINE old   == entries[k]
           set   == old.data
           gone  == members \cap DOMAIN set
           kept  == DOMAIN set \ members
           data  == [m \in kept |-> m]
           freed == SumOver([m \in gone |-> ByteLen[m] + ITEM_OVERHEAD])
           e     == [old EXCEPT !.data = data, !.last_accessed = clock]
<1>1. ASSUME Present(k), old.type = "set"
      PROVE  /\ data \in DataOf("set") /\ freed \in Int
             /\ data_size(e) + freed = data_size(old)
  <2>1. DOMAIN set \in SUBSET Bytes
    BY <1>1, StoredMap
  <2>2. old \in CacheEntries
    BY <1>1, PresentSize, SlotCases
  <2>3. \A m \in DOMAIN set : set[m] = m
    BY <1>1, <2>2 DEF CacheEntries, DataOf
  <2>4. data \in [kept -> Bytes] /\ kept \in SUBSET Bytes
    BY <2>1
  <2>5. data \in DataOf("set") /\ DOMAIN data = kept
    <3>1. data \in Maps
      <4> HIDE DEF data, kept
      <4> QED BY <2>4 DEF Maps
    <3> QED BY <3>1 DEF DataOf
  <2>6. e.type = old.type /\ e.data = data
    <3> HIDE DEF old, data
    <3> QED BY <2>2 DEF CacheEntries
  <2>7. data_size(e) = MemberBytes(kept)
    <3>1. DOMAIN e.data = kept /\ \A m \in DOMAIN e.data : e.data[m] = m
      BY <2>6
    <3> HIDE DEF e, kept
    <3>2. data_size(e) = SumOver([m \in DOMAIN e.data |-> ByteLen[m] + ITEM_OVERHEAD])
      BY <1>1, <2>6, <3>1, SetSize
    <3> QED BY <3>1, <3>2 DEF MemberBytes
  <2>8. data_size(old) = MemberBytes(DOMAIN set)
    <3>1. old.type = "set" /\ \A m \in DOMAIN old.data : old.data[m] = m
      BY <1>1, <2>3
    <3> HIDE DEF old
    <3>2. data_size(old) = SumOver([m \in DOMAIN old.data |-> ByteLen[m] + ITEM_OVERHEAD])
      BY <3>1, SetSize
    <3> QED BY <3>2 DEF MemberBytes
  <2>9. freed = MemberBytes(gone)
    BY DEF MemberBytes
  <2>10. /\ DOMAIN set = kept \cup gone /\ kept \cap gone = {}
         /\ gone \in SUBSET Bytes
    BY <2>1
  <2> HIDE DEF e, set, freed, data, old, gone, kept
  <2>11. /\ MemberBytes(kept \cup gone) = MemberBytes(kept) + MemberBytes(gone)
         /\ MemberBytes(gone) \in Nat
    BY <2>4, <2>10, MembersSplit
  <2> QED BY <2>5, <2>7, <2>8, <2>9, <2>10, <2>11
<1>2. Shrink("srem", k, now, "set", data, freed, members, <<Cardinality(gone)>>, NoMetric)
  BY DEF srem
<1>3. "srem" \notin Growers /\ "set" \in CollectionTypes
  BY DEF Growers, CollectionTypes
<1> HIDE DEF data, freed, gone
<1> QED BY <1>1, <1>2, <1>3, ShrinkExplained

-----------------------------------------------------------------------------
(* Every step *)

\* A step that answers nothing, or answers a command that does not create collections,
\* leaves no header uncharged.
LEMMA OtherCommands ==
    ASSUME out'.op \in {"none", "evict", "purge", "get", "set", "del", "expire", "lrange", "hget",
                        "hgetall", "smembers", "sismember", "ttl", "pttl"}
    PROVE  Uncharged = 0
<1>1. out'.op \notin Growers
  BY DEF Growers
<1> QED BY <1>1, NothingCreated

\* A step before an answer.
LEMMA SilentStep ==
    ASSUME out' = Silent
    PROVE  Uncharged = 0
<1>1. out'.op = "none"
  BY DEF Silent
<1> QED BY <1>1, OtherCommands

\* The readers move nothing.
LEMMA ReadExplained ==
    ASSUME IInv, NEW k \in Keys, NEW now \in 0 .. clock, NEW at \in now .. clock,
           ReadCommand(k, now, at)
    PROVE  DriftExplained
<1>1. at \in Nat
  BY DEF IInv
<1>2. ASSUME NEW op \in {"lrange", "hget", "hgetall", "smembers", "sismember"},
             NEW type, NEW given, NEW nil, NEW reply, NEW metrics,
             Read(op, k, now, at, type, given, nil, reply, metrics)
      PROVE  DriftExplained
  <2>1. out'.op = op
    BY <1>2 DEF Read, Answer, WrongType
  <2>2. Uncharged = 0
    BY <2>1, OtherCommands
  <2>3. CASE Untouched
    BY <2>2, <2>3, UntouchedExplained
  <2>4. CASE Live(k, now) /\ Touch(k, at)
    BY <1>1, <2>2, <2>4, TouchExplained DEF Live
  <2> QED BY <1>2, <2>3, <2>4 DEF Read
<1>3. ASSUME NEW op \in {"ttl", "pttl"}, NEW unit, ttl(op, unit, k, now)
      PROVE  DriftExplained
  <2>1. out'.op = op
    BY <1>3 DEF ttl, Answer
  <2>2. Uncharged = 0
    BY <2>1, OtherCommands
  <2> QED BY <1>3, <2>2, UntouchedExplained DEF ttl
<1>4. ASSUME NEW start, NEW stop, lrange(k, start, stop, now, at)
      PROVE  DriftExplained
  BY <1>2, <1>4 DEF lrange
<1>5. ASSUME NEW f, hget(k, f, now, at)
      PROVE  DriftExplained
  BY <1>2, <1>5 DEF hget
<1>6. ASSUME hgetall(k, now, at) \/ smembers(k, now, at)
      PROVE  DriftExplained
  BY <1>2, <1>6 DEF hgetall, smembers
<1>7. ASSUME NEW m, sismember(k, m, now, at)
      PROVE  DriftExplained
  BY <1>2, <1>7 DEF sismember
<1> QED BY <1>3, <1>4, <1>5, <1>6, <1>7 DEF ReadCommand

\* EXPIRE moves nothing, or removes an expired entry.
LEMMA ExpireExplained ==
    ASSUME IInv, NEW k \in Keys, NEW duration \in Durations, expire(k, duration)
    PROVE  DriftExplained
<1>1. out'.op = "expire"
  BY DEF expire, Answer
<1>2. Uncharged = 0
  BY <1>1, OtherCommands
<1>3. CASE Untouched
  BY <1>2, <1>3, UntouchedExplained
<1>4. CASE Expired(k, clock) /\ Store(k, Absent, -size_bytes(k, entries[k]))
  BY <1>2, <1>4, RemoveExplained DEF Expired
<1>5. CASE /\ Live(k, clock)
           /\ Store(k, [entries[k] EXCEPT !.expires_at = clock + duration], 0)
  <2> DEFINE e == [entries[k] EXCEPT !.expires_at = clock + duration]
  <2>1. clock + duration \in Nat
    BY DbAssumption DEF IInv
  <2>2. entries[k] \in FullEntries /\ Present(k)
    BY <1>5, PresentSize DEF Live
  <2>3. e \in FullEntries
    BY <2>1, <2>2, StampType
  <2>4. e.type = entries[k].type /\ e.data = entries[k].data
    BY <2>2 DEF FullEntries, CacheEntries
  <2>5. Store(k, e, 0)
    BY <1>5
  <2> HIDE DEF e
  <2> QED BY <1>2, <2>2, <2>3, <2>4, <2>5, RestampExplained
<1> QED BY <1>3, <1>4, <1>5 DEF expire

\* The connection tasks inside get, set and del.
LEMMA ThreadDriftExplained ==
    ASSUME IInv, NEW t \in Threads, ThreadNext(t)
    PROVE  DriftExplained
<1>0. clock \in Nat /\ ThreadOK(t) /\ threads[t] \in ThreadStates
  BY DEF IInv
<1>1. ASSUME Untouched, out' = Silent
      PROVE  DriftExplained
  BY <1>1, SilentStep, UntouchedExplained
<1>2. ASSUME NEW k \in Keys, NEW now \in 0 .. clock, NEW at \in now .. clock,
             GetRead(t, k, now, at)
      PROVE  DriftExplained
  <2>1. at \in Nat
    BY <1>0
  <2>2. CASE Untouched /\ Answer("get", k, now, <<>>, <<>>, Miss)
    <3>1. out'.op = "get"
      BY <2>2 DEF Answer
    <3> QED BY <2>2, <3>1, OtherCommands, UntouchedExplained
  <2>3. CASE Live(k, now) /\ GetLive(k, now, at)
    <3>1. out'.op = "get"
      BY <2>3 DEF GetLive, Answer, WrongType
    <3> QED BY <2>1, <2>3, <3>1, OtherCommands, TouchExplained DEF GetLive, Live
  <2> QED BY <1>1, <1>2, <2>2, <2>3 DEF GetRead
<1>3. CASE GetWrite(t)
  <2> DEFINE k   == threads[t].key
             now == threads[t].now
  <2>1. k \in Keys
    BY <1>0, <1>3 DEF GetWrite, ThreadOK
  <2>2. out'.op = "get"
    BY <1>3 DEF GetWrite, GetLive, Answer, WrongType
  <2>3. Uncharged = 0
    BY <2>2, OtherCommands
  <2>4. CASE Untouched
    BY <2>3, <2>4, UntouchedExplained
  <2>5. CASE Live(k, now) /\ GetLive(k, now, clock)
    <3>1. Present(k) /\ Touch(k, clock)
      BY <2>5 DEF GetLive, Live
    <3> HIDE DEF k
    <3> QED BY <1>0, <2>1, <2>3, <3>1, TouchExplained
  <2>6. CASE Expired(k, now) /\ Store(k, Absent, -size_bytes(k, entries[k]))
    <3>1. Present(k)
      BY <2>6 DEF Expired
    <3> HIDE DEF k
    <3> QED BY <2>1, <2>3, <2>6, <3>1, RemoveExplained
  <2> QED BY <1>3, <2>4, <2>5, <2>6 DEF GetWrite
<1>4. ASSUME NEW k, NEW b, NEW exp, SetCall(t, k, b, exp)
      PROVE  DriftExplained
  BY <1>1, <1>4 DEF SetCall
<1>5. CASE EnsureCapacity(t)
  BY <1>1, <1>5 DEF EnsureCapacity
<1>6. ASSUME NEW s, SampleShard(t, s)
      PROVE  DriftExplained
  BY <1>1, <1>6 DEF SampleShard
<1>7. CASE Evict(t)
  <2> DEFINE k == threads[t].oldest_key
  <2>1. CASE /\ k \in Keys
             /\ Present(k)
             /\ Store(k, Absent, -size_bytes(k, entries[k]))
             /\ out' = [Silent EXCEPT !.op = "evict", !.keys = {k},
                                      !.now = threads[t].oldest_time,
                                      !.metrics = Counted(0, 0, 0, 1)]
    <3>1. out'.op = "evict"
      BY <2>1 DEF Silent
    <3>2. Uncharged = 0
      BY <3>1, OtherCommands
    <3> HIDE DEF k
    <3> QED BY <2>1, <3>2, RemoveExplained
  <2> QED BY <1>1, <1>7, <2>1 DEF Evict
<1>8. CASE SetInsert(t)
  <2> DEFINE k == threads[t].key
             e == threads[t].entry
             o == IF Present(k) THEN size_bytes(k, entries[k]) ELSE 0
             d == size_bytes(k, e) - o
  <2>1. k \in Keys /\ e \in FullEntries /\ Store(k, e, d) /\ out'.op = "set"
    BY <1>0, <1>8 DEF SetInsert, ThreadOK, Answer
  <2>2. Uncharged = 0
    BY <2>1, OtherCommands
  <2> HIDE DEF k, e
  <2>3. e \in FullSlots /\ e \in CacheEntries
    BY <2>1 DEF FullSlots, FullEntries
  <2>4. SlotBytes(k, e) = size_bytes(k, e) /\ size_bytes(k, e) \in Nat
    BY <2>1, <2>3, SizeParts
  <2>5. o = SlotBytes(k, entries[k])
    BY DEF SlotBytes, Present
  <2>6. o \in Nat
    <3>1. entries[k] \in FullSlots
      BY <2>1 DEF IInv
    <3> QED BY <2>1, <2>5, <3>1, SlotType
  <2>7. d \in Int /\ d = SlotBytes(k, e) - SlotBytes(k, entries[k]) - Uncharged
    <3> HIDE DEF o
    <3> QED BY <2>2, <2>4, <2>5, <2>6
  <2> HIDE DEF d
  <2> QED BY <2>1, <2>2, <2>3, <2>7, StoreExplained
<1>9. ASSUME NEW ks, DelCall(t, ks)
      PROVE  DriftExplained
  BY <1>1, <1>9 DEF DelCall
<1>10. ASSUME NEW k \in Keys, DelKey(t, k)
       PROVE  DriftExplained
  <2>1. out'.op = "del"
    BY <1>10 DEF DelKey, Answer
  <2>2. Uncharged = 0
    BY <2>1, OtherCommands
  <2> QED BY <1>10, <2>2, RemoveExplained, UntouchedExplained DEF DelKey
<1> QED BY <1>2, <1>3, <1>4, <1>5, <1>6, <1>7, <1>8, <1>9, <1>10 DEF ThreadNext

\* The sweeper gives back what the entries it removes were charged.
LEMMA PurgeExplained ==
    ASSUME IInv, PurgeRemove
    PROVE  DriftExplained
<1> DEFINE gone  == StillExpired(sweeper.expired_keys, sweeper.now)
           sizes == [k \in gone |-> size_bytes(k, entries[k])]
           next  == [k \in Keys |-> IF k \in gone THEN Absent ELSE entries[k]]
           gm    == [k \in gone |-> SlotBytes(k, entries[k])]
           gn    == [k \in gone |-> SlotBytes(k, next[k])]
<1>1. gone \in SUBSET Keys /\ \A k \in gone : Present(k)
  BY DEF StillExpired, Expired, IInv, SweeperStates
<1>2. /\ entries' = next
      /\ current_memory' = (current_memory + -SumOver(sizes)) % UsizeMod
  BY DEF PurgeRemove, AddMemory
<1>3. out'.op = "purge"
  BY DEF PurgeRemove, Silent
<1>4. Uncharged = 0
  BY <1>3, OtherCommands
<1>5. entries \in [Keys -> FullSlots] /\ next \in [Keys -> FullSlots] /\ current_memory \in Int
  BY SlotCases, DbAssumption DEF IInv
<1>6. \A k \in Keys \ gone : next[k] = entries[k]
  OBVIOUS
<1>7. gm = sizes
  BY <1>1 DEF SlotBytes, Present
<1>8. SumOver(gn) = 0
  <2>1. \A k \in DOMAIN gn : gn[k] = 0
    BY <1>1 DEF SlotBytes, Absent
  <2> HIDE DEF gn
  <2> QED BY <2>1, SumZero
<1> HIDE DEF gone, next, sizes
<1>9. /\ BytesOf(next) - BytesOf(entries) = SumOver(gn) - SumOver(gm)
      /\ BytesOf(entries) \in Nat /\ BytesOf(next) \in Nat /\ SumOver(gm) \in Nat
  BY <1>1, <1>5, <1>6, BytesChanged
<1>10. TotalBytes = BytesOf(entries) /\ TotalBytes' = BytesOf(entries')
  BY DEF TotalBytes, BytesOf, Present
<1> DEFINE a == BytesOf(entries)
           b == BytesOf(next)
           c == current_memory
           s == SumOver(sizes)
<1>11. c + -s = c + b - a - 0
  <2>1. a \in Nat /\ b \in Nat /\ s \in Nat /\ c \in Int /\ b - a = 0 - s
    BY <1>5, <1>7, <1>8, <1>9
  <2> HIDE DEF a, b, c, s
  <2> QED BY <2>1
<1>12. DriftExplained <=> current_memory' = (c + b - a - 0) % UsizeMod
  BY <1>2, <1>4, <1>10 DEF DriftExplained
<1> QED BY <1>2, <1>11, <1>12

\* Every step of every task explains how it moves the counter.
LEMMA NextDriftExplained ==
    ASSUME IInv, Next
    PROVE  DriftExplained
<1>1. ASSUME NEW k \in Keys, NEW now \in 0 .. clock, WriteCommand(k, now)
      PROVE  DriftExplained
  BY <1>1, PushExplained, HsetExplained, SaddExplained, PopDriftExplained, HdelExplained,
     SremExplained DEF WriteCommand
<1>2. ASSUME NEW k \in Keys, Command(k)
      PROVE  DriftExplained
  BY <1>1, <1>2, ReadExplained, ExpireExplained DEF Command
<1>3. CASE SweeperNext
  BY <1>3, PurgeExplained, SilentStep, UntouchedExplained
     DEF SweeperNext, SweeperTick, PurgeSample
<1>4. CASE Tick
  BY <1>4, SilentStep, UntouchedExplained DEF Tick, Untouched
<1> QED BY <1>2, <1>3, <1>4, ThreadDriftExplained DEF Next

\* Every step moves current_memory by exactly the bytes it adds to or takes from the map,
\* but for the header (key and fixed overhead) of a list, hash or set it creates, which
\* LPUSH, RPUSH, HSET and SADD never charge: whatever the interleaving, the entries and the
\* limits, the counter has no other source of drift.
THEOREM DriftHasOneSource == Spec => DriftOnlyFromCreation
<1>1. IInv /\ [Next]_vars =>
        [current_memory' =
           (current_memory + TotalBytes' - TotalBytes
              - SumOver([k \in CreatedCollections |-> HeaderBytes(k)])) % UsizeMod]_vars
  BY NextDriftExplained DEF DriftExplained, Uncharged
<1> QED BY <1>1, Invariance, PTL DEF Spec, DriftOnlyFromCreation

-----------------------------------------------------------------------------
(* Without the commands that create collections *)

\* A step answers a command of Growers only if clients issue that command.
LEMMA AnsweredIsIssued ==
    ASSUME Next, Commands \cap Growers = {}
    PROVE  out'.op \notin Growers
<1>1. ASSUME out'.op \in Commands
      PROVE  out'.op \notin Growers
  BY <1>1
<1>2. ASSUME out'.op \in {"none", "evict", "purge", "get", "set", "del"}
      PROVE  out'.op \notin Growers
  BY <1>2 DEF Growers
<1>3. ASSUME NEW k \in Keys, NEW now \in 0 .. clock, WriteCommand(k, now)
      PROVE  out'.op \in Commands
  <2>1. ASSUME NEW op, NEW type, NEW data, NEW added, NEW given, NEW count,
               Grow(op, k, now, type, data, added, given, count)
        PROVE  out'.op \in Commands
    BY <2>1 DEF Grow, Answer, WrongType
  <2>2. ASSUME NEW op, NEW type, NEW data, NEW freed, NEW given, NEW reply, NEW metrics,
               Shrink(op, k, now, type, data, freed, given, reply, metrics)
        PROVE  out'.op \in Commands
    BY <2>2 DEF Shrink, Answer, WrongType
  <2>3. ASSUME NEW els, lpush(k, els, now) \/ rpush(k, els, now)
        PROVE  out'.op \in Commands
    BY <2>1, <2>3 DEF lpush, rpush
  <2>4. ASSUME NEW fields, hset(k, fields, now) \/ sadd(k, fields, now)
        PROVE  out'.op \in Commands
    BY <2>1, <2>4 DEF hset, sadd
  <2>5. ASSUME lpop(k, now) \/ rpop(k, now)
        PROVE  out'.op \in Commands
    BY <2>2, <2>5 DEF lpop, rpop
  <2>6. ASSUME NEW fields, hdel(k, fields, now) \/ srem(k, fields, now)
        PROVE  out'.op \in Commands
    BY <2>2, <2>6 DEF hdel, srem
  <2> QED BY <1>3, <2>3, <2>4, <2>5, <2>6 DEF WriteCommand
<1>4. ASSUME NEW k \in Keys, NEW now \in 0 .. clock, NEW at \in now .. clock,
             ReadCommand(k, now, at)
      PROVE  out'.op \in Commands
  <2>1. ASSUME NEW op, NEW type, NEW given, NEW nil, NEW reply, NEW metrics,
               Read(op, k, now, at, type, given, nil, reply, metrics)
        PROVE  out'.op \in Commands
    BY <2>1 DEF Read, Answer, WrongType
  <2>2. ASSUME NEW op, NEW unit, ttl(op, unit, k, now)
        PROVE  out'.op \in Commands
    BY <2>2 DEF ttl, Answer
  <2>3. ASSUME NEW start, NEW stop, lrange(k, start, stop, now, at)
        PROVE  out'.op \in Commands
    BY <2>1, <2>3 DEF lrange
  <2>4. ASSUME NEW f, hget(k, f, now, at) \/ sismember(k, f, now, at)
        PROVE  out'.op \in Commands
    BY <2>1, <2>4 DEF hget, sismember
  <2>5. ASSUME hgetall(k, now, at) \/ smembers(k, now, at)
        PROVE  out'.op \in Commands
    BY <2>1, <2>5 DEF hgetall, smembers
  <2> QED BY <1>4, <2>2, <2>3, <2>4, <2>5 DEF ReadCommand
<1>5. ASSUME NEW k \in Keys, NEW duration, expire(k, duration)
      PROVE  out'.op \in Commands
  BY <1>5 DEF expire, Answer
<1>6. ASSUME NEW t, ThreadNext(t)
      PROVE  out'.op \in {"none", "evict", "get", "set", "del"}
  <2>1. ASSUME out' = Silent
        PROVE  out'.op = "none"
    BY <2>1 DEF Silent
  <2>2. ASSUME NEW k, NEW now, NEW at, GetRead(t, k, now, at)
        PROVE  out'.op \in {"none", "get"}
    BY <2>1, <2>2 DEF GetRead, GetLive, Answer, WrongType
  <2>3. ASSUME GetWrite(t) \/ SetInsert(t)
        PROVE  out'.op \in {"get", "set"}
    BY <2>3 DEF GetWrite, GetLive, SetInsert, Answer, WrongType
  <2>4. ASSUME Evict(t)
        PROVE  out'.op \in {"none", "evict"}
    <3>1. \/ out' = Silent
          \/ out' = [Silent EXCEPT !.op = "evict", !.keys = {threads[t].oldest_key},
                                   !.now = threads[t].oldest_time,
                                   !.metrics = Counted(0, 0, 0, 1)]
      BY <2>4 DEF Evict
    <3> QED BY <2>1, <3>1 DEF Silent
  <2>5. ASSUME NEW k, DelKey(t, k)
        PROVE  out'.op = "del"
    BY <2>5 DEF DelKey, Answer
  <2>6. ASSUME NEW k, NEW b, NEW exp, SetCall(t, k, b, exp)
        PROVE  out'.op = "none"
    BY <2>1, <2>6 DEF SetCall
  <2>7. ASSUME NEW s, EnsureCapacity(t) \/ SampleShard(t, s) \/ DelCall(t, s)
        PROVE  out'.op = "none"
    BY <2>1, <2>7 DEF EnsureCapacity, SampleShard, DelCall
  <2> QED BY <1>6, <2>2, <2>3, <2>4, <2>5, <2>6, <2>7 DEF ThreadNext
<1>7. ASSUME SweeperNext
      PROVE  out'.op \in {"none", "purge"}
  <2>1. CASE out' = Silent
    BY <2>1 DEF Silent
  <2>2. CASE PurgeRemove
    BY <2>2 DEF PurgeRemove, Silent
  <2> QED BY <1>7, <2>1, <2>2 DEF SweeperNext, SweeperTick, PurgeSample
<1>8. ASSUME Tick
      PROVE  out'.op = "none"
  BY <1>8 DEF Tick, Silent
<1>9. ASSUME NEW k \in Keys, Command(k)
      PROVE  out'.op \in Commands
  BY <1>3, <1>4, <1>5, <1>9 DEF Command
<1> QED BY <1>1, <1>2, <1>6, <1>7, <1>8, <1>9 DEF Next

\* A step keeps the counter equal to the size of the map.
LEMMA TrackingKept ==
    ASSUME IInv, MemoryTracksEntries, [Next]_vars, Commands \cap Growers = {}
    PROVE  MemoryTracksEntries'
<1>1. CASE UNCHANGED vars
  BY <1>1 DEF vars, MemoryTracksEntries, TotalBytes, Present
<1>2. CASE Next
  <2>1. IInv'
    BY NextOK
  <2>2. Uncharged = 0
    BY <1>2, AnsweredIsIssued, NothingCreated
  <2> DEFINE a == BytesOf(entries)
             b == BytesOf(entries')
  <2>3. TotalBytes = a /\ TotalBytes' = b
    BY DEF TotalBytes, BytesOf, Present
  <2>4. a \in Int /\ b \in Int
    <3>1. entries \in [Keys -> FullSlots] /\ entries' \in [Keys -> FullSlots]
      BY <2>1 DEF IInv
    <3>2. ASSUME NEW m \in [Keys -> FullSlots]
          PROVE  BytesOf(m) \in Nat
      BY BytesStored, BytesChanged
    <3> QED BY <3>1, <3>2
  <2>5. current_memory = a % UsizeMod
    BY <2>3 DEF MemoryTracksEntries
  <2>6. current_memory' = (current_memory + b - a - 0) % UsizeMod
    BY <1>2, <2>2, <2>3, NextDriftExplained DEF DriftExplained
  <2> HIDE DEF a, b
  <2>7. (a % UsizeMod) + b - a - 0 = (a % UsizeMod) + b - a
    BY <2>4, DbAssumption
  <2>8. ((a % UsizeMod) + b - a) % UsizeMod = b % UsizeMod
    BY <2>4, DbAssumption, ModShift
  <2>9. current_memory' = b % UsizeMod
    BY <2>5, <2>6, <2>7, <2>8
  <2> QED BY <2>3, <2>9 DEF MemoryTracksEntries
<1> QED BY <1>1, <1>2

\* As long as clients do not use the commands that create collections, current_memory is the
\* number of bytes size_bytes charges for the entries held, whatever SET, GET, DEL, EXPIRE,
\* eviction and the sweeper do and however they interleave: the counter ensure_capacity
\* compares with maxmemory is exact.
THEOREM MemoryIsExact ==
    ASSUME Commands \cap Growers = {}
    PROVE  Spec => []MemoryTracksEntries
<1>1. Init => MemoryTracksEntries
  <2> SUFFICES ASSUME Init PROVE MemoryTracksEntries
    OBVIOUS
  <2>1. {k \in Keys : Present(k)} = {}
    BY DEF Init, Present, Absent
  <2>2. DOMAIN [k \in {kk \in Keys : Present(kk)} |-> size_bytes(k, entries[k])] = {}
    BY <2>1
  <2>3. TotalBytes = 0
    BY <2>2, SumPoint DEF TotalBytes
  <2>4. 0 % UsizeMod = 0
    BY DbAssumption
  <2> QED BY <2>3, <2>4 DEF Init, MemoryTracksEntries
<1>2. IInv /\ MemoryTracksEntries /\ [Next]_vars => MemoryTracksEntries'
  BY TrackingKept
<1> QED BY <1>1, <1>2, Invariance, PTL DEF Spec
=============================================================================
