------------------------------ MODULE DbProofs ------------------------------
(***************************************************************************)
(* Theorems about Db, for every set of keys, payloads, shards and threads  *)
(* and every value of the limits.                                          *)
(***************************************************************************)
EXTENDS Db, FiniteSetTheorems, FunctionTheorems, SequenceTheorems, TLAPS

-----------------------------------------------------------------------------
(* Facts about sums and about the size of an entry *)

\* The pairs SumOver counts.
Cells(f) == UNION {{x} \X (1 .. f[x]) : x \in DOMAIN f}

\* A function with finitely many natural values: what SumOver is applied to.
IsTally(f) == IsFiniteSet(DOMAIN f) /\ \A x \in DOMAIN f : f[x] \in Nat

\* The cells of a tally (the bytes size_bytes adds up) are finitely many.
LEMMA CellsFinite ==
    ASSUME NEW f, IsTally(f)
    PROVE  IsFiniteSet(Cells(f))
<1> DEFINE D    == DOMAIN f
           row  == [x \in D |-> {x} \X (1 .. f[x])]
           Rows == {{x} \X (1 .. f[x]) : x \in D}
<1>1. row \in Surjection(D, Rows)
  BY DEF Surjection
<1>2. IsFiniteSet(Rows)
  <2> HIDE DEF row, Rows
  <2> QED BY <1>1, FS_Surjection DEF IsTally
<1>3. \A T \in Rows : IsFiniteSet(T)
  <2>1. TAKE T \in Rows
  <2>2. PICK x \in D : T = {x} \X (1 .. f[x])
    BY <2>1
  <2>3. f[x] \in Int
    BY DEF IsTally
  <2>4. IsFiniteSet({x})
    BY FS_Singleton
  <2>5. IsFiniteSet(1 .. f[x])
    BY <2>3, FS_Interval
  <2> QED BY <2>2, <2>4, <2>5, FS_Product
<1>4. Cells(f) = UNION Rows
  BY DEF Cells
<1> HIDE DEF Rows
<1> QED BY <1>2, <1>3, <1>4, FS_UNION

\* The sum of finitely many naturals is a natural, so the deltas add_memory and sub_memory
\* receive are integers.
LEMMA SumOverType ==
    ASSUME NEW f, IsTally(f)
    PROVE  SumOver(f) \in Nat
<1>1. SumOver(f) = Cardinality(Cells(f))
  BY DEF SumOver, Cells
<1> QED BY <1>1, CellsFinite, FS_CardinalityType

\* The data of an entry is a function with a finite domain and values in Bytes.
LEMMA DataShape ==
    ASSUME NEW d \in Data
    PROVE  /\ IsFiniteSet(DOMAIN d)
           /\ \A x \in DOMAIN d : d[x] \in Bytes
<1>1. CASE d \in Maps
  <2>1. PICK S \in SUBSET Bytes : d \in [S -> Bytes]
    BY <1>1 DEF Maps
  <2>2. IsFiniteSet(S)
    BY FS_Subset, LenAssumption
  <2> QED BY <2>1, <2>2
<1>2. CASE d \in Seq(Bytes)
  <2>1. Len(d) \in Nat /\ DOMAIN d = 1 .. Len(d) /\ d \in [1 .. Len(d) -> Bytes]
    BY <1>2, LenProperties
  <2>2. IsFiniteSet(1 .. Len(d))
    BY <2>1, FS_Interval
  <2> QED BY <2>1, <2>2
<1> QED BY <1>1, <1>2 DEF Data

\* The bytes of the items of an entry form a tally: ItemBytes is a natural on each of them.
LEMMA ItemsTally ==
    ASSUME NEW e \in CacheEntries
    PROVE  IsTally([x \in DOMAIN e.data |-> ItemBytes(e, x)])
<1>1. /\ e.type \in DataTypes
      /\ e.data \in Data
      /\ e.data \in DataOf(e.type)
  BY DEF CacheEntries
<1>2. IsFiniteSet(DOMAIN e.data) /\ \A x \in DOMAIN e.data : e.data[x] \in Bytes
  BY <1>1, DataShape
<1>3. ASSUME NEW x \in DOMAIN e.data
      PROVE  ItemBytes(e, x) \in Nat
  <2>1. ByteLen[e.data[x]] \in Nat
    BY <1>2, <1>3, LenAssumption
  <2>2. CASE e.type = "hash"
    <3>1. x \in Bytes
      BY <1>1, <2>2 DEF DataOf, Maps
    <3>2. ByteLen[x] \in Nat
      BY <3>1, LenAssumption
    <3> QED BY <2>1, <2>2, <3>2, OverheadAssumption DEF ItemBytes
  <2>3. CASE e.type = "string"
    BY <2>1, <2>3 DEF ItemBytes
  <2>4. CASE e.type \in {"list", "set"}
    BY <2>1, <2>4, OverheadAssumption DEF ItemBytes
  <2> QED BY <1>1, <2>2, <2>3, <2>4 DEF DataTypes, CollectionTypes
<1> QED BY <1>2, <1>3 DEF IsTally

\* size_bytes is a natural on every entry, and so is the header a collection is left with.
LEMMA SizeType ==
    ASSUME NEW k \in Keys, NEW e \in CacheEntries
    PROVE  HeaderBytes(k) \in Nat /\ size_bytes(k, e) \in Nat
<1>1. HeaderBytes(k) \in Nat
  BY LenAssumption, OverheadAssumption DEF HeaderBytes
<1>2. data_size(e) \in Nat
  BY ItemsTally, SumOverType DEF data_size
<1> QED BY <1>1, <1>2 DEF size_bytes

-----------------------------------------------------------------------------
(* The algebra of sums *)

\* A pair is a cell of f when its second part counts up to the value at its first.
LEMMA CellOf ==
    ASSUME NEW f, NEW c
    PROVE  c \in Cells(f) <=> \E x \in DOMAIN f : \E i \in 1 .. f[x] : c = <<x, i>>
  BY DEF Cells

\* SumOver depends on the domain and the values only.
LEMMA SumSame ==
    ASSUME NEW f, NEW g, DOMAIN f = DOMAIN g, \A x \in DOMAIN f : f[x] = g[x]
    PROVE  SumOver(f) = SumOver(g)
<1>1. Cells(f) = Cells(g)
  <2>1. \A c : c \in Cells(f) <=> c \in Cells(g)
    BY CellOf
  <2> QED BY <2>1
<1> QED BY <1>1 DEF SumOver, Cells

\* A sum over two disjoint sets is the sum of the two sums.
LEMMA SumSplit ==
    ASSUME NEW f, IsTally(f), NEW A, NEW B, DOMAIN f = A \cup B, A \cap B = {}
    PROVE  /\ IsTally([x \in A |-> f[x]])
           /\ IsTally([x \in B |-> f[x]])
           /\ SumOver(f) = SumOver([x \in A |-> f[x]]) + SumOver([x \in B |-> f[x]])
<1> DEFINE fa == [x \in A |-> f[x]]
           fb == [x \in B |-> f[x]]
<1>1. IsFiniteSet(A) /\ IsFiniteSet(B)
  BY FS_Subset DEF IsTally
<1>2. IsTally(fa) /\ IsTally(fb)
  BY <1>1 DEF IsTally
<1>3. Cells(f) = Cells(fa) \cup Cells(fb)
  <2>1. \A c : c \in Cells(f) <=> c \in Cells(fa) \/ c \in Cells(fb)
    BY CellOf
  <2> QED BY <2>1
<1>4. Cells(fa) \cap Cells(fb) = {}
  <2>1. \A c : ~(c \in Cells(fa) /\ c \in Cells(fb))
    BY CellOf
  <2> QED BY <2>1
<1>5. /\ SumOver(f) = Cardinality(Cells(f))
      /\ SumOver(fa) = Cardinality(Cells(fa))
      /\ SumOver(fb) = Cardinality(Cells(fb))
  BY DEF SumOver, Cells
<1> HIDE DEF fa, fb
<1>6. IsFiniteSet(Cells(fa)) /\ IsFiniteSet(Cells(fb))
  BY <1>2, CellsFinite
<1>7. Cardinality(Cells(fa) \cup Cells(fb)) =
        Cardinality(Cells(fa)) + Cardinality(Cells(fb)) - Cardinality(Cells(fa) \cap Cells(fb))
  BY <1>6, FS_Union
<1>8. Cardinality(Cells(fa)) \in Nat /\ Cardinality(Cells(fb)) \in Nat
  BY <1>6, FS_CardinalityType
<1>9. Cardinality(Cells(fa) \cap Cells(fb)) = 0
  BY <1>4, FS_EmptySet
<1>10. Cardinality(Cells(f)) = Cardinality(Cells(fa)) + Cardinality(Cells(fb))
  BY <1>3, <1>7, <1>8, <1>9
<1> QED BY <1>2, <1>5, <1>10 DEF fa, fb

\* The sum over nothing is zero and the sum over one point is its value.
LEMMA SumPoint ==
    /\ \A f : DOMAIN f = {} => SumOver(f) = 0
    /\ \A f, x : DOMAIN f = {x} /\ f[x] \in Nat => SumOver(f) = f[x]
<1>1. ASSUME NEW f, DOMAIN f = {}
      PROVE  SumOver(f) = 0
  <2>1. Cells(f) = {}
    BY <1>1 DEF Cells
  <2> QED BY <2>1, FS_EmptySet DEF SumOver, Cells
<1>2. ASSUME NEW f, NEW x, DOMAIN f = {x}, f[x] \in Nat
      PROVE  SumOver(f) = f[x]
  <2>1. Cells(f) = {x} \X (1 .. f[x])
    BY <1>2 DEF Cells
  <2>2. IsFiniteSet({x}) /\ Cardinality({x}) = 1
    BY FS_Singleton
  <2>3. IsFiniteSet(1 .. f[x]) /\ Cardinality(1 .. f[x]) = f[x]
    BY <1>2, FS_Interval
  <2>4. Cardinality({x} \X (1 .. f[x])) = Cardinality({x}) * Cardinality(1 .. f[x])
    BY <2>2, <2>3, FS_Product
  <2>5. Cardinality(Cells(f)) = f[x]
    BY <1>2, <2>1, <2>2, <2>3, <2>4
  <2> QED BY <2>5 DEF SumOver, Cells
<1> QED BY <1>1, <1>2

\* A sum does not depend on the order or the names of its terms.
LEMMA SumReindex ==
    ASSUME NEW f, IsTally(f), NEW g, NEW b \in Bijection(DOMAIN f, DOMAIN g),
           \A x \in DOMAIN f : g[b[x]] = f[x]
    PROVE  SumOver(g) = SumOver(f)
<1> DEFINE m == [c \in Cells(f) |-> <<b[c[1]], c[2]>>]
<1>0. /\ b \in [DOMAIN f -> DOMAIN g]
      /\ \A x, y \in DOMAIN f : b[x] = b[y] => x = y
      /\ \A z \in DOMAIN g : \E x \in DOMAIN f : b[x] = z
  BY Fun_BijectionProperties
<1>1. ASSUME NEW c \in Cells(f)
      PROVE  /\ c[1] \in DOMAIN f
             /\ c[2] \in 1 .. f[c[1]]
             /\ c = <<c[1], c[2]>>
             /\ m[c] = <<b[c[1]], c[2]>>
             /\ m[c] \in Cells(g)
  <2>1. PICK x \in DOMAIN f, i \in Int : i \in 1 .. f[x] /\ c = <<x, i>>
    BY CellOf
  <2>2. <<b[x], i>> \in Cells(g)
    BY <1>0, <2>1, CellOf
  <2>3. c[1] = x /\ c[2] = i
    BY <2>1
  <2> QED BY <2>1, <2>2, <2>3
<1>2. \A c, d \in Cells(f) : m[c] = m[d] => c = d
  <2> HIDE DEF m
  <2> SUFFICES ASSUME NEW c \in Cells(f), NEW d \in Cells(f), m[c] = m[d]
               PROVE  c = d
    OBVIOUS
  <2>1. b[c[1]] = b[d[1]] /\ c[2] = d[2]
    BY <1>1
  <2> QED BY <1>0, <1>1, <2>1
<1>3. \A e \in Cells(g) : \E c \in Cells(f) : m[c] = e
  <2> SUFFICES ASSUME NEW e \in Cells(g)
               PROVE  \E c \in Cells(f) : m[c] = e
    OBVIOUS
  <2>1. PICK z \in DOMAIN g, i \in Int : i \in 1 .. g[z] /\ e = <<z, i>>
    BY CellOf
  <2>2. PICK x \in DOMAIN f : b[x] = z
    BY <1>0
  <2>3. <<x, i>> \in Cells(f)
    BY <2>1, <2>2, CellOf
  <2>4. m[<<x, i>>] = e
    BY <2>1, <2>2, <2>3
  <2> QED BY <2>3, <2>4
<1>4. m \in [Cells(f) -> Cells(g)]
  BY <1>1
<1>5. m \in Bijection(Cells(f), Cells(g))
  <2> HIDE DEF m
  <2> QED BY <1>2, <1>3, <1>4, Fun_IsBij
<1>6. ExistsBijection(Cells(f), Cells(g))
  BY <1>5, Fun_ExistsBij
<1>7. Cardinality(Cells(g)) = Cardinality(Cells(f))
  BY <1>6, CellsFinite, FS_Bijection
<1> QED BY <1>7 DEF SumOver, Cells

\* The sum of sums.
LEMMA SumPlus ==
    ASSUME NEW S, IsFiniteSet(S), NEW f \in [S -> Nat], NEW g \in [S -> Nat]
    PROVE  SumOver([x \in S |-> f[x] + g[x]]) = SumOver(f) + SumOver(g)
<1> DEFINE h == [x \in S |-> f[x] + g[x]]
           up == [c \in Cells(g) |-> <<c[1], f[c[1]] + c[2]>>]
           Up == {up[c] : c \in Cells(g)}
<1>0. IsTally(f) /\ IsTally(g)
  BY DEF IsTally
<1>1. ASSUME NEW c \in Cells(g)
      PROVE  /\ c[1] \in S
             /\ c[2] \in 1 .. g[c[1]]
             /\ c = <<c[1], c[2]>>
             /\ up[c] = <<c[1], f[c[1]] + c[2]>>
  <2>1. PICK x \in S, i \in Int : i \in 1 .. g[x] /\ c = <<x, i>>
    BY CellOf
  <2> QED BY <2>1
<1>2. up \in Bijection(Cells(g), Up)
  <2>1. up \in [Cells(g) -> Up]
    OBVIOUS
  <2>2. \A z \in Up : \E c \in Cells(g) : up[c] = z
    OBVIOUS
  <2>3. ASSUME NEW c \in Cells(g), NEW d \in Cells(g), up[c] = up[d]
        PROVE  c = d
    <3> HIDE DEF up, Up
    <3>1. c[1] = d[1] /\ f[c[1]] + c[2] = f[d[1]] + d[2]
      BY <1>1, <2>3
    <3>2. f[c[1]] \in Nat /\ c[2] \in Int /\ d[2] \in Int
      BY <1>1
    <3>3. c[2] = d[2]
      BY <3>1, <3>2
    <3> QED BY <1>1, <3>1, <3>3
  <2> HIDE DEF up, Up
  <2> QED BY <2>1, <2>2, <2>3, Fun_IsBij
<1>3. IsFiniteSet(Up) /\ Cardinality(Up) = Cardinality(Cells(g))
  <2> HIDE DEF Up, up
  <2>1. ExistsBijection(Cells(g), Up)
    BY <1>2, Fun_ExistsBij
  <2> QED BY <1>0, <2>1, CellsFinite, FS_Bijection
<1>4. \A z : z \in Up <=> \E x \in S : \E i \in 1 .. g[x] : z = <<x, f[x] + i>>
  <2>1. ASSUME NEW x \in S, NEW i \in 1 .. g[x]
        PROVE  <<x, f[x] + i>> \in Up
    <3>1. <<x, i>> \in Cells(g)
      BY CellOf
    <3>2. up[<<x, i>>] = <<x, f[x] + i>>
      BY <3>1
    <3> QED BY <3>1, <3>2
  <2>2. ASSUME NEW z \in Up
        PROVE  \E x \in S : \E i \in 1 .. g[x] : z = <<x, f[x] + i>>
    <3>1. PICK c \in Cells(g) : z = up[c]
      OBVIOUS
    <3> HIDE DEF up, Up
    <3> QED BY <1>1, <3>1
  <2> QED BY <2>1, <2>2
<1> HIDE DEF up, Up
<1>5. Cells(h) = Cells(f) \cup Up
  <2>1. ASSUME NEW c \in Cells(h)
        PROVE  c \in Cells(f) \cup Up
    <3>1. PICK x \in S, i \in Int : i \in 1 .. f[x] + g[x] /\ c = <<x, i>>
      BY CellOf
    <3>2. f[x] \in Nat /\ g[x] \in Nat
      OBVIOUS
    <3>3. CASE i <= f[x]
      BY <3>1, <3>2, <3>3, CellOf
    <3>4. CASE i > f[x]
      <4>1. PICK j \in Int : j = i - f[x]
        BY <3>2
      <4>2. j \in 1 .. g[x] /\ f[x] + j = i
        BY <3>1, <3>2, <3>4, <4>1
      <4>3. c = <<x, f[x] + j>>
        BY <3>1, <4>2
      <4> QED BY <1>4, <4>2, <4>3
    <3> QED BY <3>2, <3>3, <3>4
  <2>2. ASSUME NEW c \in Cells(f)
        PROVE  c \in Cells(h)
    <3>1. PICK x \in S, i \in Int : i \in 1 .. f[x] /\ c = <<x, i>>
      BY CellOf
    <3>2. i \in 1 .. f[x] + g[x]
      BY <3>1
    <3>3. x \in DOMAIN h /\ i \in 1 .. h[x]
      BY <3>2
    <3> HIDE DEF h
    <3> QED BY <3>1, <3>3, CellOf
  <2>3. ASSUME NEW c \in Up
        PROVE  c \in Cells(h)
    <3>1. PICK x \in S, i \in Int : i \in 1 .. g[x] /\ c = <<x, f[x] + i>>
      BY <1>4
    <3>2. f[x] + i \in 1 .. f[x] + g[x]
      BY <3>1
    <3>3. x \in DOMAIN h /\ f[x] + i \in 1 .. h[x]
      BY <3>2
    <3> HIDE DEF h
    <3> QED BY <3>1, <3>3, CellOf
  <2> QED BY <2>1, <2>2, <2>3
<1>6. Cells(f) \cap Up = {}
  <2>1. ASSUME NEW c \in Cells(f), c \in Up
        PROVE  FALSE
    <3>1. PICK x \in S, i \in Int : i \in 1 .. f[x] /\ c = <<x, i>>
      BY CellOf
    <3>2. PICK y \in S, j \in Int : j \in 1 .. g[y] /\ c = <<y, f[y] + j>>
      BY <1>4, <2>1
    <3>3. x = y /\ i = f[x] + j
      BY <3>1, <3>2
    <3> QED BY <3>1, <3>2, <3>3
  <2> QED BY <2>1
<1>7. IsFiniteSet(Cells(f)) /\ IsFiniteSet(Cells(g))
  BY <1>0, CellsFinite
<1>8. Cardinality(Cells(h)) = Cardinality(Cells(f)) + Cardinality(Up) - Cardinality(Cells(f) \cap Up)
  BY <1>3, <1>5, <1>7, FS_Union
<1>9. Cardinality(Cells(f)) \in Nat /\ Cardinality(Up) \in Nat
  BY <1>3, <1>7, FS_CardinalityType
<1>10. Cardinality(Cells(f) \cap Up) = 0
  BY <1>6, FS_EmptySet
<1>11. Cardinality(Cells(h)) = Cardinality(Cells(f)) + Cardinality(Cells(g))
  BY <1>3, <1>8, <1>9, <1>10
<1> QED BY <1>11 DEF SumOver, Cells

\* Terms that are all zero add nothing.
LEMMA SumZero ==
    ASSUME NEW f, \A x \in DOMAIN f : f[x] = 0
    PROVE  SumOver(f) = 0
<1>1. \A c : c \notin Cells(f)
  BY CellOf
<1>2. Cells(f) = {}
  BY <1>1
<1> QED BY <1>2, FS_EmptySet DEF SumOver, Cells

\* The sum along a sequence of m + n terms.
LEMMA SumJoin ==
    ASSUME NEW m \in Nat, NEW n \in Nat, NEW f \in [1 .. m -> Nat], NEW g \in [1 .. n -> Nat],
           NEW h \in [1 .. m + n -> Nat],
           \A i \in 1 .. m : h[i] = f[i],
           \A i \in 1 .. n : h[m + i] = g[i]
    PROVE  SumOver(h) = SumOver(f) + SumOver(g)
<1> DEFINE A  == 1 .. m
           B  == m + 1 .. m + n
           ha == [x \in A |-> h[x]]
           hb == [x \in B |-> h[x]]
           b  == [i \in 1 .. n |-> m + i]
<1>0. IsFiniteSet(1 .. m + n) /\ IsFiniteSet(1 .. n)
  BY FS_Interval
<1>1. IsTally(h) /\ IsTally(g)
  BY <1>0 DEF IsTally
<1>2. DOMAIN h = A \cup B /\ A \cap B = {}
  OBVIOUS
<1>3. SumOver(h) = SumOver(ha) + SumOver(hb)
  <2> HIDE DEF A, B
  <2> QED BY <1>1, <1>2, SumSplit
<1>4. SumOver(ha) = SumOver(f)
  BY SumSame
<1>5. b \in Bijection(1 .. n, B)
  <2>1. b \in [1 .. n -> B]
    OBVIOUS
  <2>2. \A i, j \in 1 .. n : b[i] = b[j] => i = j
    OBVIOUS
  <2>3. \A z \in B : \E i \in 1 .. n : b[i] = z
    <3> TAKE z \in B
    <3>1. z - m \in 1 .. n /\ m + (z - m) = z
      OBVIOUS
    <3> WITNESS z - m \in 1 .. n
    <3> QED BY <3>1
  <2> HIDE DEF b, B
  <2> QED BY <2>1, <2>2, <2>3, Fun_IsBij
<1>6. \A i \in 1 .. n : hb[b[i]] = g[i]
  OBVIOUS
<1>7. DOMAIN g = 1 .. n /\ DOMAIN hb = B
  OBVIOUS
<1>8. SumOver(hb) = SumOver(g)
  <2> HIDE DEF hb, b, B
  <2>1. b \in Bijection(DOMAIN g, DOMAIN hb)
    BY <1>5, <1>7
  <2>2. \A x \in DOMAIN g : hb[b[x]] = g[x]
    BY <1>6, <1>7
  <2> QED BY <1>1, <2>1, <2>2, SumReindex
<1> QED BY <1>3, <1>4, <1>8

\* The sum along a sequence is the sum along its reverse.
LEMMA SumReverse ==
    ASSUME NEW n \in Nat, NEW f \in [1 .. n -> Nat], NEW g \in [1 .. n -> Nat],
           \A i \in 1 .. n : g[(n - i) + 1] = f[i]
    PROVE  SumOver(g) = SumOver(f)
<1> DEFINE b == [i \in 1 .. n |-> (n - i) + 1]
<1>0. IsFiniteSet(1 .. n)
  BY FS_Interval
<1>1. IsTally(f) /\ DOMAIN f = 1 .. n /\ DOMAIN g = 1 .. n
  BY <1>0 DEF IsTally
<1>2. b \in Bijection(1 .. n, 1 .. n)
  <2>1. b \in [1 .. n -> 1 .. n]
    OBVIOUS
  <2>2. \A i, j \in 1 .. n : b[i] = b[j] => i = j
    OBVIOUS
  <2>3. \A z \in 1 .. n : \E i \in 1 .. n : b[i] = z
    <3> TAKE z \in 1 .. n
    <3>1. (n - z) + 1 \in 1 .. n /\ (n - ((n - z) + 1)) + 1 = z
      OBVIOUS
    <3> WITNESS (n - z) + 1 \in 1 .. n
    <3> QED BY <3>1
  <2> HIDE DEF b
  <2> QED BY <2>1, <2>2, <2>3, Fun_IsBij
<1>3. \A i \in 1 .. n : g[b[i]] = f[i]
  OBVIOUS
<1> HIDE DEF b
<1> QED BY SMTT(30), <1>1, <1>2, <1>3, SumReindex

\* A number has one remainder.
LEMMA ModUnique ==
    ASSUME NEW m \in Nat \ {0}, NEW q \in Int, NEW r \in 0 .. m - 1
    PROVE  (m * q + r) % m = r
<1> DEFINE a == m * q + r
           d == a \div m
           s == a % m
<1>0. a \in Int
  OBVIOUS
<1>1. s \in 0 .. m - 1 /\ d \in Int /\ a = m * d + s
  <2> HIDE DEF a
  <2>1. s \in 0 .. m - 1
    BY <1>0
  <2>2. d \in Int
    BY <1>0
  <2>3. a = m * d + s
    BY <1>0
  <2> QED BY <2>1, <2>2, <2>3
<1> HIDE DEF d, s
<1>2. m * (d - q) = r - s
  BY <1>1
<1>3. s = r
  <2>1. d - q = 0
    <3>1. ASSUME d - q >= 1
          PROVE  FALSE
      BY <1>1, <1>2, <3>1
    <3>2. ASSUME d - q <= -1
          PROVE  FALSE
      BY <1>1, <1>2, <3>2
    <3> QED BY <1>1, <3>1, <3>2
  <2> QED BY <1>1, <1>2, <2>1
<1> QED BY <1>3 DEF s

\* Moving the remainder of a by b - a gives the remainder of b.
LEMMA ModShift ==
    ASSUME NEW m \in Nat \ {0}, NEW a \in Int, NEW b \in Int
    PROVE  ((a % m) + b - a) % m = b % m
<1> DEFINE d == a \div m
           s == a % m
           e == b \div m
           t == b % m
<1>1. d \in Int /\ e \in Int
  OBVIOUS
<1>2. s \in 0 .. m - 1
  OBVIOUS
<1>3. t \in 0 .. m - 1
  OBVIOUS
<1>4. a = m * d + s
  OBVIOUS
<1>5. b = m * e + t
  OBVIOUS
<1> HIDE DEF d, s, e, t
<1>6. s + b - a = m * (e - d) + t
  BY <1>1, <1>2, <1>3, <1>4, <1>5
<1>7. (m * (e - d) + t) % m = t
  BY <1>1, <1>3, ModUnique
<1>8. (s + b - a) % m = t
  BY <1>6, <1>7
<1> QED BY <1>8 DEF s, t

-----------------------------------------------------------------------------
(* The inductive invariant of Db *)

\* Entries that hold at least one item.
FullEntries == {e \in CacheEntries : DOMAIN e.data # {}}
FullSlots == FullEntries \cup {Absent}

\* What a task that has released a lock knows: the key and the entry it works on are real,
\* and the instant it will test again is not in the future.
ThreadOK(t) ==
    /\ threads[t].pc \in {"get", "check", "sample", "insert"} => threads[t].key \in Keys
    /\ threads[t].pc \in {"check", "sample", "insert"} => threads[t].entry \in FullEntries
    /\ threads[t].now <= clock

\* The inductive invariant.
IInv ==
    /\ entries \in [Keys -> FullSlots]
    /\ current_memory \in 0 .. UsizeMod - 1
    /\ clock \in Nat
    /\ threads \in [Threads -> ThreadStates]
    /\ sweeper \in SweeperStates
    /\ \A t \in Threads : ThreadOK(t)
    /\ sweeper.now <= clock

-----------------------------------------------------------------------------
(* Slots and entries *)

\* A slot holds an entry exactly when its type is not "none".
LEMMA SlotCases ==
    /\ \A e \in FullSlots : e.type # "none" <=> e \in FullEntries
    /\ Absent \in FullSlots
    /\ FullSlots \subseteq Slots
    /\ \A e \in FullEntries : e \in CacheEntries /\ DOMAIN e.data # {}
<1>1. Absent.type = "none"
  BY DEF Absent
<1>2. \A e \in CacheEntries : e.type # "none"
  BY DEF CacheEntries, DataTypes, CollectionTypes
<1> QED BY <1>1, <1>2 DEF FullSlots, FullEntries, Slots

\* Each variant of DataType holds data of the common shape.
LEMMA DataOfData ==
    ASSUME NEW type \in DataTypes, NEW d \in DataOf(type)
    PROVE  d \in Data
  BY DEF DataTypes, CollectionTypes, DataOf, Data, Maps

\* CacheEntry::new builds an entry.
LEMMA NewType ==
    ASSUME NEW type \in DataTypes, NEW d \in DataOf(type),
           NEW exp \in Nat \cup {None}, NEW at \in Nat
    PROVE  /\ new(type, d, exp, at) \in CacheEntries
           /\ new(type, d, exp, at).type = type
           /\ new(type, d, exp, at).data = d
  BY DataOfData DEF new, CacheEntries

\* Writing new data and a new access time into an entry leaves an entry of the same type.
LEMMA UpdateType ==
    ASSUME NEW e \in CacheEntries, NEW d \in DataOf(e.type), NEW at \in Nat
    PROVE  /\ [e EXCEPT !.data = d, !.last_accessed = at] \in CacheEntries
           /\ [e EXCEPT !.data = d, !.last_accessed = at].type = e.type
           /\ [e EXCEPT !.data = d, !.last_accessed = at].data = d
           /\ [e EXCEPT !.data = d, !.last_accessed = at].expires_at = e.expires_at
<1>1. d \in Data
  BY DataOfData DEF CacheEntries
<1> QED BY <1>1 DEF CacheEntries

\* A store to last_accessed, or to expires_at, leaves the data alone.
LEMMA StampType ==
    ASSUME NEW e \in FullEntries, NEW at \in Nat
    PROVE  /\ [e EXCEPT !.last_accessed = at] \in FullEntries
           /\ [e EXCEPT !.expires_at = at] \in FullEntries
  BY DEF FullEntries, CacheEntries

\* usize arithmetic stays in range.
LEMMA ModType ==
    ASSUME NEW a \in Int
    PROVE  a % UsizeMod \in 0 .. UsizeMod - 1
  BY DbAssumption

-----------------------------------------------------------------------------
(* The building blocks preserve the shape of the map *)

\* What a step owes the invariant about the map and the counter.
MapOK == entries \in [Keys -> FullSlots] /\ current_memory \in 0 .. UsizeMod - 1

\* The bytes of a present entry are a natural.
LEMMA PresentSize ==
    ASSUME IInv, NEW k \in Keys, Present(k)
    PROVE  entries[k] \in FullEntries /\ size_bytes(k, entries[k]) \in Nat
<1>1. entries[k] \in FullEntries
  BY SlotCases DEF IInv, Present
<1> QED BY <1>1, SizeType, SlotCases

\* Store keeps the map and the counter well formed.
LEMMA StoreOK ==
    ASSUME IInv, NEW k \in Keys, NEW e \in FullSlots, NEW delta \in Int, Store(k, e, delta)
    PROVE  MapOK'
<1>1. entries' \in [Keys -> FullSlots]
  BY DEF IInv, Store
<1>2. current_memory + delta \in Int
  BY DbAssumption DEF IInv
<1>3. current_memory' \in 0 .. UsizeMod - 1
  BY <1>2, ModType DEF Store, AddMemory
<1> QED BY <1>1, <1>3 DEF MapOK

\* So does Touch on a present entry.
LEMMA TouchOK ==
    ASSUME IInv, NEW k \in Keys, Present(k), NEW at \in Nat, Touch(k, at)
    PROVE  MapOK'
<1>1. [entries[k] EXCEPT !.last_accessed = at] \in FullSlots
  BY PresentSize, StampType DEF FullSlots
<1> QED BY <1>1 DEF IInv, Touch, MapOK

\* A removal keeps the map and the counter well formed.
LEMMA RemoveOK ==
    ASSUME IInv, NEW k \in Keys, Present(k), Store(k, Absent, -size_bytes(k, entries[k]))
    PROVE  MapOK'
<1>1. -size_bytes(k, entries[k]) \in Int
  BY PresentSize
<1> QED BY <1>1, SlotCases, StoreOK

\* A step under one lock changes nothing else.
LEMMA OneLockOK ==
    ASSUME IInv, MapOK', OneLock
    PROVE  IInv'
  BY DEF IInv, MapOK, OneLock, ThreadOK

\* A step that leaves the map alone.
LEMMA UntouchedOK ==
    ASSUME IInv, Untouched
    PROVE  MapOK'
  BY DEF IInv, MapOK, Untouched

\* A thread's step leaves the other threads, the clock and the sweeper alone.
LEMMA ThreadStepOK ==
    ASSUME IInv, MapOK', NEW t \in Threads, NEW s \in ThreadStates, ThreadStep(t, s),
           s.pc \in {"get", "check", "sample", "insert"} => s.key \in Keys,
           s.pc \in {"check", "sample", "insert"} => s.entry \in FullEntries,
           s.now <= clock
    PROVE  IInv'
<1>1. threads' \in [Threads -> ThreadStates]
  BY DEF IInv, ThreadStep
<1>2. ASSUME NEW u \in Threads
      PROVE  ThreadOK(u)'
  <2>1. CASE u = t
    BY <2>1 DEF IInv, ThreadStep, ThreadOK
  <2>2. CASE u # t
    BY <2>2 DEF IInv, ThreadStep, ThreadOK
  <2> QED BY <2>1, <2>2
<1> QED BY <1>1, <1>2 DEF IInv, MapOK, ThreadStep

\* A thread that has finished its call.
LEMMA IdleOK ==
    ASSUME IInv, MapOK', NEW t \in Threads, ThreadStep(t, Idle)
    PROVE  IInv'
<1>1. /\ Idle \in ThreadStates
      /\ Idle.pc = "idle"
      /\ Idle.now = 0
  BY DEF Idle, ThreadStates, Slots
<1>2. Idle.now <= clock
  BY <1>1 DEF IInv
<1> QED BY <1>1, <1>2, ThreadStepOK

-----------------------------------------------------------------------------
(* Collections *)

\* The empty collection is data of each collection type.
LEMMA EmptyData ==
    ASSUME NEW type \in CollectionTypes
    PROVE  <<>> \in DataOf(type)
<1>1. <<>> \in Seq(Bytes) /\ Len(<<>>) = 0
  BY EmptySeq
<1>2. <<>> \in [1 .. 0 -> Bytes] /\ DOMAIN <<>> = 1 .. 0
  BY <1>1, LenProperties
<1>3. 1 .. 0 = {}
  OBVIOUS
<1>4. <<>> \in [{} -> Bytes] /\ DOMAIN <<>> = {}
  BY <1>2, <1>3
<1>5. <<>> \in Maps
  BY <1>4 DEF Maps
<1> QED BY <1>1, <1>4, <1>5 DEF DataOf, CollectionTypes

\* The entry a growing command works on.
LEMMA OrInsertType ==
    ASSUME IInv, NEW k \in Keys, NEW now, NEW type \in CollectionTypes
    PROVE  /\ OrInsert(k, now, type) \in CacheEntries
           /\ ReclaimedBytes(k, now) \in Nat
<1>1. CASE Live(k, now)
  BY <1>1, PresentSize, SlotCases DEF OrInsert, Live, Expired, ReclaimedBytes
<1>2. CASE ~Live(k, now)
  <2>1. <<>> \in DataOf(type)
    BY EmptyData
  <2>2. new(type, <<>>, None, clock) \in CacheEntries
    BY <2>1, NewType DEF IInv, DataTypes
  <2>3. ReclaimedBytes(k, now) \in Nat
    BY PresentSize DEF ReclaimedBytes, Expired
  <2> QED BY <1>2, <2>2, <2>3 DEF OrInsert
<1> QED BY <1>1, <1>2

\* LPUSH, RPUSH, HSET and SADD preserve the invariant once their data has the right shape.
LEMMA GrowOK ==
    ASSUME IInv, NEW op, NEW k \in Keys, NEW now, NEW type \in CollectionTypes,
           NEW data, NEW added, NEW given, NEW count,
           OrInsert(k, now, type).type = type
             => data \in DataOf(type) /\ DOMAIN data # {} /\ added \in Int,
           Grow(op, k, now, type, data, added, given, count)
    PROVE  IInv'
<1> DEFINE base == OrInsert(k, now, type)
           e    == [base EXCEPT !.data = data, !.last_accessed = clock]
<1>1. CASE base.type = type /\ Store(k, e, added - ReclaimedBytes(k, now))
  <2>1. base \in CacheEntries /\ ReclaimedBytes(k, now) \in Nat
    BY OrInsertType
  <2>2. e \in FullSlots
    <3>1. clock \in Nat /\ data \in DataOf(base.type)
      BY <1>1 DEF IInv
    <3>2. e \in CacheEntries /\ e.data = data
      <4> HIDE DEF base
      <4> QED BY <2>1, <3>1, UpdateType
    <3> QED BY <1>1, <3>2 DEF FullSlots, FullEntries
  <2>3. added - ReclaimedBytes(k, now) \in Int
    BY <1>1, <2>1
  <2>4. MapOK'
    BY <1>1, <2>2, <2>3, StoreOK
  <2> QED BY <2>4, OneLockOK DEF Grow
<1>2. CASE Untouched
  BY <1>2, UntouchedOK, OneLockOK DEF Grow
<1> QED BY <1>1, <1>2 DEF Grow

\* LPOP, RPOP, HDEL and SREM likewise; a collection left empty is removed.
LEMMA ShrinkOK ==
    ASSUME IInv, NEW op, NEW k \in Keys, NEW now, NEW type \in CollectionTypes,
           NEW data, NEW freed, NEW given, NEW reply, NEW metrics,
           Present(k) /\ entries[k].type = type => data \in DataOf(type) /\ freed \in Int,
           Shrink(op, k, now, type, data, freed, given, reply, metrics)
    PROVE  IInv'
<1>1. CASE Untouched
  BY <1>1, UntouchedOK, OneLockOK DEF Shrink
<1>2. CASE Expired(k, now) /\ Store(k, Absent, -size_bytes(k, entries[k]))
  BY <1>2, RemoveOK, OneLockOK DEF Shrink, Expired
<1>3. CASE /\ Live(k, now)
           /\ entries[k].type = type
           /\ Store(k, Remaining(k, data), -(freed + EmptiedBytes(k, data)))
  <2>1. entries[k] \in FullEntries /\ HeaderBytes(k) \in Nat
    BY <1>3, PresentSize, SizeType, SlotCases DEF Live
  <2>2. data \in DataOf(type) /\ freed \in Int
    BY <1>3 DEF Live
  <2>3. -(freed + EmptiedBytes(k, data)) \in Int
    BY <2>1, <2>2 DEF EmptiedBytes
  <2>4. Remaining(k, data) \in FullSlots
    <3>1. CASE DOMAIN data = {}
      BY <3>1, SlotCases DEF Remaining
    <3>2. CASE DOMAIN data # {}
      <4> DEFINE e == [entries[k] EXCEPT !.data = data, !.last_accessed = clock]
      <4>0. entries[k] \in CacheEntries /\ clock \in Nat /\ data \in DataOf(entries[k].type)
        BY <1>3, <2>1, <2>2, SlotCases DEF IInv
      <4>1. e \in CacheEntries /\ e.data = data
        BY <4>0, UpdateType
      <4>2. e \in FullSlots
        BY <3>2, <4>1 DEF FullSlots, FullEntries
      <4> QED BY <3>2, <4>2 DEF Remaining
    <3> QED BY <3>1, <3>2
  <2>5. MapOK'
    BY <1>3, <2>3, <2>4, StoreOK
  <2> QED BY <2>5, OneLockOK DEF Shrink
<1> QED BY <1>1, <1>2, <1>3 DEF Shrink

\* The readers change an access time at most.
LEMMA ReadOK ==
    ASSUME IInv, NEW op, NEW k \in Keys, NEW now, NEW at \in Nat, NEW type, NEW given, NEW nil,
           NEW reply, NEW metrics,
           Read(op, k, now, at, type, given, nil, reply, metrics)
    PROVE  IInv'
<1>1. CASE Untouched
  BY <1>1, UntouchedOK, OneLockOK DEF Read
<1>2. CASE Live(k, now) /\ Touch(k, at)
  BY <1>2, TouchOK, OneLockOK DEF Read, Live
<1> QED BY <1>1, <1>2 DEF Read

\* The arguments of LPUSH and RPUSH: at least one element, charged a natural number of bytes.
LEMMA ElementArgsType ==
    ASSUME NEW els \in ElementArgs
    PROVE  /\ els \in Seq(Bytes)
           /\ Len(els) \in Nat \ {0}
           /\ ElementBytes(els) \in Nat
<1>1. PICK n \in 1 .. MaxArgs : els \in [1 .. n -> Bytes]
  BY DEF ElementArgs
<1>2. n \in Nat \ {0}
  BY DbAssumption
<1>3. els \in Seq(Bytes)
  BY <1>1, <1>2, SeqDef
<1>4. Len(els) = n /\ DOMAIN els = 1 .. n
  BY <1>1, <1>2, <1>3, LenProperties
<1>5. IsTally([i \in DOMAIN els |-> ByteLen[els[i]] + ITEM_OVERHEAD])
  <2>1. IsFiniteSet(1 .. n)
    BY <1>2, FS_Interval
  <2>2. \A i \in DOMAIN els : ByteLen[els[i]] + ITEM_OVERHEAD \in Nat
    BY <1>1, LenAssumption, OverheadAssumption
  <2> QED BY <1>4, <2>1, <2>2 DEF IsTally
<1>6. ElementBytes(els) \in Nat
  BY <1>5, SumOverType DEF ElementBytes
<1> QED BY <1>2, <1>3, <1>4, <1>6

\* Reverse keeps the elements and the length.
LEMMA ReverseType ==
    ASSUME NEW s \in Seq(Bytes)
    PROVE  Reverse(s) \in Seq(Bytes) /\ Len(Reverse(s)) = Len(s)
<1>1. Len(s) \in Nat /\ s \in [1 .. Len(s) -> Bytes]
  BY LenProperties
<1>2. Reverse(s) \in [1 .. Len(s) -> Bytes]
  BY <1>1 DEF Reverse
<1>3. Reverse(s) \in Seq(Bytes)
  BY <1>1, <1>2, SeqDef
<1>4. DOMAIN Reverse(s) = 1 .. Len(Reverse(s)) /\ Len(Reverse(s)) \in Nat
  BY <1>3, LenProperties
<1> QED BY <1>1, <1>2, <1>3, <1>4

\* A sum over a set of payloads whose terms are naturals.
LEMMA BytesSum ==
    ASSUME NEW S \in SUBSET Bytes, NEW f \in [S -> Nat]
    PROVE  SumOver(f) \in Nat
<1>1. IsFiniteSet(S)
  BY LenAssumption, FS_Subset
<1>2. IsTally(f)
  BY <1>1 DEF IsTally
<1> QED BY <1>2, SumOverType

\* LPUSH preserves the invariant.
LEMMA LpushOK ==
    ASSUME IInv, NEW k \in Keys, NEW now, NEW els \in ElementArgs, lpush(k, els, now)
    PROVE  IInv'
<1> DEFINE list == OrInsert(k, now, "list").data
           data == Reverse(els) \o list
<1>1. ASSUME OrInsert(k, now, "list").type = "list"
      PROVE  data \in DataOf("list") /\ DOMAIN data # {}
  <2>1. OrInsert(k, now, "list") \in CacheEntries
    BY OrInsertType DEF CollectionTypes
  <2>2. list \in Seq(Bytes)
    BY <1>1, <2>1 DEF CacheEntries, DataOf
  <2>3. Reverse(els) \in Seq(Bytes) /\ Len(Reverse(els)) \in Nat \ {0}
    BY ElementArgsType, ReverseType
  <2>4. data \in Seq(Bytes) /\ Len(data) = Len(Reverse(els)) + Len(list)
    <3> HIDE DEF list
    <3> QED BY <2>2, <2>3, ConcatProperties
  <2>5. Len(list) \in Nat
    BY <2>2, LenProperties
  <2>6. DOMAIN data = 1 .. Len(data) /\ Len(data) \in Nat \ {0}
    <3> HIDE DEF data, list
    <3> QED BY <2>3, <2>4, <2>5, LenProperties
  <2>7. 1 \in DOMAIN data
    <3> HIDE DEF data
    <3> QED BY <2>6
  <2> QED BY <2>4, <2>7 DEF DataOf
<1>2. ElementBytes(els) \in Int
  BY ElementArgsType
<1>3. Grow("lpush", k, now, "list", data, ElementBytes(els), els, Len(els) + Len(list))
  BY DEF lpush
<1> HIDE DEF data, list
<1> QED BY <1>1, <1>2, <1>3, GrowOK DEF CollectionTypes

\* RPUSH preserves the invariant.
LEMMA RpushOK ==
    ASSUME IInv, NEW k \in Keys, NEW now, NEW els \in ElementArgs, rpush(k, els, now)
    PROVE  IInv'
<1> DEFINE list == OrInsert(k, now, "list").data
           data == list \o els
<1>1. ASSUME OrInsert(k, now, "list").type = "list"
      PROVE  data \in DataOf("list") /\ DOMAIN data # {}
  <2>1. OrInsert(k, now, "list") \in CacheEntries
    BY OrInsertType DEF CollectionTypes
  <2>2. list \in Seq(Bytes)
    BY <1>1, <2>1 DEF CacheEntries, DataOf
  <2>3. els \in Seq(Bytes) /\ Len(els) \in Nat \ {0}
    BY ElementArgsType
  <2>4. data \in Seq(Bytes) /\ Len(data) = Len(list) + Len(els)
    <3> HIDE DEF list
    <3> QED BY <2>2, <2>3, ConcatProperties
  <2>5. Len(list) \in Nat
    BY <2>2, LenProperties
  <2>6. DOMAIN data = 1 .. Len(data) /\ Len(data) \in Nat \ {0}
    <3> HIDE DEF data, list
    <3> QED BY <2>3, <2>4, <2>5, LenProperties
  <2>7. 1 \in DOMAIN data
    <3> HIDE DEF data
    <3> QED BY <2>6
  <2> QED BY <2>4, <2>7 DEF DataOf
<1>2. ElementBytes(els) \in Int
  BY ElementArgsType
<1>3. Grow("rpush", k, now, "list", data, ElementBytes(els), els, Len(els) + Len(list))
  BY DEF rpush
<1> HIDE DEF data, list
<1> QED BY <1>1, <1>2, <1>3, GrowOK DEF CollectionTypes

\* HSET preserves the invariant.
LEMMA HsetOK ==
    ASSUME IInv, NEW k \in Keys, NEW now, NEW fields \in FieldArgs, hset(k, fields, now)
    PROVE  IInv'
<1> DEFINE map   == OrInsert(k, now, "hash").data
           old   == DOMAIN fields \cap DOMAIN map
           fresh == DOMAIN fields \ DOMAIN map
           data  == Inserted(map, fields)
           added == SumOver([f \in fresh |-> PairBytes(f, fields[f])])
                      + SumOver([f \in old |-> ByteLen[fields[f]]])
                      - SumOver([f \in old |-> ByteLen[map[f]]])
<1>0. PICK F \in MemberArgs : fields \in [F -> Bytes]
  BY DEF FieldArgs
<1>1. ASSUME OrInsert(k, now, "hash").type = "hash"
      PROVE  data \in DataOf("hash") /\ DOMAIN data # {} /\ added \in Int
  <2>1. OrInsert(k, now, "hash") \in CacheEntries
    BY OrInsertType DEF CollectionTypes
  <2>2. map \in Maps
    BY <1>1, <2>1 DEF CacheEntries, DataOf
  <2>3. PICK S \in SUBSET Bytes : map \in [S -> Bytes]
    BY <2>2 DEF Maps
  <2>4. F \in SUBSET Bytes /\ F # {}
    BY DEF MemberArgs
  <2>5. data \in [S \cup F -> Bytes]
    <3> HIDE DEF map
    <3> QED BY <1>0, <2>3 DEF Inserted
  <2>6. data \in Maps /\ DOMAIN data # {}
    <3> HIDE DEF data
    <3> QED BY <2>4, <2>5 DEF Maps
  <2>7. SumOver([f \in fresh |-> PairBytes(f, fields[f])]) \in Nat
    <3>1. fresh \in SUBSET Bytes
      BY <1>0, <2>4
    <3>2. \A f \in fresh : PairBytes(f, fields[f]) \in Nat
      BY <1>0, <2>4, LenAssumption, OverheadAssumption DEF PairBytes
    <3>3. [f \in fresh |-> PairBytes(f, fields[f])] \in [fresh -> Nat]
      BY <3>2
    <3> HIDE DEF fresh
    <3> QED BY <3>1, <3>3, BytesSum
  <2>8. SumOver([f \in old |-> ByteLen[fields[f]]]) \in Nat
    <3>1. old \in SUBSET Bytes
      BY <1>0, <2>4
    <3>2. [f \in old |-> ByteLen[fields[f]]] \in [old -> Nat]
      BY <1>0, LenAssumption
    <3> HIDE DEF old
    <3> QED BY <3>1, <3>2, BytesSum
  <2>9. SumOver([f \in old |-> ByteLen[map[f]]]) \in Nat
    <3>1. old \in SUBSET Bytes
      BY <1>0, <2>4
    <3>2. [f \in old |-> ByteLen[map[f]]] \in [old -> Nat]
      <4> HIDE DEF map
      <4> QED BY <2>3, LenAssumption
    <3> HIDE DEF old
    <3> QED BY <3>1, <3>2, BytesSum
  <2>10. added \in Int
    BY <2>7, <2>8, <2>9
  <2> QED BY <2>6, <2>10 DEF DataOf
<1>2. Grow("hset", k, now, "hash", data, added, fields, Cardinality(fresh))
  BY DEF hset
<1> HIDE DEF data, added, fresh
<1> QED BY <1>1, <1>2, GrowOK DEF CollectionTypes

\* SADD preserves the invariant.
LEMMA SaddOK ==
    ASSUME IInv, NEW k \in Keys, NEW now, NEW members \in MemberArgs, sadd(k, members, now)
    PROVE  IInv'
<1> DEFINE set   == OrInsert(k, now, "set").data
           fresh == members \ DOMAIN set
           data  == [m \in DOMAIN set \cup members |-> m]
           added == SumOver([m \in fresh |-> ByteLen[m] + ITEM_OVERHEAD])
<1>1. ASSUME OrInsert(k, now, "set").type = "set"
      PROVE  data \in DataOf("set") /\ DOMAIN data # {}
  <2>1. OrInsert(k, now, "set") \in CacheEntries
    BY OrInsertType DEF CollectionTypes
  <2>2. set \in Maps
    BY <1>1, <2>1 DEF CacheEntries, DataOf
  <2>3. DOMAIN set \in SUBSET Bytes
    BY <2>2 DEF Maps
  <2>4. DOMAIN set \cup members \in SUBSET Bytes /\ members # {}
    BY <2>3 DEF MemberArgs
  <2>5. data \in [DOMAIN set \cup members -> Bytes]
    BY <2>4
  <2>6. data \in Maps
    <3> HIDE DEF data
    <3> QED BY <2>4, <2>5 DEF Maps
  <2> QED BY <2>4, <2>6 DEF DataOf
<1>2. added \in Int
  <2>1. fresh \in SUBSET Bytes
    BY DEF MemberArgs
  <2>2. [m \in fresh |-> ByteLen[m] + ITEM_OVERHEAD] \in [fresh -> Nat]
    BY <2>1, LenAssumption, OverheadAssumption
  <2> HIDE DEF fresh
  <2> QED BY <2>1, <2>2, BytesSum
<1>3. Grow("sadd", k, now, "set", data, added, members, Cardinality(fresh))
  BY DEF sadd
<1> HIDE DEF data, added, fresh
<1> QED BY <1>1, <1>2, <1>3, GrowOK DEF CollectionTypes

\* A stored list is a non-empty sequence.
LEMMA StoredList ==
    ASSUME IInv, NEW k \in Keys, Present(k), entries[k].type = "list"
    PROVE  /\ entries[k].data \in Seq(Bytes)
           /\ entries[k].data # <<>>
           /\ Len(entries[k].data) \in Nat \ {0}
           /\ DOMAIN entries[k].data = 1 .. Len(entries[k].data)
<1>1. entries[k] \in CacheEntries /\ DOMAIN entries[k].data # {}
  BY PresentSize, SlotCases
<1>2. entries[k].data \in Seq(Bytes)
  BY <1>1 DEF CacheEntries, DataOf
<1>3. Len(entries[k].data) \in Nat /\ DOMAIN entries[k].data = 1 .. Len(entries[k].data)
  BY <1>2, LenProperties
<1>4. Len(entries[k].data) # 0
  BY <1>1, <1>3
<1>5. Len(<<>>) = 0
  BY EmptySeq
<1> QED BY <1>2, <1>3, <1>4, <1>5

\* LPOP preserves the invariant.
LEMMA LpopOK ==
    ASSUME IInv, NEW k \in Keys, NEW now, lpop(k, now)
    PROVE  IInv'
<1> DEFINE list  == entries[k].data
           freed == ByteLen[Head(list)] + ITEM_OVERHEAD
<1>1. ASSUME Present(k), entries[k].type = "list"
      PROVE  Tail(list) \in DataOf("list") /\ freed \in Int
  <2>1. Head(list) \in Bytes /\ Tail(list) \in Seq(Bytes)
    BY <1>1, StoredList, HeadTailProperties
  <2> QED BY <2>1, LenAssumption, OverheadAssumption DEF DataOf
<1>2. Shrink("lpop", k, now, "list", Tail(list), freed, <<>>, <<Head(list)>>, Hit)
  BY DEF lpop
<1> HIDE DEF list, freed
<1> QED BY <1>1, <1>2, ShrinkOK DEF CollectionTypes

\* RPOP preserves the invariant.
LEMMA RpopOK ==
    ASSUME IInv, NEW k \in Keys, NEW now, rpop(k, now)
    PROVE  IInv'
<1> DEFINE list  == entries[k].data
           last  == list[Len(list)]
           front == SubSeq(list, 1, Len(list) - 1)
           freed == ByteLen[last] + ITEM_OVERHEAD
<1>1. ASSUME Present(k), entries[k].type = "list"
      PROVE  front \in DataOf("list") /\ freed \in Int
  <2>1. /\ list \in Seq(Bytes)
        /\ Len(list) \in Nat \ {0}
    BY <1>1, StoredList
  <2>2. \A i \in 1 .. Len(list) : list[i] \in Bytes
    BY <2>1, ElementOfSeq
  <2>3. last \in Bytes
    BY <2>1, <2>2
  <2>4. front \in Seq(Bytes)
    BY <2>1, <2>2, SubSeqProperties
  <2> QED BY <2>3, <2>4, LenAssumption, OverheadAssumption DEF DataOf
<1>2. Shrink("rpop", k, now, "list", front, freed, <<>>, <<last>>, Hit)
  BY DEF rpop
<1> HIDE DEF front, freed, last
<1> QED BY <1>1, <1>2, ShrinkOK DEF CollectionTypes

\* A stored hash or set is a map from payloads to payloads.
LEMMA StoredMap ==
    ASSUME IInv, NEW k \in Keys, Present(k), entries[k].type \in {"hash", "set"}
    PROVE  /\ entries[k].data \in [DOMAIN entries[k].data -> Bytes]
           /\ DOMAIN entries[k].data \in SUBSET Bytes
<1>1. entries[k] \in CacheEntries
  BY PresentSize, SlotCases
<1>2. entries[k].data \in Maps
  BY <1>1 DEF CacheEntries, DataOf
<1> QED BY <1>2 DEF Maps

\* HDEL preserves the invariant.
LEMMA HdelOK ==
    ASSUME IInv, NEW k \in Keys, NEW now, NEW fields \in MemberArgs, hdel(k, fields, now)
    PROVE  IInv'
<1> DEFINE map   == entries[k].data
           gone  == fields \cap DOMAIN map
           data  == [f \in DOMAIN map \ fields |-> map[f]]
           freed == SumOver([f \in gone |-> PairBytes(f, map[f])])
<1>1. ASSUME Present(k), entries[k].type = "hash"
      PROVE  data \in DataOf("hash") /\ freed \in Int
  <2>1. map \in [DOMAIN map -> Bytes] /\ DOMAIN map \in SUBSET Bytes
    BY <1>1, StoredMap
  <2>2. data \in [DOMAIN map \ fields -> Bytes]
    <3> HIDE DEF map
    <3> QED BY <2>1
  <2>3. data \in Maps
    <3> HIDE DEF data, map
    <3> QED BY <2>1, <2>2 DEF Maps
  <2>4. gone \in SUBSET Bytes
    BY <2>1
  <2>5. [f \in gone |-> PairBytes(f, map[f])] \in [gone -> Nat]
    <3> HIDE DEF map
    <3> QED BY <2>1, LenAssumption, OverheadAssumption DEF PairBytes
  <2>6. freed \in Nat
    <3> HIDE DEF gone
    <3> QED BY <2>4, <2>5, BytesSum
  <2> QED BY <2>3, <2>6 DEF DataOf
<1>2. Shrink("hdel", k, now, "hash", data, freed, fields, <<Cardinality(gone)>>, NoMetric)
  BY DEF hdel
<1> HIDE DEF data, freed, gone
<1> QED BY <1>1, <1>2, ShrinkOK DEF CollectionTypes

\* SREM preserves the invariant.
LEMMA SremOK ==
    ASSUME IInv, NEW k \in Keys, NEW now, NEW members \in MemberArgs, srem(k, members, now)
    PROVE  IInv'
<1> DEFINE set   == entries[k].data
           gone  == members \cap DOMAIN set
           data  == [m \in DOMAIN set \ members |-> m]
           freed == SumOver([m \in gone |-> ByteLen[m] + ITEM_OVERHEAD])
<1>1. ASSUME Present(k), entries[k].type = "set"
      PROVE  data \in DataOf("set") /\ freed \in Int
  <2>1. DOMAIN set \in SUBSET Bytes
    BY <1>1, StoredMap
  <2>2. data \in [DOMAIN set \ members -> Bytes]
    BY <2>1
  <2>3. data \in Maps
    <3> HIDE DEF data, set
    <3> QED BY <2>1, <2>2 DEF Maps
  <2>4. gone \in SUBSET Bytes
    BY <2>1
  <2>5. [m \in gone |-> ByteLen[m] + ITEM_OVERHEAD] \in [gone -> Nat]
    BY <2>4, LenAssumption, OverheadAssumption
  <2>6. freed \in Nat
    <3> HIDE DEF gone
    <3> QED BY <2>4, <2>5, BytesSum
  <2> QED BY <2>3, <2>6 DEF DataOf
<1>2. Shrink("srem", k, now, "set", data, freed, members, <<Cardinality(gone)>>, NoMetric)
  BY DEF srem
<1> HIDE DEF data, freed, gone
<1> QED BY <1>1, <1>2, ShrinkOK DEF CollectionTypes

-----------------------------------------------------------------------------
(* Expiry, the calls that take several locks, the sweeper *)

\* EXPIRE preserves the invariant.
LEMMA ExpireOK ==
    ASSUME IInv, NEW k \in Keys, NEW duration \in Durations, expire(k, duration)
    PROVE  IInv'
<1>1. CASE Untouched
  BY <1>1, UntouchedOK, OneLockOK DEF expire
<1>2. CASE Expired(k, clock) /\ Store(k, Absent, -size_bytes(k, entries[k]))
  BY <1>2, RemoveOK, OneLockOK DEF expire, Expired
<1>3. CASE /\ Live(k, clock)
           /\ Store(k, [entries[k] EXCEPT !.expires_at = clock + duration], 0)
  <2>1. clock + duration \in Nat
    BY DbAssumption DEF IInv
  <2>2. [entries[k] EXCEPT !.expires_at = clock + duration] \in FullSlots
    BY <1>3, <2>1, PresentSize, StampType DEF Live, FullSlots
  <2>3. MapOK'
    BY <1>3, <2>2, StoreOK
  <2> QED BY <2>3, OneLockOK DEF expire
<1> QED BY <1>1, <1>2, <1>3 DEF expire

\* GET's first lock preserves the invariant; it remembers an instant that is past.
LEMMA GetReadOK ==
    ASSUME IInv, NEW t \in Threads, NEW k \in Keys, NEW now \in 0 .. clock,
           NEW at \in now .. clock, GetRead(t, k, now, at)
    PROVE  IInv'
<1>0. clock \in Nat /\ at \in Nat /\ now \in Nat /\ now <= clock
  BY DEF IInv
<1>1. CASE Untouched /\ OneLock
  BY <1>1, UntouchedOK, OneLockOK
<1>2. CASE Live(k, now) /\ GetLive(k, now, at) /\ OneLock
  BY <1>0, <1>2, TouchOK, OneLockOK DEF Live, GetLive
<1>3. CASE /\ Untouched
           /\ ThreadStep(t, [Idle EXCEPT !.pc = "get", !.key = k, !.now = now])
  <2> DEFINE s == [Idle EXCEPT !.pc = "get", !.key = k, !.now = now]
  <2>1. s \in ThreadStates /\ s.pc = "get" /\ s.key = k /\ s.now = now
    BY <1>0 DEF Idle, ThreadStates, Slots
  <2>2. MapOK'
    BY <1>3, UntouchedOK
  <2> HIDE DEF s
  <2>3. ThreadStep(t, s)
    BY <1>3 DEF s
  <2> QED BY <1>0, <2>1, <2>2, <2>3, ThreadStepOK
<1> QED BY <1>1, <1>2, <1>3 DEF GetRead

\* GET's second lock preserves the invariant.
LEMMA GetWriteOK ==
    ASSUME IInv, NEW t \in Threads, GetWrite(t)
    PROVE  IInv'
<1> DEFINE k   == threads[t].key
           now == threads[t].now
<1>1. k \in Keys
  BY DEF IInv, ThreadOK, GetWrite
<1>2. MapOK'
  <2>1. CASE Untouched
    BY <2>1, UntouchedOK
  <2>2. CASE Live(k, now) /\ GetLive(k, now, clock)
    <3>1. clock \in Nat /\ Present(k) /\ Touch(k, clock)
      BY <2>2 DEF IInv, Live, GetLive
    <3> HIDE DEF k
    <3> QED BY <1>1, <3>1, TouchOK
  <2>3. CASE Expired(k, now) /\ Store(k, Absent, -size_bytes(k, entries[k]))
    <3>1. Present(k)
      BY <2>3 DEF Expired
    <3> HIDE DEF k
    <3> QED BY <1>1, <2>3, <3>1, RemoveOK
  <2> QED BY <2>1, <2>2, <2>3 DEF GetWrite
<1> QED BY <1>2, IdleOK DEF GetWrite

\* The entry SET builds.
LEMMA SetCallOK ==
    ASSUME IInv, NEW t \in Threads, NEW k \in Keys, NEW b \in Bytes,
           NEW exp \in ExpiryInstants, SetCall(t, k, b, exp)
    PROVE  IInv'
<1> DEFINE e == new("string", <<b>>, exp, clock)
           s == [Idle EXCEPT !.pc = IF MaxMemory > 0 THEN "check" ELSE "insert",
                             !.key = k, !.entry = e]
<1>1. clock \in Nat
  BY DEF IInv
<1>2. exp \in Nat \cup {None}
  BY <1>1, DbAssumption DEF ExpiryInstants
<1>3. <<b>> \in DataOf("string") /\ DOMAIN <<b>> # {}
  <2>1. <<b>> \in Seq(Bytes) /\ Len(<<b>>) = 1
    OBVIOUS
  <2> QED BY <2>1 DEF DataOf
<1>4. e \in FullEntries
  <2> DEFINE d == <<b>>
  <2>1. "string" \in DataTypes /\ d \in DataOf("string") /\ DOMAIN d # {}
    BY <1>3 DEF DataTypes
  <2> HIDE DEF d
  <2>2. new("string", d, exp, clock) \in CacheEntries /\ new("string", d, exp, clock).data = d
    BY <1>1, <1>2, <2>1, NewType
  <2>3. new("string", d, exp, clock) \in FullEntries
    BY <2>1, <2>2 DEF FullEntries
  <2> QED BY <2>3 DEF d
<1>5. MapOK'
  BY UntouchedOK DEF SetCall
<1>6. e \in Slots
  BY <1>4 DEF FullEntries, Slots
<1> HIDE DEF e
<1>7. /\ s \in ThreadStates
      /\ s.pc \in {"check", "insert"}
      /\ s.key = k
      /\ s.entry = e
      /\ s.now = 0
  BY <1>6 DEF Idle, ThreadStates
<1>8. ThreadStep(t, s)
  BY DEF SetCall, e
<1> HIDE DEF s
<1> QED BY <1>1, <1>4, <1>5, <1>7, <1>8, ThreadStepOK

\* ensure_capacity's test preserves the invariant.
LEMMA EnsureCapacityOK ==
    ASSUME IInv, NEW t \in Threads, EnsureCapacity(t)
    PROVE  IInv'
<1>1. threads[t] \in ThreadStates /\ ThreadOK(t) /\ threads[t].pc = "check"
  BY DEF IInv, EnsureCapacity
<1>2. MapOK'
  BY UntouchedOK DEF EnsureCapacity
<1>3. CASE OverCapacity(t)
  <2> DEFINE s == [threads[t] EXCEPT !.pc = "sample", !.left = LRU_SAMPLE_SIZE,
                                     !.oldest_key = NoKey, !.oldest_time = 0]
  <2>1. /\ s \in ThreadStates
        /\ s.key = threads[t].key /\ s.entry = threads[t].entry /\ s.now = threads[t].now
    BY <1>1, DbAssumption DEF ThreadStates
  <2>2. ThreadStep(t, s)
    BY <1>3 DEF EnsureCapacity
  <2> HIDE DEF s
  <2> QED BY <1>1, <1>2, <2>1, <2>2, ThreadStepOK DEF ThreadOK
<1>4. CASE ~OverCapacity(t)
  <2> DEFINE s == [threads[t] EXCEPT !.pc = "insert"]
  <2>1. /\ s \in ThreadStates
        /\ s.key = threads[t].key /\ s.entry = threads[t].entry /\ s.now = threads[t].now
    BY <1>1 DEF ThreadStates
  <2>2. ThreadStep(t, s)
    BY <1>4 DEF EnsureCapacity
  <2> HIDE DEF s
  <2> QED BY <1>1, <1>2, <2>1, <2>2, ThreadStepOK DEF ThreadOK
<1> QED BY <1>3, <1>4

\* One draw of evict_lru_step preserves the invariant.
LEMMA SampleShardOK ==
    ASSUME IInv, NEW t \in Threads, NEW sh \in Shards, SampleShard(t, sh)
    PROVE  IInv'
<1>1. /\ threads[t] \in ThreadStates /\ ThreadOK(t)
      /\ threads[t].pc = "sample" /\ threads[t].left > 0
  BY DEF IInv, SampleShard
<1>2. MapOK'
  BY UntouchedOK DEF SampleShard
<1> DEFINE less == [threads[t] EXCEPT !.left = @ - 1]
<1>3. CASE ThreadStep(t, less)
  <2>1. /\ less \in ThreadStates
        /\ less.key = threads[t].key /\ less.entry = threads[t].entry
        /\ less.now = threads[t].now
    BY <1>1 DEF ThreadStates
  <2> HIDE DEF less
  <2> QED BY <1>1, <1>2, <1>3, <2>1, ThreadStepOK DEF ThreadOK
<1>4. ASSUME NEW k \in ShardKeys(sh),
             ThreadStep(t, [threads[t] EXCEPT !.left = @ - 1, !.oldest_key = k,
                                              !.oldest_time = entries[k].last_accessed])
      PROVE  IInv'
  <2> DEFINE s == [threads[t] EXCEPT !.left = @ - 1, !.oldest_key = k,
                                     !.oldest_time = entries[k].last_accessed]
  <2>1. k \in Keys /\ Present(k)
    BY <1>4 DEF ShardKeys
  <2>2. entries[k] \in CacheEntries
    BY <2>1, PresentSize, SlotCases
  <2>3. entries[k].last_accessed \in Nat
    BY <2>2 DEF CacheEntries
  <2>4. /\ s \in ThreadStates
        /\ s.key = threads[t].key /\ s.entry = threads[t].entry /\ s.now = threads[t].now
    <3>1. PICK at \in Nat : at = entries[k].last_accessed
      BY <2>3
    <3>2. s = [threads[t] EXCEPT !.left = @ - 1, !.oldest_key = k, !.oldest_time = at]
      BY <3>1
    <3>3. threads[t].left - 1 \in Nat
      BY <1>1 DEF ThreadStates
    <3> HIDE DEF s
    <3> QED BY <1>1, <2>1, <3>2, <3>3 DEF ThreadStates
  <2>5. ThreadStep(t, s)
    BY <1>4
  <2> HIDE DEF s
  <2> QED BY <1>1, <1>2, <2>4, <2>5, ThreadStepOK DEF ThreadOK
<1> QED BY <1>3, <1>4 DEF SampleShard

\* The removal of the candidate preserves the invariant.
LEMMA EvictOK ==
    ASSUME IInv, NEW t \in Threads, Evict(t)
    PROVE  IInv'
<1> DEFINE k     == threads[t].oldest_key
           s(pc) == [threads[t] EXCEPT !.pc = pc, !.oldest_key = NoKey, !.oldest_time = 0]
<1>1. threads[t] \in ThreadStates /\ ThreadOK(t) /\ threads[t].pc = "sample"
  BY DEF IInv, Evict
<1>2. MapOK'
  <2>1. CASE Untouched
    BY <2>1, UntouchedOK
  <2>2. CASE k \in Keys /\ Present(k) /\ Store(k, Absent, -size_bytes(k, entries[k]))
    <3> HIDE DEF k
    <3> QED BY <2>2, RemoveOK
  <2> QED BY <2>1, <2>2 DEF Evict
<1>3. ASSUME NEW pc \in {"check", "insert"}, ThreadStep(t, s(pc))
      PROVE  IInv'
  <2>1. /\ s(pc) \in ThreadStates
        /\ s(pc).key = threads[t].key /\ s(pc).entry = threads[t].entry
        /\ s(pc).now = threads[t].now
    BY <1>1 DEF ThreadStates
  <2> HIDE DEF s
  <2> QED BY <1>1, <1>2, <1>3, <2>1, ThreadStepOK DEF ThreadOK
<1> QED BY <1>3 DEF Evict

\* SET's insertion preserves the invariant.
LEMMA SetInsertOK ==
    ASSUME IInv, NEW t \in Threads, SetInsert(t)
    PROVE  IInv'
<1> DEFINE k   == threads[t].key
           e   == threads[t].entry
           old == IF Present(k) THEN size_bytes(k, entries[k]) ELSE 0
<1>1. k \in Keys /\ e \in FullEntries
  BY DEF IInv, ThreadOK, SetInsert
<1>2. Store(k, e, size_bytes(k, e) - old)
  BY DEF SetInsert
<1>3. ThreadStep(t, Idle)
  BY DEF SetInsert
<1> HIDE DEF k, e
<1>4. size_bytes(k, e) \in Nat /\ old \in Nat
  BY <1>1, SizeType, SlotCases, PresentSize
<1>5. e \in FullSlots
  BY <1>1 DEF FullSlots
<1>6. MapOK'
  <2> HIDE DEF old
  <2>1. size_bytes(k, e) - old \in Int
    BY <1>4
  <2> QED BY <1>1, <1>2, <1>5, <2>1, StoreOK
<1> QED BY <1>3, <1>6, IdleOK

\* DEL preserves the invariant, when it is called and for each key.
LEMMA DelOK ==
    ASSUME IInv, NEW t \in Threads,
           \/ \E ks \in (SUBSET Keys) \ {{}} : DelCall(t, ks)
           \/ \E k \in Keys : DelKey(t, k)
    PROVE  IInv'
<1>1. ASSUME NEW ks \in SUBSET Keys, DelCall(t, ks)
      PROVE  IInv'
  <2> DEFINE s == [Idle EXCEPT !.pc = "del", !.todo = ks]
  <2>1. s \in ThreadStates /\ s.pc = "del" /\ s.now = 0
    BY DEF Idle, ThreadStates, Slots
  <2>2. MapOK' /\ ThreadStep(t, s)
    BY <1>1, UntouchedOK DEF DelCall
  <2>3. 0 <= clock
    BY DEF IInv
  <2> HIDE DEF s
  <2> QED BY <2>1, <2>2, <2>3, ThreadStepOK
<1>2. ASSUME NEW k \in Keys, DelKey(t, k)
      PROVE  IInv'
  <2> DEFINE removed == threads[t].removed + (IF Present(k) THEN 1 ELSE 0)
             s == [threads[t] EXCEPT !.todo = @ \ {k}, !.removed = removed]
  <2>1. MapOK'
    BY <1>2, UntouchedOK, RemoveOK DEF DelKey
  <2>2. threads[t] \in ThreadStates /\ threads[t].pc = "del" /\ threads[t].now <= clock
    BY <1>2 DEF IInv, ThreadOK, DelKey
  <2>3. removed \in Nat
    BY <2>2 DEF ThreadStates
  <2>4. s \in ThreadStates /\ s.pc = "del" /\ s.now = threads[t].now
    <3> HIDE DEF removed
    <3> QED BY <2>2, <2>3 DEF ThreadStates
  <2>5. CASE ThreadStep(t, Idle)
    BY <2>1, <2>5, IdleOK
  <2>6. CASE ThreadStep(t, s)
    <3> HIDE DEF s
    <3> QED BY <2>1, <2>2, <2>4, <2>6, ThreadStepOK
  <2> QED BY <1>2, <2>5, <2>6 DEF DelKey
<1> QED BY <1>1, <1>2

\* What the sweeper does after a step.
LEMMA AfterStepType ==
    ASSUME IInv, NEW sampled, NEW expired
    PROVE  /\ AfterStep(sampled, expired) \in SweeperStates
           /\ AfterStep(sampled, expired).now = 0
<1> DEFINE next == [Resting EXCEPT !.pc = "step", !.round = sweeper.round + 1]
<1>1. Resting \in SweeperStates /\ Resting.now = 0
  BY DEF Resting, SweeperStates
<1>2. sweeper.round + 1 \in Nat
  BY DEF IInv, SweeperStates
<1>3. next \in SweeperStates /\ next.now = 0
  BY <1>2 DEF Resting, SweeperStates
<1> QED BY <1>1, <1>3 DEF AfterStep

\* The sweeper alone moves.
LEMMA SweeperOK ==
    ASSUME IInv, MapOK', sweeper' \in SweeperStates, sweeper'.now <= clock,
           UNCHANGED <<clock, threads>>
    PROVE  IInv'
  BY DEF IInv, MapOK, ThreadOK

\* The sweeper preserves the invariant; the instant it remembers is past.
LEMMA SweeperNextOK ==
    ASSUME IInv, SweeperNext
    PROVE  IInv'
<1>1. CASE SweeperTick
  <2>1. MapOK'
    BY <1>1, UntouchedOK DEF SweeperTick
  <2>2. sweeper' \in SweeperStates /\ sweeper'.now = 0
    BY <1>1 DEF SweeperTick, Resting, SweeperStates
  <2>3. 0 <= clock
    BY DEF IInv
  <2> QED BY <1>1, <2>1, <2>2, <2>3, SweeperOK DEF SweeperTick
<1>2. ASSUME NEW sh \in Shards, NEW now \in 0 .. clock,
             NEW draws \in [1 .. SampleSize(sh) -> ShardKeys(sh)],
             PurgeSample(sh, draws, now)
      PROVE  IInv'
  <2> DEFINE expired == {i \in DOMAIN draws : Expired(draws[i], now)}
  <2>1. MapOK' /\ UNCHANGED <<clock, threads>>
    BY <1>2, UntouchedOK DEF PurgeSample
  <2>2. clock \in Nat /\ now \in Nat /\ now <= clock
    BY DEF IInv
  <2>3. CASE expired = {}
    <3>1. sweeper' = AfterStep(Len(draws), 0)
      BY <1>2, <2>3 DEF PurgeSample
    <3> QED BY <2>1, <2>2, <3>1, AfterStepType, SweeperOK
  <2>4. CASE expired # {}
    <3>1. sweeper' = [sweeper EXCEPT !.pc = "remove", !.now = now, !.sampled = Len(draws),
                                     !.drawn = Cardinality(expired),
                                     !.expired_keys = {draws[i] : i \in expired}]
      BY <1>2, <2>4 DEF PurgeSample
    <3>2. ShardKeys(sh) \subseteq Keys
      BY DEF ShardKeys
    <3>3. ShardKeys(sh) \in SUBSET Keys /\ IsFiniteSet(ShardKeys(sh))
      BY <3>2, LenAssumption, FS_Subset
    <3>4. SampleSize(sh) \in Nat
      <4>1. Cardinality(ShardKeys(sh)) \in Nat
        BY <3>3, FS_CardinalityType
      <4>2. ASSUME NEW a \in Nat, NEW b \in Nat
            PROVE  Min({a, b}) \in Nat
        <5>1. \E x \in {a, b} : \A y \in {a, b} : x =< y
          OBVIOUS
        <5>2. Min({a, b}) \in {a, b}
          BY <5>1 DEF Min
        <5> QED BY <5>2
      <4> QED BY <4>1, <4>2, DbAssumption DEF SampleSize
    <3>5. DOMAIN draws = 1 .. SampleSize(sh) /\ IsFiniteSet(1 .. SampleSize(sh))
      BY <3>4, FS_Interval
    <3>6. IsFiniteSet(expired)
      BY <3>5, FS_Subset
    <3>7. Cardinality(expired) \in Nat
      BY <3>6, FS_CardinalityType
    <3>8. draws \in Seq(Keys)
      BY <3>2, <3>4, SeqDef
    <3>9. Len(draws) \in Nat
      BY <3>8, LenProperties
    <3>10. {draws[i] : i \in expired} \in SUBSET Keys
      BY <3>2
    <3>11. sweeper' \in SweeperStates /\ sweeper'.now = now
      <4> HIDE DEF expired
      <4> QED BY <2>2, <3>1, <3>7, <3>9, <3>10 DEF IInv, SweeperStates
    <3> QED BY <2>1, <2>2, <3>11, SweeperOK
  <2> QED BY <2>3, <2>4
<1>3. CASE PurgeRemove
  <2> DEFINE gone == StillExpired(sweeper.expired_keys, sweeper.now)
             sizes == [k \in gone |-> size_bytes(k, entries[k])]
  <2>1. gone \in SUBSET Keys /\ \A k \in gone : Present(k)
    BY DEF StillExpired, Expired, IInv, SweeperStates
  <2>2. IsFiniteSet(gone)
    BY <2>1, LenAssumption, FS_Subset
  <2>3. \A k \in gone : size_bytes(k, entries[k]) \in Nat
    BY <2>1, PresentSize
  <2>4. SumOver(sizes) \in Nat
    <3>1. IsTally(sizes)
      BY <2>2, <2>3 DEF IsTally
    <3> QED BY <3>1, SumOverType
  <2>5. entries' \in [Keys -> FullSlots]
    <3>1. entries' = [k \in Keys |-> IF k \in gone THEN Absent ELSE entries[k]]
      BY <1>3 DEF PurgeRemove
    <3> QED BY <3>1, SlotCases DEF IInv
  <2>6. current_memory' \in 0 .. UsizeMod - 1
    <3>1. current_memory' = (current_memory + -SumOver(sizes)) % UsizeMod
      BY <1>3 DEF PurgeRemove, AddMemory
    <3>2. current_memory + -SumOver(sizes) \in Int
      BY <2>4, DbAssumption DEF IInv
    <3> QED BY <3>1, <3>2, ModType
  <2>7. sweeper' \in SweeperStates /\ sweeper'.now = 0
    BY <1>3, AfterStepType DEF PurgeRemove
  <2>8. 0 <= clock
    BY DEF IInv
  <2> QED BY <1>3, <2>5, <2>6, <2>7, <2>8, SweeperOK DEF PurgeRemove, MapOK
<1> QED BY <1>1, <1>2, <1>3 DEF SweeperNext

-----------------------------------------------------------------------------
(* The invariant is inductive *)

\* The start state satisfies the invariant.
LEMMA InitOK == Init => IInv
<1> SUFFICES ASSUME Init PROVE IInv
  OBVIOUS
<1>1. entries \in [Keys -> FullSlots]
  BY SlotCases DEF Init
<1>2. current_memory \in 0 .. UsizeMod - 1
  BY DbAssumption DEF Init
<1>3. Idle \in ThreadStates /\ Idle.pc = "idle" /\ Idle.now = 0
  BY DEF Idle, ThreadStates, Slots
<1>4. Resting \in SweeperStates /\ Resting.now = 0
  BY DEF Resting, SweeperStates
<1> QED BY <1>1, <1>2, <1>3, <1>4 DEF Init, IInv, ThreadOK

\* Every step of every task preserves the invariant.
LEMMA NextOK == IInv /\ [Next]_vars => IInv'
<1> SUFFICES ASSUME IInv, [Next]_vars PROVE IInv'
  OBVIOUS
<1>1. ASSUME NEW k \in Keys, NEW now \in 0 .. clock, WriteCommand(k, now)
      PROVE  IInv'
  BY <1>1, LpushOK, RpushOK, HsetOK, SaddOK, LpopOK, RpopOK, HdelOK, SremOK DEF WriteCommand
<1>2. ASSUME NEW k \in Keys, NEW now \in 0 .. clock, NEW at \in now .. clock,
             ReadCommand(k, now, at)
      PROVE  IInv'
  <2>1. at \in Nat
    BY DEF IInv
  <2>2. ASSUME NEW op, NEW type, NEW given, NEW nil, NEW reply, NEW metrics,
               Read(op, k, now, at, type, given, nil, reply, metrics)
        PROVE  IInv'
    BY <2>1, <2>2, ReadOK
  <2>3. ASSUME NEW op, NEW unit, ttl(op, unit, k, now)
        PROVE  IInv'
    BY <2>3, UntouchedOK, OneLockOK DEF ttl
  <2>4. ASSUME NEW start, NEW stop, lrange(k, start, stop, now, at)
        PROVE  IInv'
    BY <2>2, <2>4 DEF lrange
  <2>5. ASSUME NEW f, hget(k, f, now, at)
        PROVE  IInv'
    BY <2>2, <2>5 DEF hget
  <2>6. ASSUME hgetall(k, now, at)
        PROVE  IInv'
    BY <2>2, <2>6 DEF hgetall
  <2>7. ASSUME smembers(k, now, at)
        PROVE  IInv'
    BY <2>2, <2>7 DEF smembers
  <2>8. ASSUME NEW m, sismember(k, m, now, at)
        PROVE  IInv'
    BY <2>2, <2>8 DEF sismember
  <2> QED BY <1>2, <2>3, <2>4, <2>5, <2>6, <2>7, <2>8 DEF ReadCommand
<1>3. ASSUME NEW k \in Keys, Command(k)
      PROVE  IInv'
  BY <1>1, <1>2, <1>3, ExpireOK DEF Command
<1>4. ASSUME NEW t \in Threads, ThreadNext(t)
      PROVE  IInv'
  BY <1>4, GetReadOK, GetWriteOK, SetCallOK, EnsureCapacityOK, SampleShardOK, EvictOK,
     SetInsertOK, DelOK DEF ThreadNext
<1>5. CASE Tick
  BY <1>5 DEF Tick, IInv, ThreadOK, ThreadStates, SweeperStates
<1>6. CASE UNCHANGED vars
  BY <1>6 DEF vars, IInv, ThreadOK
<1> QED BY <1>3, <1>4, <1>5, <1>6, SweeperNextOK DEF Next

\* Whatever the commands, the interleaving and the limits, the invariant always holds.
THEOREM Invariance == Spec => []IInv
<1> QED BY InitOK, NextOK, PTL DEF Spec

\* The invariant gives the two invariants the runs check.
LEMMA InvariantImplies == IInv => TypeOK /\ NoEmptyCollection
<1> SUFFICES ASSUME IInv PROVE TypeOK /\ NoEmptyCollection
  OBVIOUS
<1>1. TypeOK
  BY SlotCases DEF IInv, TypeOK
<1>2. NoEmptyCollection
  BY PresentSize, SlotCases DEF NoEmptyCollection
<1> QED BY <1>1, <1>2

\* The key space stays well typed: every slot of the shards is absent or a well-formed
\* CacheEntry and current_memory stays a usize, under every interleaving of the tasks.
THEOREM TypeCorrect == Spec => []TypeOK
<1> QED BY Invariance, InvariantImplies, PTL

\* No list, hash or set is ever stored empty: lpop, rpop, hdel and srem remove the key with
\* its last item, and no growing command leaves an empty collection behind.
THEOREM CollectionsNeverEmpty == Spec => []NoEmptyCollection
<1> QED BY Invariance, InvariantImplies, PTL

=============================================================================
