----------------------------- MODULE ScanProofs -----------------------------
(***************************************************************************)
(* glob_match means what Matches says, for every pattern and text, and     *)
(* KEYS and SCAN answer what they should, for every set of keys, every     *)
(* distribution over shards, every count and any number of changes by      *)
(* other clients.                                                          *)
(***************************************************************************)
EXTENDS Scan, FiniteSetTheorems, FunctionTheorems, SequenceTheorems, WellFoundedInduction, TLAPS

-----------------------------------------------------------------------------
(* Loops and recursions *)

\* A set of naturals has a least one: the form of induction used below.
LEMMA LeastOf ==
    ASSUME NEW T \in SUBSET Nat, T # {}
    PROVE  \E m \in T : \A n \in T : m <= n
<1> DEFINE R == OpToRel(<, Nat)
<1>1. IsWellFoundedOn(R, Nat)
  BY NatLessThanWellFounded
<1>2. \A n, m \in Nat : n < m => <<n, m>> \in R
  <2> SUFFICES ASSUME NEW n \in Nat, NEW m \in Nat, n < m
               PROVE  <<n, m>> \in {ss \in Nat \X Nat : ss[1] < ss[2]}
    BY Zenon DEF OpToRel
  <2> QED OBVIOUS
<1> HIDE DEF R
<1>3. PICK m \in T : \A n \in T : ~(<<n, m>> \in R)
  BY <1>1, WFMin
<1>4. ASSUME NEW n \in T
      PROVE  m <= n
  <2>1. ~(n < m)
    BY <1>2, <1>3
  <2> QED BY <2>1
<1> QED BY <1>4

\* The state of a loop is, after each number of turns, where the turns lead.
LEMMA LoopInvariant ==
    ASSUME NEW S, NEW s, NEW F, NEW n \in Nat, NEW J \in [0 .. n -> SUBSET S], s \in J[0],
           \A i \in 1 .. n : \A x \in J[i - 1] : F[x] \in J[i]
    PROVE  After(F, s, n) \in J[n]
<1> DEFINE R(h) == [i \in 0 .. n |-> IF i = 0 THEN s ELSE F[h[i - 1]]]
           after == CHOOSE h : h = R(h)
           Good(m) == \E h \in [0 .. m -> S] : /\ h[0] = s
                                              /\ \A i \in 1 .. m : h[i] = F[h[i - 1]]
                                              /\ h[m] \in J[m]
           T == {m \in 0 .. n : ~Good(m)}
<1>1. After(F, s, n) = after[n]
  BY DEF After
<1>2. Good(0)
  <2> DEFINE h == [i \in 0 .. 0 |-> s]
  <2>1. s \in S
    OBVIOUS
  <2>2. h \in [0 .. 0 -> S] /\ h[0] = s /\ \A i \in 1 .. 0 : h[i] = F[h[i - 1]]
    BY <2>1
  <2> QED BY <2>2
<1>3. ASSUME NEW m \in 1 .. n, Good(m - 1)
      PROVE  Good(m)
  <2>1. PICK h \in [0 .. m - 1 -> S] : /\ h[0] = s
                                       /\ \A i \in 1 .. m - 1 : h[i] = F[h[i - 1]]
                                       /\ h[m - 1] \in J[m - 1]
    BY <1>3
  <2> DEFINE g == [i \in 0 .. m |-> IF i = m THEN F[h[m - 1]] ELSE h[i]]
  <2>2. F[h[m - 1]] \in J[m] /\ F[h[m - 1]] \in S
    BY <2>1
  <2>3. g \in [0 .. m -> S] /\ g[m] \in J[m]
    BY <2>2
  <2>4. g[0] = s
    BY <2>1
  <2>5. ASSUME NEW i \in 1 .. m
        PROVE  g[i] = F[g[i - 1]]
    BY <2>1
  <2> HIDE DEF g
  <2> QED BY <2>3, <2>4, <2>5
<1> HIDE DEF Good
<1>4. T = {}
  <2> SUFFICES ASSUME T # {}
               PROVE  FALSE
    OBVIOUS
  <2>1. T \in SUBSET Nat /\ T \subseteq 0 .. n /\ \A i \in 0 .. n : i \in T <=> ~Good(i)
    OBVIOUS
  <2> HIDE DEF T
  <2>2. PICK m \in T : \A i \in T : m <= i
    BY <2>1, LeastOf
  <2>3. m \in 0 .. n /\ ~Good(m)
    BY <2>1
  <2>4. m \in 1 .. n /\ m - 1 \in 0 .. n /\ ~(m <= m - 1)
    BY <1>2, <2>3
  <2>5. Good(m - 1)
    BY <2>1, <2>2, <2>4
  <2> QED BY <1>3, <2>3, <2>4, <2>5
<1>5. PICK g \in [0 .. n -> S] : g[0] = s /\ \A i \in 1 .. n : g[i] = F[g[i - 1]]
  <2>1. n \in 0 .. n
    OBVIOUS
  <2>2. Good(n)
    BY <1>4, <2>1
  <2> QED BY <2>2 DEF Good
<1>6. g = R(g)
  <2>1. \A i \in 0 .. n : g[i] = IF i = 0 THEN s ELSE F[g[i - 1]]
    <3> SUFFICES ASSUME NEW i \in 0 .. n
                 PROVE  g[i] = IF i = 0 THEN s ELSE F[g[i - 1]]
      OBVIOUS
    <3>1. i = 0 \/ i \in 1 .. n
      OBVIOUS
    <3> QED BY <1>5, <3>1
  <2> QED BY <2>1
<1>7. after = R(after)
  <2> HIDE DEF R
  <2> QED BY <1>6
<1> HIDE DEF after
<1>8. after[0] = s /\ \A i \in 1 .. n : after[i] = F[after[i - 1]]
  BY <1>7
<1> HIDE DEF T
<1> DEFINE U == {i \in 0 .. n : after[i] \notin J[i]}
<1>9. U = {}
  <2> SUFFICES ASSUME U # {}
               PROVE  FALSE
    OBVIOUS
  <2>1. U \in SUBSET Nat /\ \A i \in 0 .. n : i \in U <=> after[i] \notin J[i]
    OBVIOUS
  <2>2. U \subseteq 0 .. n
    OBVIOUS
  <2> HIDE DEF U
  <2>3. PICK m \in U : \A i \in U : m <= i
    BY <2>1, LeastOf
  <2>4. m \in 0 .. n /\ after[m] \notin J[m]
    BY <2>1, <2>2
  <2>5. m \in 1 .. n /\ m - 1 \in 0 .. n /\ ~(m <= m - 1)
    BY <1>8, <2>4
  <2>6. after[m - 1] \in J[m - 1]
    BY <2>1, <2>3, <2>5
  <2>7. F[after[m - 1]] \in J[m]
    BY <2>5, <2>6
  <2> QED BY <1>8, <2>4, <2>5, <2>7
<1>10. n \in 0 .. n
  OBVIOUS
<1> QED BY <1>1, <1>9, <1>10

\* B computes the value at i from those behind i.
Backward(N, V, B) ==
    \A g, h \in [1 .. N -> V], i \in 1 .. N :
       (\A j \in i + 1 .. N : g[j] = h[j]) => B[g][i] = B[h][i]

Computes(N, V, B) == B \in [[1 .. N -> V] -> [1 .. N -> V]]
HasValue(N, V, B) == \E h \in [1 .. N -> V] : h = B[h]

\* A recursion over the positions of a sequence, from its end, has a value.
LEMMA BackwardExists ==
    ASSUME NEW N \in Nat, NEW V, {} \in V, NEW B, Computes(N, V, B), Backward(N, V, B)
    PROVE  HasValue(N, V, B)
<1>0. B \in [[1 .. N -> V] -> [1 .. N -> V]]
  BY DEF Computes
<1> DEFINE Good(m) == \E h \in [1 .. N -> V] : \A i \in N - m + 1 .. N : i >= 1 => h[i] = B[h][i]
           T == {m \in 0 .. N : ~Good(m)}
<1>1. Good(0)
  <2> DEFINE h == [i \in 1 .. N |-> {}]
  <2>1. h \in [1 .. N -> V]
    OBVIOUS
  <2>2. \A i \in N - 0 + 1 .. N : i >= 1 => h[i] = B[h][i]
    OBVIOUS
  <2> QED BY <2>1, <2>2
<1>2. ASSUME NEW m \in 1 .. N, Good(m - 1)
      PROVE  Good(m)
  <2>1. PICK g \in [1 .. N -> V] : \A i \in N - (m - 1) + 1 .. N : i >= 1 => g[i] = B[g][i]
    BY <1>2
  <2> DEFINE h == B[g]
  <2>2. h \in [1 .. N -> V]
    BY <1>0
  <2> HIDE DEF h
  <2>3. ASSUME NEW i \in N - m + 1 .. N, i >= 1
        PROVE  h[i] = B[h][i]
    <3>1. i \in 1 .. N
      BY <2>3
    <3>2. ASSUME NEW j \in i + 1 .. N
          PROVE  g[j] = h[j]
      <4>1. j \in N - (m - 1) + 1 .. N /\ j >= 1
        BY <2>3
      <4> QED BY <2>1, <4>1 DEF h
    <3>3. B[g][i] = B[h][i]
      BY <2>2, <3>1, <3>2 DEF Backward
    <3> QED BY <3>3 DEF h
  <2> QED BY <2>2, <2>3
<1> HIDE DEF Good
<1>3. T = {}
  <2> SUFFICES ASSUME T # {}
               PROVE  FALSE
    OBVIOUS
  <2>1. T \in SUBSET Nat /\ T \subseteq 0 .. N /\ \A n \in 0 .. N : n \in T <=> ~Good(n)
    OBVIOUS
  <2> HIDE DEF T
  <2>2. PICK m \in T : \A n \in T : m <= n
    BY <2>1, LeastOf
  <2>3. m \in 0 .. N /\ ~Good(m)
    BY <2>1
  <2>4. m \in 1 .. N /\ m - 1 \in 0 .. N /\ ~(m <= m - 1)
    BY <1>1, <2>3
  <2>5. Good(m - 1)
    BY <2>1, <2>2, <2>4
  <2> QED BY <1>2, <2>3, <2>4, <2>5
<1>4. Good(N)
  <2>1. N \in 0 .. N
    OBVIOUS
  <2> QED BY <1>3, <2>1
<1>5. PICK h \in [1 .. N -> V] : \A i \in N - N + 1 .. N : i >= 1 => h[i] = B[h][i]
  BY <1>4 DEF Good
<1>6. \A i \in 1 .. N : h[i] = B[h][i]
  <2>1. \A i \in 1 .. N : i \in N - N + 1 .. N /\ i >= 1
    OBVIOUS
  <2> QED BY <1>5, <2>1
<1>7. B[h] \in [1 .. N -> V]
  BY <1>0
<1> HIDE DEF T
<1>8. h = B[h]
  BY <1>6, <1>7
<1> QED BY <1>8 DEF HasValue

\* An induction over the positions of a sequence, from its end.
LEMMA BackwardInduction ==
    ASSUME NEW N \in Nat, NEW G \in SUBSET (1 .. N),
           \A i \in 1 .. N : (\A j \in i + 1 .. N : j \in G) => i \in G
    PROVE  G = 1 .. N
<1> DEFINE T == {m \in 0 .. N : m < N /\ N - m \notin G}
<1>1. T = {}
  <2> SUFFICES ASSUME T # {}
               PROVE  FALSE
    OBVIOUS
  <2>1. /\ T \in SUBSET Nat
        /\ \A n \in T : n < N /\ n \in 0 .. N /\ N - n \notin G
        /\ \A n \in 0 .. N - 1 : n \notin T => N - n \in G
    OBVIOUS
  <2> HIDE DEF T
  <2>2. PICK m \in T : \A n \in T : m <= n
    BY <2>1, LeastOf
  <2>3. N - m \in 1 .. N /\ N - m \notin G /\ m \in Nat
    BY <2>1
  <2>4. ASSUME NEW j \in N - m + 1 .. N
        PROVE  j \in G
    <3>1. N - j \in 0 .. N - 1 /\ ~(m <= N - j) /\ N - (N - j) = j
      BY <2>3
    <3>2. N - j \notin T
      BY <2>2, <3>1
    <3> QED BY <2>1, <3>1, <3>2
  <2> QED BY <2>3, <2>4
<1>2. ASSUME NEW i \in 1 .. N
      PROVE  i \in G
  <2>1. N - i \in 0 .. N /\ N - i < N /\ N - (N - i) = i
    OBVIOUS
  <2> QED BY <1>1, <2>1
<1> QED BY <1>2

-----------------------------------------------------------------------------
(* What a pattern means *)

\* What a class lists from i on, given what it lists from each later position on.
ListedStep(pattern, end, i, h) ==
    IF i = end THEN {}
    ELSE IF i + 2 < end /\ pattern[i + 1] = DASH
         THEN (pattern[i] .. pattern[i + 2]) \cup h[i + 3]
    ELSE {pattern[i]} \cup h[i + 1]

\* Listed does what its recursion says.
LEMMA ListedFacts ==
    ASSUME NEW pattern \in Seq(AllBytes), NEW end \in 1 .. Len(pattern)
    PROVE  \A i \in 1 .. end : Listed(pattern, end)[i] = ListedStep(pattern, end, i, Listed(pattern, end))
<1> DEFINE V == SUBSET AllBytes
           D == [1 .. end -> V]
           R(h) == [i \in 1 .. end |-> ListedStep(pattern, end, i, h)]
           B == [h \in D |-> R(h)]
           from == CHOOSE h : h = R(h)
<1>0. end \in Nat /\ Len(pattern) \in Nat /\ \A i \in 1 .. end : pattern[i] \in AllBytes
  OBVIOUS
<1>1. Listed(pattern, end) = from
  BY DEF Listed, ListedStep
<1>2. ASSUME NEW h \in D, NEW i \in 1 .. end
      PROVE  ListedStep(pattern, end, i, h) \in V
  <2>1. CASE i = end
    BY <2>1 DEF ListedStep
  <2>2. CASE i # end /\ i + 2 < end /\ pattern[i + 1] = DASH
    <3>1. i + 2 \in 1 .. end /\ i + 3 \in 1 .. end
      BY <1>0, <2>2
    <3>2. pattern[i] .. pattern[i + 2] \subseteq AllBytes
      <4>1. pattern[i] \in AllBytes /\ pattern[i + 2] \in AllBytes
        BY <1>0, <3>1
      <4>2. \A a, b \in 0 .. 255 : a .. b \subseteq 0 .. 255
        OBVIOUS
      <4> QED BY <4>1, <4>2 DEF AllBytes
    <3>3. h[i + 3] \subseteq AllBytes
      BY <3>1
    <3> QED BY <2>2, <3>2, <3>3 DEF ListedStep
  <2>3. CASE i # end /\ ~(i + 2 < end /\ pattern[i + 1] = DASH)
    <3>1. i + 1 \in 1 .. end
      BY <1>0, <2>3
    <3>2. h[i + 1] \subseteq AllBytes /\ pattern[i] \in AllBytes
      BY <1>0, <3>1
    <3> QED BY <2>3, <3>2 DEF ListedStep
  <2> QED BY <2>1, <2>2, <2>3
<1>3. Computes(end, V, B)
  BY <1>2 DEF Computes
<1>4. Backward(end, V, B)
  <2> SUFFICES ASSUME NEW g \in D, NEW h \in D, NEW i \in 1 .. end,
                      \A j \in i + 1 .. end : g[j] = h[j]
               PROVE  ListedStep(pattern, end, i, g) = ListedStep(pattern, end, i, h)
    BY DEF Backward
  <2>1. i # end => i + 1 \in i + 1 .. end
    BY <1>0
  <2>2. i + 2 < end => i + 3 \in i + 1 .. end
    BY <1>0
  <2> QED BY <2>1, <2>2 DEF ListedStep
<1>5. {} \in V
  OBVIOUS
<1> HIDE DEF V
<1>6. PICK h \in D : h = B[h]
  <2> HIDE DEF B
  <2>1. HasValue(end, V, B)
    BY <1>0, <1>3, <1>4, <1>5, BackwardExists
  <2> QED BY <2>1 DEF HasValue
<1>7. h = R(h)
  <2> HIDE DEF R
  <2> QED BY <1>6
<1>8. from = R(from)
  <2> HIDE DEF R
  <2> QED BY <1>7
<1> HIDE DEF from
<1>9. \A i \in 1 .. end : from[i] = ListedStep(pattern, end, i, from)
  BY <1>8
<1> QED BY <1>1, <1>9

\* The class at i: where it begins, where it is closed, and what it lists.
Negated(pattern, i) == i < Len(pattern) /\ pattern[i + 1] \in {CARET, BANG}
First(pattern, i) == IF Negated(pattern, i) THEN i + 2 ELSE i + 1
Closes(pattern, first) == {j \in first .. Len(pattern) : pattern[j] = CLOSE}
ListedFrom(pattern, first) ==
    IF Closes(pattern, first) = {} THEN {}
    ELSE Listed(pattern, Min(Closes(pattern, first)))[first]
ClassEnd(pattern, first) ==
    IF Closes(pattern, first) = {} THEN Len(pattern) + 1 ELSE Min(Closes(pattern, first)) + 1

\* The class that begins at first is closed by the first ] behind it.
LEMMA ClosesFacts ==
    ASSUME NEW pattern \in Seq(AllBytes), NEW first \in 1 .. Len(pattern) + 1,
           Closes(pattern, first) # {}
    PROVE  LET end == Min(Closes(pattern, first))
           IN  /\ end \in first .. Len(pattern)
               /\ pattern[end] = CLOSE
               /\ \A j \in first .. end - 1 : pattern[j] # CLOSE
<1> DEFINE C == Closes(pattern, first)
           end == Min(C)
<1>1. C \in SUBSET Nat /\ C # {} /\ C \in SUBSET Int
  BY DEF Closes
<1>2. PICK m \in C : \A n \in C : m <= n
  <2> HIDE DEF C
  <2> QED BY <1>1, LeastOf
<1>3. end \in C /\ \A n \in C : end <= n
  <2> HIDE DEF C
  <2> QED BY <1>2 DEF Min
<1>4. end \in first .. Len(pattern) /\ pattern[end] = CLOSE
  BY <1>3 DEF Closes
<1>5. ASSUME NEW j \in first .. end - 1, pattern[j] = CLOSE
      PROVE  FALSE
  <2> HIDE DEF end
  <2>1. j \in C /\ ~(end <= j)
    BY <1>4, <1>5 DEF Closes
  <2> QED BY <1>3, <2>1
<1> QED BY <1>4, <1>5

\* The item at i ends behind i.
LEMMA ItemNext ==
    ASSUME NEW pattern \in Seq(AllBytes), NEW i \in 1 .. Len(pattern)
    PROVE  Item(pattern, i).next \in i + 1 .. Len(pattern) + 1
<1>0. Len(pattern) \in Nat
  OBVIOUS
<1>1. CASE pattern[i] = OPEN
  <2>1. Item(pattern, i) = ClassItem(pattern, i)
    BY <1>1 DEF Item, OPEN, ONE, ESCAPE
  <2>2. ClassItem(pattern, i).next = ClassEnd(pattern, First(pattern, i))
    BY DEF ClassItem, ClassEnd, Closes, First, Negated
  <2>3. First(pattern, i) \in i + 1 .. Len(pattern) + 1
    BY <1>0 DEF First, Negated
  <2> DEFINE first == First(pattern, i)
  <2> HIDE DEF first
  <2>4. ClassEnd(pattern, first) \in i + 1 .. Len(pattern) + 1
    <3>1. CASE Closes(pattern, first) = {}
      BY <1>0, <3>1 DEF ClassEnd
    <3>2. CASE Closes(pattern, first) # {}
      <4>1. Min(Closes(pattern, first)) \in first .. Len(pattern)
        BY <2>3, <3>2, ClosesFacts DEF first
      <4> QED BY <1>0, <2>3, <3>2, <4>1 DEF ClassEnd, first
    <3> QED BY <3>1, <3>2
  <2> QED BY <2>1, <2>2, <2>4 DEF first
<1>2. CASE pattern[i] # OPEN
  BY <1>0, <1>2 DEF Item, OPEN, ONE, ESCAPE
<1> QED BY <1>1, <1>2

\* Where the pattern from i on matches, given where it matches from each later position on.
MatchedStep(pattern, text, i, h) ==
    IF i > Len(pattern) THEN {Len(text) + 1}
    ELSE IF pattern[i] = ANY
         THEN {t \in 1 .. Len(text) + 1 : \E u \in h[i + 1] : t <= u}
    ELSE {t \in 1 .. Len(text) : /\ text[t] \in Item(pattern, i).bytes
                                 /\ t + 1 \in h[Item(pattern, i).next]}

\* MatchedFrom does what its recursion says.
LEMMA MatchedFacts ==
    ASSUME NEW pattern \in Seq(AllBytes), NEW text \in Seq(AllBytes)
    PROVE  /\ MatchedFrom(pattern, text) \in [1 .. Len(pattern) + 1 -> SUBSET (1 .. Len(text) + 1)]
           /\ \A i \in 1 .. Len(pattern) + 1 :
                MatchedFrom(pattern, text)[i]
                  = MatchedStep(pattern, text, i, MatchedFrom(pattern, text))
<1> DEFINE P == Len(pattern)
           N == P + 1
           V == SUBSET (1 .. Len(text) + 1)
           D == [1 .. N -> V]
           R(h) == [i \in 1 .. N |-> MatchedStep(pattern, text, i, h)]
           B == [h \in D |-> R(h)]
           from == CHOOSE h : h = R(h)
<1>0. P \in Nat /\ N \in Nat /\ Len(text) \in Nat
  OBVIOUS
<1>1. MatchedFrom(pattern, text) = from
  BY DEF MatchedFrom, MatchedStep
<1>2. ASSUME NEW h, NEW i \in 1 .. N
      PROVE  MatchedStep(pattern, text, i, h) \in V
  BY <1>0 DEF MatchedStep
<1>3. Computes(N, V, B)
  BY <1>2 DEF Computes
<1>4. Backward(N, V, B)
  <2> HIDE DEF N, V, P
  <2>0. \A h \in D, i \in 1 .. N : B[h][i] = MatchedStep(pattern, text, i, h)
    OBVIOUS
  <2> HIDE DEF B
  <2>1. ASSUME NEW g \in D, NEW h \in D, NEW i \in 1 .. N, \A j \in i + 1 .. N : g[j] = h[j]
        PROVE  B[g][i] = B[h][i]
    <3>1. /\ B[g][i] = MatchedStep(pattern, text, i, g)
          /\ B[h][i] = MatchedStep(pattern, text, i, h)
      BY <2>0
    <3>2. CASE i > P
      BY <3>1, <3>2 DEF MatchedStep, P
    <3>3. CASE ~(i > P)
      <4>1. i \in 1 .. P /\ i + 1 \in i + 1 .. N
        BY <1>0, <3>3 DEF N
      <4>2. Item(pattern, i).next \in i + 1 .. N
        BY <4>1, ItemNext DEF N, P
      <4>3. g[i + 1] = h[i + 1] /\ g[Item(pattern, i).next] = h[Item(pattern, i).next]
        BY <2>1, <4>1, <4>2
      <4>4. MatchedStep(pattern, text, i, g) = MatchedStep(pattern, text, i, h)
        BY <4>3 DEF MatchedStep
      <4> QED BY <3>1, <4>4
    <3> QED BY <3>2, <3>3
  <2> QED BY <2>1 DEF Backward
<1>5. {} \in V
  OBVIOUS
<1> HIDE DEF V, N
<1>6. PICK h \in D : h = B[h]
  <2> HIDE DEF B
  <2>1. HasValue(N, V, B)
    BY <1>0, <1>3, <1>4, <1>5, BackwardExists
  <2> QED BY <2>1 DEF HasValue
<1>7. h = R(h)
  <2> HIDE DEF R
  <2> QED BY <1>6
<1>8. from = R(from)
  <2> HIDE DEF R
  <2> QED BY <1>7
<1> HIDE DEF from
<1>9. \A i \in 1 .. N : from[i] = MatchedStep(pattern, text, i, from)
  BY <1>8
<1>10. from \in D
  <2>1. R(from) \in D
    BY <1>2
  <2> QED BY <1>8, <2>1
<1> QED BY <1>1, <1>9, <1>10 DEF N, V

-----------------------------------------------------------------------------
(* Classes *)

\* In the loop over a class that begins at first: no ] yet, and what is matched so far or
\* listed from here on is what the class lists.
ClassOpen(pattern, first, b, c) ==
    /\ c.closed = FALSE
    /\ c.p >= first - 1
    /\ \A j \in first .. c.p : pattern[j] # CLOSE
    /\ Closes(pattern, first) # {} =>
         (b \in ListedFrom(pattern, first)
            <=> c.matched = TRUE \/ b \in Listed(pattern, Min(Closes(pattern, first)))[c.p + 1])

ClassClosed(pattern, first, b, c) ==
    /\ c.closed = TRUE
    /\ Closes(pattern, first) # {}
    /\ c.p = Min(Closes(pattern, first))
    /\ b \in ListedFrom(pattern, first) <=> c.matched = TRUE

ClassInv(pattern, first, b, c) ==
    ClassOpen(pattern, first, b, c) \/ ClassClosed(pattern, first, b, c)

\* A turn of the loop over a class goes on behind an item, or ends it.
LEMMA ClassTurns ==
    ASSUME NEW pattern \in Seq(AllBytes), NEW first \in 1 .. Len(pattern) + 1, NEW b \in AllBytes,
           NEW c \in ClassStates(pattern), ClassOpen(pattern, first, b, c), c.p # Len(pattern)
    PROVE  LET d == ClassTurn(pattern, b)[c]
           IN  /\ d \in ClassStates(pattern)
               /\ d.p > c.p
               /\ ClassInv(pattern, first, b, d)
<1> DEFINE P == Len(pattern)
           C == Closes(pattern, first)
           end == Min(C)
           d == ClassTurn(pattern, b)[c]
           p == c.p
           listed == Listed(pattern, end)
<1>0. /\ P \in Nat /\ p \in Nat /\ p < P /\ p >= first - 1 /\ c.closed = FALSE
      /\ c.matched \in BOOLEAN /\ p + 1 \in first .. P
      /\ \A j \in first .. p : pattern[j] # CLOSE
      /\ first \in Nat /\ first >= 1
  <2>1. P \in Nat /\ c.p \in 0 .. P /\ c.matched \in BOOLEAN
    BY DEF ClassStates
  <2>2. c.closed = FALSE /\ p >= first - 1 /\ \A j \in first .. p : pattern[j] # CLOSE
    BY DEF ClassOpen
  <2> QED BY <2>1, <2>2
<1>1. /\ c = [p |-> p, matched |-> c.matched, closed |-> FALSE]
  BY <1>0 DEF ClassStates
<1>2. ASSUME C # {}
      PROVE  /\ end \in p + 1 .. P
             /\ pattern[end] = CLOSE
             /\ \A j \in first .. end - 1 : pattern[j] # CLOSE
             /\ \A i \in 1 .. end : listed[i] = ListedStep(pattern, end, i, listed)
             /\ ListedFrom(pattern, first) = listed[first]
             /\ b \in listed[first] <=> c.matched = TRUE \/ b \in listed[p + 1]
  <2>1. /\ end \in first .. P
        /\ pattern[end] = CLOSE
        /\ \A j \in first .. end - 1 : pattern[j] # CLOSE
    BY <1>2, ClosesFacts
  <2>2. end \in p + 1 .. P
    <3> HIDE DEF end
    <3>1. ~(end \in first .. p)
      BY <1>0, <2>1
    <3> QED BY <1>0, <2>1, <3>1
  <2>3. end \in 1 .. P
    BY <1>0, <2>2
  <2>4. \A i \in 1 .. end : listed[i] = ListedStep(pattern, end, i, listed)
    <3> HIDE DEF end
    <3> QED BY <2>3, ListedFacts
  <2>5. ListedFrom(pattern, first) = listed[first]
    BY <1>2 DEF ListedFrom
  <2> QED BY <1>2, <2>1, <2>2, <2>4, <2>5 DEF ClassOpen
<1>3. CASE pattern[p + 1] = CLOSE
  <2>1. d = [p |-> p + 1, matched |-> c.matched, closed |-> TRUE]
    BY <1>0, <1>1, <1>3 DEF ClassTurn
  <2>2. d \in ClassStates(pattern) /\ d.p > c.p
    BY <1>0, <2>1 DEF ClassStates
  <2>3. C # {}
    BY <1>0, <1>3 DEF Closes
  <2>4. end = p + 1
    <3> HIDE DEF end, C, p, P, listed, d
    <3>1. ~(p + 1 \in first .. end - 1)
      BY <1>2, <1>3, <2>3
    <3>2. end \in p + 1 .. P
      BY <1>2, <2>3
    <3> QED BY <1>0, <3>1, <3>2
  <2>5. listed[p + 1] = {}
    <3> HIDE DEF end, C, listed
    <3>1. p + 1 \in 1 .. end
      BY <1>0, <2>4
    <3> QED BY <1>2, <2>3, <2>4, <3>1 DEF ListedStep
  <2>6. ClassClosed(pattern, first, b, d)
    <3>1. d.closed = TRUE /\ d.matched = c.matched /\ d.p = end
      BY <2>1, <2>4
    <3>2. b \in ListedFrom(pattern, first) <=> c.matched = TRUE
      <4> HIDE DEF end, C, listed, p
      <4> QED BY <1>2, <2>3, <2>5
    <3> HIDE DEF d
    <3> QED BY <2>3, <3>1, <3>2 DEF ClassClosed
  <2> QED BY <2>2, <2>6 DEF ClassInv
<1>4. CASE pattern[p + 1] # CLOSE /\ p + 2 < P /\ pattern[p + 2] = DASH /\ pattern[p + 3] # CLOSE
  <2> DEFINE range == pattern[p + 1] .. pattern[p + 3]
             m == c.matched \/ b \in range
  <2>1. d = [p |-> p + 3, matched |-> m, closed |-> FALSE]
    BY <1>0, <1>1, <1>4 DEF ClassTurn
  <2>2. d \in ClassStates(pattern) /\ d.p > c.p
    BY <1>0, <1>4, <2>1 DEF ClassStates
  <2>3. \A j \in first .. p + 3 : pattern[j] # CLOSE
    <3> SUFFICES ASSUME NEW j \in first .. p + 3
                 PROVE  pattern[j] # CLOSE
      OBVIOUS
    <3> HIDE DEF p, P, d
    <3>1. j \in first .. p \/ j = p + 1 \/ j = p + 2 \/ j = p + 3
      BY <1>0
    <3>2. pattern[p + 2] # CLOSE
      BY <1>4 DEF DASH, CLOSE
    <3> QED BY <1>0, <1>4, <3>1, <3>2
  <2>4. ASSUME C # {}
        PROVE  listed[p + 1] = range \cup listed[p + 4]
    <3> HIDE DEF end, C, listed, p, P, d
    <3>1. end \notin first .. p + 3 /\ end \in p + 1 .. P
      BY <1>2, <2>3, <2>4
    <3>2. p + 1 \in 1 .. end /\ p + 1 # end /\ (p + 1) + 2 < end
      BY <1>0, <3>1
    <3>3. (p + 1) + 1 = p + 2 /\ (p + 1) + 2 = p + 3 /\ (p + 1) + 3 = p + 4
      BY <1>0
    <3>4. listed[p + 1] = ListedStep(pattern, end, p + 1, listed)
      BY <1>2, <2>4, <3>2
    <3> QED BY <1>4, <3>2, <3>3, <3>4 DEF ListedStep
  <2>5. m = TRUE <=> c.matched = TRUE \/ b \in range
    BY <1>0
  <2>6. d.p + 1 = p + 4 /\ d.p >= first - 1 /\ d.matched = m /\ d.closed = FALSE
    BY <1>0, <2>1
  <2>7. ASSUME C # {}
        PROVE  b \in ListedFrom(pattern, first) <=> d.matched = TRUE \/ b \in listed[d.p + 1]
    <3> HIDE DEF end, C, listed, range, m, d
    <3> QED BY <1>2, <2>4, <2>5, <2>6, <2>7
  <2>8. ClassOpen(pattern, first, b, d)
    <3>1. d.p = p + 3
      BY <2>1
    <3> HIDE DEF d
    <3> QED BY <2>3, <2>6, <2>7, <3>1 DEF ClassOpen
  <2> QED BY <2>2, <2>8 DEF ClassInv
<1>5. CASE pattern[p + 1] # CLOSE /\ ~(p + 2 < P /\ pattern[p + 2] = DASH /\ pattern[p + 3] # CLOSE)
  <2> DEFINE m == c.matched \/ pattern[p + 1] = b
  <2>1. d = [p |-> p + 1, matched |-> m, closed |-> FALSE]
    BY <1>0, <1>1, <1>5 DEF ClassTurn
  <2>2. d \in ClassStates(pattern) /\ d.p > c.p
    BY <1>0, <1>5, <2>1 DEF ClassStates
  <2>3. \A j \in first .. p + 1 : pattern[j] # CLOSE
    <3> SUFFICES ASSUME NEW j \in first .. p + 1
                 PROVE  pattern[j] # CLOSE
      OBVIOUS
    <3>1. j \in first .. p \/ j = p + 1
      BY <1>0
    <3> QED BY <1>0, <1>5, <3>1
  <2>4. ASSUME C # {}
        PROVE  listed[p + 1] = {pattern[p + 1]} \cup listed[p + 2]
    <3> HIDE DEF end, C, listed, p, P, d
    <3>1. end \notin first .. p + 1 /\ end \in p + 1 .. P
      BY <1>2, <2>3, <2>4
    <3>2. p + 1 \in 1 .. end /\ p + 1 # end
      BY <1>0, <3>1
    <3>3. (p + 1) + 1 = p + 2 /\ (p + 1) + 2 = p + 3
      BY <1>0
    <3>4. listed[p + 1] = ListedStep(pattern, end, p + 1, listed)
      BY <1>2, <2>4, <3>2
    <3>5. ~(p + 3 < end /\ pattern[p + 2] = DASH)
      <4> SUFFICES ASSUME p + 3 < end, pattern[p + 2] = DASH
                   PROVE  FALSE
        OBVIOUS
      <4>1. p + 2 < P /\ p + 3 \in first .. end - 1
        BY <1>0, <3>1
      <4> QED BY <1>2, <1>5, <2>4, <4>1
    <3> QED BY <3>2, <3>3, <3>4, <3>5 DEF ListedStep
  <2>5. m = TRUE <=> c.matched = TRUE \/ pattern[p + 1] = b
    BY <1>0
  <2>6. d.p + 1 = p + 2 /\ d.p >= first - 1 /\ d.matched = m /\ d.closed = FALSE
    BY <1>0, <2>1
  <2>7. ASSUME C # {}
        PROVE  b \in ListedFrom(pattern, first) <=> d.matched = TRUE \/ b \in listed[d.p + 1]
    <3> HIDE DEF end, C, listed, m, d
    <3> QED BY <1>2, <2>4, <2>5, <2>6, <2>7
  <2>8. ClassOpen(pattern, first, b, d)
    <3>1. d.p = p + 1
      BY <2>1
    <3> HIDE DEF d
    <3> QED BY <2>3, <2>6, <2>7, <3>1 DEF ClassOpen
  <2> QED BY <2>2, <2>8 DEF ClassInv
<1> QED BY <1>3, <1>4, <1>5

\* The loop over a class ends at its end, and accepts the bytes of the class.
LEMMA ClassFacts ==
    ASSUME NEW pattern \in Seq(AllBytes), NEW i \in 1 .. Len(pattern), NEW b \in AllBytes
    PROVE  /\ Class(pattern, i, b).p = ClassItem(pattern, i).next - 1
           /\ Class(pattern, i, b).accepts <=> b \in ClassItem(pattern, i).bytes
<1> DEFINE P == Len(pattern)
           negate == Negated(pattern, i)
           first == First(pattern, i)
           begin == [p |-> IF negate THEN i + 1 ELSE i, matched |-> FALSE, closed |-> FALSE]
           F == ClassTurn(pattern, b)
           end == After(F, begin, P)
           Over(c) == c.closed = TRUE \/ c.p = P
           J == [n \in 0 .. P |-> {c \in ClassStates(pattern) :
                                     /\ ClassInv(pattern, first, b, c)
                                     /\ Over(c) \/ c.p >= n}]
<1>0. P \in Nat /\ first \in 1 .. P + 1 /\ i \in Nat
  BY DEF First, Negated
<1>1. /\ Class(pattern, i, b).p = end.p
      /\ Class(pattern, i, b).accepts = ((end.closed /\ end.matched) # negate)
  BY DEF Class, Negated
<1>2. /\ ClassItem(pattern, i).next = ClassEnd(pattern, first)
      /\ ClassItem(pattern, i).bytes = IF negate THEN AllBytes \ ListedFrom(pattern, first)
                                       ELSE ListedFrom(pattern, first)
  BY DEF ClassItem, ClassEnd, ListedFrom, Closes, First, Negated
<1>3. begin \in ClassStates(pattern) /\ begin.p = first - 1 /\ begin.p >= 0
  BY DEF ClassStates, First, Negated
<1>4. negate \in BOOLEAN
  BY DEF Negated
<1>5. ClassInv(pattern, first, b, begin)
  <2>1. begin.p + 1 = first /\ begin.matched = FALSE /\ begin.closed = FALSE
    BY <1>0, <1>3
  <2>2. \A j \in first .. begin.p : FALSE
    BY <1>0, <1>3
  <2> HIDE DEF begin, first
  <2>3. ClassOpen(pattern, first, b, begin)
    BY <1>3, <2>1, <2>2, <1>0 DEF ClassOpen, ListedFrom
  <2> QED BY <2>3 DEF ClassInv
<1> HIDE DEF first, begin, negate
<1>6. ASSUME NEW c \in ClassStates(pattern), ClassInv(pattern, first, b, c)
      PROVE  /\ F[c] \in ClassStates(pattern)
             /\ ClassInv(pattern, first, b, F[c])
             /\ Over(c) => F[c] = c
             /\ ~Over(c) => F[c].p > c.p
  <2>1. CASE Over(c)
    <3>1. F[c] = c
      BY <2>1 DEF ClassTurn
    <3> QED BY <1>6, <2>1, <3>1
  <2>2. CASE ~Over(c)
    <3>1. ClassOpen(pattern, first, b, c)
      BY <1>6, <2>2 DEF ClassInv, ClassClosed
    <3> QED BY <1>0, <2>2, <3>1, ClassTurns
  <2> QED BY <2>1, <2>2
<1>7. J \in [0 .. P -> SUBSET ClassStates(pattern)]
  OBVIOUS
<1>8. begin \in J[0]
  BY <1>0, <1>3, <1>5
<1>9. ASSUME NEW n \in 1 .. P, NEW c \in J[n - 1]
       PROVE  F[c] \in J[n]
  <2>1. c \in ClassStates(pattern) /\ ClassInv(pattern, first, b, c) /\ (Over(c) \/ c.p >= n - 1)
    BY <1>0
  <2> DEFINE d == F[c]
  <2>2. d \in ClassStates(pattern) /\ ClassInv(pattern, first, b, d)
    BY <1>6, <2>1
  <2>3. (Over(c) => d = c) /\ (~Over(c) => d.p > c.p)
    BY <1>6, <2>1
  <2>4. \A e \in ClassStates(pattern) : e.p \in Nat
    BY DEF ClassStates
  <2> HIDE DEF d
  <2>5. Over(d) \/ d.p >= n
    <3>1. c.p \in Nat /\ d.p \in Nat
      BY <2>1, <2>2, <2>4
    <3> HIDE DEF Over
    <3> QED BY <1>0, <2>1, <2>3, <3>1
  <2> HIDE DEF Over
  <2>6. d \in J[n]
    BY <2>2, <2>5
  <2> QED BY <2>6 DEF d
<1>10. end \in J[P]
  <2> HIDE DEF F, J
  <2> QED BY <1>0, <1>7, <1>8, <1>9, LoopInvariant
<1>11. /\ end \in ClassStates(pattern) /\ ClassInv(pattern, first, b, end)
       /\ Over(end) \/ end.p >= P
  BY <1>0, <1>10
<1> HIDE DEF end, J, F
<1>12. end.p \in 0 .. P /\ end.matched \in BOOLEAN /\ end.closed \in BOOLEAN
  BY <1>11 DEF ClassStates
<1>13. CASE end.closed = TRUE
  <2>1. ClassClosed(pattern, first, b, end)
    BY <1>11, <1>13 DEF ClassInv, ClassOpen
  <2>2. end.p = ClassEnd(pattern, first) - 1
    <3> DEFINE m == Min(Closes(pattern, first))
    <3>1. Closes(pattern, first) # {} /\ m = end.p /\ ClassEnd(pattern, first) = m + 1
      BY <2>1 DEF ClassClosed, ClassEnd
    <3> HIDE DEF m
    <3> QED BY <1>12, <3>1
  <2>3. b \in ListedFrom(pattern, first) <=> end.matched = TRUE
    BY <2>1 DEF ClassClosed
  <2>4. ((end.closed /\ end.matched) # negate) <=> b \in ClassItem(pattern, i).bytes
    <3>1. CASE negate
      <4>1. ((end.closed /\ end.matched) # negate) <=> ~end.matched
        BY <1>4, <1>12, <1>13, <3>1
      <4>2. ClassItem(pattern, i).bytes = AllBytes \ ListedFrom(pattern, first)
        BY <1>2, <3>1
      <4> QED BY <1>12, <2>3, <4>1, <4>2
    <3>2. CASE ~negate
      <4>1. ((end.closed /\ end.matched) # negate) <=> end.matched
        BY <1>4, <1>12, <1>13, <3>2
      <4>2. ClassItem(pattern, i).bytes = ListedFrom(pattern, first)
        BY <1>2, <3>2
      <4> QED BY <1>12, <2>3, <4>1, <4>2
    <3> QED BY <3>1, <3>2
  <2> QED BY <1>1, <1>2, <2>2, <2>4
<1>14. CASE end.closed = FALSE
  <2>1. ClassOpen(pattern, first, b, end) /\ end.p = P
    BY <1>0, <1>11, <1>12, <1>14 DEF ClassInv, ClassClosed
  <2>2. Closes(pattern, first) = {}
    BY <2>1 DEF ClassOpen, Closes
  <2>3. end.p = ClassEnd(pattern, first) - 1 /\ ListedFrom(pattern, first) = {}
    BY <1>0, <2>1, <2>2 DEF ClassEnd, ListedFrom
  <2>4. ((end.closed /\ end.matched) # negate) <=> b \in ClassItem(pattern, i).bytes
    <3>1. CASE negate
      <4>1. (end.closed /\ end.matched) # negate
        BY <1>4, <1>12, <1>14, <3>1
      <4>2. ClassItem(pattern, i).bytes = AllBytes
        BY <1>2, <2>3, <3>1
      <4> QED BY <4>1, <4>2
    <3>2. CASE ~negate
      <4>1. ~((end.closed /\ end.matched) # negate)
        BY <1>4, <1>12, <1>14, <3>2
      <4>2. ClassItem(pattern, i).bytes = {}
        BY <1>2, <2>3, <3>2
      <4> QED BY <4>1, <4>2
    <3> QED BY <3>1, <3>2
  <2> QED BY <1>1, <1>2, <2>3, <2>4
<1> QED BY <1>12, <1>13, <1>14

\* An item is matched by its bytes, and the next one begins where it ends.
LEMMA MatchItemFacts ==
    ASSUME NEW pattern \in Seq(AllBytes), NEW p \in 0 .. Len(pattern), NEW b \in AllBytes
    PROVE  /\ p = Len(pattern) => MatchItem(pattern, p, b) = NoMatch
           /\ p < Len(pattern) /\ pattern[p + 1] # ANY =>
                MatchItem(pattern, p, b) = IF b \in Item(pattern, p + 1).bytes
                                           THEN Item(pattern, p + 1).next - 1 ELSE NoMatch
<1>0. Len(pattern) \in Nat /\ p \in Nat
  OBVIOUS
<1>1. CASE p = Len(pattern)
  BY <1>0, <1>1 DEF MatchItem
<1>2. ASSUME p < Len(pattern), pattern[p + 1] # ANY
      PROVE  MatchItem(pattern, p, b) = IF b \in Item(pattern, p + 1).bytes
                                        THEN Item(pattern, p + 1).next - 1 ELSE NoMatch
  <2> DEFINE i == p + 1
             x == pattern[i]
  <2>0. i \in 1 .. Len(pattern) /\ i \in Nat /\ i - 1 = p /\ p # Len(pattern) /\ p < Len(pattern)
    BY <1>0, <1>2
  <2>1. CASE x = ONE
    <3>1. MatchItem(pattern, p, b) = i
      BY <1>0, <2>0, <2>1 DEF MatchItem, ONE, OPEN, ESCAPE
    <3>2. Item(pattern, i) = [bytes |-> AllBytes, next |-> i + 1]
      BY <2>1 DEF Item, ONE, OPEN, ESCAPE
    <3> QED BY <2>0, <3>1, <3>2
  <2>2. CASE x = OPEN
    <3>1. MatchItem(pattern, p, b)
            = IF Class(pattern, i, b).accepts THEN Class(pattern, i, b).p ELSE NoMatch
      BY <1>0, <2>0, <2>2 DEF MatchItem, ONE, OPEN, ESCAPE
    <3>2. Item(pattern, i) = ClassItem(pattern, i)
      BY <2>2 DEF Item, ONE, OPEN, ESCAPE
    <3>3. /\ Class(pattern, i, b).p = ClassItem(pattern, i).next - 1
          /\ Class(pattern, i, b).accepts <=> b \in ClassItem(pattern, i).bytes
      BY <2>0, ClassFacts
    <3> QED BY <3>1, <3>2, <3>3
  <2>3. CASE x = ESCAPE
    <3>1. MatchItem(pattern, p, b)
            = IF i < Len(pattern) /\ pattern[p + 2] = b THEN p + 2 ELSE NoMatch
      BY <1>0, <2>0, <2>3 DEF MatchItem, ONE, OPEN, ESCAPE
    <3>2. Item(pattern, i) = IF i = Len(pattern) THEN [bytes |-> {}, next |-> i + 1]
                             ELSE [bytes |-> {pattern[i + 1]}, next |-> i + 2]
      BY <2>3 DEF Item, ONE, OPEN, ESCAPE
    <3>3. i + 1 = p + 2 /\ (i + 2) - 1 = p + 2
      BY <1>0
    <3>4. CASE i = Len(pattern)
      BY <1>0, <3>1, <3>2, <3>4
    <3>5. CASE i # Len(pattern)
      <4>1. i < Len(pattern)
        BY <1>0, <2>0, <3>5
      <4> QED BY <3>1, <3>2, <3>3, <3>5, <4>1
    <3> QED BY <3>4, <3>5
  <2>4. CASE x \notin {ONE, OPEN, ESCAPE}
    <3>1. MatchItem(pattern, p, b) = IF x = b THEN i ELSE NoMatch
      BY <1>0, <2>0, <2>4 DEF MatchItem
    <3>2. Item(pattern, i) = [bytes |-> {x}, next |-> i + 1]
      BY <2>4 DEF Item
    <3> QED BY <2>0, <3>1, <3>2
  <2> QED BY <2>1, <2>2, <2>3, <2>4
<1> QED BY <1>0, <1>1, <1>2

-----------------------------------------------------------------------------
(* One pass with one point of return *)

\* The cases of MatchedFrom.
LEMMA MatchedCases ==
    ASSUME NEW pattern \in Seq(AllBytes), NEW text \in Seq(AllBytes)
    PROVE  LET M == MatchedFrom(pattern, text)
           IN  /\ \A i \in 1 .. Len(pattern) + 1 : M[i] \subseteq 1 .. Len(text) + 1
               /\ M[Len(pattern) + 1] = {Len(text) + 1}
               /\ \A i \in 1 .. Len(pattern) : pattern[i] = ANY =>
                    \A x \in 1 .. Len(text) + 1 : x \in M[i] <=> \E u \in M[i + 1] : x <= u
               /\ \A i \in 1 .. Len(pattern) : pattern[i] # ANY =>
                    \A x \in 1 .. Len(text) + 1 :
                       x \in M[i] <=> /\ x <= Len(text)
                                      /\ text[x] \in Item(pattern, i).bytes
                                      /\ x + 1 \in M[Item(pattern, i).next]
<1> DEFINE P == Len(pattern)
           T == Len(text)
           M == MatchedFrom(pattern, text)
<1>0. P \in Nat /\ T \in Nat
  OBVIOUS
<1>1. /\ M \in [1 .. P + 1 -> SUBSET (1 .. T + 1)]
      /\ \A i \in 1 .. P + 1 : M[i] = MatchedStep(pattern, text, i, M)
  BY MatchedFacts
<1> HIDE DEF M
<1>2. \A i \in 1 .. P + 1 : M[i] \subseteq 1 .. T + 1
  BY <1>1
<1>3. M[P + 1] = {T + 1}
  <2>1. P + 1 \in 1 .. P + 1 /\ P + 1 > P
    BY <1>0
  <2> QED BY <1>1, <2>1 DEF MatchedStep
<1>4. ASSUME NEW i \in 1 .. P, pattern[i] = ANY, NEW x \in 1 .. T + 1
      PROVE  x \in M[i] <=> \E u \in M[i + 1] : x <= u
  <2>1. i \in 1 .. P + 1 /\ ~(i > P)
    BY <1>0
  <2>2. M[i] = {t \in 1 .. T + 1 : \E u \in M[i + 1] : t <= u}
    BY <1>1, <1>4, <2>1 DEF MatchedStep
  <2> QED BY <2>2
<1>5. ASSUME NEW i \in 1 .. P, pattern[i] # ANY, NEW x \in 1 .. T + 1
      PROVE  x \in M[i] <=> /\ x <= T
                            /\ text[x] \in Item(pattern, i).bytes
                            /\ x + 1 \in M[Item(pattern, i).next]
  <2>1. i \in 1 .. P + 1 /\ ~(i > P)
    BY <1>0
  <2>2. M[i] = {t \in 1 .. T : /\ text[t] \in Item(pattern, i).bytes
                               /\ t + 1 \in M[Item(pattern, i).next]}
    BY <1>1, <1>5, <2>1 DEF MatchedStep
  <2>3. x \in 1 .. T <=> x <= T
    BY <1>0
  <2> QED BY <2>2, <2>3
<1> QED BY <1>2, <1>3, <1>4, <1>5 DEF M

\* At the end of the text a pattern matches with stars only.
LEMMA MatchedAtEnd ==
    ASSUME NEW pattern \in Seq(AllBytes), NEW text \in Seq(AllBytes), NEW i \in 1 .. Len(pattern) + 1
    PROVE  Len(text) + 1 \in MatchedFrom(pattern, text)[i]
             <=> \A j \in i .. Len(pattern) : pattern[j] = ANY
<1> DEFINE P == Len(pattern)
           T == Len(text)
           N == P + 1
           M == MatchedFrom(pattern, text)
           Stars(n) == \A j \in n .. P : pattern[j] = ANY
           G == {n \in 1 .. N : T + 1 \in M[n] <=> Stars(n)}
<1>0. P \in Nat /\ T \in Nat /\ N \in Nat /\ T + 1 \in 1 .. T + 1
  OBVIOUS
<1>1. /\ \A n \in 1 .. N : M[n] \subseteq 1 .. T + 1
      /\ M[N] = {T + 1}
      /\ \A n \in 1 .. P : pattern[n] = ANY =>
           \A x \in 1 .. T + 1 : x \in M[n] <=> \E u \in M[n + 1] : x <= u
      /\ \A n \in 1 .. P : pattern[n] # ANY =>
           \A x \in 1 .. T + 1 :
              x \in M[n] <=> /\ x <= T
                             /\ text[x] \in Item(pattern, n).bytes
                             /\ x + 1 \in M[Item(pattern, n).next]
  BY MatchedCases
<1> HIDE DEF M
<1>2. ASSUME NEW n \in 1 .. N, \A m \in n + 1 .. N : m \in G
      PROVE  n \in G
  <2>1. CASE n = N
    <3>1. Stars(n)
      BY <1>0, <2>1
    <3>2. T + 1 \in M[n]
      BY <1>1, <2>1
    <3> HIDE DEF Stars
    <3> QED BY <3>1, <3>2
  <2>2. CASE n # N /\ pattern[n] = ANY
    <3>1. n \in 1 .. P /\ n + 1 \in n + 1 .. N /\ n + 1 \in 1 .. N
      BY <1>0, <2>2
    <3>2. Stars(n) <=> Stars(n + 1)
      <4>1. \A j \in n .. P : j = n \/ j \in n + 1 .. P
        BY <3>1
      <4>2. \A j \in n + 1 .. P : j \in n .. P
        BY <3>1
      <4> QED BY <2>2, <4>1, <4>2
    <3> HIDE DEF Stars
    <3>3. T + 1 \in M[n + 1] <=> Stars(n + 1)
      BY <1>2, <3>1
    <3>4. T + 1 \in M[n] <=> \E u \in M[n + 1] : T + 1 <= u
      BY <1>0, <1>1, <2>2, <3>1
    <3>5. (\E u \in M[n + 1] : T + 1 <= u) <=> T + 1 \in M[n + 1]
      <4>1. \A u \in M[n + 1] : u \in 1 .. T + 1
        BY <1>1, <3>1
      <4>2. \A u \in 1 .. T + 1 : T + 1 <= u => u = T + 1
        BY <1>0
      <4>3. T + 1 <= T + 1
        BY <1>0
      <4> QED BY <4>1, <4>2, <4>3
    <3> QED BY <3>2, <3>3, <3>4, <3>5
  <2>3. CASE n # N /\ pattern[n] # ANY
    <3>1. n \in 1 .. P
      BY <1>0, <2>3
    <3>2. ~Stars(n)
      <4>1. n \in n .. P
        BY <3>1
      <4> QED BY <2>3, <4>1
    <3>3. T + 1 \notin M[n]
      <4>1. ~(T + 1 <= T)
        BY <1>0
      <4> QED BY <1>0, <1>1, <2>3, <3>1, <4>1
    <3> HIDE DEF Stars
    <3> QED BY <3>2, <3>3
  <2> QED BY <2>1, <2>2, <2>3
<1>3. G \in SUBSET (1 .. N)
  OBVIOUS
<1>4. G = 1 .. N
  <2> HIDE DEF G
  <2> QED BY <1>0, <1>2, <1>3, BackwardInduction
<1>5. i \in G
  BY <1>4
<1> QED BY <1>5 DEF M

\* What is still to be tried matches: the rest from here, or the rest behind the last star
\* with more text given to it.
ClaimOf(M, T, p, t, star_p, star_t) ==
    \/ t + 1 \in M[p + 1]
    \/ star_p # NoStar /\ \E u \in star_t + 1 .. T : u + 1 \in M[star_p + 2]

\* The items matched since the last star are no less needed when more text is given to it.
PathOf(M, T, p, t, star_p, star_t) ==
    star_p # NoStar =>
      \A u \in star_t + 1 .. T : u + 1 \in M[star_p + 2] =>
         u + (t - star_t) <= T /\ u + (t - star_t) + 1 \in M[p + 1]

\* At a new star the older one is not needed any more.
LEMMA StarStep ==
    ASSUME NEW M, NEW T \in Nat, NEW p \in Nat, NEW t \in 0 .. T, NEW star_p \in Int,
           NEW star_t \in 0 .. t, PathOf(M, T, p, t, star_p, star_t),
           M[p + 2] \subseteq 1 .. T + 1,
           \A x \in 1 .. T + 1 : x \in M[p + 1] <=> \E u \in M[p + 2] : x <= u
    PROVE  /\ ClaimOf(M, T, p + 1, t, p, t) <=> ClaimOf(M, T, p, t, star_p, star_t)
           /\ PathOf(M, T, p + 1, t, p, t)
<1>0. (p + 1) + 1 = p + 2 /\ p # NoStar
  BY DEF NoStar
<1>1. PathOf(M, T, p + 1, t, p, t)
  <2> SUFFICES ASSUME NEW u \in t + 1 .. T, u + 1 \in M[p + 2]
               PROVE  u + (t - t) <= T /\ u + (t - t) + 1 \in M[(p + 1) + 1]
    BY DEF PathOf
  <2>1. u + (t - t) = u /\ u <= T
    OBVIOUS
  <2> QED BY <1>0, <2>1
<1>2. ClaimOf(M, T, p + 1, t, p, t) <=> t + 1 \in M[p + 1]
  <2>1. t + 1 \in M[p + 1] <=> \E u \in M[p + 2] : t + 1 <= u
    <3>1. t + 1 \in 1 .. T + 1
      OBVIOUS
    <3> QED BY <3>1
  <2>2. ASSUME NEW u \in M[p + 2], t + 1 <= u
        PROVE  ClaimOf(M, T, p + 1, t, p, t)
    <3>1. u \in 1 .. T + 1
      OBVIOUS
    <3>2. CASE u = t + 1
      BY <1>0, <3>2 DEF ClaimOf
    <3>3. CASE u # t + 1
      <4>1. u - 1 \in t + 1 .. T /\ (u - 1) + 1 = u
        BY <2>2, <3>1, <3>3
      <4> QED BY <1>0, <4>1 DEF ClaimOf
    <3> QED BY <3>2, <3>3
  <2>3. ASSUME ClaimOf(M, T, p + 1, t, p, t)
        PROVE  \E u \in M[p + 2] : t + 1 <= u
    <3>1. CASE t + 1 \in M[p + 2]
      BY <3>1
    <3>2. CASE t + 1 \notin M[p + 2]
      <4>1. PICK v \in t + 1 .. T : v + 1 \in M[p + 2]
        BY <1>0, <2>3, <3>2 DEF ClaimOf
      <4>2. t + 1 <= v + 1
        OBVIOUS
      <4> QED BY <4>1, <4>2
    <3> QED BY <3>1, <3>2
  <2> QED BY <2>1, <2>2, <2>3
<1>3. ASSUME NEW u \in star_t + 1 .. T, star_p # NoStar, u + 1 \in M[star_p + 2]
      PROVE  t + 1 \in M[p + 1]
  <2> DEFINE v == u + (t - star_t) + 1
  <2>1. u + (t - star_t) <= T /\ v \in M[p + 1]
    BY <1>3 DEF PathOf
  <2>2. v \in 1 .. T + 1 /\ t + 1 <= v /\ t + 1 \in 1 .. T + 1
    BY <2>1
  <2> HIDE DEF v
  <2>3. PICK w \in M[p + 2] : v <= w
    BY <2>1, <2>2
  <2>4. w \in 1 .. T + 1 /\ t + 1 <= w
    BY <2>2, <2>3
  <2> QED BY <2>2, <2>4
<1>4. ClaimOf(M, T, p, t, star_p, star_t) <=> t + 1 \in M[p + 1]
  BY <1>3 DEF ClaimOf
<1> QED BY <1>1, <1>2, <1>4

\* An item that matches.
LEMMA ItemStep ==
    ASSUME NEW M, NEW T \in Nat, NEW p \in Nat, NEW q \in Nat, NEW t \in 0 .. T - 1,
           NEW star_p \in Int, NEW star_t \in 0 .. t, PathOf(M, T, p, t, star_p, star_t),
           \A x \in 1 .. T + 1 : x \in M[p + 1] => x <= T /\ x + 1 \in M[q + 1],
           t + 2 \in M[q + 1] => t + 1 \in M[p + 1]
    PROVE  /\ ClaimOf(M, T, q, t + 1, star_p, star_t) <=> ClaimOf(M, T, p, t, star_p, star_t)
           /\ PathOf(M, T, q, t + 1, star_p, star_t)
<1>1. (t + 1) + 1 = t + 2 /\ t + 1 \in 1 .. T + 1
  OBVIOUS
<1>2. t + 2 \in M[q + 1] <=> t + 1 \in M[p + 1]
  BY <1>1
<1>3. ClaimOf(M, T, q, t + 1, star_p, star_t) <=> ClaimOf(M, T, p, t, star_p, star_t)
  BY <1>1, <1>2 DEF ClaimOf
<1>4. PathOf(M, T, q, t + 1, star_p, star_t)
  <2> SUFFICES ASSUME star_p # NoStar, NEW u \in star_t + 1 .. T, u + 1 \in M[star_p + 2]
               PROVE  /\ u + ((t + 1) - star_t) <= T
                      /\ u + ((t + 1) - star_t) + 1 \in M[q + 1]
    BY DEF PathOf
  <2> DEFINE v == u + (t - star_t) + 1
  <2>1. u + (t - star_t) <= T /\ v \in M[p + 1]
    BY DEF PathOf
  <2>2. v \in 1 .. T + 1 /\ v = u + ((t + 1) - star_t)
    BY <2>1
  <2> HIDE DEF v
  <2>3. v <= T /\ v + 1 \in M[q + 1]
    BY <2>1, <2>2
  <2> QED BY <2>2, <2>3
<1> QED BY <1>3, <1>4

\* An item that does not match, with a star to go back to.
LEMMA BackStep ==
    ASSUME NEW M, NEW T \in Nat, NEW p \in Nat, NEW t \in 0 .. T - 1,
           NEW star_p \in Nat, NEW star_t \in 0 .. t, t + 1 \notin M[p + 1]
    PROVE  /\ ClaimOf(M, T, star_p + 1, star_t + 1, star_p, star_t + 1)
                <=> ClaimOf(M, T, p, t, star_p, star_t)
           /\ PathOf(M, T, star_p + 1, star_t + 1, star_p, star_t + 1)
<1>0. /\ (star_p + 1) + 1 = star_p + 2 /\ star_p # NoStar /\ (star_t + 1) + 1 = star_t + 2
      /\ star_t + 1 \in star_t + 1 .. T
  BY DEF NoStar
<1>1. PathOf(M, T, star_p + 1, star_t + 1, star_p, star_t + 1)
  <2> SUFFICES ASSUME NEW u \in (star_t + 1) + 1 .. T, u + 1 \in M[star_p + 2]
               PROVE  /\ u + ((star_t + 1) - (star_t + 1)) <= T
                      /\ u + ((star_t + 1) - (star_t + 1)) + 1 \in M[(star_p + 1) + 1]
    BY DEF PathOf
  <2>1. u + ((star_t + 1) - (star_t + 1)) = u /\ u <= T
    OBVIOUS
  <2> QED BY <1>0, <2>1
<1>2. ClaimOf(M, T, p, t, star_p, star_t) <=> \E u \in star_t + 1 .. T : u + 1 \in M[star_p + 2]
  BY <1>0 DEF ClaimOf
<1>3. ClaimOf(M, T, star_p + 1, star_t + 1, star_p, star_t + 1)
        <=> \/ star_t + 2 \in M[star_p + 2]
            \/ \E u \in star_t + 2 .. T : u + 1 \in M[star_p + 2]
  BY <1>0 DEF ClaimOf
<1>4. ASSUME NEW u \in star_t + 1 .. T, u + 1 \in M[star_p + 2]
      PROVE  \/ star_t + 2 \in M[star_p + 2]
             \/ \E w \in star_t + 2 .. T : w + 1 \in M[star_p + 2]
  <2>1. CASE u = star_t + 1
    BY <1>0, <1>4, <2>1
  <2>2. CASE u # star_t + 1
    <3>1. u \in star_t + 2 .. T
      BY <2>2
    <3> QED BY <1>4, <3>1
  <2> QED BY <2>1, <2>2
<1>5. ASSUME star_t + 2 \in M[star_p + 2]
      PROVE  \E u \in star_t + 1 .. T : u + 1 \in M[star_p + 2]
  BY <1>0, <1>5
<1>6. ASSUME NEW u \in star_t + 2 .. T, u + 1 \in M[star_p + 2]
      PROVE  \E w \in star_t + 1 .. T : w + 1 \in M[star_p + 2]
  <2>1. u \in star_t + 1 .. T
    OBVIOUS
  <2> QED BY <1>6, <2>1
<1> QED BY <1>1, <1>2, <1>3, <1>4, <1>5, <1>6

\* The state of the loop over the text.
Claim(pattern, text, s) ==
    /\ s.p # NoMatch
    /\ ClaimOf(MatchedFrom(pattern, text), Len(text), s.p, s.t, s.star_p, s.star_t)
LoopInv(pattern, text, s) ==
    s.p # NoMatch =>
      /\ s.star_t <= s.t
      /\ PathOf(MatchedFrom(pattern, text), Len(text), s.p, s.t, s.star_p, s.star_t)

\* What the loop has left to do.
Measure(P, T, p, star_t) == (T - star_t) * (P + 1) + (P - p)

LEMMA MeasureFalls ==
    ASSUME NEW P \in Nat, NEW T \in Nat, NEW p \in 0 .. P, NEW star_t \in 0 .. T
    PROVE  /\ Measure(P, T, p, star_t) \in Nat
           /\ \A q \in p + 1 .. P, t \in star_t .. T : Measure(P, T, q, t) < Measure(P, T, p, star_t)
           /\ \A q \in 0 .. P : star_t < T => Measure(P, T, q, star_t + 1) < Measure(P, T, p, star_t)
<1> DEFINE c == P + 1
           a == T - star_t
<1>0. a \in Nat /\ c \in Nat
  OBVIOUS
<1>1. \A x, y, z \in Nat : x * z \in Nat /\ (x <= y => x * z <= y * z)
  OBVIOUS
<1>2. \A x, y \in Nat : (x - 1) * y = x * y - y
  OBVIOUS
<1>3. a * c \in Nat
  BY <1>0, <1>1
<1>4. Measure(P, T, p, star_t) = a * c + (P - p)
  BY DEF Measure
<1>5. ASSUME NEW q \in p + 1 .. P, NEW t \in star_t .. T
      PROVE  Measure(P, T, q, t) < Measure(P, T, p, star_t)
  <2> DEFINE e == T - t
  <2>1. e \in Nat /\ e <= a
    OBVIOUS
  <2>2. Measure(P, T, q, t) = e * c + (P - q)
    BY DEF Measure
  <2> HIDE DEF a, c, e
  <2>3. e * c \in Nat /\ e * c <= a * c
    BY <1>0, <1>1, <2>1
  <2> QED BY <1>3, <1>4, <2>2, <2>3
<1>6. ASSUME NEW q \in 0 .. P, star_t < T
      PROVE  Measure(P, T, q, star_t + 1) < Measure(P, T, p, star_t)
  <2>1. T - (star_t + 1) = a - 1
    OBVIOUS
  <2>2. Measure(P, T, q, star_t + 1) = (a - 1) * c + (P - q)
    BY <2>1 DEF Measure
  <2>3. (a - 1) * c = a * c - c
    <3> HIDE DEF a, c
    <3> QED BY <1>0, <1>2
  <2> DEFINE x == a * c
             y == (a - 1) * c
  <2>4. x \in Nat /\ y = x - (P + 1)
    BY <1>3, <2>3
  <2>5. Measure(P, T, q, star_t + 1) = y + (P - q) /\ Measure(P, T, p, star_t) = x + (P - p)
    BY <1>4, <2>2
  <2> HIDE DEF x, y
  <2> QED BY <2>4, <2>5
<1>7. Measure(P, T, p, star_t) \in Nat
  <2> DEFINE x == a * c
  <2>1. x \in Nat /\ Measure(P, T, p, star_t) = x + (P - p)
    BY <1>3, <1>4
  <2> HIDE DEF x
  <2> QED BY <2>1
<1> QED BY <1>5, <1>6, <1>7

\* The loop has ended.
Over(text, s) == s.p = NoMatch \/ s.t = Len(text)

\* A turn keeps what is claimed, and leaves less to do.
LEMMA TurnFacts ==
    ASSUME NEW pattern \in Seq(AllBytes), NEW text \in Seq(AllBytes),
           NEW s \in LoopStates(pattern, text), LoopInv(pattern, text, s), ~Over(text, s)
    PROVE  LET d == Turn(pattern, text)[s]
           IN  /\ d \in LoopStates(pattern, text)
               /\ LoopInv(pattern, text, d)
               /\ Claim(pattern, text, d) <=> Claim(pattern, text, s)
               /\ \/ d.p = NoMatch
                  \/ Measure(Len(pattern), Len(text), d.p, d.star_t)
                       < Measure(Len(pattern), Len(text), s.p, s.star_t)
<1> DEFINE P == Len(pattern)
           T == Len(text)
           M == MatchedFrom(pattern, text)
           d == Turn(pattern, text)[s]
           p == s.p
           t == s.t
           star_p == s.star_p
           star_t == s.star_t
           next == MatchItem(pattern, p, text[t + 1])
<1>0. P \in Nat /\ T \in Nat
  OBVIOUS
<1>1. /\ s = [p |-> p, t |-> t, star_p |-> star_p, star_t |-> star_t]
      /\ p \in {NoMatch} \cup 0 .. P /\ t \in 0 .. T
      /\ star_p \in {NoStar} \cup 0 .. P - 1 /\ star_t \in 0 .. T
  BY DEF LoopStates
<1>2. p # NoMatch /\ t # T /\ star_t <= t /\ PathOf(M, T, p, t, star_p, star_t)
  BY DEF Over, LoopInv
<1>3. p \in 0 .. P /\ t \in 0 .. T - 1 /\ star_t \in 0 .. t
  BY <1>0, <1>1, <1>2
<1>4. ClaimOf(M, T, p, t, star_p, star_t) <=> Claim(pattern, text, s)
  BY <1>2 DEF Claim
<1>5. star_p \in Int /\ (star_p = NoStar \/ star_p \in 0 .. P - 1)
  BY <1>0, <1>1 DEF NoStar
<1>6. /\ \A i \in 1 .. P + 1 : M[i] \subseteq 1 .. T + 1
      /\ M[P + 1] = {T + 1}
      /\ \A i \in 1 .. P : pattern[i] = ANY =>
           \A x \in 1 .. T + 1 : x \in M[i] <=> \E u \in M[i + 1] : x <= u
      /\ \A i \in 1 .. P : pattern[i] # ANY =>
           \A x \in 1 .. T + 1 :
              x \in M[i] <=> /\ x <= T
                             /\ text[x] \in Item(pattern, i).bytes
                             /\ x + 1 \in M[Item(pattern, i).next]
  BY MatchedCases
<1>7. /\ Measure(P, T, p, star_t) \in Nat
      /\ \A q \in p + 1 .. P, u \in star_t .. T : Measure(P, T, q, u) < Measure(P, T, p, star_t)
      /\ \A q \in 0 .. P : star_t < T => Measure(P, T, q, star_t + 1) < Measure(P, T, p, star_t)
  BY <1>0, <1>1, <1>3, MeasureFalls
<1>8. d = IF p < P /\ pattern[p + 1] = ANY
          THEN [p |-> p + 1, t |-> t, star_p |-> p, star_t |-> t]
          ELSE IF next # NoMatch
          THEN [p |-> next, t |-> t + 1, star_p |-> star_p, star_t |-> star_t]
          ELSE IF star_p # NoStar
          THEN [p |-> star_p + 1, t |-> star_t + 1, star_p |-> star_p, star_t |-> star_t + 1]
          ELSE [p |-> NoMatch, t |-> t, star_p |-> star_p, star_t |-> star_t]
  <2>1. d = IF p < P /\ pattern[p + 1] = ANY
            THEN [s EXCEPT !.p = @ + 1, !.star_p = s.p, !.star_t = s.t]
            ELSE IF next # NoMatch THEN [s EXCEPT !.p = next, !.t = @ + 1]
            ELSE IF star_p # NoStar
            THEN [s EXCEPT !.p = s.star_p + 1, !.t = s.star_t + 1, !.star_t = @ + 1]
            ELSE [s EXCEPT !.p = NoMatch]
    <3> HIDE DEF next
    <3> QED BY <1>2 DEF Turn, next
  <2> DEFINE S == Int \cup {next}
             R == [p : S, t : S, star_p : S, star_t : S]
  <2>2. s \in R /\ p \in Int /\ t \in Int /\ star_p \in Int /\ star_t \in Int /\ NoMatch \in Int
    <3>1. p \in Int /\ t \in Int /\ star_p \in Int /\ star_t \in Int /\ NoMatch \in Int
      BY <1>0, <1>1 DEF NoMatch, NoStar
    <3> HIDE DEF p, t, star_p, star_t
    <3>2. [p |-> p, t |-> t, star_p |-> star_p, star_t |-> star_t] \in R
      BY <3>1
    <3> QED BY <1>1, <3>1, <3>2
  <2> HIDE DEF next
  <2>3. \A r \in R : r = [p |-> r.p, t |-> r.t, star_p |-> r.star_p, star_t |-> r.star_t]
    OBVIOUS
  <2>4. [s EXCEPT !.p = @ + 1, !.star_p = s.p, !.star_t = s.t]
          = [p |-> p + 1, t |-> t, star_p |-> p, star_t |-> t]
    <3> DEFINE x == p + 1
               y == p
               z == t
               r == [s EXCEPT !.p = x, !.star_p = y, !.star_t = z]
    <3>1. x \in S /\ y \in S /\ z \in S
      BY <2>2
    <3> HIDE DEF x, y, z, S
    <3>2. r \in R
      BY <2>2, <3>1
    <3>3. r.p = x /\ r.t = s.t /\ r.star_p = y /\ r.star_t = z
      BY <2>2
    <3> HIDE DEF r, R
    <3>4. r = [p |-> r.p, t |-> r.t, star_p |-> r.star_p, star_t |-> r.star_t]
      BY <2>3, <3>2
    <3> QED BY <3>3, <3>4 DEF r, x, y, z
  <2>5. [s EXCEPT !.p = next, !.t = @ + 1]
          = [p |-> next, t |-> t + 1, star_p |-> star_p, star_t |-> star_t]
    <3> DEFINE x == next
               y == t + 1
               r == [s EXCEPT !.p = x, !.t = y]
    <3>1. x \in S /\ y \in S
      BY <2>2
    <3> HIDE DEF x, y, S
    <3>2. r \in R
      BY <2>2, <3>1
    <3>3. r.p = x /\ r.t = y /\ r.star_p = s.star_p /\ r.star_t = s.star_t
      BY <2>2
    <3> HIDE DEF r, R
    <3>4. r = [p |-> r.p, t |-> r.t, star_p |-> r.star_p, star_t |-> r.star_t]
      BY <2>3, <3>2
    <3> QED BY <3>3, <3>4 DEF r, x, y
  <2>6. [s EXCEPT !.p = s.star_p + 1, !.t = s.star_t + 1, !.star_t = @ + 1]
          = [p |-> star_p + 1, t |-> star_t + 1, star_p |-> star_p, star_t |-> star_t + 1]
    <3> DEFINE x == star_p + 1
               y == star_t + 1
               r == [s EXCEPT !.p = x, !.t = y, !.star_t = y]
    <3>1. x \in S /\ y \in S
      BY <2>2
    <3> HIDE DEF x, y, S
    <3>2. r \in R
      BY <2>2, <3>1
    <3>3. r.p = x /\ r.t = y /\ r.star_p = s.star_p /\ r.star_t = y
      BY <2>2
    <3> HIDE DEF r, R
    <3>4. r = [p |-> r.p, t |-> r.t, star_p |-> r.star_p, star_t |-> r.star_t]
      BY <2>3, <3>2
    <3> QED BY <3>3, <3>4 DEF r, x, y
  <2>7. [s EXCEPT !.p = NoMatch]
          = [p |-> NoMatch, t |-> t, star_p |-> star_p, star_t |-> star_t]
    <3> DEFINE x == NoMatch
               r == [s EXCEPT !.p = x]
    <3>1. x \in S
      BY <2>2
    <3> HIDE DEF x, S
    <3>2. r \in R
      BY <2>2, <3>1
    <3>3. r.p = x /\ r.t = s.t /\ r.star_p = s.star_p /\ r.star_t = s.star_t
      BY <2>2
    <3> HIDE DEF r, R
    <3>4. r = [p |-> r.p, t |-> r.t, star_p |-> r.star_p, star_t |-> r.star_t]
      BY <2>3, <3>2
    <3> QED BY <3>3, <3>4 DEF r, x
  <2> QED BY <2>1, <2>4, <2>5, <2>6, <2>7
<1>9. text[t + 1] \in AllBytes
  BY <1>0, <1>3
<1>10. \A q \in {NoMatch} \cup 0 .. P, u \in 0 .. T, sp \in {NoStar} \cup 0 .. P - 1, st \in 0 .. T :
         [p |-> q, t |-> u, star_p |-> sp, star_t |-> st] \in LoopStates(pattern, text)
  BY DEF LoopStates
<1>11. \A q \in 0 .. P : q # NoMatch
  BY <1>0 DEF NoMatch
<1> DEFINE Good(e) == /\ e \in LoopStates(pattern, text)
                      /\ LoopInv(pattern, text, e)
                      /\ Claim(pattern, text, e) <=> ClaimOf(M, T, p, t, star_p, star_t)
                      /\ e.p = NoMatch \/ Measure(P, T, e.p, e.star_t) < Measure(P, T, p, star_t)
<1>12. ASSUME NEW q \in 0 .. P, NEW u \in 0 .. T, NEW sp \in {NoStar} \cup 0 .. P - 1,
              NEW st \in 0 .. u,
              ClaimOf(M, T, q, u, sp, st) <=> ClaimOf(M, T, p, t, star_p, star_t),
              PathOf(M, T, q, u, sp, st),
              Measure(P, T, q, st) < Measure(P, T, p, star_t)
       PROVE  Good([p |-> q, t |-> u, star_p |-> sp, star_t |-> st])
  <2> DEFINE e == [p |-> q, t |-> u, star_p |-> sp, star_t |-> st]
  <2>1. st \in 0 .. T /\ st <= u
    BY <1>0
  <2>2. e.p = q /\ e.t = u /\ e.star_p = sp /\ e.star_t = st
    OBVIOUS
  <2>3. e \in LoopStates(pattern, text)
    BY <1>10, <2>1
  <2> HIDE DEF e, p, t, star_p, star_t
  <2>4. LoopInv(pattern, text, e)
    BY <1>12, <2>1, <2>2 DEF LoopInv
  <2>5. Claim(pattern, text, e) <=> ClaimOf(M, T, p, t, star_p, star_t)
    BY <1>11, <1>12, <2>2 DEF Claim
  <2>6. Good(e)
    BY <1>12, <2>2, <2>3, <2>4, <2>5
  <2> QED BY <2>6 DEF e
<1> HIDE DEF d, p, t, star_p, star_t, P, T, M, next
<1>13. CASE p < P /\ pattern[p + 1] = ANY
  <2>1. p + 1 \in 1 .. P /\ p + 1 \in 0 .. P /\ p + 1 \in p + 1 .. P /\ p \in 0 .. P - 1
        /\ (p + 1) + 1 = p + 2 /\ p + 2 \in 1 .. P + 1 /\ p \in Nat /\ t \in 0 .. T
        /\ t \in star_t .. T /\ t \in 0 .. t
    BY <1>0, <1>3, <1>13
  <2>2. \A x \in 1 .. T + 1 : x \in M[p + 1] <=> \E u \in M[p + 2] : x <= u
    BY <1>6, <1>13, <2>1
  <2>3. M[p + 2] \subseteq 1 .. T + 1
    BY <1>6, <2>1
  <2>4. /\ ClaimOf(M, T, p + 1, t, p, t) <=> ClaimOf(M, T, p, t, star_p, star_t)
        /\ PathOf(M, T, p + 1, t, p, t)
    BY <1>0, <1>2, <1>3, <1>5, <2>1, <2>2, <2>3, StarStep
  <2>5. Measure(P, T, p + 1, t) < Measure(P, T, p, star_t)
    BY <1>7, <2>1
  <2>6. d = [p |-> p + 1, t |-> t, star_p |-> p, star_t |-> t]
    BY <1>8, <1>13
  <2> HIDE DEF Good
  <2>7. Good([p |-> p + 1, t |-> t, star_p |-> p, star_t |-> t])
    BY <1>12, <2>1, <2>4, <2>5
  <2> QED BY <1>4, <2>6, <2>7 DEF Good, p, t, star_p, star_t, P, T, M, d
<1>14. ASSUME ~(p < P /\ pattern[p + 1] = ANY), next # NoMatch
       PROVE  Good(d)
  <2>1. p < P /\ p + 1 \in 1 .. P /\ pattern[p + 1] # ANY /\ p # P
    BY <1>3, <1>9, <1>14, MatchItemFacts DEF P, next
  <2> DEFINE item == Item(pattern, p + 1)
  <2>2. text[t + 1] \in item.bytes /\ next = item.next - 1
    BY <1>3, <1>9, <1>14, <2>1, MatchItemFacts DEF P, next
  <2>3. item.next \in p + 2 .. P + 1
    <3>1. item.next \in (p + 1) + 1 .. P + 1
      BY <2>1, ItemNext DEF P
    <3> HIDE DEF item
    <3> QED BY <1>0, <1>3, <3>1
  <2>4. \A x \in 1 .. T + 1 : x \in M[p + 1] <=> /\ x <= T
                                                 /\ text[x] \in item.bytes
                                                 /\ x + 1 \in M[item.next]
    BY <1>6, <2>1
  <2> HIDE DEF item
  <2>5. /\ next \in 0 .. P /\ next \in p + 1 .. P /\ next + 1 = item.next /\ t + 1 \in 0 .. T
        /\ star_t \in 0 .. t + 1 /\ star_t \in star_t .. T /\ t + 1 <= T /\ t + 1 \in 1 .. T + 1
        /\ (t + 1) + 1 = t + 2 /\ next \in Nat /\ p \in Nat
    BY <1>0, <1>3, <2>2, <2>3
  <2>6. \A x \in 1 .. T + 1 : x \in M[p + 1] => x <= T /\ x + 1 \in M[next + 1]
    BY <2>4, <2>5
  <2>7. t + 2 \in M[next + 1] => t + 1 \in M[p + 1]
    BY <2>2, <2>4, <2>5
  <2>8. /\ ClaimOf(M, T, next, t + 1, star_p, star_t) <=> ClaimOf(M, T, p, t, star_p, star_t)
        /\ PathOf(M, T, next, t + 1, star_p, star_t)
    BY <1>0, <1>2, <1>3, <1>5, <2>5, <2>6, <2>7, ItemStep
  <2>9. Measure(P, T, next, star_t) < Measure(P, T, p, star_t)
    BY <1>7, <2>5
  <2>10. d = [p |-> next, t |-> t + 1, star_p |-> star_p, star_t |-> star_t]
    BY <1>8, <1>14
  <2> HIDE DEF Good
  <2> QED BY <1>1, <1>12, <2>5, <2>8, <2>9, <2>10
<1>15. ASSUME ~(p < P /\ pattern[p + 1] = ANY), next = NoMatch
       PROVE  t + 1 \notin M[p + 1]
  <2>1. t + 1 \in 1 .. T + 1 /\ t + 1 # T + 1
    BY <1>0, <1>3
  <2>2. CASE p = P
    BY <1>6, <2>1, <2>2
  <2>3. CASE p # P
    <3>1. p < P /\ p + 1 \in 1 .. P /\ pattern[p + 1] # ANY
      BY <1>0, <1>3, <1>15, <2>3
    <3>2. Item(pattern, p + 1).next \in (p + 1) + 1 .. P + 1
      BY <3>1, ItemNext DEF P
    <3>3. text[t + 1] \notin Item(pattern, p + 1).bytes
      <4>1. next = IF text[t + 1] \in Item(pattern, p + 1).bytes
                   THEN Item(pattern, p + 1).next - 1 ELSE NoMatch
        BY <1>3, <1>9, <3>1, MatchItemFacts DEF P, next
      <4>2. Item(pattern, p + 1).next - 1 # NoMatch
        <5> DEFINE n == Item(pattern, p + 1).next
        <5> HIDE DEF n
        <5>1. n \in (p + 1) + 1 .. P + 1
          BY <3>2 DEF n
        <5>2. n - 1 # NoMatch
          BY <1>0, <1>3, <5>1 DEF NoMatch
        <5> QED BY <5>2 DEF n
      <4> QED BY <1>15, <4>1, <4>2
    <3> QED BY <1>6, <2>1, <3>1, <3>3
  <2> QED BY <2>2, <2>3
<1>16. ASSUME ~(p < P /\ pattern[p + 1] = ANY), next = NoMatch, star_p # NoStar
       PROVE  Good(d)
  <2>1. /\ star_p \in 0 .. P - 1 /\ star_p \in Nat /\ star_p + 1 \in 0 .. P
        /\ star_t + 1 \in 0 .. T /\ star_t < T /\ p \in Nat /\ star_t + 1 \in 0 .. star_t + 1
    BY <1>0, <1>3, <1>5, <1>16
  <2>2. /\ ClaimOf(M, T, star_p + 1, star_t + 1, star_p, star_t + 1)
             <=> ClaimOf(M, T, p, t, star_p, star_t)
        /\ PathOf(M, T, star_p + 1, star_t + 1, star_p, star_t + 1)
    BY <1>0, <1>3, <1>15, <1>16, <2>1, BackStep
  <2>3. Measure(P, T, star_p + 1, star_t + 1) < Measure(P, T, p, star_t)
    BY <1>7, <2>1
  <2>4. d = [p |-> star_p + 1, t |-> star_t + 1, star_p |-> star_p, star_t |-> star_t + 1]
    BY <1>8, <1>16
  <2> HIDE DEF Good
  <2> QED BY <1>1, <1>12, <2>1, <2>2, <2>3, <2>4
<1>17. ASSUME ~(p < P /\ pattern[p + 1] = ANY), next = NoMatch, star_p = NoStar
       PROVE  Good(d)
  <2>1. d = [p |-> NoMatch, t |-> t, star_p |-> star_p, star_t |-> star_t]
    BY <1>8, <1>17
  <2>2. d \in LoopStates(pattern, text) /\ d.p = NoMatch
    <3>1. NoMatch \in {NoMatch} \cup 0 .. P
      OBVIOUS
    <3> QED BY <1>1, <1>10, <2>1, <3>1
  <2>3. ~ClaimOf(M, T, p, t, star_p, star_t)
    BY <1>15, <1>17 DEF ClaimOf
  <2> QED BY <2>2, <2>3 DEF LoopInv, Claim
<1> HIDE DEF Good
<1>18. CASE ~(p < P /\ pattern[p + 1] = ANY)
  <2>1. Good(d)
    BY <1>14, <1>16, <1>17, <1>18
  <2> QED BY <1>4, <2>1 DEF Good, p, t, star_p, star_t, P, T, M, d
<1> QED BY <1>13, <1>18

\* glob_match, which goes back to the last star only, matches what the pattern means: for
\* every pattern and text its loop ends within Turns, and answers as Matches does.
THEOREM GlobMatches ==
    ASSUME NEW pattern \in Seq(AllBytes), NEW text \in Seq(AllBytes)
    PROVE  glob_match(pattern, text) <=> Matches(pattern, text)
<1> DEFINE P == Len(pattern)
           T == Len(text)
           M == MatchedFrom(pattern, text)
           S == LoopStates(pattern, text)
           F == Turn(pattern, text)
           begin == [p |-> 0, t |-> 0, star_p |-> NoStar, star_t |-> 0]
           N == Turns(pattern, text)
           all == Measure(P, T, 0, 0)
           end == After(F, begin, N)
           Good(s) == LoopInv(pattern, text, s) /\ (Claim(pattern, text, s) <=> Matches(pattern, text))
           J == [n \in 0 .. N |-> {s \in S : /\ Good(s)
                                             /\ \/ Over(text, s)
                                                \/ Measure(P, T, s.p, s.star_t) + n <= all}]
<1>0. P \in Nat /\ T \in Nat
  OBVIOUS
<1>1. all \in Nat /\ N = all + 1 /\ N \in Nat
  <2>1. all \in Nat
    BY <1>0, MeasureFalls
  <2>2. N = all + 1
    <3>1. \A x, y \in Nat : (x + 1) * (y + 1) = (x - 0) * (y + 1) + (y - 0) + 1
      OBVIOUS
    <3> QED BY <1>0, <3>1 DEF Turns, Measure
  <2> QED BY <2>1, <2>2
<1>2. \A s \in S : /\ s.p \in {NoMatch} \cup 0 .. P /\ s.t \in 0 .. T
                   /\ s.star_p \in {NoStar} \cup 0 .. P - 1 /\ s.star_t \in 0 .. T
  BY DEF LoopStates
<1>3. begin \in S
  <2>1. 0 \in {NoMatch} \cup 0 .. P /\ 0 \in 0 .. T
    BY <1>0
  <2> QED BY <2>1 DEF LoopStates
<1>4. Good(begin)
  <2>1. begin.p = 0 /\ begin.t = 0 /\ begin.star_p = NoStar /\ begin.star_t = 0 /\ begin.p # NoMatch
    BY DEF NoMatch
  <2>2. ClaimOf(M, T, 0, 0, NoStar, 0) <=> 1 \in M[1]
    BY DEF ClaimOf
  <2>3. PathOf(M, T, 0, 0, NoStar, 0)
    BY DEF PathOf
  <2> HIDE DEF begin
  <2>4. LoopInv(pattern, text, begin)
    BY <2>1, <2>3 DEF LoopInv
  <2>5. Claim(pattern, text, begin) <=> Matches(pattern, text)
    BY <2>1, <2>2 DEF Claim, Matches
  <2> QED BY <2>4, <2>5
<1>5. ASSUME NEW s \in S, Good(s), ~Over(text, s)
      PROVE  /\ F[s] \in S /\ Good(F[s])
             /\ Over(text, F[s]) \/ Measure(P, T, F[s].p, F[s].star_t) < Measure(P, T, s.p, s.star_t)
  <2>1. /\ F[s] \in S
        /\ LoopInv(pattern, text, F[s])
        /\ Claim(pattern, text, F[s]) <=> Claim(pattern, text, s)
        /\ F[s].p = NoMatch \/ Measure(P, T, F[s].p, F[s].star_t) < Measure(P, T, s.p, s.star_t)
    BY <1>5, TurnFacts
  <2> QED BY <1>5, <2>1 DEF Over
<1>6. ASSUME NEW s \in S, Over(text, s)
      PROVE  F[s] = s
  BY <1>6 DEF Over, Turn
<1> HIDE DEF F, S, Good, N, all
<1>7. J \in [0 .. N -> SUBSET S]
  OBVIOUS
<1>8. begin \in J[0]
  <2>1. Measure(P, T, begin.p, begin.star_t) = all
    BY DEF all
  <2> HIDE DEF begin
  <2>2. Measure(P, T, begin.p, begin.star_t) + 0 <= all /\ 0 \in 0 .. N
    BY <1>1, <2>1
  <2> QED BY <1>3, <1>4, <2>2
<1>9. ASSUME NEW n \in 1 .. N, NEW s \in J[n - 1]
      PROVE  F[s] \in J[n]
  <2>0. n - 1 \in 0 .. N /\ n \in 0 .. N
    BY <1>1
  <2>1. s \in S /\ Good(s) /\ (Over(text, s) \/ Measure(P, T, s.p, s.star_t) + (n - 1) <= all)
    BY <2>0
  <2>2. CASE Over(text, s)
    <3>1. F[s] = s
      BY <1>6, <2>1, <2>2
    <3> QED BY <2>0, <2>1, <2>2, <3>1
  <2>3. CASE ~Over(text, s)
    <3> DEFINE d == F[s]
    <3>1. d \in S /\ Good(d) /\ (Over(text, d) \/ Measure(P, T, d.p, d.star_t) < Measure(P, T, s.p, s.star_t))
      BY <1>5, <2>1, <2>3
    <3> HIDE DEF d
    <3>2. ASSUME ~Over(text, d)
          PROVE  Measure(P, T, d.p, d.star_t) + n <= all
      <4> DEFINE x == Measure(P, T, d.p, d.star_t)
                 y == Measure(P, T, s.p, s.star_t)
      <4>1. s.p \in 0 .. P /\ d.p \in 0 .. P /\ s.star_t \in 0 .. T /\ d.star_t \in 0 .. T
        BY <1>2, <2>1, <2>3, <3>1, <3>2 DEF Over
      <4>2. x \in Nat /\ y \in Nat
        BY <1>0, <4>1, MeasureFalls
      <4>3. x < y /\ y + (n - 1) <= all
        BY <2>1, <2>3, <3>1, <3>2
      <4> HIDE DEF x, y
      <4>4. x + n <= all
        BY <1>1, <4>2, <4>3
      <4> QED BY <4>4 DEF x
    <3>3. d \in J[n]
      BY <2>0, <3>1, <3>2
    <3> QED BY <3>3 DEF d
  <2> QED BY <2>2, <2>3
<1>10. end \in J[N]
  <2> HIDE DEF J, begin
  <2> QED BY <1>1, <1>7, <1>8, <1>9, LoopInvariant
<1>11. end \in S /\ Good(end) /\ (Over(text, end) \/ Measure(P, T, end.p, end.star_t) + N <= all)
  <2>1. N \in 0 .. N
    BY <1>1
  <2> HIDE DEF end
  <2> QED BY <1>10, <2>1
<1>12. glob_match(pattern, text)
         <=> end.p # NoMatch /\ \A i \in end.p + 1 .. P : pattern[i] = ANY
  BY DEF glob_match, F, N
<1> HIDE DEF end, J
<1>13. Over(text, end)
  <2> SUFFICES ASSUME ~Over(text, end)
               PROVE  FALSE
    OBVIOUS
  <2> DEFINE x == Measure(P, T, end.p, end.star_t)
  <2>1. end.p \in 0 .. P /\ end.star_t \in 0 .. T
    BY <1>2, <1>11 DEF Over
  <2>2. x \in Nat /\ x + N <= all
    BY <1>0, <1>11, <2>1, MeasureFalls
  <2> HIDE DEF x
  <2> QED BY <1>1, <2>2
<1>14. Claim(pattern, text, end) <=> Matches(pattern, text)
  BY <1>11 DEF Good
<1>15. CASE end.p = NoMatch
  BY <1>12, <1>14, <1>15 DEF Claim
<1>16. CASE end.p # NoMatch
  <2> DEFINE p == end.p
             star_p == end.star_p
             star_t == end.star_t
  <2>1. end.t = T /\ p \in 0 .. P /\ p + 1 \in 1 .. P + 1 /\ star_t \in 0 .. T
    BY <1>0, <1>2, <1>11, <1>13, <1>16 DEF Over
  <2>2. PathOf(M, T, p, T, star_p, star_t)
    BY <1>11, <1>16, <2>1 DEF Good, LoopInv
  <2>3. Claim(pattern, text, end) <=> ClaimOf(M, T, p, T, star_p, star_t)
    BY <1>16, <2>1 DEF Claim
  <2>4. T + 1 \in M[p + 1] <=> \A i \in p + 1 .. P : pattern[i] = ANY
    BY <2>1, MatchedAtEnd
  <2> HIDE DEF p, star_p, star_t, M
  <2>5. ASSUME star_p # NoStar, NEW u \in star_t + 1 .. T, u + 1 \in M[star_p + 2]
        PROVE  FALSE
    <3>1. u + (T - star_t) <= T
      BY <2>2, <2>5 DEF PathOf
    <3> QED BY <1>0, <2>1, <3>1
  <2>6. ClaimOf(M, T, p, T, star_p, star_t) <=> T + 1 \in M[p + 1]
    BY <2>5 DEF ClaimOf
  <2> QED BY <1>12, <1>14, <1>16, <2>3, <2>4, <2>6 DEF p
<1> QED BY <1>15, <1>16

\* A star alone matches every text.
LEMMA StarMatches ==
    ASSUME NEW text \in Seq(AllBytes)
    PROVE  Matches(<<ANY>>, text)
<1> DEFINE pattern == <<ANY>>
           M == MatchedFrom(pattern, text)
<1>1. pattern \in Seq(AllBytes) /\ Len(pattern) = 1 /\ pattern[1] = ANY
  BY DEF ANY, AllBytes
<1> HIDE DEF pattern
<1>2. /\ M[Len(pattern) + 1] = {Len(text) + 1}
      /\ \A i \in 1 .. Len(pattern) : pattern[i] = ANY =>
           \A x \in 1 .. Len(text) + 1 : x \in M[i] <=> \E u \in M[i + 1] : x <= u
  BY <1>1, MatchedCases
<1> HIDE DEF M
<1>3. Len(text) \in Nat /\ 1 \in 1 .. Len(text) + 1 /\ 1 <= Len(text) + 1 /\ 1 \in 1 .. Len(pattern)
  BY <1>1
<1>4. M[1 + 1] = {Len(text) + 1}
  BY <1>1, <1>2
<1>5. 1 \in M[1]
  BY <1>1, <1>2, <1>3, <1>4
<1> QED BY <1>5 DEF Matches, M, pattern

\* "*" is not given to glob_match, and matches every key.
LEMMA GlobAgrees ==
    ASSUME NEW pattern \in KeysPatterns \cup ScanPatterns, NEW k \in Keys
    PROVE  Fits(pattern, k) <=> Matches(pattern, k)
<1>1. pattern \in Seq(AllBytes) /\ k \in Seq(AllBytes)
  BY ScanAssumption
<1>2. CASE pattern = <<ANY>>
  BY <1>1, <1>2, StarMatches DEF Fits
<1>3. CASE pattern # <<ANY>>
  BY <1>1, <1>3, GlobMatches DEF Fits
<1> QED BY <1>2, <1>3

-----------------------------------------------------------------------------
(* The inductive invariant *)

\* A shard's map is iterated over the keys it holds, each once.
ShardOK(s) ==
    /\ order[s] \in Seq(Keys)
    /\ IsInjective(order[s])
    /\ \A i \in DOMAIN order[s] : ShardOf[order[s][i]] = s

\* The map, whatever is asked of it.
MapOK ==
    /\ DOMAIN order = ShardIndexes
    /\ \A s \in ShardIndexes : ShardOK(s)
    /\ expires_at \in [Keys -> Int]
    /\ clock \in Nat

\* The keys of steady are live.
SteadyOK(steady) ==
    /\ steady \subseteq Keys
    /\ \A k \in steady : Holds(k) /\ clock < expires_at[k]

KeysStates ==
    [pc : {"idle", "shard", "done"}, pattern : KeysPatterns \cup {<<>>}, now : Nat,
     shard : 0 .. NumShards, result : Seq(Keys), steady : SUBSET Keys]

\* KEYS has answered for the shards behind it.
KeysOK ==
    /\ keys \in KeysStates
    /\ keys.now <= clock
    /\ SteadyOK(keys.steady)
    /\ keys.pc # "idle" => keys.pattern \in KeysPatterns
    /\ keys.pc = "shard" => keys.shard < NumShards
    /\ keys.pc = "done" => keys.shard = NumShards
    /\ \A k \in Range(keys.result) : Fits(keys.pattern, k)
    /\ \A k \in keys.steady :
         ShardOf[k] < keys.shard /\ Fits(keys.pattern, k) => k \in Range(keys.result)

ScanStates ==
    [pc : {"idle", "shard", "answered"}, pattern : ScanPatterns \cup {<<>>}, count : Nat,
     type : TypeFilters \cup {AnyType}, cursor : Nat, now : Nat, shard_idx : 0 .. NumShards,
     offset : Nat, scanned : Nat, matched : Seq(Keys), returned : Seq(Keys),
     steady : SUBSET Keys, shaken : SUBSET ShardIndexes, calm : BOOLEAN]

Picks(st, k) == Fits(st.pattern, k) /\ st.type \in {AnyType, TypeOf[k]}
Found(st) == st.returned \o st.matched

\* The iteration has k behind it.
Behind(st, k) ==
    \/ ShardOf[k] < st.shard_idx
    \/ /\ ShardOf[k] = st.shard_idx
       /\ \E i \in DOMAIN order[ShardOf[k]] : i <= st.offset /\ order[ShardOf[k]][i] = k

\* Where the iteration is and what it has found there.
WalkOK(st) ==
    /\ st \in ScanStates
    /\ st.now <= clock
    /\ SteadyOK(st.steady)
    /\ st.offset < OFFSET_RANGE
    /\ st.scanned > 0 => st.shard_idx > 0 \/ st.offset > 0
    /\ IF st.pc = "idle" THEN st.steady = {} ELSE st.pattern \in ScanPatterns
    /\ \A k \in Range(Found(st)) : Picks(st, k)
    /\ \A k \in st.steady :
         Picks(st, k) /\ ShardOf[k] \notin st.shaken /\ Behind(st, k) => k \in Range(Found(st))
    /\ st.calm => IsInjective(Found(st)) /\ \A k \in Range(Found(st)) : Behind(st, k)

\* Whether a call is under way or has answered.
PhaseOK(st) ==
    /\ st.pc = "shard" => st.shard_idx < NumShards /\ st.scanned < TargetScan(st.count)
    /\ st.pc = "answered" =>
         /\ st.matched = <<>>
         /\ st.cursor = Cursor(st.shard_idx, st.offset)
         /\ st.shard_idx < NumShards => st.shard_idx > 0 \/ st.offset > 0

ScanInv ==
    /\ MapOK
    /\ KeysOK
    /\ WalkOK(scan)
    /\ PhaseOK(scan)

-----------------------------------------------------------------------------
(* Sequences *)

\* What is in a sequence with one more element.
LEMMA RangeAppend ==
    ASSUME NEW q \in Seq(Keys), NEW x \in Keys
    PROVE  /\ Append(q, x) \in Seq(Keys)
           /\ Range(Append(q, x)) = Range(q) \cup {x}
           /\ IsInjective(q) /\ x \notin Range(q) => IsInjective(Append(q, x))
<1>1. /\ Append(q, x) \in Seq(Keys) /\ Len(Append(q, x)) = Len(q) + 1
      /\ \A i \in 1 .. Len(q) : Append(q, x)[i] = q[i]
      /\ Append(q, x)[Len(q) + 1] = x
      /\ Len(q) \in Nat
  BY AppendProperties, LenProperties
<1>2. DOMAIN q = 1 .. Len(q) /\ DOMAIN Append(q, x) = 1 .. Len(q) + 1
  BY <1>1, LenProperties
<1>3. Range(Append(q, x)) = Range(q) \cup {x}
  <2>1. ASSUME NEW y \in Range(Append(q, x))
        PROVE  y \in Range(q) \cup {x}
    <3>1. PICK i \in 1 .. Len(q) + 1 : y = Append(q, x)[i]
      BY <1>2, <2>1 DEF Range
    <3>2. CASE i = Len(q) + 1
      BY <1>1, <3>1, <3>2
    <3>3. CASE i # Len(q) + 1
      <4>1. i \in 1 .. Len(q)
        BY <1>1, <3>3
      <4> QED BY <1>1, <1>2, <3>1, <4>1 DEF Range
    <3> QED BY <3>2, <3>3
  <2>2. ASSUME NEW y \in Range(q)
        PROVE  y \in Range(Append(q, x))
    <3>1. PICK i \in 1 .. Len(q) : y = q[i]
      BY <1>2, <2>2 DEF Range
    <3>2. i \in 1 .. Len(q) + 1
      BY <1>1
    <3> QED BY <1>1, <1>2, <3>1, <3>2 DEF Range
  <2>3. x \in Range(Append(q, x))
    <3>1. Len(q) + 1 \in 1 .. Len(q) + 1
      BY <1>1
    <3> QED BY <1>1, <1>2, <3>1 DEF Range
  <2> QED BY <2>1, <2>2, <2>3
<1>4. ASSUME IsInjective(q), x \notin Range(q)
      PROVE  IsInjective(Append(q, x))
  <2>1. ASSUME NEW a \in 1 .. Len(q) + 1, NEW b \in 1 .. Len(q) + 1,
               Append(q, x)[a] = Append(q, x)[b]
        PROVE  a = b
    <3>0. \A i \in 1 .. Len(q) : q[i] # x
      BY <1>2, <1>4 DEF Range
    <3>1. CASE a \in 1 .. Len(q) /\ b \in 1 .. Len(q)
      BY <1>1, <1>2, <1>4, <2>1, <3>1 DEF IsInjective
    <3>2. CASE a = Len(q) + 1 /\ b \in 1 .. Len(q)
      BY <1>1, <2>1, <3>0, <3>2
    <3>3. CASE a \in 1 .. Len(q) /\ b = Len(q) + 1
      BY <1>1, <2>1, <3>0, <3>3
    <3>4. CASE a = Len(q) + 1 /\ b = Len(q) + 1
      BY <3>4
    <3>5. \A i \in 1 .. Len(q) + 1 : i \in 1 .. Len(q) \/ i = Len(q) + 1
      BY <1>1
    <3> QED BY <3>1, <3>2, <3>3, <3>4, <3>5
  <2> QED BY <1>2, <2>1 DEF IsInjective
<1> QED BY <1>1, <1>3, <1>4

\* What is in two sequences put together.
LEMMA RangeConcat ==
    ASSUME NEW p \in Seq(Keys), NEW q \in Seq(Keys)
    PROVE  /\ p \o q \in Seq(Keys)
           /\ Range(p \o q) = Range(p) \cup Range(q)
           /\ IsInjective(p) /\ IsInjective(q) /\ Range(p) \cap Range(q) = {}
                => IsInjective(p \o q)
<1> DEFINE m == Len(p)
           n == Len(q)
<1>0. /\ m \in Nat /\ n \in Nat
      /\ DOMAIN p = 1 .. m /\ DOMAIN q = 1 .. n
  BY LenProperties
<1>1. /\ p \o q \in Seq(Keys) /\ Len(p \o q) = m + n
      /\ \A i \in 1 .. m + n : (p \o q)[i] = IF i <= m THEN p[i] ELSE q[i - m]
  BY ConcatProperties
<1>2. DOMAIN (p \o q) = 1 .. m + n
  BY <1>1, LenProperties
<1> HIDE DEF m, n
<1>3. ASSUME NEW y \in Range(p \o q)
      PROVE  y \in Range(p) \cup Range(q)
  <2>1. PICK i \in 1 .. m + n : y = (p \o q)[i]
    BY <1>2, <1>3 DEF Range
  <2>2. CASE i <= m
    <3>1. i \in DOMAIN p /\ y = p[i]
      BY <1>0, <1>1, <2>1, <2>2
    <3> QED BY <3>1 DEF Range
  <2>3. CASE ~(i <= m)
    <3>1. i - m \in DOMAIN q /\ y = q[i - m]
      BY <1>0, <1>1, <2>1, <2>3
    <3> QED BY <3>1 DEF Range
  <2> QED BY <2>2, <2>3
<1>4. ASSUME NEW y \in Range(p)
      PROVE  y \in Range(p \o q)
  <2>1. PICK i \in 1 .. m : y = p[i]
    BY <1>0, <1>4 DEF Range
  <2>2. i \in 1 .. m + n /\ (p \o q)[i] = y
    BY <1>0, <1>1, <2>1
  <2> QED BY <1>2, <2>2 DEF Range
<1>5. ASSUME NEW y \in Range(q)
      PROVE  y \in Range(p \o q)
  <2>1. PICK i \in 1 .. n : y = q[i]
    BY <1>0, <1>5 DEF Range
  <2>2. i + m \in 1 .. m + n /\ ~(i + m <= m) /\ (i + m) - m = i
    BY <1>0, <2>1
  <2>3. (p \o q)[i + m] = y
    BY <1>1, <2>1, <2>2
  <2> QED BY <1>2, <2>2, <2>3 DEF Range
<1>6. ASSUME IsInjective(p), IsInjective(q), Range(p) \cap Range(q) = {}
      PROVE  IsInjective(p \o q)
  <2>1. ASSUME NEW a \in 1 .. m + n, NEW b \in 1 .. m + n, (p \o q)[a] = (p \o q)[b]
        PROVE  a = b
    <3>0. \A i \in 1 .. m, j \in 1 .. n : p[i] # q[j]
      BY <1>0, <1>6 DEF Range
    <3>1. CASE a <= m /\ b <= m
      <4>1. a \in DOMAIN p /\ b \in DOMAIN p /\ p[a] = p[b]
        BY <1>0, <1>1, <2>1, <3>1
      <4> QED BY <1>6, <4>1 DEF IsInjective
    <3>2. CASE ~(a <= m) /\ ~(b <= m)
      <4>1. a - m \in DOMAIN q /\ b - m \in DOMAIN q /\ q[a - m] = q[b - m]
        BY <1>0, <1>1, <2>1, <3>2
      <4>2. a - m = b - m
        BY <1>6, <4>1 DEF IsInjective
      <4> QED BY <1>0, <4>2
    <3>3. CASE a <= m /\ ~(b <= m)
      <4>1. a \in 1 .. m /\ b - m \in 1 .. n /\ p[a] = q[b - m]
        BY <1>0, <1>1, <2>1, <3>3
      <4> QED BY <3>0, <4>1
    <3>4. CASE ~(a <= m) /\ b <= m
      <4>1. b \in 1 .. m /\ a - m \in 1 .. n /\ p[b] = q[a - m]
        BY <1>0, <1>1, <2>1, <3>4
      <4> QED BY <3>0, <4>1
    <3> QED BY <3>1, <3>2, <3>3, <3>4
  <2> QED BY <1>2, <2>1 DEF IsInjective
<1> QED BY <1>1, <1>3, <1>4, <1>5, <1>6

\* The first n elements, filtered.
OnlyStep(s, S, n, q) == IF s[n] \in S THEN Append(q, s[n]) ELSE q
FirstOf(s, n) == {s[j] : j \in 1 .. n}
OnlyGood(s, S, n, q) ==
    /\ q \in Seq(Keys)
    /\ Range(q) = FirstOf(s, n) \cap S
    /\ IsInjective(s) => IsInjective(q)

\* One more element.
LEMMA OnlyGrows ==
    ASSUME NEW s \in Seq(Keys), NEW S, NEW n \in 1 .. Len(s), NEW q, OnlyGood(s, S, n - 1, q)
    PROVE  OnlyGood(s, S, n, OnlyStep(s, S, n, q))
<1>0. Len(s) \in Nat /\ DOMAIN s = 1 .. Len(s) /\ s[n] \in Keys
  BY LenProperties, ElementOfSeq
<1>1. FirstOf(s, n) = FirstOf(s, n - 1) \cup {s[n]}
  <2>1. 1 .. n = (1 .. n - 1) \cup {n}
    BY <1>0
  <2> QED BY <2>1 DEF FirstOf
<1>2. CASE s[n] \in S
  <2>1. OnlyStep(s, S, n, q) = Append(q, s[n])
    BY <1>2 DEF OnlyStep
  <2>2. Append(q, s[n]) \in Seq(Keys) /\ Range(Append(q, s[n])) = Range(q) \cup {s[n]}
    BY <1>0, RangeAppend DEF OnlyGood
  <2>3. ASSUME IsInjective(s)
        PROVE  IsInjective(Append(q, s[n]))
    <3>1. s[n] \notin FirstOf(s, n - 1)
      <4> SUFFICES ASSUME NEW j \in 1 .. n - 1, s[j] = s[n]
                   PROVE  FALSE
        BY DEF FirstOf
      <4>1. j \in DOMAIN s /\ n \in DOMAIN s /\ j # n
        BY <1>0
      <4> QED BY <2>3, <4>1 DEF IsInjective
    <3> QED BY <1>0, <2>3, <3>1, RangeAppend DEF OnlyGood
  <2>4. Range(Append(q, s[n])) = FirstOf(s, n) \cap S
    BY <1>1, <1>2, <2>2 DEF OnlyGood
  <2> QED BY <2>1, <2>2, <2>3, <2>4 DEF OnlyGood
<1>3. CASE s[n] \notin S
  <2>1. OnlyStep(s, S, n, q) = q
    BY <1>3 DEF OnlyStep
  <2>2. FirstOf(s, n) \cap S = FirstOf(s, n - 1) \cap S
    BY <1>1, <1>3
  <2> QED BY <2>1, <2>2 DEF OnlyGood
<1> QED BY <1>2, <1>3

\* The recursion of Only has a value.
OnlySteps(s, S, m, g) ==
    /\ DOMAIN g = 0 .. m
    /\ g = [n \in 0 .. m |-> g[n]]
    /\ g[0] = <<>>
    /\ \A n \in 1 .. m : g[n] = OnlyStep(s, S, n, g[n - 1])

LEMMA OnlyExists ==
    ASSUME NEW s, NEW S, NEW N \in Nat
    PROVE  \E g : OnlySteps(s, S, N, g)
<1> DEFINE Good(m) == \E g : OnlySteps(s, S, m, g)
           T == {m \in 0 .. N : ~Good(m)}
<1>1. Good(0)
  <2> DEFINE g == [n \in 0 .. 0 |-> <<>>]
  <2>1. OnlySteps(s, S, 0, g)
    BY DEF OnlySteps
  <2> QED BY <2>1
<1>2. ASSUME NEW m \in 1 .. N, Good(m - 1)
      PROVE  Good(m)
  <2>1. PICK h : OnlySteps(s, S, m - 1, h)
    BY <1>2
  <2> DEFINE g == [n \in 0 .. m |-> IF n = m THEN OnlyStep(s, S, m, h[m - 1]) ELSE h[n]]
  <2>2. DOMAIN g = 0 .. m /\ g = [n \in 0 .. m |-> g[n]]
    OBVIOUS
  <2>3. g[0] = <<>>
    BY <2>1 DEF OnlySteps
  <2>4. ASSUME NEW n \in 1 .. m
        PROVE  g[n] = OnlyStep(s, S, n, g[n - 1])
    <3>1. n - 1 \in 0 .. m /\ n - 1 # m /\ n \in 0 .. m
      OBVIOUS
    <3>2. g[n - 1] = h[n - 1]
      BY <3>1
    <3>3. CASE n = m
      BY <3>1, <3>2, <3>3
    <3>4. CASE n # m
      <4>1. n \in 1 .. m - 1
        BY <3>4
      <4>2. h[n] = OnlyStep(s, S, n, h[n - 1]) /\ g[n] = h[n]
        BY <2>1, <3>1, <3>4, <4>1 DEF OnlySteps
      <4> QED BY <3>2, <4>2
    <3> QED BY <3>3, <3>4
  <2> HIDE DEF g
  <2>5. OnlySteps(s, S, m, g)
    BY <2>2, <2>3, <2>4 DEF OnlySteps
  <2> QED BY <2>5
<1> HIDE DEF Good
<1>3. T = {}
  <2> SUFFICES ASSUME T # {}
               PROVE  FALSE
    OBVIOUS
  <2>1. T \in SUBSET Nat /\ T \subseteq 0 .. N /\ \A n \in 0 .. N : n \in T <=> ~Good(n)
    OBVIOUS
  <2> HIDE DEF T
  <2>2. PICK m \in T : \A n \in T : m <= n
    BY <2>1, LeastOf
  <2>3. m \in 1 .. N /\ ~Good(m)
    BY <1>1, <2>1
  <2>4. m - 1 \in 0 .. N /\ ~(m <= m - 1)
    BY <2>3
  <2>5. Good(m - 1)
    BY <2>1, <2>2, <2>4
  <2> QED BY <1>2, <2>3, <2>5
<1>4. N \in 0 .. N
  OBVIOUS
<1>5. Good(N)
  BY <1>3, <1>4
<1> QED BY <1>5 DEF Good

\* Only keeps the elements in S, each as often as it was there.
LEMMA OnlyFacts ==
    ASSUME NEW s \in Seq(Keys), NEW S
    PROVE  /\ Only(s, S) \in Seq(Keys)
           /\ Range(Only(s, S)) = Range(s) \cap S
           /\ IsInjective(s) => IsInjective(Only(s, S))
<1> DEFINE N == Len(s)
           F(h) == [n \in 0 .. N |-> IF n = 0 THEN <<>> ELSE OnlyStep(s, S, n, h[n - 1])]
           taken == CHOOSE h : h = F(h)
<1>0. N \in Nat /\ DOMAIN s = 1 .. N
  BY LenProperties
<1>1. Only(s, S) = taken[N]
  BY DEF Only, OnlyStep
<1> HIDE DEF N
<1>2. PICK g : OnlySteps(s, S, N, g)
  BY <1>0, OnlyExists
<1>3. g = F(g)
  <2>1. \A n \in 0 .. N : g[n] = IF n = 0 THEN <<>> ELSE OnlyStep(s, S, n, g[n - 1])
    <3> SUFFICES ASSUME NEW n \in 0 .. N
                 PROVE  g[n] = IF n = 0 THEN <<>> ELSE OnlyStep(s, S, n, g[n - 1])
      OBVIOUS
    <3>1. n = 0 \/ n \in 1 .. N
      BY <1>0
    <3> QED BY <1>2, <3>1 DEF OnlySteps
  <2>2. g = [n \in 0 .. N |-> g[n]]
    BY <1>2 DEF OnlySteps
  <2> QED BY <2>1, <2>2
<1>4. taken = F(taken)
  <2> HIDE DEF F
  <2> QED BY <1>3
<1> HIDE DEF taken
<1>5. taken[0] = <<>> /\ \A n \in 1 .. N : taken[n] = OnlyStep(s, S, n, taken[n - 1])
  BY <1>0, <1>4
<1> DEFINE T == {n \in 0 .. N : ~OnlyGood(s, S, n, taken[n])}
<1>6. OnlyGood(s, S, 0, taken[0])
  <2>1. <<>> \in Seq(Keys) /\ DOMAIN <<>> = {}
    BY EmptySeq, LenProperties
  <2>2. Range(<<>>) = {} /\ FirstOf(s, 0) = {} /\ IsInjective(<<>>)
    BY <2>1 DEF Range, FirstOf, IsInjective
  <2> QED BY <1>5, <2>1, <2>2 DEF OnlyGood
<1>7. T = {}
  <2> SUFFICES ASSUME T # {}
               PROVE  FALSE
    OBVIOUS
  <2>1. /\ T \in SUBSET Nat /\ T \subseteq 0 .. N
        /\ \A n \in 0 .. N : n \in T <=> ~OnlyGood(s, S, n, taken[n])
    BY <1>0
  <2> HIDE DEF T
  <2>2. PICK m \in T : \A n \in T : m <= n
    BY <2>1, LeastOf
  <2>3. m \in 1 .. N /\ ~OnlyGood(s, S, m, taken[m])
    BY <1>0, <1>6, <2>1
  <2>4. m - 1 \in 0 .. N /\ ~(m <= m - 1)
    BY <1>0, <2>3
  <2>5. OnlyGood(s, S, m - 1, taken[m - 1])
    BY <2>1, <2>2, <2>4
  <2>6. OnlyGood(s, S, m, OnlyStep(s, S, m, taken[m - 1]))
    BY <2>3, <2>5, OnlyGrows DEF N
  <2> QED BY <1>5, <2>3, <2>6
<1>8. OnlyGood(s, S, N, taken[N])
  BY <1>0, <1>7
<1>9. FirstOf(s, N) = Range(s)
  BY <1>0 DEF FirstOf, Range
<1> QED BY <1>1, <1>8, <1>9 DEF OnlyGood

\* What a map can be iterated as: keys, each once.
LEMMA OrderFacts ==
    ASSUME NEW S \in SUBSET Keys, NEW o \in Orders(S)
    PROVE  o \in Seq(Keys) /\ IsInjective(o) /\ Range(o) = S
<1>1. IsFiniteSet(S)
  BY ScanAssumption, FS_Subset
<1> DEFINE n == Cardinality(S)
<1>2. n \in Nat
  BY <1>1, FS_CardinalityType
<1>3. o \in [1 .. n -> S] /\ Range(o) = S
  BY DEF Orders
<1>4. IsFiniteSet(1 .. n) /\ Cardinality(1 .. n) = n
  <2> HIDE DEF n
  <2>1. 1 \in Int /\ n \in Int
    BY <1>2
  <2>2. IsFiniteSet(1 .. n) /\ Cardinality(1 .. n) = IF 1 > n THEN 0 ELSE n - 1 + 1
    BY <2>1, FS_Interval
  <2> QED BY <1>2, <2>2
<1>5. o \in Surjection(1 .. n, S)
  <2>1. \A t \in S : \E s \in 1 .. n : o[s] = t
    BY <1>3 DEF Range
  <2> HIDE DEF n
  <2> QED BY <1>3, <2>1 DEF Surjection
<1>6. o \in Injection(1 .. n, S)
  BY <1>4, <1>5, FS_SurjSameCardinalityImpliesInj
<1>7. IsInjective(o)
  BY <1>6 DEF Injection
<1>8. o \in Seq(Keys)
  <2> HIDE DEF n
  <2>1. o \in [1 .. n -> Keys]
    BY <1>3
  <2>2. o = [i \in 1 .. n |-> o[i]] /\ \A i \in 1 .. n : o[i] \in Keys
    BY <2>1
  <2>3. [i \in 1 .. n |-> o[i]] \in Seq(Keys)
    BY <1>2, <2>2, IsASeq
  <2> QED BY <2>2, <2>3
<1> QED BY <1>3, <1>7, <1>8

\* There are fewer of them than offsets.
LEMMA OrderLength ==
    ASSUME NEW o \in Seq(Keys), IsInjective(o)
    PROVE  Len(o) < OFFSET_RANGE
<1> DEFINE n == Len(o)
<1>1. n \in Nat /\ o \in [1 .. n -> Keys]
  BY LenProperties
<1> HIDE DEF n
<1>2. IsFiniteSet(Keys) /\ Cardinality(Keys) \in Nat
  BY ScanAssumption, FS_CardinalityType
<1>3. o \in Injection(1 .. n, Keys)
  BY <1>1 DEF Injection
<1>4. Cardinality(1 .. n) <= Cardinality(Keys)
  BY <1>2, <1>3, FS_Injection
<1>5. Cardinality(1 .. n) = n
  <2>1. 1 \in Int /\ n \in Int
    BY <1>1
  <2>2. Cardinality(1 .. n) = IF 1 > n THEN 0 ELSE n - 1 + 1
    BY <2>1, FS_Interval
  <2> QED BY <1>1, <2>2
<1>6. n < OFFSET_RANGE
  BY <1>1, <1>2, <1>4, <1>5, ScanAssumption
<1> QED BY <1>6 DEF n

\* A part of an order.
LEMMA PartFacts ==
    ASSUME NEW s \in Seq(Keys), IsInjective(s), NEW m \in Nat \ {0}, NEW b \in Nat, b <= Len(s)
    PROVE  /\ SubSeq(s, m, b) \in Seq(Keys)
           /\ IsInjective(SubSeq(s, m, b))
           /\ \A x : x \in Range(SubSeq(s, m, b)) <=> \E i \in m .. b : s[i] = x
<1> DEFINE p == SubSeq(s, m, b)
           a == m - 1
           n == IF a + 1 <= b THEN b - a ELSE 0
<1>1. Len(s) \in Nat /\ DOMAIN s = 1 .. Len(s) /\ a \in Nat /\ m = a + 1
  BY LenProperties
<1>2. /\ p \in Seq(Keys)
      /\ Len(p) = IF a + 1 <= b THEN b - (a + 1) + 1 ELSE 0
      /\ \A i \in 1 .. b - (a + 1) + 1 : p[i] = s[a + 1 + i - 1]
  <2>1. a + 1 \in Int /\ b \in Int /\ \A i \in a + 1 .. b : i \in 1 .. Len(s)
    BY <1>1
  <2>2. \A i \in a + 1 .. b : s[i] \in Keys
    BY <2>1, ElementOfSeq
  <2>3. p = SubSeq(s, a + 1, b)
    BY <1>1
  <2> HIDE DEF a, p
  <2> QED BY <2>1, <2>2, <2>3, SubSeqProperties
<1> HIDE DEF a
<1>3. n \in Nat /\ DOMAIN p = 1 .. n /\ \A i \in 1 .. n : p[i] = s[a + i]
  <2>1. Len(p) = n /\ n \in Nat
    BY <1>1, <1>2
  <2>2. DOMAIN p = 1 .. n
    BY <1>2, <2>1, LenProperties
  <2>3. \A i \in 1 .. n : i \in 1 .. b - (a + 1) + 1 /\ a + 1 + i - 1 = a + i
    BY <1>1
  <2> QED BY <1>2, <2>1, <2>2, <2>3
<1>4. \A i \in 1 .. n : a + i \in a + 1 .. b /\ a + i \in 1 .. Len(s)
  BY <1>1
<1>5. \A i \in a + 1 .. b : i - a \in 1 .. n /\ a + (i - a) = i
  BY <1>1
<1> HIDE DEF p, n
<1>6. IsInjective(p)
  <2> SUFFICES ASSUME NEW i \in 1 .. n, NEW j \in 1 .. n, p[i] = p[j]
               PROVE  i = j
    BY <1>3 DEF IsInjective
  <2>1. a + i \in DOMAIN s /\ a + j \in DOMAIN s /\ s[a + i] = s[a + j]
    BY <1>1, <1>3, <1>4
  <2>2. a + i = a + j
    BY <2>1 DEF IsInjective
  <2> QED BY <1>1, <1>3, <2>2
<1>7. ASSUME NEW x
      PROVE  x \in Range(p) <=> \E i \in a + 1 .. b : s[i] = x
  <2>1. ASSUME x \in Range(p)
        PROVE  \E i \in a + 1 .. b : s[i] = x
    <3>1. PICK i \in 1 .. n : p[i] = x
      BY <1>3, <2>1 DEF Range
    <3> QED BY <1>3, <1>4, <3>1
  <2>2. ASSUME NEW i \in a + 1 .. b, s[i] = x
        PROVE  x \in Range(p)
    <3>1. i - a \in 1 .. n /\ p[i - a] = x
      BY <1>3, <1>5, <2>2
    <3> QED BY <1>3, <3>1 DEF Range
  <2> QED BY <2>1, <2>2
<1> QED BY <1>1, <1>2, <1>6, <1>7 DEF p

\* A key inserted: what was there moves back by one place at most.
LEMMA InsertFacts ==
    ASSUME NEW s \in Seq(Keys), IsInjective(s), NEW k \in Keys, k \notin Range(s),
           NEW i \in 1 .. Len(s) + 1
    PROVE  LET o == InsertAt(s, i, k)
           IN  /\ o \in Seq(Keys)
               /\ IsInjective(o)
               /\ Range(o) = Range(s) \cup {k}
               /\ \A j \in DOMAIN o : o[j] = k \/ \E h \in DOMAIN s : h <= j /\ s[h] = o[j]
<1> DEFINE p == SubSeq(s, 1, i - 1)
           q == SubSeq(s, i, Len(s))
           u == p \o <<k>>
           o == u \o q
<1>0. Len(s) \in Nat /\ DOMAIN s = 1 .. Len(s)
  BY LenProperties
<1>1. /\ p \in Seq(Keys) /\ IsInjective(p)
      /\ \A x : x \in Range(p) <=> \E j \in 1 .. i - 1 : s[j] = x
  <2>1. 1 \in Nat \ {0} /\ i - 1 \in Nat /\ i - 1 <= Len(s)
    BY <1>0
  <2> QED BY <2>1, PartFacts
<1>2. /\ q \in Seq(Keys) /\ IsInjective(q)
      /\ \A x : x \in Range(q) <=> \E j \in i .. Len(s) : s[j] = x
  <2>1. i \in Nat \ {0} /\ Len(s) \in Nat /\ Len(s) <= Len(s)
    BY <1>0
  <2> QED BY <2>1, PartFacts
<1>3. /\ Len(p) = i - 1 /\ \A j \in 1 .. i - 1 : p[j] = s[j]
      /\ \A j \in 1 .. Len(q) : q[j] = s[i + j - 1] /\ i + j - 1 \in 1 .. Len(s)
      /\ Len(q) \in Nat
  <2>1. \A j \in 1 .. Len(s) : s[j] \in Keys
    BY ElementOfSeq
  <2>2. /\ Len(p) = IF 1 <= i - 1 THEN i - 1 - 1 + 1 ELSE 0
        /\ \A j \in 1 .. i - 1 - 1 + 1 : p[j] = s[1 + j - 1]
    <3>1. 1 \in Int /\ i - 1 \in Int /\ \A j \in 1 .. i - 1 : s[j] \in Keys
      BY <1>0, <2>1
    <3> QED BY <3>1, SubSeqProperties
  <2>3. /\ Len(q) = IF i <= Len(s) THEN Len(s) - i + 1 ELSE 0
        /\ \A j \in 1 .. Len(s) - i + 1 : q[j] = s[i + j - 1]
    <3>1. i \in Int /\ Len(s) \in Int /\ \A j \in i .. Len(s) : s[j] \in Keys
      BY <1>0, <2>1
    <3> QED BY <3>1, SubSeqProperties
  <2>4. Len(p) = i - 1
    BY <1>0, <2>2
  <2>5. \A j \in 1 .. i - 1 : p[j] = s[j]
    <3> SUFFICES ASSUME NEW j \in 1 .. i - 1
                 PROVE  p[j] = s[j]
      OBVIOUS
    <3>1. j \in 1 .. i - 1 - 1 + 1 /\ 1 + j - 1 = j
      BY <1>0
    <3> QED BY <2>2, <3>1
  <2>6. Len(q) = Len(s) - i + 1
    BY <1>0, <2>3
  <2> HIDE DEF p, q
  <2>7. \A j \in 1 .. Len(q) : q[j] = s[i + j - 1] /\ i + j - 1 \in 1 .. Len(s)
    BY <1>0, <2>3, <2>6
  <2>8. Len(q) \in Nat
    BY <1>0, <2>6
  <2> QED BY <2>4, <2>5, <2>7, <2>8
<1>4. /\ <<k>> \in Seq(Keys) /\ IsInjective(<<k>>) /\ Range(<<k>>) = {k}
      /\ Len(<<k>>) = 1 /\ <<k>>[1] = k
  BY DEF IsInjective, Range
<1>5. \A x : x \in Range(s) <=> \E j \in 1 .. Len(s) : s[j] = x
  BY <1>0 DEF Range
<1>6. Range(p) \cap {k} = {} /\ Range(q) \cap {k} = {} /\ Range(p) \cap Range(q) = {}
  <2>1. \A j \in 1 .. i - 1 : j \in 1 .. Len(s)
    BY <1>0
  <2>2. \A j \in i .. Len(s) : j \in 1 .. Len(s)
    BY <1>0
  <2>3. k \notin Range(p) /\ k \notin Range(q)
    BY <1>1, <1>2, <1>5, <2>1, <2>2
  <2>4. ASSUME NEW a \in 1 .. i - 1, NEW b \in i .. Len(s), s[a] = s[b]
        PROVE  FALSE
    <3>1. a \in DOMAIN s /\ b \in DOMAIN s /\ a # b
      BY <1>0
    <3> QED BY <2>4, <3>1 DEF IsInjective
  <2>5. ASSUME NEW x \in Range(p), x \in Range(q)
        PROVE  FALSE
    <3>1. PICK a \in 1 .. i - 1 : s[a] = x
      BY <1>1, <2>5
    <3>2. PICK b \in i .. Len(s) : s[b] = x
      BY <1>2, <2>5
    <3> QED BY <2>4, <3>1, <3>2
  <2> QED BY <2>3, <2>5
<1>7. InsertAt(s, i, k) = o
  BY DEF InsertAt
<1> HIDE DEF p, q
<1>8. u \in Seq(Keys) /\ Range(u) = Range(p) \cup {k} /\ IsInjective(u)
  BY <1>1, <1>4, <1>6, RangeConcat
<1>9. Len(u) = i /\ \A j \in 1 .. i : u[j] = IF j <= i - 1 THEN p[j] ELSE k
  <2>1. Len(u) = Len(p) + 1
        /\ \A j \in 1 .. Len(p) + 1 : u[j] = IF j <= Len(p) THEN p[j] ELSE <<k>>[j - Len(p)]
    BY <1>1, <1>4, ConcatProperties
  <2>2. (i - 1) + 1 = i /\ i \in Nat
    BY <1>0
  <2>3. \A j \in 1 .. i : j <= i - 1 \/ j - (i - 1) = 1
    BY <2>2
  <2> HIDE DEF u
  <2> QED BY <1>3, <1>4, <2>1, <2>2, <2>3
<1> HIDE DEF u
<1>10. o \in Seq(Keys) /\ Range(o) = Range(u) \cup Range(q) /\ IsInjective(o)
  <2>1. Range(u) \cap Range(q) = {}
    BY <1>6, <1>8
  <2> QED BY <1>2, <1>8, <2>1, RangeConcat
<1>11. /\ DOMAIN o = 1 .. i + Len(q)
       /\ \A j \in 1 .. i + Len(q) : o[j] = IF j <= i THEN u[j] ELSE q[j - i]
  <2>1. /\ Len(o) = Len(u) + Len(q)
        /\ \A j \in 1 .. Len(u) + Len(q) : o[j] = IF j <= Len(u) THEN u[j] ELSE q[j - Len(u)]
    BY <1>2, <1>8, ConcatProperties
  <2>2. DOMAIN o = 1 .. Len(o)
    BY <1>10, LenProperties
  <2> HIDE DEF o
  <2> QED BY <1>9, <2>1, <2>2
<1> HIDE DEF o
<1>12. Range(o) = Range(s) \cup {k}
  <2>1. \A j \in 1 .. Len(s) : j \in 1 .. i - 1 \/ j \in i .. Len(s)
    BY <1>0
  <2>2. \A j \in 1 .. i - 1 : j \in 1 .. Len(s)
    BY <1>0
  <2>3. \A j \in i .. Len(s) : j \in 1 .. Len(s)
    BY <1>0
  <2>4. \A x : x \in Range(s) <=> x \in Range(p) \/ x \in Range(q)
    BY <1>1, <1>2, <1>5, <2>1, <2>2, <2>3
  <2> QED BY <1>8, <1>10, <2>4
<1>13. ASSUME NEW j \in DOMAIN o
       PROVE  o[j] = k \/ \E h \in DOMAIN s : h <= j /\ s[h] = o[j]
  <2>0. j \in 1 .. i + Len(q)
    BY <1>11
  <2>1. CASE j <= i - 1
    <3>1. j \in 1 .. i - 1 /\ j \in 1 .. i /\ j <= i /\ j \in DOMAIN s /\ j <= j
      BY <1>0, <2>0, <2>1
    <3>2. o[j] = s[j]
      BY <1>3, <1>9, <1>11, <2>0, <2>1, <3>1
    <3> QED BY <3>1, <3>2
  <2>2. CASE j = i
    <3>1. j \in 1 .. i /\ j <= i /\ ~(j <= i - 1)
      BY <1>0, <2>2
    <3>2. o[j] = k
      BY <1>9, <1>11, <2>0, <3>1
    <3> QED BY <3>2
  <2>3. CASE ~(j <= i)
    <3>1. j - i \in 1 .. Len(q)
      BY <1>0, <1>3, <2>0, <2>3
    <3>2. o[j] = s[i + (j - i) - 1] /\ i + (j - i) - 1 \in 1 .. Len(s)
      BY <1>3, <1>11, <2>0, <2>3, <3>1
    <3>3. i + (j - i) - 1 = j - 1 /\ j - 1 <= j
      BY <1>0, <2>0
    <3> QED BY <1>0, <3>2, <3>3
  <2> QED BY <1>0, <2>0, <2>1, <2>2, <2>3
<1> QED BY <1>7, <1>10, <1>12, <1>13

\* A key removed: what was before it stays where it was.
LEMMA RemoveFacts ==
    ASSUME NEW s \in Seq(Keys), IsInjective(s), NEW i \in DOMAIN s
    PROVE  LET o == RemoveAt(s, i)
           IN  /\ o \in Seq(Keys)
               /\ IsInjective(o)
               /\ Range(o) = Range(s) \ {s[i]}
               /\ \A j \in DOMAIN o : j < i => j \in DOMAIN s /\ s[j] = o[j]
<1> DEFINE p == SubSeq(s, 1, i - 1)
           q == SubSeq(s, i + 1, Len(s))
           o == p \o q
<1>0. Len(s) \in Nat /\ DOMAIN s = 1 .. Len(s) /\ i \in 1 .. Len(s)
  BY LenProperties
<1>1. /\ p \in Seq(Keys) /\ IsInjective(p)
      /\ \A x : x \in Range(p) <=> \E j \in 1 .. i - 1 : s[j] = x
  <2>1. 1 \in Nat \ {0} /\ i - 1 \in Nat /\ i - 1 <= Len(s)
    BY <1>0
  <2> QED BY <2>1, PartFacts
<1>2. /\ q \in Seq(Keys) /\ IsInjective(q)
      /\ \A x : x \in Range(q) <=> \E j \in i + 1 .. Len(s) : s[j] = x
  <2>1. i + 1 \in Nat \ {0} /\ Len(s) \in Nat /\ Len(s) <= Len(s)
    BY <1>0
  <2> QED BY <2>1, PartFacts
<1>3. Len(p) = i - 1 /\ \A j \in 1 .. i - 1 : p[j] = s[j]
  <2>1. \A j \in 1 .. i - 1 : s[j] \in Keys
    BY <1>0, ElementOfSeq
  <2>2. /\ Len(p) = IF 1 <= i - 1 THEN i - 1 - 1 + 1 ELSE 0
        /\ \A j \in 1 .. i - 1 - 1 + 1 : p[j] = s[1 + j - 1]
    <3>1. 1 \in Int /\ i - 1 \in Int
      BY <1>0
    <3> QED BY <2>1, <3>1, SubSeqProperties
  <2>3. Len(p) = i - 1
    BY <1>0, <2>2
  <2>4. ASSUME NEW j \in 1 .. i - 1
        PROVE  p[j] = s[j]
    <3>1. j \in 1 .. i - 1 - 1 + 1 /\ 1 + j - 1 = j
      BY <1>0
    <3> QED BY <2>2, <3>1
  <2> QED BY <2>3, <2>4
<1>4. \A x : x \in Range(s) <=> \E j \in 1 .. Len(s) : s[j] = x
  BY <1>0 DEF Range
<1>5. \A a, b \in 1 .. Len(s) : s[a] = s[b] => a = b
  BY <1>0 DEF IsInjective
<1>6. Range(p) \cap Range(q) = {}
  <2> SUFFICES ASSUME NEW x \in Range(p), x \in Range(q)
               PROVE  FALSE
    OBVIOUS
  <2>1. PICK a \in 1 .. i - 1 : s[a] = x
    BY <1>1
  <2>2. PICK b \in i + 1 .. Len(s) : s[b] = x
    BY <1>2
  <2>3. a \in 1 .. Len(s) /\ b \in 1 .. Len(s) /\ a # b
    BY <1>0
  <2> QED BY <1>5, <2>1, <2>2, <2>3
<1>7. RemoveAt(s, i) = o
  BY DEF RemoveAt
<1> HIDE DEF p, q
<1>8. o \in Seq(Keys) /\ Range(o) = Range(p) \cup Range(q) /\ IsInjective(o)
  BY <1>1, <1>2, <1>6, RangeConcat
<1>9. Range(o) = Range(s) \ {s[i]}
  <2>1. ASSUME NEW x \in Range(p)
        PROVE  x \in Range(s) /\ x # s[i]
    <3>1. PICK a \in 1 .. i - 1 : s[a] = x
      BY <1>1, <2>1
    <3>2. a \in 1 .. Len(s) /\ a # i
      BY <1>0
    <3> QED BY <1>0, <1>4, <1>5, <3>1, <3>2
  <2>2. ASSUME NEW x \in Range(q)
        PROVE  x \in Range(s) /\ x # s[i]
    <3>1. PICK a \in i + 1 .. Len(s) : s[a] = x
      BY <1>2, <2>2
    <3>2. a \in 1 .. Len(s) /\ a # i
      BY <1>0
    <3> QED BY <1>0, <1>4, <1>5, <3>1, <3>2
  <2>3. ASSUME NEW x \in Range(s), x # s[i]
        PROVE  x \in Range(p) \/ x \in Range(q)
    <3>1. PICK a \in 1 .. Len(s) : s[a] = x
      BY <1>4, <2>3
    <3>2. a \in 1 .. i - 1 \/ a \in i + 1 .. Len(s)
      BY <1>0, <2>3, <3>1
    <3> QED BY <1>1, <1>2, <3>1, <3>2
  <2> HIDE DEF o
  <2> QED BY <1>8, <2>1, <2>2, <2>3
<1>10. ASSUME NEW j \in DOMAIN o, j < i
       PROVE  j \in DOMAIN s /\ s[j] = o[j]
  <2>1. /\ Len(o) = Len(p) + Len(q)
        /\ \A h \in 1 .. Len(p) + Len(q) : o[h] = IF h <= Len(p) THEN p[h] ELSE q[h - Len(p)]
    BY <1>1, <1>2, ConcatProperties
  <2>2. DOMAIN o = 1 .. Len(o) /\ Len(q) \in Nat
    BY <1>2, <1>8, LenProperties
  <2> HIDE DEF o
  <2>3. j \in 1 .. Len(p) + Len(q)
    BY <1>10, <2>1, <2>2
  <2>4. j \in 1 .. i - 1 /\ j <= Len(p) /\ j \in DOMAIN s
    BY <1>0, <1>3, <1>10, <2>2, <2>3
  <2> QED BY <1>3, <2>1, <2>3, <2>4
<1> QED BY <1>7, <1>8, <1>9, <1>10

\* The cursor holds a shard and an offset, and gives both back.
LEMMA CursorSplits ==
    ASSUME NEW a \in Nat, NEW b \in Nat, b < OFFSET_RANGE
    PROVE  /\ (a * OFFSET_RANGE + b) \div OFFSET_RANGE = a
           /\ (a * OFFSET_RANGE + b) % OFFSET_RANGE = b
           /\ a * OFFSET_RANGE + b \in Nat
           /\ a > 0 \/ b > 0 => a * OFFSET_RANGE + b > 0
<1> DEFINE N == OFFSET_RANGE
           c == a * N + b
<1>1. N \in Nat /\ N > 0 /\ b < N
  BY ScanAssumption
<1> HIDE DEF N
<1>2. a * N \in Nat
  BY <1>1
<1>3. c \in Nat
  BY <1>2
<1>4. c \div N = a
  BY <1>1, <1>2
<1>5. c % N = b
  BY <1>1, <1>2
<1>6. a > 0 => a * N > 0
  BY <1>1
<1> QED BY <1>2, <1>3, <1>4, <1>5, <1>6 DEF N

\* The smaller of two numbers.
LEMMA MinOfTwo ==
    ASSUME NEW a \in Int, NEW b \in Int
    PROVE  Min({a, b}) = IF a <= b THEN a ELSE b
<1>1. CASE a <= b
  <2>1. a \in {a, b} /\ \A y \in {a, b} : a =< y
    BY <1>1
  <2>2. \A x \in {a, b} : (\A y \in {a, b} : x =< y) => x = a
    BY <1>1
  <2> QED BY <1>1, <2>1, <2>2 DEF Min
<1>2. CASE ~(a <= b)
  <2>1. b \in {a, b} /\ \A y \in {a, b} : b =< y
    BY <1>2
  <2>2. \A x \in {a, b} : (\A y \in {a, b} : x =< y) => x = b
    BY <1>2
  <2> QED BY <1>2, <2>1, <2>2 DEF Min
<1> QED BY <1>1, <1>2

-----------------------------------------------------------------------------
(* The invariant holds at first *)

\* Nothing is asked yet.
LEMMA NothingAsked ==
    /\ NoKeys \in KeysStates
    /\ NoScan \in ScanStates
    /\ Range(<<>>) = {} /\ <<>> \o <<>> = <<>>
<1>1. <<>> \in Seq(Keys) /\ 0 \in 0 .. NumShards
  BY ScanAssumption
<1>2. NoKeys \in KeysStates
  BY <1>1 DEF NoKeys, KeysStates
<1>3. NoScan \in ScanStates
  BY <1>1 DEF NoScan, ScanStates
<1> QED BY <1>2, <1>3 DEF Range

\* Every map at the start is one that MapOK allows.
LEMMA InitMap ==
    ASSUME Init
    PROVE  MapOK
<1>1. DOMAIN order = ShardIndexes
  BY DEF Init
<1>2. ASSUME NEW s \in ShardIndexes
      PROVE  ShardOK(s)
  <2>1. order[s] \in UNION {Orders(S) : S \in SUBSET Keys} /\ Range(order[s]) = {k \in Keys : ShardOf[k] = s}
    BY <1>2 DEF Init
  <2>2. PICK S \in SUBSET Keys : order[s] \in Orders(S)
    BY <2>1
  <2>3. order[s] \in Seq(Keys) /\ IsInjective(order[s])
    BY <2>2, OrderFacts
  <2>4. \A i \in DOMAIN order[s] : order[s][i] \in Range(order[s])
    BY DEF Range
  <2> QED BY <2>1, <2>3, <2>4 DEF ShardOK
<1>3. expires_at \in [Keys -> Int]
  <2>1. {1, Never} \subseteq Int
    BY ScanAssumption DEF Never
  <2> QED BY <2>1 DEF Init
<1>4. clock \in Nat
  BY DEF Init
<1> QED BY <1>1, <1>2, <1>3, <1>4 DEF MapOK

\* Initial states.
LEMMA InitInv ==
    ASSUME Init
    PROVE  ScanInv
<1>1. keys = NoKeys /\ scan = NoScan /\ clock = 0
  BY DEF Init
<1>2. KeysOK
  <2>1. /\ keys.pc = "idle" /\ keys.now = 0 /\ keys.steady = {} /\ keys.result = <<>>
    BY <1>1 DEF NoKeys
  <2> QED BY <1>1, <2>1, NothingAsked DEF KeysOK, SteadyOK
<1>3. /\ scan.pc = "idle" /\ scan.now = 0 /\ scan.steady = {} /\ scan.offset = 0
      /\ scan.scanned = 0 /\ scan.returned = <<>> /\ scan.matched = <<>>
  BY <1>1 DEF NoScan
<1>4. Found(scan) = <<>> /\ IsInjective(<<>>)
  BY <1>3, NothingAsked DEF Found, IsInjective
<1>5. OFFSET_RANGE > 0
  <2>1. Cardinality(Keys) \in Nat
    BY ScanAssumption, FS_CardinalityType
  <2> QED BY <2>1, ScanAssumption
<1>6. WalkOK(scan)
  BY <1>1, <1>3, <1>4, <1>5, NothingAsked DEF WalkOK, SteadyOK
<1>7. PhaseOK(scan)
  BY <1>3 DEF PhaseOK
<1> QED BY <1>2, <1>6, <1>7, InitMap DEF ScanInv

-----------------------------------------------------------------------------
(* Other clients change the map *)

\* What a change of shard s to o has to keep, for what the readers have behind them.
Harmless(s, o, gone, shakes) ==
    /\ s \in ShardIndexes
    /\ o \in Seq(Keys)
    /\ IsInjective(o)
    /\ \A j \in DOMAIN o : ShardOf[o[j]] = s
    /\ Range(order[s]) \ gone \subseteq Range(o)
    /\ shakes \/ scan.pc = "idle" \/ scan.shard_idx # s
         \/ \A j \in DOMAIN o : j <= scan.offset /\ o[j] \in Range(order[s]) =>
              \E h \in DOMAIN order[s] : h <= scan.offset /\ order[s][h] = o[j]

\* A key that is held and live, and not in gone, has a deadline ahead also afterwards.
KeepsLive(gone) ==
    /\ expires_at' \in [Keys -> Int]
    /\ \A k \in Keys \ gone : Holds(k) /\ clock < expires_at[k] => clock < expires_at'[k]

\* The map afterwards.
LEMMA ChangedMap ==
    ASSUME MapOK, NEW s, NEW o, NEW gone, NEW shakes, Change(s, o, gone, shakes),
           Harmless(s, o, gone, shakes), KeepsLive(gone)
    PROVE  /\ MapOK'
           /\ order'[s] = o
           /\ \A z \in ShardIndexes \ {s} : order'[z] = order[z]
<1>1. order' = [order EXCEPT ![s] = o] /\ clock' = clock
  BY DEF Change
<1>2. DOMAIN order = ShardIndexes /\ s \in ShardIndexes
  BY DEF MapOK, Harmless
<1>3. order'[s] = o /\ \A z \in ShardIndexes \ {s} : order'[z] = order[z]
  BY <1>1, <1>2
<1>4. DOMAIN order' = ShardIndexes
  BY <1>1, <1>2
<1>5. ASSUME NEW z \in ShardIndexes
      PROVE  ShardOK(z)'
  <2>1. CASE z = s
    BY <1>3, <2>1 DEF Harmless, ShardOK
  <2>2. CASE z # s
    BY <1>3, <2>2 DEF MapOK, ShardOK
  <2> QED BY <2>1, <2>2
<1>6. expires_at' \in [Keys -> Int] /\ clock' \in Nat
  BY <1>1 DEF KeepsLive, MapOK
<1> QED BY <1>3, <1>4, <1>5, <1>6 DEF MapOK, ShardIndexes

\* A steady key that is not removed stays steady.
LEMMA ChangedSteady ==
    ASSUME MapOK, NEW s, NEW o, NEW gone, NEW shakes, Change(s, o, gone, shakes),
           Harmless(s, o, gone, shakes), KeepsLive(gone), NEW steady, SteadyOK(steady),
           NEW k \in steady \ gone
    PROVE  Holds(k)' /\ clock' < expires_at'[k]
<1>1. k \in Keys /\ Holds(k) /\ clock < expires_at[k]
  BY DEF SteadyOK
<1>2. clock' < expires_at'[k]
  BY <1>1 DEF Change, KeepsLive
<1>3. ShardOf[k] \in ShardIndexes
  BY <1>1, ScanAssumption DEF ShardIndexes
<1>4. k \in Range(order'[ShardOf[k]])
  <2>1. CASE ShardOf[k] = s
    BY <1>1, <2>1, ChangedMap DEF Holds, Harmless
  <2>2. CASE ShardOf[k] # s
    BY <1>1, <1>3, <2>2, ChangedMap DEF Holds
  <2> QED BY <2>1, <2>2
<1> QED BY <1>2, <1>4 DEF Holds

\* KEYS is not disturbed.
LEMMA ChangedKeys ==
    ASSUME MapOK, KeysOK, NEW s, NEW o, NEW gone, NEW shakes, Change(s, o, gone, shakes),
           Harmless(s, o, gone, shakes), KeepsLive(gone)
    PROVE  KeysOK'
<1>1. keys' = [keys EXCEPT !.steady = @ \ gone] /\ clock' = clock
  BY DEF Change
<1>2. keys \in KeysStates
  BY DEF KeysOK
<1>3. /\ keys'.pc = keys.pc /\ keys'.pattern = keys.pattern /\ keys'.now = keys.now
      /\ keys'.shard = keys.shard /\ keys'.result = keys.result
      /\ keys'.steady = keys.steady \ gone
      /\ keys' \in KeysStates
  BY <1>1, <1>2 DEF KeysStates
<1>4. SteadyOK(keys.steady)
  BY DEF KeysOK
<1>5. SteadyOK(keys.steady)'
  <2>1. keys'.steady \subseteq Keys
    BY <1>3, <1>4 DEF SteadyOK
  <2>2. ASSUME NEW k \in keys'.steady
        PROVE  Holds(k)' /\ clock' < expires_at'[k]
    <3>1. k \in keys.steady \ gone
      BY <1>3
    <3> QED BY <1>4, <3>1, ChangedSteady
  <2>3. \A k \in keys'.steady : Holds(k)' /\ clock' < expires_at'[k]
    BY <2>2
  <2> QED BY <2>1, <2>3 DEF SteadyOK
<1>6. \A k \in keys'.steady : k \in keys.steady
  BY <1>3
<1> QED BY <1>1, <1>3, <1>5, <1>6 DEF KeysOK, KeysStates

\* SCAN finds what it found, and has behind it only what it had.
LEMMA ChangedWalk ==
    ASSUME MapOK, WalkOK(scan), PhaseOK(scan), NEW s, NEW o, NEW gone, NEW shakes,
           Change(s, o, gone, shakes), Harmless(s, o, gone, shakes), KeepsLive(gone)
    PROVE  WalkOK(scan)' /\ PhaseOK(scan)'
<1>1. /\ scan' = [scan EXCEPT !.steady = @ \ gone, !.calm = FALSE,
                              !.shaken = IF shakes THEN @ \cup {s} ELSE @]
      /\ clock' = clock
  BY DEF Change
<1>2. scan \in ScanStates /\ s \in ShardIndexes
  BY DEF WalkOK, Harmless
<1>3. /\ scan'.pc = scan.pc /\ scan'.pattern = scan.pattern /\ scan'.count = scan.count
      /\ scan'.type = scan.type /\ scan'.cursor = scan.cursor /\ scan'.now = scan.now
      /\ scan'.shard_idx = scan.shard_idx /\ scan'.offset = scan.offset
      /\ scan'.scanned = scan.scanned /\ scan'.matched = scan.matched
      /\ scan'.returned = scan.returned
      /\ scan'.steady = scan.steady \ gone
      /\ scan'.shaken = IF shakes THEN scan.shaken \cup {s} ELSE scan.shaken
      /\ scan'.calm = FALSE
  BY <1>1, <1>2 DEF ScanStates
<1>4. scan' \in ScanStates
  <2>1. scan'.steady \in SUBSET Keys /\ scan'.shaken \in SUBSET ShardIndexes
    BY <1>2, <1>3 DEF ScanStates
  <2> QED BY <1>1, <1>2, <1>3, <2>1 DEF ScanStates
<1>5. SteadyOK(scan.steady)
  BY DEF WalkOK
<1>6. SteadyOK(scan.steady)'
  <2>1. scan'.steady \subseteq Keys
    BY <1>3, <1>5 DEF SteadyOK
  <2>2. ASSUME NEW k \in scan'.steady
        PROVE  Holds(k)' /\ clock' < expires_at'[k]
    <3>1. k \in scan.steady \ gone
      BY <1>3
    <3> QED BY <1>5, <3>1, ChangedSteady
  <2>3. \A k \in scan'.steady : Holds(k)' /\ clock' < expires_at'[k]
    BY <2>2
  <2> QED BY <2>1, <2>3 DEF SteadyOK
<1>7. Found(scan)' = Found(scan) /\ \A k : Picks(scan, k)' <=> Picks(scan, k)
  BY <1>3 DEF Found, Picks
<1>8. ASSUME NEW k \in scan'.steady, ShardOf[k] \notin scan'.shaken, Behind(scan, k)'
      PROVE  Behind(scan, k) /\ k \in scan.steady /\ ShardOf[k] \notin scan.shaken
  <2>1. k \in scan.steady /\ ShardOf[k] \notin scan.shaken /\ k \in Keys /\ Holds(k)
    BY <1>3, <1>5, <1>8 DEF SteadyOK
  <2>2. ShardOf[k] \in ShardIndexes
    BY <2>1, ScanAssumption DEF ShardIndexes
  <2>3. CASE ShardOf[k] < scan.shard_idx
    BY <2>1, <2>3 DEF Behind
  <2>4. CASE ~(ShardOf[k] < scan.shard_idx)
    <3>1. /\ ShardOf[k] = scan.shard_idx
          /\ \E i \in DOMAIN order'[ShardOf[k]] : i <= scan.offset /\ order'[ShardOf[k]][i] = k
      BY <1>3, <1>8, <2>4 DEF Behind
    <3>2. CASE ShardOf[k] # s
      BY <2>1, <2>2, <3>1, <3>2, ChangedMap DEF Behind
    <3>3. CASE ShardOf[k] = s
      <4>1. order'[s] = o
        BY ChangedMap
      <4>2. PICK i \in DOMAIN o : i <= scan.offset /\ o[i] = k
        BY <3>1, <3>3, <4>1
      <4>3. ~shakes
        BY <1>3, <1>8, <3>3
      <4>4. scan.pc # "idle"
        BY <2>1 DEF WalkOK
      <4>5. k \in Range(order[s])
        BY <2>1, <3>3 DEF Holds
      <4>6. \E h \in DOMAIN order[s] : h <= scan.offset /\ order[s][h] = k
        BY <3>1, <3>3, <4>2, <4>3, <4>4, <4>5 DEF Harmless
      <4> QED BY <2>1, <3>1, <3>3, <4>6 DEF Behind
    <3> QED BY <3>2, <3>3
  <2> QED BY <2>3, <2>4
<1>9. \A k \in scan'.steady :
        Picks(scan, k)' /\ ShardOf[k] \notin scan'.shaken /\ Behind(scan, k)'
          => k \in Range(Found(scan)')
  BY <1>7, <1>8 DEF WalkOK
<1>10. \A k \in Range(Found(scan)') : Picks(scan, k)'
  BY <1>7 DEF WalkOK
<1>11. scan.pc = "idle" => scan'.steady = {}
  BY <1>3 DEF WalkOK
<1>12. WalkOK(scan)'
  BY <1>1, <1>3, <1>4, <1>6, <1>9, <1>10, <1>11 DEF WalkOK
<1>13. PhaseOK(scan)'
  BY <1>3 DEF PhaseOK, TargetScan, Cursor
<1> QED BY <1>12, <1>13

\* So the invariant survives a harmless change.
LEMMA ChangeInv ==
    ASSUME ScanInv, NEW s, NEW o, NEW gone, NEW shakes,
           Change(s, o, gone, shakes), Harmless(s, o, gone, shakes), KeepsLive(gone)
    PROVE  ScanInv'
BY ChangedMap, ChangedKeys, ChangedWalk DEF ScanInv

\* Another client inserts a key: only entries behind the place move, and they move back.
LEMMA InsertInv ==
    ASSUME ScanInv, NEW k \in Keys, InsertKey(k)
    PROVE  ScanInv'
<1> DEFINE s == ShardOf[k]
<1>1. s \in ShardIndexes
  BY ScanAssumption DEF ShardIndexes
<1>2. ShardOK(s) /\ expires_at \in [Keys -> Int]
  BY <1>1 DEF ScanInv, MapOK
<1>3. k \notin Range(order[s])
  BY DEF InsertKey, Holds
<1>4. PICK i \in 1 .. Len(order[s]) + 1 : Change(s, InsertAt(order[s], i, k), {}, FALSE)
  BY DEF InsertKey
<1> DEFINE o == InsertAt(order[s], i, k)
<1>5. order[s] \in Seq(Keys) /\ IsInjective(order[s])
  BY <1>2 DEF ShardOK
<1> HIDE DEF s
<1>6. /\ o \in Seq(Keys) /\ IsInjective(o) /\ Range(o) = Range(order[s]) \cup {k}
      /\ \A j \in DOMAIN o :
           o[j] = k \/ \E h \in DOMAIN order[s] : h <= j /\ order[s][h] = o[j]
  BY <1>3, <1>5, InsertFacts
<1> HIDE DEF o
<1>7. \A j \in DOMAIN o : ShardOf[o[j]] = s
  <2>1. ShardOf[k] = s
    BY DEF s
  <2>2. \A h \in DOMAIN order[s] : ShardOf[order[s][h]] = s
    BY <1>2 DEF ShardOK
  <2>3. ASSUME NEW j \in DOMAIN o, o[j] # k
        PROVE  ShardOf[o[j]] = s
    <3>1. PICK h \in DOMAIN order[s] : h <= j /\ order[s][h] = o[j]
      BY <1>6, <2>3
    <3>2. ShardOf[order[s][h]] = s
      BY <2>2
    <3> QED BY <3>1, <3>2
  <2> QED BY <2>1, <2>3
<1>8. ASSUME NEW j \in DOMAIN o, j <= scan.offset, o[j] \in Range(order[s])
      PROVE  \E h \in DOMAIN order[s] : h <= scan.offset /\ order[s][h] = o[j]
  <2>1. PICK h \in DOMAIN order[s] : h <= j /\ order[s][h] = o[j]
    BY <1>3, <1>6, <1>8
  <2>2. h \in Nat /\ j \in Nat /\ scan.offset \in Nat
    <3>1. DOMAIN order[s] = 1 .. Len(order[s]) /\ DOMAIN o = 1 .. Len(o)
      BY <1>5, <1>6, LenProperties
    <3> QED BY <3>1 DEF ScanInv, WalkOK, ScanStates
  <2>3. h <= scan.offset
    BY <1>8, <2>1, <2>2
  <2> QED BY <2>1, <2>3
<1>9. Harmless(s, o, {}, FALSE)
  BY <1>1, <1>6, <1>7, <1>8 DEF Harmless
<1>10. KeepsLive({})
  <2>1. PICK e \in {1, Never} : expires_at' = [expires_at EXCEPT ![k] = e]
    BY DEF InsertKey
  <2>2. e \in Int
    BY ScanAssumption DEF Never
  <2>3. ~Holds(k)
    BY DEF InsertKey
  <2> QED BY <1>2, <2>1, <2>2, <2>3 DEF KeepsLive
<1>11. Change(s, o, {}, FALSE)
  BY <1>4 DEF o
<1> QED BY <1>9, <1>10, <1>11, ChangeInv

\* Another client, the sweeper or eviction removes a key.
LEMMA RemoveInv ==
    ASSUME ScanInv, NEW k \in Keys, RemoveKey(k)
    PROVE  ScanInv'
<1> DEFINE s == ShardOf[k]
<1>1. s \in ShardIndexes
  BY ScanAssumption DEF ShardIndexes
<1>2. ShardOK(s) /\ expires_at \in [Keys -> Int]
  BY <1>1 DEF ScanInv, MapOK
<1>3. PICK i \in DOMAIN order[s] :
        order[s][i] = k /\ Change(s, RemoveAt(order[s], i), {k}, Passed(s, i))
  BY DEF RemoveKey
<1> DEFINE o == RemoveAt(order[s], i)
<1>4. order[s] \in Seq(Keys) /\ IsInjective(order[s])
  BY <1>2 DEF ShardOK
<1> HIDE DEF s
<1>5. /\ o \in Seq(Keys) /\ IsInjective(o) /\ Range(o) = Range(order[s]) \ {k}
      /\ \A j \in DOMAIN o : j < i => j \in DOMAIN order[s] /\ order[s][j] = o[j]
  BY <1>3, <1>4, RemoveFacts
<1> HIDE DEF o
<1>6. \A j \in DOMAIN o : ShardOf[o[j]] = s
  <2> SUFFICES ASSUME NEW j \in DOMAIN o
               PROVE  ShardOf[o[j]] = s
    OBVIOUS
  <2>1. o[j] \in Range(order[s])
    BY <1>5 DEF Range
  <2> QED BY <1>2, <2>1 DEF ShardOK, Range
<1>7. ASSUME ~Passed(s, i), scan.pc # "idle", scan.shard_idx = s,
             NEW j \in DOMAIN o, j <= scan.offset
      PROVE  \E h \in DOMAIN order[s] : h <= scan.offset /\ order[s][h] = o[j]
  <2>1. i \in Nat /\ j \in Nat /\ scan.offset \in Nat
    <3>1. DOMAIN order[s] = 1 .. Len(order[s]) /\ DOMAIN o = 1 .. Len(o)
      BY <1>4, <1>5, LenProperties
    <3> QED BY <3>1 DEF ScanInv, WalkOK, ScanStates
  <2>2. ~(scan.offset >= i)
    BY <1>7 DEF Passed
  <2>3. j < i
    BY <1>7, <2>1, <2>2
  <2> QED BY <1>5, <1>7, <2>3
<1>8. Harmless(s, o, {k}, Passed(s, i))
  BY <1>1, <1>5, <1>6, <1>7 DEF Harmless
<1>9. KeepsLive({k})
  BY <1>2 DEF RemoveKey, KeepsLive
<1>10. Change(s, o, {k}, Passed(s, i))
  BY <1>3 DEF o
<1> QED BY <1>8, <1>9, <1>10, ChangeInv

\* A key gets a new deadline where it stands: if that has passed, it is steady no more.
LEMMA NewDeadlineInv ==
    ASSUME ScanInv, NEW k \in Keys, NewDeadline(k)
    PROVE  ScanInv'
<1> DEFINE s == ShardOf[k]
<1>1. s \in ShardIndexes
  BY ScanAssumption DEF ShardIndexes
<1>2. ShardOK(s) /\ expires_at \in [Keys -> Int] /\ clock \in Nat
  BY <1>1 DEF ScanInv, MapOK
<1>3. PICK e \in clock .. Never :
        /\ Change(s, order[s], IF e <= clock THEN {k} ELSE {}, FALSE)
        /\ expires_at' = [expires_at EXCEPT ![k] = e]
  BY DEF NewDeadline
<1> DEFINE gone == IF e <= clock THEN {k} ELSE {}
<1>4. e \in Int
  BY <1>2, ScanAssumption DEF Never
<1>5. Harmless(s, order[s], gone, FALSE)
  BY <1>1, <1>2 DEF Harmless, ShardOK
<1>6. KeepsLive(gone)
  BY <1>2, <1>3, <1>4 DEF KeepsLive
<1> QED BY <1>3, <1>5, <1>6, ChangeInv

\* A table grows.
LEMMA RehashInv ==
    ASSUME ScanInv, NEW s \in ShardIndexes, Rehash(s)
    PROVE  ScanInv'
<1>1. ShardOK(s) /\ expires_at \in [Keys -> Int]
  BY DEF ScanInv, MapOK
<1>2. PICK o \in Orders(Range(order[s])) : Change(s, o, {}, Passed(s, 1))
  BY DEF Rehash
<1>3. Range(order[s]) \in SUBSET Keys
  <2>1. DOMAIN order[s] = 1 .. Len(order[s])
    BY <1>1, LenProperties DEF ShardOK
  <2> QED BY <1>1, <2>1, ElementOfSeq DEF ShardOK, Range
<1>4. o \in Seq(Keys) /\ IsInjective(o) /\ Range(o) = Range(order[s])
  BY <1>3, OrderFacts
<1>5. \A j \in DOMAIN o : ShardOf[o[j]] = s
  <2> SUFFICES ASSUME NEW j \in DOMAIN o
               PROVE  ShardOf[o[j]] = s
    OBVIOUS
  <2>1. o[j] \in Range(order[s])
    BY <1>4 DEF Range
  <2> QED BY <1>1, <2>1 DEF ShardOK, Range
<1>6. ASSUME ~Passed(s, 1), scan.pc # "idle", scan.shard_idx = s,
             NEW j \in DOMAIN o, j <= scan.offset
      PROVE  FALSE
  <2>1. j \in 1 .. Len(o) /\ scan.offset \in Nat
    <3>1. DOMAIN o = 1 .. Len(o)
      BY <1>4, LenProperties
    <3> QED BY <3>1 DEF ScanInv, WalkOK, ScanStates
  <2>2. ~(scan.offset >= 1)
    BY <1>6 DEF Passed
  <2>3. Len(o) \in Nat
    BY <1>4, LenProperties
  <2> QED BY <1>6, <2>1, <2>2, <2>3
<1>7. Harmless(s, o, {}, Passed(s, 1))
  BY <1>4, <1>5, <1>6 DEF Harmless
<1>8. KeepsLive({})
  BY <1>1 DEF Rehash, KeepsLive
<1> QED BY <1>2, <1>7, <1>8, ChangeInv

\* A steady key that has expired is steady no more.
LEMMA TickInv ==
    ASSUME ScanInv, Tick
    PROVE  ScanInv'
<1>1. /\ order' = order /\ expires_at' = expires_at /\ clock' = clock + 1 /\ clock \in Nat
      /\ expires_at \in [Keys -> Int]
  BY DEF Tick, ScanInv, MapOK
<1>2. MapOK'
  BY <1>1 DEF ScanInv, MapOK, ShardOK
<1>3. ASSUME NEW steady, SteadyOK(steady), NEW k \in steady, ~is_expired(k, clock + 1)
      PROVE  k \in Keys /\ Holds(k)' /\ clock' < expires_at'[k]
  BY <1>1, <1>3 DEF SteadyOK, Holds, is_expired
<1>4. KeysOK'
  <2>1. keys \in KeysStates
    BY DEF ScanInv, KeysOK
  <2>2. /\ keys'.pc = keys.pc /\ keys'.pattern = keys.pattern /\ keys'.now = keys.now
        /\ keys'.shard = keys.shard /\ keys'.result = keys.result
        /\ keys'.steady = {k \in keys.steady : ~is_expired(k, clock + 1)}
        /\ keys' \in KeysStates
    BY <2>1 DEF Tick, KeysStates
  <2>3. SteadyOK(keys.steady)'
    <3>1. SteadyOK(keys.steady)
      BY DEF ScanInv, KeysOK
    <3>2. \A k \in keys'.steady : k \in Keys /\ Holds(k)' /\ clock' < expires_at'[k]
      BY <1>3, <2>2, <3>1
    <3> QED BY <3>2 DEF SteadyOK
  <2>4. \A k \in keys'.steady : k \in keys.steady
    BY <2>2
  <2>5. keys'.now <= clock'
    BY <1>1, <2>1, <2>2 DEF ScanInv, KeysOK, KeysStates
  <2> QED BY <2>2, <2>3, <2>4, <2>5 DEF ScanInv, KeysOK
<1>5. scan \in ScanStates
  BY DEF ScanInv, WalkOK
<1>6. /\ scan'.pc = scan.pc /\ scan'.pattern = scan.pattern /\ scan'.count = scan.count
      /\ scan'.type = scan.type /\ scan'.cursor = scan.cursor /\ scan'.now = scan.now
      /\ scan'.shard_idx = scan.shard_idx /\ scan'.offset = scan.offset
      /\ scan'.scanned = scan.scanned /\ scan'.matched = scan.matched
      /\ scan'.returned = scan.returned
      /\ scan'.steady = {k \in scan.steady : ~is_expired(k, clock + 1)}
      /\ scan'.shaken = scan.shaken /\ scan'.calm = scan.calm
      /\ scan' \in ScanStates
  BY <1>5 DEF Tick, ScanStates
<1>7. WalkOK(scan)'
  <2>1. SteadyOK(scan.steady)'
    <3>1. SteadyOK(scan.steady)
      BY DEF ScanInv, WalkOK
    <3>2. \A k \in scan'.steady : k \in Keys /\ Holds(k)' /\ clock' < expires_at'[k]
      BY <1>3, <1>6, <3>1
    <3> QED BY <3>2 DEF SteadyOK
  <2>2. scan'.now <= clock'
    BY <1>1, <1>5, <1>6 DEF ScanInv, WalkOK, ScanStates
  <2>3. /\ Found(scan)' = Found(scan)
        /\ \A k : Picks(scan, k)' <=> Picks(scan, k)
        /\ \A k : Behind(scan, k)' <=> Behind(scan, k)
    BY <1>1, <1>6 DEF Found, Picks, Behind
  <2>4. \A k \in scan'.steady : k \in scan.steady
    BY <1>6
  <2>5. scan.pc = "idle" => scan'.steady = {}
    BY <1>6 DEF ScanInv, WalkOK
  <2>6. WalkOK(scan)
    BY DEF ScanInv
  <2> QED BY <1>6, <2>1, <2>2, <2>3, <2>4, <2>5, <2>6 DEF WalkOK
<1>8. PhaseOK(scan)'
  BY <1>6 DEF ScanInv, PhaseOK, TargetScan, Cursor
<1> QED BY <1>2, <1>4, <1>7, <1>8 DEF ScanInv

-----------------------------------------------------------------------------
(* KEYS *)

\* What no reader's step changes.
LEMMA ReadersKeep ==
    ASSUME UNCHANGED <<order, expires_at, clock>>
    PROVE  /\ MapOK => MapOK'
           /\ KeysOK /\ UNCHANGED keys => KeysOK'
           /\ WalkOK(scan) /\ PhaseOK(scan) /\ UNCHANGED scan => WalkOK(scan)' /\ PhaseOK(scan)'
<1>1. MapOK => MapOK'
  BY DEF MapOK, ShardOK
<1>2. KeysOK /\ UNCHANGED keys => KeysOK'
  BY DEF KeysOK, SteadyOK, Holds
<1>3. WalkOK(scan) /\ UNCHANGED scan => WalkOK(scan)'
  BY DEF WalkOK, SteadyOK, Holds, Found, Picks, Behind
<1>4. PhaseOK(scan) /\ UNCHANGED scan => PhaseOK(scan)'
  BY DEF PhaseOK
<1> QED BY <1>1, <1>2, <1>3, <1>4

\* KEYS is called.
LEMMA KeysCallInv ==
    ASSUME ScanInv, NEW pattern \in KeysPatterns, KeysCall(pattern)
    PROVE  ScanInv'
<1>1. UNCHANGED <<order, expires_at, clock, scan>>
  BY DEF KeysCall
<1>2. clock \in Nat /\ expires_at \in [Keys -> Int]
  BY DEF ScanInv, MapOK
<1>3. keys' = [NoKeys EXCEPT !.pc = "shard", !.pattern = pattern, !.now = clock,
                             !.steady = {k \in Keys : Live(k)}]
  BY DEF KeysCall
<1>4. /\ keys'.pc = "shard" /\ keys'.pattern = pattern /\ keys'.now = clock
      /\ keys'.shard = 0 /\ keys'.result = <<>> /\ keys'.steady = {k \in Keys : Live(k)}
  BY <1>3 DEF NoKeys
<1>5. keys' \in KeysStates
  BY <1>2, <1>3, NothingAsked DEF KeysStates
<1>6. SteadyOK(keys.steady)'
  <2>1. \A k \in keys'.steady : k \in Keys /\ Holds(k) /\ clock < expires_at[k]
    BY <1>2, <1>4 DEF Live, is_expired
  <2> QED BY <1>1, <2>1 DEF SteadyOK, Holds
<1>7. \A k \in Keys : ~(ShardOf[k] < 0)
  BY ScanAssumption
<1>8. KeysOK'
  <2>1. \A k \in keys'.steady : k \in Keys
    BY <1>4
  <2>2. keys'.now <= clock' /\ keys'.shard < NumShards
    BY <1>1, <1>2, <1>4, ScanAssumption
  <2> QED BY <1>4, <1>5, <1>6, <1>7, <2>1, <2>2, NothingAsked DEF KeysOK
<1> QED BY <1>1, <1>8, ReadersKeep DEF ScanInv

\* KEYS goes over one shard: the steady keys of it that fit are in the result.
LEMMA KeysShardInv ==
    ASSUME ScanInv, KeysShard
    PROVE  ScanInv'
<1> DEFINE s == keys.shard
           wanted == {k \in Range(order[s]) : ~is_expired(k, keys.now) /\ Fits(keys.pattern, k)}
           more == Only(order[s], wanted)
<1>1. UNCHANGED <<order, expires_at, clock, scan>> /\ keys.pc = "shard"
  BY DEF KeysShard
<1>2. keys \in KeysStates /\ s \in ShardIndexes /\ keys.now <= clock /\ SteadyOK(keys.steady)
  BY <1>1, ScanAssumption DEF ScanInv, KeysOK, KeysStates, ShardIndexes
<1>3. clock \in Nat /\ expires_at \in [Keys -> Int] /\ ShardOK(s)
  BY <1>2 DEF ScanInv, MapOK
<1>4. keys' = [keys EXCEPT !.result = @ \o more, !.shard = @ + 1,
                           !.pc = IF s + 1 = NumShards THEN "done" ELSE "shard"]
  BY DEF KeysShard
<1>5. more \in Seq(Keys) /\ Range(more) = wanted
  <2>1. more \in Seq(Keys) /\ Range(more) = Range(order[s]) \cap wanted
    <3> HIDE DEF wanted
    <3> QED BY <1>3, OnlyFacts DEF ShardOK
  <2>2. Range(order[s]) \cap wanted = wanted
    OBVIOUS
  <2> QED BY <2>1, <2>2
<1> HIDE DEF more
<1>6. keys.result \in Seq(Keys)
  BY <1>2 DEF KeysStates
<1>7. keys.result \o more \in Seq(Keys) /\ Range(keys.result \o more) = Range(keys.result) \cup wanted
  BY <1>5, <1>6, RangeConcat
<1>8. /\ keys'.pattern = keys.pattern /\ keys'.now = keys.now /\ keys'.steady = keys.steady
      /\ keys'.shard = s + 1 /\ keys'.result = keys.result \o more
      /\ keys'.pc = IF s + 1 = NumShards THEN "done" ELSE "shard"
  BY <1>2, <1>4 DEF KeysStates
<1>9. s + 1 \in 0 .. NumShards /\ s \in Nat
  BY <1>2, ScanAssumption DEF ShardIndexes
<1>10. keys' \in KeysStates
  <2>1. keys'.pc \in {"idle", "shard", "done"}
    BY <1>8
  <2> QED BY <1>2, <1>4, <1>7, <1>8, <1>9, <2>1 DEF KeysStates
<1>11. SteadyOK(keys.steady)'
  BY <1>1, <1>2, <1>8 DEF SteadyOK, Holds
<1>12. \A k \in Range(keys'.result) : Fits(keys'.pattern, k)
  BY <1>1, <1>7, <1>8 DEF ScanInv, KeysOK
<1>13. ASSUME NEW k \in keys'.steady, ShardOf[k] < keys'.shard, Fits(keys'.pattern, k)
       PROVE  k \in Range(keys'.result)
  <2>1. k \in keys.steady /\ k \in Keys /\ Holds(k) /\ clock < expires_at[k]
    BY <1>2, <1>8, <1>13 DEF SteadyOK
  <2>2. ShardOf[k] \in Nat
    BY <2>1, ScanAssumption
  <2>3. CASE ShardOf[k] < s
    <3>1. k \in Range(keys.result)
      BY <1>8, <1>13, <2>1, <2>3 DEF ScanInv, KeysOK
    <3> QED BY <1>7, <1>8, <3>1
  <2>4. CASE ~(ShardOf[k] < s)
    <3>1. ShardOf[k] = s
      BY <1>8, <1>9, <1>13, <2>2, <2>4
    <3>2. ~is_expired(k, keys.now)
      <4>1. keys.now \in Nat /\ expires_at[k] \in Int
        BY <1>2, <1>3, <2>1 DEF KeysStates
      <4> QED BY <1>2, <1>3, <2>1, <4>1 DEF is_expired
    <3>3. k \in wanted
      BY <1>8, <1>13, <2>1, <3>1, <3>2 DEF Holds
    <3> QED BY <1>7, <1>8, <3>3
  <2> QED BY <2>3, <2>4
<1>14. /\ keys'.pc = "shard" => keys'.shard < NumShards
       /\ keys'.pc = "done" => keys'.shard = NumShards
       /\ keys'.pc # "idle" => keys'.pattern \in KeysPatterns
       /\ keys'.now <= clock'
  BY <1>1, <1>2, <1>8, <1>9, ScanAssumption DEF ScanInv, KeysOK
<1>15. KeysOK'
  <2> HIDE DEF s, wanted
  <2> QED BY <1>10, <1>11, <1>12, <1>13, <1>14 DEF KeysOK
<1> QED BY <1>1, <1>15, ReadersKeep DEF ScanInv

-----------------------------------------------------------------------------
(* SCAN *)

\* A call visits at least one entry, if there is one.
LEMMA TargetPositive ==
    ASSUME NEW count \in Nat
    PROVE  TargetScan(count) \in Nat \ {0}
BY ScanAssumption DEF TargetScan

\* The loop over the shards goes on, or the call answers with what it found.
LEMMA ContinueOK ==
    ASSUME NEW st, WalkOK(st), st.pc = "shard"
    PROVE  WalkOK(Continue(st)) /\ PhaseOK(Continue(st))
<1>1. st \in ScanStates
  BY DEF WalkOK
<1>2. /\ st.shard_idx \in 0 .. NumShards /\ st.offset \in Nat /\ st.scanned \in Nat
      /\ st.count \in Nat /\ st.matched \in Seq(Keys) /\ st.returned \in Seq(Keys)
      /\ TargetScan(st.count) \in Nat \ {0}
  BY <1>1, TargetPositive DEF ScanStates
<1>3. CASE st.shard_idx < NumShards /\ st.scanned < TargetScan(st.count)
  <2>1. Continue(st) = st
    BY <1>3 DEF Continue
  <2> QED BY <1>3, <2>1 DEF PhaseOK
<1>4. CASE ~(st.shard_idx < NumShards /\ st.scanned < TargetScan(st.count))
  <2> DEFINE z == [st EXCEPT !.pc = "answered", !.cursor = Cursor(st.shard_idx, st.offset),
                             !.returned = @ \o st.matched, !.matched = <<>>]
  <2>1. Continue(st) = z
    BY <1>4 DEF Continue
  <2>2. /\ z.pc = "answered" /\ z.cursor = Cursor(st.shard_idx, st.offset)
        /\ z.returned = st.returned \o st.matched /\ z.matched = <<>>
        /\ z.pattern = st.pattern /\ z.count = st.count /\ z.type = st.type /\ z.now = st.now
        /\ z.shard_idx = st.shard_idx /\ z.offset = st.offset /\ z.scanned = st.scanned
        /\ z.steady = st.steady /\ z.shaken = st.shaken /\ z.calm = st.calm
    BY <1>1 DEF ScanStates
  <2>3. st.returned \o st.matched \in Seq(Keys) /\ <<>> \in Seq(Keys)
    BY <1>2, ConcatProperties, EmptySeq
  <2>4. z.cursor \in Nat
    <3>1. st.shard_idx \in Nat /\ st.offset < OFFSET_RANGE
      BY <1>2 DEF WalkOK
    <3>2. st.shard_idx * OFFSET_RANGE + st.offset \in Nat
      BY <1>2, <3>1, CursorSplits
    <3> QED BY <2>2, <3>2 DEF Cursor
  <2>5. z \in ScanStates
    BY <1>1, <2>2, <2>3, <2>4 DEF ScanStates
  <2> HIDE DEF z
  <2>6. Found(z) = Found(st)
    BY <2>2, <2>3, ConcatEmptySeq DEF Found
  <2>7. \A k : (Picks(z, k) <=> Picks(st, k)) /\ (Behind(z, k) <=> Behind(st, k))
    BY <2>2 DEF Picks, Behind
  <2>8. st.pattern \in ScanPatterns
    BY DEF WalkOK
  <2>9. WalkOK(z)
    BY <2>2, <2>5, <2>6, <2>7, <2>8 DEF WalkOK
  <2>10. st.shard_idx < NumShards => st.shard_idx > 0 \/ st.offset > 0
    <3>1. ASSUME st.shard_idx < NumShards
          PROVE  st.scanned > 0
      BY <1>2, <1>4, <3>1
    <3> QED BY <3>1 DEF WalkOK
  <2>11. PhaseOK(z)
    BY <2>2, <2>10 DEF PhaseOK
  <2> QED BY <2>1, <2>9, <2>11
<1> QED BY <1>3, <1>4

\* A call with the cursor of a walk goes on where that walk stands.
LEMMA CallOK ==
    ASSUME MapOK, NEW st, WalkOK(st), st.matched = <<>>, st.pattern \in ScanPatterns,
           st.cursor \div OFFSET_RANGE = st.shard_idx, st.cursor % OFFSET_RANGE = st.offset
    PROVE  WalkOK(Call(st)) /\ PhaseOK(Call(st))
<1> DEFINE z == [st EXCEPT !.pc = "shard", !.now = clock, !.scanned = 0, !.matched = <<>>,
                           !.shard_idx = st.cursor \div OFFSET_RANGE,
                           !.offset = st.cursor % OFFSET_RANGE]
<1>1. Call(st) = Continue(z)
  BY DEF Call
<1>2. st \in ScanStates /\ clock \in Nat
  BY DEF WalkOK, MapOK
<1>3. /\ z.pc = "shard" /\ z.now = clock /\ z.scanned = 0 /\ z.matched = st.matched
      /\ z.shard_idx = st.shard_idx /\ z.offset = st.offset /\ z.returned = st.returned
      /\ z.pattern = st.pattern /\ z.count = st.count /\ z.type = st.type
      /\ z.steady = st.steady /\ z.shaken = st.shaken /\ z.calm = st.calm
  BY <1>2 DEF ScanStates
<1>4. z \in ScanStates
  <2>1. 0 \in Nat /\ st.shard_idx \in 0 .. NumShards /\ st.offset \in Nat /\ st.matched \in Seq(Keys)
    BY <1>2 DEF ScanStates
  <2> QED BY <1>2, <1>3, <2>1 DEF ScanStates
<1> HIDE DEF z
<1>5. Found(z) = Found(st)
  BY <1>3 DEF Found
<1>6. \A k : (Picks(z, k) <=> Picks(st, k)) /\ (Behind(z, k) <=> Behind(st, k))
  BY <1>3 DEF Picks, Behind
<1>7. clock <= clock /\ ~(0 > 0)
  BY <1>2
<1>8. WalkOK(z)
  BY <1>3, <1>4, <1>5, <1>6, <1>7 DEF WalkOK
<1> QED BY <1>1, <1>3, <1>8, ContinueOK

\* The state that a step of SCAN leads to.
LEMMA WalkOn ==
    ASSUME NEW st, WalkOK(st), PhaseOK(st), scan' = st, UNCHANGED <<order, expires_at, clock>>
    PROVE  WalkOK(scan)' /\ PhaseOK(scan)'
<1>1. WalkOK(scan)'
  BY DEF WalkOK, SteadyOK, Holds, Found, Picks, Behind
<1>2. PhaseOK(scan)'
  BY DEF PhaseOK
<1> QED BY <1>1, <1>2

\* A call does not ask whether the last one has answered.
LEMMA CallForgetsPc ==
    ASSUME NEW st \in ScanStates
    PROVE  Call([st EXCEPT !.pc = "answered"]) = Call(st)
<1> DEFINE u == [st EXCEPT !.pc = "answered"]
           F(x, shard, off) == [x EXCEPT !.pc = "shard", !.now = clock, !.scanned = 0,
                                         !.matched = <<>>, !.shard_idx = shard, !.offset = off]
<1>1. u.cursor = st.cursor
  BY DEF ScanStates
<1>2. \A shard, off : F(u, shard, off) = F(st, shard, off)
  BY DEF ScanStates
<1>3. \A x : Call(x) = Continue(F(x, x.cursor \div OFFSET_RANGE, x.cursor % OFFSET_RANGE))
  BY DEF Call
<1> HIDE DEF u, F
<1>4. Call(u) = Call(st)
  BY <1>1, <1>2, <1>3
<1> QED BY <1>4 DEF u

\* An iteration begins.
LEMMA ScanBeginInv ==
    ASSUME ScanInv, NEW pattern \in ScanPatterns, NEW count \in Counts, NEW type \in TypeFilters,
           ScanBegin(pattern, count, type)
    PROVE  ScanInv'
<1> DEFINE z == [NoScan EXCEPT !.pattern = pattern, !.count = count, !.type = type,
                               !.steady = {k \in Keys : Live(k)}]
           w == [z EXCEPT !.pc = "answered"]
<1>1. UNCHANGED <<order, expires_at, clock, keys>> /\ scan' = Call(z)
  BY DEF ScanBegin
<1>2. MapOK /\ clock \in Nat /\ expires_at \in [Keys -> Int]
  BY DEF ScanInv, MapOK
<1>3. Call(z) = Call(w)
  <2>1. count \in Nat
    BY ScanAssumption
  <2>2. z \in ScanStates
    BY <2>1, NothingAsked DEF ScanStates, NoScan
  <2> HIDE DEF z
  <2> QED BY <2>2, CallForgetsPc
<1>4. /\ w.pc = "answered" /\ w.pattern = pattern /\ w.count = count /\ w.type = type
      /\ w.cursor = 0 /\ w.now = 0 /\ w.shard_idx = 0 /\ w.offset = 0 /\ w.scanned = 0
      /\ w.matched = <<>> /\ w.returned = <<>> /\ w.steady = {k \in Keys : Live(k)}
      /\ w.shaken = {} /\ w.calm = TRUE
  BY DEF NoScan
<1>5. w \in ScanStates
  <2>1. count \in Nat
    BY ScanAssumption
  <2> QED BY <1>4, <2>1, NothingAsked DEF ScanStates, NoScan
<1>6. OFFSET_RANGE \in Nat /\ OFFSET_RANGE > 0
  <2>1. Cardinality(Keys) \in Nat
    BY ScanAssumption, FS_CardinalityType
  <2> QED BY <2>1, ScanAssumption
<1>7. w.cursor \div OFFSET_RANGE = w.shard_idx /\ w.cursor % OFFSET_RANGE = w.offset
  BY <1>4, <1>6
<1> HIDE DEF w, z
<1>8. SteadyOK(w.steady)
  BY <1>2, <1>4 DEF SteadyOK, Live, is_expired
<1>9. Found(w) = <<>> /\ IsInjective(<<>>)
  BY <1>4, NothingAsked DEF Found, IsInjective
<1>10. ASSUME NEW k \in Keys
       PROVE  ~Behind(w, k)
  <2>1. ShardOf[k] \in ShardIndexes
    BY ScanAssumption DEF ShardIndexes
  <2>2. ~(ShardOf[k] < 0)
    BY <2>1 DEF ShardIndexes
  <2>3. order[ShardOf[k]] \in Seq(Keys)
    BY <1>2, <2>1 DEF MapOK, ShardOK
  <2>4. \A i \in DOMAIN order[ShardOf[k]] : ~(i <= 0)
    BY <2>3, LenProperties
  <2> QED BY <1>4, <2>2, <2>4 DEF Behind
<1>11. WalkOK(w)
  <2>1. \A k \in w.steady : k \in Keys
    BY <1>4
  <2>2. w.now <= clock /\ w.offset < OFFSET_RANGE /\ ~(w.scanned > 0)
    BY <1>2, <1>4, <1>6
  <2> QED BY <1>4, <1>5, <1>8, <1>9, <1>10, <2>1, <2>2, NothingAsked DEF WalkOK
<1>12. WalkOK(Call(w)) /\ PhaseOK(Call(w))
  BY <1>2, <1>4, <1>7, <1>11, CallOK
<1>13. WalkOK(scan)' /\ PhaseOK(scan)'
  BY <1>1, <1>3, <1>12, WalkOn
<1> QED BY <1>1, <1>2, <1>13, ReadersKeep DEF ScanInv

\* The client calls again, with the cursor it was given.
LEMMA ScanAgainInv ==
    ASSUME ScanInv, ScanAgain
    PROVE  ScanInv'
<1>1. /\ UNCHANGED <<order, expires_at, clock, keys>> /\ scan' = Call(scan)
      /\ scan.pc = "answered" /\ scan.cursor # 0
  BY DEF ScanAgain
<1>2. MapOK /\ WalkOK(scan) /\ PhaseOK(scan)
  BY DEF ScanInv
<1>3. /\ scan.matched = <<>> /\ scan.cursor = Cursor(scan.shard_idx, scan.offset)
      /\ scan.pattern \in ScanPatterns
  BY <1>1, <1>2 DEF PhaseOK, WalkOK
<1>4. scan.shard_idx \in 0 .. NumShards /\ scan.offset \in Nat /\ scan.offset < OFFSET_RANGE
  BY <1>2 DEF WalkOK, ScanStates
<1>5. scan.cursor = scan.shard_idx * OFFSET_RANGE + scan.offset
  BY <1>1, <1>3 DEF Cursor
<1>6. /\ scan.cursor \div OFFSET_RANGE = scan.shard_idx
      /\ scan.cursor % OFFSET_RANGE = scan.offset
  <2>1. scan.shard_idx \in Nat
    BY <1>4
  <2> QED BY <1>4, <1>5, <2>1, CursorSplits
<1>7. WalkOK(Call(scan)) /\ PhaseOK(Call(scan))
  BY <1>2, <1>3, <1>6, CallOK
<1>8. WalkOK(scan)' /\ PhaseOK(scan)'
  BY <1>1, <1>7, WalkOn
<1> QED BY <1>1, <1>2, <1>8, ReadersKeep DEF ScanInv

\* The end of a shard is reached: what is held there is behind.
LEMMA VisitEnd ==
    ASSUME MapOK, WalkOK(scan), PhaseOK(scan), scan.pc = "shard",
           scan.offset >= Len(order[scan.shard_idx])
    PROVE  WalkOK(VisitShard) /\ VisitShard.pc = "shard"
<1> DEFINE z == [scan EXCEPT !.shard_idx = @ + 1, !.offset = 0]
           s == scan.shard_idx
<1>1. VisitShard = z
  BY DEF VisitShard
<1>2. scan \in ScanStates /\ s \in ShardIndexes /\ s \in Nat
  BY ScanAssumption DEF WalkOK, PhaseOK, ScanStates, ShardIndexes
<1>3. /\ z.pc = scan.pc /\ z.pattern = scan.pattern /\ z.count = scan.count
      /\ z.type = scan.type /\ z.cursor = scan.cursor /\ z.now = scan.now
      /\ z.shard_idx = s + 1 /\ z.offset = 0
      /\ z.scanned = scan.scanned /\ z.matched = scan.matched /\ z.returned = scan.returned
      /\ z.steady = scan.steady /\ z.shaken = scan.shaken /\ z.calm = scan.calm
  BY <1>2 DEF ScanStates
<1>4. z \in ScanStates
  <2>1. s + 1 \in 0 .. NumShards
    BY <1>2, ScanAssumption DEF ShardIndexes
  <2> QED BY <1>2, <1>3, <2>1 DEF ScanStates
<1> HIDE DEF z
<1>5. Found(z) = Found(scan) /\ \A k : Picks(z, k) <=> Picks(scan, k)
  BY <1>3 DEF Found, Picks
<1>6. \A k \in Keys : ShardOf[k] \in Nat
  BY ScanAssumption
<1>7. ASSUME NEW k \in scan.steady, Behind(z, k)
      PROVE  Behind(scan, k)
  <2>1. k \in Keys /\ Holds(k)
    BY DEF WalkOK, SteadyOK
  <2>2. ShardOf[k] < s + 1 \/ ShardOf[k] = s + 1
    BY <1>3, <1>7 DEF Behind
  <2>3. CASE ShardOf[k] < s
    BY <2>3 DEF Behind
  <2>4. CASE ShardOf[k] = s
    <3>1. PICK i \in DOMAIN order[s] : order[s][i] = k
      BY <2>1, <2>4 DEF Holds, Range
    <3>2. order[s] \in Seq(Keys)
      BY <1>2 DEF MapOK, ShardOK
    <3>3. i <= scan.offset
      <4>1. i \in 1 .. Len(order[s]) /\ Len(order[s]) \in Nat /\ scan.offset \in Nat
        BY <1>2, <3>2, LenProperties DEF ScanStates
      <4> QED BY <4>1
    <3> QED BY <2>4, <3>1, <3>3 DEF Behind
  <2>5. CASE ShardOf[k] = s + 1
    <3>1. PICK i \in DOMAIN order[ShardOf[k]] : i <= 0
      BY <1>2, <1>3, <1>7, <2>5 DEF Behind
    <3>2. ShardOf[k] \in ShardIndexes
      BY <2>1, ScanAssumption DEF ShardIndexes
    <3>3. order[ShardOf[k]] \in Seq(Keys)
      BY <3>2 DEF MapOK, ShardOK
    <3>4. i \in 1 .. Len(order[ShardOf[k]]) /\ Len(order[ShardOf[k]]) \in Nat
      BY <3>3, LenProperties
    <3> QED BY <3>1, <3>4
  <2>6. ShardOf[k] < s \/ ShardOf[k] = s \/ ShardOf[k] = s + 1
    BY <1>2, <1>6, <2>1, <2>2
  <2> QED BY <2>3, <2>4, <2>5, <2>6
<1>8. ASSUME NEW k \in Keys, Behind(scan, k)
      PROVE  Behind(z, k)
  <2>1. ShardOf[k] < s + 1
    BY <1>2, <1>6, <1>8 DEF Behind
  <2> QED BY <1>3, <2>1 DEF Behind
<1>9. \A k \in Range(Found(scan)) : k \in Keys
  <2>1. Found(scan) \in Seq(Keys)
    BY <1>2, ConcatProperties DEF Found, ScanStates
  <2>2. DOMAIN Found(scan) = 1 .. Len(Found(scan))
    BY <2>1, LenProperties
  <2> QED BY <2>1, <2>2, ElementOfSeq DEF Range
<1>10. z.offset < OFFSET_RANGE /\ z.shard_idx > 0
  <2>1. Cardinality(Keys) \in Nat
    BY ScanAssumption, FS_CardinalityType
  <2> QED BY <1>2, <1>3, <2>1, ScanAssumption
<1>11. WalkOK(z)
  BY <1>3, <1>4, <1>5, <1>7, <1>8, <1>9, <1>10 DEF WalkOK
<1> QED BY <1>1, <1>3, <1>11

\* How far a visit goes that does not stand at the end of the shard.
LEMMA VisitLength ==
    ASSUME MapOK, WalkOK(scan), PhaseOK(scan), scan.pc = "shard",
           ~(scan.offset >= Len(order[scan.shard_idx])),
           NEW visited, visited = Min({TargetScan(scan.count) - scan.scanned,
                                       Len(order[scan.shard_idx]) - scan.offset})
    PROVE  /\ visited \in Nat \ {0}
           /\ scan.offset + visited \in Nat
           /\ scan.offset < scan.offset + visited
           /\ scan.offset + visited <= Len(order[scan.shard_idx])
           /\ Len(order[scan.shard_idx]) \in Nat
<1> DEFINE a == TargetScan(scan.count) - scan.scanned
           b == Len(order[scan.shard_idx]) - scan.offset
<1>1. scan \in ScanStates /\ scan.shard_idx \in ShardIndexes
  BY ScanAssumption DEF WalkOK, PhaseOK, ScanStates, ShardIndexes
<1>2. Len(order[scan.shard_idx]) \in Nat
  BY <1>1, LenProperties DEF MapOK, ShardOK
<1>3. scan.offset \in Nat /\ scan.scanned \in Nat /\ TargetScan(scan.count) \in Nat
  BY <1>1, TargetPositive DEF ScanStates
<1>4. a \in Nat \ {0}
  BY <1>3 DEF PhaseOK
<1>5. b \in Nat \ {0}
  BY <1>2, <1>3
<1>6. visited = Min({a, b}) /\ scan.offset + b = Len(order[scan.shard_idx])
  BY <1>2, <1>3
<1> HIDE DEF a, b
<1>7. Min({a, b}) = IF a <= b THEN a ELSE b
  BY <1>4, <1>5, MinOfTwo
<1>8. visited \in Nat \ {0} /\ visited <= b
  BY <1>4, <1>5, <1>6, <1>7
<1> QED BY <1>2, <1>3, <1>5, <1>6, <1>8

\* The entries from the offset on, up to end.
LEMMA PartVisited ==
    ASSUME MapOK, WalkOK(scan), PhaseOK(scan), scan.pc = "shard", NEW end \in Nat,
           end <= Len(order[scan.shard_idx]), NEW more,
           more = LET part == SubSeq(order[scan.shard_idx], scan.offset + 1, end)
                  IN  Only(part, {k \in Range(part) : Wanted(k)})
    PROVE  /\ more \in Seq(Keys)
           /\ IsInjective(more)
           /\ \A k : k \in Range(more) <=>
                Wanted(k) /\ \E i \in scan.offset + 1 .. end : order[scan.shard_idx][i] = k
<1> DEFINE entries == order[scan.shard_idx]
           m == scan.offset + 1
           part == SubSeq(entries, m, end)
           S == {k \in Range(part) : Wanted(k)}
<1>1. scan \in ScanStates /\ scan.shard_idx \in ShardIndexes
  BY ScanAssumption DEF WalkOK, PhaseOK, ScanStates, ShardIndexes
<1>2. entries \in Seq(Keys) /\ IsInjective(entries)
  BY <1>1 DEF MapOK, ShardOK
<1>3. m \in Nat \ {0}
  BY <1>1 DEF ScanStates
<1>4. more = Only(part, S)
  OBVIOUS
<1>5. end <= Len(entries)
  OBVIOUS
<1> HIDE DEF entries, m
<1>6. /\ part \in Seq(Keys) /\ IsInjective(part)
      /\ \A x : x \in Range(part) <=> \E i \in m .. end : entries[i] = x
  BY <1>2, <1>3, <1>5, PartFacts
<1> HIDE DEF part
<1>7. Range(part) \cap S = S /\ \A x : x \in S <=> x \in Range(part) /\ Wanted(x)
  OBVIOUS
<1> HIDE DEF S
<1>8. more \in Seq(Keys) /\ IsInjective(more) /\ Range(more) = Range(part) \cap S
  BY <1>4, <1>6, OnlyFacts
<1>9. \A k : k \in Range(more) <=> Wanted(k) /\ \E i \in m .. end : entries[i] = k
  BY <1>6, <1>7, <1>8
<1> QED BY <1>8, <1>9 DEF m, entries

\* What was returned, what was matched and what is added, however they are put together.
LEMMA ConcatTwice ==
    ASSUME NEW a \in Seq(Keys), NEW b \in Seq(Keys), NEW c \in Seq(Keys)
    PROVE  (a \o b) \o c = a \o (b \o c)
BY ConcatAssociative

\* Entries are visited: those that are wanted are found, and no other.
LEMMA VisitPart ==
    ASSUME MapOK, WalkOK(scan), PhaseOK(scan), scan.pc = "shard",
           ~(scan.offset >= Len(order[scan.shard_idx]))
    PROVE  WalkOK(VisitShard) /\ VisitShard.pc = "shard"
<1> DEFINE s == scan.shard_idx
           entries == order[s]
           visited == Min({TargetScan(scan.count) - scan.scanned, Len(entries) - scan.offset})
           end == scan.offset + visited
           more == LET part == SubSeq(entries, scan.offset + 1, end)
                   IN  Only(part, {k \in Range(part) : Wanted(k)})
           z == [scan EXCEPT !.shard_idx = IF end >= Len(entries) THEN @ + 1 ELSE @,
                             !.offset    = IF end >= Len(entries) THEN 0 ELSE end,
                             !.scanned   = @ + visited,
                             !.matched   = @ \o more]
<1>1. VisitShard = z
  BY DEF VisitShard
<1>2. scan \in ScanStates /\ s \in ShardIndexes /\ s \in Nat
  BY ScanAssumption DEF WalkOK, PhaseOK, ScanStates, ShardIndexes
<1>3. /\ visited \in Nat \ {0} /\ end \in Nat /\ scan.offset < end /\ end <= Len(entries)
      /\ Len(entries) \in Nat
  <2>1. visited = Min({TargetScan(scan.count) - scan.scanned,
                       Len(order[scan.shard_idx]) - scan.offset})
    OBVIOUS
  <2> HIDE DEF visited
  <2> QED BY <2>1, VisitLength
<1> HIDE DEF visited
<1>4. /\ more \in Seq(Keys) /\ IsInjective(more)
      /\ \A k : k \in Range(more) <=>
           Wanted(k) /\ \E i \in scan.offset + 1 .. end : entries[i] = k
  <2>1. more = LET part == SubSeq(order[scan.shard_idx], scan.offset + 1, end)
               IN  Only(part, {k \in Range(part) : Wanted(k)})
    OBVIOUS
  <2> HIDE DEF more, end
  <2> QED BY <1>3, <2>1, PartVisited
<1> HIDE DEF more, end
<1>5. /\ z.pc = "shard" /\ z.pattern = scan.pattern /\ z.count = scan.count
      /\ z.type = scan.type /\ z.cursor = scan.cursor /\ z.now = scan.now
      /\ z.shard_idx = (IF end >= Len(entries) THEN s + 1 ELSE s)
      /\ z.offset = (IF end >= Len(entries) THEN 0 ELSE end)
      /\ z.scanned = scan.scanned + visited
      /\ z.matched = scan.matched \o more /\ z.returned = scan.returned
      /\ z.steady = scan.steady /\ z.shaken = scan.shaken /\ z.calm = scan.calm
  BY <1>2 DEF ScanStates
<1>6. scan.matched \in Seq(Keys) /\ scan.returned \in Seq(Keys) /\ scan.offset \in Nat
      /\ scan.scanned \in Nat
  BY <1>2 DEF ScanStates
<1>7. z \in ScanStates
  <2>1. z.shard_idx \in 0 .. NumShards
    BY <1>2, <1>5, ScanAssumption DEF ShardIndexes
  <2>2. z.offset \in Nat /\ z.scanned \in Nat
    BY <1>3, <1>5, <1>6
  <2>3. z.matched \in Seq(Keys)
    BY <1>4, <1>5, <1>6, ConcatProperties
  <2> QED BY <1>2, <1>5, <2>1, <2>2, <2>3 DEF ScanStates
<1> HIDE DEF z
<1>8. entries \in Seq(Keys) /\ IsInjective(entries) /\ DOMAIN entries = 1 .. Len(entries)
      /\ \A i \in 1 .. Len(entries) : entries[i] \in Keys /\ ShardOf[entries[i]] = s
  <2>1. ShardOK(s)
    BY <1>2 DEF MapOK
  <2>2. entries \in Seq(Keys) /\ IsInjective(entries)
    BY <2>1 DEF ShardOK
  <2>3. DOMAIN entries = 1 .. Len(entries)
    BY <2>2, LenProperties
  <2> QED BY <2>1, <2>2, <2>3, ElementOfSeq DEF ShardOK
<1>9. Found(z) = Found(scan) \o more /\ Found(scan) \in Seq(Keys)
  <2>1. (scan.returned \o scan.matched) \o more = scan.returned \o (scan.matched \o more)
    BY <1>4, <1>6, ConcatTwice
  <2>2. scan.returned \o scan.matched \in Seq(Keys)
    BY <1>6, ConcatProperties
  <2> QED BY <1>5, <2>1, <2>2 DEF Found
<1>10. Range(Found(z)) = Range(Found(scan)) \cup Range(more)
  BY <1>4, <1>9, RangeConcat
<1>11. \A k : Picks(z, k) <=> Picks(scan, k)
  BY <1>5 DEF Picks
<1>12. \A k \in Range(Found(z)) : Picks(z, k)
  BY <1>4, <1>10, <1>11 DEF WalkOK, Wanted, Picks
\* Where the keys of this shard are before and after.
<1>13. ASSUME NEW i \in 1 .. Len(entries)
       PROVE  Behind(scan, entries[i]) <=> i <= scan.offset
  <2>1. ShardOf[entries[i]] = s /\ ~(s < s)
    BY <1>2, <1>8
  <2>2. \A j \in DOMAIN entries : entries[j] = entries[i] => j = i
    BY <1>8 DEF IsInjective
  <2> QED BY <1>8, <2>1, <2>2 DEF Behind
<1>14. ASSUME NEW i \in 1 .. end
       PROVE  Behind(z, entries[i])
  <2>1. i \in DOMAIN entries /\ ShardOf[entries[i]] = s /\ i <= end
    BY <1>3, <1>8
  <2>2. CASE end >= Len(entries)
    BY <1>2, <1>5, <2>1, <2>2 DEF Behind
  <2>3. CASE ~(end >= Len(entries))
    BY <1>5, <2>1, <2>3 DEF Behind
  <2> QED BY <2>2, <2>3
<1>15. ASSUME NEW k \in Keys, ShardOf[k] < s
       PROVE  Behind(scan, k) /\ Behind(z, k)
  <2>1. ShardOf[k] \in Nat
    BY ScanAssumption
  <2> QED BY <1>2, <1>5, <1>15, <2>1 DEF Behind
<1>16. ASSUME NEW k \in Keys, Holds(k), Behind(z, k)
       PROVE  ShardOf[k] < s \/ \E i \in 1 .. end : entries[i] = k
  <2>1. ShardOf[k] \in ShardIndexes /\ ShardOf[k] \in Nat
    BY ScanAssumption DEF ShardIndexes
  <2>2. CASE end >= Len(entries)
    <3>1. ShardOf[k] < s + 1 \/ (ShardOf[k] = s + 1 /\ \E i \in DOMAIN order[ShardOf[k]] : i <= 0)
      BY <1>5, <1>16, <2>2 DEF Behind
    <3>2. \A i \in DOMAIN order[ShardOf[k]] : ~(i <= 0)
      <4>1. order[ShardOf[k]] \in Seq(Keys)
        BY <2>1 DEF MapOK, ShardOK
      <4> QED BY <4>1, LenProperties
    <3>3. ShardOf[k] < s \/ ShardOf[k] = s
      BY <1>2, <2>1, <3>1, <3>2
    <3>4. ASSUME ShardOf[k] = s
          PROVE  \E i \in 1 .. end : entries[i] = k
      <4>1. PICK i \in DOMAIN entries : entries[i] = k
        BY <1>16, <3>4 DEF Holds, Range
      <4>2. i \in 1 .. end
        BY <1>3, <1>8, <2>2
      <4> QED BY <4>1, <4>2
    <3> QED BY <3>3, <3>4
  <2>3. CASE ~(end >= Len(entries))
    <3>1. ShardOf[k] < s \/ (ShardOf[k] = s /\ \E i \in DOMAIN entries : i <= end /\ entries[i] = k)
      BY <1>5, <1>16, <2>3 DEF Behind
    <3>2. \A i \in DOMAIN entries : i <= end => i \in 1 .. end
      BY <1>3, <1>8
    <3> QED BY <3>1, <3>2
  <2> QED BY <2>2, <2>3
<1>17. ASSUME NEW k \in scan.steady, Picks(z, k), ShardOf[k] \notin scan.shaken, Behind(z, k)
       PROVE  k \in Range(Found(z))
  <2>1. k \in Keys /\ Holds(k) /\ clock < expires_at[k]
    BY DEF WalkOK, SteadyOK
  <2>2. CASE Behind(scan, k)
    BY <1>10, <1>11, <1>17, <2>2 DEF WalkOK
  <2>3. CASE ~Behind(scan, k)
    <3>1. PICK i \in 1 .. end : entries[i] = k
      BY <1>15, <1>16, <1>17, <2>1, <2>3
    <3>2. i \in 1 .. Len(entries)
      BY <1>3
    <3>3. i \in scan.offset + 1 .. end
      <4>1. ~(i <= scan.offset)
        BY <1>13, <2>3, <3>1, <3>2
      <4> QED BY <1>3, <1>6, <4>1
    <3>4. Wanted(k)
      <4>1. scan.now \in Nat /\ clock \in Nat /\ expires_at[k] \in Int /\ scan.now <= clock
        BY <1>2, <2>1 DEF WalkOK, MapOK, ScanStates
      <4>2. ~is_expired(k, scan.now)
        BY <2>1, <4>1 DEF is_expired
      <4> QED BY <1>11, <1>17, <4>2 DEF Wanted, Picks
    <3> QED BY <1>4, <1>10, <3>1, <3>3, <3>4
  <2> QED BY <2>2, <2>3
<1>18. ASSUME scan.calm
       PROVE  IsInjective(Found(z)) /\ \A k \in Range(Found(z)) : Behind(z, k)
  <2>1. IsInjective(Found(scan)) /\ \A k \in Range(Found(scan)) : Behind(scan, k)
    BY <1>18 DEF WalkOK
  <2>2. ASSUME NEW k \in Range(more)
        PROVE  ~Behind(scan, k) /\ Behind(z, k)
    <3>1. PICK i \in scan.offset + 1 .. end : entries[i] = k
      BY <1>4, <2>2
    <3>2. i \in 1 .. Len(entries) /\ i \in 1 .. end /\ ~(i <= scan.offset)
      BY <1>3, <1>6
    <3> QED BY <1>13, <1>14, <3>1, <3>2
  <2>3. Range(Found(scan)) \cap Range(more) = {}
    BY <2>1, <2>2
  <2>4. IsInjective(Found(z))
    BY <1>4, <1>9, <2>1, <2>3, RangeConcat
  <2>5. ASSUME NEW k \in Range(Found(scan))
        PROVE  Behind(z, k)
    <3>1. k \in Keys
      <4>1. DOMAIN Found(scan) = 1 .. Len(Found(scan))
        BY <1>9, LenProperties
      <4> QED BY <1>9, <2>5, <4>1, ElementOfSeq DEF Range
    <3>2. CASE ShardOf[k] < s
      BY <1>15, <3>1, <3>2
    <3>3. CASE ~(ShardOf[k] < s)
      <4>1. PICK i \in DOMAIN entries : i <= scan.offset /\ entries[i] = k
        BY <2>1, <2>5, <3>3 DEF Behind
      <4>2. i \in 1 .. end
        BY <1>3, <1>6, <1>8, <4>1
      <4> QED BY <1>14, <4>1, <4>2
    <3> QED BY <3>2, <3>3
  <2> QED BY <1>10, <2>2, <2>4, <2>5
<1>19. z.offset < OFFSET_RANGE
  <2>1. Len(entries) < OFFSET_RANGE
    BY <1>8, OrderLength
  <2>2. OFFSET_RANGE \in Nat
    BY ScanAssumption
  <2> QED BY <1>3, <1>5, <2>1, <2>2
<1>20. z.shard_idx > 0 \/ z.offset > 0
  BY <1>2, <1>3, <1>5, <1>6
<1>21. scan.pattern \in ScanPatterns /\ scan.now <= clock /\ SteadyOK(scan.steady)
  BY DEF WalkOK
<1>22. WalkOK(z)
  <2> HIDE DEF s, entries
  <2>1. \A k \in z.steady :
          Picks(z, k) /\ ShardOf[k] \notin z.shaken /\ Behind(z, k) => k \in Range(Found(z))
    BY <1>5, <1>17
  <2>2. z.calm => IsInjective(Found(z)) /\ \A k \in Range(Found(z)) : Behind(z, k)
    BY <1>5, <1>18
  <2> QED BY <1>5, <1>7, <1>12, <1>19, <1>20, <1>21, <2>1, <2>2 DEF WalkOK
<1> QED BY <1>1, <1>5, <1>22

\* SCAN goes over one shard.
LEMMA ScanShardInv ==
    ASSUME ScanInv, ScanShard
    PROVE  ScanInv'
<1>1. /\ UNCHANGED <<order, expires_at, clock, keys>> /\ scan' = Continue(VisitShard)
      /\ scan.pc = "shard"
  BY DEF ScanShard
<1>2. MapOK /\ WalkOK(scan) /\ PhaseOK(scan)
  BY DEF ScanInv
<1>3. WalkOK(VisitShard) /\ VisitShard.pc = "shard"
  BY <1>1, <1>2, VisitEnd, VisitPart
<1>4. WalkOK(Continue(VisitShard)) /\ PhaseOK(Continue(VisitShard))
  BY <1>3, ContinueOK
<1>5. WalkOK(scan)' /\ PhaseOK(scan)'
  BY <1>1, <1>4, WalkOn
<1> QED BY <1>1, <1>2, <1>5, ReadersKeep DEF ScanInv

-----------------------------------------------------------------------------
(* The theorems *)

\* Every step keeps the invariant.
LEMMA NextInv ==
    ASSUME ScanInv, [Next]_vars
    PROVE  ScanInv'
<1>1. CASE UNCHANGED vars
  BY <1>1, ReadersKeep DEF ScanInv, vars
<1>2. CASE Next
  BY <1>2, InsertInv, RemoveInv, NewDeadlineInv, RehashInv, TickInv, KeysCallInv, KeysShardInv,
     ScanBeginInv, ScanShardInv, ScanAgainInv
     DEF Next, ChangeNext, ReaderNext
<1> QED BY <1>1, <1>2

\* KEYS has gone over every shard when it answers.
LEMMA KeysInv ==
    ASSUME ScanInv
    PROVE  KeysExact
<1> SUFFICES ASSUME keys.pc = "done"
             PROVE  /\ \A i \in DOMAIN keys.result : Matches(keys.pattern, keys.result[i])
                    /\ \A k \in keys.steady : Matches(keys.pattern, k) => k \in Range(keys.result)
  BY DEF KeysExact
<1>1. /\ keys.pattern \in KeysPatterns /\ keys.shard = NumShards
      /\ keys.result \in Seq(Keys) /\ keys.steady \subseteq Keys
  BY DEF ScanInv, KeysOK, KeysStates
<1>2. \A k \in Keys : Fits(keys.pattern, k) <=> Matches(keys.pattern, k)
  BY <1>1, GlobAgrees
<1>3. ASSUME NEW i \in DOMAIN keys.result
      PROVE  Matches(keys.pattern, keys.result[i])
  <2>1. keys.result[i] \in Keys
    BY <1>1, LenProperties, ElementOfSeq
  <2>2. Fits(keys.pattern, keys.result[i])
    BY DEF ScanInv, KeysOK, Range
  <2> QED BY <1>2, <2>1, <2>2
<1>4. ASSUME NEW k \in keys.steady, Matches(keys.pattern, k)
      PROVE  k \in Range(keys.result)
  <2>1. k \in Keys /\ Fits(keys.pattern, k)
    BY <1>1, <1>2, <1>4
  <2>2. ShardOf[k] < keys.shard
    BY <1>1, <2>1, ScanAssumption
  <2> QED BY <2>1, <2>2 DEF ScanInv, KeysOK
<1> QED BY <1>3, <1>4

\* SCAN has gone over every shard when it answers with cursor 0.
LEMMA ScansInv ==
    ASSUME ScanInv
    PROVE  ScanComplete
<1> SUFFICES ASSUME ScanDone
             PROVE  /\ \A k \in scan.steady :
                         ScanMatches(k) /\ ShardOf[k] \notin scan.shaken => k \in Range(scan.returned)
                    /\ scan.calm => IsInjective(scan.returned)
                    /\ \A i \in DOMAIN scan.returned : ScanMatches(scan.returned[i])
  BY DEF ScanComplete
<1>1. scan.pc = "answered" /\ scan.cursor = 0
  BY DEF ScanDone
<1>2. WalkOK(scan) /\ PhaseOK(scan) /\ scan \in ScanStates
  BY DEF ScanInv, WalkOK
<1>3. /\ scan.pattern \in ScanPatterns /\ scan.matched = <<>> /\ scan.returned \in Seq(Keys)
      /\ scan.steady \subseteq Keys /\ scan.shard_idx \in 0 .. NumShards /\ scan.offset \in Nat
      /\ scan.offset < OFFSET_RANGE
  BY <1>1, <1>2 DEF WalkOK, PhaseOK, ScanStates
<1>4. Found(scan) = scan.returned
  BY <1>3, ConcatEmptySeq DEF Found
<1>5. scan.shard_idx = NumShards
  <2> SUFFICES ASSUME scan.shard_idx # NumShards
               PROVE  FALSE
    OBVIOUS
  <2>1. scan.shard_idx < NumShards /\ scan.shard_idx \in Nat
    BY <1>3, ScanAssumption
  <2>2. scan.shard_idx > 0 \/ scan.offset > 0
    BY <1>1, <1>2, <2>1 DEF PhaseOK
  <2>3. scan.cursor = scan.shard_idx * OFFSET_RANGE + scan.offset
    <3>1. ~(scan.shard_idx >= NumShards)
      BY <2>1, ScanAssumption
    <3> QED BY <1>1, <1>2, <3>1 DEF PhaseOK, Cursor
  <2>4. scan.cursor > 0
    BY <1>3, <2>1, <2>2, <2>3, CursorSplits
  <2> QED BY <1>1, <2>4
<1>6. \A k \in Keys : Picks(scan, k) <=> ScanMatches(k)
  BY <1>3, GlobAgrees DEF Picks, ScanMatches
<1>7. \A k \in Keys : Behind(scan, k)
  BY <1>5, ScanAssumption DEF Behind
<1>8. ASSUME NEW k \in scan.steady, ScanMatches(k), ShardOf[k] \notin scan.shaken
      PROVE  k \in Range(scan.returned)
  <2>1. k \in Keys
    BY <1>3
  <2> QED BY <1>2, <1>4, <1>6, <1>7, <1>8, <2>1 DEF WalkOK
<1>9. scan.calm => IsInjective(scan.returned)
  BY <1>2, <1>4 DEF WalkOK
<1>10. ASSUME NEW i \in DOMAIN scan.returned
       PROVE  ScanMatches(scan.returned[i])
  <2>1. scan.returned[i] \in Keys
    BY <1>3, LenProperties, ElementOfSeq
  <2>2. scan.returned[i] \in Range(Found(scan))
    BY <1>4 DEF Range
  <2>3. Picks(scan, scan.returned[i])
    BY <1>2, <2>2 DEF WalkOK
  <2> QED BY <1>6, <2>1, <2>3
<1> QED BY <1>8, <1>9, <1>10

\* The inductive invariant of KEYS and SCAN.
LEMMA ScanInvariant == Spec => []ScanInv
<1>1. Init => ScanInv
  BY InitInv
<1>2. ScanInv /\ [Next]_vars => ScanInv'
  BY NextInv
<1> QED BY <1>1, <1>2, PTL DEF Spec

\* KEYS answers with keys that match and with every such key that was live all the time,
\* whatever other clients do between its locks, for any number of keys and shards.
THEOREM KeysAreExact == Spec => []KeysExact
<1>1. ScanInv => KeysExact
  BY KeysInv
<1> QED BY <1>1, ScanInvariant, PTL

\* An iteration with SCAN from cursor 0 back to cursor 0 returns every key that was live all
\* the time and matches, except in a shard that was shaken under it, each once if the map
\* did not change, and no key that does not match; for any counts and any number of changes.
THEOREM ScansAreComplete == Spec => []ScanComplete
<1>1. ScanInv => ScanComplete
  BY ScansInv
<1> QED BY <1>1, ScanInvariant, PTL

=============================================================================
