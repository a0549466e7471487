----------------------------- MODULE OrderLemmas -----------------------------
(***************************************************************************)
(* Induction over the natural numbers, finite strict orders, and what At   *)
(* takes of a sequence.  Induction is stated for sets, so that a proof can *)
(* cite it: the minimum of a set of numbers is the smallest initial        *)
(* segment, and strict inclusion of finite sets is well-founded.           *)
(***************************************************************************)
EXTENDS Subsequences, FiniteSetTheorems, SequenceTheorems, TLAPS

LEMMA Least ==
    ASSUME NEW T, T \subseteq Nat, T # {}
    PROVE  \E m \in T : \A k \in T : m <= k
<1> DEFINE U == {0 .. n : n \in T}
<1>1. U \subseteq FiniteSubsetsOf(Nat)
  <2>1. \A n \in Nat : IsFiniteSet(0 .. n)
    BY FS_Interval
  <2> QED
    BY <2>1 DEF FiniteSubsetsOf
<1>2. U # {}
  OBVIOUS
<1> HIDE DEF U
<1>3. \E x \in U : \A y \in U : <<y, x>> \notin StrictSubsetOrdering(Nat)
  BY <1>1, <1>2, FS_StrictSubsetOrderingWellFounded, WFMin
<1>4. PICK m \in T : \A y \in U : <<y, 0 .. m>> \notin StrictSubsetOrdering(Nat)
  BY <1>3 DEF U
<1>5. ASSUME NEW k \in T, k < m PROVE FALSE
  <2>1. 0 .. k \in U
    BY DEF U
  <2>2. m \in 0 .. m /\ m \notin 0 .. k
    BY <1>5
  <2>3. (0 .. k) \subseteq (0 .. m) /\ (0 .. k) # (0 .. m)
    BY <1>5, <2>2
  <2>4. <<0 .. k, 0 .. m>> \in StrictSubsetOrdering(Nat)
    BY <2>3 DEF StrictSubsetOrdering
  <2> QED
    BY <1>4, <2>1, <2>4
<1> QED
  BY <1>5

LEMMA Induction ==
    ASSUME NEW T, 0 \in T, \A n \in Nat : n \in T => n + 1 \in T
    PROVE  Nat \subseteq T
<1> SUFFICES ASSUME ~(Nat \subseteq T) PROVE FALSE
  OBVIOUS
<1>1. PICK m \in Nat \ T : \A k \in Nat \ T : m <= k
  BY Least
<1>2. m - 1 \in Nat /\ m - 1 \in T
  BY <1>1
<1> QED
  BY <1>1, <1>2

\* g is what step makes of start when it is applied again and again.
Iterates(S, start, step, m, g) ==
    g \in [0 .. m -> S] /\ g[0] = start /\ \A n \in 1 .. m : g[n] = step[g[n - 1]]

LEMMA Iterated ==
    ASSUME NEW S, NEW start \in S, NEW step \in [S -> S], NEW m \in Nat
    PROVE  \E g : Iterates(S, start, step, m, g)
<1> DEFINE Is(n, g) == g[0] = start /\ \A k \in 1 .. n : g[k] = step[g[k - 1]]
           T == {n \in Nat : \E g \in [0 .. n -> S] : Is(n, g)}
<1>1. 0 \in T
  <2>1. [k \in 0 .. 0 |-> start] \in [0 .. 0 -> S] /\ Is(0, [k \in 0 .. 0 |-> start])
    OBVIOUS
  <2> HIDE DEF Is
  <2> QED
    BY <2>1
<1>2. ASSUME NEW n \in Nat, n \in T PROVE n + 1 \in T
  <2> HIDE DEF Is
  <2>1. PICK g \in [0 .. n -> S] : Is(n, g)
    BY <1>2
  <2> DEFINE h == [k \in 0 .. n + 1 |-> IF k <= n THEN g[k] ELSE step[g[n]]]
  <2>2. h \in [0 .. n + 1 -> S]
    <3>1. n \in 0 .. n
      OBVIOUS
    <3>2. step[g[n]] \in S
      BY <3>1
    <3> QED
      BY <3>2
  <2>3. Is(n + 1, h)
    <3> USE DEF Is
    <3>1. h[0] = start
      BY <2>1
    <3>2. \A k \in 1 .. n + 1 : h[k] = step[h[k - 1]]
      <4> SUFFICES ASSUME NEW k \in 1 .. n + 1 PROVE h[k] = step[h[k - 1]]
        OBVIOUS
      <4>1. k - 1 \in 0 .. n /\ h[k - 1] = g[k - 1]
        OBVIOUS
      <4>2. CASE k = n + 1
        BY <4>1, <4>2
      <4>3. CASE k \in 1 .. n
        <5>1. g[k] = step[g[k - 1]] /\ h[k] = g[k]
          BY <2>1, <4>3
        <5> HIDE DEF h
        <5> QED
          BY <4>1, <5>1
      <4> QED
        BY <4>2, <4>3
    <3> HIDE DEF h
    <3> QED
      BY <3>1, <3>2
  <2> HIDE DEF h
  <2> QED
    BY <2>2, <2>3
<1> HIDE DEF T, Is
<1>3. m \in T
  BY <1>1, <1>2, Induction
<1> QED
  BY <1>3 DEF T, Is, Iterates

-----------------------------------------------------------------------------
(* Finite strict orders: R is a set of pairs.                              *)

Strict(R, X) ==
    /\ \A x \in X : <<x, x>> \notin R
    /\ \A x, y, z \in X : <<x, y>> \in R /\ <<y, z>> \in R => <<x, z>> \in R

Total(R, X) == \A x, y \in X : x = y \/ <<x, y>> \in R \/ <<y, x>> \in R

Before(R, X, x) == {y \in X : <<y, x>> \in R}

LEMMA BeforeGrows ==
    ASSUME NEW X, NEW R, Strict(R, X), NEW x \in X, NEW y \in X, <<x, y>> \in R
    PROVE  /\ Before(R, X, x) \subseteq Before(R, X, y)
           /\ x \in Before(R, X, y) /\ x \notin Before(R, X, x)
BY DEF Strict, Before

\* An order without cycles has a first element, total or not.
LEMMA FirstElement ==
    ASSUME NEW X, IsFiniteSet(X), X # {}, NEW R, Strict(R, X)
    PROVE  \E m \in X : \A y \in X : <<y, m>> \notin R
<1> DEFINE U == {Before(R, X, x) : x \in X}
<1>1. U \subseteq FiniteSubsetsOf(X)
  <2>1. \A x \in X : Before(R, X, x) \in SUBSET X
    BY DEF Before
  <2> QED
    BY <2>1, FS_Subset DEF FiniteSubsetsOf
<1>2. U # {}
  OBVIOUS
<1> HIDE DEF U
<1>3. \E x \in U : \A y \in U : <<y, x>> \notin StrictSubsetOrdering(X)
  BY <1>1, <1>2, FS_StrictSubsetOrderingWellFounded, WFMin
<1>4. PICK m \in X : \A y \in U : <<y, Before(R, X, m)>> \notin StrictSubsetOrdering(X)
  BY <1>3 DEF U
<1>5. ASSUME NEW y \in X, <<y, m>> \in R PROVE FALSE
  <2>1. Before(R, X, y) \in U
    BY DEF U
  <2>2. Before(R, X, y) \subseteq X /\ Before(R, X, m) \subseteq X
    BY DEF Before
  <2>3. <<Before(R, X, y), Before(R, X, m)>> \in StrictSubsetOrdering(X)
    BY <1>5, <2>2, BeforeGrows DEF StrictSubsetOrdering
  <2> QED
    BY <1>4, <2>1, <2>3
<1> QED
  BY <1>5

LEMMA Greatest ==
    ASSUME NEW T, T \subseteq Nat, T # {}, IsFiniteSet(T)
    PROVE  \E m \in T : \A k \in T : k <= m
<1> DEFINE R == {x \in T \X T : x[2] < x[1]}
<1>1. Strict(R, T)
  <2>1. \A k, l \in T : <<k, l>> \in R <=> l < k
    OBVIOUS
  <2> HIDE DEF R
  <2>2. \A k \in T : ~(k < k)
    OBVIOUS
  <2>3. \A k, l, m \in T : l < k /\ m < l => m < k
    OBVIOUS
  <2> QED
    BY <2>1, <2>2, <2>3 DEF Strict
<1>2. PICK m \in T : \A y \in T : <<y, m>> \notin R
  BY <1>1, FirstElement
<1>3. \A k \in T : ~(m < k)
  BY <1>2
<1> QED
  BY <1>3

Rank(R, X, x) == Cardinality(Before(R, X, x))

\* A total order counts its elements.
LEMMA Ranks ==
    ASSUME NEW X, IsFiniteSet(X), NEW R, Strict(R, X), Total(R, X)
    PROVE  /\ \A x \in X : Rank(R, X, x) \in 0 .. Cardinality(X) - 1
           /\ \A x, y \in X : <<x, y>> \in R <=> Rank(R, X, x) < Rank(R, X, y)
           /\ \A n \in 0 .. Cardinality(X) - 1 : \E x \in X : Rank(R, X, x) = n
<1> DEFINE n == Cardinality(X)
           f == [x \in X |-> Rank(R, X, x)]
<1>1. n \in Nat
  BY FS_CardinalityType
<1>2. \A x \in X : IsFiniteSet(Before(R, X, x)) /\ Rank(R, X, x) \in Nat
  <2>1. \A x \in X : Before(R, X, x) \in SUBSET X
    BY DEF Before
  <2> QED
    BY <2>1, FS_Subset, FS_CardinalityType DEF Rank
<1>3. ASSUME NEW x \in X PROVE Rank(R, X, x) < n
  <2>1. Before(R, X, x) \in SUBSET X /\ Before(R, X, x) # X
    BY DEF Before, Strict
  <2> QED
    BY <1>1, <1>2, <2>1, FS_Subset DEF Rank
<1>4. ASSUME NEW x \in X, NEW y \in X, <<x, y>> \in R PROVE Rank(R, X, x) < Rank(R, X, y)
  <2>1. Before(R, X, x) \in SUBSET Before(R, X, y) /\ Before(R, X, x) # Before(R, X, y)
    BY <1>4, BeforeGrows
  <2> QED
    BY <1>2, <2>1, FS_Subset DEF Rank
<1>5. ASSUME NEW x \in X, NEW y \in X, ~(<<x, y>> \in R)
      PROVE  x = y \/ Rank(R, X, y) < Rank(R, X, x)
  BY <1>4, <1>5 DEF Total
<1>6. f \in Injection(X, 0 .. n - 1)
  <2>1. \A x \in X : Rank(R, X, x) \in 0 .. n - 1
    BY <1>1, <1>2, <1>3
  <2>2. ASSUME NEW x \in X, NEW y \in X, Rank(R, X, x) = Rank(R, X, y) PROVE x = y
    <3>1. Rank(R, X, x) \in Nat /\ Rank(R, X, y) \in Nat
      BY <1>2
    <3>2. CASE <<x, y>> \in R
      BY <1>4, <2>2, <3>1, <3>2
    <3>3. CASE <<x, y>> \notin R
      BY <1>5, <2>2, <3>1, <3>3
    <3> QED
      BY <3>2, <3>3
  <2> QED
    BY <2>1, <2>2 DEF Injection, IsInjective
<1>7. IsFiniteSet(0 .. n - 1) /\ Cardinality(0 .. n - 1) = n
  BY <1>1, FS_Interval
<1>8. f \in Surjection(X, 0 .. n - 1)
  BY <1>6, <1>7, FS_Injection
<1>9. \A k \in 0 .. n - 1 : \E x \in X : Rank(R, X, x) = k
  BY <1>8 DEF Surjection
<1>10. ASSUME NEW x \in X PROVE Rank(R, X, x) \in 0 .. n - 1
  BY <1>1, <1>2, <1>3
<1>11. ASSUME NEW x \in X, NEW y \in X
       PROVE  <<x, y>> \in R <=> Rank(R, X, x) < Rank(R, X, y)
  <2>1. Rank(R, X, x) \in Nat /\ Rank(R, X, y) \in Nat
    BY <1>2
  <2> QED
    BY <1>4, <1>5, <2>1
<1> QED
  BY <1>9, <1>10, <1>11

-----------------------------------------------------------------------------
(* What At takes.                                                          *)

\* g is the recursive function in At, as far as m.
Taking(s, I, m, g) ==
    g = [n \in 0 .. m |->
           IF n = 0 THEN <<>> ELSE IF n \in I THEN Append(g[n - 1], s[n]) ELSE g[n - 1]]

LEMMA TakingExists ==
    ASSUME NEW s, NEW I, NEW m \in Nat
    PROVE  \E g : Taking(s, I, m, g)
<1> DEFINE T == {n \in Nat : \E g : Taking(s, I, n, g)}
<1>1. 0 \in T
  <2>1. Taking(s, I, 0, [n \in 0 .. 0 |-> <<>>])
    BY DEF Taking
  <2> QED
    BY <2>1
<1>2. ASSUME NEW n \in Nat, n \in T PROVE n + 1 \in T
  <2>1. PICK g : Taking(s, I, n, g)
    BY <1>2
  <2> DEFINE h == [k \in 0 .. n + 1 |->
                     IF k <= n THEN g[k]
                     ELSE IF k \in I THEN Append(g[n], s[k]) ELSE g[n]]
  <2>2. \A k \in 0 .. n : h[k] = g[k]
    OBVIOUS
  <2>3. h[n + 1] = IF n + 1 \in I THEN Append(h[n], s[n + 1]) ELSE h[n]
    OBVIOUS
  <2>4. g = [k \in 0 .. n |->
               IF k = 0 THEN <<>> ELSE IF k \in I THEN Append(g[k - 1], s[k]) ELSE g[k - 1]]
    BY <2>1 DEF Taking
  <2>5. \A k \in 0 .. n + 1 :
           h[k] = IF k = 0 THEN <<>> ELSE IF k \in I THEN Append(h[k - 1], s[k]) ELSE h[k - 1]
    <3> SUFFICES ASSUME NEW k \in 0 .. n + 1
                 PROVE  h[k] = IF k = 0 THEN <<>>
                               ELSE IF k \in I THEN Append(h[k - 1], s[k]) ELSE h[k - 1]
      OBVIOUS
    <3>1. CASE k = n + 1
      BY <2>3, <3>1
    <3>2. CASE k = 0
      <4>1. g[0] = <<>>
        BY <2>4
      <4> QED
        BY <2>2, <3>2, <4>1
    <3>3. CASE k \in 1 .. n
      <4>1. k \in 0 .. n /\ k - 1 \in 0 .. n /\ k # 0
        BY <3>3
      <4>2. g[k] = IF k \in I THEN Append(g[k - 1], s[k]) ELSE g[k - 1]
        BY <2>4, <4>1
      <4>3. h[k] = g[k] /\ h[k - 1] = g[k - 1]
        BY <2>2, <4>1
      <4> HIDE DEF h
      <4> QED
        BY <4>1, <4>2, <4>3
    <3> QED
      BY <3>1, <3>2, <3>3
  <2>6. h = [k \in 0 .. n + 1 |-> h[k]]
    OBVIOUS
  <2> HIDE DEF h
  <2>7. Taking(s, I, n + 1, h)
    BY <2>5, <2>6 DEF Taking
  <2> QED
    BY <2>7
<1> HIDE DEF T
<1>3. Nat \subseteq T
  BY <1>1, <1>2, Induction
<1> QED
  BY <1>3 DEF T

LEMMA AtTaking ==
    ASSUME NEW s, NEW I, Len(s) \in Nat
    PROVE  \E g : Taking(s, I, Len(s), g) /\ At(s, I) = g[Len(s)]
<1> DEFINE taken == CHOOSE g : Taking(s, I, Len(s), g)
<1>1. Taking(s, I, Len(s), taken)
  BY TakingExists
<1>2. At(s, I) = taken[Len(s)]
  BY DEF At, Taking
<1> QED
  BY <1>1, <1>2

\* f tells where each element of t, taken from s at indexes in J, comes from.
Places(s, J, t, f) ==
    /\ f \in [1 .. Len(t) -> J]
    /\ \A k \in 1 .. Len(t) : t[k] = s[f[k]]
    /\ \A k, l \in 1 .. Len(t) : k < l => f[k] < f[l]
    /\ \A i \in J : \E k \in 1 .. Len(t) : f[k] = i

LEMMA TakenPlaces ==
    ASSUME NEW S, NEW s \in Seq(S), NEW I \in SUBSET (1 .. Len(s)),
           NEW g, Taking(s, I, Len(s), g), NEW m \in 0 .. Len(s)
    PROVE  g[m] \in Seq(S) /\ \E f : Places(s, I \cap (1 .. m), g[m], f)
<1> DEFINE P(n) == g[n] \in Seq(S) /\ \E f : Places(s, I \cap (1 .. n), g[n], f)
           T == {n \in Nat : n <= Len(s) => P(n)}
<1>0. Len(s) \in Nat
  BY LenProperties
<1>5. \A n \in 0 .. Len(s) :
         g[n] = IF n = 0 THEN <<>> ELSE IF n \in I THEN Append(g[n - 1], s[n]) ELSE g[n - 1]
  BY DEF Taking
<1>1. 0 \in T
  <2>1. g[0] = <<>>
    BY <1>0, <1>5
  <2>2. Places(s, I \cap (1 .. 0), <<>>, <<>>)
    BY DEF Places
  <2>3. <<>> \in Seq(S)
    OBVIOUS
  <2> QED
    BY <2>1, <2>2, <2>3
<1>2. ASSUME NEW n \in Nat, n \in T PROVE n + 1 \in T
  <2> HIDE DEF P
  <2> SUFFICES ASSUME n + 1 <= Len(s) PROVE P(n + 1)
    OBVIOUS
  <2>0. P(n) /\ n + 1 \in 1 .. Len(s)
    <3>1. n <= Len(s) => P(n)
      BY <1>2
    <3> QED
      BY <1>0, <3>1
  <2> USE DEF P
  <2>1. g[n] \in Seq(S) /\ s[n + 1] \in S
    BY <2>0, ElementOfSeq
  <2>2. PICK f : Places(s, I \cap (1 .. n), g[n], f)
    BY <2>0
  <2>3. g[n + 1] = IF n + 1 \in I THEN Append(g[n], s[n + 1]) ELSE g[n]
    <3>1. n + 1 \in 0 .. Len(s) /\ n + 1 # 0 /\ (n + 1) - 1 = n
      BY <1>0, <2>0
    <3> QED
      BY <1>5, <3>1
  <2>4. CASE n + 1 \notin I
    <3>1. I \cap (1 .. n + 1) = I \cap (1 .. n)
      BY <2>4
    <3> QED
      BY <2>1, <2>2, <2>3, <2>4, <3>1
  <2>5. CASE n + 1 \in I
    <3> DEFINE t == Append(g[n], s[n + 1])
               e == [k \in 1 .. Len(g[n]) + 1 |-> IF k <= Len(g[n]) THEN f[k] ELSE n + 1]
    <3>1. /\ t \in Seq(S) /\ Len(t) = Len(g[n]) + 1 /\ Len(g[n]) \in Nat
          /\ \A k \in 1 .. Len(g[n]) : t[k] = g[n][k]
          /\ t[Len(g[n]) + 1] = s[n + 1]
      BY <2>1, AppendProperties, LenProperties
    <3>2. I \cap (1 .. n + 1) = (I \cap (1 .. n)) \cup {n + 1}
      BY <2>5
    <3>3. /\ \A k \in 1 .. Len(g[n]) : f[k] \in I \cap (1 .. n) /\ g[n][k] = s[f[k]]
          /\ \A k, l \in 1 .. Len(g[n]) : k < l => f[k] < f[l]
          /\ \A i \in I \cap (1 .. n) : \E k \in 1 .. Len(g[n]) : f[k] = i
      BY <2>2 DEF Places
    <3> HIDE DEF t
    <3>4. e \in [1 .. Len(t) -> I \cap (1 .. n + 1)]
      BY <3>1, <3>2, <3>3
    <3>5. \A k \in 1 .. Len(t) : t[k] = s[e[k]]
      BY <3>1, <3>3
    <3>6. \A k, l \in 1 .. Len(t) : k < l => e[k] < e[l]
      BY <3>1, <3>3
    <3>7. \A i \in I \cap (1 .. n + 1) : \E k \in 1 .. Len(t) : e[k] = i
      <4>1. SUFFICES ASSUME NEW i \in I \cap (1 .. n + 1)
                     PROVE  \E k \in 1 .. Len(g[n]) + 1 : e[k] = i
        BY <3>1
      <4>2. CASE i = n + 1
        <5>1. Len(g[n]) + 1 \in 1 .. Len(g[n]) + 1 /\ e[Len(g[n]) + 1] = n + 1
          BY <3>1
        <5> QED
          BY <4>2, <5>1
      <4>3. CASE i \in I \cap (1 .. n)
        <5>1. PICK k \in 1 .. Len(g[n]) : f[k] = i
          BY <3>3, <4>3
        <5>2. k \in 1 .. Len(g[n]) + 1 /\ e[k] = i
          BY <3>1, <5>1
        <5> QED
          BY <5>2
      <4> QED
        BY <3>2, <4>2, <4>3
    <3> HIDE DEF e
    <3>8. Places(s, I \cap (1 .. n + 1), t, e)
      BY <3>4, <3>5, <3>6, <3>7 DEF Places
    <3>9. g[n + 1] = t
      BY <2>3, <2>5 DEF t
    <3> QED
      BY <3>1, <3>8, <3>9
  <2> QED
    BY <2>4, <2>5
<1> HIDE DEF P
<1>3. Nat \subseteq T
  <2> HIDE DEF T
  <2> QED
    BY <1>1, <1>2, Induction
<1>4. P(m)
  BY <1>0, <1>3
<1> QED
  BY <1>4 DEF P

\* At keeps the order of s, and takes each of the indexes once.
LEMMA AtPlaces ==
    ASSUME NEW S, NEW s \in Seq(S), NEW I \in SUBSET (1 .. Len(s))
    PROVE  /\ At(s, I) \in Seq(S)
           /\ \E f : Places(s, I, At(s, I), f)
           /\ IsFiniteSet(I) /\ Len(At(s, I)) = Cardinality(I)
<1>0. Len(s) \in Nat
  BY LenProperties
<1>1. PICK g : Taking(s, I, Len(s), g) /\ At(s, I) = g[Len(s)]
  BY <1>0, AtTaking
<1>2. I \cap (1 .. Len(s)) = I
  OBVIOUS
<1>3. At(s, I) \in Seq(S) /\ \E f : Places(s, I, At(s, I), f)
  <2>1. Len(s) \in 0 .. Len(s)
    BY <1>0
  <2>2. g[Len(s)] \in Seq(S) /\ \E f : Places(s, I \cap (1 .. Len(s)), g[Len(s)], f)
    BY <1>1, <2>1, TakenPlaces
  <2> QED
    BY <1>1, <1>2, <2>2
<1>4. PICK f : Places(s, I, At(s, I), f)
  BY <1>3
<1>5. Len(At(s, I)) \in Nat
  BY <1>3, LenProperties
<1>6. f \in Bijection(1 .. Len(At(s, I)), I)
  <2>1. \A k, l \in 1 .. Len(At(s, I)) : f[k] = f[l] => k = l
    <3> SUFFICES ASSUME NEW k \in 1 .. Len(At(s, I)), NEW l \in 1 .. Len(At(s, I)), k < l
                 PROVE  f[k] # f[l]
      BY <1>5
    <3>1. f[k] < f[l] /\ f[k] \in 1 .. Len(s) /\ f[l] \in 1 .. Len(s)
      BY <1>4 DEF Places
    <3> QED
      BY <3>1
  <2> QED
    BY <1>4, <2>1 DEF Places, Bijection, Injection, Surjection, IsInjective
<1>7. ExistsBijection(1 .. Len(At(s, I)), I)
  BY <1>6 DEF ExistsBijection
<1> QED
  BY <1>3, <1>5, <1>7, FS_CountingElements, FS_NatBijection

LEMMA AtRange ==
    ASSUME NEW S, NEW s \in Seq(S), NEW I \in SUBSET (1 .. Len(s))
    PROVE  {At(s, I)[k] : k \in 1 .. Len(At(s, I))} = {s[i] : i \in I}
<1>1. PICK f : Places(s, I, At(s, I), f)
  BY AtPlaces
<1>2. \A k \in 1 .. Len(At(s, I)) : At(s, I)[k] = s[f[k]] /\ f[k] \in I
  BY <1>1 DEF Places
<1>3. \A i \in I : \E k \in 1 .. Len(At(s, I)) : At(s, I)[k] = s[i]
  BY <1>1 DEF Places
<1> QED
  BY <1>2, <1>3

\* What is taken where no two elements are the same has none twice.
LEMMA AtOnce ==
    ASSUME NEW S, NEW s \in Seq(S), NEW I \in SUBSET (1 .. Len(s)),
           \A i, j \in I : s[i] = s[j] => i = j,
           NEW k \in 1 .. Len(At(s, I)), NEW l \in 1 .. Len(At(s, I)),
           At(s, I)[k] = At(s, I)[l]
    PROVE  k = l
<1>1. PICK f : Places(s, I, At(s, I), f)
  BY AtPlaces
<1>2. Len(At(s, I)) \in Nat
  BY AtPlaces, LenProperties
<1>3. f[k] \in I /\ f[l] \in I /\ s[f[k]] = s[f[l]]
  BY <1>1 DEF Places
<1>4. f[k] = f[l] /\ f[k] \in Nat
  <2>1. I \subseteq Nat
    OBVIOUS
  <2>2. f[k] = f[l]
    BY <1>3
  <2> QED
    BY <1>3, <2>1, <2>2
<1>5. k < l => f[k] < f[l]
  BY <1>1 DEF Places
<1>6. l < k => f[l] < f[k]
  BY <1>1 DEF Places
<1> QED
  BY <1>2, <1>4, <1>5, <1>6

\* A sequence that has each of its elements once stays as it is.
LEMMA UniquesPlain ==
    ASSUME NEW S, NEW s \in Seq(S), \A i, j \in 1 .. Len(s) : s[i] = s[j] => i = j
    PROVE  Uniques(s) = s
<1> DEFINE I == {i \in DOMAIN s : \A j \in 1 .. i - 1 : s[j] # s[i]}
<1>0. Len(s) \in Nat /\ DOMAIN s = 1 .. Len(s)
  BY LenProperties
<1>1. I = 1 .. Len(s)
  BY <1>0
<1> HIDE DEF I
<1>2. PICK g : Taking(s, I, Len(s), g) /\ At(s, I) = g[Len(s)]
  BY <1>0, AtTaking
<1>3. \A n \in 0 .. Len(s) :
         g[n] = IF n = 0 THEN <<>> ELSE IF n \in I THEN Append(g[n - 1], s[n]) ELSE g[n - 1]
  BY <1>2 DEF Taking
<1> DEFINE T == {n \in Nat : n <= Len(s) => g[n] = SubSeq(s, 1, n)}
<1>4. 0 \in T
  <2>1. g[0] = <<>> /\ SubSeq(s, 1, 0) = <<>>
    BY <1>0, <1>3, SubSeqEmpty
  <2> QED
    BY <2>1
<1>5. ASSUME NEW n \in Nat, n \in T PROVE n + 1 \in T
  <2> SUFFICES ASSUME n + 1 <= Len(s) PROVE g[n + 1] = SubSeq(s, 1, n + 1)
    OBVIOUS
  <2>1. n + 1 \in 0 .. Len(s) /\ n + 1 # 0 /\ (n + 1) - 1 = n /\ n + 1 \in I
    BY <1>0, <1>1
  <2>2. g[n + 1] = Append(g[n], s[n + 1])
    BY <1>3, <2>1
  <2>3. g[n] = SubSeq(s, 1, n)
    BY <1>0, <1>5
  <2>4. SubSeq(s, 1, n + 1) = SubSeq(s, 1, (n + 1) - 1) \o <<s[n + 1]>>
    <3>1. 1 \in 1 .. Len(s) /\ n + 1 \in 1 .. Len(s)
      BY <1>0
    <3> QED
      BY <3>1, SubSeqRecursiveSecond
  <2>5. SubSeq(s, 1, n) \in Seq(S) /\ s[n + 1] \in S
    <3>1. \A i \in 1 .. Len(s) : s[i] \in S
      BY ElementOfSeq
    <3>2. \A i \in 1 .. n : s[i] \in S
      BY <1>0, <3>1
    <3> QED
      BY <1>0, <3>1, <3>2, SubSeqProperties
  <2>6. Append(SubSeq(s, 1, n), s[n + 1]) = SubSeq(s, 1, n) \o <<s[n + 1]>>
    BY <2>5, AppendIsConcat
  <2> HIDE DEF T
  <2> QED
    BY <2>1, <2>2, <2>3, <2>4, <2>6
<1>6. Len(s) \in T
  <2> HIDE DEF T
  <2> QED
    BY <1>0, <1>4, <1>5, Induction
<1>7. At(s, I) = SubSeq(s, 1, Len(s))
  BY <1>0, <1>2, <1>6
<1>8. Uniques(s) = At(s, I)
  BY DEF Uniques, I
<1> QED
  BY <1>7, <1>8, SubSeqFull

LEMMA AtIn ==
    ASSUME NEW S, NEW s \in Seq(S), NEW I \in SUBSET (1 .. Len(s)), NEW T, \A i \in I : s[i] \in T
    PROVE  At(s, I) \in Seq(T)
<1>1. PICK f : Places(s, I, At(s, I), f)
  BY AtPlaces
<1>2. At(s, I) \in Seq(S)
  BY AtPlaces
<1>3. \A k \in 1 .. Len(At(s, I)) : At(s, I)[k] \in T
  BY <1>1 DEF Places
<1>4. Len(At(s, I)) \in Nat /\ At(s, I) \in [1 .. Len(At(s, I)) -> S]
  BY <1>2, LenProperties
<1>5. At(s, I) \in [1 .. Len(At(s, I)) -> T]
  BY <1>3, <1>4
<1> QED
  BY <1>4, <1>5

LEMMA UniquesOnce ==
    ASSUME NEW S, NEW s \in Seq(S)
    PROVE  /\ Uniques(s) \in Seq(S) /\ Len(Uniques(s)) <= Len(s)
           /\ Uniques(Uniques(s)) = Uniques(s)
<1> DEFINE I == {i \in DOMAIN s : \A j \in 1 .. i - 1 : s[j] # s[i]}
<1>0. Len(s) \in Nat /\ DOMAIN s = 1 .. Len(s)
  BY LenProperties
<1>1. I \in SUBSET (1 .. Len(s)) /\ Uniques(s) = At(s, I)
  BY <1>0 DEF Uniques
<1>2. \A i, j \in I : s[i] = s[j] => i = j
  <2> SUFFICES ASSUME NEW i \in I, NEW j \in I, s[i] = s[j], i # j PROVE FALSE
    OBVIOUS
  <2>1. i \in 1 .. j - 1 \/ j \in 1 .. i - 1
    BY <1>0
  <2> QED
    BY <2>1
<1> HIDE DEF I
<1>3. Uniques(s) \in Seq(S) /\ IsFiniteSet(I) /\ Len(Uniques(s)) = Cardinality(I)
  BY <1>1, AtPlaces
<1>4. Cardinality(I) <= Len(s)
  <2>1. IsFiniteSet(1 .. Len(s)) /\ Cardinality(1 .. Len(s)) = Len(s)
    <3>1. IsFiniteSet(1 .. Len(s)) /\ Cardinality(1 .. Len(s)) = IF 1 > Len(s) THEN 0 ELSE Len(s) - 1 + 1
      BY <1>0, FS_Interval
    <3> QED
      BY <1>0, <3>1
  <2> QED
    BY <1>1, <2>1, FS_Subset
<1>5. \A k, l \in 1 .. Len(Uniques(s)) : Uniques(s)[k] = Uniques(s)[l] => k = l
  BY <1>1, <1>2, AtOnce
<1>6. Uniques(Uniques(s)) = Uniques(s)
  BY <1>3, <1>5, UniquesPlain
<1> QED
  BY <1>3, <1>4, <1>6
=============================================================================
