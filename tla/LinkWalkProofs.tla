---------------------------- MODULE LinkWalkProofs ----------------------------
(***************************************************************************)
(* What holds of every vault, every memory, every request and every answer *)
(* of the vector search.                                                   *)
(***************************************************************************)
EXTENDS LinkWalk, OrderLemmas

-----------------------------------------------------------------------------
(* The tests of a record.                                                  *)

Records == [project : Projects \cup {Nothing}, labels : SUBSET Labels, date : Dates]
Filters == [project : Projects \cup {Nothing}, labels : SUBSET Labels, from : Dates, to : Dates]
Queries == [filter : Filters, depth : Nat, fanout : Nat, top_k : Nat \ {0}]

LEMMA DateNumbers ==
    ASSUME NEW d \in Dates, d # Nothing
    PROVE  /\ d.year \in Nat /\ d.day \in Nat /\ d.day <= 366
           /\ Text(d) \in Nat /\ Day(d) \in Nat
<1>1. d.year \in Nat /\ d.day \in Nat /\ d.day <= 366
  <2>1. d \in [form : Forms, year : Nat, day : 0 .. 366]
    BY DEF Dates
  <2>2. d.year \in Nat /\ d.day \in 0 .. 366
    BY <2>1
  <2>3. \A n \in 0 .. 366 : n \in Nat /\ n <= 366
    OBVIOUS
  <2> QED
    BY <2>2, <2>3, Zenon
<1>2. d.year * 500 + d.day \in Nat
  BY <1>1
<1>3. Text(d) \in Nat
  <2>1. CASE d.form = "other"
    BY <2>1 DEF Text
  <2>2. CASE d.form # "other"
    <3>1. d.year * 1000 + 500 + d.day \in Nat /\ d.year * 1000 + 0 + d.day \in Nat
      BY <1>1
    <3> QED
      BY <2>2, <3>1 DEF Text
  <2> QED
    BY <2>1, <2>2
<1> QED
  BY <1>1, <1>2, <1>3 DEF Day

\* Comparable dates are in the order of their texts.
LEMMA ComparableDates ==
    ASSUME NEW d \in Dates, d # Nothing, NEW e \in Dates, e # Nothing,
           Parses(d), Parses(e), d.year = e.year => d.form = e.form,
           Text(d) >= Text(e)
    PROVE  Day(d) >= Day(e)
<1> DEFINE x == IF d.form = "compact" THEN 500 ELSE 0
           y == IF e.form = "compact" THEN 500 ELSE 0
<1>1. /\ d.year \in Nat /\ d.day \in Nat /\ d.day <= 366
      /\ e.year \in Nat /\ e.day \in Nat /\ e.day <= 366
  BY DateNumbers
<1>2. x \in {0, 500} /\ y \in {0, 500} /\ (d.year = e.year => x = y)
  OBVIOUS
<1>3. d.year * 1000 + x + d.day >= e.year * 1000 + y + e.day
  BY DEF Parses, Text
<1> HIDE DEF x, y
<1>4. d.year * 500 + d.day >= e.year * 500 + e.day
  <2>1. CASE d.year = e.year
    BY <1>1, <1>2, <1>3, <2>1
  <2>2. CASE d.year > e.year
    <3>1. d.year >= e.year + 1
      BY <1>1, <2>2
    <3> QED
      BY <1>1, <3>1
  <2>3. CASE d.year < e.year
    <3>1. d.year + 1 <= e.year
      BY <1>1, <2>3
    <3> QED
      BY <1>1, <1>2, <1>3, <3>1
  <2> QED
    BY <1>1, <2>1, <2>2, <2>3
<1> QED
  BY <1>4 DEF Day

LEMMA RowsOfComparableDates ==
    ASSUME NEW r \in Records, NEW f \in Filters, TextAccepted(r, f),
           Comparable({r.date, f.from, f.to} \ {Nothing})
    PROVE  RowAccepted(r, f)
<1>1. r.date \in Dates /\ f.from \in Dates /\ f.to \in Dates
  BY DEF Records, Filters
<1>2. Labelled(r, f) /\ (NoLimits(f) \/ r.date # Nothing)
  BY DEF TextAccepted
<1>3. \A d, e \in {r.date, f.from, f.to} \ {Nothing} : Parses(d) /\ (d.year = e.year => d.form = e.form)
  BY DEF Comparable
<1>4. f.from # Nothing => Day(r.date) >= Day(f.from)
  <2> SUFFICES ASSUME f.from # Nothing PROVE Day(r.date) >= Day(f.from)
    OBVIOUS
  <2>1. r.date # Nothing /\ Text(r.date) >= Text(f.from)
    BY <1>2 DEF TextAccepted, NoLimits
  <2> QED
    BY <1>1, <1>3, <2>1, ComparableDates
<1>5. f.to # Nothing => Day(r.date) <= Day(f.to)
  <2> SUFFICES ASSUME f.to # Nothing PROVE Day(r.date) <= Day(f.to)
    OBVIOUS
  <2>1. r.date # Nothing /\ Text(r.date) <= Text(f.to)
    BY <1>2 DEF TextAccepted, NoLimits
  <2>2. Text(r.date) \in Nat /\ Text(f.to) \in Nat /\ Day(r.date) \in Nat /\ Day(f.to) \in Nat
    BY <1>1, <2>1, DateNumbers
  <2>3. Day(f.to) >= Day(r.date)
    <3>1. Text(f.to) >= Text(r.date)
      BY <2>1, <2>2
    <3> QED
      BY <1>1, <1>3, <2>1, <3>1, ComparableDates
  <2> QED
    BY <2>2, <2>3
<1> QED
  BY <1>2, <1>3, <1>4, <1>5 DEF RowAccepted

LEMMA SearchKeepsNoLess ==
    ASSUME NEW r, NEW f, Labelled(r, f),
           \A k, l \in f.labels \cup r.labels : Lower({k}) = Lower({l}) => k = l
    PROVE  SearchAccepts(r, f)
<1>1. ASSUME NEW l \in f.labels PROVE \E m \in f.labels \cap r.labels : m[1] = l[1]
  <2>1. <<l[1], l[2]>> \in Lower(r.labels)
    BY DEF Labelled, Lower
  <2>2. PICK m \in r.labels : <<m[1], m[2]>> = <<l[1], l[2]>>
    BY <2>1 DEF Lower
  <2>3. Lower({m}) = Lower({l})
    BY <2>2 DEF Lower
  <2> QED
    BY <2>2, <2>3
<1> QED
  BY <1>1 DEF SearchAccepts, Labelled

-----------------------------------------------------------------------------
(* The order of the results.                                               *)

Norms == {x \in Nat \X Nat : x[1] <= x[2] /\ x[2] > 0}
Chunks == {Nothing} \cup UNION {{x.chunk : x \in ToSet(found)} : found \in HitLists}
Results == [memory : Memories, score : Nat, norm : Norms, chunk : Chunks, place : Nat]

LEMMA NormParts ==
    ASSUME NEW r \in Results
    PROVE  /\ r.norm[1] \in Nat /\ r.norm[2] \in Nat /\ r.norm[2] > 0 /\ r.norm[1] <= r.norm[2]
           /\ r.memory \in Nat /\ r.score \in Nat /\ r.place \in Nat
BY MemoryAssumption DEF Results, Norms

LEMMA Scaled ==
    ASSUME NEW x \in Nat, NEW y \in Nat, NEW z \in Nat
    PROVE  /\ x <= y => x * z <= y * z
           /\ z > 0 /\ x * z <= y * z => x <= y
  OBVIOUS

\* Fractions with positive denominators: not to exceed is transitive.
LEMMA NotOver ==
    ASSUME NEW a \in Results, NEW b \in Results, NEW c \in Results,
           ~Over(a, b), ~Over(b, c)
    PROVE  ~Over(a, c)
<1> DEFINE a1 == a.norm[1]  a2 == a.norm[2]  b1 == b.norm[1]
           b2 == b.norm[2]  d1 == c.norm[1]  d2 == c.norm[2]
<1>1. a1 \in Nat /\ a2 \in Nat /\ b1 \in Nat /\ b2 \in Nat /\ d1 \in Nat /\ d2 \in Nat /\ b2 > 0
  BY NormParts
<1>2. a1 * b2 <= b1 * a2 /\ b1 * d2 <= d1 * b2
  <2>1. a1 * b2 \in Nat /\ b1 * a2 \in Nat /\ b1 * d2 \in Nat /\ d1 * b2 \in Nat
    BY <1>1
  <2>2. ~(a1 * b2 > b1 * a2) /\ ~(b1 * d2 > d1 * b2)
    BY DEF Over
  <2> HIDE DEF a1, a2, b1, b2, d1, d2
  <2> QED
    BY <2>1, <2>2
<1>3. ~(a1 * d2 > d1 * a2)
  <2> HIDE DEF a1, a2, b1, b2, d1, d2
  <2>1. (a1 * b2) * d2 <= (b1 * a2) * d2
    BY <1>1, <1>2, Scaled
  <2>2. (b1 * d2) * a2 <= (d1 * b2) * a2
    BY <1>1, <1>2, Scaled
  <2>3. /\ (a1 * b2) * d2 = (a1 * d2) * b2 /\ (b1 * a2) * d2 = (b1 * d2) * a2
        /\ (d1 * b2) * a2 = (d1 * a2) * b2
    BY <1>1
  <2>4. (a1 * d2) * b2 <= (d1 * a2) * b2
    <3>1. \A x, y, z \in Nat : x <= y /\ y <= z => x <= z
      OBVIOUS
    <3>2. (a1 * d2) * b2 \in Nat /\ (b1 * d2) * a2 \in Nat /\ (d1 * a2) * b2 \in Nat
      BY <1>1
    <3> QED
      BY <2>1, <2>2, <2>3, <3>1, <3>2
  <2>5. a1 * d2 \in Nat /\ d1 * a2 \in Nat
    BY <1>1
  <2>6. a1 * d2 <= d1 * a2
    BY <1>1, <2>4, <2>5, Scaled
  <2> QED
    BY <2>5, <2>6
<1> QED
  BY <1>3 DEF Over

LEMMA OverOneWay ==
    ASSUME NEW a \in Results, NEW b \in Results, Over(a, b)
    PROVE  ~Over(b, a)
<1>1. a.norm[1] * b.norm[2] \in Nat /\ b.norm[1] * a.norm[2] \in Nat
  BY NormParts
<1>2. a.norm[1] * b.norm[2] > b.norm[1] * a.norm[2]
  BY DEF Over
<1>3. ~(b.norm[1] * a.norm[2] > a.norm[1] * b.norm[2])
  BY <1>1, <1>2
<1> QED
  BY <1>3 DEF Over

LEMMA AheadStrict ==
    /\ \A a \in Results : ~Ahead(a, a)
    /\ \A a, b, c \in Results : Ahead(a, b) /\ Ahead(b, c) => Ahead(a, c)
    /\ \A a, b \in Results : a.memory # b.memory => Ahead(a, b) \/ Ahead(b, a)
    /\ \A a, b \in Results : Ahead(a, b) => ~Over(b, a)
<1>1. \A a, b \in Results : Over(a, b) => ~Over(b, a)
  BY OverOneWay
<1>2. \A a, b, c \in Results : ~Over(a, b) /\ ~Over(b, c) => ~Over(a, c)
  BY NotOver
<1>3. \A a \in Results : a.score \in Nat /\ a.memory \in Nat
  BY NormParts
<1>4. ASSUME NEW a \in Results PROVE ~Ahead(a, a)
  BY <1>1, <1>3 DEF Ahead
<1>5. ASSUME NEW a \in Results, NEW b \in Results, NEW c \in Results, Ahead(a, b), Ahead(b, c)
      PROVE  Ahead(a, c)
  <2>1. ~Over(b, a) /\ ~Over(c, b)
    BY <1>1, <1>5 DEF Ahead, Level
  <2>2. ~Over(c, a)
    BY <1>2, <2>1
  <2>3. CASE Over(a, c)
    BY <2>3 DEF Ahead
  <2>4. CASE ~Over(a, c)
    <3>1. ~Over(b, c) /\ ~Over(a, b)
      BY <1>2, <2>1, <2>4
    <3>2. /\ a.score > b.score \/ (a.score = b.score /\ a.memory < b.memory)
          /\ b.score > c.score \/ (b.score = c.score /\ b.memory < c.memory)
      BY <1>5, <3>1 DEF Ahead
    <3>3. a.score > c.score \/ (a.score = c.score /\ a.memory < c.memory)
      BY <1>3, <3>2
    <3> QED
      BY <2>2, <2>4, <3>3 DEF Ahead, Level
  <2> QED
    BY <2>3, <2>4
<1>6. ASSUME NEW a \in Results, NEW b \in Results, a.memory # b.memory
      PROVE  Ahead(a, b) \/ Ahead(b, a)
  <2>1. \/ a.score > b.score \/ b.score > a.score
        \/ a.score = b.score /\ (a.memory < b.memory \/ b.memory < a.memory)
    BY <1>3, <1>6
  <2> QED
    BY <2>1 DEF Ahead, Level
<1>7. \A a, b \in Results : Ahead(a, b) => ~Over(b, a)
  BY <1>1 DEF Ahead, Level
<1> QED
  BY <1>4, <1>5, <1>6, <1>7

\* A result is met at a place of the loop; one memory may be met at several.
Distinct(X) == \A r, s \in X : r.memory = s.memory /\ r.place = s.place => r = s
OneEach(X) == \A r, s \in X : r.memory = s.memory => r = s

LEMMA NormalizedResults ==
    ASSUME NEW X \in SUBSET Results, IsFiniteSet(X), Distinct(X)
    PROVE  /\ Normalized(X) \in SUBSET Results /\ IsFiniteSet(Normalized(X)) /\ Distinct(Normalized(X))
           /\ \A r \in Normalized(X) : \E x \in X : r.memory = x.memory /\ r.place = x.place
<1> DEFINE scores == {r.score : r \in X}
           least == CHOOSE s \in scores : \A t \in scores : s <= t
           most == CHOOSE s \in scores : \A t \in scores : t <= s
           N(r) == [r EXCEPT !.norm = IF most = least THEN <<1, 1>> ELSE <<r.score - least, most - least>>]
           f == [r \in X |-> N(r)]
<1>1. Normalized(X) = {N(r) : r \in X}
  BY DEF Normalized
<1>2. ASSUME X # {} PROVE least \in Nat /\ most \in Nat /\ \A r \in X : r.score \in Nat /\ least <= r.score /\ r.score <= most
  <2>1. scores \subseteq Nat /\ scores # {}
    BY <1>2, NormParts
  <2>2. IsFiniteSet(scores)
    <3>1. [r \in X |-> r.score] \in Surjection(X, scores)
      BY DEF Surjection
    <3> QED
      BY <3>1, FS_Surjection
  <2>3. \A r \in X : r.score \in scores
    OBVIOUS
  <2> HIDE DEF scores
  <2>4. least \in scores /\ \A t \in scores : least <= t
    BY <2>1, Least
  <2>5. most \in scores /\ \A t \in scores : t <= most
    BY <2>1, <2>2, Greatest
  <2> QED
    BY <2>1, <2>3, <2>4, <2>5
<1> HIDE DEF scores, least, most
<1>3. ASSUME NEW r \in X
      PROVE  /\ N(r) \in Results /\ N(r).memory = r.memory /\ N(r).place = r.place
  <2>1. least \in Nat /\ most \in Nat /\ r.score \in Nat /\ least <= r.score /\ r.score <= most
    BY <1>2
  <2>2. r.score - least \in Nat /\ most - least \in Nat /\ r.score - least <= most - least
    BY <2>1
  <2>3. (IF most = least THEN <<1, 1>> ELSE <<r.score - least, most - least>>) \in Norms
    <3>1. CASE most = least
      BY <3>1 DEF Norms
    <3>2. CASE most # least
      <4>1. most - least > 0
        BY <2>1, <3>2
      <4> QED
        BY <2>2, <3>2, <4>1 DEF Norms
    <3> QED
      BY <3>1, <3>2
  <2>4. r \in Results
    OBVIOUS
  <2> QED
    BY <2>3, <2>4 DEF Results
<1>4. IsFiniteSet(Normalized(X))
  <2>1. f \in Surjection(X, {N(r) : r \in X})
    BY DEF Surjection
  <2> QED
    BY <1>1, <2>1, FS_Surjection
<1>5. Distinct(Normalized(X))
  <2> HIDE DEF N
  <2>1. ASSUME NEW r \in X, NEW s \in X, N(r).memory = N(s).memory, N(r).place = N(s).place
        PROVE  N(r) = N(s)
    BY <1>3, <2>1 DEF Distinct
  <2> QED
    BY <1>1, <2>1 DEF Distinct
<1> HIDE DEF N
<1> QED
  BY <1>1, <1>3, <1>4, <1>5

\* Every memory of the results keeps one of them, none of which is better.
LEMMA BestResults ==
    ASSUME NEW X \in SUBSET Results, IsFiniteSet(X), Distinct(X)
    PROVE  /\ BestOfEach(X) \subseteq X /\ IsFiniteSet(BestOfEach(X)) /\ OneEach(BestOfEach(X))
           /\ \A r \in X : \E b \in BestOfEach(X) : b.memory = r.memory
           /\ \A r \in X : \A b \in BestOfEach(X) : b.memory = r.memory => ~Over(r, b)
<1>1. BestOfEach(X) \subseteq X
  BY DEF BestOfEach
<1>2. IsFiniteSet(BestOfEach(X))
  BY <1>1, FS_Subset
<1>3. \A r \in X : \A b \in BestOfEach(X) : b.memory = r.memory => ~Over(r, b)
  BY OverOneWay DEF BestOfEach, Level
<1>4. OneEach(BestOfEach(X))
  <2> SUFFICES ASSUME NEW r \in BestOfEach(X), NEW s \in BestOfEach(X), r.memory = s.memory
               PROVE  r = s
    BY DEF OneEach
  <2>1. r \in X /\ s \in X
    BY <1>1
  <2>2. ~Over(r, s) /\ ~Over(s, r)
    BY <1>3, <2>1
  <2>3. r.place <= s.place /\ s.place <= r.place
    BY <2>1, <2>2 DEF BestOfEach
  <2>4. r.place = s.place
    BY <2>1, <2>3, NormParts
  <2> QED
    BY <2>1, <2>4 DEF Distinct
<1>5. ASSUME NEW r \in X PROVE \E b \in BestOfEach(X) : b.memory = r.memory
  <2> DEFINE Y == {x \in X : x.memory = r.memory}
             B(x, y) == Over(x, y) \/ (Level(x, y) /\ x.place < y.place)
             R == {x \in Y \X Y : B(x[1], x[2])}
  <2>1. IsFiniteSet(Y) /\ Y # {} /\ Y \subseteq Results
    BY FS_Subset
  <2>2. \A x, y \in Y : <<x, y>> \in R <=> B(x, y)
    OBVIOUS
  <2>3. \A x, y, z \in Y : B(x, y) /\ B(y, z) => B(x, z)
    <3> SUFFICES ASSUME NEW x \in Y, NEW y \in Y, NEW z \in Y, B(x, y), B(y, z)
                 PROVE  B(x, z)
      OBVIOUS
    <3> HIDE DEF Y
    <3>1. x \in Results /\ y \in Results /\ z \in Results
      BY <2>1
    <3>2. ~Over(y, x) /\ ~Over(z, y)
      BY <3>1, OverOneWay DEF Level
    <3>3. ~Over(z, x)
      BY <3>1, <3>2, NotOver
    <3>4. CASE ~Over(x, z)
      <4>1. ~Over(y, z) /\ ~Over(x, y)
        BY <3>1, <3>2, <3>4, NotOver
      <4>2. x.place < y.place /\ y.place < z.place
        BY <4>1
      <4>3. x.place < z.place
        BY <3>1, <4>2, NormParts
      <4> QED
        BY <3>3, <3>4, <4>3 DEF Level
    <3> QED
      BY <3>4
  <2>4. \A x \in Y : ~B(x, x)
    BY <2>1, OverOneWay, NormParts DEF Level
  <2>5. Strict(R, Y)
    <3> HIDE DEF R, B, Y
    <3> QED
      BY <2>2, <2>3, <2>4 DEF Strict
  <2>6. PICK m \in Y : \A y \in Y : <<y, m>> \notin R
    <3> HIDE DEF R, Y
    <3> QED
      BY <2>1, <2>5, FirstElement
  <2>7. \A y \in Y : ~B(y, m)
    <3> HIDE DEF R, B, Y
    <3> QED
      BY <2>2, <2>6
  <2>8. ASSUME NEW s \in X, s.memory = m.memory
        PROVE  Over(m, s) \/ (Level(m, s) /\ m.place <= s.place)
    <3>1. s \in Y /\ ~B(s, m)
      BY <2>7, <2>8
    <3>2. s.place \in Nat /\ m.place \in Nat
      BY NormParts
    <3> QED
      BY <3>1, <3>2 DEF Level
  <2>9. m \in X /\ m.memory = r.memory
    OBVIOUS
  <2> HIDE DEF Y
  <2> QED
    BY <2>8, <2>9 DEF BestOfEach
<1> QED
  BY <1>1, <1>2, <1>3, <1>4, <1>5

LEMMA SortedResults ==
    ASSUME NEW X \in SUBSET Results, IsFiniteSet(X), OneEach(X)
    PROVE  /\ Cardinality(X) \in Nat
           /\ Sorted(X) \in Seq(X) /\ Len(Sorted(X)) = Cardinality(X)
           /\ \A x \in X : \E i \in 1 .. Cardinality(X) : Sorted(X)[i] = x
           /\ \A i, j \in 1 .. Cardinality(X) : i < j => Ahead(Sorted(X)[i], Sorted(X)[j])
<1> DEFINE R == {x \in X \X X : Ahead(x[1], x[2])}
           n == Cardinality(X)
<1>1. \A x, y \in X : <<x, y>> \in R <=> Ahead(x, y)
  OBVIOUS
<1>2. Strict(R, X)
  <2> HIDE DEF R
  <2>1. \A x \in X : ~Ahead(x, x)
    BY AheadStrict
  <2>2. \A x, y, z \in X : Ahead(x, y) /\ Ahead(y, z) => Ahead(x, z)
    BY AheadStrict
  <2> QED
    BY <1>1, <2>1, <2>2 DEF Strict
<1>3. Total(R, X)
  <2> HIDE DEF R
  <2>1. \A x, y \in X : x = y \/ Ahead(x, y) \/ Ahead(y, x)
    BY AheadStrict DEF OneEach
  <2> QED
    BY <1>1, <2>1 DEF Total
<1> HIDE DEF R
<1>4. /\ \A x \in X : Rank(R, X, x) \in 0 .. n - 1
      /\ \A x, y \in X : <<x, y>> \in R <=> Rank(R, X, x) < Rank(R, X, y)
      /\ \A k \in 0 .. n - 1 : \E x \in X : Rank(R, X, x) = k
  BY <1>2, <1>3, Ranks
<1>5. n \in Nat
  BY FS_CardinalityType
<1>6. \A r \in X : {s \in X : Ahead(s, r)} = Before(R, X, r)
  BY <1>1 DEF Before
<1>7. Sorted(X) = [i \in 1 .. n |-> CHOOSE r \in X : Rank(R, X, r) = i - 1]
  BY <1>6 DEF Sorted, Rank
<1> HIDE DEF n
<1>8. \A i \in 1 .. n : Sorted(X)[i] \in X /\ Rank(R, X, Sorted(X)[i]) = i - 1
  <2> SUFFICES ASSUME NEW i \in 1 .. n
               PROVE  Sorted(X)[i] \in X /\ Rank(R, X, Sorted(X)[i]) = i - 1
    OBVIOUS
  <2>1. i - 1 \in 0 .. n - 1
    BY <1>5
  <2>2. \E x \in X : Rank(R, X, x) = i - 1
    BY <1>4, <2>1
  <2>3. Sorted(X)[i] = CHOOSE r \in X : Rank(R, X, r) = i - 1
    BY <1>7
  <2> QED
    BY <2>2, <2>3
<1>9. Sorted(X) \in Seq(X) /\ Len(Sorted(X)) = n
  <2>1. Sorted(X) \in [1 .. n -> X]
    BY <1>7, <1>8
  <2> QED
    BY <1>5, <2>1
<1>10. ASSUME NEW x \in X PROVE \E i \in 1 .. n : Sorted(X)[i] = x
  <2> DEFINE i == Rank(R, X, x) + 1
  <2>1. i \in 1 .. n /\ i - 1 = Rank(R, X, x)
    BY <1>4, <1>5
  <2> HIDE DEF i
  <2>2. Sorted(X)[i] \in X /\ Rank(R, X, Sorted(X)[i]) = Rank(R, X, x)
    BY <1>8, <2>1
  <2>3. ~(Rank(R, X, Sorted(X)[i]) < Rank(R, X, x)) /\ ~(Rank(R, X, x) < Rank(R, X, Sorted(X)[i]))
    BY <1>4, <2>2
  <2>4. <<Sorted(X)[i], x>> \notin R /\ <<x, Sorted(X)[i]>> \notin R
    BY <1>4, <2>2, <2>3
  <2>5. Sorted(X)[i] = x
    BY <1>3, <2>2, <2>4 DEF Total
  <2> QED
    BY <2>1, <2>5
<1>11. ASSUME NEW i \in 1 .. n, NEW j \in 1 .. n, i < j
       PROVE  Ahead(Sorted(X)[i], Sorted(X)[j])
  <2>1. Rank(R, X, Sorted(X)[i]) < Rank(R, X, Sorted(X)[j])
    <3>1. i - 1 < j - 1
      BY <1>11
    <3> QED
      BY <1>8, <3>1
  <2> QED
    BY <1>1, <1>4, <1>8, <2>1
<1> QED
  BY <1>5, <1>9, <1>10, <1>11 DEF n

-----------------------------------------------------------------------------
(* Notes and links.                                                        *)

LEMMA SetOf ==
    ASSUME NEW S, NEW s \in Seq(S)
    PROVE  ToSet(s) \in SUBSET S /\ IsFiniteSet(ToSet(s)) /\ ToSet(s) = {s[i] : i \in 1 .. Len(s)}
<1>1. Len(s) \in Nat /\ DOMAIN s = 1 .. Len(s) /\ \A i \in 1 .. Len(s) : s[i] \in S
  BY LenProperties, ElementOfSeq
<1>2. ToSet(s) = {s[i] : i \in 1 .. Len(s)}
  BY <1>1 DEF ToSet
<1>3. [i \in 1 .. Len(s) |-> s[i]] \in Surjection(1 .. Len(s), ToSet(s))
  BY <1>2 DEF Surjection
<1>4. IsFiniteSet(1 .. Len(s))
  BY <1>1, FS_Interval
<1>5. IsFiniteSet(ToSet(s))
  BY <1>3, <1>4, FS_Surjection
<1> QED
  BY <1>1, <1>2, <1>5

LEMMA Targets ==
    ASSUME NEW text
    PROVE  Target(text) \in Notes \cup {Nothing}
<1> SUFFICES ASSUME text \in Notes \cup {Stem[n] : n \in Notes}
             PROVE  NameToPath[text] \in Notes
  BY DEF Target, NameToPath
<1> DEFINE I == {i \in DOMAIN Listing : text \in {Listing[i], Stem[Listing[i]]}}
<1>1. Len(Listing) \in Nat /\ DOMAIN Listing = 1 .. Len(Listing)
  BY VaultAssumption, LenProperties
<1>2. Notes = {Listing[i] : i \in DOMAIN Listing}
  BY DEF Notes, ToSet
<1>3. I # {} /\ I \subseteq 1 .. Len(Listing)
  BY <1>1, <1>2
<1>4. IsFiniteSet(I) /\ I \subseteq Nat
  <2>1. IsFiniteSet(1 .. Len(Listing))
    BY <1>1, FS_Interval
  <2>2. I \in SUBSET (1 .. Len(Listing))
    BY <1>3
  <2> HIDE DEF I
  <2>3. IsFiniteSet(I)
    BY <2>1, <2>2, FS_Subset
  <2> QED
    BY <2>2, <2>3
<1>5. NameToPath[text] = Listing[Max(I)]
  BY DEF NameToPath
<1> HIDE DEF I
<1>6. Max(I) \in I
  <2>1. PICK m \in I : \A k \in I : k <= m
    BY <1>3, <1>4, Greatest
  <2>2. \A k \in I : m >= k
    BY <1>4, <2>1
  <2> QED
    BY <2>2 DEF Max
<1>7. Max(I) \in DOMAIN Listing
  BY <1>1, <1>3, <1>6
<1> QED
  BY <1>2, <1>5, <1>7

LEMMA LinksAreNotes ==
    ASSUME vault \in Vaults, NEW n \in Notes
    PROVE  Links(n) \in Seq(Notes)
<1> DEFINE s == [i \in DOMAIN vault[n] |-> Target(vault[n][i])]
           I == {i \in DOMAIN s : s[i] \notin {Nothing, n} /\ \A j \in 1 .. i - 1 : s[j] # s[i]}
<1>1. vault[n] \in Seq(ToSet(vault[n]))
  BY VaultAssumption
<1>2. Len(vault[n]) \in Nat /\ DOMAIN vault[n] = 1 .. Len(vault[n])
  BY <1>1, LenProperties
<1>3. s \in [1 .. Len(vault[n]) -> Notes \cup {Nothing}]
  BY <1>2, Targets
<1>4. s \in Seq(Notes \cup {Nothing}) /\ DOMAIN s = 1 .. Len(s)
  BY <1>2, <1>3
<1>5. Links(n) = At(s, I)
  BY DEF Links, KeptOnce
<1> HIDE DEF s
<1>6. I \in SUBSET (1 .. Len(s))
  BY <1>4
<1>7. \A i \in I : s[i] \in Notes
  <2>1. \A i \in 1 .. Len(s) : s[i] \in Notes \cup {Nothing}
    BY <1>4, ElementOfSeq
  <2> QED
    BY <1>6, <2>1
<1> HIDE DEF I
<1> QED
  BY <1>4, <1>5, <1>6, <1>7, AtIn

\* What a walk with a fanout follows of the links of a note.
Follows(g, fan, n) == ToSet(SubSeq(g[n], 1, MinOf(fan, Len(g[n]))))

LEMMA FollowedAreNotes ==
    ASSUME graph \in [Notes -> Seq(Notes)], request.fanout \in Nat, NEW n \in Notes
    PROVE  /\ Followed(n) \in Seq(Notes)
           /\ ToSet(Followed(n)) = Follows(graph, request.fanout, n)
           /\ Follows(graph, request.fanout, n) \in SUBSET Notes
<1>1. graph[n] \in Seq(Notes) /\ Len(graph[n]) \in Nat
  BY LenProperties
<1>2. MinOf(request.fanout, Len(graph[n])) \in 0 .. Len(graph[n])
  BY <1>1 DEF MinOf
<1>3. \A i \in 1 .. MinOf(request.fanout, Len(graph[n])) : graph[n][i] \in Notes
  <2>1. \A i \in 1 .. Len(graph[n]) : graph[n][i] \in Notes
    BY <1>1, ElementOfSeq
  <2> QED
    BY <1>1, <1>2, <2>1
<1>4. Followed(n) \in Seq(Notes)
  BY <1>1, <1>2, <1>3, SubSeqProperties DEF Followed
<1>5. ToSet(Followed(n)) = Follows(graph, request.fanout, n)
  BY DEF Followed, Follows
<1> QED
  BY <1>4, <1>5, SetOf

\* The notes a popped note adds to the queue, one deeper.
LEMMA NeighborsOf ==
    ASSUME graph \in [Notes -> Seq(Notes)], request.fanout \in Nat, request.depth \in Nat,
           NEW here \in [note : Notes, depth : 0 .. request.depth]
    PROVE  /\ Neighbors(here) \in Seq([note : Notes, depth : 0 .. request.depth])
           /\ \A i \in 1 .. Len(Neighbors(here)) :
                 /\ Neighbors(here)[i].note \in Follows(graph, request.fanout, here.note)
                 /\ Neighbors(here)[i].depth = here.depth + 1
           /\ here.depth < request.depth =>
                 \A n \in Follows(graph, request.fanout, here.note) :
                    \/ n \in visited \cup {here.note}
                    \/ \E i \in 1 .. Len(Neighbors(here)) : Neighbors(here)[i].note = n
<1> DEFINE s == Followed(here.note)
           F == Follows(graph, request.fanout, here.note)
           I == {i \in DOMAIN s : s[i] \notin visited \cup {here.note}}
           next == At(s, I)
           entries == [i \in DOMAIN next |-> [note |-> next[i], depth |-> here.depth + 1]]
<1>1. s \in Seq(Notes) /\ ToSet(s) = F /\ F \in SUBSET Notes
  BY FollowedAreNotes
<1>2. DOMAIN s = 1 .. Len(s) /\ F = {s[i] : i \in 1 .. Len(s)}
  BY <1>1, LenProperties, SetOf
<1>3. Neighbors(here) = IF here.depth >= request.depth THEN <<>> ELSE entries
  BY DEF Neighbors, Kept
<1> HIDE DEF s
<1>4. I \in SUBSET (1 .. Len(s))
  BY <1>2
<1>5. F = {s[i] : i \in 1 .. Len(s)} /\ \A i \in 1 .. Len(s) : i \in I <=> s[i] \notin visited \cup {here.note}
  BY <1>2
<1> HIDE DEF I
<1>6. next \in Seq(F) /\ next \in Seq(Notes)
  <2>1. \A i \in I : s[i] \in F /\ s[i] \in Notes
    BY <1>1, <1>4, <1>5
  <2> QED
    BY <1>1, <1>4, <2>1, AtIn
<1>7. {next[k] : k \in 1 .. Len(next)} = {s[i] : i \in I}
  BY <1>1, <1>4, AtRange
<1> HIDE DEF next, F
<1>8. Len(next) \in Nat /\ DOMAIN next = 1 .. Len(next) /\ \A k \in 1 .. Len(next) : next[k] \in F /\ next[k] \in Notes
  BY <1>6, LenProperties, ElementOfSeq
<1>9. CASE here.depth >= request.depth
  <2>1. Neighbors(here) = <<>> /\ Len(Neighbors(here)) = 0
    BY <1>3, <1>9
  <2>2. ~(here.depth < request.depth)
    BY <1>9
  <2>3. Neighbors(here) \in Seq([note : Notes, depth : 0 .. request.depth])
    BY <2>1, EmptySeq
  <2> QED
    BY <2>1, <2>2, <2>3
<1>10. CASE ~(here.depth >= request.depth)
  <2>1. Neighbors(here) = entries /\ here.depth + 1 \in 0 .. request.depth
    BY <1>3, <1>10
  <2>2. entries \in [1 .. Len(next) -> [note : Notes, depth : 0 .. request.depth]]
    BY <1>8, <2>1
  <2>3. entries \in Seq([note : Notes, depth : 0 .. request.depth]) /\ Len(entries) = Len(next)
    BY <1>8, <2>2
  <2>4. \A k \in 1 .. Len(next) : entries[k].note = next[k] /\ entries[k].depth = here.depth + 1
    BY <1>8
  <2> HIDE DEF entries
  <2>5. \A n \in F : n \in visited \cup {here.note} \/ \E k \in 1 .. Len(next) : next[k] = n
    BY <1>5, <1>7
  <2> QED
    BY <1>8, <2>1, <2>3, <2>4, <2>5 DEF F
<1> QED
  BY <1>9, <1>10

-----------------------------------------------------------------------------
(* Where the walk starts.                                                  *)

StoredNotes == {Memory[m].note : m \in Memories}

LEMMA NotesOfMemories ==
    ASSUME NEW ms \in Seq(Memories)
    PROVE  NotesOf(ms) \in Seq(StoredNotes)
<1> DEFINE s == [i \in DOMAIN ms |-> Memory[ms[i]].note]
           I == {i \in DOMAIN s : s[i] # Nothing /\ \A j \in 1 .. i - 1 : s[j] # s[i]}
<1>1. Len(ms) \in Nat /\ DOMAIN ms = 1 .. Len(ms) /\ \A i \in 1 .. Len(ms) : ms[i] \in Memories
  BY LenProperties, ElementOfSeq
<1>2. s \in [1 .. Len(ms) -> StoredNotes]
  BY <1>1 DEF StoredNotes
<1>3. s \in Seq(StoredNotes) /\ DOMAIN s = 1 .. Len(s)
  BY <1>1, <1>2
<1>4. NotesOf(ms) = At(s, I)
  BY DEF NotesOf, KeptOnce
<1> HIDE DEF s
<1>5. I \in SUBSET (1 .. Len(s))
  BY <1>3
<1> HIDE DEF I
<1> QED
  BY <1>3, <1>4, <1>5, AtPlaces

LEMMA ListedMemories ==
    ASSUME NEW limit
    PROVE  Listed(limit) \in Seq(Memories)
<1> DEFINE I == {i \in DOMAIN Recent :
                    /\ InProject(Recent[i])
                    /\ Cardinality({j \in 1 .. i : InProject(Recent[j])}) <= limit
                    /\ RowAccepted(Memory[Recent[i]].record, request.filter)}
<1>1. Recent \in Seq(Memories)
  BY MemoryAssumption
<1>2. I \in SUBSET (1 .. Len(Recent))
  BY <1>1, LenProperties
<1>3. Listed(limit) = At(Recent, I)
  BY DEF Listed
<1> HIDE DEF I
<1> QED
  BY <1>1, <1>2, <1>3, AtPlaces

LEMMA StartsAreNotes ==
    ASSUME NEW results \in Seq(Results), NEW rows \in Seq(Memories)
    PROVE  Kept(SeedsFor(results, rows), SeedResolves) \in Seq(Notes)
<1> DEFINE ms == [i \in DOMAIN results |-> results[i].memory]
           s == SeedsFor(results, rows)
           I == {i \in DOMAIN s : SeedResolves(s[i])}
<1>1. Len(results) \in Nat /\ DOMAIN results = 1 .. Len(results) /\ \A i \in 1 .. Len(results) : results[i] \in Results
  BY LenProperties, ElementOfSeq
<1>2. ms \in [1 .. Len(results) -> Memories]
  BY <1>1 DEF Results
<1>3. ms \in Seq(Memories)
  BY <1>1, <1>2
<1> HIDE DEF ms
<1>4. s \in Seq(StoredNotes)
  <2>1. NotesOf(ms) \in Seq(StoredNotes) /\ NotesOf(rows) \in Seq(StoredNotes)
    BY <1>3, NotesOfMemories
  <2> QED
    BY <2>1 DEF SeedsFor, ms
<1> HIDE DEF s
<1>5. Len(s) \in Nat /\ DOMAIN s = 1 .. Len(s)
  BY <1>4, LenProperties
<1>6. I \in SUBSET (1 .. Len(s)) /\ \A i \in I : s[i] \in Notes
  BY <1>5 DEF SeedResolves
<1>7. Kept(s, SeedResolves) = At(s, I)
  BY DEF Kept
<1> HIDE DEF I
<1>8. At(s, I) \in Seq(Notes)
  BY <1>4, <1>6, AtIn
<1> QED
  BY <1>7, <1>8 DEF s

-----------------------------------------------------------------------------
(* What each of the three lists of results has.                            *)

HitResults == {Result(hits[i].memory, hits[i].score, hits[i].chunk, i) : i \in DOMAIN hits}

LEMMA HitsCount == hits \in HitLists => Len(hits) \in Nat /\ DOMAIN hits = 1 .. Len(hits)
  BY HitsAssumption, LenProperties

\* Hits no record refuses: a score that is not negative is a number of Nat.
LEMMA HitsAreResults ==
    ASSUME hits \in HitLists, ~Refusing
    PROVE  /\ HitResults \in SUBSET Results /\ IsFiniteSet(HitResults) /\ Distinct(HitResults)
           /\ \A r \in HitResults : r.place \in 1 .. Len(hits)
<1> DEFINE R(i) == Result(hits[i].memory, hits[i].score, hits[i].chunk, i)
<1>1. hits \in Seq(ToSet(hits)) /\ \A x \in ToSet(hits) : x.memory \in Memories /\ x.score \in Int
  BY HitsAssumption
<1>2. Len(hits) \in Nat /\ DOMAIN hits = 1 .. Len(hits) /\ \A i \in 1 .. Len(hits) : hits[i] \in ToSet(hits)
  BY <1>1, LenProperties, ElementOfSeq
<1>3. ASSUME NEW i \in 1 .. Len(hits) PROVE R(i) \in Results /\ R(i).place = i
  <2>1. hits[i].memory \in Memories /\ hits[i].score \in Nat /\ i \in Nat
    <3>1. hits[i].memory \in Memories /\ hits[i].score \in Int /\ ~(hits[i].score < 0) /\ i \in Nat
      BY <1>1, <1>2 DEF Refusing
    <3> QED
      BY <3>1
  <2>2. hits[i].chunk \in Chunks
    BY <1>2 DEF Chunks
  <2>3. <<0, 1>> \in Norms
    BY DEF Norms
  <2> QED
    BY <2>1, <2>2, <2>3 DEF Result, Results
<1>4. HitResults = {R(i) : i \in 1 .. Len(hits)}
  BY <1>2 DEF HitResults
<1> HIDE DEF R
<1>5. IsFiniteSet(HitResults)
  <2>1. [i \in 1 .. Len(hits) |-> R(i)] \in Surjection(1 .. Len(hits), HitResults)
    BY <1>4 DEF Surjection
  <2>2. IsFiniteSet(1 .. Len(hits))
    BY <1>2, FS_Interval
  <2> QED
    BY <2>1, <2>2, FS_Surjection
<1>6. Distinct(HitResults)
  BY <1>3, <1>4 DEF Distinct
<1> QED
  BY <1>2, <1>3, <1>4, <1>5, <1>6

RankedAs(X, Y) ==
    /\ Y \in SUBSET Results /\ IsFiniteSet(Y) /\ OneEach(Y)
    /\ \A y \in Y : \E x \in X : y.memory = x.memory /\ y.place = x.place

LEMMA RankedResults ==
    ASSUME NEW X \in SUBSET Results, IsFiniteSet(X), Distinct(X)
    PROVE  RankedAs(X, Ranked(X))
<1>1. Ranked(X) = BestOfEach(Normalized(X))
  BY DEF Ranked
<1>2. /\ Normalized(X) \in SUBSET Results /\ IsFiniteSet(Normalized(X)) /\ Distinct(Normalized(X))
      /\ \A r \in Normalized(X) : \E x \in X : r.memory = x.memory /\ r.place = x.place
  BY NormalizedResults
<1>3. /\ BestOfEach(Normalized(X)) \subseteq Normalized(X)
      /\ IsFiniteSet(BestOfEach(Normalized(X))) /\ OneEach(BestOfEach(Normalized(X)))
  BY <1>2, BestResults
<1> QED
  BY <1>1, <1>2, <1>3 DEF RankedAs

LEMMA SortedSet ==
    ASSUME NEW X \in SUBSET Results, IsFiniteSet(X), OneEach(X)
    PROVE  Sorted(X) \in Seq(Results) /\ ToSet(Sorted(X)) = X
<1>1. /\ Sorted(X) \in Seq(X) /\ Len(Sorted(X)) = Cardinality(X)
      /\ \A x \in X : \E i \in 1 .. Cardinality(X) : Sorted(X)[i] = x
  BY SortedResults
<1>2. Sorted(X) \in Seq(Results)
  BY <1>1, SeqMonotonic
<1>3. ToSet(Sorted(X)) = {Sorted(X)[i] : i \in 1 .. Len(Sorted(X))} /\ ToSet(Sorted(X)) \in SUBSET X
  BY <1>1, SetOf
<1> QED
  BY <1>1, <1>2, <1>3

-----------------------------------------------------------------------------
(* The types, and what is empty when.                                      *)

Entries == [note : Notes, depth : 0 .. request.depth]

Typed ==
    /\ path \in VaultPaths /\ readable \in BOOLEAN
    /\ vault \in Vaults /\ hits \in HitLists /\ request \in Queries
    /\ pc \in {"validate", "refused", "seed", "failed", "walk", "rank", "answer", "done"}
    /\ graph \in [Notes -> Seq(Notes)] /\ seeds \in Seq(Notes)
    /\ queue \in Seq(Entries) /\ candidates \in Seq(Entries)
    /\ visited = {candidates[i].note : i \in 1 .. Len(candidates)}

Phased ==
    /\ pc \in {"validate", "refused", "seed", "failed"} =>
          /\ seeds = <<>> /\ queue = <<>> /\ candidates = <<>> /\ vector = <<>>
    /\ pc \in {"rank", "answer", "done"} => queue = <<>>
    /\ pc \notin {"answer", "done"} => linkwalk = {}
    /\ pc # "done" => answer = <<>> /\ citations = <<>>

LEMMA InitTyped == Init => Typed /\ Phased
<1> SUFFICES ASSUME Init PROVE Typed /\ Phased
  OBVIOUS
<1>1. request \in Queries
  BY RequestsAssumption DEF Init, Queries, Filters
<1>2. graph \in [Notes -> Seq(Notes)]
  BY DEF Init
<1>3. /\ queue = <<>> /\ candidates = <<>> /\ seeds = <<>>
      /\ <<>> \in Seq(Entries) /\ <<>> \in Seq(Notes)
  BY DEF Init
<1>4. visited = {candidates[k].note : k \in 1 .. Len(candidates)}
  BY <1>3 DEF Init
<1> QED
  BY <1>1, <1>2, <1>3, <1>4 DEF Init, Typed, Phased

LEMMA ValidateTyped == Typed /\ Phased /\ Validate => Typed' /\ Phased' /\ request'.depth = request.depth
<1> SUFFICES ASSUME Typed, Phased, Validate PROVE Typed' /\ Phased' /\ request'.depth = request.depth
  OBVIOUS
<1>1. request' \in Queries /\ request'.depth = request.depth
  <2>1. request \in Queries
    BY DEF Typed
  <2>2. CASE Rejected(request.filter)
    BY <2>1, <2>2 DEF Validate
  <2>3. CASE ~Rejected(request.filter)
    <3>1. PICK labels \in Cleaned(request.filter.labels) :
             request' = [request EXCEPT !.filter.labels = labels]
      BY <2>3 DEF Validate
    <3>2. labels \in SUBSET Labels
      BY <2>1 DEF Cleaned, Queries, Filters
    <3>3. request.filter \in Filters
      BY <2>1 DEF Queries
    <3>4. [request.filter EXCEPT !.labels = labels] \in Filters
      BY <3>2, <3>3 DEF Filters
    <3>5. request' = [request EXCEPT !.filter = [request.filter EXCEPT !.labels = labels]]
      BY <2>1, <3>1 DEF Queries
    <3> HIDE DEF Cleaned
    <3> QED
      BY <2>1, <3>4, <3>5 DEF Queries
  <2> QED
    BY <2>2, <2>3
<1>2. Entries' = Entries
  BY <1>1 DEF Entries
<1>3. pc = "validate" /\ pc' \in {"refused", "seed"}
  BY DEF Validate
<1>4. UNCHANGED <<path, readable, vault, hits, vector, graph, seeds, queue, visited, candidates, linkwalk, answer, citations>>
  BY DEF Validate
<1>5. Typed'
  BY <1>1, <1>2, <1>3, <1>4 DEF Typed
<1>6. Phased'
  BY <1>3, <1>4 DEF Phased
<1> QED
  BY <1>1, <1>5, <1>6

LEMMA SeedTyped ==
    ASSUME Typed, Phased, Seed
    PROVE  /\ Typed' /\ Phased' /\ vector' = Sorted(Ranked(HitResults))
           /\ queue' = [i \in DOMAIN seeds' |-> [note |-> seeds'[i], depth |-> 0]]
           /\ UNCHANGED <<inputs, visited, candidates, linkwalk, answer, citations>>
<1>1. vector' = Sorted(Ranked(HitResults)) /\ ~Refusing
  BY DEF Seed, HitResults
<1>2. vector' \in Seq(Results)
  BY <1>1, HitsAreResults, RankedResults, SortedSet DEF Typed, RankedAs
<1>3. seeds' = Kept(SeedsFor(vector', Listed(MaxOf(request.top_k, 4))), SeedResolves)
  BY DEF Seed
<1>4. seeds' \in Seq(Notes)
  BY <1>2, <1>3, ListedMemories, StartsAreNotes
<1>5. queue' = [i \in DOMAIN seeds' |-> [note |-> seeds'[i], depth |-> 0]]
  BY DEF Seed
<1>6. /\ UNCHANGED <<inputs, visited, candidates, linkwalk, answer, citations>>
      /\ pc = "seed" /\ pc' = "walk" /\ graph' = [n \in Notes |-> Links(n)]
  BY DEF Seed
<1>7. request \in Queries /\ request.depth \in Nat
  BY DEF Typed, Queries
<1>8. Entries' = Entries
  BY <1>6 DEF Entries, inputs
<1>9. queue' \in Seq(Entries) /\ (seeds' = <<>> => queue' = <<>>)
  <2>1. Len(seeds') \in Nat /\ DOMAIN seeds' = 1 .. Len(seeds') /\ \A i \in 1 .. Len(seeds') : seeds'[i] \in Notes
    BY <1>4, LenProperties, ElementOfSeq
  <2>2. queue' \in [1 .. Len(seeds') -> Entries]
    BY <1>5, <1>7, <2>1 DEF Entries
  <2>3. queue' \in Seq(Entries)
    BY <2>1, <2>2
  <2>4. ASSUME seeds' = <<>> PROVE queue' = <<>>
    BY <1>5, <2>4
  <2> QED
    BY <2>3, <2>4
<1>10. graph' \in [Notes -> Seq(Notes)]
  BY <1>6, LinksAreNotes DEF Typed
<1>11. Typed'
  BY <1>4, <1>6, <1>8, <1>9, <1>10 DEF Typed, inputs
<1>12. Phased'
  BY <1>4, <1>6, <1>9 DEF Phased, inputs
<1> QED
  BY <1>1, <1>5, <1>6, <1>11, <1>12

\* What PopFirst does to the queue and the candidates.
LEMMA Popped ==
    ASSUME Typed, PopFirst
    PROVE  LET here == Head(queue) IN
           /\ Len(queue) \in Nat \ {0} /\ here = queue[1] /\ here \in Entries
           /\ Rest \in Seq(Entries) /\ Len(Rest) = Len(queue) - 1
           /\ \A i \in 1 .. Len(Rest) : Rest[i] = queue[i + 1]
           /\ here.note \in visited => queue' = Rest /\ visited' = visited /\ candidates' = candidates
           /\ here.note \notin visited =>
                 /\ visited' = visited \cup {here.note}
                 /\ candidates' = Append(candidates, here)
                 /\ queue' = Rest \o Neighbors(here)
                 /\ Neighbors(here) \in Seq(Entries)
           /\ UNCHANGED <<inputs, vector, graph, seeds, pc, linkwalk, answer, citations>>
           /\ pc = "walk"
<1> DEFINE here == Head(queue)
<1>1. queue \in Seq(Entries) /\ queue # <<>>
  BY DEF Typed, PopFirst
<1>2. /\ here = queue[1] /\ here \in Entries /\ Rest \in Seq(Entries) /\ Len(Rest) = Len(queue) - 1
      /\ \A i \in 1 .. Len(Rest) : Rest[i] = queue[i + 1]
  <2>1. Head(queue) = queue[1]
    BY <1>1
  <2> HIDE DEF Entries
  <2> QED
    BY <1>1, <2>1, HeadTailProperties DEF Rest
<1>3. Len(queue) \in Nat \ {0}
  BY <1>1, EmptySeq
<1>4. request.fanout \in Nat /\ request.depth \in Nat /\ graph \in [Notes -> Seq(Notes)]
  BY DEF Typed, Queries
<1>5. Neighbors(here) \in Seq(Entries)
  <2> HIDE DEF here
  <2> QED
    BY <1>2, <1>4, NeighborsOf DEF Entries
<1>6. UNCHANGED <<inputs, vector, graph, seeds, pc, linkwalk, answer, citations>> /\ pc = "walk"
  BY DEF PopFirst
<1>7. here.note \in visited => queue' = Rest /\ visited' = visited /\ candidates' = candidates
  BY DEF PopFirst
<1>8. here.note \notin visited =>
         /\ visited' = visited \cup {here.note}
         /\ candidates' = Append(candidates, here)
         /\ queue' = Rest \o Neighbors(here)
  BY DEF PopFirst
<1> HIDE DEF here
<1> QED
  BY <1>2, <1>3, <1>5, <1>6, <1>7, <1>8 DEF here

LEMMA PopFirstTyped == Typed /\ Phased /\ PopFirst => Typed' /\ Phased'
<1> SUFFICES ASSUME Typed, Phased, PopFirst PROVE Typed' /\ Phased'
  OBVIOUS
<1> DEFINE here == Head(queue)
<1>1. /\ here \in Entries /\ Rest \in Seq(Entries)
      /\ here.note \in visited => queue' = Rest /\ visited' = visited /\ candidates' = candidates
      /\ here.note \notin visited =>
            /\ visited' = visited \cup {here.note}
            /\ candidates' = Append(candidates, here)
            /\ queue' = Rest \o Neighbors(here)
            /\ Neighbors(here) \in Seq(Entries)
      /\ UNCHANGED <<inputs, vector, graph, seeds, pc, linkwalk, answer, citations>>
      /\ pc = "walk" /\ queue # <<>>
  BY Popped DEF PopFirst
<1>2. Entries' = Entries
  BY <1>1 DEF Entries, inputs
<1> HIDE DEF here
<1>3. queue' \in Seq(Entries)
  BY <1>1, ConcatProperties
<1>4. candidates \in Seq(Entries) /\ visited = {candidates[k].note : k \in 1 .. Len(candidates)}
  BY DEF Typed
<1>5. candidates' \in Seq(Entries) /\ visited' = {candidates'[k].note : k \in 1 .. Len(candidates')}
  <2>1. CASE here.note \in visited
    BY <1>1, <1>4, <2>1
  <2>2. CASE here.note \notin visited
    <3>1. /\ candidates' \in Seq(Entries) /\ Len(candidates') = Len(candidates) + 1
          /\ \A k \in 1 .. Len(candidates) : candidates'[k] = candidates[k]
          /\ candidates'[Len(candidates) + 1] = here
          /\ Len(candidates) \in Nat
      <4> HIDE DEF Entries
      <4>1. candidates' = Append(candidates, here) /\ Len(candidates) \in Nat
        BY <1>1, <1>4, <2>2, LenProperties
      <4> QED
        BY <1>1, <1>4, <4>1, AppendProperties
    <3>2. 1 .. Len(candidates') = (1 .. Len(candidates)) \cup {Len(candidates) + 1}
      BY <3>1
    <3>3. visited' = visited \cup {here.note}
      BY <1>1, <2>2
    <3> QED
      BY <1>4, <3>1, <3>2, <3>3
  <2> QED
    BY <2>1, <2>2
<1>6. Typed'
  BY <1>1, <1>2, <1>3, <1>5 DEF Typed, inputs
<1>7. Phased'
  BY <1>1 DEF Phased, inputs
<1> QED
  BY <1>6, <1>7

LEMMA SeedFailsTyped == Typed /\ Phased /\ SeedFails => Typed' /\ Phased'
<1> SUFFICES ASSUME Typed, Phased, SeedFails PROVE Typed' /\ Phased'
  OBVIOUS
<1>1. /\ pc = "seed" /\ pc' = "failed"
      /\ UNCHANGED <<inputs, vector, graph, seeds, queue, visited, candidates, linkwalk, answer, citations>>
  BY DEF SeedFails
<1>2. Entries' = Entries
  BY <1>1 DEF Entries, inputs
<1> QED
  BY <1>1, <1>2 DEF Typed, Phased, inputs

LEMMA WalkedTyped == Typed /\ Phased /\ Walked => Typed' /\ Phased'
<1> SUFFICES ASSUME Typed, Phased, Walked PROVE Typed' /\ Phased'
  OBVIOUS
<1>1. /\ pc = "walk" /\ queue = <<>> /\ pc' = "rank"
      /\ UNCHANGED <<inputs, vector, graph, seeds, queue, visited, candidates, linkwalk, answer, citations>>
  BY DEF Walked
<1>2. Entries' = Entries
  BY <1>1 DEF Entries, inputs
<1> QED
  BY <1>1, <1>2 DEF Typed, Phased, inputs

LEMMA RankTyped == Typed /\ Phased /\ RankLinkWalk => Typed' /\ Phased'
<1> SUFFICES ASSUME Typed, Phased, RankLinkWalk PROVE Typed' /\ Phased'
  OBVIOUS
<1>1. /\ pc = "rank" /\ pc' = "answer"
      /\ UNCHANGED <<inputs, vector, graph, seeds, queue, visited, candidates, answer, citations>>
  BY DEF RankLinkWalk
<1>2. Entries' = Entries
  BY <1>1 DEF Entries, inputs
<1> QED
  BY <1>1, <1>2 DEF Typed, Phased, inputs

LEMMA SynthesizeTyped == Typed /\ Phased /\ Synthesize => Typed' /\ Phased'
<1> SUFFICES ASSUME Typed, Phased, Synthesize PROVE Typed' /\ Phased'
  OBVIOUS
<1>1. /\ pc = "answer" /\ pc' = "done"
      /\ UNCHANGED <<inputs, vector, graph, seeds, queue, visited, candidates, linkwalk>>
  BY DEF Synthesize
<1>2. Entries' = Entries
  BY <1>1 DEF Entries, inputs
<1> QED
  BY <1>1, <1>2 DEF Typed, Phased, inputs

LEMMA NextTyped == Typed /\ Phased /\ [Next]_vars => Typed' /\ Phased'
<1> SUFFICES ASSUME Typed, Phased, [Next]_vars PROVE Typed' /\ Phased'
  OBVIOUS
<1>1. CASE Validate
  BY <1>1, ValidateTyped
<1>2. CASE Seed
  BY <1>2, SeedTyped
<1>3. CASE PopFirst
  BY <1>3, PopFirstTyped
<1>4. CASE Walked
  BY <1>4, WalkedTyped
<1>5. CASE RankLinkWalk
  BY <1>5, RankTyped
<1>6. CASE Synthesize
  BY <1>6, SynthesizeTyped
<1>7. CASE SeedFails
  BY <1>7, SeedFailsTyped
<1>8. CASE UNCHANGED vars
  <2>1. UNCHANGED <<path, readable, vault, request, hits, vector, graph, seeds, queue, visited, candidates, pc, linkwalk, answer, citations>>
    BY <1>8 DEF vars, inputs
  <2>2. Entries' = Entries
    BY <2>1 DEF Entries
  <2> QED
    BY <2>1, <2>2 DEF Typed, Phased
<1> QED
  BY <1>1, <1>2, <1>3, <1>4, <1>5, <1>6, <1>7, <1>8 DEF Next

\* Queue, candidates and seeds are lists of notes of the vault, at depths the
\* request allows, the results are rows of Postgres, and the position says what
\* is there already.
THEOREM WalkTyped == Spec => [](Typed /\ Phased)
  BY InitTyped, NextTyped, PTL DEF Spec

-----------------------------------------------------------------------------
(* The results of both searches, and the answer.                           *)

Found ==
    /\ vector \in Seq(Results) /\ OneEach(ToSet(vector))
    /\ \A r \in ToSet(vector) : r.place \in 1 .. Len(hits)
    /\ linkwalk \in SUBSET Results /\ IsFiniteSet(linkwalk) /\ OneEach(linkwalk)
    /\ \A r \in linkwalk :
          r.place = Len(hits) + 1 /\ TextAccepted(Memory[r.memory].record, request.filter)

LEMMA InitFound == Init => Found
<1> SUFFICES ASSUME Init PROVE Found
  OBVIOUS
<1>1. vector = <<>> /\ linkwalk = {} /\ ToSet(vector) = {} /\ IsFiniteSet({})
  BY FS_EmptySet DEF Init, ToSet
<1> QED
  BY <1>1 DEF Found, OneEach

LEMMA SeedFound == Typed /\ Phased /\ Found /\ Seed => Found'
<1> SUFFICES ASSUME Typed, Phased, Found, Seed PROVE Found'
  OBVIOUS
<1>1. /\ vector' = Sorted(Ranked(HitResults)) /\ linkwalk' = linkwalk /\ linkwalk = {}
      /\ hits' = hits /\ request' = request
  <2>1. pc = "seed"
    BY DEF Seed
  <2> QED
    BY <2>1, SeedTyped DEF inputs, Phased
<1>2. /\ HitResults \in SUBSET Results /\ RankedAs(HitResults, Ranked(HitResults))
      /\ \A r \in HitResults : r.place \in 1 .. Len(hits)
  <2>1. ~Refusing /\ hits \in HitLists
    BY DEF Seed, Typed
  <2> QED
    BY <2>1, HitsAreResults, RankedResults
<1>3. Sorted(Ranked(HitResults)) \in Seq(Results) /\ ToSet(Sorted(Ranked(HitResults))) = Ranked(HitResults)
  BY <1>2, SortedSet DEF RankedAs
<1>4. \A r \in Ranked(HitResults) : r.place \in 1 .. Len(hits)
  BY <1>2 DEF RankedAs
<1>5. vector' \in Seq(Results) /\ OneEach(ToSet(vector')) /\ \A r \in ToSet(vector') : r.place \in 1 .. Len(hits')
  BY <1>1, <1>2, <1>3, <1>4 DEF RankedAs
<1> QED
  BY <1>1, <1>5 DEF Found

LEMMA RankFound == Typed /\ Found /\ RankLinkWalk => Found'
<1> SUFFICES ASSUME Typed, Found, RankLinkWalk PROVE Found'
  OBVIOUS
<1> DEFINE f == request.filter
           rows == {m \in Memories :
                       /\ path = "canonical" /\ Memory[m].note \in visited
                       /\ TextAccepted(Memory[m].record, f)}
           score(m) == 60 \div (1 + DepthOf(Memory[m].note)) + Memory[m].lexical
           R(m) == Result(m, score(m), Nothing, Len(hits) + 1)
           X == {R(m) : m \in rows}
<1>1. /\ linkwalk' = Ranked(X) /\ vector' = vector /\ hits' = hits /\ request' = request
  BY DEF RankLinkWalk, inputs
<1>2. rows \in SUBSET Memories /\ IsFiniteSet(Memories) /\ IsFiniteSet(rows)
  BY MemoryAssumption, FS_Subset
<1>3. \A m \in rows : score(m) \in Nat
  <2> SUFFICES ASSUME NEW m \in rows PROVE score(m) \in Nat
    OBVIOUS
  <2> DEFINE n == Memory[m].note
             k == CHOOSE j \in DOMAIN candidates : candidates[j].note = n
  <2>1. candidates \in Seq(Entries) /\ n \in {candidates[j].note : j \in 1 .. Len(candidates)}
    BY DEF Typed
  <2>2. DOMAIN candidates = 1 .. Len(candidates) /\ \A j \in 1 .. Len(candidates) : candidates[j] \in Entries
    BY <2>1, LenProperties, ElementOfSeq
  <2>3. \E j \in DOMAIN candidates : candidates[j].note = n
    BY <2>1, <2>2
  <2>4. k \in DOMAIN candidates
    BY <2>3
  <2>5. DepthOf(n) = candidates[k].depth
    BY DEF DepthOf
  <2>6. request.depth \in Nat
    BY DEF Typed, Queries
  <2> HIDE DEF k, n, rows
  <2>7. candidates[k] \in Entries
    BY <2>2, <2>4
  <2>8. DepthOf(n) \in Nat
    BY <2>5, <2>6, <2>7 DEF Entries
  <2>9. \A d \in Nat : 60 \div (1 + d) \in Nat
    OBVIOUS
  <2>10. Memory[m].lexical \in Nat
    BY <1>2, MemoryAssumption
  <2>11. 60 \div (1 + DepthOf(n)) \in Nat
    BY <2>8, <2>9
  <2> HIDE DEF f
  <2> QED
    BY <2>10, <2>11 DEF n
<1>4. Len(hits) + 1 \in Nat
  BY HitsCount DEF Typed
<1>5. \A m \in rows : TextAccepted(Memory[m].record, f)
  OBVIOUS
<1> HIDE DEF rows, score, f
<1>6. ASSUME NEW m \in rows
      PROVE  R(m) \in Results /\ R(m).memory = m /\ R(m).place = Len(hits) + 1
  <2>1. <<0, 1>> \in Norms /\ Nothing \in Chunks
    <3>1. <<0, 1>> \in Norms
      BY DEF Norms
    <3>2. Nothing \in Chunks
      BY DEF Chunks
    <3> QED
      BY <3>1, <3>2
  <2> QED
    BY <1>2, <1>3, <1>4, <2>1 DEF Result, Results
<1> HIDE DEF R
<1>7. X \in SUBSET Results /\ IsFiniteSet(X) /\ Distinct(X)
  <2>1. [m \in rows |-> R(m)] \in Surjection(rows, X)
    BY DEF Surjection
  <2>2. IsFiniteSet(X)
    <3> HIDE DEF X
    <3> QED
      BY <1>2, <2>1, FS_Surjection
  <2> QED
    BY <1>6, <2>2 DEF Distinct
<1>8. \A x \in X : x.memory \in rows /\ x.place = Len(hits) + 1
  BY <1>6
<1> HIDE DEF X
<1>9. RankedAs(X, linkwalk')
  BY <1>1, <1>7, RankedResults
<1>10. \A r \in linkwalk' : r.memory \in rows /\ r.place = Len(hits) + 1
  BY <1>8, <1>9 DEF RankedAs
<1>11. \A r \in linkwalk' : r.place = Len(hits') + 1 /\ TextAccepted(Memory[r.memory].record, request'.filter)
  BY <1>1, <1>5, <1>10 DEF f
<1> QED
  BY <1>1, <1>9, <1>11 DEF Found, RankedAs

LEMMA NextFound == Typed /\ Phased /\ Found /\ [Next]_vars => Found'
<1> SUFFICES ASSUME Typed, Phased, Found, [Next]_vars PROVE Found'
  OBVIOUS
<1>1. CASE Validate
  <2>1. linkwalk = {} /\ UNCHANGED <<hits, vector, linkwalk>>
    BY <1>1 DEF Validate, Phased
  <2> QED
    BY <2>1 DEF Found
<1>2. CASE Seed
  BY <1>2, SeedFound
<1>3. CASE RankLinkWalk
  BY <1>3, RankFound
<1>4. CASE SeedFails \/ PopFirst \/ Walked \/ Synthesize \/ UNCHANGED vars
  <2>1. UNCHANGED <<hits, request, vector, linkwalk>>
    BY <1>4 DEF SeedFails, PopFirst, Walked, Synthesize, vars, inputs
  <2> QED
    BY <2>1 DEF Found
<1> QED
  BY <1>1, <1>2, <1>3, <1>4 DEF Next

LEMMA MergedResults ==
    ASSUME Typed, Found
    PROVE  /\ ToSet(vector) \cup linkwalk \in SUBSET Results
           /\ IsFiniteSet(ToSet(vector) \cup linkwalk)
           /\ Distinct(ToSet(vector) \cup linkwalk)
<1>1. ToSet(vector) \in SUBSET Results /\ IsFiniteSet(ToSet(vector))
  BY SetOf DEF Found
<1>2. IsFiniteSet(ToSet(vector) \cup linkwalk)
  BY <1>1, FS_Union DEF Found
<1>3. \A r \in ToSet(vector) : \A x \in linkwalk : r.place # x.place
  <2>1. Len(hits) \in Nat
    BY HitsCount DEF Typed
  <2>2. \A k \in 1 .. Len(hits) : k # Len(hits) + 1
    BY <2>1
  <2> QED
    BY <2>2 DEF Found
<1>4. Distinct(ToSet(vector) \cup linkwalk)
  BY <1>3 DEF Found, Distinct, OneEach
<1> QED
  BY <1>1, <1>2, <1>4 DEF Found

\* What the answer keeps of the merged results: the best of each memory, in
\* order, cut at top_k.
LEMMA AnswerOf ==
    ASSUME NEW X \in SUBSET Results, IsFiniteSet(X), Distinct(X), NEW k \in Nat \ {0},
           NEW top, top = SubSeq(Sorted(BestOfEach(X)), 1, MinOf(k, Cardinality(BestOfEach(X))))
    PROVE  /\ top \in Seq(X)
           /\ \A i, j \in DOMAIN top : i < j => top[i].memory # top[j].memory /\ Ahead(top[i], top[j])
           /\ \A i \in DOMAIN top : \A r \in X : r.memory = top[i].memory => ~Over(r, top[i])
           /\ \A r \in X : r.memory \notin {top[i].memory : i \in DOMAIN top} =>
                 Len(top) = k /\ ~Over(r, top[Len(top)])
<1> DEFINE best == BestOfEach(X)
           n == Cardinality(best)
           m == MinOf(k, n)
           all == Sorted(best)
<1>1. /\ best \subseteq X /\ IsFiniteSet(best) /\ OneEach(best)
      /\ \A r \in X : \E b \in best : b.memory = r.memory
      /\ \A r \in X : \A b \in best : b.memory = r.memory => ~Over(r, b)
  BY BestResults
<1>2. /\ n \in Nat /\ all \in Seq(best) /\ Len(all) = n
      /\ \A x \in best : \E i \in 1 .. n : all[i] = x
      /\ \A i, j \in 1 .. n : i < j => Ahead(all[i], all[j])
  <2> HIDE DEF best
  <2>1. best \in SUBSET Results
    BY <1>1
  <2> QED
    BY <1>1, <2>1, SortedResults
<1> HIDE DEF best, n, all
<1>3. m \in 0 .. n /\ m <= k /\ (m < n => m = k)
  BY <1>2 DEF MinOf
<1>4. top = SubSeq(all, 1, m)
  BY DEF all, n, best
<1> HIDE DEF m
<1>5. \A i \in 1 .. n : all[i] \in best /\ all[i] \in X /\ all[i] \in Results
  BY <1>1, <1>2, ElementOfSeq
<1>6. top \in Seq(X) /\ Len(top) = m /\ DOMAIN top = 1 .. m /\ \A i \in 1 .. m : top[i] = all[i]
  <2>1. \A i \in 1 .. m : all[i] \in X
    BY <1>2, <1>3, <1>5
  <2>2. /\ SubSeq(all, 1, m) \in Seq(X)
        /\ Len(SubSeq(all, 1, m)) = IF 1 <= m THEN m - 1 + 1 ELSE 0
        /\ \A i \in 1 .. m - 1 + 1 : SubSeq(all, 1, m)[i] = all[1 + i - 1]
    BY <1>2, <1>3, <2>1, SubSeqProperties
  <2>3. Len(top) = m
    <3>1. m \in Nat /\ (IF 1 <= m THEN m - 1 + 1 ELSE 0) = m
      BY <1>2, <1>3
    <3> QED
      BY <1>4, <2>2, <3>1
  <2>4. \A i \in 1 .. m : i \in 1 .. m - 1 + 1 /\ 1 + i - 1 = i
    BY <1>2, <1>3
  <2> QED
    BY <1>4, <2>2, <2>3, <2>4, LenProperties
<1>7. \A i \in 1 .. m : i \in 1 .. n
  BY <1>2, <1>3
<1>8. ASSUME NEW i \in DOMAIN top, NEW j \in DOMAIN top, i < j
      PROVE  top[i].memory # top[j].memory /\ Ahead(top[i], top[j])
  <2>1. Ahead(top[i], top[j]) /\ top[i] \in best /\ top[j] \in best /\ top[i] \in Results
    BY <1>2, <1>5, <1>6, <1>7, <1>8
  <2>2. top[i] # top[j]
    BY <2>1, AheadStrict
  <2> QED
    BY <1>1, <2>1, <2>2 DEF OneEach
<1>9. \A i \in DOMAIN top : \A r \in X : r.memory = top[i].memory => ~Over(r, top[i])
  BY <1>1, <1>5, <1>6, <1>7
<1>10. ASSUME NEW r \in X, r.memory \notin {top[i].memory : i \in DOMAIN top}
       PROVE  Len(top) = k /\ ~Over(r, top[Len(top)])
  <2>1. PICK b \in best : b.memory = r.memory
    BY <1>1
  <2>2. PICK j \in 1 .. n : all[j] = b
    BY <1>2
  <2>3. j \notin 1 .. m
    <3> SUFFICES ASSUME j \in 1 .. m PROVE FALSE
      OBVIOUS
    <3>1. top[j].memory = r.memory /\ j \in DOMAIN top
      BY <1>6, <2>1, <2>2
    <3> QED
      BY <1>10, <3>1
  <2>4. m = k /\ m < j /\ m \in 1 .. n
    BY <1>2, <1>3, <2>3
  <2>5. Ahead(all[m], b) /\ top[m] = all[m]
    <3>1. m \in 1 .. m
      BY <1>3, <2>4
    <3> QED
      BY <1>2, <1>6, <2>2, <2>4, <3>1
  <2>6. all[m] \in Results /\ b \in Results /\ r \in Results
    BY <1>1, <1>5, <2>4
  <2>7. ~Over(b, all[m]) /\ ~Over(r, b)
    BY <1>1, <2>1, <2>5, <2>6, AheadStrict
  <2>8. ~Over(r, all[m])
    BY <2>6, <2>7, NotOver
  <2> QED
    BY <1>6, <2>4, <2>5, <2>8
<1> QED
  BY <1>6, <1>8, <1>9, <1>10

Answered ==
    /\ answer \in Seq(Results) /\ AnswerRanked
    /\ citations = Uniques(citations) /\ Len(citations) <= Len(answer)

LEMMA SynthesizeAnswered == Typed /\ Found /\ Synthesize => Answered'
<1> SUFFICES ASSUME Typed, Found, Synthesize PROVE Answered'
  OBVIOUS
<1> DEFINE X == ToSet(vector) \cup linkwalk
           top == SubSeq(Sorted(BestOfEach(X)), 1, MinOf(request.top_k, Cardinality(BestOfEach(X))))
           cites == [i \in DOMAIN top |-> Cited(top[i])]
<1>1. /\ answer' = top /\ citations' = Uniques(cites)
      /\ vector' = vector /\ linkwalk' = linkwalk /\ request' = request
  BY DEF Synthesize, inputs
<1>2. X \in SUBSET Results /\ IsFiniteSet(X) /\ Distinct(X)
  BY MergedResults
<1>3. request.top_k \in Nat \ {0}
  BY DEF Typed, Queries
<1> HIDE DEF X
<1>4. /\ top \in Seq(X)
      /\ \A i, j \in DOMAIN top : i < j => top[i].memory # top[j].memory /\ Ahead(top[i], top[j])
      /\ \A i \in DOMAIN top : \A r \in X : r.memory = top[i].memory => ~Over(r, top[i])
      /\ \A r \in X : r.memory \notin {top[i].memory : i \in DOMAIN top} =>
            Len(top) = request.top_k /\ ~Over(r, top[Len(top)])
  BY <1>2, <1>3, AnswerOf
<1> HIDE DEF top
<1>5. top \in Seq(Results)
  BY <1>2, <1>4, SeqMonotonic
<1>6. AnswerRanked'
  BY <1>1, <1>4 DEF AnswerRanked, X
<1>7. Uniques(citations') = citations' /\ Len(citations') <= Len(top)
  <2>1. Len(top) \in Nat /\ DOMAIN top = 1 .. Len(top)
    BY <1>5, LenProperties
  <2>2. cites \in [1 .. Len(top) -> {Cited(top[i]) : i \in DOMAIN top}]
    BY <2>1
  <2>3. cites \in Seq({Cited(top[i]) : i \in DOMAIN top}) /\ Len(cites) = Len(top)
    BY <2>1, <2>2
  <2> HIDE DEF cites
  <2> QED
    BY <1>1, <2>3, UniquesOnce
<1> QED
  BY <1>1, <1>5, <1>6, <1>7 DEF Answered

LEMMA NextAnswered == Typed /\ Phased /\ Found /\ Answered /\ [Next]_vars => Answered'
<1> SUFFICES ASSUME Typed, Phased, Found, Answered, [Next]_vars PROVE Answered'
  OBVIOUS
<1>1. CASE Synthesize
  BY <1>1, SynthesizeAnswered
<1>2. CASE Validate \/ Seed \/ SeedFails \/ PopFirst \/ Walked \/ RankLinkWalk
  <2>1. pc' # "done" /\ UNCHANGED <<answer, citations>>
    BY <1>2 DEF Validate, Seed, SeedFails, PopFirst, Walked, RankLinkWalk
  <2> QED
    BY <2>1 DEF Answered, AnswerRanked
<1>3. CASE UNCHANGED vars
  <2>1. UNCHANGED <<pc, vector, linkwalk, request, answer, citations>>
    BY <1>3 DEF vars, inputs
  <2> QED
    BY <2>1 DEF Answered, AnswerRanked
<1> QED
  BY <1>1, <1>2, <1>3 DEF Next

LEMMA InitAnswered == Init => Answered
<1> SUFFICES ASSUME Init PROVE Answered
  OBVIOUS
<1>1. answer = <<>> /\ citations = <<>> /\ pc = "validate"
  BY DEF Init
<1>2. Uniques(<<>>) = <<>>
  <2>1. <<>> \in Seq(Results) /\ Len(<<>>) = 0
    BY EmptySeq
  <2>2. \A k, l \in 1 .. Len(<<>>) : <<>>[k] = <<>>[l] => k = l
    BY <2>1
  <2> QED
    BY <2>1, <2>2, UniquesPlain
<1> QED
  BY <1>1, <1>2 DEF Answered, AnswerRanked

\* AnswerRanked: what the merge of both searches answers has every memory once,
\* with the better of its scores, in order, and leaves out none for a worse one
\* (synthesize of phase4/synthesis.py).
THEOREM AnswerIsRanked == Spec => []AnswerRanked
<1>1. Init => Typed /\ Phased /\ Found /\ Answered
  BY InitTyped, InitFound, InitAnswered
<1>2. Typed /\ Phased /\ Found /\ Answered /\ [Next]_vars => (Typed /\ Phased /\ Found /\ Answered)'
  BY NextTyped, NextFound, NextAnswered
<1>3. Answered => AnswerRanked
  BY DEF Answered
<1> QED
  BY <1>1, <1>2, <1>3, PTL DEF Spec

\* What a row of the link walk was tested for is enough.
LEMMA FoundAgree == Typed /\ Found => FiltersAgree
<1> SUFFICES ASSUME Typed, Found PROVE FiltersAgree
  OBVIOUS
<1> DEFINE f == request.filter
<1>1. f \in Filters
  BY DEF Typed, Queries
<1>2. \A m \in Memories : Memory[m].record \in Records
  BY MemoryAssumption DEF Records
<1> HIDE DEF f
<1>3. ASSUME NEW x \in linkwalk,
             Comparable({Memory[x.memory].record.date, f.from, f.to} \ {Nothing})
      PROVE  RowAccepted(Memory[x.memory].record, f)
  <2>1. x.memory \in Memories /\ TextAccepted(Memory[x.memory].record, f)
    BY DEF Found, Results, f
  <2> QED
    BY <1>1, <1>2, <1>3, <2>1, RowsOfComparableDates
<1>4. ASSUME NEW m \in Memories, TextAccepted(Memory[m].record, f),
             \A k, l \in f.labels \cup Memory[m].record.labels : Lower({k}) = Lower({l}) => k = l
      PROVE  SearchAccepts(Memory[m].record, f)
  <2>1. Labelled(Memory[m].record, f)
    BY <1>4 DEF TextAccepted
  <2> QED
    BY <1>4, <2>1, SearchKeepsNoLess
<1> QED
  BY <1>3, <1>4 DEF FiltersAgree, f

\* FiltersAgree: of records whose dates can be parsed and have, within a year, the
\* form of those asked for, the link walk keeps no row that the test of the rows
\* refuses, and Qdrant is asked for no less than the
\* Python test keeps when a word has one spelling (_matches_filters,
\* _payload_matches_filters and _build_filter_object).
THEOREM FiltersAlwaysAgree == Spec => []FiltersAgree
<1>1. Init => Typed /\ Phased /\ Found
  BY InitTyped, InitFound
<1>2. Typed /\ Phased /\ Found /\ [Next]_vars => (Typed /\ Phased /\ Found)'
  BY NextTyped, NextFound
<1>3. Typed /\ Found => FiltersAgree
  BY FoundAgree
<1> QED
  BY <1>1, <1>2, <1>3, PTL DEF Spec

LEMMA TypesFit == Typed /\ Phased /\ Found /\ Answered => TypeOK
<1> SUFFICES ASSUME Typed, Phased, Found, Answered PROVE TypeOK
  OBVIOUS
<1>1. ASSUME NEW s \in {queue, candidates}, NEW i \in DOMAIN s
      PROVE  s[i].note \in Notes /\ s[i].depth \in 0 .. request.depth
  <2>1. s \in Seq(Entries)
    BY DEF Typed
  <2>2. s[i] \in Entries
    <3> HIDE DEF Entries
    <3> QED
      BY <2>1, LenProperties, ElementOfSeq
  <2> QED
    BY <2>2 DEF Entries
<1>2. visited \subseteq Notes
  <2>1. candidates \in Seq(Entries) /\ visited = {candidates[k].note : k \in 1 .. Len(candidates)}
    BY DEF Typed
  <2>2. \A k \in 1 .. Len(candidates) : candidates[k].note \in Notes
    BY <1>1, <2>1, LenProperties
  <2> QED
    BY <2>1, <2>2
<1>3. ASSUME NEW r \in ToSet(vector) \cup linkwalk \cup ToSet(answer)
      PROVE  r.memory \in Memories /\ r.norm[1] \in 0 .. r.norm[2]
  <2>1. ToSet(answer) \in SUBSET Results
    BY SetOf DEF Answered
  <2>2. r \in Results
    BY <2>1, MergedResults
  <2>3. r.norm[1] \in Nat /\ r.norm[2] \in Nat /\ r.norm[1] <= r.norm[2]
    BY <2>2, NormParts
  <2>4. \A a, b \in Nat : a <= b => a \in 0 .. b
    OBVIOUS
  <2> QED
    BY <2>2, <2>3, <2>4 DEF Results
<1>4. citations = Uniques(citations) /\ Len(citations) <= Len(answer)
  BY DEF Answered
<1> QED
  BY <1>1, <1>2, <1>3, <1>4 DEF TypeOK, Typed

\* TypeOK: what the handlers of a query keep has its type, and no citation is
\* given twice.
THEOREM TypeAlwaysOK == Spec => []TypeOK
<1>1. Init => Typed /\ Phased /\ Found /\ Answered
  BY InitTyped, InitFound, InitAnswered
<1>2. Typed /\ Phased /\ Found /\ Answered /\ [Next]_vars => (Typed /\ Phased /\ Found /\ Answered)'
  BY NextTyped, NextFound, NextAnswered
<1> QED
  BY <1>1, <1>2, TypesFit, PTL DEF Spec

-----------------------------------------------------------------------------
(* The walk.                                                               *)

LEMMA WithinSets ==
    ASSUME Typed
    PROVE  /\ request.depth \in Nat
           /\ Within \in [0 .. request.depth -> SUBSET Notes]
           /\ Within[0] = ToSet(seeds)
           /\ \A d \in 1 .. request.depth :
                 Within[d] = Within[d - 1] \cup UNION {Follows(graph, request.fanout, n) : n \in Within[d - 1]}
<1> DEFINE D == request.depth
           F(n) == Follows(graph, request.fanout, n)
           step == [W \in SUBSET Notes |-> W \cup UNION {F(n) : n \in W}]
           Is(W) == W = [d \in 0 .. D |->
                           IF d = 0 THEN ToSet(seeds)
                           ELSE W[d - 1] \cup UNION {ToSet(Followed(n)) : n \in W[d - 1]}]
<1>1. D \in Nat /\ request.fanout \in Nat /\ graph \in [Notes -> Seq(Notes)] /\ seeds \in Seq(Notes)
  BY DEF Typed, Queries
<1>2. \A n \in Notes : F(n) \in SUBSET Notes /\ ToSet(Followed(n)) = F(n)
  BY <1>1, FollowedAreNotes
<1>3. ToSet(seeds) \in SUBSET Notes
  BY <1>1, SetOf
<1>4. Within = CHOOSE W : Is(W)
  BY DEF Within
<1> HIDE DEF F
<1>5. step \in [SUBSET Notes -> SUBSET Notes]
  BY <1>2
<1>6. \A W \in SUBSET Notes : step[W] = W \cup UNION {ToSet(Followed(n)) : n \in W}
  BY <1>2
<1>7. \A W \in SUBSET Notes : step[W] = W \cup UNION {F(n) : n \in W}
  OBVIOUS
<1> HIDE DEF step, D
<1>8. PICK g : Iterates(SUBSET Notes, ToSet(seeds), step, D, g)
  BY <1>1, <1>3, <1>5, Iterated
<1>iterates. g \in [0 .. D -> SUBSET Notes] /\ g[0] = ToSet(seeds) /\ \A d \in 1 .. D : g[d] = step[g[d - 1]]
  BY <1>8 DEF Iterates
<1>9. \A d \in 1 .. D : d - 1 \in 0 .. D /\ d # 0
  BY <1>1
<1>10. \A d \in 0 .. D : d # 0 => d \in 1 .. D
  BY <1>1
<1>11. Is(g)
  <2>1. ASSUME NEW d \in 0 .. D, d # 0
        PROVE  g[d] = g[d - 1] \cup UNION {ToSet(Followed(n)) : n \in g[d - 1]}
    <3>1. d \in 1 .. D /\ d - 1 \in 0 .. D
      BY <1>9, <1>10, <2>1
    <3>2. g[d] = step[g[d - 1]] /\ g[d - 1] \in SUBSET Notes
      BY <1>iterates, <3>1
    <3> QED
      BY <1>6, <3>2
  <2> QED
    BY <1>iterates, <2>1
<1>12. Is(Within)
  <2> HIDE DEF Is
  <2> QED
    BY <1>4, <1>11
<1>13. \A d \in 0 .. D :
          Within[d] = IF d = 0 THEN ToSet(seeds)
                      ELSE Within[d - 1] \cup UNION {ToSet(Followed(n)) : n \in Within[d - 1]}
  BY <1>12
<1>14. 0 \in 0 .. D /\ Within[0] = ToSet(seeds)
  <2>1. 0 \in 0 .. D
    BY <1>1
  <2> HIDE DEF Is
  <2> QED
    BY <1>13, <2>1
<1> DEFINE T == {d \in Nat : d \in 0 .. D => Within[d] \in SUBSET Notes /\ Within[d] = g[d]}
<1>15. 0 \in T
  BY <1>3, <1>iterates, <1>14
<1>16. ASSUME NEW d \in Nat, d \in T PROVE d + 1 \in T
  <2> SUFFICES ASSUME d + 1 \in 0 .. D
               PROVE  Within[d + 1] \in SUBSET Notes /\ Within[d + 1] = g[d + 1]
    OBVIOUS
  <2>1. d + 1 \in 1 .. D /\ d + 1 # 0 /\ (d + 1) - 1 = d /\ d \in 0 .. D
    BY <1>1
  <2>2. Within[d] \in SUBSET Notes /\ Within[d] = g[d]
    BY <1>16, <2>1
  <2>3. Within[d + 1] = Within[d] \cup UNION {ToSet(Followed(n)) : n \in Within[d]}
    BY <1>13, <2>1
  <2>4. Within[d + 1] = step[g[d]] /\ g[d + 1] = step[g[d]]
    BY <1>6, <1>iterates, <2>1, <2>2, <2>3
  <2>5. g[d + 1] \in SUBSET Notes
    BY <1>iterates
  <2> QED
    BY <2>4, <2>5
<1>17. Nat \subseteq T
  <2> HIDE DEF T
  <2> QED
    BY <1>15, <1>16, Induction
<1>18. \A d \in 0 .. D : Within[d] \in SUBSET Notes /\ Within[d] = g[d]
  BY <1>1, <1>17
<1>19. Within \in [0 .. D -> SUBSET Notes]
  <2>1. Within = [d \in 0 .. D |-> IF d = 0 THEN ToSet(seeds)
                           ELSE Within[d - 1] \cup UNION {ToSet(Followed(n)) : n \in Within[d - 1]}]
    BY <1>12
  <2> QED
    BY <1>18, <2>1
<1>20. \A d \in 1 .. D : Within[d] = Within[d - 1] \cup UNION {F(n) : n \in Within[d - 1]}
  <2> SUFFICES ASSUME NEW d \in 1 .. D
               PROVE  Within[d] = Within[d - 1] \cup UNION {F(n) : n \in Within[d - 1]}
    OBVIOUS
  <2>1. d - 1 \in 0 .. D /\ d \in 0 .. D
    BY <1>1
  <2>2. Within[d] = g[d] /\ Within[d - 1] = g[d - 1] /\ g[d - 1] \in SUBSET Notes
    BY <1>18, <2>1
  <2>3. g[d] = step[g[d - 1]]
    BY <1>iterates
  <2>4. step[g[d - 1]] = g[d - 1] \cup UNION {F(n) : n \in g[d - 1]}
    BY <1>7, <2>2
  <2> QED
    BY <2>2, <2>3, <2>4
<1> QED
  BY <1>1, <1>14, <1>19, <1>20 DEF D, F

WithinOf(starts, g, fan, deep) ==
    CHOOSE W : W = [d \in 0 .. deep |->
                      IF d = 0 THEN ToSet(starts)
                      ELSE W[d - 1] \cup UNION {Follows(g, fan, n) : n \in W[d - 1]}]

LEMMA WithinSame ==
    ASSUME UNCHANGED <<request, graph, seeds>>
    PROVE  Within' = Within
<1>1. Within = WithinOf(seeds, graph, request.fanout, request.depth)
  BY DEF Within, WithinOf, Followed, Follows
<1>2. Within' = WithinOf(seeds', graph', request'.fanout, request'.depth)
  BY DEF Within, WithinOf, Followed, Follows
<1> QED
  BY <1>1, <1>2

LEMMA WithinGrows ==
    ASSUME Typed, NEW d \in 0 .. request.depth, NEW e \in d .. request.depth
    PROVE  Within[d] \subseteq Within[e]
<1> DEFINE T == {k \in Nat : d + k \in 0 .. request.depth => Within[d] \subseteq Within[d + k]}
<1>1. request.depth \in Nat /\ d \in Nat
  BY DEF Typed, Queries
<1>2. 0 \in T
  BY <1>1
<1>3. ASSUME NEW k \in Nat, k \in T PROVE k + 1 \in T
  <2> SUFFICES ASSUME d + (k + 1) \in 0 .. request.depth PROVE Within[d] \subseteq Within[d + (k + 1)]
    OBVIOUS
  <2>1. d + k \in 0 .. request.depth /\ d + (k + 1) \in 1 .. request.depth /\ (d + (k + 1)) - 1 = d + k
    BY <1>1
  <2>2. Within[d + k] \subseteq Within[d + (k + 1)]
    BY <2>1, WithinSets
  <2>3. Within[d] \subseteq Within[d + k]
    BY <1>3, <2>1
  <2> QED
    BY <2>2, <2>3
<1>4. Nat \subseteq T
  <2> HIDE DEF T
  <2> QED
    BY <1>2, <1>3, Induction
<1>5. e - d \in Nat /\ d + (e - d) = e /\ e \in 0 .. request.depth
  BY <1>1
<1>6. e - d \in T
  BY <1>4, <1>5
<1> QED
  BY <1>5, <1>6

\* A note the walk has met, or is to meet within d links.
Pending(n, d) ==
    n \in visited \/ \E j \in 1 .. Len(queue) : queue[j].note = n /\ queue[j].depth <= d

QueueInOrder ==
    \A i, j \in 1 .. Len(queue) : i <= j =>
        queue[i].depth <= queue[j].depth /\ queue[j].depth <= queue[i].depth + 1
QueueWithin == \A i \in 1 .. Len(queue) : queue[i].note \in Within[queue[i].depth]
AtItsDistance ==
    \A i \in 1 .. Len(candidates) :
        /\ candidates[i].note \in Within[candidates[i].depth]
        /\ candidates[i].depth > 0 => candidates[i].note \notin Within[candidates[i].depth - 1]
MetOnce ==
    \A i, j \in 1 .. Len(candidates) : candidates[i].note = candidates[j].note => i = j
NothingLost ==
    /\ \A n \in ToSet(seeds) : Pending(n, 0)
    /\ \A i \in 1 .. Len(candidates) : candidates[i].depth < request.depth =>
          \A n \in Follows(graph, request.fanout, candidates[i].note) : Pending(n, candidates[i].depth + 1)
WalkInv == QueueInOrder /\ QueueWithin /\ AtItsDistance /\ MetOnce /\ NothingLost

LEMMA EntryParts ==
    ASSUME Typed
    PROVE  /\ request.depth \in Nat /\ Len(queue) \in Nat /\ Len(candidates) \in Nat
           /\ \A i \in 1 .. Len(queue) : queue[i] \in Entries /\ queue[i].note \in Notes /\ queue[i].depth \in 0 .. request.depth
           /\ \A i \in 1 .. Len(candidates) : candidates[i].note \in Notes /\ candidates[i].depth \in 0 .. request.depth
<1>1. request.depth \in Nat /\ queue \in Seq(Entries) /\ candidates \in Seq(Entries)
  BY DEF Typed, Queries
<1>2. \A x \in Entries : x.note \in Notes /\ x.depth \in 0 .. request.depth
  BY DEF Entries
<1> HIDE DEF Entries
<1> QED
  BY <1>1, <1>2, LenProperties, ElementOfSeq

\* When nothing is queued within d links, everything within them has been met.
LEMMA NothingLeft ==
    ASSUME Typed, AtItsDistance, NothingLost, NEW d \in 0 .. request.depth,
           \A j \in 1 .. Len(queue) : queue[j].depth > d
    PROVE  Within[d] \subseteq visited
<1> DEFINE T == {k \in Nat : k <= d => Within[k] \subseteq visited}
<1>0. request.depth \in Nat /\ d \in Nat /\ d <= request.depth
  BY EntryParts
<1>1. \A j \in 1 .. Len(queue) : queue[j].depth \in Nat
  BY EntryParts
<1>2. \A n : \A k \in Nat : k <= d /\ Pending(n, k) => n \in visited
  BY <1>0, <1>1 DEF Pending
<1>3. 0 \in T
  <2>1. Within[0] = ToSet(seeds)
    BY WithinSets
  <2> QED
    BY <1>0, <1>2, <2>1 DEF NothingLost
<1>4. ASSUME NEW k \in Nat, k \in T PROVE k + 1 \in T
  <2> SUFFICES ASSUME k + 1 <= d, NEW n \in Within[k + 1] PROVE n \in visited
    OBVIOUS
  <2>1. k \in 0 .. request.depth /\ k + 1 \in 1 .. request.depth /\ (k + 1) - 1 = k /\ k <= d
    BY <1>0
  <2>2. Within[k] \subseteq visited
    BY <1>4, <2>1
  <2>3. Within[k + 1] = Within[k] \cup UNION {Follows(graph, request.fanout, m) : m \in Within[k]}
    BY <2>1, WithinSets
  <2>4. CASE n \in Within[k]
    BY <2>2, <2>4
  <2>5. CASE n \notin Within[k]
    <3>1. PICK m \in Within[k] : n \in Follows(graph, request.fanout, m)
      BY <2>3, <2>5
    <3>2. PICK i \in 1 .. Len(candidates) : candidates[i].note = m
      BY <2>2, <3>1 DEF Typed
    <3> DEFINE e == candidates[i].depth
    <3>3. e \in 0 .. request.depth
      BY EntryParts
    <3>4. e <= k
      <4> SUFFICES ASSUME e > k PROVE FALSE
        BY <3>3
      <4>1. e > 0 /\ m \notin Within[e - 1]
        BY <3>2, <3>3 DEF AtItsDistance
      <4>2. e - 1 \in k .. request.depth
        BY <1>0, <3>3
      <4> HIDE DEF e
      <4>3. Within[k] \subseteq Within[e - 1]
        BY <2>1, <4>2, WithinGrows
      <4> QED
        BY <3>1, <4>1, <4>3
    <3>5. e < request.depth /\ e + 1 \in Nat /\ e + 1 <= d
      BY <1>0, <2>1, <3>3, <3>4
    <3>6. Pending(n, e + 1)
      BY <3>1, <3>2, <3>5 DEF NothingLost
    <3> QED
      BY <1>2, <3>5, <3>6
  <2> QED
    BY <2>4, <2>5
<1>5. d \in T
  <2> HIDE DEF T
  <2> QED
    BY <1>0, <1>3, <1>4, Induction
<1> QED
  BY <1>0, <1>5

\* A note that was met before is dropped from the queue.
LEMMA DroppedKeeps ==
    ASSUME Typed, WalkInv, PopFirst, Head(queue).note \in visited
    PROVE  WalkInv'
<1>1. /\ queue' = Rest /\ visited' = visited /\ candidates' = candidates
      /\ Len(queue) \in Nat \ {0} /\ Len(Rest) = Len(queue) - 1
      /\ \A i \in 1 .. Len(Rest) : Rest[i] = queue[i + 1]
      /\ Head(queue) = queue[1]
      /\ request' = request /\ graph' = graph /\ seeds' = seeds
  BY Popped DEF inputs
<1>2. Within' = Within
  BY <1>1, WithinSame
<1>3. \A i \in 1 .. Len(queue') : i + 1 \in 1 .. Len(queue) /\ queue'[i] = queue[i + 1]
  BY <1>1
<1>4. \A j \in 1 .. Len(queue) : j # 1 => j - 1 \in 1 .. Len(queue') /\ queue'[j - 1] = queue[j]
  <2> SUFFICES ASSUME NEW j \in 1 .. Len(queue), j # 1
               PROVE  j - 1 \in 1 .. Len(queue') /\ queue'[j - 1] = queue[j]
    OBVIOUS
  <2>1. j - 1 \in 1 .. Len(queue') /\ (j - 1) + 1 = j
    BY <1>1
  <2> QED
    BY <1>1, <2>1
<1>5. \A n, d : Pending(n, d) => Pending(n, d)'
  <2> SUFFICES ASSUME NEW n, NEW d, Pending(n, d), n \notin visited
               PROVE  \E j \in 1 .. Len(queue') : queue'[j].note = n /\ queue'[j].depth <= d
    BY <1>1 DEF Pending
  <2>1. PICK j \in 1 .. Len(queue) : queue[j].note = n /\ queue[j].depth <= d
    BY DEF Pending
  <2>2. j # 1
    BY <1>1, <2>1
  <2> QED
    BY <1>4, <2>1, <2>2
<1>6. QueueInOrder'
  <2> SUFFICES ASSUME NEW i \in 1 .. Len(queue'), NEW j \in 1 .. Len(queue'), i <= j
               PROVE  queue'[i].depth <= queue'[j].depth /\ queue'[j].depth <= queue'[i].depth + 1
    BY DEF QueueInOrder
  <2>1. i + 1 <= j + 1
    BY <1>1
  <2> QED
    BY <1>3, <2>1 DEF WalkInv, QueueInOrder
<1>7. QueueWithin'
  BY <1>2, <1>3 DEF WalkInv, QueueWithin
<1>8. AtItsDistance' /\ MetOnce'
  BY <1>1, <1>2 DEF WalkInv, AtItsDistance, MetOnce
<1>9. NothingLost'
  BY <1>1, <1>5 DEF WalkInv, NothingLost
<1> QED
  BY <1>6, <1>7, <1>8, <1>9 DEF WalkInv

\* A note that was not met before becomes a candidate, and its links are queued.
LEMMA MetKeeps ==
    ASSUME Typed, WalkInv, PopFirst, Head(queue).note \notin visited
    PROVE  WalkInv'
<1> DEFINE here == Head(queue)
           next == Neighbors(here)
           m == Len(Rest)
           c == Len(candidates)
           F(n) == Follows(graph, request.fanout, n)
<1>1. /\ here = queue[1] /\ here \in Entries
      /\ queue' = Rest \o next /\ visited' = visited \cup {here.note}
      /\ candidates' = Append(candidates, here)
      /\ Rest \in Seq(Entries) /\ next \in Seq(Entries)
      /\ Len(queue) \in Nat \ {0} /\ m = Len(queue) - 1
      /\ \A i \in 1 .. m : Rest[i] = queue[i + 1]
      /\ request' = request /\ graph' = graph /\ seeds' = seeds
  BY Popped DEF inputs
<1>2. Within' = Within
  BY <1>1, WithinSame
<1>3. request.depth \in Nat /\ here.note \in Notes /\ here.depth \in 0 .. request.depth
  BY <1>1, EntryParts DEF Entries
<1>4. /\ \A i \in 1 .. Len(next) : next[i].note \in F(here.note) /\ next[i].depth = here.depth + 1
      /\ here.depth < request.depth =>
            \A n \in F(here.note) : n \in visited \cup {here.note} \/ \E i \in 1 .. Len(next) : next[i].note = n
  <2>1. graph \in [Notes -> Seq(Notes)] /\ request.fanout \in Nat
    BY DEF Typed, Queries
  <2>2. here \in [note : Notes, depth : 0 .. request.depth]
    BY <1>1 DEF Entries
  <2> HIDE DEF here
  <2> QED
    BY <1>3, <2>1, <2>2, NeighborsOf
<1> HIDE DEF here, next
<1>5. /\ m \in Nat /\ Len(next) \in Nat /\ Len(queue') = m + Len(next)
      /\ \A i \in 1 .. m + Len(next) : queue'[i] = IF i <= m THEN Rest[i] ELSE next[i - m]
      /\ \A i \in 1 .. Len(next) : next[i] \in Entries
  <2> HIDE DEF Entries
  <2>1. m \in Nat /\ Len(next) \in Nat /\ \A i \in 1 .. Len(next) : next[i] \in Entries
    BY <1>1, LenProperties, ElementOfSeq
  <2>2. /\ Len(Rest \o next) = m + Len(next)
        /\ \A i \in 1 .. m + Len(next) : (Rest \o next)[i] = IF i <= m THEN Rest[i] ELSE next[i - m]
    BY <1>1, ConcatProperties
  <2> HIDE DEF m
  <2> QED
    BY <1>1, <2>1, <2>2
<1> HIDE DEF m
<1>6. \A i \in 1 .. Len(queue') :
         \/ i \in 1 .. m /\ i + 1 \in 1 .. Len(queue) /\ queue'[i] = queue[i + 1]
         \/ i \in m + 1 .. m + Len(next) /\ i - m \in 1 .. Len(next) /\ queue'[i] = next[i - m]
  BY <1>1, <1>5
<1>7. \A j \in 1 .. Len(queue) : j # 1 => j - 1 \in 1 .. Len(queue') /\ queue'[j - 1] = queue[j]
  <2> SUFFICES ASSUME NEW j \in 1 .. Len(queue), j # 1
               PROVE  j - 1 \in 1 .. Len(queue') /\ queue'[j - 1] = queue[j]
    OBVIOUS
  <2>1. j - 1 \in 1 .. m /\ (j - 1) + 1 = j /\ j - 1 \in 1 .. m + Len(next) /\ j - 1 <= m
    BY <1>1, <1>5
  <2>2. queue'[j - 1] = Rest[j - 1]
    BY <1>5, <2>1
  <2> QED
    BY <1>1, <1>5, <2>1, <2>2
<1>8. \A i \in 1 .. Len(next) : m + i \in 1 .. Len(queue') /\ queue'[m + i] = next[i]
  <2> SUFFICES ASSUME NEW i \in 1 .. Len(next)
               PROVE  m + i \in 1 .. Len(queue') /\ queue'[m + i] = next[i]
    OBVIOUS
  <2>1. m + i \in 1 .. m + Len(next) /\ ~(m + i <= m) /\ (m + i) - m = i
    BY <1>5
  <2> QED
    BY <1>5, <2>1
<1>9. \A n, d : Pending(n, d) => Pending(n, d)'
  <2> SUFFICES ASSUME NEW n, NEW d, Pending(n, d), n \notin visited'
               PROVE  \E j \in 1 .. Len(queue') : queue'[j].note = n /\ queue'[j].depth <= d
    BY DEF Pending
  <2>1. n \notin visited /\ n # here.note
    BY <1>1
  <2>2. PICK j \in 1 .. Len(queue) : queue[j].note = n /\ queue[j].depth <= d
    BY <2>1 DEF Pending
  <2>3. j # 1
    BY <1>1, <2>1, <2>2
  <2> QED
    BY <1>7, <2>2, <2>3
<1>10. /\ c \in Nat /\ Len(candidates') = c + 1 /\ candidates'[c + 1] = here
       /\ \A i \in 1 .. c : candidates'[i] = candidates[i]
       /\ \A i \in 1 .. c : candidates[i].note \in visited
  <2>1. candidates \in Seq(Entries) /\ visited = {candidates[i].note : i \in 1 .. c}
    BY DEF Typed
  <2> HIDE DEF Entries
  <2>2. candidates' = Append(candidates, here) /\ Len(candidates) \in Nat
    BY <1>1, <2>1, LenProperties
  <2>3. /\ Len(candidates') = c + 1 /\ candidates'[c + 1] = here
        /\ \A i \in 1 .. c : candidates'[i] = candidates[i]
    BY <1>1, <2>1, <2>2, AppendProperties
  <2> QED
    BY <2>1, <2>2, <2>3
<1> HIDE DEF c
<1>11. \A i \in 1 .. Len(candidates') : i \in 1 .. c \/ i = c + 1
  BY <1>10
<1>12. \A i \in 1 .. Len(queue) : here.depth <= queue[i].depth /\ queue[i].depth <= here.depth + 1 /\ queue[i].depth \in 0 .. request.depth
  <2> SUFFICES ASSUME NEW i \in 1 .. Len(queue)
               PROVE  here.depth <= queue[i].depth /\ queue[i].depth <= here.depth + 1 /\ queue[i].depth \in 0 .. request.depth
    OBVIOUS
  <2>1. 1 \in 1 .. Len(queue) /\ 1 <= i
    BY <1>1
  <2> QED
    BY <1>1, <2>1, EntryParts DEF WalkInv, QueueInOrder
<1>13. here.note \in Within[here.depth]
  <2>1. 1 \in 1 .. Len(queue)
    BY <1>1
  <2> QED
    BY <1>1, <2>1 DEF WalkInv, QueueWithin
<1>14. ASSUME here.depth > 0 PROVE here.note \notin Within[here.depth - 1]
  <2>1. here.depth - 1 \in 0 .. request.depth
    BY <1>3, <1>14
  <2>2. \A j \in 1 .. Len(queue) : queue[j].depth > here.depth - 1
    BY <1>3, <1>12
  <2>3. Within[here.depth - 1] \subseteq visited
    BY <2>1, <2>2, NothingLeft DEF WalkInv
  <2> QED
    BY <2>3 DEF here
<1>15. QueueInOrder'
  <2> SUFFICES ASSUME NEW i \in 1 .. Len(queue'), NEW j \in 1 .. Len(queue'), i <= j
               PROVE  queue'[i].depth <= queue'[j].depth /\ queue'[j].depth <= queue'[i].depth + 1
    BY DEF QueueInOrder
  <2>1. CASE i \in 1 .. m /\ j \in 1 .. m
    <3>1. /\ i + 1 \in 1 .. Len(queue) /\ j + 1 \in 1 .. Len(queue) /\ i + 1 <= j + 1
          /\ queue'[i] = queue[i + 1] /\ queue'[j] = queue[j + 1]
      BY <1>5, <1>6, <2>1
    <3> QED
      BY <3>1 DEF WalkInv, QueueInOrder
  <2>2. CASE i \in 1 .. m /\ j \notin 1 .. m
    <3>1. /\ i + 1 \in 1 .. Len(queue) /\ queue'[i] = queue[i + 1]
          /\ j - m \in 1 .. Len(next) /\ queue'[j] = next[j - m]
      BY <1>5, <1>6, <2>2
    <3>2. /\ here.depth <= queue[i + 1].depth /\ queue[i + 1].depth <= here.depth + 1
          /\ queue[i + 1].depth \in 0 .. request.depth /\ next[j - m].depth = here.depth + 1
      BY <1>4, <1>12, <3>1
    <3> QED
      BY <1>3, <3>1, <3>2
  <2>3. CASE i \notin 1 .. m
    <3>1. j \notin 1 .. m
      BY <1>5, <1>6, <2>3
    <3>2. /\ i - m \in 1 .. Len(next) /\ queue'[i] = next[i - m]
          /\ j - m \in 1 .. Len(next) /\ queue'[j] = next[j - m]
      BY <1>6, <2>3, <3>1
    <3>3. queue'[i].depth = here.depth + 1 /\ queue'[j].depth = here.depth + 1
      BY <1>4, <3>2
    <3> QED
      BY <1>3, <3>3
  <2> QED
    BY <2>1, <2>2, <2>3
<1>16. QueueWithin'
  <2> SUFFICES ASSUME NEW i \in 1 .. Len(queue') PROVE queue'[i].note \in Within[queue'[i].depth]
    BY <1>2 DEF QueueWithin
  <2>1. CASE i \in 1 .. m
    BY <1>5, <1>6, <2>1 DEF WalkInv, QueueWithin
  <2>2. CASE i \notin 1 .. m
    <3>1. i - m \in 1 .. Len(next) /\ queue'[i] = next[i - m]
      BY <1>6, <2>2
    <3>2. queue'[i].note \in F(here.note) /\ queue'[i].depth = here.depth + 1 /\ queue'[i] \in Entries
      BY <1>4, <1>5, <3>1
    <3>3. here.depth + 1 \in 1 .. request.depth /\ (here.depth + 1) - 1 = here.depth
      BY <1>3, <3>2 DEF Entries
    <3>4. Within[here.depth + 1] = Within[here.depth] \cup UNION {F(n) : n \in Within[here.depth]}
      BY <3>3, WithinSets
    <3> QED
      BY <1>13, <3>2, <3>4
  <2> QED
    BY <2>1, <2>2
<1>17. AtItsDistance'
  <2> SUFFICES ASSUME NEW i \in 1 .. Len(candidates')
               PROVE  /\ candidates'[i].note \in Within[candidates'[i].depth]
                      /\ candidates'[i].depth > 0 => candidates'[i].note \notin Within[candidates'[i].depth - 1]
    BY <1>2 DEF AtItsDistance
  <2>1. CASE i \in 1 .. c
    BY <1>10, <2>1 DEF WalkInv, AtItsDistance, c
  <2>2. CASE i = c + 1
    BY <1>10, <1>13, <1>14, <2>2
  <2> QED
    BY <1>11, <2>1, <2>2
<1>18. MetOnce'
  <2>1. \A i \in 1 .. c : candidates[i].note # here.note
    BY <1>10 DEF here
  <2> QED
    BY <1>10, <1>11, <2>1 DEF WalkInv, MetOnce, c
<1>19. NothingLost'
  <2>1. \A n \in ToSet(seeds') : Pending(n, 0)'
    BY <1>1, <1>9 DEF WalkInv, NothingLost
  <2>2. ASSUME NEW i \in 1 .. Len(candidates'), candidates'[i].depth < request.depth,
               NEW n \in F(candidates'[i].note)
        PROVE  \/ n \in visited'
               \/ \E j \in 1 .. Len(queue') : queue'[j].note = n /\ queue'[j].depth <= candidates'[i].depth + 1
    <3>1. CASE i \in 1 .. c
      <4>1. candidates'[i] = candidates[i] /\ i \in 1 .. Len(candidates)
        BY <1>10, <3>1 DEF c
      <4>2. Pending(n, candidates[i].depth + 1)
        BY <2>2, <4>1 DEF WalkInv, NothingLost
      <4>3. CASE n \in visited
        BY <1>1, <4>3
      <4>4. CASE n \notin visited
        <5>1. PICK j \in 1 .. Len(queue) : queue[j].note = n /\ queue[j].depth <= candidates[i].depth + 1
          BY <4>2, <4>4 DEF Pending
        <5>2. CASE j = 1
          BY <1>1, <5>1, <5>2
        <5>3. CASE j # 1
          BY <1>7, <4>1, <5>1, <5>3
        <5> QED
          BY <5>2, <5>3
      <4> QED
        BY <4>3, <4>4
    <3>2. CASE i = c + 1
      <4>1. candidates'[i] = here /\ here.depth < request.depth
        BY <1>10, <2>2, <3>2
      <4>2. n \in visited' \/ \E k \in 1 .. Len(next) : next[k].note = n
        BY <1>1, <1>4, <2>2, <4>1
      <4>3. ASSUME NEW k \in 1 .. Len(next), next[k].note = n
            PROVE  /\ m + k \in 1 .. Len(queue') /\ queue'[m + k].note = n
                   /\ queue'[m + k].depth <= here.depth + 1
        BY <1>3, <1>4, <1>8, <4>3
      <4> QED
        BY <4>1, <4>2, <4>3
    <3> QED
      BY <1>11, <3>1, <3>2
  <2> QED
    BY <1>1, <2>1, <2>2 DEF NothingLost, Pending
<1> QED
  BY <1>15, <1>16, <1>17, <1>18, <1>19 DEF WalkInv

LEMMA NothingMet ==
    ASSUME queue = <<>>, candidates = <<>>, seeds = <<>>
    PROVE  WalkInv
  BY DEF WalkInv, QueueInOrder, QueueWithin, AtItsDistance, MetOnce, NothingLost, ToSet

LEMMA WithinStarts == Typed => Within[0] = ToSet(seeds)
  BY WithinSets

LEMMA WithinStartsNext == Typed' => (Within[0] = ToSet(seeds))'
  BY WithinStarts, PTL

LEMMA SeedKeeps == Typed /\ Phased /\ Seed => WalkInv'
<1> SUFFICES ASSUME Typed, Phased, Seed PROVE WalkInv'
  OBVIOUS
<1>1. /\ Typed' /\ candidates' = <<>> /\ request' = request
      /\ queue' = [i \in DOMAIN seeds' |-> [note |-> seeds'[i], depth |-> 0]]
  <2>1. pc = "seed"
    BY DEF Seed
  <2>2. candidates = <<>>
    BY <2>1 DEF Phased
  <2> QED
    BY <2>2, SeedTyped DEF inputs
<1>2. seeds' \in Seq(Notes)
  BY <1>1 DEF Typed
<1>3. Len(seeds') \in Nat /\ DOMAIN seeds' = 1 .. Len(seeds')
  BY <1>2, LenProperties
<1>4. Len(queue') = Len(seeds')
  BY <1>1, <1>3
<1>5. \A i \in 1 .. Len(queue') : queue'[i].note = seeds'[i] /\ queue'[i].depth = 0
  BY <1>1, <1>3, <1>4
<1>6. ToSet(seeds') = {seeds'[i] : i \in 1 .. Len(seeds')}
  BY <1>3 DEF ToSet
<1>7. (Within[0] = ToSet(seeds))'
  BY <1>1, WithinStartsNext
<1>8. QueueInOrder'
  BY <1>5 DEF QueueInOrder
<1>9. QueueWithin'
  BY <1>1, <1>4, <1>5, <1>6, <1>7 DEF QueueWithin
<1>10. AtItsDistance' /\ MetOnce'
  BY <1>1 DEF AtItsDistance, MetOnce
<1>11. NothingLost'
  BY <1>1, <1>4, <1>5, <1>6 DEF NothingLost, Pending
<1> QED
  BY <1>8, <1>9, <1>10, <1>11 DEF WalkInv

LEMMA NextWalks == Typed /\ Phased /\ WalkInv /\ [Next]_vars => WalkInv'
<1> SUFFICES ASSUME Typed, Phased, WalkInv, [Next]_vars PROVE WalkInv'
  OBVIOUS
<1>1. CASE Validate
  <2>1. queue' = <<>> /\ candidates' = <<>> /\ seeds' = <<>>
    BY <1>1 DEF Validate, Phased
  <2> QED
    BY <2>1 DEF WalkInv, QueueInOrder, QueueWithin, AtItsDistance, MetOnce, NothingLost, ToSet
<1>2. CASE Seed
  BY <1>2, SeedKeeps
<1>3. CASE PopFirst
  BY <1>3, DroppedKeeps, MetKeeps
<1>4. CASE SeedFails \/ Walked \/ RankLinkWalk \/ Synthesize \/ UNCHANGED vars
  <2>1. UNCHANGED <<request, graph, seeds, queue, visited, candidates>>
    BY <1>4 DEF SeedFails, Walked, RankLinkWalk, Synthesize, vars, inputs
  <2>2. Within' = Within
    BY <2>1, WithinSame
  <2>3. QueueInOrder' /\ QueueWithin' /\ AtItsDistance' /\ MetOnce'
    BY <2>1, <2>2 DEF WalkInv, QueueInOrder, QueueWithin, AtItsDistance, MetOnce
  <2>4. NothingLost'
    BY <2>1 DEF WalkInv, NothingLost, Pending
  <2> QED
    BY <2>3, <2>4 DEF WalkInv
<1> QED
  BY <1>1, <1>2, <1>3, <1>4 DEF Next

LEMMA WalkBounded == Typed /\ Phased /\ WalkInv => WalkIsBounded
<1> SUFFICES ASSUME Typed, Phased, WalkInv PROVE WalkIsBounded
  OBVIOUS
<1>0. DOMAIN candidates = 1 .. Len(candidates)
  BY LenProperties DEF Typed
<1>1. ASSUME NEW i \in DOMAIN candidates
      PROVE  /\ candidates[i].note \in
                   IF candidates[i].depth = 0 THEN Within[0]
                   ELSE Within[candidates[i].depth] \ Within[candidates[i].depth - 1]
             /\ \A j \in DOMAIN candidates : candidates[i].note = candidates[j].note => i = j
  <2>1. candidates[i].depth \in Nat
    BY <1>0, EntryParts
  <2>2. CASE candidates[i].depth = 0
    BY <1>0, <2>2 DEF WalkInv, AtItsDistance, MetOnce
  <2>3. CASE candidates[i].depth # 0
    <3>1. candidates[i].depth > 0
      BY <2>1, <2>3
    <3> QED
      BY <1>0, <2>3, <3>1 DEF WalkInv, AtItsDistance, MetOnce
  <2> QED
    BY <2>2, <2>3
<1>2. ASSUME pc \in {"rank", "answer", "done"} PROVE visited = Within[request.depth]
  <2>1. queue = <<>> /\ request.depth \in 0 .. request.depth
    BY <1>2, EntryParts DEF Phased
  <2>2. Within[request.depth] \subseteq visited
    BY <2>1, NothingLeft DEF WalkInv
  <2>3. ASSUME NEW i \in 1 .. Len(candidates) PROVE candidates[i].note \in Within[request.depth]
    <3>1. candidates[i].depth \in 0 .. request.depth /\ request.depth \in candidates[i].depth .. request.depth
      BY EntryParts
    <3>2. candidates[i].note \in Within[candidates[i].depth]
      BY DEF WalkInv, AtItsDistance
    <3> QED
      BY <3>1, <3>2, WithinGrows
  <2>4. visited \subseteq Within[request.depth]
    BY <2>3 DEF Typed
  <2> QED
    BY <2>2, <2>4
<1> QED
  BY <1>1, <1>2 DEF WalkIsBounded

\* WalkIsBounded: the breadth-first walk meets every note within the depth once,
\* at its distance, on every graph of links (linkwalk.py).
THEOREM WalkIsAlwaysBounded == Spec => []WalkIsBounded
<1>1. Init => Typed /\ Phased /\ WalkInv
  <2>1. Init => queue = <<>> /\ candidates = <<>> /\ seeds = <<>>
    BY DEF Init
  <2> QED
    BY <2>1, InitTyped, NothingMet
<1>2. Typed /\ Phased /\ WalkInv /\ [Next]_vars => (Typed /\ Phased /\ WalkInv)'
  BY NextTyped, NextWalks
<1> QED
  BY <1>1, <1>2, WalkBounded, PTL DEF Spec
=============================================================================
