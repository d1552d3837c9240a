---------------------------- MODULE SetsOfNumbers ----------------------------
(***************************************************************************)
(* Finite sets of row ids and of places: the least, the greatest, the n    *)
(* lowest that a statement with ORDER BY and LIMIT returns, and the one    *)
(* that comes k-th.                                                        *)
(***************************************************************************)
EXTENDS Integers, FiniteSets, FiniteSetsExt, FiniteSetTheorems, WellFoundedInduction, TLAPS

\* What comes before x, without it and with it.
Below(S, x) == {y \in S : y < x}

UpTo(S, x) == {y \in S : y <= x}

\* All that is asked of a table: a bound on its ids, so that the next is new.
Numbered(rows) == \E b \in Nat : DOMAIN rows \subseteq 1..b

\* The values of a function are no more than its arguments.
LEMMA ValuesAreFinite ==
    ASSUME NEW f, IsFiniteSet(DOMAIN f)
    PROVE  IsFiniteSet({f[x] : x \in DOMAIN f})
<1> DEFINE D == DOMAIN f
           T == {f[x] : x \in D}
           g == [x \in D |-> f[x]]
<1>1. g \in Surjection(D, T)
  BY DEF Surjection
<1>2. IsFiniteSet(D)
  OBVIOUS
<1> HIDE DEF D, T, g
<1>3. IsFiniteSet(T)
  BY <1>1, <1>2, FS_Surjection
<1> QED BY <1>3 DEF D, T

\* A set of natural numbers has a least element.
LEMMA LeastExists ==
    ASSUME NEW S \in SUBSET Nat, S # {}
    PROVE  \E m \in S : \A x \in S : m <= x
<1> DEFINE R == OpToRel(<, Nat)
<1>1. \E m \in S : \A x \in S : ~ (<<x, m>> \in R)
  <2>1. IsWellFoundedOn(R, Nat)
     BY NatLessThanWellFounded
  <2> HIDE DEF R
  <2> QED BY <2>1, WFMin
<1>2. ASSUME NEW a \in Nat, NEW b \in Nat, a < b
      PROVE  <<a, b>> \in R
  <2>1. <<a, b>> \in Nat \X Nat /\ <<a, b>>[1] = a /\ <<a, b>>[2] = b
    OBVIOUS
  <2> QED BY <1>2, <2>1, Zenon DEF OpToRel
<1> HIDE DEF R
<1>3. PICK m \in S : \A x \in S : ~ (<<x, m>> \in R)
  BY <1>1
<1>4. ASSUME NEW x \in S
      PROVE  m <= x
  <2>1. x \in Nat /\ m \in Nat
    OBVIOUS
  <2>2. ~(x < m)
    BY <1>2, <1>3, <2>1
  <2> QED BY <2>1, <2>2
<1> QED BY <1>4

\* And, when it is bounded, a greatest, which Max finds.
LEMMA GreatestExists ==
    ASSUME NEW n \in Nat, NEW S \in SUBSET (0..n), S # {}
    PROVE  /\ Max(S) \in S
           /\ \A x \in S : x <= Max(S)
<1> DEFINE Rest == {n - x : x \in S}
<1>1. Rest \in SUBSET Nat /\ Rest # {}
  <2>1. \A x \in S : n - x \in Nat
    OBVIOUS
  <2>2. PICK x \in S : TRUE
    OBVIOUS
  <2>3. n - x \in Rest
    BY <2>2
  <2>4. Rest \subseteq Nat
    BY <2>1
  <2> QED BY <2>3, <2>4
<1>2. PICK r \in Rest : \A x \in Rest : r <= x
  BY <1>1, LeastExists
<1>3. PICK m \in S : r = n - m
  OBVIOUS
<1>4. \A x \in S : m >= x
  BY <1>2, <1>3
<1>5. \E y \in S : \A x \in S : y >= x
  BY <1>3, <1>4
<1>6. Max(S) \in S /\ \A x \in S : Max(S) >= x
  BY Zenon, <1>5 DEF Max
<1> QED BY <1>6

\* Min finds the least.
LEMMA MinFound ==
    ASSUME NEW S \in SUBSET Nat, S # {}
    PROVE  /\ Min(S) \in S
           /\ \A x \in S : Min(S) <= x
<1>1. \E m \in S : \A x \in S : m <= x
  BY LeastExists
<1>2. Min(S) \in S /\ \A x \in S : Min(S) <= x
  BY Zenon, <1>1 DEF Min
<1> QED BY <1>2

\* The greater of two numbers is one of them, as in max of a resume point and
\* the bytes that were read.
LEMMA MaxOfTwo ==
    ASSUME NEW a \in Nat, NEW b \in Nat
    PROVE  Max({a, b}) = IF a >= b THEN a ELSE b
<1> DEFINE m == IF a >= b THEN a ELSE b
<1>1. m \in {a, b} /\ \A y \in {a, b} : m >= y
  OBVIOUS
<1>2. Max({a, b}) \in {a, b} /\ \A y \in {a, b} : Max({a, b}) >= y
  BY <1>1, Zenon DEF Max
<1> QED BY <1>2

(***************************************************************************)
(* The n lowest of a bounded set: when they leave one out, they are n, and *)
(* it is beyond them all.                                                  *)
(***************************************************************************)
LEMMA LowestLeavesOut ==
    ASSUME NEW b \in Nat, NEW S \in SUBSET (0..b), NEW n \in Nat \ {0},
           NEW Low \in SUBSET S,
           \A x \in S : x \in Low <=> Cardinality(Below(S, x)) < n,
           NEW id \in S \ Low
    PROVE  /\ Cardinality(Low) = n
           /\ id > Max(Low)
<1>1. IsFiniteSet(S)
  <2>1. IsFiniteSet(0..b)
    BY FS_Interval
  <2> QED BY <2>1, FS_Subset
<1>2. \A T \in SUBSET S : IsFiniteSet(T) /\ Cardinality(T) \in Nat
  BY <1>1, FS_Subset, FS_CardinalityType
<1>3. \A x \in S : /\ x \in Low <=> Cardinality(Below(S, x)) < n
                  /\ Below(S, x) \in SUBSET S
                  /\ \A y \in S : y \in Below(S, x) <=> y < x
  BY DEF Below
<1>4. Low \in SUBSET S
  OBVIOUS
<1>5. id \in S \ Low /\ \A x \in S : x \in Nat
  OBVIOUS
<1>6. PICK r \in S \ Low : \A x \in S \ Low : r <= x
  <2>1. S \ Low \in SUBSET Nat /\ S \ Low # {}
    BY <1>5
  <2> QED BY <2>1, LeastExists
<1>7. Low = Below(S, r)
  <2>1. ASSUME NEW x \in S, x < r
        PROVE  x \in Low
    BY <1>6, <2>1
  <2>2. ASSUME NEW x \in Low
        PROVE  x < r
    <3>1. x \in Nat /\ r \in Nat /\ x # r
      BY <1>4, <1>5, <1>6, <2>2
    <3>2. SUFFICES ASSUME r < x
                   PROVE  FALSE
      BY <3>1
    <3>3. Below(S, r) \in SUBSET Below(S, x)
      <4>1. \A y \in S : y < r => y < x
        BY <1>5, <3>1, <3>2
      <4> QED BY <4>1, <1>3, <3>1, <1>4, <1>6
    <3>4. Cardinality(Below(S, r)) <= Cardinality(Below(S, x))
      BY <1>2, <1>3, <1>4, <3>3, FS_Subset
    <3>5. Cardinality(Below(S, x)) < n /\ ~(Cardinality(Below(S, r)) < n)
      BY <1>3, <1>4, <1>6, <2>2
    <3>6. Cardinality(Below(S, r)) \in Nat /\ Cardinality(Below(S, x)) \in Nat
      BY <1>2, <1>3, <1>4, <1>6
    <3> QED BY <3>4, <3>5, <3>6
  <2>3. \A x \in S : x \in Below(S, r) <=> x \in Low
    BY <1>3, <1>6, <2>1, <2>2
  <2> QED BY <1>3, <1>4, <1>6, <2>3
<1>8. Cardinality(Low) \in Nat /\ Cardinality(Low) >= n
  BY <1>2, <1>3, <1>6, <1>7
<1>9. Low # {}
  BY <1>8, FS_EmptySet
<1> DEFINE m == Max(Low)
<1>10. m \in Low /\ \A x \in Low : x <= m
  BY <1>4, <1>9, GreatestExists
<1> HIDE DEF m
<1>11. Cardinality(Low) <= n
  <2>1. Low \ {m} \in SUBSET Below(S, m)
    <3>1. \A x \in Low \ {m} : x < m
      BY <1>4, <1>5, <1>10
    <3> QED BY <1>3, <1>4, <1>10, <3>1
  <2>2. Cardinality(Low \ {m}) <= Cardinality(Below(S, m))
    BY <1>2, <1>3, <1>4, <1>10, <2>1, FS_Subset
  <2>3. Cardinality(Below(S, m)) < n /\ Cardinality(Below(S, m)) \in Nat
    BY <1>2, <1>3, <1>4, <1>10
  <2>4. Cardinality(Low \ {m}) = Cardinality(Low) - 1
    BY <1>2, <1>4, <1>10, FS_RemoveElement
  <2> QED BY <1>8, <2>2, <2>3, <2>4
<1>12. id > m
  <2>1. r <= id /\ m < r
    BY <1>3, <1>5, <1>6, <1>7, <1>10
  <2>2. r \in Nat /\ m \in Nat /\ id \in Nat
    BY <1>5, <1>4, <1>6, <1>10
  <2> QED BY <2>1, <2>2
<1> QED BY <1>8, <1>11, <1>12 DEF m

\* The greatest id of a table, 0 of an empty one.
LEMMA GreatestRow ==
    ASSUME NEW rows, Numbered(rows)
    PROVE  LET last == Max(DOMAIN rows \cup {0})
           IN  /\ last \in Nat
               /\ last \in DOMAIN rows \cup {0}
               /\ \A id \in DOMAIN rows : id \in Nat \ {0} /\ id <= last
<1>1. PICK b \in Nat : DOMAIN rows \subseteq 1..b
  BY DEF Numbered
<1> DEFINE S == DOMAIN rows \cup {0}
<1>2. S \in SUBSET (0..b) /\ S # {}
  BY <1>1
<1>3. Max(S) \in S /\ \A x \in S : x <= Max(S)
  BY <1>2, GreatestExists
<1> QED BY <1>1, <1>3

\* A table of one row has a bound.
LEMMA OneRowNumbered ==
    ASSUME NEW id \in Nat \ {0}, NEW v
    PROVE  Numbered([x \in {id} |-> v])
  BY DEF Numbered

\* The row that follows each row id of a table is bounded with it.
LEMMA BothNumbered ==
    ASSUME NEW rows, NEW more, NEW all, Numbered(rows), Numbered(more),
           DOMAIN all = DOMAIN rows \cup DOMAIN more
    PROVE  Numbered(all)
<1>1. PICK b \in Nat : DOMAIN rows \subseteq 1..b
  BY DEF Numbered
<1>2. PICK c \in Nat : DOMAIN more \subseteq 1..c
  BY DEF Numbered
<1>3. DOMAIN all \subseteq 1..(b + c) /\ b + c \in Nat
  BY <1>1, <1>2
<1> QED BY <1>3 DEF Numbered

(***************************************************************************)
(* Every rank is taken: some member of a bounded set is its k-th.  Take    *)
(* the greatest rank that is not: the member of the next rank has a        *)
(* greatest one before it, whose rank it is.                               *)
(***************************************************************************)
LEMMA RankExists ==
    ASSUME NEW b \in Nat, NEW S \in SUBSET (0..b), NEW k \in 1..Cardinality(S)
    PROVE  \E x \in S : Cardinality(UpTo(S, x)) = k
<1> DEFINE n == Cardinality(S)
           Taken(r) == \E x \in S : Cardinality(UpTo(S, x)) = r
           Free == {r \in 1..n : ~Taken(r)}
           Gaps == {n - r : r \in Free}
<1>1. IsFiniteSet(S) /\ n \in Nat
  <2>1. IsFiniteSet(0..b)
    BY FS_Interval
  <2> QED BY <2>1, FS_Subset, FS_CardinalityType
<1>2. \A T \in SUBSET S : IsFiniteSet(T) /\ Cardinality(T) \in Nat
  BY <1>1, FS_Subset, FS_CardinalityType
<1>3. SUFFICES ASSUME Free # {}
               PROVE  FALSE
  BY Zenon DEF UpTo
<1>4. Free \in SUBSET (1..n)
  OBVIOUS
<1> HIDE DEF n, Free
<1>5. PICK r \in Free : \A q \in Free : q <= r
  <2>1. Gaps \in SUBSET Nat /\ Gaps # {}
    <3>1. \A q \in Free : n - q \in Nat
      BY <1>1, <1>4
    <3>2. PICK q \in Free : TRUE
      BY <1>3
    <3> QED BY <3>1, <3>2
  <2>2. PICK g \in Gaps : \A h \in Gaps : g <= h
    BY <2>1, LeastExists
  <2>3. PICK r \in Free : g = n - r
    OBVIOUS
  <2>4. ASSUME NEW q \in Free
        PROVE  q <= r
    <3>1. n - r <= n - q
      BY <2>2, <2>3
    <3>2. q \in Nat /\ r \in Nat
      BY <1>1, <1>4
    <3> QED BY <1>1, <3>1, <3>2
  <2> QED BY <2>4
<1>6. r \in 1..n /\ r \in Nat /\ ~Taken(r)
  BY <1>1, <1>4, <1>5 DEF Free
<1>7. r # n
  <2>1. S # {}
    BY <1>1, <1>6, FS_EmptySet DEF n
  <2>2. Max(S) \in S /\ \A x \in S : x <= Max(S)
    BY <2>1, GreatestExists
  <2>3. UpTo(S, Max(S)) = S
    BY <2>2 DEF UpTo
  <2>4. Taken(n)
    BY <2>2, <2>3 DEF n
  <2> QED BY <1>6, <2>4
<1>8. r + 1 \in 1..n /\ ~(r + 1 \in Free)
  BY <1>1, <1>5, <1>6, <1>7
<1>9. PICK x \in S : Cardinality(UpTo(S, x)) = r + 1
  BY <1>8 DEF Free
<1> DEFINE T == Below(S, x)
<1>10. T \in SUBSET S /\ UpTo(S, x) \in SUBSET S /\ x \in UpTo(S, x)
       /\ T = UpTo(S, x) \ {x}
  <2>1. \A y \in S : y \in Nat /\ (y < x <=> y <= x /\ y # x) /\ x <= x
    OBVIOUS
  <2> QED BY <2>1 DEF UpTo, Below
<1>11. Cardinality(T) = r
  <2>1. Cardinality(UpTo(S, x) \ {x}) = Cardinality(UpTo(S, x)) - 1
    BY <1>2, <1>10, FS_RemoveElement
  <2> QED BY <1>6, <1>9, <1>10, <2>1
<1>12. T # {}
  BY <1>6, <1>11, FS_EmptySet
<1>13. Max(T) \in T /\ \A y \in T : y <= Max(T)
  <2>1. T \in SUBSET (0..b)
    BY <1>10
  <2> HIDE DEF T
  <2> QED BY <1>12, <2>1, GreatestExists
<1> DEFINE m == Max(T)
<1>14. \A y \in S : y <= m <=> y < x
  <2>1. m \in S /\ m < x /\ \A y \in S : y < x => y <= m
    BY <1>10, <1>13 DEF Below
  <2> HIDE DEF m
  <2>2. \A y \in S : y \in Nat
    OBVIOUS
  <2> QED BY <2>1, <2>2
<1>15. UpTo(S, m) = T
  BY <1>14 DEF UpTo, Below
<1> QED BY <1>6, <1>10, <1>11, <1>13, <1>15

\* The rank of a member is its own.
LEMMA RankIsOwn ==
    ASSUME NEW b \in Nat, NEW S \in SUBSET (0..b)
    PROVE  /\ \A x \in S : Cardinality(UpTo(S, x)) \in 1..Cardinality(S)
           /\ \A x, y \in S : Cardinality(UpTo(S, x)) = Cardinality(UpTo(S, y)) => x = y
<1>1. IsFiniteSet(S) /\ Cardinality(S) \in Nat
  <2>1. IsFiniteSet(0..b)
    BY FS_Interval
  <2> QED BY <2>1, FS_Subset, FS_CardinalityType
<1>2. \A x \in S : IsFiniteSet(UpTo(S, x)) /\ Cardinality(UpTo(S, x)) \in Nat
                     /\ Cardinality(UpTo(S, x)) <= Cardinality(S)
  <2> TAKE x \in S
  <2>1. UpTo(S, x) \in SUBSET S
    BY DEF UpTo
  <2> QED BY <1>1, <2>1, FS_Subset, FS_CardinalityType
<1>3. \A x \in S : Cardinality(UpTo(S, x)) # 0
  <2> TAKE x \in S
  <2>1. x \in UpTo(S, x)
    BY DEF UpTo
  <2> QED BY <1>2, <2>1, FS_EmptySet
<1>4. ASSUME NEW x \in S, NEW y \in S, x < y
      PROVE  Cardinality(UpTo(S, x)) < Cardinality(UpTo(S, y))
  <2>1. x \in Nat /\ y \in Nat /\ \A z \in S : z \in Nat
    OBVIOUS
  <2>2. (\A z \in S : z <= x => z <= y) /\ y <= y /\ ~(y <= x)
    BY <1>4, <2>1
  <2>3. UpTo(S, x) \in SUBSET UpTo(S, y) /\ y \in UpTo(S, y) /\ y \notin UpTo(S, x)
    BY Zenon, <2>2 DEF UpTo
  <2>4. /\ Cardinality(UpTo(S, x)) <= Cardinality(UpTo(S, y))
        /\ Cardinality(UpTo(S, y)) = Cardinality(UpTo(S, x)) => UpTo(S, y) = UpTo(S, x)
    BY <1>2, <2>3, FS_Subset
  <2> QED BY <1>2, <2>3, <2>4
<1>5. ASSUME NEW x \in S, NEW y \in S, Cardinality(UpTo(S, x)) = Cardinality(UpTo(S, y))
      PROVE  x = y
  <2>1. ~(x < y) /\ ~(y < x)
    BY <1>2, <1>4, <1>5
  <2>2. x \in Int /\ y \in Int
    OBVIOUS
  <2> QED BY <2>1, <2>2
<1>6. \A x \in S : Cardinality(UpTo(S, x)) \in 1..Cardinality(S)
  BY <1>1, <1>2, <1>3
<1> QED BY <1>5, <1>6

\* A set of numbers moved up has as many members.
LEMMA MovedUp ==
    ASSUME NEW b \in Nat, NEW S \in SUBSET (0..b), NEW l \in Nat
    PROVE  LET T == {l + x : x \in S}
           IN  IsFiniteSet(T) /\ Cardinality(T) = Cardinality(S)
<1> DEFINE T == {l + x : x \in S}
           f == [x \in S |-> l + x]
<1>1. IsFiniteSet(S)
  <2>1. IsFiniteSet(0..b)
    BY FS_Interval
  <2> QED BY <2>1, FS_Subset
<1>2. f \in [S -> T] /\ \A x \in S : f[x] = l + x
  OBVIOUS
<1>3. \A x \in S : x \in Int
  OBVIOUS
<1>4. \A x, y \in S : f[x] = f[y] => x = y
  BY <1>2, <1>3
<1>5. \A t \in T : \E x \in S : f[x] = t
  BY <1>2
<1> HIDE DEF f, T
<1>6. f \in Bijection(S, T)
  BY <1>2, <1>4, <1>5 DEF Bijection, Injection, Surjection, IsInjective
<1>7. ExistsBijection(S, T)
  BY <1>6 DEF ExistsBijection
<1>8. IsFiniteSet(T) /\ Cardinality(T) = Cardinality(S)
  BY <1>1, <1>7, FS_Bijection
<1> QED BY <1>8 DEF T

=============================================================================
