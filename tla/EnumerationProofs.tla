-------------------------- MODULE EnumerationProofs --------------------------
(***************************************************************************)
(* What an enumeration of a finite set, and a selection from a sequence,   *)
(* return.                                                                 *)
(***************************************************************************)
EXTENDS Enumeration, FiniteSetsExt, SequenceTheorems, FiniteSetTheorems, FunctionTheorems, TLAPS

-----------------------------------------------------------------------------
(* Ranks.                                                                  *)

\* How many the numbers 1 to n are.
LEMMA UpTo ==
  ASSUME NEW n \in Nat
  PROVE  IsFiniteSet(1..n) /\ Cardinality(1..n) = n
  <1>1. 1 \in Int /\ n \in Int
    OBVIOUS
  <1>2. IsFiniteSet(1..n) /\ Cardinality(1..n) = IF 1 > n THEN 0 ELSE n - 1 + 1
    BY <1>1, FS_Interval
  <1>3. QED BY <1>2

\* A rank is less than the number of members.
LEMMA RankBound ==
  ASSUME NEW S, NEW R, IsFiniteSet(S), StrictlyOrders(R, S), NEW x \in S
  PROVE  Rank(S, R, x) \in 0..Cardinality(S) - 1 /\ Rank(S, R, x) \in Nat
  <1> DEFINE ahead == {y \in S : <<y, x>> \in R}
  <1>1. ahead \subseteq S \ {x}
    BY DEF StrictlyOrders
  <1> HIDE DEF ahead
  <1>2. /\ IsFiniteSet(S \ {x}) /\ Cardinality(S \ {x}) = Cardinality(S) - 1
        /\ Cardinality(S) \in Nat
    BY FS_RemoveElement, FS_CardinalityType
  <1>3. Cardinality(ahead) \in Nat /\ Cardinality(ahead) <= Cardinality(S) - 1
    BY <1>1, <1>2, FS_Subset, FS_CardinalityType
  <1>4. QED BY <1>2, <1>3 DEF Rank, ahead

\* What comes before has the smaller rank.
LEMMA RankGrows ==
  ASSUME NEW S, NEW R, IsFiniteSet(S), StrictlyOrders(R, S),
         NEW x \in S, NEW y \in S, <<x, y>> \in R
  PROVE  Rank(S, R, x) < Rank(S, R, y)
  <1> DEFINE ahead(z) == {w \in S : <<w, z>> \in R}
  <1>1. ahead(x) \subseteq ahead(y) /\ x \in ahead(y) /\ x \notin ahead(x)
    BY DEF StrictlyOrders
  <1>2. IsFiniteSet(ahead(y))
    BY FS_Subset
  <1> HIDE DEF ahead
  <1>3. /\ IsFiniteSet(ahead(y) \ {x}) /\ Cardinality(ahead(y) \ {x}) = Cardinality(ahead(y)) - 1
        /\ Cardinality(ahead(y)) \in Nat
    BY <1>1, <1>2, FS_RemoveElement, FS_CardinalityType
  <1>4. /\ ahead(x) \subseteq ahead(y) \ {x}
        /\ Cardinality(ahead(x)) <= Cardinality(ahead(y) \ {x}) /\ Cardinality(ahead(x)) \in Nat
    BY <1>1, <1>3, FS_Subset, FS_CardinalityType
  <1>5. QED BY <1>3, <1>4 DEF Rank, ahead

\* The order is that of the ranks, and two members have two ranks.
LEMMA RankOrders ==
  ASSUME NEW S, NEW R, IsFiniteSet(S), StrictlyOrders(R, S), NEW x \in S, NEW y \in S
  PROVE  /\ <<x, y>> \in R <=> Rank(S, R, x) < Rank(S, R, y)
         /\ Rank(S, R, x) = Rank(S, R, y) => x = y
  <1>1. Rank(S, R, x) \in Nat /\ Rank(S, R, y) \in Nat
    BY RankBound
  <1>2. x = y \/ <<x, y>> \in R \/ <<y, x>> \in R
    BY DEF StrictlyOrders
  <1>3. <<x, y>> \in R => Rank(S, R, x) < Rank(S, R, y)
    BY RankGrows
  <1>4. <<y, x>> \in R => Rank(S, R, y) < Rank(S, R, x)
    BY RankGrows
  <1>5. QED BY <1>1, <1>2, <1>3, <1>4

\* Every place has a member: there are as many places as members.
LEMMA RankTaken ==
  ASSUME NEW S, NEW R, IsFiniteSet(S), StrictlyOrders(R, S), NEW k \in 1..Cardinality(S)
  PROVE  \E x \in S : Rank(S, R, x) = k - 1
  <1> DEFINE n == Cardinality(S)
             f == [x \in S |-> Rank(S, R, x)]
  <1>1. n \in Nat
    BY FS_CardinalityType
  <1>2. n > 0
    BY <1>1
  <1> HIDE DEF n
  <1>3. IsFiniteSet(0..n - 1) /\ Cardinality(0..n - 1) = n
    <2>1. 0 \in Int /\ n - 1 \in Int
      BY <1>1
    <2>2. IsFiniteSet(0..n - 1) /\ Cardinality(0..n - 1) = IF 0 > n - 1 THEN 0 ELSE n - 1 - 0 + 1
      BY <2>1, FS_Interval
    <2>3. QED BY <1>1, <1>2, <2>2
  <1>4. f \in [S -> 0..n - 1]
    BY RankBound DEF n
  <1>5. \A x, y \in S : f[x] = f[y] => x = y
    BY RankOrders
  <1>6. f \in Injection(S, 0..n - 1)
    BY <1>4, <1>5 DEF Injection, IsInjective
  <1>7. f \in Surjection(S, 0..n - 1)
    BY <1>3, <1>6, FS_Injection DEF n
  <1>8. k - 1 \in 0..n - 1
    BY <1>1 DEF n
  <1>9. \E x \in S : f[x] = k - 1
    BY <1>7, <1>8 DEF Surjection
  <1>10. QED BY <1>9

-----------------------------------------------------------------------------
(* Enumerations.                                                           *)

\* The member in place k is the one with k - 1 before it.
LEMMA EnumeratedAt ==
  ASSUME NEW S, NEW R, IsFiniteSet(S), StrictlyOrders(R, S), NEW k \in 1..Cardinality(S)
  PROVE  /\ Enumerate(S, R)[k] \in S
         /\ Rank(S, R, Enumerate(S, R)[k]) = k - 1
  <1>1. \E x \in S : Rank(S, R, x) = k - 1
    BY RankTaken
  <1>2. Enumerate(S, R)[k] = CHOOSE x \in S : Rank(S, R, x) = k - 1
    BY DEF Enumerate
  <1>3. QED BY <1>1, <1>2

\* An enumeration is a sequence of all the members, each one once.
LEMMA Enumerated ==
  ASSUME NEW S, NEW R, IsFiniteSet(S), StrictlyOrders(R, S)
  PROVE  /\ Cardinality(S) \in Nat
         /\ Enumerate(S, R) \in Seq(S) /\ Len(Enumerate(S, R)) = Cardinality(S)
         /\ DOMAIN Enumerate(S, R) = 1..Cardinality(S)
         /\ \A x \in S : /\ Rank(S, R, x) + 1 \in 1..Cardinality(S)
                         /\ Enumerate(S, R)[Rank(S, R, x) + 1] = x
         /\ \A j, k \in 1..Cardinality(S) : Enumerate(S, R)[j] = Enumerate(S, R)[k] => j = k
  <1> DEFINE e == Enumerate(S, R)
  <1>1. Cardinality(S) \in Nat
    BY FS_CardinalityType
  <1>2. DOMAIN e = 1..Cardinality(S)
    BY DEF Enumerate
  <1>3. e \in [1..Cardinality(S) -> S]
    <2>1. \A k \in 1..Cardinality(S) : e[k] \in S
      BY EnumeratedAt
    <2>2. e = [k \in 1..Cardinality(S) |-> e[k]]
      BY DEF Enumerate
    <2> HIDE DEF e
    <2>3. QED BY <2>1, <2>2
  <1>4. e \in Seq(S) /\ Len(e) = Cardinality(S)
    <2> HIDE DEF e
    <2>1. e \in Seq(S)
      BY <1>1, <1>3, SeqDef
    <2>2. QED BY <1>1, <1>2, <2>1, LenProperties
  <1>5. ASSUME NEW x \in S
        PROVE  Rank(S, R, x) + 1 \in 1..Cardinality(S) /\ e[Rank(S, R, x) + 1] = x
    <2>1. Rank(S, R, x) \in 0..Cardinality(S) - 1
      BY RankBound
    <2>2. PICK k \in 1..Cardinality(S) : k = Rank(S, R, x) + 1
      BY <1>1, <2>1
    <2>3. e[k] \in S /\ Rank(S, R, e[k]) = Rank(S, R, x)
      BY <1>1, <2>1, <2>2, EnumeratedAt
    <2>4. QED BY <2>2, <2>3, RankOrders
  <1>6. ASSUME NEW j \in 1..Cardinality(S), NEW k \in 1..Cardinality(S), e[j] = e[k]
        PROVE  j = k
    <2>1. Rank(S, R, e[j]) = j - 1 /\ Rank(S, R, e[k]) = k - 1
      BY EnumeratedAt
    <2>2. QED BY <1>1, <1>6, <2>1
  <1>7. QED BY <1>1, <1>2, <1>4, <1>5, <1>6

-----------------------------------------------------------------------------
(* Selections.                                                             *)

LEMMA AscendingOrders ==
  ASSUME NEW T \in SUBSET Nat
  PROVE  StrictlyOrders(Ascending(T), T)
  <1>1. \A i, j \in T : <<i, j>> \in Ascending(T) <=> i < j
    BY DEF Ascending
  <1>2. \A i \in T : i \in Nat
    OBVIOUS
  <1> QED BY <1>1, <1>2 DEF StrictlyOrders

\* A selection has one element for each position, in the order of the
\* positions, and no other.
LEMMA PickedElements ==
  ASSUME NEW A, NEW s \in Seq(A), NEW T \in SUBSET (1..Len(s))
  PROVE  /\ IsFiniteSet(T) /\ Cardinality(T) \in Nat
         /\ Picked(s, T) \in Seq(A) /\ Len(Picked(s, T)) = Cardinality(T)
         /\ DOMAIN Picked(s, T) = 1..Cardinality(T)
         /\ \A i \in T : /\ Rank(T, Ascending(T), i) + 1 \in 1..Cardinality(T)
                         /\ Picked(s, T)[Rank(T, Ascending(T), i) + 1] = s[i]
         /\ \A k \in 1..Cardinality(T) :
              \E i \in T : Rank(T, Ascending(T), i) = k - 1 /\ Picked(s, T)[k] = s[i]
  <1> DEFINE R == Ascending(T)
             e == Enumerate(T, R)
             p == Picked(s, T)
             n == Cardinality(T)
  <1>1. Len(s) \in Nat /\ DOMAIN s = 1..Len(s) /\ \A i \in 1..Len(s) : s[i] \in A
    BY LenProperties, ElementOfSeq
  <1>2. IsFiniteSet(T) /\ StrictlyOrders(R, T)
    <2>1. IsFiniteSet(1..Len(s)) /\ T \in SUBSET Nat
      BY <1>1, UpTo
    <2>2. QED BY <2>1, FS_Subset, AscendingOrders
  <1> HIDE DEF R
  <1>3. /\ n \in Nat
        /\ \A i \in T : Rank(T, R, i) + 1 \in 1..n /\ e[Rank(T, R, i) + 1] = i
    BY <1>2, Enumerated
  <1>4. \A k \in 1..n : e[k] \in T /\ Rank(T, R, e[k]) = k - 1
    BY <1>2, EnumeratedAt
  <1>5. p = [k \in 1..n |-> s[e[k]]]
    BY DEF Picked, R
  <1> HIDE DEF p, e, n
  <1>6. p \in [1..n -> A]
    BY <1>1, <1>4, <1>5
  <1>7. p \in Seq(A) /\ Len(p) = n
    <2>1. p \in Seq(A)
      BY <1>3, <1>6, SeqDef
    <2>2. QED BY <1>3, <1>6, <2>1, LenProperties
  <1>8. QED BY <1>2, <1>3, <1>4, <1>5, <1>6, <1>7 DEF p, n, R

\* A selection only looks at the positions it selects.
LEMMA PickedSame ==
  ASSUME NEW A, NEW s \in Seq(A), NEW t, NEW T \in SUBSET (1..Len(s)),
         \A i \in T : t[i] = s[i]
  PROVE  Picked(t, T) = Picked(s, T)
  <1>1. IsFiniteSet(T) /\ T \in SUBSET Nat
    BY PickedElements, LenProperties
  <1>2. StrictlyOrders(Ascending(T), T)
    BY <1>1, AscendingOrders
  <1>3. \A k \in 1..Cardinality(T) : Enumerate(T, Ascending(T))[k] \in T
    BY <1>1, <1>2, EnumeratedAt
  <1>4. QED BY <1>3 DEF Picked

\* One more position, behind the others, is one more element at the end.
LEMMA PickedNext ==
  ASSUME NEW A, NEW s \in Seq(A), NEW T \in SUBSET (1..Len(s)),
         NEW m \in 1..Len(s), \A i \in T : i < m
  PROVE  /\ Picked(s, T \union {m}) = Append(Picked(s, T), s[m])
         /\ Cardinality(T \union {m}) = Cardinality(T) + 1
  <1> DEFINE U == T \union {m}
             before == Picked(s, T)
             after == Picked(s, U)
             n == Cardinality(T)
  <1>1. Len(s) \in Nat /\ U \in SUBSET (1..Len(s)) /\ T \in SUBSET Nat /\ U \in SUBSET Nat
    BY LenProperties
  <1>2. m \notin T /\ \A i \in T : ~(m < i)
    BY <1>1
  <1>3. /\ IsFiniteSet(T) /\ n \in Nat /\ before \in Seq(A) /\ Len(before) = n
        /\ DOMAIN before = 1..n
        /\ \A k \in 1..n : \E i \in T : Rank(T, Ascending(T), i) = k - 1 /\ before[k] = s[i]
    BY PickedElements
  <1>4. /\ Cardinality(U) = n + 1
        /\ DOMAIN after = 1..Cardinality(U)
        /\ \A i \in U : after[Rank(U, Ascending(U), i) + 1] = s[i]
    <2>1. Cardinality(U) = n + 1
      BY <1>2, <1>3, FS_AddElement
    <2>2. QED BY <1>1, <2>1, PickedElements
  <1>5. ASSUME NEW i \in T
        PROVE  Rank(U, Ascending(U), i) = Rank(T, Ascending(T), i)
    <2>1. {y \in U : <<y, i>> \in Ascending(U)} = {y \in T : <<y, i>> \in Ascending(T)}
      BY <1>2 DEF Ascending
    <2>2. QED BY <2>1 DEF Rank
  <1>6. Rank(U, Ascending(U), m) = n
    <2>1. ~(m < m)
      BY <1>1
    <2>2. {y \in U : <<y, m>> \in Ascending(U)} = T
      BY <2>1 DEF Ascending
    <2>3. QED BY <2>2 DEF Rank
  <1> HIDE DEF U, before, after, n
  <1>7. m \in U /\ \A i \in T : i \in U
    BY DEF U
  <1>8. ASSUME NEW k \in 1..n
        PROVE  after[k] = before[k]
    <2>1. PICK i \in T : Rank(T, Ascending(T), i) = k - 1 /\ before[k] = s[i]
      BY <1>3
    <2>2. after[Rank(T, Ascending(T), i) + 1] = s[i]
      BY <1>4, <1>5, <1>7
    <2>3. k - 1 + 1 = k
      BY <1>3
    <2>4. QED BY <2>1, <2>2, <2>3
  <1>9. after[n + 1] = s[m]
    BY <1>4, <1>6, <1>7
  <1>10. s[m] \in A
    BY ElementOfSeq
  <1>11. /\ DOMAIN Append(before, s[m]) = 1..n + 1
         /\ \A k \in 1..n : Append(before, s[m])[k] = before[k]
         /\ Append(before, s[m])[n + 1] = s[m]
         /\ Append(before, s[m]) \in Seq(A)
    BY <1>3, <1>10, AppendProperties, LenProperties
  <1>12. \A k \in 1..n + 1 : after[k] = Append(before, s[m])[k]
    BY <1>3, <1>8, <1>9, <1>11
  <1>13. after \in Seq(A)
    BY <1>1, PickedElements DEF after
  <1>14. after = Append(before, s[m])
    <2>1. Len(after) = n + 1 /\ Len(Append(before, s[m])) = n + 1
      BY <1>3, <1>4, <1>11, <1>13, LenProperties
    <2>2. QED BY <1>11, <1>12, <1>13, <2>1, SeqEqual
  <1>15. QED BY <1>4, <1>14 DEF U, before, after, n

-----------------------------------------------------------------------------
(* Finite sets of numbers, and images.                                     *)

\* The image of a finite set is finite.
LEMMA FiniteImage ==
  ASSUME NEW f, NEW S, IsFiniteSet(S)
  PROVE  IsFiniteSet({f[x] : x \in S})
  <1> DEFINE g == [x \in S |-> f[x]]
             T == {f[x] : x \in S}
  <1>1. g \in Surjection(S, T)
    BY DEF Surjection
  <1>2. QED BY <1>1, FS_Surjection

\* A finite set of numbers has a smallest and a largest one: the ones with
\* nothing, and with everything, before them.
LEMMA Extremes ==
  ASSUME NEW S \in SUBSET Nat, IsFiniteSet(S), S # {}
  PROVE  /\ Min(S) \in S /\ \A y \in S : Min(S) <= y
         /\ Max(S) \in S /\ \A y \in S : y <= Max(S)
  <1> DEFINE R == Ascending(S)
             n == Cardinality(S)
             low(x) == \A y \in S : x <= y
             high(x) == \A y \in S : x >= y
  <1>1. StrictlyOrders(R, S) /\ n \in Nat /\ n # 0
    BY AscendingOrders, FS_CardinalityType, FS_EmptySet
  <1>2. \A x, y \in S : x < y => Rank(S, R, x) < Rank(S, R, y)
    <2>1. \A x, y \in S : x < y => <<x, y>> \in R
      BY DEF Ascending
    <2> HIDE DEF R
    <2>2. QED BY <1>1, <2>1, RankGrows
  <1>3. \A x \in S : Rank(S, R, x) \in 0..n - 1
    <2> HIDE DEF R
    <2>1. QED BY <1>1, RankBound
  <1> HIDE DEF R
  <1>4. \E x \in S : low(x)
    <2>1. 1 \in 1..n
      BY <1>1
    <2>2. PICK x \in S : Rank(S, R, x) = 1 - 1
      BY <1>1, <2>1, RankTaken
    <2>3. \A y \in S : ~(Rank(S, R, y) < Rank(S, R, x))
      BY <1>1, <1>3, <2>2
    <2>4. QED BY <1>2, <2>2, <2>3
  <1>5. \E x \in S : high(x)
    <2>1. n \in 1..n
      BY <1>1
    <2>2. PICK x \in S : Rank(S, R, x) = n - 1
      BY <1>1, <2>1, RankTaken
    <2>3. \A y \in S : ~(Rank(S, R, x) < Rank(S, R, y))
      BY <1>1, <1>3, <2>2
    <2>4. QED BY <1>2, <2>2, <2>3
  <1>6. Min(S) = (CHOOSE x \in S : low(x)) /\ Max(S) = (CHOOSE x \in S : high(x))
    BY DEF Min, Max
  <1>7. Min(S) \in S /\ low(Min(S)) /\ Max(S) \in S /\ high(Max(S))
    <2> HIDE DEF low, high
    <2>1. QED BY <1>4, <1>5, <1>6
  <1>8. \A x, y \in S : x \in Nat /\ y \in Nat
    OBVIOUS
  <1>9. QED BY <1>7, <1>8

\* The same of two numbers.
LEMMA OfTwo ==
  ASSUME NEW a \in Nat, NEW b \in Nat
  PROVE  /\ Min({a, b}) \in Nat /\ Min({a, b}) <= a /\ Min({a, b}) <= b
         /\ Min({a, b}) \in {a, b} /\ Max({a, b}) \in {a, b}
         /\ Max({a, b}) \in Nat /\ Max({a, b}) >= a /\ Max({a, b}) >= b
  <1>1. IsFiniteSet({a, b})
    <2>1. IsFiniteSet({a}) /\ {a, b} = {a} \union {b}
      BY FS_Singleton
    <2>2. QED BY <2>1, FS_AddElement
  <1>2. {a, b} \in SUBSET Nat /\ {a, b} # {} /\ a \in {a, b} /\ b \in {a, b}
    OBVIOUS
  <1>3. /\ Min({a, b}) \in {a, b} /\ \A y \in {a, b} : Min({a, b}) <= y
        /\ Max({a, b}) \in {a, b} /\ \A y \in {a, b} : y <= Max({a, b})
    BY <1>1, <1>2, Extremes
  <1>4. QED BY <1>3

-----------------------------------------------------------------------------
(* Sums.                                                                    *)

\* f gives each member of S a number.
Numbered(f, S) == \A x \in S : f[x] \in Nat

\* Two sets are of one size when a map is one to one between them.
LEMMA SameSize ==
  ASSUME NEW S, NEW T, NEW g \in [S -> T], IsFiniteSet(S),
         \A a, b \in S : g[a] = g[b] => a = b,
         \A t \in T : \E a \in S : g[a] = t
  PROVE  IsFiniteSet(T) /\ Cardinality(T) = Cardinality(S)
  <1>1. g \in Bijection(S, T)
    BY Fun_IsBij
  <1>2. ExistsBijection(S, T)
    BY <1>1, Fun_ExistsBij
  <1>3. QED BY <1>2, FS_Bijection

\* So they are when the target is known to be finite.
LEMMA SameSizeBack ==
  ASSUME NEW S, NEW T, NEW g \in [S -> T], IsFiniteSet(T),
         \A a, b \in S : g[a] = g[b] => a = b,
         \A t \in T : \E a \in S : g[a] = t
  PROVE  IsFiniteSet(S) /\ Cardinality(S) = Cardinality(T)
  <1>1. g \in Injection(S, T)
    BY Fun_IsInj
  <1>2. IsFiniteSet(S)
    BY <1>1, FS_Injection
  <1>3. QED BY <1>2, SameSize

\* A unit is a member of S and one of the numbers up to f of it.
LEMMA UnitsAre ==
  ASSUME NEW f, NEW S
  PROVE  /\ \A u \in Units(f, S) : /\ u[1] \in S /\ u[2] \in 1..f[u[1]]
                                   /\ u = <<u[1], u[2]>>
         /\ \A x \in S : \A k \in 1..f[x] : <<x, k>> \in Units(f, S)
  BY DEF Units

\* A sum over a finite set is a number.
LEMMA SumNat ==
  ASSUME NEW f, NEW S, IsFiniteSet(S), Numbered(f, S)
  PROVE  IsFiniteSet(Units(f, S)) /\ SumOf(f, S) \in Nat
  <1> DEFINE F == [x \in S |-> {x} \X (1..f[x])]
  <1>1. ASSUME NEW x \in S PROVE IsFiniteSet({x} \X (1..f[x]))
    <2>1. f[x] \in Nat
      BY DEF Numbered
    <2>2. IsFiniteSet(1..f[x])
      BY <2>1, UpTo
    <2>3. QED BY <2>2, FS_Singleton, FS_Product
  <1>2. IsFiniteSet({F[x] : x \in S})
    <2> HIDE DEF F
    <2>1. QED BY FiniteImage
  <1>3. IsFiniteSet(UNION {F[x] : x \in S})
    <2>1. \A T \in {F[x] : x \in S} : IsFiniteSet(T)
      BY <1>1
    <2> HIDE DEF F
    <2>2. QED BY <1>2, <2>1, FS_UNION
  <1>4. Units(f, S) = UNION {F[x] : x \in S}
    BY DEF Units
  <1>5. IsFiniteSet(Units(f, S))
    BY <1>3, <1>4
  <1>6. QED BY <1>5, FS_CardinalityType DEF SumOf

\* A sum only depends on the numbers over the set.
LEMMA SumSame ==
  ASSUME NEW f, NEW g, NEW S, \A x \in S : f[x] = g[x]
  PROVE  SumOf(f, S) = SumOf(g, S)
  <1>1. Units(f, S) = Units(g, S)
    BY DEF Units
  <1>2. QED BY <1>1 DEF SumOf

\* Larger numbers have a larger sum.
LEMMA SumGrows ==
  ASSUME NEW f, NEW g, NEW S, IsFiniteSet(S), Numbered(f, S), Numbered(g, S),
         \A x \in S : f[x] <= g[x]
  PROVE  SumOf(f, S) <= SumOf(g, S)
  <1>1. ASSUME NEW u \in Units(f, S) PROVE u \in Units(g, S)
    <2>1. u[1] \in S /\ u[2] \in 1..f[u[1]] /\ u = <<u[1], u[2]>>
      BY UnitsAre
    <2>2. u[2] \in 1..g[u[1]]
      BY <2>1 DEF Numbered
    <2>3. <<u[1], u[2]>> \in Units(g, S)
      BY <2>1, <2>2, UnitsAre
    <2>4. QED BY <2>1, <2>3
  <1>2. Units(f, S) \subseteq Units(g, S)
    BY <1>1
  <1>3. QED BY <1>2, SumNat, FS_Subset DEF SumOf

\* The sum of two sums.
LEMMA SumAdds ==
  ASSUME NEW f, NEW g, NEW h, NEW S, IsFiniteSet(S), Numbered(f, S), Numbered(g, S),
         \A x \in S : h[x] = f[x] + g[x]
  PROVE  SumOf(h, S) = SumOf(f, S) + SumOf(g, S)
  <1> DEFINE U == Units(f, S)
             V == Units(g, S)
             W == {<<v[1], f[v[1]] + v[2]>> : v \in V}
             m == [v \in V |-> <<v[1], f[v[1]] + v[2]>>]
  <1>1. \A x \in S : f[x] \in Nat /\ g[x] \in Nat
    BY DEF Numbered
  <1>2. IsFiniteSet(U) /\ IsFiniteSet(V) /\ Cardinality(U) \in Nat
    BY SumNat, FS_CardinalityType
  <1>3. IsFiniteSet(W) /\ Cardinality(W) = Cardinality(V)
    <2>1. m \in [V -> W]
      OBVIOUS
    <2>2. \A a, b \in V : m[a] = m[b] => a = b
      <3>1. \A v \in V : v[1] \in S /\ v[2] \in Nat /\ f[v[1]] \in Nat /\ v = <<v[1], v[2]>>
        BY <1>1, UnitsAre
      <3> HIDE DEF V
      <3>2. ASSUME NEW a \in V, NEW b \in V, m[a] = m[b] PROVE a = b
        <4>1. a[1] = b[1] /\ f[a[1]] + a[2] = f[b[1]] + b[2]
          BY <3>2
        <4>2. a[2] = b[2]
          BY <3>1, <4>1
        <4>3. QED BY <3>1, <4>1, <4>2
      <3>3. QED BY <3>2
    <2>3. \A w \in W : \E v \in V : m[v] = w
      OBVIOUS
    <2> HIDE DEF V, W, m
    <2>4. QED BY <1>2, <2>1, <2>2, <2>3, SameSize
  <1>4. U \intersect W = {}
    <2>1. ASSUME NEW v \in V, <<v[1], f[v[1]] + v[2]>> \in U PROVE FALSE
      <3>1. v[1] \in S /\ v[2] \in 1..g[v[1]]
        BY UnitsAre
      <3>2. f[v[1]] + v[2] \in 1..f[v[1]]
        BY <2>1, UnitsAre
      <3>3. QED BY <1>1, <3>1, <3>2
    <2>2. QED BY <2>1
  <1>5. Units(h, S) = U \union W
    <2>1. ASSUME NEW x \in S, NEW k \in 1..h[x] PROVE <<x, k>> \in U \union W
      <3>1. CASE k <= f[x]
        <4>1. k \in 1..f[x]
          BY <1>1, <3>1
        <4>2. QED BY <4>1, UnitsAre
      <3>2. CASE ~(k <= f[x])
        <4> DEFINE v == <<x, k - f[x]>>
        <4>1. k - f[x] \in 1..g[x] /\ f[x] + (k - f[x]) = k
          BY <1>1, <3>2
        <4>2. v \in V
          BY <4>1, UnitsAre
        <4>3. <<v[1], f[v[1]] + v[2]>> = <<x, k>>
          BY <4>1
        <4> HIDE DEF V, v
        <4>4. QED BY <4>2, <4>3
      <3>3. QED BY <3>1, <3>2
    <2>2. Units(h, S) \subseteq U \union W
      <3>1. \A u \in Units(h, S) : u[1] \in S /\ u[2] \in 1..h[u[1]] /\ u = <<u[1], u[2]>>
        BY UnitsAre
      <3> HIDE DEF U, W
      <3>2. QED BY <2>1, <3>1
    <2>3. U \subseteq Units(h, S)
      <3>1. ASSUME NEW u \in U PROVE u \in Units(h, S)
        <4>1. u[1] \in S /\ u[2] \in 1..f[u[1]] /\ u = <<u[1], u[2]>>
          BY UnitsAre
        <4>2. u[2] \in 1..h[u[1]]
          BY <1>1, <4>1
        <4>3. <<u[1], u[2]>> \in Units(h, S)
          BY <4>1, <4>2, UnitsAre
        <4>4. QED BY <4>1, <4>3
      <3>2. QED BY <3>1
    <2>4. W \subseteq Units(h, S)
      <3>1. ASSUME NEW v \in V PROVE <<v[1], f[v[1]] + v[2]>> \in Units(h, S)
        <4>1. v[1] \in S /\ v[2] \in 1..g[v[1]]
          BY UnitsAre
        <4>2. f[v[1]] + v[2] \in 1..h[v[1]]
          BY <1>1, <4>1
        <4>3. QED BY <4>1, <4>2, UnitsAre
      <3>2. QED BY <3>1
    <2>5. QED BY <2>2, <2>3, <2>4
  <1> HIDE DEF U, V, W
  <1>6. Cardinality(U \union W) = Cardinality(U) + Cardinality(W)
    <2>1. Cardinality(U \union W) = Cardinality(U) + Cardinality(W) - Cardinality(U \intersect W)
      BY <1>2, <1>3, FS_Union
    <2>2. Cardinality(W) \in Nat /\ Cardinality(U \intersect W) = 0
      BY <1>3, <1>4, FS_CardinalityType, FS_EmptySet
    <2>3. QED BY <1>2, <2>1, <2>2
  <1>7. QED BY <1>3, <1>5, <1>6 DEF SumOf, U, V

\* One for each member makes as many as there are.
LEMMA SumOnes ==
  ASSUME NEW f, NEW S, IsFiniteSet(S), \A x \in S : f[x] = 1
  PROVE  SumOf(f, S) = Cardinality(S)
  <1> DEFINE U == Units(f, S)
             m == [x \in S |-> <<x, 1>>]
  <1>1. \A u \in U : u[1] \in S /\ u = <<u[1], 1>>
    BY UnitsAre
  <1>2. m \in [S -> U]
    BY UnitsAre
  <1>3. \A t \in U : \E x \in S : m[x] = t
    <2> HIDE DEF U
    <2>1. QED BY <1>1
  <1>4. \A a, b \in S : m[a] = m[b] => a = b
    OBVIOUS
  <1> HIDE DEF U, m
  <1>5. QED BY <1>2, <1>3, <1>4, SameSize DEF SumOf, U

\* Nothing for each member makes nothing.
LEMMA SumNothing ==
  ASSUME NEW f, NEW S, \A x \in S : f[x] = 0
  PROVE  SumOf(f, S) = 0
  <1>1. Units(f, S) = {}
    <2>1. ASSUME NEW u \in Units(f, S) PROVE FALSE
      <3>1. u[1] \in S /\ u[2] \in 1..f[u[1]]
        BY UnitsAre
      <3>2. QED BY <3>1
    <2>2. QED BY <2>1
  <1>2. QED BY <1>1, FS_EmptySet DEF SumOf

\* A factor of all the numbers is one of the sum: there is no first one that is
\* not.
LEMMA SumTimes ==
  ASSUME NEW f, NEW S, IsFiniteSet(S), Numbered(f, S), NEW n \in Nat
  PROVE  SumOf([x \in S |-> n * f[x]], S) = n * SumOf(f, S)
  <1> DEFINE times(k) == [x \in S |-> k * f[x]]
             Bad == {k \in 0..n : SumOf(times(k), S) # k * SumOf(f, S)}
  <1>1. SumOf(f, S) \in Nat /\ \A x \in S : f[x] \in Nat
    BY SumNat DEF Numbered
  <1>2. SumOf(times(0), S) = 0 * SumOf(f, S)
    <2>1. \A x \in S : times(0)[x] = 0
      BY <1>1
    <2> HIDE DEF times
    <2>2. QED BY <1>1, <2>1, SumNothing
  <1>3. ASSUME NEW k \in Nat, SumOf(times(k), S) = k * SumOf(f, S)
        PROVE  SumOf(times(k + 1), S) = (k + 1) * SumOf(f, S)
    <2>1. \A x \in S : times(k)[x] \in Nat /\ times(k + 1)[x] = times(k)[x] + f[x]
      <3>1. \A a \in Nat : k * a \in Nat /\ (k + 1) * a = k * a + a
        OBVIOUS
      <3>2. QED BY <1>1, <3>1
    <2>2. (k + 1) * SumOf(f, S) = k * SumOf(f, S) + SumOf(f, S)
      <3>1. \A a \in Nat : (k + 1) * a = k * a + a
        OBVIOUS
      <3>2. QED BY <1>1, <3>1
    <2> HIDE DEF times
    <2>3. Numbered(times(k), S)
      BY <2>1 DEF Numbered
    <2>4. SumOf(times(k + 1), S) = SumOf(times(k), S) + SumOf(f, S)
      BY <2>1, <2>3, SumAdds
    <2>5. QED BY <1>3, <2>2, <2>4
  <1>4. Bad \in SUBSET Nat /\ IsFiniteSet(Bad)
    <2>1. IsFiniteSet(0..n) /\ 0..n \in SUBSET Nat
      <3>1. 0 \in Int /\ n \in Int
        OBVIOUS
      <3>2. QED BY <3>1, FS_Interval
    <2>2. Bad \subseteq 0..n
      OBVIOUS
    <2> HIDE DEF Bad
    <2>3. QED BY <2>1, <2>2, FS_Subset
  <1>5. ASSUME Bad # {} PROVE FALSE
    <2> DEFINE b == Min(Bad)
    <2>1. b \in Bad /\ \A y \in Bad : b <= y
      <3> HIDE DEF Bad
      <3>1. QED BY <1>4, <1>5, Extremes
    <2> HIDE DEF b, times
    <2>2. b \in 0..n /\ SumOf(times(b), S) # b * SumOf(f, S)
      BY <2>1
    <2>3. b # 0
      BY <1>2, <2>2
    <2>4. b - 1 \in 0..n /\ b - 1 \in Nat /\ (b - 1) + 1 = b /\ ~(b <= b - 1)
      BY <2>2, <2>3
    <2>5. SumOf(times(b - 1), S) = (b - 1) * SumOf(f, S)
      BY <2>1, <2>4
    <2>6. SumOf(times((b - 1) + 1), S) = ((b - 1) + 1) * SumOf(f, S)
      BY <1>3, <2>4, <2>5
    <2>7. QED BY <2>2, <2>4, <2>6
  <1> HIDE DEF times
  <1>6. n \in 0..n
    OBVIOUS
  <1>7. SumOf(times(n), S) = n * SumOf(f, S)
    BY <1>5, <1>6
  <1>8. QED BY <1>7 DEF times

\* What a member adds to a sum.
LEMMA SumWithout ==
  ASSUME NEW f, NEW S, IsFiniteSet(S), Numbered(f, S), NEW c \in S
  PROVE  SumOf(f, S) = SumOf(f, S \ {c}) + f[c]
  <1> DEFINE U == Units(f, S \ {c})
             V == {c} \X (1..f[c])
  <1>1. IsFiniteSet(S \ {c}) /\ Numbered(f, S \ {c}) /\ f[c] \in Nat
    BY FS_RemoveElement DEF Numbered
  <1>2. IsFiniteSet(U) /\ Cardinality(U) \in Nat
    BY <1>1, SumNat, FS_CardinalityType
  <1>3. IsFiniteSet(V) /\ Cardinality(V) = f[c]
    <2>1. IsFiniteSet({c}) /\ Cardinality({c}) = 1
      BY FS_Singleton
    <2>2. IsFiniteSet(1..f[c]) /\ Cardinality(1..f[c]) = f[c]
      BY <1>1, UpTo
    <2>3. IsFiniteSet(V) /\ Cardinality(V) = 1 * f[c]
      BY <2>1, <2>2, FS_Product
    <2> HIDE DEF V
    <2>4. QED BY <1>1, <2>3
  <1>4. U \intersect V = {} /\ Units(f, S) = U \union V
    BY DEF Units
  <1> HIDE DEF U, V
  <1>5. Cardinality(U \union V) = Cardinality(U) + Cardinality(V) - Cardinality(U \intersect V)
    BY <1>2, <1>3, FS_Union
  <1>6. Cardinality(U \intersect V) = 0
    BY <1>4, FS_EmptySet
  <1>7. Cardinality(U \union V) = Cardinality(U) + f[c]
    BY <1>1, <1>2, <1>3, <1>5, <1>6
  <1>8. QED BY <1>4, <1>7 DEF SumOf, U

\* The part of S that P maps to t.
Part(S, P, t) == {x \in S : P[x] = t}

\* The sizes of the parts add up to the size of the whole.
LEMMA SumParts ==
  ASSUME NEW f, NEW S, NEW T, NEW P, IsFiniteSet(S),
         \A x \in S : P[x] \in T,
         \A t \in T : f[t] = Cardinality(Part(S, P, t))
  PROVE  SumOf(f, T) = Cardinality(S)
  <1> DEFINE U == Units(f, T)
             h == [t \in T |-> CHOOSE b : b \in Bijection(1..f[t], Part(S, P, t))]
             g == [u \in U |-> h[u[1]][u[2]]]
  <1>1. ASSUME NEW t \in T
        PROVE  /\ \A k \in 1..f[t] : h[t][k] \in Part(S, P, t)
               /\ \A j, k \in 1..f[t] : h[t][j] = h[t][k] => j = k
               /\ \A x \in Part(S, P, t) : \E k \in 1..f[t] : h[t][k] = x
    <2>1. Part(S, P, t) \subseteq S
      BY DEF Part
    <2>2. ExistsBijection(1..f[t], Part(S, P, t))
      BY <2>1, FS_Subset, FS_CardinalityType
    <2>3. \E b : b \in Bijection(1..f[t], Part(S, P, t))
      BY <2>2, Fun_ExistsBij
    <2>4. h[t] \in Bijection(1..f[t], Part(S, P, t))
      BY <2>3
    <2> DEFINE I == 1..f[t]
               Q == Part(S, P, t)
               b == h[t]
    <2>5. b \in Bijection(I, Q)
      BY <2>4
    <2> HIDE DEF h, I, Q, b
    <2>6. b \in [I -> Q] /\ (\A j, k \in I : b[j] = b[k] => j = k) /\ \A x \in Q : \E k \in I : b[k] = x
      BY <2>5, Fun_BijectionProperties
    <2>7. QED BY <2>6 DEF I, Q, b
  <1>2. \A x \in S : P[x] \in T /\ x \in Part(S, P, P[x])
    BY DEF Part
  <1>3. \A t \in T : \A x \in Part(S, P, t) : x \in S /\ P[x] = t
    BY DEF Part
  <1>4. \A u \in U : u[1] \in T /\ u[2] \in 1..f[u[1]] /\ u = <<u[1], u[2]>>
    BY UnitsAre
  <1>5. \A t \in T : \A k \in 1..f[t] : <<t, k>> \in U
    BY UnitsAre
  <1> HIDE DEF U, h
  <1>6. g \in [U -> S]
    BY <1>1, <1>3, <1>4
  <1>7. ASSUME NEW a \in U, NEW b \in U, g[a] = g[b] PROVE a = b
    <2>1. h[a[1]][a[2]] = h[b[1]][b[2]]
      BY <1>7
    <2>2. P[h[a[1]][a[2]]] = a[1] /\ P[h[b[1]][b[2]]] = b[1]
      BY <1>1, <1>3, <1>4
    <2>3. a[1] = b[1]
      BY <2>1, <2>2
    <2>4. a[2] = b[2]
      BY <1>1, <1>4, <2>1, <2>3
    <2>5. QED BY <1>4, <2>3, <2>4
  <1>8. ASSUME NEW x \in S PROVE \E u \in U : g[u] = x
    <2>1. PICK k \in 1..f[P[x]] : h[P[x]][k] = x
      BY <1>1, <1>2
    <2>2. <<P[x], k>> \in U
      BY <1>2, <1>5, <2>1
    <2>3. g[<<P[x], k>>] = x
      BY <2>1, <2>2
    <2>4. QED BY <2>2, <2>3
  <1>9. \A a, b \in U : g[a] = g[b] => a = b
    BY <1>7
  <1> HIDE DEF g
  <1>10. QED BY <1>6, <1>8, <1>9, SameSizeBack DEF SumOf, U
=============================================================================
