--------------------------- MODULE McpServerProofs ---------------------------
(***************************************************************************)
(* What holds of McpServer and its retriever for every corpus, every       *)
(* scoring, every client and any number of sessions.                       *)
(***************************************************************************)
EXTENDS McpServer, EnumerationProofs

-----------------------------------------------------------------------------
(***************************************************************************)
(* Scores.                                                                 *)
(***************************************************************************)

\* What the two sides give: numbers for finitely many controls.
Scoring(scores) == IsFiniteSet(DOMAIN scores) /\ \A c \in DOMAIN scores : scores[c] \in Nat

\* A share and a span are numbers, and a span is not zero.
LEMMA SharesTyped ==
  ASSUME NEW scores, Scoring(scores)
  PROVE  /\ Span(scores) \in Nat \ {0}
         /\ \A c : Share(scores, c) \in Nat
         /\ \A c, d \in DOMAIN scores : scores[c] > scores[d] => Share(scores, c) > Share(scores, d)
  <1> DEFINE values == {scores[c] : c \in DOMAIN scores}
  <1>1. IsFiniteSet(values) /\ values \in SUBSET Nat
    BY FiniteImage DEF Scoring
  <1>2. CASE DOMAIN scores = {}
    BY <1>2 DEF Span, Share
  <1>3. CASE DOMAIN scores # {}
    <2>1. values # {}
      BY <1>3
    <2> HIDE DEF values
    <2>2. /\ Min(values) \in Nat /\ Max(values) \in Nat /\ Min(values) <= Max(values)
          /\ \A y \in values : Min(values) <= y
      BY <1>1, <2>1, Extremes
    <2>3. \A c \in DOMAIN scores : scores[c] \in Nat /\ scores[c] \in values
      BY DEF values, Scoring
    <2>4. Lowest(scores) = Min(values)
      BY DEF Lowest, values
    <2>5. Span(scores) = IF Max(values) - Min(values) = 0 THEN 1 ELSE Max(values) - Min(values)
      BY <1>3, <2>4 DEF Span, values
    <2>6. \A c : Share(scores, c) \in Nat
      BY <2>2, <2>3, <2>4 DEF Share
    <2>7. ASSUME NEW c \in DOMAIN scores, NEW d \in DOMAIN scores, scores[c] > scores[d]
          PROVE  Share(scores, c) > Share(scores, d)
      <3>1. scores[c] # scores[d]
        BY <2>3, <2>7
      <3>2. /\ Share(scores, c) = scores[c] - Min(values)
            /\ Share(scores, d) = scores[d] - Min(values)
        BY <2>4, <3>1 DEF Share
      <3>3. QED BY <2>2, <2>3, <2>7, <3>2
    <2>8. Span(scores) \in Nat \ {0}
      BY <2>2, <2>5
    <2>9. QED BY <2>6, <2>7, <2>8
  <1>4. QED BY <1>2, <1>3

\* How many nearest documents are asked for.
LEMMA WidthTyped ==
  ASSUME NEW top_k \in Nat
  PROVE  Max({top_k * DENSE_FACTOR, DENSE_MIN}) \in Nat \ {0}
  <1>1. top_k * DENSE_FACTOR \in Nat /\ DENSE_MIN \in Nat /\ DENSE_MIN > 0
    BY RetrieverAssumption
  <1> DEFINE a == top_k * DENSE_FACTOR
  <1> HIDE DEF a
  <1>2. Max({a, DENSE_MIN}) \in Nat /\ Max({a, DENSE_MIN}) >= DENSE_MIN
    BY <1>1, OfTwo DEF a
  <1>3. QED BY <1>1, <1>2 DEF a

\* The two sides of a query give numbers, and only for controls.
LEMMA SidesTyped ==
  ASSUME NEW query \in Queries, NEW packs \in Corpora, NEW docs \in Seq(Controls), NEW top_k
  PROVE  LET sides == Sides(query, packs, docs, top_k)
         IN  /\ Scoring(sides.lexical) /\ Scoring(sides.dense)
             /\ IsFiniteSet(Scored(sides)) /\ Scored(sides) \subseteq Controls
  <1> DEFINE sides == Sides(query, packs, docs, top_k)
             n == Max({top_k * DENSE_FACTOR, DENSE_MIN})
             first == {i \in DOMAIN docs :
                         Cardinality({j \in DOMAIN docs : Nearer(query, docs, j, i)}) < n}
  <1>1. sides.lexical = Lexical(query, packs) /\ sides.dense = Nearest(query, docs, n)
    BY DEF Sides
  <1>2. packs \in Seq(Controls)
    BY RetrieverAssumption
  <1>3. /\ IsFiniteSet(DOMAIN docs) /\ \A i \in DOMAIN docs : docs[i] \in Controls
        /\ IsFiniteSet(DOMAIN packs) /\ \A i \in DOMAIN packs : packs[i] \in Controls
    <2>1. \A s \in Seq(Controls) : Len(s) \in Nat /\ DOMAIN s = 1..Len(s)
      BY LenProperties
    <2>2. \A s \in Seq(Controls) : IsFiniteSet(DOMAIN s)
      BY <2>1, UpTo
    <2>3. \A s \in Seq(Controls) : \A i \in DOMAIN s : s[i] \in Controls
      BY <2>1, ElementOfSeq
    <2>4. QED BY <1>2, <2>2, <2>3
  <1>4. IsFiniteSet(ToSet(packs)) /\ ToSet(packs) \subseteq Controls
    BY <1>3, FiniteImage DEF ToSet
  <1>5. /\ DOMAIN sides.lexical \subseteq ToSet(packs)
        /\ \A c \in DOMAIN sides.lexical : sides.lexical[c] = bm25[packs][query][c]
    BY <1>1 DEF Lexical
  <1>6. IsFiniteSet(DOMAIN sides.lexical) /\ DOMAIN sides.lexical \subseteq Controls
    BY <1>4, <1>5, FS_Subset
  <1>7. \A c \in DOMAIN sides.lexical : sides.lexical[c] \in Nat
    BY <1>5, <1>6, RetrieverAssumption
  <1>8. /\ DOMAIN sides.dense = {docs[i] : i \in first}
        /\ \A c \in DOMAIN sides.dense : sides.dense[c] = cosine[query][c]
    BY <1>1 DEF Nearest
  <1>9. IsFiniteSet(first) /\ first \subseteq DOMAIN docs
    BY <1>3, FS_Subset
  <1> HIDE DEF first
  <1>10. IsFiniteSet(DOMAIN sides.dense) /\ DOMAIN sides.dense \subseteq Controls
    BY <1>3, <1>8, <1>9, FiniteImage
  <1>11. \A c \in DOMAIN sides.dense : sides.dense[c] \in Nat
    <2>1. \A c \in Controls : cosine[query][c] \in Nat
      BY RetrieverAssumption
    <2>2. QED BY <1>8, <1>10, <2>1
  <1> HIDE DEF sides
  <1>12. IsFiniteSet(Scored(sides)) /\ Scored(sides) \subseteq Controls
    BY <1>6, <1>10, FS_Union DEF Scored
  <1>13. QED BY <1>6, <1>7, <1>10, <1>11, <1>12 DEF Scoring, sides

\* The fused score is a number.
LEMMA FusedTyped ==
  ASSUME NEW sides, Scoring(sides.lexical), Scoring(sides.dense), NEW c
  PROVE  Fused(sides, c) \in Nat
  <1>1. /\ Share(sides.dense, c) \in Nat /\ Share(sides.lexical, c) \in Nat
        /\ Span(sides.dense) \in Nat /\ Span(sides.lexical) \in Nat
    BY SharesTyped
  <1>2. alpha \in Nat /\ 10 - alpha \in Nat
    BY RetrieverAssumption
  <1>3. \A i, j, k \in Nat : i * j * k \in Nat
    OBVIOUS
  <1>4. QED BY <1>1, <1>2, <1>3 DEF Fused

\* More on one side counts, when that side does; less on neither takes away.
LEMMA FusedGrows ==
  ASSUME NEW sides, Scoring(sides.lexical), Scoring(sides.dense), NEW c, NEW d,
         alpha \in 1..9,
         Share(sides.dense, c) >= Share(sides.dense, d),
         Share(sides.lexical, c) >= Share(sides.lexical, d),
         \/ Share(sides.dense, c) > Share(sides.dense, d)
         \/ Share(sides.lexical, c) > Share(sides.lexical, d)
  PROVE  Fused(sides, c) > Fused(sides, d)
  <1>1. /\ Share(sides.dense, c) \in Nat /\ Share(sides.lexical, c) \in Nat
        /\ Share(sides.dense, d) \in Nat /\ Share(sides.lexical, d) \in Nat
        /\ Span(sides.dense) \in Nat \ {0} /\ Span(sides.lexical) \in Nat \ {0}
    BY SharesTyped
  <1>2. \A a, b \in Nat \ {0} : \A i, j \in Nat :
          /\ i >= j => a * i * b >= a * j * b
          /\ i > j => a * i * b > a * j * b
          /\ a * i * b \in Nat
    <2>1. SUFFICES ASSUME NEW a \in Nat \ {0}, NEW b \in Nat \ {0}, NEW i \in Nat, NEW j \in Nat
                   PROVE  /\ i >= j => a * i * b >= a * j * b
                          /\ i > j => a * i * b > a * j * b
                          /\ a * i * b \in Nat
      OBVIOUS
    <2>2. \A m \in Nat \ {0} : \A u, v \in Nat : /\ u >= v => m * u >= m * v
                                                /\ u > v => m * u > m * v
                                                /\ m * u \in Nat
      OBVIOUS
    <2>3. /\ i >= j => a * i >= a * j
          /\ i > j => a * i > a * j
          /\ a * i \in Nat /\ a * j \in Nat
      BY <2>2
    <2>4. \A u, v \in Nat : /\ u >= v => u * b >= v * b
                           /\ u > v => u * b > v * b
                           /\ u * b \in Nat
      OBVIOUS
    <2>5. QED BY <2>3, <2>4
  <1>3. alpha \in Nat \ {0} /\ 10 - alpha \in Nat \ {0}
    OBVIOUS
  <1> DEFINE p == alpha * Share(sides.dense, c) * Span(sides.lexical)
             q == alpha * Share(sides.dense, d) * Span(sides.lexical)
             r == (10 - alpha) * Share(sides.lexical, c) * Span(sides.dense)
             t == (10 - alpha) * Share(sides.lexical, d) * Span(sides.dense)
  <1>4. /\ p >= q /\ p \in Nat /\ q \in Nat
        /\ Share(sides.dense, c) > Share(sides.dense, d) => p > q
    BY <1>1, <1>2, <1>3
  <1>5. /\ r >= t /\ r \in Nat /\ t \in Nat
        /\ Share(sides.lexical, c) > Share(sides.lexical, d) => r > t
    BY <1>1, <1>2, <1>3
  <1>6. Fused(sides, c) = p + r /\ Fused(sides, d) = q + t
    BY DEF Fused
  <1> HIDE DEF p, q, r, t
  <1>7. QED BY <1>4, <1>5, <1>6

-----------------------------------------------------------------------------
(***************************************************************************)
(* Retrieval.                                                              *)
(***************************************************************************)

\* A process iterates over all controls, each at one place.
LEMMA Placed ==
  ASSUME NEW iter \in Orders, NEW c \in Controls
  PROVE  Place(iter, c) \in Nat /\ iter[Place(iter, c)] = c
  <1>1. iter \in Seq(Controls) /\ ToSet(iter) = Controls
    BY ServerAssumption
  <1>2. DOMAIN iter = 1..Len(iter) /\ Len(iter) \in Nat
    BY <1>1, LenProperties
  <1>3. \E i \in DOMAIN iter : iter[i] = c
    BY <1>1 DEF ToSet
  <1>4. QED BY <1>2, <1>3 DEF Place

\* The order by score has a place for every control that is scored.
LEMMA ScoresOrder ==
  ASSUME NEW sides, Scoring(sides.lexical), Scoring(sides.dense),
         Scored(sides) \subseteq Controls, NEW T \in SUBSET Scored(sides), NEW iter \in Orders
  PROVE  StrictlyOrders(ByScore(sides, iter), T)
  <1> DEFINE F(c) == Fused(sides, c)
             P(c) == Place(iter, c)
  <1>1. \A c \in T : F(c) \in Nat /\ P(c) \in Nat /\ iter[P(c)] = c /\ c \in Scored(sides)
    BY FusedTyped, Placed
  <1>2. \A c, d \in T : <<c, d>> \in ByScore(sides, iter) <=>
                          (F(c) > F(d) \/ (F(c) = F(d) /\ P(c) < P(d)))
    BY <1>1 DEF ByScore, Precedes
  <1> HIDE DEF F, P
  <1>3. \A c, d \in T : P(c) = P(d) => c = d
    BY <1>1
  <1>4. QED BY <1>1, <1>2, <1>3 DEF StrictlyOrders

\* What a search may return.
Candidates(query, packs, docs, top_k, frameworks) ==
  {c \in Scored(Sides(query, packs, docs, top_k)) : Kept(c, packs, frameworks)}

\* found has the first of the members of S, in the order of R.
FirstOf(found, S, R, limit) ==
  /\ IsFiniteSet(S) /\ StrictlyOrders(R, S)
  /\ found \in Seq(S) /\ IsInjective(found)
  /\ Len(found) \in Nat /\ Len(found) <= limit /\ limit \in Nat /\ DOMAIN found = 1..Len(found)
  /\ Len(found) = Min({Cardinality(S), limit})
  /\ \A k \in 1..Len(found) : found[k] \in S /\ Rank(S, R, found[k]) = k - 1
  /\ \A x \in S : Rank(S, R, x) + 1 <= Len(found) => found[Rank(S, R, x) + 1] = x

\* What retrieve returns: of the controls it keeps the first, in their order,
\* as many as are asked for and there are, but one at least.
LEMMA Retrieved ==
  ASSUME NEW query \in Queries, NEW packs \in Corpora, NEW docs \in Seq(Controls),
         NEW top_k \in Nat, NEW iter \in Orders, NEW frameworks
  PROVE  FirstOf(retrieve(query, packs, docs, iter, top_k, frameworks),
                 Candidates(query, packs, docs, top_k, frameworks),
                 ByScore(Sides(query, packs, docs, top_k), iter), Max({1, top_k}))
  <1> DEFINE sides == Sides(query, packs, docs, top_k)
             kept == Candidates(query, packs, docs, top_k, frameworks)
             found == retrieve(query, packs, docs, iter, top_k, frameworks)
             R == ByScore(sides, iter)
             ranked == Enumerate(kept, R)
             m == Cardinality(kept)
             n == Min({m, Max({1, top_k})})
  <1>1. /\ Scoring(sides.lexical) /\ Scoring(sides.dense)
        /\ IsFiniteSet(Scored(sides)) /\ Scored(sides) \subseteq Controls
    BY SidesTyped
  <1>2. IsFiniteSet(kept) /\ StrictlyOrders(R, kept) /\ kept \subseteq Controls
    <2>1. kept \subseteq Scored(sides)
      BY DEF Candidates
    <2> HIDE DEF kept, sides
    <2>2. QED BY <1>1, <2>1, ScoresOrder, FS_Subset
  <1> HIDE DEF R
  <1>3. /\ m \in Nat /\ ranked \in Seq(kept) /\ Len(ranked) = m
        /\ \A c \in kept : Rank(kept, R, c) + 1 \in 1..m /\ ranked[Rank(kept, R, c) + 1] = c
        /\ \A j, k \in 1..m : ranked[j] = ranked[k] => j = k
    <2> HIDE DEF ranked, m
    <2>1. m \in Nat /\ ranked \in Seq(kept) /\ Len(ranked) = m
      BY <1>2, Enumerated DEF ranked, m
    <2>2. \A c \in kept : Rank(kept, R, c) + 1 \in 1..m /\ ranked[Rank(kept, R, c) + 1] = c
      BY <1>2, Enumerated DEF ranked, m
    <2>3. \A j, k \in 1..m : ranked[j] = ranked[k] => j = k
      BY <1>2, Enumerated DEF ranked, m
    <2>4. QED BY <2>1, <2>2, <2>3
  <1>4. \A k \in 1..m : ranked[k] \in kept /\ Rank(kept, R, ranked[k]) = k - 1
    BY <1>2, EnumeratedAt
  <1> HIDE DEF ranked, m
  <1>5. n \in Nat /\ n <= m /\ n <= Max({1, top_k}) /\ Max({1, top_k}) \in Nat
    BY <1>3, OfTwo
  <1>6. found = SubSeq(ranked, 1, n)
    BY <1>3 DEF retrieve, ranked, R, m, Candidates
  <1> HIDE DEF n, found, kept, sides
  <1>7. /\ found \in Seq(kept) /\ Len(found) = n
        /\ \A k \in 1..n : found[k] = ranked[k]
    <2>1. \A k \in 1..n : ranked[k] \in kept
      BY <1>3, <1>4, <1>5
    <2>2. QED BY <1>5, <1>6, <2>1, SubSeqProperties
  <1>8. DOMAIN found = 1..n
    BY <1>7, LenProperties
  <1>9. \A k \in 1..n : k \in 1..m
    BY <1>3, <1>5
  <1>10. \A k \in 1..n : found[k] \in kept /\ Rank(kept, R, found[k]) = k - 1
    BY <1>4, <1>7, <1>9
  <1>11. ASSUME NEW c \in kept, Rank(kept, R, c) + 1 <= n
         PROVE  found[Rank(kept, R, c) + 1] = c
    <2>1. Rank(kept, R, c) + 1 \in 1..n
      BY <1>3, <1>5, <1>11
    <2>2. QED BY <1>3, <1>7, <2>1
  <1>12. IsInjective(found)
    BY <1>3, <1>7, <1>8, <1>9 DEF IsInjective
  <1>13. n = Min({Cardinality(kept), Max({1, top_k})})
    BY DEF n, m
  <1>14. FirstOf(found, kept, R, Max({1, top_k}))
    BY <1>2, <1>5, <1>7, <1>8, <1>10, <1>11, <1>12, <1>13 DEF FirstOf
  <1>15. QED BY <1>14 DEF found, kept, R, sides

\* What is kept is of the corpus.
LEMMA KeptIsOfCorpus ==
  ASSUME NEW c, NEW packs \in Corpora, NEW frameworks, Kept(c, packs, frameworks)
  PROVE  c \in ToSet(packs)
  <1>1. DOMAIN packs = 1..Len(packs)
    BY RetrieverAssumption, LenProperties
  <1>2. QED BY <1>1 DEF Kept, Contains, ToSet

\* The evidence of a control has its own text, and nothing of another corpus.
LEMMA EvidenceOfControl ==
  ASSUME NEW packs \in Corpora, NEW control \in ToSet(packs), NEW docs \in Seq(Controls),
         NEW iter \in Orders, NEW K \in Nat \ {0}, NEW ids,
         ids = evidence(control, packs, docs, iter, K)
  PROVE  /\ Contains(ids, control) /\ ToSet(ids) \subseteq ToSet(packs)
         /\ IsInjective(ids) /\ Len(ids) <= K
  <1> DEFINE sides == Sides(control, packs, docs, K)
             kept == Candidates(control, packs, docs, K, {})
             found == retrieve(control, packs, docs, iter, K, {})
             all == IF Contains(found, control) THEN found ELSE <<control>> \o found
  <1>1. control \in Queries /\ K \in Nat /\ K >= 1
    <2>1. packs \in Seq(Controls) /\ Controls \subseteq Queries
      BY RetrieverAssumption
    <2>2. ToSet(packs) \subseteq Controls
      BY <2>1, LenProperties, ElementOfSeq DEF ToSet
    <2>3. QED BY <2>1, <2>2
  <1>2. /\ kept \subseteq ToSet(packs)
        /\ found \in Seq(kept) /\ Len(found) <= Max({1, K}) /\ IsInjective(found)
    <2>1. \A c \in kept : c \in ToSet(packs)
      BY KeptIsOfCorpus DEF Candidates
    <2>2. FirstOf(found, kept, ByScore(sides, iter), Max({1, K}))
      BY <1>1, Retrieved
    <2> HIDE DEF kept, found
    <2>3. QED BY <2>1, <2>2 DEF FirstOf
  <1>3. Max({1, K}) = K
    BY <1>1, OfTwo
  <1> HIDE DEF kept, found
  <1>4. found \in Seq(ToSet(packs)) /\ Len(found) \in Nat /\ Len(found) <= K
        /\ DOMAIN found = 1..Len(found)
    BY <1>2, <1>3, SeqMonotonic, LenProperties
  <1>5. ids = SubSeq(all, 1, Min({Len(all), K}))
    BY DEF evidence, found
  <1>6. CASE Contains(found, control)
    <2>1. Min({Len(found), K}) = Len(found)
      BY <1>1, <1>4, OfTwo
    <2>2. ids = found
      BY <1>4, <1>5, <1>6, <2>1, SubSeqFull
    <2>3. \A i \in DOMAIN found : found[i] \in ToSet(packs)
      BY <1>4, ElementOfSeq
    <2>4. QED BY <1>2, <1>4, <1>6, <2>2, <2>3 DEF ToSet
  <1>7. CASE ~Contains(found, control)
    <2> DEFINE n == Min({Len(all), K})
    <2>1. <<control>> \in Seq(ToSet(packs)) /\ Len(<<control>>) = 1 /\ <<control>>[1] = control
      OBVIOUS
    <2>2. /\ all \in Seq(ToSet(packs)) /\ Len(all) = 1 + Len(found)
          /\ \A i \in 1..1 + Len(found) :
               all[i] = IF i <= 1 THEN <<control>>[i] ELSE found[i - 1]
      BY <1>4, <1>7, <2>1, ConcatProperties
    <2>3. all[1] = control /\ \A i \in 2..1 + Len(found) : all[i] = found[i - 1]
      BY <1>4, <2>1, <2>2
    <2> HIDE DEF all
    <2>4. n \in Nat /\ n >= 1 /\ n <= K /\ n <= 1 + Len(found)
      <3>1. Len(all) \in Nat /\ Len(all) >= 1
        BY <1>4, <2>2
      <3>2. n \in Nat /\ n <= Len(all) /\ n <= K /\ n \in {Len(all), K}
        BY <1>1, <3>1, OfTwo
      <3> QED BY <1>1, <2>2, <3>1, <3>2
    <2>5. \A i \in 1..n : all[i] \in ToSet(packs)
      BY <1>4, <2>2, <2>4, ElementOfSeq
    <2> HIDE DEF n
    <2>6. ids = SubSeq(all, 1, n)
      BY <1>5 DEF n
    <2>7. /\ ids \in Seq(ToSet(packs)) /\ Len(ids) = n
          /\ \A i \in 1..n : ids[i] = all[i]
      BY <2>4, <2>5, <2>6, SubSeqProperties
    <2>8. DOMAIN ids = 1..n
      BY <2>7, LenProperties
    <2>9. Contains(ids, control)
      BY <2>3, <2>4, <2>7 DEF Contains
    <2>10. ToSet(ids) \subseteq ToSet(packs)
      <3>1. \A i \in DOMAIN ids : ids[i] \in ToSet(packs)
        BY <2>5, <2>7, <2>8
      <3> QED BY <3>1 DEF ToSet
    <2>11. IsInjective(ids)
      <3>1. ASSUME NEW i \in 1..n, NEW j \in 1..n, all[i] = all[j]
            PROVE  i = j
        <4>1. \A k \in 2..n : k - 1 \in DOMAIN found /\ all[k] = found[k - 1] /\ found[k - 1] # control
          BY <1>4, <1>7, <2>3, <2>4 DEF Contains
        <4>2. i = 1 \/ i \in 2..n
          BY <2>4
        <4>3. j = 1 \/ j \in 2..n
          BY <2>4
        <4>4. CASE i \in 2..n /\ j \in 2..n
          <5>1. i - 1 = j - 1
            BY <1>2, <3>1, <4>1, <4>4 DEF IsInjective
          <5> QED BY <2>4, <4>4, <5>1
        <4>5. QED BY <2>3, <3>1, <4>1, <4>2, <4>3, <4>4
      <3>2. QED BY <2>7, <2>8, <3>1 DEF IsInjective
    <2>12. QED BY <2>4, <2>7, <2>9, <2>10, <2>11
  <1>8. QED BY <1>6, <1>7

\* A limit of 0 leaves a control no evidence.
LEMMA NothingOfNone ==
  ASSUME NEW packs \in Corpora, NEW control \in ToSet(packs), NEW docs \in Seq(Controls),
         NEW iter \in Orders
  PROVE  evidence(control, packs, docs, iter, 0) = <<>>
  <1> DEFINE kept == Candidates(control, packs, docs, 0, {})
             found == retrieve(control, packs, docs, iter, 0, {})
             all == IF Contains(found, control) THEN found ELSE <<control>> \o found
  <1>1. control \in Queries /\ control \in Controls /\ kept \subseteq Controls
    <2>1. packs \in Seq(Controls) /\ Controls \subseteq Queries
      BY RetrieverAssumption
    <2>2. ToSet(packs) \subseteq Controls
      BY <2>1, LenProperties, ElementOfSeq DEF ToSet
    <2>3. \A c \in kept : c \in ToSet(packs)
      BY KeptIsOfCorpus DEF Candidates
    <2>4. QED BY <2>1, <2>2, <2>3
  <1>2. found \in Seq(kept)
    <2>1. FirstOf(found, kept, ByScore(Sides(control, packs, docs, 0), iter), Max({1, 0}))
      BY <1>1, Retrieved
    <2> HIDE DEF kept, found
    <2>2. QED BY <2>1 DEF FirstOf
  <1> HIDE DEF kept, found
  <1>3. all \in Seq(Controls) /\ Len(all) \in Nat
    BY <1>1, <1>2, SeqMonotonic, ConcatProperties, LenProperties
  <1> HIDE DEF all
  <1>4. Min({Len(all), 0}) = 0
    BY <1>3, OfTwo
  <1>5. evidence(control, packs, docs, iter, 0) = SubSeq(all, 1, 0)
    BY <1>4 DEF evidence, all, found
  <1>6. SubSeq(all, 1, 0) = <<>>
    BY <1>3
  <1>7. QED BY <1>5, <1>6

\* A place in the order by score does not say more than the iteration does: of
\* two iterations, neither has a better score in the same place.
LEMMA PlaceTellsScore ==
  ASSUME NEW sides, Scoring(sides.lexical), Scoring(sides.dense),
         Scored(sides) \subseteq Controls,
         NEW S \in SUBSET Scored(sides), IsFiniteSet(S),
         NEW iter \in Orders, NEW other \in Orders, NEW c \in S, NEW d \in S,
         Rank(S, ByScore(sides, iter), c) = Rank(S, ByScore(sides, other), d)
  PROVE  Fused(sides, c) <= Fused(sides, d)
  <1> DEFINE F(x) == Fused(sides, x)
             ahead == {x \in S : <<x, c>> \in ByScore(sides, iter)}
             before == {x \in S : <<x, d>> \in ByScore(sides, other)}
             better == {x \in S : F(x) >= F(c)}
  <1>1. \A x \in S : F(x) \in Nat /\ x \in Scored(sides)
    BY FusedTyped
  <1>2. SUFFICES ASSUME F(c) > F(d) PROVE FALSE
    BY <1>1
  <1>3. StrictlyOrders(ByScore(sides, iter), S)
    BY ScoresOrder
  <1>4. c \notin ahead
    BY <1>3 DEF StrictlyOrders
  <1>5. ahead \union {c} \subseteq better
    <2>1. \A x \in ahead : F(x) > F(c) \/ F(x) = F(c)
      BY DEF ByScore, Precedes
    <2> HIDE DEF F
    <2>2. QED BY <1>1, <2>1
  <1>6. better \subseteq before
    <2>1. \A x \in S : F(x) > F(d) => <<x, d>> \in ByScore(sides, other)
      BY <1>1 DEF ByScore, Precedes
    <2> HIDE DEF F
    <2>2. \A x \in better : F(x) > F(d)
      BY <1>1, <1>2
    <2>3. QED BY <2>1, <2>2
  <1>7. Cardinality(ahead) = Cardinality(before)
    BY DEF Rank
  <1> HIDE DEF ahead, before, better
  <1>8. ahead \subseteq S /\ before \subseteq S
    BY DEF ahead, before
  <1>9. IsFiniteSet(ahead) /\ IsFiniteSet(before) /\ IsFiniteSet(ahead \union {c})
    BY <1>8, FS_Subset, FS_AddElement
  <1>10. Cardinality(ahead \union {c}) = Cardinality(ahead) + 1
    BY <1>4, <1>9, FS_AddElement
  <1>11. Cardinality(ahead \union {c}) <= Cardinality(before)
    BY <1>5, <1>6, <1>9, FS_Subset
  <1>12. Cardinality(ahead) \in Nat
    BY <1>9, FS_CardinalityType
  <1>13. QED BY <1>7, <1>10, <1>11, <1>12

\* Two processes that search the same documents write the same scores.
LEMMA SearchesScoreAlike ==
  ASSUME NEW query \in Queries, NEW packs \in Corpora, NEW docs \in Seq(Controls),
         NEW top_k \in Nat, NEW frameworks, NEW iter \in Orders, NEW other \in Orders,
         NEW sides, sides = Sides(query, packs, docs, top_k),
         NEW found, found = retrieve(query, packs, docs, iter, top_k, frameworks),
         NEW again, again = retrieve(query, packs, docs, other, top_k, frameworks)
  PROVE  [i \in DOMAIN found |-> Fused(sides, found[i])]
           = [i \in DOMAIN again |-> Fused(sides, again[i])]
  <1> DEFINE S == Candidates(query, packs, docs, top_k, frameworks)
             n == Min({Cardinality(S), Max({1, top_k})})
  <1>1. /\ FirstOf(found, S, ByScore(sides, iter), Max({1, top_k}))
        /\ FirstOf(again, S, ByScore(sides, other), Max({1, top_k}))
    BY Retrieved
  <1>2. /\ Scoring(sides.lexical) /\ Scoring(sides.dense)
        /\ Scored(sides) \subseteq Controls
    BY SidesTyped
  <1>3. S \subseteq Scored(sides)
    BY DEF Candidates
  <1> HIDE DEF S
  <1>4. Len(found) = Len(again) /\ DOMAIN found = 1..Len(found) /\ DOMAIN again = DOMAIN found
    BY <1>1 DEF FirstOf
  <1>5. ASSUME NEW k \in 1..Len(found)
        PROVE  Fused(sides, found[k]) = Fused(sides, again[k])
    <2>1. /\ found[k] \in S /\ again[k] \in S
          /\ Rank(S, ByScore(sides, iter), found[k]) = Rank(S, ByScore(sides, other), again[k])
      BY <1>1, <1>4 DEF FirstOf
    <2>2. IsFiniteSet(S)
      BY <1>1 DEF FirstOf
    <2>3. /\ Fused(sides, found[k]) <= Fused(sides, again[k])
          /\ Fused(sides, again[k]) <= Fused(sides, found[k])
      BY <1>2, <1>3, <2>1, <2>2, PlaceTellsScore
    <2>4. Fused(sides, found[k]) \in Nat /\ Fused(sides, again[k]) \in Nat
      BY <1>2, FusedTyped
    <2>5. QED BY <2>3, <2>4
  <1>6. QED BY <1>4, <1>5

\* What is nearer than one of the nearest documents is one of them.
LEMMA NearestClosed ==
  ASSUME NEW query \in Queries, NEW docs \in Seq(Controls), NEW n \in Nat,
         NEW d \in DOMAIN Nearest(query, docs, n), NEW c \in ToSet(docs),
         cosine[query][c] > cosine[query][d]
  PROVE  c \in DOMAIN Nearest(query, docs, n)
  <1> DEFINE nearer(i) == {j \in DOMAIN docs : Nearer(query, docs, j, i)}
             first == {i \in DOMAIN docs : Cardinality(nearer(i)) < n}
  <1>1. DOMAIN Nearest(query, docs, n) = {docs[i] : i \in first}
    BY DEF Nearest
  <1>2. PICK i \in DOMAIN docs : d = docs[i] /\ Cardinality(nearer(i)) < n
    BY <1>1
  <1>3. PICK k \in DOMAIN docs : c = docs[k]
    BY DEF ToSet
  <1>4. DOMAIN docs = 1..Len(docs) /\ Len(docs) \in Nat /\ IsFiniteSet(DOMAIN docs)
    <2>1. DOMAIN docs = 1..Len(docs) /\ Len(docs) \in Nat
      BY LenProperties
    <2>2. QED BY <2>1, UpTo
  <1>5. \A j \in DOMAIN docs : cosine[query][docs[j]] \in Nat
    BY <1>4, ElementOfSeq, RetrieverAssumption
  <1>6. nearer(k) \subseteq nearer(i)
    <2>1. \A j \in DOMAIN docs : Nearer(query, docs, j, k) => Nearer(query, docs, j, i)
      BY <1>2, <1>3, <1>5 DEF Nearer
    <2>2. QED BY <2>1
  <1>7. nearer(i) \subseteq DOMAIN docs /\ nearer(k) \subseteq DOMAIN docs
    OBVIOUS
  <1> HIDE DEF nearer
  <1>8. /\ Cardinality(nearer(k)) <= Cardinality(nearer(i))
        /\ Cardinality(nearer(k)) \in Nat /\ Cardinality(nearer(i)) \in Nat
    BY <1>4, <1>6, <1>7, FS_Subset, FS_CardinalityType
  <1>9. k \in first
    BY <1>2, <1>8
  <1>10. QED BY <1>1, <1>3, <1>9

\* What scores more on both sides has the higher score, whatever the sides leave
\* out.
LEMMA BeatsScoresMore ==
  ASSUME NEW query \in Queries, NEW packs \in Corpora, NEW docs \in Seq(Controls),
         ToSet(docs) = ToSet(packs), NEW top_k \in Nat, alpha \in 1..9,
         NEW sides, sides = Sides(query, packs, docs, top_k),
         NEW c \in ToSet(packs), NEW d \in Scored(sides),
         bm25[packs][query][c] > bm25[packs][query][d],
         cosine[query][c] > cosine[query][d]
  PROVE  c \in Scored(sides) /\ Fused(sides, c) > Fused(sides, d)
  <1> DEFINE n == Max({top_k * DENSE_FACTOR, DENSE_MIN})
             lexical == sides.lexical
             dense == sides.dense
  <1>1. /\ Scoring(lexical) /\ Scoring(dense) /\ Scored(sides) \subseteq Controls
    BY SidesTyped
  <1>2. lexical = Lexical(query, packs) /\ dense = Nearest(query, docs, n)
    BY DEF Sides
  <1>3. n \in Nat
    BY WidthTyped
  <1> HIDE DEF n
  <1>4. c \in Controls /\ d \in Controls
    <2>1. packs \in Seq(Controls)
      BY RetrieverAssumption
    <2>2. \A i \in DOMAIN packs : packs[i] \in Controls
      BY <2>1, LenProperties, ElementOfSeq
    <2>3. QED BY <1>1, <2>2 DEF ToSet
  <1>5. /\ bm25[packs][query][c] \in Nat /\ bm25[packs][query][d] \in Nat
        /\ cosine[query][c] \in Nat /\ cosine[query][d] \in Nat
    BY <1>4, RetrieverAssumption
  <1>6. /\ DOMAIN lexical = {x \in ToSet(packs) : bm25[packs][query][x] > 0}
        /\ \A x \in DOMAIN lexical : lexical[x] = bm25[packs][query][x]
    BY <1>2 DEF Lexical
  <1>7. \A x \in DOMAIN dense : dense[x] = cosine[query][x]
    BY <1>2 DEF Nearest
  <1>8. c \in DOMAIN lexical
    BY <1>5, <1>6
  <1>9. d \in DOMAIN dense => c \in DOMAIN dense
    BY <1>2, <1>3, NearestClosed
  <1>10. d \in DOMAIN lexical \/ d \in DOMAIN dense
    BY DEF Scored
  <1> HIDE DEF lexical, dense
  <1>11. /\ \A x : Share(lexical, x) \in Nat /\ Share(dense, x) \in Nat
         /\ \A x \in DOMAIN lexical : x # c /\ lexical[c] > lexical[x] => Share(lexical, c) > Share(lexical, x)
         /\ \A x, y \in DOMAIN dense : dense[x] > dense[y] => Share(dense, x) > Share(dense, y)
    BY <1>1, <1>8, SharesTyped
  <1>12. d \in DOMAIN lexical => Share(lexical, c) > Share(lexical, d)
    BY <1>5, <1>6, <1>8, <1>11
  <1>13. d \in DOMAIN dense => Share(dense, c) > Share(dense, d)
    BY <1>5, <1>7, <1>9, <1>11
  <1>14. /\ d \notin DOMAIN lexical => Share(lexical, d) = 0
         /\ d \notin DOMAIN dense => Share(dense, d) = 0
    BY DEF Share
  <1>15. /\ Share(lexical, c) >= Share(lexical, d) /\ Share(dense, c) >= Share(dense, d)
         /\ Share(lexical, c) > Share(lexical, d) \/ Share(dense, c) > Share(dense, d)
    BY <1>10, <1>11, <1>12, <1>13, <1>14
  <1>16. Fused(sides, c) > Fused(sides, d)
    BY <1>1, <1>15, FusedGrows DEF lexical, dense
  <1>17. QED BY <1>8, <1>16 DEF Scored, lexical

\* What SearchFair says of one result.
Fair(query, packs, top_k, frameworks, found) ==
  LET may == {c \in ToSet(packs) : Kept(c, packs, frameworks)}
  IN  /\ ToSet(found) \subseteq may /\ Len(found) <= Max({1, top_k})
      /\ alpha \in 1..9 =>
           \A i \in DOMAIN found : \A c \in may :
             /\ bm25[packs][query][c] > bm25[packs][query][found[i]]
             /\ cosine[query][c] > cosine[query][found[i]]
             => \E j \in 1..i : found[j] = c

\* A search is fair to every control it may return.
LEMMA SearchIsFair ==
  ASSUME NEW query \in Queries, NEW packs \in Corpora, NEW docs \in Seq(Controls),
         ToSet(docs) = ToSet(packs), NEW top_k \in Nat, NEW frameworks, NEW iter \in Orders,
         NEW found, found = retrieve(query, packs, docs, iter, top_k, frameworks)
  PROVE  Fair(query, packs, top_k, frameworks, found)
  <1> DEFINE may == {c \in ToSet(packs) : Kept(c, packs, frameworks)}
             sides == Sides(query, packs, docs, top_k)
             S == Candidates(query, packs, docs, top_k, frameworks)
             R == ByScore(sides, iter)
  <1>1. FirstOf(found, S, R, Max({1, top_k}))
    BY Retrieved
  <1>2. S \subseteq may /\ S \subseteq Scored(sides)
    BY KeptIsOfCorpus DEF Candidates
  <1>3. \A c \in may : c \in Scored(sides) => c \in S
    BY DEF Candidates
  <1> HIDE DEF S
  <1>4. /\ ToSet(found) \subseteq S /\ Len(found) <= Max({1, top_k})
        /\ DOMAIN found = 1..Len(found) /\ Len(found) \in Nat
        /\ IsFiniteSet(S) /\ StrictlyOrders(R, S)
    BY <1>1 DEF FirstOf, ToSet
  <1>5. ASSUME alpha \in 1..9, NEW i \in DOMAIN found, NEW c \in may,
               bm25[packs][query][c] > bm25[packs][query][found[i]],
               cosine[query][c] > cosine[query][found[i]]
        PROVE  \E j \in 1..i : found[j] = c
    <2>1. i \in 1..Len(found) /\ found[i] \in S /\ Rank(S, R, found[i]) = i - 1
      BY <1>1, <1>4 DEF FirstOf
    <2>2. c \in Scored(sides) /\ Fused(sides, c) > Fused(sides, found[i])
      BY <1>2, <1>5, <2>1, BeatsScoresMore
    <2>3. c \in S /\ <<c, found[i]>> \in R
      BY <1>2, <1>3, <2>1, <2>2 DEF ByScore, Precedes
    <2> HIDE DEF R
    <2>4. Rank(S, R, c) < Rank(S, R, found[i]) /\ Rank(S, R, c) \in Nat
      BY <1>4, <2>1, <2>3, RankGrows, RankBound
    <2>5. Rank(S, R, c) + 1 \in 1..i /\ Rank(S, R, c) + 1 <= Len(found)
      BY <1>4, <2>1, <2>4
    <2>6. found[Rank(S, R, c) + 1] = c
      BY <1>1, <2>3, <2>5 DEF FirstOf
    <2>7. QED BY <2>5, <2>6
  <1> HIDE DEF R, sides
  <1>6. ToSet(found) \subseteq may
    BY <1>2, <1>4
  <1>7. QED BY <1>4, <1>5, <1>6 DEF Fair

-----------------------------------------------------------------------------
(***************************************************************************)
(* Upsert.                                                                 *)
(***************************************************************************)

\* A store that is brought up to date has the corpus and what it had, each
\* document once if it was so before.
LEMMA Upserted ==
  ASSUME NEW docs \in Seq(Controls), NEW packs \in Corpora
  PROVE  /\ Upsert(docs, packs) \in Seq(Controls)
         /\ ToSet(Upsert(docs, packs)) = ToSet(docs) \union ToSet(packs)
         /\ IsInjective(docs) => IsInjective(Upsert(docs, packs))
  <1> DEFINE T == {i \in DOMAIN packs : ~Contains(docs, packs[i])}
             new == Picked(packs, T)
             at(i) == Rank(T, Ascending(T), i) + 1
             n == Cardinality(T)
             all == Upsert(docs, packs)
             l == Len(docs)
  <1>1. packs \in Seq(Controls) /\ IsInjective(packs)
    BY RetrieverAssumption
  <1>2. DOMAIN packs = 1..Len(packs) /\ DOMAIN docs = 1..l /\ l \in Nat
    BY <1>1, LenProperties
  <1>3. T \in SUBSET (1..Len(packs))
    BY <1>2
  <1>4. /\ new \in Seq(Controls) /\ Len(new) = n /\ n \in Nat
    <2> HIDE DEF T
    <2>1. QED BY <1>1, <1>3, PickedElements
  <1>5. \A i \in T : at(i) \in 1..n /\ new[at(i)] = packs[i]
    <2> HIDE DEF T
    <2>1. QED BY <1>1, <1>3, PickedElements
  <1>6. \A k \in 1..n : \E i \in T : at(i) = k /\ new[k] = packs[i]
    <2> HIDE DEF T
    <2>1. \A k \in 1..n : \E i \in T : Rank(T, Ascending(T), i) = k - 1 /\ new[k] = packs[i]
      BY <1>1, <1>3, PickedElements
    <2>2. \A k \in 1..n : k \in Int /\ (k - 1) + 1 = k
      BY <1>4
    <2>3. QED BY <2>1, <2>2
  <1> HIDE DEF new, at, n
  <1>7. all = docs \o new
    BY DEF Upsert, new
  <1>8. /\ all \in Seq(Controls) /\ Len(all) = l + n
        /\ \A k \in 1..l + n : all[k] = IF k <= l THEN docs[k] ELSE new[k - l]
    <2>1. /\ docs \o new \in Seq(Controls) /\ Len(docs \o new) = Len(docs) + Len(new)
          /\ \A k \in 1..Len(docs) + Len(new) :
               (docs \o new)[k] = IF k <= Len(docs) THEN docs[k] ELSE new[k - Len(docs)]
      BY <1>4, ConcatProperties
    <2> HIDE DEF all
    <2>2. QED BY <1>4, <1>7, <2>1
  <1>9. DOMAIN all = 1..l + n
    BY <1>8, LenProperties
  <1>10. /\ \A k \in 1..l : k \in 1..l + n /\ all[k] = docs[k]
         /\ \A k \in 1..n : l + k \in 1..l + n /\ all[l + k] = new[k]
         /\ \A k \in 1..l + n : \/ k \in 1..l /\ all[k] = docs[k]
                                \/ k - l \in 1..n /\ all[k] = new[k - l]
    <2>1. \A k \in 1..n : l + k \in 1..l + n /\ ~(l + k <= l) /\ (l + k) - l = k
      BY <1>2, <1>4
    <2>2. \A k \in 1..l + n : (k <= l => k \in 1..l) /\ (~(k <= l) => k - l \in 1..n)
      BY <1>2, <1>4
    <2>3. \A k \in 1..l : k \in 1..l + n /\ k <= l
      BY <1>2, <1>4
    <2>4. QED BY <1>8, <2>1, <2>2, <2>3
  <1> HIDE DEF all
  <1>11. \A c : Contains(docs, c) <=> c \in ToSet(docs)
    BY <1>2 DEF Contains, ToSet
  <1>12. ToSet(all) \subseteq ToSet(docs) \union ToSet(packs)
    <2>1. SUFFICES ASSUME NEW k \in 1..l + n
                   PROVE  all[k] \in ToSet(docs) \union ToSet(packs)
      BY <1>9 DEF ToSet
    <2>2. CASE k \in 1..l /\ all[k] = docs[k]
      BY <1>2, <2>2 DEF ToSet
    <2>3. CASE k - l \in 1..n /\ all[k] = new[k - l]
      BY <1>6, <2>3 DEF ToSet, T
    <2>4. QED BY <1>10, <2>2, <2>3
  <1>13. ToSet(docs) \subseteq ToSet(all)
    BY <1>2, <1>9, <1>10 DEF ToSet
  <1>14. ToSet(packs) \subseteq ToSet(all)
    <2>1. SUFFICES ASSUME NEW i \in DOMAIN packs PROVE packs[i] \in ToSet(all)
      BY DEF ToSet
    <2>2. CASE i \in T
      <3>1. all[l + at(i)] = packs[i] /\ l + at(i) \in DOMAIN all
        BY <1>5, <1>9, <1>10, <2>2
      <3>2. QED BY <3>1 DEF ToSet
    <2>3. CASE i \notin T
      BY <1>11, <1>13, <2>3 DEF T
    <2>4. QED BY <2>2, <2>3
  <1>15. ASSUME IsInjective(docs), NEW j \in 1..l + n, NEW k \in 1..l + n, all[j] = all[k]
         PROVE  j = k
    <2>1. \A x \in 1..l : docs[x] \in ToSet(docs)
      BY <1>2 DEF ToSet
    <2>2. \A x \in 1..n : new[x] \notin ToSet(docs)
      BY <1>6, <1>11 DEF T
    <2>3. \A x, y \in 1..n : new[x] = new[y] => x = y
      <3>1. SUFFICES ASSUME NEW x \in 1..n, NEW y \in 1..n, new[x] = new[y] PROVE x = y
        OBVIOUS
      <3>2. PICK a \in T : at(a) = x /\ new[x] = packs[a]
        BY <1>6
      <3>3. PICK b \in T : at(b) = y /\ new[y] = packs[b]
        BY <1>6
      <3>4. a = b
        BY <1>1, <3>1, <3>2, <3>3 DEF IsInjective, T
      <3>5. QED BY <3>2, <3>3, <3>4
    <2>4. CASE j \in 1..l /\ all[j] = docs[j]
      <3>1. k \in 1..l /\ all[k] = docs[k]
        BY <1>10, <1>15, <2>1, <2>2, <2>4
      <3>2. QED BY <1>2, <1>15, <2>4, <3>1 DEF IsInjective
    <2>5. CASE j - l \in 1..n /\ all[j] = new[j - l]
      <3>1. k - l \in 1..n /\ all[k] = new[k - l]
        BY <1>10, <1>15, <2>1, <2>2, <2>5
      <3>2. j - l = k - l
        BY <1>15, <2>3, <2>5, <3>1
      <3>3. QED BY <1>2, <3>2
    <2>6. QED BY <1>10, <2>4, <2>5
  <1>16. IsInjective(docs) => IsInjective(all)
    BY <1>9, <1>15 DEF IsInjective
  <1>17. QED BY <1>8, <1>12, <1>13, <1>14, <1>16 DEF all

-----------------------------------------------------------------------------
(***************************************************************************)
(* The inductive invariant.                                                *)
(***************************************************************************)

\* What a line has that the loop reads of it.
Understood(line) ==
  /\ "form" \in DOMAIN line
  /\ line.form = "object" =>
       /\ {"id", "method"} \subseteq DOMAIN line
       /\ line.id \in ToSet(Ids) \union {NoId}
       /\ line.method = "tools/call" =>
            /\ "tool" \in DOMAIN line /\ line.tool \in DOMAIN Arguments
            /\ Arguments[line.tool] \subseteq DOMAIN line
            /\ line.tool = "search_controls" =>
                 line.query \in Queries \union {""} /\ line.top_k \in Nat

\* The lines a client may write, with the ids it gives them.
Received ==
  Lines \union {[line EXCEPT !.id = id] : line \in Lines, id \in ToSet(Ids) \union {NoId}}

\* The result of a search is one of a process over its corpus alone.
SearchSound(s) ==
  s.line.tool = "search_controls" =>
    /\ s.line.query \in Queries /\ s.line.top_k \in Nat
    /\ \E iter \in Orders : \E docs \in {Upsert(<< >>, s.corpus)} :
         /\ s.result.found = retrieve(s.line.query, s.corpus, docs, iter, s.line.top_k, s.line.frameworks)
         /\ s.result.scores = [i \in DOMAIN s.result.found |->
              Fused(Sides(s.line.query, s.corpus, docs, s.line.top_k), s.result.found[i])]

\* The evidence of a run is of its corpus, over whatever the store has.
AssessSound(s) ==
  s.line.tool = "assess_platform" =>
    \A c \in DOMAIN s.result.evidence :
      /\ c \in ToSet(s.corpus)
      /\ \E docs \in Seq(Controls) : \E iter \in Orders :
           s.result.evidence[c] = evidence(c, s.corpus, docs, iter, RETRIEVAL_TOP_K)

ClassifySound(s) ==
  s.line.tool = "classify_risk" =>
    /\ s.result.tier = assess_risk(s.line.platform)
    /\ s.result.drivers = drivers(s.line.platform)

Sound(s) == s.corpus \in Corpora /\ SearchSound(s) /\ AssessSound(s) /\ ClassifySound(s)

Replies == [id : ToSet(Ids) \union {NoId}, kind : {"result", "tool_error", "error"}]

\* A run id costs a line, so that there are no more than lines were sent.
CountsInv ==
  /\ sent \in 0..MaxLines /\ starts \in 0..MaxStarts /\ runs \in Nat
  /\ read \in 0..Len(stdin) /\ Len(stdin) <= sent
  /\ runs + (Len(stdin) - read) <= sent

StdinInv ==
  /\ stdin \in Seq(Received) /\ \A i \in 1..Len(stdin) : Understood(stdin[i])
  /\ stdout \in Seq(Replies)

StoresInv ==
  /\ alive \in BOOLEAN /\ corpus \in Corpora /\ backend \in Backends /\ order \in Orders
  /\ index = NotBuilt \/ index = Upsert(<< >>, corpus)
  /\ store \in Seq(Controls) /\ IsInjective(store)

SaidInv == \A s \in said : Sound(s)

ServerInv == CountsInv /\ StdinInv /\ StoresInv /\ SaidInv /\ AnswersPaired

\* What a turn of the loop may do to all but the answers.
Effects ==
  /\ runs' = runs \/ runs' = runs + 1
  /\ store' = store \/ store' = Upsert(store, corpus)
  /\ index' = index \/ index' = Upsert(<< >>, corpus)
  /\ \A s \in said' : s \in said \/ Sound(s)

Replied(id) == \E kind \in {"result", "tool_error", "error"} : Write(id, kind)

\* The empty store.
LEMMA NoDocs ==
  /\ << >> \in Seq(Controls) /\ IsInjective(<< >>) /\ ToSet(<< >>) = {}
  <1>1. DOMAIN << >> = {}
    OBVIOUS
  <1>2. QED BY <1>1 DEF IsInjective, ToSet

\* Documents made anew are the corpus's.
LEMMA AloneIsCorpus ==
  ASSUME NEW packs \in Corpora
  PROVE  /\ Upsert(<< >>, packs) \in Seq(Controls)
         /\ ToSet(Upsert(<< >>, packs)) = ToSet(packs)
  BY NoDocs, Upserted

\* A result that is said is of this corpus and for this line.
LEMMA SaidNew ==
  ASSUME NEW line, Understood(line), line.form = "object", line.method = "tools/call",
         NEW result, Say(line, result),
         \A s : s = [corpus |-> corpus, line |-> [line EXCEPT !.id = NoId], result |-> result] => Sound(s)
  PROVE  Replied(line.id) /\ \A s \in said' : s \in said \/ Sound(s)
  BY DEF Say, Replied

\* A line without its id is the same otherwise.
LEMMA WithoutId ==
  ASSUME NEW line, Understood(line), line.form = "object", line.method = "tools/call",
         NEW bare, bare = [line EXCEPT !.id = NoId]
  PROVE  /\ bare.tool = line.tool
         /\ line.tool = "search_controls" =>
              bare.query = line.query /\ bare.top_k = line.top_k /\ bare.frameworks = line.frameworks
         /\ line.tool = "assess_platform" => bare.frameworks = line.frameworks
         /\ line.tool = "classify_risk" => bare.platform = line.platform
  <1>1. \A f \in DOMAIN line : f # "id" => bare[f] = line[f]
    OBVIOUS
  <1>2. "tool" \in DOMAIN line /\ Arguments[line.tool] \subseteq DOMAIN line
    BY DEF Understood
  <1>3. QED BY <1>1, <1>2 DEF Arguments

-----------------------------------------------------------------------------
(***************************************************************************)
(* The tools.                                                              *)
(***************************************************************************)

\* Nothing but an answer.
LEMMA FailEffects ==
  ASSUME NEW line, Fail(line)
  PROVE  Effects /\ Replied(line.id)
  BY DEF Fail, Nothing, Effects, Replied

LEMMA SearchEffects ==
  ASSUME StoresInv, NEW line, Understood(line), line.form = "object",
         line.method = "tools/call", line.tool = "search_controls", search_controls(line)
  PROVE  Effects /\ Replied(line.id)
  <1>1. CASE line.query = ""
    BY <1>1, FailEffects DEF search_controls
  <1>2. CASE line.query # ""
    <2> DEFINE docs == Upsert(<< >>, corpus)
               found == retrieve(line.query, corpus, docs, order, line.top_k, line.frameworks)
               sides == Sides(line.query, corpus, docs, line.top_k)
               result == [found |-> found, scores |-> [i \in DOMAIN found |-> Fused(sides, found[i])]]
    <2>1. SearchDocs = docs
      BY DEF SearchDocs, StoresInv
    <2>2. /\ index' = docs /\ UNCHANGED <<store, runs>>
          /\ Say(line, result)
      BY <1>2, <2>1 DEF search_controls
    <2>3. /\ line.query \in Queries /\ line.top_k \in Nat
          /\ corpus \in Corpora /\ order \in Orders
      BY <1>2 DEF Understood, StoresInv
    <2>4. ASSUME NEW s, s = [corpus |-> corpus, line |-> [line EXCEPT !.id = NoId], result |-> result]
          PROVE  Sound(s)
      <3>1. /\ s.corpus = corpus /\ s.line.tool = line.tool /\ s.line.query = line.query
            /\ s.line.top_k = line.top_k /\ s.line.frameworks = line.frameworks
            /\ s.result.found = found
            /\ s.result.scores = [i \in DOMAIN found |-> Fused(sides, found[i])]
        <4> HIDE DEF found, sides
        <4>1. QED BY <2>4, WithoutId
      <3> HIDE DEF found
      <3>2. SearchSound(s)
        BY <2>3, <3>1 DEF SearchSound, found
      <3>3. AssessSound(s) /\ ClassifySound(s)
        BY <3>1 DEF AssessSound, ClassifySound
      <3>4. QED BY <2>3, <3>1, <3>2, <3>3 DEF Sound
    <2> HIDE DEF result
    <2>5. Replied(line.id) /\ \A s \in said' : s \in said \/ Sound(s)
      BY <2>2, <2>4, SaidNew
    <2>6. QED BY <2>2, <2>5 DEF Effects
  <1>3. QED BY <1>1, <1>2

LEMMA ClassifyEffects ==
  ASSUME StoresInv, NEW line, Understood(line), line.form = "object",
         line.method = "tools/call", line.tool = "classify_risk", classify_risk(line)
  PROVE  Effects /\ Replied(line.id)
  <1>1. CASE ~line.valid
    BY <1>1, FailEffects DEF classify_risk
  <1>2. CASE line.valid
    <2> DEFINE result == [tier |-> assess_risk(line.platform), drivers |-> drivers(line.platform)]
    <2>1. Say(line, result) /\ UNCHANGED <<index, store, runs>>
      BY <1>2 DEF classify_risk
    <2>2. ASSUME NEW s, s = [corpus |-> corpus, line |-> [line EXCEPT !.id = NoId], result |-> result]
          PROVE  Sound(s)
      <3>1. /\ s.corpus = corpus /\ s.line.tool = line.tool /\ s.line.platform = line.platform
            /\ s.result.tier = assess_risk(line.platform)
            /\ s.result.drivers = drivers(line.platform)
        BY <2>2, WithoutId
      <3>2. SearchSound(s) /\ AssessSound(s) /\ ClassifySound(s)
        BY <3>1 DEF SearchSound, AssessSound, ClassifySound
      <3>3. QED BY <3>1, <3>2 DEF Sound, StoresInv
    <2> HIDE DEF result
    <2>3. Replied(line.id) /\ \A s \in said' : s \in said \/ Sound(s)
      BY <2>1, <2>2, SaidNew
    <2>4. QED BY <2>1, <2>3 DEF Effects
  <1>3. QED BY <1>1, <1>2

\* The tools whose result is a token.
LEMMA OtherEffects ==
  ASSUME StoresInv, NEW line, Understood(line), line.form = "object", line.method = "tools/call",
         line.tool \notin {"search_controls", "assess_platform", "classify_risk"},
         NEW result, Say(line, result), UNCHANGED <<index, store, runs>>
  PROVE  Effects /\ Replied(line.id)
  <1>1. ASSUME NEW s, s = [corpus |-> corpus, line |-> [line EXCEPT !.id = NoId], result |-> result]
        PROVE  Sound(s)
    <2>1. s.corpus = corpus /\ s.line.tool = line.tool
      BY <1>1, WithoutId
    <2>2. QED BY <2>1 DEF Sound, SearchSound, AssessSound, ClassifySound, StoresInv
  <1>2. Replied(line.id) /\ \A s \in said' : s \in said \/ Sound(s)
    BY <1>1, SaidNew
  <1>3. QED BY <1>2 DEF Effects

LEMMA AssessEffects ==
  ASSUME StoresInv, NEW line, Understood(line), line.form = "object",
         line.method = "tools/call", line.tool = "assess_platform", assess_platform(line)
  PROVE  Effects /\ Replied(line.id)
  <1> DEFINE before == IF backend = "chroma" THEN store ELSE << >>
             docs == Upsert(before, corpus)
             picked == [c \in Scope(line.frameworks) |->
                          evidence(c, corpus, docs, order, RETRIEVAL_TOP_K)]
             result == [evidence |-> picked]
  <1>1. CASE ~line.valid
    BY <1>1, FailEffects DEF assess_platform
  <1>2. CASE line.valid
    <2>1. /\ runs' = runs + 1 /\ index' = index
          /\ \/ Write(line.id, "tool_error") /\ UNCHANGED <<store, said>>
             \/ /\ store' = IF backend = "chroma" THEN docs ELSE store
                /\ \/ Say(line, result)
                   \/ Write(line.id, "tool_error") /\ UNCHANGED said
      BY <1>2 DEF assess_platform
    <2>2. store' = store \/ store' = Upsert(store, corpus)
      BY <2>1
    <2>3. docs \in Seq(Controls) /\ corpus \in Corpora /\ order \in Orders
      <3>1. before \in Seq(Controls) /\ corpus \in Corpora /\ order \in Orders
        BY NoDocs DEF StoresInv
      <3> HIDE DEF before
      <3>2. QED BY <3>1, Upserted
    <2> HIDE DEF docs
    <2>4. ASSUME NEW s, s = [corpus |-> corpus, line |-> [line EXCEPT !.id = NoId], result |-> result]
          PROVE  Sound(s)
      <3>1. s.corpus = corpus /\ s.line.tool = line.tool /\ s.result.evidence = picked
        <4> HIDE DEF picked
        <4>1. QED BY <2>4, WithoutId
      <3>2. AssessSound(s)
        <4>1. \A c \in Scope(line.frameworks) : c \in ToSet(corpus)
          BY DEF Scope
        <4>2. /\ DOMAIN picked = Scope(line.frameworks)
              /\ \A c \in Scope(line.frameworks) :
                   picked[c] = evidence(c, corpus, docs, order, RETRIEVAL_TOP_K)
          OBVIOUS
        <4> HIDE DEF picked
        <4>3. QED BY <2>3, <3>1, <4>1, <4>2 DEF AssessSound
      <3>3. SearchSound(s) /\ ClassifySound(s)
        BY <3>1 DEF SearchSound, ClassifySound
      <3>4. QED BY <2>3, <3>1, <3>2, <3>3 DEF Sound
    <2> HIDE DEF result
    <2>5. Replied(line.id) /\ \A s \in said' : s \in said \/ Sound(s)
      <3>1. CASE Say(line, result)
        BY <2>4, <3>1, SaidNew
      <3>2. CASE Write(line.id, "tool_error") /\ UNCHANGED said
        BY <3>2 DEF Replied
      <3>3. QED BY <2>1, <3>1, <3>2
    <2>6. QED BY <2>1, <2>2, <2>5 DEF Effects
  <1>3. QED BY <1>1, <1>2

\* Every call of a tool is answered.
LEMMA CallEffects ==
  ASSUME StoresInv, NEW line, Understood(line), line.form = "object",
         line.method = "tools/call", call(line)
  PROVE  Effects /\ Replied(line.id)
  <1>1. CASE line.tool = "list_frameworks" /\ list_frameworks(line)
    BY <1>1, OtherEffects DEF list_frameworks
  <1>2. CASE line.tool = "search_controls" /\ search_controls(line)
    BY <1>2, SearchEffects
  <1>3. CASE line.tool = "get_control" /\ get_control(line)
    BY <1>3, OtherEffects, FailEffects DEF get_control
  <1>4. CASE line.tool = "classify_risk" /\ classify_risk(line)
    BY <1>4, ClassifyEffects
  <1>5. CASE line.tool = "assess_platform" /\ assess_platform(line)
    BY <1>5, AssessEffects
  <1>6. CASE line.tool = "evaluate_transaction" /\ evaluate_transaction(line)
    BY <1>6, OtherEffects, FailEffects DEF evaluate_transaction
  <1>7. CASE line.tool = "verify_audit_ledger" /\ verify_ledger(line)
    BY <1>7, OtherEffects, FailEffects DEF verify_ledger
  <1>8. CASE line.tool = "unknown" /\ Write(line.id, "error") /\ Nothing
    BY <1>8 DEF Nothing, Effects, Replied
  <1>9. QED BY <1>1, <1>2, <1>3, <1>4, <1>5, <1>6, <1>7, <1>8 DEF call

\* A turn of the loop dies on a line that escapes; otherwise it answers the line,
\* or no answer to it is waited for.
Served(line) ==
  \/ UNCHANGED stdout /\ alive' = FALSE /\ Escapes(line)
  \/ UNCHANGED stdout /\ alive' = TRUE /\ ~Expects(line)
  \/ line.form = "object" /\ Replied(line.id) /\ alive' = TRUE /\ (line.id # NoId => Expects(line))
  \/ line.form # "object" /\ Replied(NoId) /\ alive' = TRUE

LEMMA ServeEffects ==
  ASSUME StoresInv, StdinInv, serve, NEW line, line = stdin[read + 1], Understood(line)
  PROVE  Effects /\ Served(line)
  <1>0. alive = TRUE
    BY DEF serve, StoresInv
  <1>1. CASE line.form = "blank" /\ UNCHANGED <<alive, stdout>> /\ Nothing
    BY <1>0, <1>1 DEF Nothing, Effects, Served, Expects
  <1>2. CASE line.form = "garbage" /\ Write(NoId, "error") /\ UNCHANGED alive /\ Nothing
    BY <1>0, <1>2 DEF Nothing, Effects, Replied, Served
  <1>3. CASE Escapes(line) /\ alive' = FALSE /\ UNCHANGED stdout /\ Nothing
    BY <1>3 DEF Nothing, Effects, Served
  <1>4. CASE line.form = "object" /\ handle(line) /\ UNCHANGED alive
    <2>1. CASE line.method = "ping" /\ Write(line.id, "result") /\ Nothing
      BY <1>0, <1>4, <2>1 DEF Nothing, Effects, Replied, Served, Expects
    <2>2. CASE line.method = "notifications/initialized" /\ UNCHANGED stdout /\ Nothing
      BY <1>0, <1>4, <2>2 DEF Nothing, Effects, Served, Expects
    <2>3. CASE line.method = "tools/call" /\ call(line)
      BY <1>0, <1>4, <2>3, CallEffects DEF Served, Expects
    <2>4. CASE line.method = "other" /\ Write(line.id, "error") /\ Nothing
      BY <1>0, <1>4, <2>4 DEF Nothing, Effects, Replied, Served, Expects
    <2>5. QED BY <1>4, <2>1, <2>2, <2>3, <2>4 DEF handle
  <1>5. QED BY <1>1, <1>2, <1>3, <1>4 DEF serve

-----------------------------------------------------------------------------
(***************************************************************************)
(* The steps.                                                              *)
(***************************************************************************)

\* What is written on the wire is what is understood at its other end.
LEMMA LinesUnderstood ==
  ASSUME NEW line \in Lines
  PROVE  /\ (line.form = "object" => line.id = NoId) => Understood(line)
         /\ line.form = "object" /\ line.id # NoId =>
              \A i \in 1..MaxLines : /\ Understood([line EXCEPT !.id = Ids[i]])
                                     /\ [line EXCEPT !.id = Ids[i]] \in Received
  <1>1. (line.form = "object" => line.id = NoId) => Understood(line)
    BY ClientAssumption DEF Understood
  <1>2. ASSUME line.form = "object", line.id # NoId, NEW i \in 1..MaxLines
        PROVE  /\ Understood([line EXCEPT !.id = Ids[i]])
               /\ [line EXCEPT !.id = Ids[i]] \in Received
    <2> DEFINE named == [line EXCEPT !.id = Ids[i]]
    <2>1. Ids[i] \in ToSet(Ids)
      BY DEF ToSet, Ids
    <2>2. /\ "form" \in DOMAIN line /\ {"id", "method"} \subseteq DOMAIN line
          /\ line.method = "tools/call" =>
               /\ "tool" \in DOMAIN line /\ line.tool \in DOMAIN Arguments
               /\ Arguments[line.tool] \subseteq DOMAIN line
               /\ line.tool = "search_controls" =>
                    line.query \in Queries \union {""} /\ line.top_k \in Nat
      BY <1>2, ClientAssumption
    <2>3. /\ DOMAIN named = DOMAIN line /\ named.id = Ids[i]
          /\ \A f \in DOMAIN line : f # "id" => named[f] = line[f]
      BY <2>2
    <2>4. named \in Received
      BY <2>1 DEF Received
    <2> HIDE DEF named
    <2>5. /\ named.form = line.form /\ named.method = line.method
          /\ "tool" \in DOMAIN line => named.tool = line.tool
      BY <2>2, <2>3
    <2>6. line.method = "tools/call" /\ line.tool = "search_controls" =>
            named.query = line.query /\ named.top_k = line.top_k
      <3>1. Arguments["search_controls"] = {"query", "top_k", "frameworks"}
        BY DEF Arguments
      <3>2. QED BY <2>2, <2>3, <3>1
    <2>7. Understood(named)
      BY <1>2, <2>1, <2>2, <2>3, <2>5, <2>6 DEF Understood
    <2>8. QED BY <2>4, <2>7 DEF named
  <1>3. QED BY <1>1, <1>2

LEMMA InitInv == Init => ServerInv
  <1> SUFFICES ASSUME Init PROVE ServerInv
    OBVIOUS
  <1>1. Len(<< >>) = 0 /\ DOMAIN << >> = {} /\ \A A : << >> \in Seq(A)
    OBVIOUS
  <1>2. CountsInv
    BY <1>1, ServerAssumption DEF Init, CountsInv
  <1>3. StdinInv
    BY <1>1 DEF Init, StdinInv
  <1>4. StoresInv
    BY NoDocs DEF Init, StoresInv
  <1>5. SaidInv
    BY DEF Init, SaidInv
  <1>6. AnswersPaired
    <2>1. Asked = {} /\ Answered = {}
      BY <1>1 DEF Init, Asked, Answered, DiedOn
    <2>2. Cardinality({}) = 0
      BY FS_EmptySet
    <2>3. /\ \A s : Picked(s, {}) = << >>
      BY <2>2 DEF Picked
    <2>4. QED BY <1>1, <2>1, <2>3 DEF Init, AnswersPaired
  <1>7. QED BY <1>2, <1>3, <1>4, <1>5, <1>6 DEF ServerInv

\* The client's step.
LEMMA SendInv == ServerInv /\ Send => ServerInv'
  <1> SUFFICES ASSUME ServerInv, Send PROVE ServerInv'
    OBVIOUS
  <1>1. PICK line \in Lines :
          stdin' = Append(stdin, IF line.form = "object" /\ line.id # NoId
                                 THEN [line EXCEPT !.id = Ids[sent']] ELSE line)
    BY DEF Send
  <1> DEFINE new == IF line.form = "object" /\ line.id # NoId
                    THEN [line EXCEPT !.id = Ids[sent']] ELSE line
  <1>2. /\ sent < MaxLines /\ sent' = sent + 1 /\ stdin' = Append(stdin, new)
        /\ UNCHANGED <<alive, corpus, backend, order, index, read, stdout, store, runs, starts, said>>
    BY <1>1 DEF Send
  <1>3. /\ sent \in 0..MaxLines /\ MaxLines \in Nat /\ read \in 0..Len(stdin)
        /\ Len(stdin) <= sent /\ runs \in Nat /\ starts \in 0..MaxStarts
        /\ runs + (Len(stdin) - read) <= sent
    BY ServerAssumption DEF ServerInv, CountsInv
  <1>4. sent' \in 1..MaxLines
    BY <1>2, <1>3
  <1>5. Understood(new) /\ new \in Received
    <2>1. line \in Received
      BY DEF Received
    <2>2. QED BY <1>4, <2>1, LinesUnderstood
  <1> HIDE DEF new
  <1>6. stdin \in Seq(Received) /\ Len(stdin) \in Nat
    BY LenProperties DEF ServerInv, StdinInv
  <1>7. /\ stdin' \in Seq(Received) /\ Len(stdin') = Len(stdin) + 1
        /\ \A i \in 1..Len(stdin) : stdin'[i] = stdin[i]
        /\ stdin'[Len(stdin) + 1] = new
    BY <1>2, <1>5, <1>6, AppendProperties
  <1>8. CountsInv'
    BY <1>2, <1>3, <1>6, <1>7 DEF CountsInv
  <1>9. StdinInv'
    <2>1. ASSUME NEW i \in 1..Len(stdin) + 1 PROVE Understood(stdin'[i])
      <3>1. i \in 1..Len(stdin) \/ i = Len(stdin) + 1
        BY <1>6
      <3>2. \A k \in 1..Len(stdin) : Understood(stdin[k])
        BY DEF ServerInv, StdinInv
      <3>3. QED BY <1>5, <1>7, <3>1, <3>2
    <2>2. stdout' \in Seq(Replies)
      BY <1>2 DEF ServerInv, StdinInv
    <2>3. QED BY <1>7, <2>1, <2>2 DEF StdinInv
  <1>10. StoresInv' /\ SaidInv'
    BY <1>2 DEF ServerInv, StoresInv, SaidInv
  <1>11. AnswersPaired'
    <2>1. \A i \in 1..read : i \in 1..Len(stdin) /\ stdin'[i] = stdin[i]
      BY <1>3, <1>6, <1>7
    <2>2. Asked' = Asked
      BY <1>2, <2>1 DEF Asked, DiedOn, Expects
    <2>3. Asked \in SUBSET (1..Len(stdin)) /\ \A i \in Asked : stdin'[i] = stdin[i]
      BY <2>1 DEF Asked
    <2>4. Picked(stdin', Asked) = Picked(stdin, Asked)
      BY <1>6, <2>3, PickedSame
    <2>5. Answered' = Answered /\ stdout' = stdout
      BY <1>2 DEF Answered
    <2>6. alive' = TRUE
      BY DEF Send, ServerInv, StoresInv
    <2>7. QED BY <2>2, <2>4, <2>5, <2>6 DEF AnswersPaired, ServerInv
  <1>12. QED BY <1>8, <1>9, <1>10, <1>11 DEF ServerInv

LEMMA RestartInv == ServerInv /\ Restart => ServerInv'
  <1> SUFFICES ASSUME ServerInv, Restart PROVE ServerInv'
    OBVIOUS
  <1>1. Len(<< >>) = 0 /\ DOMAIN << >> = {} /\ \A A : << >> \in Seq(A)
    OBVIOUS
  <1>2. /\ alive' = TRUE /\ corpus' \in Corpora /\ backend' \in Backends /\ order' \in Orders
        /\ index' = NotBuilt /\ stdin' = << >> /\ read' = 0 /\ stdout' = << >>
        /\ starts < MaxStarts /\ starts' = starts + 1
        /\ UNCHANGED <<store, runs, sent, said>>
    BY DEF Restart, Start
  <1>3. CountsInv'
    <2>1. stdin \in Seq(Received)
      BY DEF ServerInv, StdinInv
    <2>2. Len(stdin) \in Nat
      BY <2>1, LenProperties
    <2>3. QED BY <1>1, <1>2, <2>2, ServerAssumption DEF ServerInv, CountsInv
  <1>4. StdinInv' /\ StoresInv' /\ SaidInv'
    BY <1>1, <1>2 DEF ServerInv, StdinInv, StoresInv, SaidInv
  <1>5. AnswersPaired'
    <2>1. Asked' = {} /\ Answered' = {}
      BY <1>1, <1>2 DEF Asked, Answered, DiedOn
    <2>2. \A s : Picked(s, {}) = << >>
      BY FS_EmptySet DEF Picked
    <2>3. QED BY <1>1, <1>2, <2>1, <2>2 DEF AnswersPaired
  <1>6. QED BY <1>3, <1>4, <1>5 DEF ServerInv

\* A turn of the loop answers at most once, and for the line it read.
LEMMA ServePairs == ServerInv /\ serve => AnswersPaired'
  <1> SUFFICES ASSUME ServerInv, serve PROVE AnswersPaired'
    OBVIOUS
  <1> DEFINE line == stdin[read + 1]
             asked == Picked(stdin, Asked)
             answered == Picked(stdout, Answered)
  <1>1. /\ read < Len(stdin) /\ read' = read + 1 /\ stdin' = stdin
    BY DEF serve
  <1>2. /\ stdin \in Seq(Received) /\ stdout \in Seq(Replies)
        /\ Len(stdin) \in Nat /\ Len(stdout) \in Nat
        /\ DOMAIN stdin = 1..Len(stdin) /\ DOMAIN stdout = 1..Len(stdout)
    BY LenProperties DEF ServerInv, StdinInv
  <1>3. read \in Nat /\ read + 1 \in 1..Len(stdin) /\ \A i \in 1..read : i \in 1..Len(stdin) /\ i < read + 1
    BY <1>1, <1>2 DEF ServerInv, CountsInv
  <1>4. Understood(line)
    BY <1>3 DEF ServerInv, StdinInv
  <1>5. Served(line)
    BY <1>4, ServeEffects DEF ServerInv
  <1>6. /\ Len(answered) = Len(asked)
        /\ \A k \in DOMAIN asked : answered[k].id = asked[k].id
    BY DEF ServerInv, AnswersPaired
  <1>7. /\ Asked \in SUBSET (1..Len(stdin)) /\ \A i \in Asked : i < read + 1
        /\ Answered \in SUBSET (1..Len(stdout))
    BY <1>2, <1>3 DEF Asked, Answered
  <1>8. Asked' = IF Expects(line) /\ alive' THEN Asked \union {read + 1} ELSE Asked
    <2>1. 1..(read + 1) = (1..read) \union {read + 1} /\ read + 1 \notin 1..read
      BY <1>3
    <2>2. Asked' = {i \in 1..(read + 1) : Expects(stdin[i])} \ DiedOn'
      BY <1>1 DEF Asked, Expects
    <2>3. Asked = {i \in 1..read : Expects(stdin[i])}
      BY DEF Asked, DiedOn, serve
    <2>4. DiedOn' = IF alive' THEN {} ELSE {read + 1}
      BY <1>1 DEF DiedOn
    <2> HIDE DEF line
    <2>5. CASE Expects(stdin[read + 1]) /\ alive'
      BY <2>1, <2>2, <2>3, <2>4, <2>5 DEF line
    <2>6. CASE ~Expects(stdin[read + 1]) /\ alive'
      BY <2>1, <2>2, <2>3, <2>4, <2>6 DEF line
    <2>7. CASE ~alive'
      BY <2>1, <2>2, <2>3, <2>4, <2>7 DEF line
    <2>8. QED BY <2>5, <2>6, <2>7
  <1>9. ASSUME UNCHANGED stdout, ~Expects(line) \/ ~alive', ~alive' => Escapes(line)
        PROVE  AnswersPaired'
    <2>1. Asked' = Asked /\ Answered' = Answered
      BY <1>8, <1>9 DEF Answered
    <2>2. ~alive' => read' > 0 /\ Escapes(stdin'[read'])
      BY <1>1, <1>3, <1>9
    <2>3. QED BY <1>1, <1>6, <1>9, <2>1, <2>2 DEF AnswersPaired, Escapes
  <1>10. ASSUME NEW id \in ToSet(Ids) \union {NoId}, Replied(id)
         PROVE  /\ id = NoId => Answered' = Answered
                /\ id # NoId => Answered' = Answered \union {Len(stdout) + 1}
                /\ \A i \in 1..Len(stdout) : stdout'[i] = stdout[i]
                /\ stdout' \in Seq(Replies) /\ Len(stdout') = Len(stdout) + 1
                /\ stdout'[Len(stdout) + 1].id = id
    <2>1. PICK kind \in {"result", "tool_error", "error"} : stdout' = Append(stdout, [id |-> id, kind |-> kind])
      BY <1>10 DEF Replied, Write
    <2>2. [id |-> id, kind |-> kind] \in Replies
      BY DEF Replies
    <2>3. /\ stdout' \in Seq(Replies) /\ Len(stdout') = Len(stdout) + 1
          /\ \A i \in 1..Len(stdout) : stdout'[i] = stdout[i]
          /\ stdout'[Len(stdout) + 1] = [id |-> id, kind |-> kind]
      BY <1>2, <2>1, <2>2, AppendProperties
    <2>4. DOMAIN stdout' = (1..Len(stdout)) \union {Len(stdout) + 1}
      <3>1. DOMAIN stdout' = 1..Len(stdout')
        BY <2>3, LenProperties
      <3>2. QED BY <1>2, <2>3, <3>1
    <2>5. Answered' = {k \in DOMAIN stdout' : stdout'[k].id # NoId}
      BY DEF Answered
    <2>6. QED BY <1>2, <2>3, <2>4, <2>5 DEF Answered
  <1>11. ASSUME NEW id \in ToSet(Ids) \union {NoId}, Replied(id), id = NoId, Asked' = Asked, alive' = TRUE
         PROVE  AnswersPaired'
    <2>1. Answered' = Answered /\ \A i \in Answered : stdout'[i] = stdout[i]
      BY <1>7, <1>10, <1>11
    <2>2. Picked(stdout', Answered) = answered
      BY <1>2, <1>7, <2>1, PickedSame
    <2>3. QED BY <1>1, <1>6, <1>11, <2>1, <2>2 DEF AnswersPaired
  <1>12. ASSUME Expects(line), line.form = "object", line.id # NoId, Replied(line.id), alive' = TRUE
         PROVE  AnswersPaired'
    <2>1. line.id \in ToSet(Ids) \union {NoId}
      BY <1>4, <1>12 DEF Understood
    <2>2. /\ Answered' = Answered \union {Len(stdout) + 1}
          /\ \A i \in 1..Len(stdout) : stdout'[i] = stdout[i]
          /\ stdout' \in Seq(Replies) /\ Len(stdout') = Len(stdout) + 1
          /\ stdout'[Len(stdout) + 1].id = line.id
      BY <1>10, <1>12, <2>1
    <2>3. /\ Picked(stdin, Asked \union {read + 1}) = Append(asked, line)
      BY <1>2, <1>3, <1>7, PickedNext
    <2>4. Picked(stdout', Answered) = answered
      BY <1>2, <1>7, <2>2, PickedSame
    <2>5. Picked(stdout', Answered \union {Len(stdout) + 1})
            = Append(answered, stdout'[Len(stdout) + 1])
      <3>1. Len(stdout) + 1 \in 1..Len(stdout')
        BY <1>2, <2>2
      <3>2. Answered \in SUBSET (1..Len(stdout')) /\ \A i \in Answered : i < Len(stdout) + 1
        BY <1>2, <1>7, <2>2
      <3>3. QED BY <2>2, <2>4, <3>1, <3>2, PickedNext
    <2>6. asked \in Seq(Received) /\ answered \in Seq(Replies)
      BY <1>2, <1>7, PickedElements
    <2>7. \A B : \A t \in Seq(B) : \A x \in B :
            /\ Append(t, x) \in Seq(B) /\ Len(Append(t, x)) = Len(t) + 1
            /\ DOMAIN Append(t, x) = 1..Len(t) + 1 /\ DOMAIN t = 1..Len(t) /\ Len(t) \in Nat
            /\ \A k \in 1..Len(t) : Append(t, x)[k] = t[k]
            /\ Append(t, x)[Len(t) + 1] = x
      BY AppendProperties, LenProperties
    <2> DEFINE last == stdout'[Len(stdout) + 1]
    <2>8. line \in Received /\ last \in Replies
      <3>1. Len(stdout) + 1 \in 1..Len(stdout')
        BY <1>2, <2>2
      <3>2. QED BY <1>2, <1>3, <2>2, <3>1, ElementOfSeq
    <2> HIDE DEF asked, answered, line, last
    <2>9. /\ Len(Append(asked, line)) = Len(asked) + 1 /\ Len(Append(answered, last)) = Len(answered) + 1
          /\ DOMAIN Append(asked, line) = 1..Len(asked) + 1 /\ DOMAIN asked = 1..Len(asked)
          /\ Len(asked) \in Nat
          /\ \A k \in 1..Len(asked) : Append(asked, line)[k] = asked[k]
          /\ \A k \in 1..Len(answered) : Append(answered, last)[k] = answered[k]
          /\ Append(asked, line)[Len(asked) + 1] = line
          /\ Append(answered, last)[Len(answered) + 1] = last
      BY <2>6, <2>7, <2>8
    <2>10. \A k \in 1..Len(asked) + 1 : k \in 1..Len(asked) \/ k = Len(asked) + 1
      BY <2>9
    <2>11. /\ Len(Append(answered, last)) = Len(Append(asked, line))
           /\ \A k \in DOMAIN Append(asked, line) :
                Append(answered, last)[k].id = Append(asked, line)[k].id
      BY <1>6, <2>2, <2>9, <2>10 DEF last
    <2>12. Asked' = Asked \union {read + 1}
      BY <1>8, <1>12
    <2>13. /\ Picked(stdin, Asked)' = Append(asked, line)
           /\ Picked(stdout, Answered)' = Append(answered, last)
      BY <1>1, <2>2, <2>3, <2>5, <2>12 DEF last
    <2>14. QED BY <1>12, <2>11, <2>13 DEF AnswersPaired
  <1>13. QED
    <2>1. CASE UNCHANGED stdout /\ alive' = FALSE /\ Escapes(line)
      BY <1>9, <2>1
    <2>2. CASE UNCHANGED stdout /\ alive' = TRUE /\ ~Expects(line)
      BY <1>9, <2>2
    <2>3. CASE line.form = "object" /\ Replied(line.id) /\ alive' = TRUE /\ (line.id # NoId => Expects(line))
      <3>1. CASE line.id = NoId
        BY <1>8, <1>11, <2>3, <3>1 DEF Expects
      <3>2. CASE line.id # NoId
        BY <1>12, <2>3, <3>2
      <3>3. QED BY <3>1, <3>2
    <2>4. CASE line.form # "object" /\ Replied(NoId) /\ alive' = TRUE
      BY <1>8, <1>11, <2>4 DEF Expects
    <2> HIDE DEF line
    <2>5. QED BY <1>5, <2>1, <2>2, <2>3, <2>4 DEF Served

LEMMA ServeInv == ServerInv /\ serve => ServerInv'
  <1> SUFFICES ASSUME ServerInv, serve PROVE ServerInv'
    OBVIOUS
  <1> DEFINE line == stdin[read + 1]
  <1>1. /\ read < Len(stdin) /\ read' = read + 1
        /\ UNCHANGED <<corpus, backend, order, stdin, starts, sent>>
    BY DEF serve
  <1>2. /\ stdin \in Seq(Received) /\ stdout \in Seq(Replies) /\ Len(stdin) \in Nat
        /\ \A i \in 1..Len(stdin) : Understood(stdin[i])
    BY LenProperties DEF ServerInv, StdinInv
  <1>3. read \in Nat /\ read + 1 \in 1..Len(stdin)
    BY <1>1, <1>2 DEF ServerInv, CountsInv
  <1>4. Understood(line)
    BY <1>2, <1>3
  <1>5. Effects /\ Served(line)
    BY <1>4, ServeEffects DEF ServerInv
  <1>6. CountsInv'
    BY <1>1, <1>2, <1>3, <1>5 DEF ServerInv, CountsInv, Effects
  <1>7. StdinInv'
    <2>1. ASSUME NEW id \in ToSet(Ids) \union {NoId}, Replied(id)
          PROVE  stdout' \in Seq(Replies)
      <3>1. PICK kind \in {"result", "tool_error", "error"} : stdout' = Append(stdout, [id |-> id, kind |-> kind])
        BY <2>1 DEF Replied, Write
      <3>2. [id |-> id, kind |-> kind] \in Replies
        BY DEF Replies
      <3>3. QED BY <1>2, <3>1, <3>2, AppendProperties
    <2>2. stdout' \in Seq(Replies)
      BY <1>2, <1>4, <1>5, <2>1 DEF Understood, Served
    <2>3. QED BY <1>1, <1>2, <2>2 DEF StdinInv
  <1>8. StoresInv'
    <2>1. /\ corpus \in Corpora /\ backend \in Backends /\ order \in Orders
          /\ index = NotBuilt \/ index = Upsert(<< >>, corpus)
          /\ store \in Seq(Controls) /\ IsInjective(store)
      BY DEF ServerInv, StoresInv
    <2>2. Upsert(store, corpus) \in Seq(Controls) /\ IsInjective(Upsert(store, corpus))
      BY <2>1, Upserted
    <2>3. store' \in Seq(Controls) /\ IsInjective(store')
      BY <1>5, <2>1, <2>2 DEF Effects
    <2>4. index' = NotBuilt \/ index' = Upsert(<< >>, corpus)
      BY <1>5, <2>1 DEF Effects
    <2>5. alive' \in BOOLEAN
      BY <1>5 DEF Served
    <2>6. QED BY <1>1, <1>5, <2>1, <2>3, <2>4, <2>5 DEF StoresInv
  <1>9. SaidInv'
    BY <1>5 DEF ServerInv, SaidInv, Effects
  <1>10. AnswersPaired'
    BY ServePairs
  <1>11. QED BY <1>6, <1>7, <1>8, <1>9, <1>10 DEF ServerInv

LEMMA Stutter == ServerInv /\ UNCHANGED vars => ServerInv'
  <1> SUFFICES ASSUME ServerInv, UNCHANGED vars PROVE ServerInv'
    OBVIOUS
  <1>1. (CountsInv /\ StdinInv /\ StoresInv /\ SaidInv)'
    BY DEF ServerInv, CountsInv, StdinInv, StoresInv, SaidInv, vars, session
  <1>2. AnswersPaired'
    <2>1. UNCHANGED <<alive, read, stdin, stdout>>
      BY DEF vars, session
    <2>2. Asked' = Asked /\ Answered' = Answered
      BY <2>1 DEF Asked, Answered, DiedOn, Expects
    <2>3. QED BY <2>1, <2>2 DEF ServerInv, AnswersPaired, Escapes
  <1>3. QED BY <1>1, <1>2 DEF ServerInv

LEMMA ServerInvariant == Spec => []ServerInv
  <1>1. ServerInv /\ [Next]_vars => ServerInv'
    BY SendInv, ServeInv, RestartInv, Stutter DEF Next
  <1>2. QED BY InitInv, <1>1, PTL DEF Spec

-----------------------------------------------------------------------------
(***************************************************************************)
(* The theorems.                                                           *)
(***************************************************************************)

\* Nothing the tools keep leaves its range: in particular no document is twice
\* in the store, and there are no more runs than lines were sent.
THEOREM McpTypes == Spec => []TypeOK
  <1>1. ServerInv => TypeOK
    <2> SUFFICES ASSUME ServerInv PROVE TypeOK
      OBVIOUS
    <2>1. corpus \in Corpora /\ (index = NotBuilt \/ index = Upsert(<< >>, corpus))
      BY DEF ServerInv, StoresInv
    <2>2. index = NotBuilt \/ index \in Seq(Controls)
      BY <2>1, AloneIsCorpus
    <2>3. stdin \in Seq(Received) /\ Len(stdin) \in Nat
      BY LenProperties DEF ServerInv, StdinInv
    <2>4. /\ sent \in 0..MaxLines /\ starts \in 0..MaxStarts /\ runs \in 0..sent
          /\ read \in 0..Len(stdin) /\ Len(stdin) <= sent
      BY <2>3, ServerAssumption DEF ServerInv, CountsInv
    <2>5. /\ alive \in BOOLEAN /\ backend \in Backends /\ order \in Orders
          /\ store \in Seq(Controls) /\ IsInjective(store)
      BY DEF ServerInv, StoresInv
    <2>6. stdout \in Seq([id : ToSet(Ids) \union {NoId}, kind : {"result", "tool_error", "error"}])
      BY DEF ServerInv, StdinInv, Replies
    <2>7. \A s \in said : s.corpus \in Corpora
      BY DEF ServerInv, SaidInv, Sound
    <2>8. QED BY <2>1, <2>2, <2>4, <2>5, <2>6, <2>7 DEF TypeOK
  <1>2. QED BY ServerInvariant, <1>1, PTL

\* Every request that was read is answered, once and in order, whatever the
\* client sends, the tools do and however many sessions there are; only a line
\* that cannot be handled is not, and it is the last one of its session.
THEOREM McpAnswersPaired == Spec => []AnswersPaired
  <1>1. ServerInv => AnswersPaired
    BY DEF ServerInv
  <1>2. QED BY ServerInvariant, <1>1, PTL

\* Searches of one corpus agree, for every scoring, every weight of the sides
\* and every two orders of iteration.
THEOREM McpSearchesAgree == Spec => []SearchesAgree
  <1>1. ServerInv => SearchesAgree
    <2> SUFFICES ASSUME ServerInv, NEW s \in Results("search_controls"),
                        NEW t \in Results("search_controls"),
                        s.corpus = t.corpus, s.line = t.line
                 PROVE  s.result.scores = t.result.scores
      BY DEF SearchesAgree
    <2>1. /\ s \in said /\ s.line.tool = "search_controls" /\ Sound(s)
          /\ t \in said /\ t.line.tool = "search_controls" /\ Sound(t)
      BY DEF Results, ServerInv, SaidInv
    <2> DEFINE docs == Upsert(<< >>, s.corpus)
               line == s.line
               sides == Sides(line.query, s.corpus, docs, line.top_k)
    <2>2. /\ s.corpus \in Corpora /\ line.query \in Queries /\ line.top_k \in Nat
      BY <2>1 DEF Sound, SearchSound
    <2>3. PICK iter \in Orders :
            /\ s.result.found = retrieve(line.query, s.corpus, docs, iter, line.top_k, line.frameworks)
            /\ s.result.scores = [i \in DOMAIN s.result.found |-> Fused(sides, s.result.found[i])]
      BY <2>1 DEF Sound, SearchSound
    <2>4. PICK other \in Orders :
            /\ t.result.found = retrieve(line.query, s.corpus, docs, other, line.top_k, line.frameworks)
            /\ t.result.scores = [i \in DOMAIN t.result.found |-> Fused(sides, t.result.found[i])]
      BY <2>1 DEF Sound, SearchSound
    <2>5. docs \in Seq(Controls)
      BY <2>2, AloneIsCorpus
    <2> HIDE DEF docs
    <2>6. QED BY <2>2, <2>3, <2>4, <2>5, SearchesScoreAlike
  <1>2. QED BY ServerInvariant, <1>1, PTL

\* A search leaves out or puts behind no control that scores more on both sides.
THEOREM McpSearchFair == Spec => []SearchFair
  <1>1. ServerInv => SearchFair
    <2> SUFFICES ASSUME ServerInv, NEW s \in Results("search_controls")
                 PROVE  Fair(s.line.query, s.corpus, s.line.top_k, s.line.frameworks, s.result.found)
      BY DEF SearchFair, Fair
    <2>1. s \in said /\ s.line.tool = "search_controls" /\ Sound(s)
      BY DEF Results, ServerInv, SaidInv
    <2>2. s.corpus \in Corpora /\ s.line.query \in Queries /\ s.line.top_k \in Nat
      BY <2>1 DEF Sound, SearchSound
    <2> DEFINE docs == Upsert(<< >>, s.corpus)
    <2>3. PICK iter \in Orders :
            s.result.found = retrieve(s.line.query, s.corpus, docs, iter, s.line.top_k, s.line.frameworks)
      BY <2>1 DEF Sound, SearchSound
    <2>4. docs \in Seq(Controls) /\ ToSet(docs) = ToSet(s.corpus)
      BY <2>2, AloneIsCorpus
    <2> HIDE DEF docs
    <2>5. QED BY <2>2, <2>3, <2>4, SearchIsFair
  <1>2. QED BY ServerInvariant, <1>1, PTL

\* Each control is judged on its own text and on no other corpus, whatever the
\* store has accumulated.
THEOREM McpEvidenceOwn == Spec => []EvidenceOwn
  <1>1. ServerInv => EvidenceOwn
    <2> SUFFICES ASSUME ServerInv, NEW s \in Results("assess_platform"),
                        NEW c \in DOMAIN s.result.evidence
                 PROVE  LET ids == s.result.evidence[c]
                        IN  /\ RETRIEVAL_TOP_K > 0 => Contains(ids, c)
                            /\ ToSet(ids) \subseteq ToSet(s.corpus)
                            /\ IsInjective(ids) /\ Len(ids) <= RETRIEVAL_TOP_K
      BY DEF EvidenceOwn
    <2>1. Sound(s) /\ s.line.tool = "assess_platform"
      BY DEF Results, ServerInv, SaidInv
    <2>2. /\ s.corpus \in Corpora /\ c \in ToSet(s.corpus)
          /\ \E docs \in Seq(Controls) : \E iter \in Orders :
               s.result.evidence[c] = evidence(c, s.corpus, docs, iter, RETRIEVAL_TOP_K)
      BY <2>1 DEF Sound, AssessSound
    <2>3. CASE RETRIEVAL_TOP_K > 0
      <3>1. RETRIEVAL_TOP_K \in Nat \ {0}
        BY <2>3, ServerAssumption
      <3>2. QED BY <2>2, <3>1, EvidenceOfControl
    <2>4. CASE RETRIEVAL_TOP_K = 0
      <3>1. s.result.evidence[c] = <<>>
        BY <2>2, <2>4, NothingOfNone
      <3>2. ToSet(<<>>) = {} /\ IsInjective(<<>>) /\ Len(<<>>) = 0
        BY DEF ToSet, IsInjective
      <3>3. QED BY <2>4, <3>1, <3>2
    <2>5. QED BY <2>3, <2>4, ServerAssumption
  <1>2. QED BY ServerInvariant, <1>1, PTL

\* A platform that declares more is in no lower tier and has every driver.
LEMMA ExposesMore ==
  ASSUME NEW d, NEW c, Exposes(d, c)
  PROVE  /\ assess_risk(c) <= assess_risk(d)
         /\ drivers(c) \ {"nothing_declared"} \subseteq drivers(d)
  <1>1. HasPersonal(c) => HasPersonal(d)
    BY DEF Exposes, HasPersonal
  <1>2. HasSensitive(c) => HasSensitive(d)
    BY DEF Exposes, HasSensitive
  <1>3. Prohibited(c) => Prohibited(d)
    BY DEF Exposes, Prohibited
  <1>4. Decides(c) => Decides(d)
    BY DEF Exposes, Decides
  <1>5. "children" \in c.data_categories => "children" \in d.data_categories
    BY DEF Exposes
  <1>6. assess_risk(c) <= assess_risk(d)
    BY <1>1, <1>2, <1>3, <1>4 DEF Exposes, assess_risk
  <1>7. drivers(c) \ {"nothing_declared"} \subseteq drivers(d)
    BY <1>1, <1>2, <1>3, <1>4, <1>5 DEF Exposes, drivers
  <1>8. QED BY <1>6, <1>7

\* The classification is monotone between any two calls of any sessions.
THEOREM McpRiskMonotone == Spec => []RiskMonotone
  <1>1. ServerInv => RiskMonotone
    <2> SUFFICES ASSUME ServerInv, NEW s \in Results("classify_risk"),
                        NEW t \in Results("classify_risk"),
                        Exposes(s.line.platform, t.line.platform)
                 PROVE  /\ t.result.tier <= s.result.tier
                        /\ t.result.drivers \ {"nothing_declared"} \subseteq s.result.drivers
      BY DEF RiskMonotone
    <2>1. /\ s.result.tier = assess_risk(s.line.platform)
          /\ s.result.drivers = drivers(s.line.platform)
          /\ t.result.tier = assess_risk(t.line.platform)
          /\ t.result.drivers = drivers(t.line.platform)
      BY DEF Results, ServerInv, SaidInv, Sound, ClassifySound
    <2>2. QED BY <2>1, ExposesMore
  <1>2. QED BY ServerInvariant, <1>1, PTL
=============================================================================
