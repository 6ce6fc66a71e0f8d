---------------------------- MODULE HybridRetriever ----------------------------
(***************************************************************************)
(* Hybrid retrieval (rag/retriever.py, rag/store.py) and what the          *)
(* retrieval agent makes of it (agents/retrieval.py).                      *)
(*                                                                         *)
(* Both scores are numbers the model is given: bm25 for a corpus, a query  *)
(* and a control (0 where the code leaves the control out), cosine for a   *)
(* query and a control.  What is modelled is what the code does with them. *)
(* A corpus and a store's documents are sequences of ids.                  *)
(***************************************************************************)
EXTENDS Enumeration, SequencesExt, FiniteSetsExt

CONSTANTS
  Controls,      \* ids of controls, of every corpus
  Corpora,       \* the corpora that may be loaded, in the order of their files
  Queries,       \* what is searched for; every control is the query of its own text
  framework_of,  \* the framework of each control
  bm25,          \* [Corpora -> [Queries -> [Controls -> Nat]]]
  cosine,        \* [Queries -> [Controls -> Nat]]
  alpha,         \* the weight of the dense side, in tenths
  DENSE_FACTOR,  \* 4: how many nearest documents are asked for per result
  DENSE_MIN      \* 20: the fewest that are asked for

ASSUME RetrieverAssumption ==
  /\ Controls \subseteq Queries
  /\ \A corpus \in Corpora : corpus \in Seq(Controls) /\ corpus # << >> /\ IsInjective(corpus)
  /\ bm25 \in [Corpora -> [Queries -> [Controls -> Nat]]]
  /\ cosine \in [Queries -> [Controls -> Nat]]
  /\ alpha \in 0..10 /\ DENSE_FACTOR \in Nat \ {0} /\ DENSE_MIN \in Nat \ {0}

\* Mutant of Upsert: a document that is there is there twice.
Upsert_Again(docs, corpus) == docs \o corpus

\* upsert of a whole corpus: a document that is there keeps its place, and what
\* an earlier corpus left stays.
Upsert(docs, corpus) == docs \o Picked(corpus, {i \in DOMAIN corpus : ~Contains(docs, corpus[i])})

\* Mutant of Nearer: the distance is taken for a similarity.
Nearer_Farther(query, docs, i, j) ==
  \/ cosine[query][docs[i]] < cosine[query][docs[j]]
  \/ cosine[query][docs[i]] = cosine[query][docs[j]] /\ i < j

\* The order of the documents by similarity, by age where it is equal.
Nearer(query, docs, i, j) ==
  \/ cosine[query][docs[i]] > cosine[query][docs[j]]
  \/ cosine[query][docs[i]] = cosine[query][docs[j]] /\ i < j

\* store.query: the n nearest documents and how similar each one is.
Nearest(query, docs, n) ==
  LET first == {i \in DOMAIN docs : Cardinality({j \in DOMAIN docs : Nearer(query, docs, j, i)}) < n}
  IN  [c \in {docs[i] : i \in first} |-> cosine[query][c]]

\* BM25.score: only the controls that score.
Lexical(query, corpus) ==
  [c \in {c \in ToSet(corpus) : bm25[corpus][query][c] > 0} |-> bm25[corpus][query][c]]

\* _normalise maps scores to 0..1, all to 1 where they are equal; a control
\* without a score has 0.  The value is Share over Span.
Lowest(scores) == Min({scores[c] : c \in DOMAIN scores})
Span(scores) ==
  LET width == IF DOMAIN scores = {} THEN 0 ELSE Max({scores[c] : c \in DOMAIN scores}) - Lowest(scores)
  IN  IF width = 0 THEN 1 ELSE width

Share(scores, c) ==
  IF c \notin DOMAIN scores THEN 0
  ELSE IF \A d \in DOMAIN scores : scores[d] = scores[c] THEN 1
  ELSE scores[c] - Lowest(scores)

\* The two sides of a query's score.
Sides(query, corpus, docs, top_k) ==
  [lexical |-> Lexical(query, corpus), dense |-> Nearest(query, docs, Max({top_k * DENSE_FACTOR, DENSE_MIN}))]

Scored(sides) == DOMAIN sides.lexical \union DOMAIN sides.dense

\* The weighted sum, over the common denominator of the query.
Fused(sides, c) ==
  alpha * Share(sides.dense, c) * Span(sides.lexical)
    + (10 - alpha) * Share(sides.lexical, c) * Span(sides.dense)

Place(order, c) == CHOOSE i \in DOMAIN order : order[i] = c

Kept(c, corpus, framework_filter) ==
  Contains(corpus, c) /\ (framework_filter = {} \/ framework_of[c] \in framework_filter)

\* Mutant of retrieve: cut to the limit before it is sorted.
retrieve_CutFirst(query, corpus, docs, order, top_k, framework_filter) ==
  LET sides == Sides(query, corpus, docs, top_k)
      scored == SelectSeq(order, LAMBDA c : c \in Scored(sides) /\ Kept(c, corpus, framework_filter))
      cut == SubSeq(scored, 1, Min({Len(scored), Max({1, top_k})}))
  IN  SortSeq(cut, LAMBDA c, d : Fused(sides, c) > Fused(sides, d))

\* By score; equal scores as the set of ids happens to be iterated in this
\* process (order).
Precedes(sides, order, c, d) ==
  \/ Fused(sides, c) > Fused(sides, d)
  \/ Fused(sides, c) = Fused(sides, d) /\ Place(order, c) < Place(order, d)

ByScore(sides, order) ==
  {pair \in Scored(sides) \X Scored(sides) : Precedes(sides, order, pair[1], pair[2])}

\* retrieve: the best of what is kept.  The limit is tested after an id is
\* taken, so that there is one even for a limit of 0.
retrieve(query, corpus, docs, order, top_k, framework_filter) ==
  LET sides  == Sides(query, corpus, docs, top_k)
      kept   == {c \in Scored(sides) : Kept(c, corpus, framework_filter)}
      ranked == Enumerate(kept, ByScore(sides, order))
  IN  SubSeq(ranked, 1, Min({Len(ranked), Max({1, top_k})}))

\* Mutant of evidence: the control's own text is added at the end.
evidence_Last(control, corpus, docs, order, top_k) ==
  LET ids == retrieve(control, corpus, docs, order, top_k, {})
  IN  SubSeq(Append(ids, control), 1, top_k)

\* RetrievalAgent.run for one control: its own text and its neighbours.
evidence(control, corpus, docs, order, top_k) ==
  LET ids == retrieve(control, corpus, docs, order, top_k, {})
      all == IF Contains(ids, control) THEN ids ELSE <<control>> \o ids
  IN  SubSeq(all, 1, Min({Len(all), top_k}))
=============================================================================
