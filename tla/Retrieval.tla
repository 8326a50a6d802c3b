------------------------------ MODULE Retrieval ------------------------------
(* What RetrievalController.retrieve makes of one query over the notes of a  *)
(* repository: the query's analysis and expansion, the strategies of the     *)
(* profile, their fusion, the semantic boost, the reranking, the cut and the *)
(* confidence. It keeps no state between calls, and so it is a function here *)
(* of the query and of the notes stored, in three stages, Gathered, Scored   *)
(* and Ranked, each of which reads what the one before it returned. Texts    *)
(* are sequences of words, and a word stands in a text or not: matching      *)
(* inside words is left out. Notes are numbered in the order they were       *)
(* stored, which is how Python's stable sorts resolve ties.                  *)
EXTENDS Scores

CONSTANTS
    Notes,             \* note -> what retrieval reads of it
    Lexicon,           \* word -> what the analyser's resources say of it
    Similarity(_, _),  \* query, note -> their cosine, -One..One
    TopK,              \* RetrievalRequest.top_k
    PoolSize,          \* RetrievalController.candidate_pool_size
    MaxPerSource,      \* MAX_EXPANSIONS_PER_SOURCE
    MaxExpansions      \* MAX_TOTAL_EXPANSION_TERMS

ASSUME NotesAssumption ==
    /\ DOMAIN Notes = 1 .. Len(Notes) /\ Len(Notes) \in Nat
    /\ \A n \in DOMAIN Notes : /\ Notes[n].words \in Seq(DOMAIN Lexicon)
                              /\ Notes[n].names \in Seq(DOMAIN Lexicon)
                              /\ Notes[n].age \in Int

ASSUME LexiconAssumption ==
    \A w \in DOMAIN Lexicon : /\ Lexicon[w].concepts \subseteq DOMAIN Lexicon
                             /\ IsFiniteSet(Lexicon[w].concepts)
                             /\ IsFiniteSet(Lexicon[w].expands)

ASSUME LimitAssumption == {TopK, PoolSize, MaxPerSource, MaxExpansions} \subseteq Nat \ {0}

Share(terms, words) ==
    IF terms = {} THEN One \div 2
    ELSE (One * Cardinality(terms \cap words)) \div Cardinality(terms)

Average(S, f) == IF S = {} THEN 0 ELSE SumFunctionOnSet(f, S) \div Cardinality(S)

(* The same function; TLC evaluates it once, where it is compared.           *)
Table(f) == IF f = <<>> THEN <<>> ELSE f

(* ----- the query ----- *)

Intents(q) == UNION {Lexicon[w].concepts : w \in ToSet(q)}

ConceptTerms(q, concept) ==
    LET said == {w \in ToSet(q) : concept \in Lexicon[w].concepts}
    IN  IF said = {} THEN {} ELSE said \cup {concept}

(* A time of the query: an operator (before, last, ...) or an expression     *)
(* that holds of the notes of its last days.                                 *)
Times(q) == {w \in ToSet(q) : Lexicon[w].operator \/ Lexicon[w].days > 0}

Analyse(q) ==
    [entities   |-> {w \in ToSet(q) : Lexicon[w].name},
     keywords   |-> {w \in ToSet(q) : Lexicon[w].keyword},
     intents    |-> Intents(q),
     relations  |-> ConceptTerms(q, "relationship"),
     wishes     |-> ConceptTerms(q, "preference"),
     attributes |-> ConceptTerms(q, "identity"),
     events     |-> ConceptTerms(q, "event"),
     times      |-> Times(q)]

Limited(terms, most) ==
    IF Cardinality(terms) <= most THEN terms
    ELSE CHOOSE kept \in kSubset(most, terms) : TRUE

Expanded(a) ==
    LET sources == a.keywords \cup a.relations \cup a.wishes
                   \cup a.attributes \cup a.events \cup a.intents \cup a.times
    IN  Limited(UNION {Limited(Lexicon[w].expands, MaxPerSource) : w \in sources},
                MaxExpansions)

(* ----- the strategies ----- *)

Strategies == <<"dense", "sparse", "temporal", "graph">>

Selected(profile) ==
    CASE profile = "model_only" -> {}
      [] profile = "simple_rag" -> {"dense", "sparse"}
      [] profile = "prima_full" -> ToSet(Strategies)

WordsOf(n) == ToSet(Notes[n].words)

Before(f, m, n) == f[m] > f[n] \/ (f[m] = f[n] /\ m < n)

Top(scores, most) ==
    LET f == Table(scores)
        Rank(n) == Cardinality({m \in DOMAIN f : Before(f, m, n)})
    IN  Table([n \in {m \in DOMAIN f : Rank(m) < most} |-> f[n]])

(* A negative cosine is folded into 0..1/2 and a positive one is kept.       *)
Dense(q, stored) ==
    [n \in stored |-> LET s == Similarity(q, n)
                      IN  IF s < 0 THEN (s + One) \div 2 ELSE s]

Required(a) ==
    a.relations \cup a.wishes \cup a.events
    \cup (IF "relationship" \in a.intents THEN Lexicon["relationship"].expands
          ELSE IF "identity" \in a.intents THEN a.attributes ELSE {})

Sparse(a, q, stored) ==
    LET terms  == UNION {a.keywords, a.entities, a.relations, a.wishes,
                         a.attributes, a.events, a.intents, a.times,
                         Expanded(a), ToSet(q)}
        Hits(n)    == Cardinality(terms \cap WordsOf(n))
        Lexical(n) == Min({One, (Hits(n) * 1500) \div Max({1, Cardinality(terms)})})
    IN  [n \in {m \in stored : Hits(m) > 0 \/ Share(Required(a), WordsOf(m)) > 0} |->
            Min({One, Percent(40, Lexical(n))
                       + Percent(50, Share(Required(a), WordsOf(n)))
                       + Percent(10, Share(a.entities, WordsOf(n)))})]

(* With the long-term window only a query that speaks of time is asked; its  *)
(* horizon of ten years holds every note.                                    *)
Temporal(q, stored) ==
    LET times == Times(q)
        Said(n) == IF times = {} THEN 0 ELSE Share(times, WordsOf(n))
    IN  IF times = {} /\ "temporal" \notin Intents(q) THEN <<>>
        ELSE [n \in stored |-> Max({Percent(35, One - Notes[n].age), Said(n)})]

(* The graph joins stored notes of any type that share words; its edges are  *)
(* read both ways and a second hop costs a quarter.                          *)
Linked(m, n) == m # n /\ WordsOf(m) \cap WordsOf(n) # {}

Edge(m, n) ==
    IF Linked(m, n) THEN Min({One, 350 + 200 * Cardinality(WordsOf(m) \cap WordsOf(n))})
    ELSE 0

Near(seed, n, stored) ==
    IF n = seed THEN One
    ELSE Max({Edge(seed, n)}
             \cup {Percent(75, (Edge(seed, k) * Edge(k, n)) \div One) : k \in stored})

Centrality(n, stored) ==
    (One * Cardinality({m \in stored \ {n} : Linked(m, n)}))
        \div Max({1, Cardinality(stored) - 1})

(* The graph strategy runs the dense and the sparse one itself for its seeds,*)
(* and takes whatever notes it finds near them.                              *)
Seeds(dense, sparse) ==
    LET Of(f, n) == IF n \in DOMAIN f THEN f[n] ELSE 0
    IN  Top([n \in DOMAIN dense \cup DOMAIN sparse |-> Max({Of(dense, n), Of(sparse, n)})], 6)

Graph(seeds, stored) ==
    LET Reach(s, n) ==
            LET near == Near(s, n, stored)
            IN  IF near = 0 THEN 0
                ELSE Percent(90, (near * seeds[s]) \div One) + Percent(10, Centrality(n, stored))
        best == Table([n \in stored |-> Max({0} \cup {Reach(s, n) : s \in DOMAIN seeds})])
    IN  [n \in {m \in stored : best[m] > 0} |-> best[n]]

(* Procedural notes are searched for tool requests only. The neighbours of   *)
(* the graph are not asked for their type.                                   *)
Searched(kind, stored) ==
    {n \in stored : Notes[n].type = "procedural" => kind = "tool_request"}

(* What the two strategies that read the words find for themselves.          *)
Gathered(a, q, open) == [dense |-> Top(Dense(q, open), 6), sparse |-> Top(Sparse(a, q, open), 6)]

(* ----- fusion, boost, reranking ----- *)

Weight(strategy) ==
    CASE strategy = "dense"    -> 40
      [] strategy = "sparse"   -> 30
      [] strategy = "temporal" -> 15
      [] strategy = "graph"    -> 15

(* Min-max over the candidates of one strategy; equal scores stay as they    *)
(* are, so that the only candidate of a strategy keeps its own score.        *)
Normalised(f) ==
    LET low == Min(Range(f)) high == Max(Range(f))
    IN  IF f = <<>> \/ high <= low THEN f
        ELSE Table([n \in DOMAIN f |-> (One * (f[n] - low)) \div (high - low)])

Candidates(strategy, q, a, seeds, open, stored) ==
    Top(CASE strategy = "dense"    -> Dense(q, open)
          [] strategy = "sparse"   -> Sparse(a, q, open)
          [] strategy = "temporal" -> Temporal(q, open)
          [] strategy = "graph"    -> Graph(seeds, stored),
        Max({TopK, PoolSize}))

Scored(q, a, profile, seeds, open, stored) ==
    Table([s \in Selected(profile) |-> Normalised(Candidates(s, q, a, seeds, open, stored))])

Fuse(by) ==
    LET total == SumFunction([s \in DOMAIN by |-> Weight(s)])
        Of(n)  == [s \in DOMAIN by |->
                    IF n \in DOMAIN by[s] THEN Weight(s) * by[s][n] ELSE 0]
    IN  Top([n \in UNION {DOMAIN by[s] : s \in DOMAIN by} |->
                Min({One, SumFunction(Of(n)) \div Max({1, total})})],
            Max({TopK, PoolSize}))

(* temporal_agreement: how well the note's age answers the query's times.    *)
Agreement(a, n) ==
    IF a.times = {} THEN One \div 2
    ELSE IF \E w \in a.times : Lexicon[w].days >= Notes[n].age /\ Lexicon[w].days > 0
         THEN One
    ELSE IF \E w \in a.times : Lexicon[w].operator THEN Percent(60, One)
    ELSE Percent(25, One)

Boost(a, fused) ==
    LET Meaning(n) == Percent(30, Share(a.entities, WordsOf(n)))
                      + Percent(25, Share(a.relations \cup a.intents, WordsOf(n)))
                      + Percent(25, Share(a.wishes \cup a.attributes \cup a.events, WordsOf(n)))
                      + Percent(20, Agreement(a, n))
    IN  Table([n \in DOMAIN fused |-> Min({One, fused[n] + Percent(8, Meaning(n))})])

Lexical(q, n, score) ==
    LET asked == {w \in ToSet(q) : Lexicon[w].keyword}
        both  == Cardinality(asked \cap WordsOf(n))
    IN  IF asked = {} \/ WordsOf(n) = {} THEN score
        ELSE Percent(45, score) + Percent(35, (One * both) \div Cardinality(asked))
             + Percent(10, (One * both) \div Cardinality(WordsOf(n)))
             + Percent(10, (One * both) \div Cardinality(asked))

(* The pool in the order of the reranker, ties by the score before it.       *)
Rerank(q, scores) ==
    LET key == Table([n \in DOMAIN scores |->
                       (One + 1) * Lexical(q, n, scores[n]) + scores[n]])
        Place(n) == 1 + Cardinality({m \in DOMAIN key : Before(key, m, n)})
    IN  [i \in 1 .. Cardinality(DOMAIN key) |-> CHOOSE n \in DOMAIN key : Place(n) = i]

Cut(pool) == SubSeq(pool, 1, Min({TopK, Len(pool)}))

(* RetrievalConfidenceEstimator.estimate over the notes that are returned.   *)
Confidence(q, a, results, scores, by) ==
    LET kept == ToSet(results)
        Of(s, n) == IF s \in DOMAIN by /\ n \in DOMAIN by[s] THEN by[s][n] ELSE 0
        Mean(s)  == LET scored == {n \in kept : s \in DOMAIN by /\ n \in DOMAIN by[s]}
                    IN  Average(scored, [n \in kept |-> Of(s, n)])
        gap  == IF Len(results) > 1 THEN scores[results[1]] - scores[results[2]]
                ELSE scores[results[1]]
        Agree(n) == Cardinality({s \in {"dense", "sparse", "temporal"} : Of(s, n) > 0}) + 2
    IN  IF results = <<>> THEN 0
        ELSE Percent(18, Average(kept, scores))
             + Percent(12, Max({0, gap}))
             + Percent(8, (One * Len(results)) \div TopK)
             + Percent(10, Mean("dense")) + Percent(12, Mean("sparse"))
             + Percent(12, Average(kept, [n \in kept |-> Lexical(q, n, scores[n])]))
             + Percent(10, Average(kept, [n \in kept |-> Share(a.entities, WordsOf(n))]))
             + Percent(8, Average(kept, [n \in kept |->
                                    Share(a.relations \cup a.intents, WordsOf(n))]))
             + Percent(6, Average(kept, [n \in kept |-> Agreement(a, n)]))
             + Percent(4, Average(kept, [n \in kept |-> 200 * Agree(n)]))
=============================================================================
