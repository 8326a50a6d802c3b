---------------------------- MODULE ReasoningProofs ----------------------------
(* That evidence acquisition keeps its two properties for every repository,  *)
(* lexicon, question and budget. Most of it is about the retrieval: that     *)
(* sums, extremes and orders are what they should be over finite sets, and   *)
(* that each stage of a search scores and returns the notes open to it. The  *)
(* loop comes last, with one lemma for each of its steps.                    *)
EXTENDS Reasoning, SequenceTheorems, FiniteSetTheorems, TLAPS

-----------------------------------------------------------------------------
(* Induction, stated on sets, which the provers can instantiate. *)

LEMMA LeastNatural ==
    ASSUME NEW S \in SUBSET Nat, S # {}
    PROVE  \E m \in S : \A k \in S : m <= k
<1> DEFINE R == OpToRel(<, Nat)
<1>1. IsWellFoundedOn(R, Nat)
  BY NatLessThanWellFounded
<1>2. \A x, y \in Nat : x < y => <<x, y>> \in R
  BY DEF OpToRel
<1> HIDE DEF R
<1>3. PICK m \in S : \A k \in S : <<k, m>> \notin R
  BY <1>1, WFMin
<1>4. \A k \in S : ~(k < m)
  BY <1>2, <1>3
<1> QED
  BY <1>4

LEMMA SetInduction ==
    ASSUME NEW S \in SUBSET Nat, 0 \in S, \A n \in S : n + 1 \in S
    PROVE  S = Nat
<1> SUFFICES ASSUME S # Nat PROVE FALSE
  OBVIOUS
<1> DEFINE T == Nat \ S
<1>1. T \in SUBSET Nat /\ T # {}
  OBVIOUS
<1> HIDE DEF T
<1>2. PICK m \in T : \A k \in T : m <= k
  BY <1>1, LeastNatural
<1>3. m # 0 /\ m - 1 \in Nat /\ m - 1 \in S
  BY <1>2 DEF T
<1> QED
  BY <1>2, <1>3 DEF T

\* A set of sets that holds every set of n + 1 elements once it holds every set of n holds
\* every finite set.
LEMMA SizeInduction ==
    ASSUME NEW U, IsFiniteSet(U), NEW G,
           \A T \in SUBSET U : (\A x \in T : T \ {x} \in G) => T \in G
    PROVE  \A T \in SUBSET U : T \in G
<1> DEFINE N == {n \in Nat : \A T \in SUBSET U : Cardinality(T) = n => T \in G}
<1>1. \A T \in SUBSET U : IsFiniteSet(T) /\ Cardinality(T) \in Nat
  BY FS_Subset, FS_CardinalityType
<1>2. 0 \in N
  <2> SUFFICES ASSUME NEW T \in SUBSET U, Cardinality(T) = 0 PROVE T \in G
    OBVIOUS
  <2>1. T = {}
    BY <1>1, FS_EmptySet
  <2> QED
    BY <2>1
<1>3. ASSUME NEW n \in N PROVE n + 1 \in N
  <2> SUFFICES ASSUME NEW T \in SUBSET U, Cardinality(T) = n + 1 PROVE T \in G
    OBVIOUS
  <2>1. ASSUME NEW x \in T PROVE T \ {x} \in G
    <3>1. Cardinality(T \ {x}) = n
      BY <1>1, FS_RemoveElement
    <3> QED
      BY <3>1
  <2> QED
    BY <2>1
<1>4. N = Nat
  <2> HIDE DEF N
  <2>1. N \in SUBSET Nat
    BY DEF N
  <2> QED
    BY <1>2, <1>3, <2>1, SetInduction
<1> QED
  BY <1>1, <1>4

-----------------------------------------------------------------------------
(* Sums over a finite set. *)

Chosen(T) == CHOOSE x \in T : TRUE

\* The sums over all subsets of S, as the community modules compute them.
Summed(g, f, S) ==
    [T \in SUBSET S |-> IF T = {} THEN 0 ELSE f[Chosen(T)] + g[T \ {Chosen(T)}]]

\* The same over the subsets of at most k elements.
Small(S, k) == {T \in SUBSET S : Cardinality(T) <= k}

SummedTo(g, f, S, k) ==
    [T \in Small(S, k) |-> IF T = {} THEN 0 ELSE f[Chosen(T)] + g[T \ {Chosen(T)}]]

LEMMA SummedExists ==
    ASSUME NEW S, IsFiniteSet(S), NEW f
    PROVE  \E g : g = Summed(g, f, S)
<1>1. \A T \in SUBSET S : IsFiniteSet(T) /\ Cardinality(T) \in Nat /\ Cardinality(T) <= Cardinality(S)
  BY FS_Subset, FS_CardinalityType
<1>2. \A T \in SUBSET S : T # {} => /\ Chosen(T) \in T /\ T \ {Chosen(T)} \in SUBSET S
                                    /\ Cardinality(T \ {Chosen(T)}) = Cardinality(T) - 1
  <2> SUFFICES ASSUME NEW T \in SUBSET S, T # {}
               PROVE  Chosen(T) \in T /\ Cardinality(T \ {Chosen(T)}) = Cardinality(T) - 1
    OBVIOUS
  <2>1. Chosen(T) \in T
    BY DEF Chosen
  <2> QED
    BY <1>1, <2>1, FS_RemoveElement
<1> DEFINE N == {k \in Nat : \E g : g = SummedTo(g, f, S, k)}
<1>3. 0 \in N
  <2> DEFINE g == [T \in Small(S, 0) |-> 0]
  <2>1. \A T \in Small(S, 0) : T = {}
    BY <1>1, FS_EmptySet DEF Small
  <2>2. g = SummedTo(g, f, S, 0)
    BY <2>1 DEF SummedTo
  <2> QED
    BY <2>2
<1>4. ASSUME NEW k \in N PROVE k + 1 \in N
  <2>1. PICK g : g = SummedTo(g, f, S, k)
    OBVIOUS
  <2> DEFINE h == [T \in Small(S, k + 1) |-> IF T = {} THEN 0 ELSE f[Chosen(T)] + g[T \ {Chosen(T)}]]
             hh == SummedTo(h, f, S, k + 1)
  <2>2. Small(S, k) \subseteq Small(S, k + 1)
    BY <1>1 DEF Small
  <2>3. ASSUME NEW T \in Small(S, k) PROVE h[T] = g[T]
    <3>1. h[T] = IF T = {} THEN 0 ELSE f[Chosen(T)] + g[T \ {Chosen(T)}]
      BY <2>2
    <3>2. SummedTo(g, f, S, k)[T] = IF T = {} THEN 0 ELSE f[Chosen(T)] + g[T \ {Chosen(T)}]
      BY DEF SummedTo
    <3> QED
      BY <2>1, <3>1, <3>2
  <2>4. ASSUME NEW T \in Small(S, k + 1), T # {} PROVE T \ {Chosen(T)} \in Small(S, k)
    BY <1>1, <1>2, <2>4 DEF Small
  <2>5. ASSUME NEW T \in Small(S, k + 1) PROVE h[T] = hh[T]
    <3>1. h[T] = IF T = {} THEN 0 ELSE f[Chosen(T)] + g[T \ {Chosen(T)}]
      OBVIOUS
    <3> HIDE DEF h
    <3>2. hh[T] = IF T = {} THEN 0 ELSE f[Chosen(T)] + h[T \ {Chosen(T)}]
      BY DEF SummedTo
    <3>3. T # {} => h[T \ {Chosen(T)}] = g[T \ {Chosen(T)}]
      BY <2>3, <2>4
    <3> QED
      BY <3>1, <3>2, <3>3
  <2>6. h = hh
    BY <2>5 DEF SummedTo
  <2> HIDE DEF h
  <2>7. \E e : e = SummedTo(e, f, S, k + 1)
    BY <2>6
  <2> QED
    BY <2>7
<1>5. Cardinality(S) \in N
  <2> HIDE DEF N
  <2>1. N \in SUBSET Nat
    BY DEF N
  <2> QED
    BY <1>1, <1>3, <1>4, <2>1, SetInduction
<1>6. PICK g : g = SummedTo(g, f, S, Cardinality(S))
  BY <1>5
<1>7. Small(S, Cardinality(S)) = SUBSET S
  BY <1>1 DEF Small
<1>8. SummedTo(g, f, S, Cardinality(S)) = Summed(g, f, S)
  BY <1>7 DEF SummedTo, Summed
<1> QED
  BY <1>6, <1>8

AllSums(g, f, S) == g = Summed(g, f, S)

LEMMA SumIsSummed ==
    ASSUME NEW S, IsFiniteSet(S), NEW f
    PROVE  \E g : AllSums(g, f, S) /\ SumFunctionOnSet(f, S) = g[S]
<1> DEFINE g == CHOOSE h : h = [T \in SUBSET S |->
                  IF T = {} THEN 0 ELSE LET x == CHOOSE x \in T : TRUE IN f[x] + h[T \ {x}]]
<1>1. \E h : h = [T \in SUBSET S |->
                  IF T = {} THEN 0 ELSE LET x == CHOOSE x \in T : TRUE IN f[x] + h[T \ {x}]]
  <2>1. PICK h : AllSums(h, f, S)
    BY SummedExists DEF AllSums
  <2> QED
    BY <2>1 DEF AllSums, Summed, Chosen
<1>2. AllSums(g, f, S)
  <2>1. g = [T \in SUBSET S |->
               IF T = {} THEN 0 ELSE LET x == CHOOSE x \in T : TRUE IN f[x] + g[T \ {x}]]
    BY <1>1
  <2> HIDE DEF g
  <2> QED
    BY <2>1 DEF AllSums, Summed, Chosen
<1>3. SumFunctionOnSet(f, S) = g[S]
  BY DEF SumFunctionOnSet, FoldFunctionOnSet, MapThenFoldSet
<1> QED
  BY <1>2, <1>3

Unfolds(g, f, T) ==
    /\ T = {} => g[T] = 0
    /\ T # {} => Chosen(T) \in T
    /\ T # {} => g[T] = f[Chosen(T)] + g[T \ {Chosen(T)}]

LEMMA SummedUnfolds ==
    ASSUME NEW S, NEW f, NEW g, AllSums(g, f, S)
    PROVE  \A T \in SUBSET S : Unfolds(g, f, T)
<1> SUFFICES ASSUME NEW T \in SUBSET S
             PROVE  /\ T # {} => Chosen(T) \in T
                    /\ g[T] = IF T = {} THEN 0 ELSE f[Chosen(T)] + g[T \ {Chosen(T)}]
  BY DEF Unfolds
<1>1. Summed(g, f, S)[T] = IF T = {} THEN 0 ELSE f[Chosen(T)] + g[T \ {Chosen(T)}]
  BY DEF Summed
<1>2. g[T] = IF T = {} THEN 0 ELSE f[Chosen(T)] + g[T \ {Chosen(T)}]
  BY <1>1 DEF AllSums
<1>3. T # {} => Chosen(T) \in T
  BY DEF Chosen
<1> QED
  BY <1>2, <1>3

Ints(f, S) == \A x \in S : f[x] \in Int

AnyOrder(g, f, S) ==
    \A T \in SUBSET S : g[T] \in Int /\ \A y \in T : g[T] = f[y] + g[T \ {y}]

\* A sum of integers is one, and its terms may be taken in any order.
LEMMA SummedInAnyOrder ==
    ASSUME NEW S, IsFiniteSet(S), NEW f, Ints(f, S), NEW g, AllSums(g, f, S)
    PROVE  AnyOrder(g, f, S)
<1>0. \A x \in S : f[x] \in Int
  BY DEF Ints
<1> DEFINE G == {T \in SUBSET S : g[T] \in Int}
<1>1. ASSUME NEW T \in SUBSET S, \A x \in T : T \ {x} \in G PROVE T \in G
  <2>1. /\ T = {} => g[T] = 0
        /\ T # {} => Chosen(T) \in T
        /\ T # {} => g[T] = f[Chosen(T)] + g[T \ {Chosen(T)}]
    <3>1. Unfolds(g, f, T)
      BY SummedUnfolds
    <3> QED
      BY <3>1 DEF Unfolds
  <2>2. ASSUME T # {} PROVE f[Chosen(T)] \in Int /\ g[T \ {Chosen(T)}] \in Int
    <3> DEFINE x == Chosen(T)
    <3>1. x \in T /\ x \in S
      BY <2>1, <2>2
    <3> HIDE DEF x
    <3>2. f[x] \in Int
      BY <1>0, <3>1
    <3>3. T \ {x} \in G
      BY <1>1, <3>1
    <3> QED
      BY <3>2, <3>3 DEF x
  <2> QED
    BY <2>1, <2>2
<1>2. \A T \in SUBSET S : g[T] \in Int
  <2>1. \A T \in SUBSET S : T \in G
    <3> HIDE DEF G
    <3> QED
      BY <1>1, SizeInduction
  <2> QED
    BY <2>1
<1> DEFINE H == {T \in SUBSET S : \A y \in T : g[T] = f[y] + g[T \ {y}]}
<1>3. ASSUME NEW T \in SUBSET S, \A x \in T : T \ {x} \in H PROVE T \in H
  <2>b. Unfolds(g, f, T)
    BY SummedUnfolds
  <2>a. T # {} => Chosen(T) \in T /\ g[T] = f[Chosen(T)] + g[T \ {Chosen(T)}]
    BY <2>b DEF Unfolds
  <2> SUFFICES ASSUME NEW y \in T, y # Chosen(T) PROVE g[T] = f[y] + g[T \ {y}]
    BY <2>a
  <2> DEFINE x == Chosen(T)
             U == (T \ {x}) \ {y}
  <2>1. x \in T /\ g[T] = f[x] + g[T \ {x}]
    BY <2>a
  <2>2. U = (T \ {y}) \ {x}
    OBVIOUS
  <2>3. g[T \ {x}] = f[y] + g[U]
    BY <1>3, <2>1
  <2>4. g[T \ {y}] = f[x] + g[U]
    BY <1>3, <2>1, <2>2
  <2>5. g[U] \in Int /\ f[x] \in Int /\ f[y] \in Int
    BY <1>0, <1>2, <2>1
  <2> QED
    BY <2>1, <2>3, <2>4, <2>5
<1>4. \A T \in SUBSET S : T \in H
  <2> HIDE DEF H
  <2> QED
    BY <1>3, SizeInduction
<1> QED
  BY <1>2, <1>4 DEF AnyOrder

Alike(f, e, S) == \A x \in S : f[x] = e[x]

LEMMA SumsAgree ==
    ASSUME NEW S, IsFiniteSet(S), NEW f, NEW e, Alike(f, e, S),
           NEW R, IsFiniteSet(R), S \subseteq R, NEW g, AllSums(g, f, S), NEW h, AllSums(h, e, R)
    PROVE  g[S] = h[S]
<1> DEFINE G == {T \in SUBSET S : g[T] = h[T]}
<1>1. ASSUME NEW T \in SUBSET S, \A x \in T : T \ {x} \in G PROVE T \in G
  <2>1. T \in SUBSET R
    OBVIOUS
  <2>2. /\ T = {} => g[T] = 0
        /\ T # {} => Chosen(T) \in T
        /\ T # {} => g[T] = f[Chosen(T)] + g[T \ {Chosen(T)}]
    <3>1. Unfolds(g, f, T)
      BY SummedUnfolds
    <3> QED
      BY <3>1 DEF Unfolds
  <2>3. /\ T = {} => h[T] = 0
        /\ T # {} => h[T] = e[Chosen(T)] + h[T \ {Chosen(T)}]
    <3>1. Unfolds(h, e, T)
      BY <2>1, SummedUnfolds
    <3> QED
      BY <3>1 DEF Unfolds
  <2> QED
    BY <1>1, <2>2, <2>3 DEF Alike
<1>2. \A T \in SUBSET S : T \in G
  <2> HIDE DEF G
  <2> QED
    BY <1>1, SizeInduction
<1> QED
  BY <1>2

LEMMA SumIsInt ==
    ASSUME NEW S, IsFiniteSet(S), NEW f, \A x \in S : f[x] \in Int
    PROVE  SumFunctionOnSet(f, S) \in Int
<1>1. PICK g : AllSums(g, f, S) /\ SumFunctionOnSet(f, S) = g[S]
  BY SumIsSummed
<1>2. Ints(f, S)
  BY DEF Ints
<1>3. AnyOrder(g, f, S)
  BY <1>1, <1>2, SummedInAnyOrder
<1> QED
  BY <1>1, <1>3 DEF AnyOrder

Parted(f, S, y, e) == SumFunctionOnSet(f, S) = f[y] + SumFunctionOnSet(e, S \ {y})

\* One term of a sum taken out, and the function restricted to the rest.
LEMMA SumWithout ==
    ASSUME NEW S, IsFiniteSet(S), NEW f, Ints(f, S), NEW y \in S, NEW e, Alike(e, f, S \ {y})
    PROVE  Parted(f, S, y, e)
<1>1. IsFiniteSet(S \ {y})
  BY FS_RemoveElement
<1>2. PICK g : AllSums(g, f, S) /\ SumFunctionOnSet(f, S) = g[S]
  BY SumIsSummed
<1>3. PICK h : AllSums(h, e, S \ {y}) /\ SumFunctionOnSet(e, S \ {y}) = h[S \ {y}]
  BY <1>1, SumIsSummed
<1>4. g[S] = f[y] + g[S \ {y}]
  <2>1. AnyOrder(g, f, S)
    BY <1>2, SummedInAnyOrder
  <2>2. S \in SUBSET S
    OBVIOUS
  <2> QED
    BY <2>1, <2>2 DEF AnyOrder
<1>5. h[S \ {y}] = g[S \ {y}]
  <2>1. S \ {y} \subseteq S
    OBVIOUS
  <2> QED
    BY <1>1, <1>2, <1>3, <2>1, SumsAgree
<1> QED
  BY <1>2, <1>3, <1>4, <1>5 DEF Parted

-----------------------------------------------------------------------------
(* Extremes, and the places of an order. *)

LEMMA PairExtremes ==
    ASSUME NEW a \in Int, NEW b \in Int
    PROVE  /\ Max({a, b}) \in Int /\ Max({a, b}) >= a /\ Max({a, b}) >= b
           /\ Max({a, b}) \in {a, b}
           /\ Min({a, b}) \in Int /\ Min({a, b}) <= a /\ Min({a, b}) <= b
           /\ Min({a, b}) \in {a, b}
<1>1. \E x \in {a, b} : \A y \in {a, b} : x >= y
  <2>1. CASE a >= b
    BY <2>1
  <2>2. CASE b >= a
    BY <2>2
  <2> QED
    BY <2>1, <2>2
<1>2. \E x \in {a, b} : \A y \in {a, b} : x =< y
  <2>1. CASE a >= b
    BY <2>1
  <2>2. CASE b >= a
    BY <2>2
  <2> QED
    BY <2>1, <2>2
<1>3. Max({a, b}) \in {a, b} /\ \A y \in {a, b} : Max({a, b}) >= y
  BY <1>1 DEF Max
<1>4. Min({a, b}) \in {a, b} /\ \A y \in {a, b} : Min({a, b}) =< y
  BY <1>2 DEF Min
<1> QED
  BY <1>3, <1>4

LEMMA AtLeastOne ==
    ASSUME NEW c \in Nat
    PROVE  Max({1, c}) \in Nat \ {0}
<1>1. Max({1, c}) \in Int /\ Max({1, c}) >= 1
  BY PairExtremes
<1> QED
  BY <1>1

LEMMA AtMostOne ==
    ASSUME NEW x \in Int
    PROVE  Min({One, x}) \in Int
<1>1. Min({1000, x}) \in Int
  BY PairExtremes
<1> QED
  BY <1>1 DEF One

LEMMA FiniteExtremes ==
    ASSUME NEW S \in SUBSET Int, IsFiniteSet(S), S # {}
    PROVE  /\ Max(S) \in S /\ \A y \in S : Max(S) >= y
           /\ Min(S) \in S /\ \A y \in S : Min(S) <= y
<1> DEFINE G == {T \in SUBSET S : T # {} => /\ \E m \in T : \A y \in T : m >= y
                                           /\ \E m \in T : \A y \in T : m =< y}
<1>1. ASSUME NEW T \in SUBSET S, \A x \in T : T \ {x} \in G PROVE T \in G
  <2> SUFFICES ASSUME T # {} PROVE T \in G
    OBVIOUS
  <2>1. PICK x \in T : TRUE
    OBVIOUS
  <2>2. CASE T = {x}
    BY <2>2
  <2>3. CASE T # {x}
    <3>1. T \ {x} # {} /\ T \ {x} \in G
      BY <1>1, <2>1, <2>3
    <3>2. PICK m \in T \ {x} : \A y \in T \ {x} : m >= y
      BY <3>1
    <3>3. PICK l \in T \ {x} : \A y \in T \ {x} : l =< y
      BY <3>1
    <3>4. x \in Int /\ m \in Int /\ l \in Int /\ T \subseteq Int
      OBVIOUS
    <3>5. \E k \in T : \A y \in T : k >= y
      <4>1. CASE x >= m
        BY <2>1, <3>2, <3>4, <4>1
      <4>2. CASE m >= x
        BY <2>1, <3>2, <3>4, <4>2
      <4> QED
        BY <3>4, <4>1, <4>2
    <3>6. \E k \in T : \A y \in T : k =< y
      <4>1. CASE x =< l
        BY <2>1, <3>3, <3>4, <4>1
      <4>2. CASE l =< x
        BY <2>1, <3>3, <3>4, <4>2
      <4> QED
        BY <3>4, <4>1, <4>2
    <3> QED
      BY <3>5, <3>6
  <2> QED
    BY <2>2, <2>3
<1>2. S \in G
  <2> HIDE DEF G
  <2> QED
    BY <1>1, SizeInduction
<1>3. /\ \E m \in S : \A y \in S : m >= y
      /\ \E m \in S : \A y \in S : m =< y
  BY <1>2
<1>4. Max(S) \in S /\ \A y \in S : Max(S) >= y
  BY <1>3 DEF Max
<1>5. Min(S) \in S /\ \A y \in S : Min(S) =< y
  BY <1>3 DEF Min
<1> QED
  BY <1>4, <1>5

\* Every place of a finite set ordered by a score is taken by one of its elements.
LEMMA PlacesTaken ==
    ASSUME NEW S \in SUBSET Int, IsFiniteSet(S), NEW key \in [S -> Int],
           NEW i \in 1 .. Cardinality(S)
    PROVE  \E n \in S : 1 + Cardinality({m \in S : Before(key, m, n)}) = i
<1> DEFINE Ahead(n) == {m \in S : Before(key, m, n)}
           place == [n \in S |-> 1 + Cardinality(Ahead(n))]
<1>1. Cardinality(S) \in Nat
  BY FS_CardinalityType
<1>2. \A n \in S : IsFiniteSet(Ahead(n)) /\ Cardinality(Ahead(n)) \in Nat
  <2> TAKE n \in S
  <2>1. Ahead(n) \in SUBSET S
    OBVIOUS
  <2> HIDE DEF Ahead
  <2> QED
    BY <2>1, FS_Subset, FS_CardinalityType
<1>3. ASSUME NEW m \in S, NEW n \in S, Before(key, m, n)
      PROVE  Cardinality(Ahead(m)) < Cardinality(Ahead(n))
  <2>1. m \notin Ahead(m) /\ Ahead(m) \cup {m} \in SUBSET Ahead(n)
    <3>1. m \notin Ahead(m) /\ m \in Ahead(n)
      BY <1>3 DEF Before
    <3>2. ASSUME NEW k \in Ahead(m) PROVE k \in Ahead(n)
      <4>1. key[k] \in Int /\ key[m] \in Int /\ key[n] \in Int /\ {k, m, n} \subseteq Int
        OBVIOUS
      <4>2. Before(key, k, n)
        BY <1>3, <4>1 DEF Before
      <4> QED
        BY <4>2
    <3> QED
      BY <3>1, <3>2
  <2> HIDE DEF Ahead
  <2>2. Cardinality(Ahead(m) \cup {m}) = Cardinality(Ahead(m)) + 1
    BY <1>2, <2>1, FS_AddElement
  <2>3. Cardinality(Ahead(m) \cup {m}) <= Cardinality(Ahead(n))
    BY <1>2, <2>1, FS_Subset
  <2> QED
    BY <1>2, <2>2, <2>3
<1>4. ASSUME NEW n \in S PROVE Cardinality(Ahead(n)) < Cardinality(S)
  <2>1. n \notin Ahead(n) /\ Ahead(n) \cup {n} \in SUBSET S
    BY DEF Before
  <2> HIDE DEF Ahead
  <2>2. Cardinality(Ahead(n) \cup {n}) = Cardinality(Ahead(n)) + 1
    BY <1>2, <2>1, FS_AddElement
  <2>3. Cardinality(Ahead(n) \cup {n}) <= Cardinality(S)
    BY <2>1, FS_Subset
  <2> QED
    BY <1>1, <1>2, <2>2, <2>3
<1> HIDE DEF Ahead
<1>5. place \in [S -> 1 .. Cardinality(S)]
  BY <1>1, <1>2, <1>4
<1>6. \A m, n \in S : place[m] = place[n] => m = n
  <2> SUFFICES ASSUME NEW m \in S, NEW n \in S, m # n PROVE place[m] # place[n]
    OBVIOUS
  <2>1. Before(key, m, n) \/ Before(key, n, m)
    BY DEF Before
  <2>2. Cardinality(Ahead(m)) # Cardinality(Ahead(n))
    BY <1>2, <1>3, <2>1
  <2> QED
    BY <1>2, <2>2
<1>7. place \in Injection(S, 1 .. Cardinality(S))
  BY <1>5, <1>6 DEF Injection, IsInjective
<1>8. IsFiniteSet(1 .. Cardinality(S)) /\ Cardinality(1 .. Cardinality(S)) = Cardinality(S)
  BY <1>1, FS_Interval
<1> HIDE DEF place
<1>9. place \in Surjection(S, 1 .. Cardinality(S))
  BY <1>7, <1>8, FS_Injection
<1>10. PICK n \in S : place[n] = i
  BY <1>9 DEF Surjection
<1> QED
  BY <1>10 DEF place, Ahead

-----------------------------------------------------------------------------
(* Finite sets of words, and integers. *)

LEMMA FiniteRange ==
    ASSUME NEW S, IsFiniteSet(S), NEW f
    PROVE  IsFiniteSet({f[x] : x \in S})
<1> DEFINE T == {f[x] : x \in S}
           g == [x \in S |-> f[x]]
<1>1. g \in Surjection(S, T)
  BY DEF Surjection
<1> QED
  BY <1>1, FS_Surjection

LEMMA FiniteToSet ==
    ASSUME NEW S, NEW s \in Seq(S)
    PROVE  IsFiniteSet(ToSet(s)) /\ ToSet(s) \subseteq S
<1>1. IsFiniteSet(DOMAIN s)
  BY FS_Interval
<1>2. IsFiniteSet({s[x] : x \in DOMAIN s})
  BY <1>1, FiniteRange
<1> QED
  BY <1>2 DEF ToSet

LEMMA Quotient ==
    ASSUME NEW a \in Int, NEW b \in Nat \ {0}
    PROVE  a \div b \in Int
OBVIOUS

LEMMA PercentIsInt ==
    ASSUME NEW p \in Int, NEW x \in Int
    PROVE  Percent(p, x) \in Int
BY DEF Percent

LEMMA ShareIsInt ==
    ASSUME NEW terms, IsFiniteSet(terms), NEW words
    PROVE  Share(terms, words) \in Int
<1>1. Cardinality(terms) \in Nat /\ Cardinality(terms \cap words) \in Nat
  BY FS_CardinalityType, FS_Intersection
<1>2. terms # {} => Cardinality(terms) # 0
  BY FS_EmptySet
<1>3. One * Cardinality(terms \cap words) \in Int /\ One \div 2 \in Int
  BY <1>1 DEF One
<1> QED
  BY <1>1, <1>2, <1>3, Quotient DEF Share

LEMMA WordsFinite ==
    ASSUME NEW n \in DOMAIN Notes
    PROVE  IsFiniteSet(WordsOf(n)) /\ WordsOf(n) \subseteq DOMAIN Lexicon
BY FiniteToSet, NotesAssumption DEF WordsOf

LEMMA StoredFinite ==
    ASSUME NEW S \in SUBSET DOMAIN Notes
    PROVE  IsFiniteSet(S) /\ S \subseteq Int
<1>1. IsFiniteSet(DOMAIN Notes) /\ DOMAIN Notes \subseteq Int
  BY NotesAssumption, FS_Interval
<1> QED
  BY <1>1, FS_Subset

\* The scores that a strategy gives to some of the notes of S.
Scorings(S) == UNION {[T -> Int] : T \in SUBSET S}

LEMMA ScoringIs ==
    ASSUME NEW S, NEW f \in Scorings(S)
    PROVE  DOMAIN f \in SUBSET S /\ f \in [DOMAIN f -> Int]
BY DEF Scorings

LEMMA IsScoring ==
    ASSUME NEW S, NEW T \in SUBSET S, NEW f \in [T -> Int]
    PROVE  f \in Scorings(S)
BY DEF Scorings

\* Scores of notes of S are scores of notes of every larger set.
LEMMA ScoringsOfMore ==
    ASSUME NEW S, NEW T, S \subseteq T, NEW f \in Scorings(S)
    PROVE  f \in Scorings(T)
<1>1. DOMAIN f \in SUBSET S /\ f \in [DOMAIN f -> Int]
  BY ScoringIs
<1>2. DOMAIN f \in SUBSET T
  BY <1>1
<1> QED
  BY <1>1, <1>2, IsScoring

LEMMA TableIs ==
    ASSUME NEW f
    PROVE  Table(f) = f
BY DEF Table

LEMMA TopIs ==
    ASSUME NEW S, NEW f \in Scorings(S), NEW most
    PROVE  Top(f, most) \in Scorings(S)
<1> DEFINE Placed(n) == Cardinality({m \in DOMAIN f : Before(f, m, n)})
           T == {m \in DOMAIN f : Placed(m) < most}
<1>1. Top(f, most) = [n \in T |-> f[n]]
  <2>1. Table(f) = f /\ Table([n \in T |-> f[n]]) = [n \in T |-> f[n]]
    BY TableIs
  <2>2. Top(f, most) = Table([n \in T |-> f[n]])
    BY <2>1, Zenon DEF Top
  <2> QED
    BY <2>1, <2>2
<1>2. T \in SUBSET S /\ T \subseteq DOMAIN f
  BY ScoringIs
<1> HIDE DEF T
<1>3. [n \in T |-> f[n]] \in [T -> Int]
  BY <1>2, ScoringIs
<1> QED
  BY <1>1, <1>2, <1>3, IsScoring

LEMMA SubsetOfSize ==
    ASSUME NEW T, IsFiniteSet(T), NEW k \in Nat, k <= Cardinality(T)
    PROVE  kSubset(k, T) # {}
<1> DEFINE G == {U \in SUBSET T : k <= Cardinality(U) => \E V \in SUBSET U : Cardinality(V) = k}
<1>1. ASSUME NEW U \in SUBSET T, \A x \in U : U \ {x} \in G PROVE U \in G
  <2> SUFFICES ASSUME k <= Cardinality(U) PROVE \E V \in SUBSET U : Cardinality(V) = k
    OBVIOUS
  <2>1. IsFiniteSet(U) /\ Cardinality(U) \in Nat
    BY FS_Subset, FS_CardinalityType
  <2>2. CASE k = Cardinality(U)
    BY <2>2
  <2>3. CASE k < Cardinality(U)
    <3>1. U # {}
      BY <2>1, <2>3, FS_EmptySet
    <3>2. PICK x \in U : TRUE
      BY <3>1
    <3>3. Cardinality(U \ {x}) = Cardinality(U) - 1
      BY <2>1, FS_RemoveElement
    <3>4. U \ {x} \in G /\ k <= Cardinality(U \ {x})
      BY <1>1, <2>1, <2>3, <3>3
    <3> QED
      BY <3>4
  <2> QED
    BY <2>1, <2>2, <2>3
<1>2. \A U \in SUBSET T : U \in G
  <2> HIDE DEF G
  <2> QED
    BY <1>1, SizeInduction
<1>3. PICK V \in SUBSET T : Cardinality(V) = k
  BY <1>2
<1>4. V \in kSubset(k, T)
  BY <1>3 DEF kSubset
<1> QED
  BY <1>4

LEMMA LimitedFinite ==
    ASSUME NEW T, IsFiniteSet(T), NEW most \in Nat
    PROVE  IsFiniteSet(Limited(T, most))
<1>1. Cardinality(T) \in Nat
  BY FS_CardinalityType
<1>2. CASE Cardinality(T) <= most
  BY <1>2 DEF Limited
<1>3. CASE ~(Cardinality(T) <= most)
  <2>1. kSubset(most, T) # {}
    BY <1>1, <1>3, SubsetOfSize
  <2>2. (CHOOSE kept \in kSubset(most, T) : TRUE) \in kSubset(most, T)
    BY <2>1
  <2>3. Limited(T, most) \in kSubset(most, T)
    BY <1>3, <2>2 DEF Limited
  <2>4. Limited(T, most) \in SUBSET T
    BY <2>3 DEF kSubset
  <2> QED
    BY <2>4, FS_Subset
<1> QED
  BY <1>2, <1>3

\* Terms are words of the lexicon, finitely many.
Terms(T) == IsFiniteSet(T) /\ T \subseteq DOMAIN Lexicon

LEMMA TermsUnion ==
    ASSUME NEW A, Terms(A), NEW B, Terms(B)
    PROVE  Terms(A \cup B)
BY FS_Union DEF Terms

LEMMA ConceptsAreTerms ==
    ASSUME NEW q \in Seq(DOMAIN Lexicon)
    PROVE  Terms(Intents(q)) /\ \A concept : Terms(ConceptTerms(q, concept))
<1>1. IsFiniteSet(ToSet(q)) /\ ToSet(q) \subseteq DOMAIN Lexicon
  BY FiniteToSet
<1>2. Terms(Intents(q))
  <2> DEFINE f == [w \in DOMAIN Lexicon |-> Lexicon[w].concepts]
             C == {f[w] : w \in ToSet(q)}
  <2>1. IsFiniteSet(C)
    BY <1>1, FiniteRange
  <2>2. \A T \in C : Terms(T)
    <3>1. \A w \in DOMAIN Lexicon : Terms(f[w])
      BY LexiconAssumption DEF Terms
    <3> HIDE DEF f
    <3> QED
      BY <1>1, <3>1
  <2>3. Intents(q) = UNION C
    BY <1>1 DEF Intents
  <2> HIDE DEF C
  <2>4. IsFiniteSet(UNION C)
    BY <2>1, <2>2, FS_UNION DEF Terms
  <2> QED
    BY <2>2, <2>3, <2>4 DEF Terms
<1>3. ASSUME NEW concept PROVE Terms(ConceptTerms(q, concept))
  <2> DEFINE said == {w \in ToSet(q) : concept \in Lexicon[w].concepts}
  <2>1. said \in SUBSET ToSet(q)
    OBVIOUS
  <2>2. Terms(said)
    BY <1>1, <2>1, FS_Subset DEF Terms
  <2>3. said # {} => concept \in DOMAIN Lexicon
    BY <1>1, LexiconAssumption
  <2>4. ConceptTerms(q, concept) = IF said = {} THEN {} ELSE said \cup {concept}
    BY DEF ConceptTerms
  <2> HIDE DEF said
  <2>5. Terms({}) /\ IsFiniteSet(said \cup {concept})
    BY <2>2, FS_EmptySet, FS_AddElement DEF Terms
  <2> QED
    BY <2>2, <2>3, <2>4, <2>5 DEF Terms
<1> QED
  BY <1>2, <1>3

\* What the strategies read of a query's analysis.
Analysed(a) ==
    /\ Terms(a.entities) /\ Terms(a.keywords) /\ Terms(a.intents) /\ Terms(a.relations)
    /\ Terms(a.wishes) /\ Terms(a.attributes) /\ Terms(a.events) /\ Terms(a.times)

LEMMA AnalysisIs ==
    ASSUME NEW q \in Seq(DOMAIN Lexicon)
    PROVE  Analysed(Analyse(q)) /\ Terms(Times(q)) /\ Terms(ToSet(q))
<1>1. Terms(ToSet(q))
  BY FiniteToSet DEF Terms
<1>2. \A T \in SUBSET ToSet(q) : Terms(T)
  BY <1>1, FS_Subset DEF Terms
<1>3. Terms({w \in ToSet(q) : Lexicon[w].name}) /\ Terms({w \in ToSet(q) : Lexicon[w].keyword})
  BY <1>2
<1>4. Terms(Times(q))
  BY <1>2 DEF Times
<1> QED
  BY <1>1, <1>3, <1>4, ConceptsAreTerms DEF Analyse, Analysed

-----------------------------------------------------------------------------
(* The strategies score notes of what they search, by integers. *)

LEMMA ExpandedFinite ==
    ASSUME NEW a, Analysed(a)
    PROVE  IsFiniteSet(Expanded(a)) /\ IsFiniteSet(Required(a))
<1> DEFINE sources == a.keywords \cup a.relations \cup a.wishes
                      \cup a.attributes \cup a.events \cup a.intents \cup a.times
<1>1. Terms(sources)
  BY TermsUnion DEF Analysed
<1>2. IsFiniteSet(Expanded(a))
  <2> DEFINE f == [w \in DOMAIN Lexicon |-> Limited(Lexicon[w].expands, MaxPerSource)]
             E == {f[w] : w \in sources}
  <2>1. \A w \in DOMAIN Lexicon : IsFiniteSet(f[w])
    BY LimitedFinite, LexiconAssumption, LimitAssumption
  <2>2. Expanded(a) = Limited(UNION E, MaxExpansions)
    BY <1>1 DEF Expanded, Terms
  <2> HIDE DEF f, sources
  <2>3. IsFiniteSet(E) /\ \A T \in E : IsFiniteSet(T)
    BY <1>1, <2>1, FiniteRange DEF Terms
  <2>4. IsFiniteSet(UNION E)
    BY <2>3, FS_UNION
  <2> QED
    BY <2>2, <2>4, LimitedFinite, LimitAssumption
<1>3. IsFiniteSet(Required(a))
  <2> DEFINE last == IF "relationship" \in a.intents THEN Lexicon["relationship"].expands
                     ELSE IF "identity" \in a.intents THEN a.attributes ELSE {}
             first == a.relations \cup a.wishes \cup a.events
  <2>1. "relationship" \in a.intents => IsFiniteSet(Lexicon["relationship"].expands)
    BY LexiconAssumption DEF Analysed, Terms
  <2>2. IsFiniteSet(last)
    BY <2>1, FS_EmptySet DEF Analysed, Terms
  <2>3. IsFiniteSet(first)
    BY TermsUnion DEF Analysed, Terms
  <2>4. Required(a) = first \cup last
    BY DEF Required
  <2> HIDE DEF first, last
  <2> QED
    BY <2>2, <2>3, <2>4, FS_Union
<1> QED
  BY <1>2, <1>3

LEMMA DenseIs ==
    ASSUME NEW S \in SUBSET DOMAIN Notes, NEW q \in Queries
    PROVE  Dense(q, S) \in Scorings(S)
<1>1. \A n \in S : Similarity(q, n) \in Int
  <2> TAKE n \in S
  <2>1. n \in DOMAIN Notes
    OBVIOUS
  <2>2. Similarity(q, n) \in -One .. One
    BY <2>1, QueryAssumption
  <2> QED
    BY <2>2 DEF One
<1>2. Dense(q, S) \in [S -> Int]
  BY <1>1 DEF Dense, One
<1> QED
  BY <1>2, IsScoring

LEMMA SparseIs ==
    ASSUME NEW S \in SUBSET DOMAIN Notes, NEW q \in Seq(DOMAIN Lexicon), NEW a, Analysed(a)
    PROVE  Sparse(a, q, S) \in Scorings(S)
<1> DEFINE terms == UNION {a.keywords, a.entities, a.relations, a.wishes,
                           a.attributes, a.events, a.intents, a.times,
                           Expanded(a), ToSet(q)}
           Hits(n) == Cardinality(terms \cap WordsOf(n))
           Lex(n) == Min({One, (Hits(n) * 1500) \div Max({1, Cardinality(terms)})})
           Gain(n) == Min({One, Percent(40, Lex(n))
                                 + Percent(50, Share(Required(a), WordsOf(n)))
                                 + Percent(10, Share(a.entities, WordsOf(n)))})
           T == {m \in S : Hits(m) > 0 \/ Share(Required(a), WordsOf(m)) > 0}
<1>1. Sparse(a, q, S) = [n \in T |-> Gain(n)]
  BY DEF Sparse
<1>2. IsFiniteSet(terms)
  <2> DEFINE parts == {a.keywords, a.entities, a.relations, a.wishes, a.attributes, a.events,
                       a.intents, a.times, Expanded(a), ToSet(q)}
  <2>1. \A P \in parts : IsFiniteSet(P)
    BY ExpandedFinite, FiniteToSet DEF Analysed, Terms
  <2>2. IsFiniteSet(parts)
    <3> DEFINE s == <<a.keywords, a.entities, a.relations, a.wishes, a.attributes, a.events,
                      a.intents, a.times, Expanded(a), ToSet(q)>>
    <3>1. parts = {s[i] : i \in 1 .. 10}
      OBVIOUS
    <3>2. IsFiniteSet(1 .. 10)
      <4>1. 1 \in Int /\ 10 \in Int
        OBVIOUS
      <4> QED
        BY <4>1, FS_Interval, Zenon
    <3> HIDE DEF s, parts
    <3>3. IsFiniteSet({s[i] : i \in 1 .. 10})
      BY <3>2, FiniteRange, Zenon
    <3> QED
      BY <3>1, <3>3
  <2> QED
    BY <2>1, <2>2, FS_UNION
<1> HIDE DEF terms
<1>3. Cardinality(terms) \in Nat
  BY <1>2, FS_CardinalityType
<1>4. Max({1, Cardinality(terms)}) \in Nat \ {0}
  BY <1>3, AtLeastOne
<1>5. ASSUME NEW n \in S PROVE Gain(n) \in Int
  <2>1. Hits(n) \in Nat
    BY <1>2, FS_Intersection, FS_CardinalityType
  <2> DEFINE part == (Hits(n) * 1500) \div Max({1, Cardinality(terms)})
  <2>2. part \in Int
    BY <1>4, <2>1, Quotient
  <2>3. Lex(n) \in Int
    <3> HIDE DEF part
    <3>1. Min({One, part}) \in Int
      BY <2>2, AtMostOne
    <3> QED
      BY <3>1 DEF part
  <2> HIDE DEF Hits, Lex
  <2>4. /\ Share(Required(a), WordsOf(n)) \in Int
        /\ Share(a.entities, WordsOf(n)) \in Int
    BY ShareIsInt, ExpandedFinite DEF Analysed, Terms
  <2>5. /\ Percent(40, Lex(n)) \in Int
        /\ Percent(50, Share(Required(a), WordsOf(n))) \in Int
        /\ Percent(10, Share(a.entities, WordsOf(n))) \in Int
    <3>1. 40 \in Int /\ 50 \in Int /\ 10 \in Int
      OBVIOUS
    <3> QED
      BY <2>3, <2>4, <3>1, PercentIsInt, Zenon
  <2>6. Percent(40, Lex(n)) + Percent(50, Share(Required(a), WordsOf(n)))
            + Percent(10, Share(a.entities, WordsOf(n))) \in Int
    BY <2>5
  <2> QED
    BY <2>6, AtMostOne, Zenon
<1> HIDE DEF Gain
<1>6. T \in SUBSET S /\ [n \in T |-> Gain(n)] \in [T -> Int]
  BY <1>5
<1> QED
  BY <1>1, <1>6, IsScoring

LEMMA TemporalIs ==
    ASSUME NEW S \in SUBSET DOMAIN Notes, NEW q \in Seq(DOMAIN Lexicon)
    PROVE  Temporal(q, S) \in Scorings(S)
<1> DEFINE Said(n) == IF Times(q) = {} THEN 0 ELSE Share(Times(q), WordsOf(n))
           Gain(n) == Max({Percent(35, One - Notes[n].age), Said(n)})
<1>1. ASSUME NEW n \in S PROVE Gain(n) \in Int
  <2>1. Said(n) \in Int
    BY AnalysisIs, ShareIsInt DEF Terms
  <2>2. One - Notes[n].age \in Int
    BY NotesAssumption DEF One
  <2>3. Percent(35, One - Notes[n].age) \in Int
    BY <2>2 DEF Percent
  <2> HIDE DEF Said
  <2> QED
    BY <2>1, <2>3, PairExtremes, Zenon
<1>2. CASE Times(q) = {} /\ "temporal" \notin Intents(q)
  <2>1. Temporal(q, S) = <<>>
    BY <1>2 DEF Temporal
  <2>2. <<>> \in [{} -> Int]
    OBVIOUS
  <2> QED
    BY <2>1, <2>2, IsScoring
<1>3. CASE ~(Times(q) = {} /\ "temporal" \notin Intents(q))
  <2>1. Temporal(q, S) = [n \in S |-> Gain(n)]
    BY <1>3 DEF Temporal
  <2> HIDE DEF Gain
  <2>2. [n \in S |-> Gain(n)] \in [S -> Int]
    BY <1>1
  <2> QED
    BY <2>1, <2>2, IsScoring
<1> QED
  BY <1>2, <1>3

LEMMA MaxIsInt ==
    ASSUME NEW base \in Int, NEW D, IsFiniteSet(D), NEW f, \A x \in D : f[x] \in Int
    PROVE  Max({base} \cup {f[x] : x \in D}) \in Int
<1> DEFINE F == {f[x] : x \in D}
           S == {base} \cup F
<1>1. IsFiniteSet(F)
  BY FiniteRange
<1>2. F \in SUBSET Int
  OBVIOUS
<1> HIDE DEF F
<1>3. IsFiniteSet(F \cup {base})
  BY <1>1, FS_AddElement
<1>4. S = F \cup {base} /\ S \in SUBSET Int /\ S # {}
  BY <1>2
<1> HIDE DEF S
<1>5. Max(S) \in S
  BY <1>3, <1>4, FiniteExtremes
<1> QED
  BY <1>4, <1>5 DEF S, F

LEMMA EdgeIsInt ==
    ASSUME NEW m \in DOMAIN Notes, NEW n \in DOMAIN Notes
    PROVE  Edge(m, n) \in Int
<1> DEFINE common == WordsOf(m) \cap WordsOf(n)
<1>1. Cardinality(common) \in Nat
  BY WordsFinite, FS_Intersection, FS_CardinalityType
<1> DEFINE weight == 350 + 200 * Cardinality(common)
<1>2. weight \in Int
  BY <1>1
<1> HIDE DEF weight
<1>3. Min({One, weight}) \in Int
  BY <1>2, AtMostOne
<1> QED
  BY <1>3 DEF Edge, weight

LEMMA NearIsInt ==
    ASSUME NEW S \in SUBSET DOMAIN Notes, NEW seed \in S, NEW n \in S
    PROVE  Near(seed, n, S) \in Int
<1> DEFINE f == [k \in S |-> Percent(75, (Edge(seed, k) * Edge(k, n)) \div One)]
<1>1. ASSUME NEW k \in S PROVE f[k] \in Int
  <2>1. Edge(seed, k) \in Int /\ Edge(k, n) \in Int
    BY EdgeIsInt
  <2>2. (Edge(seed, k) * Edge(k, n)) \div One \in Int
    BY <2>1 DEF One
  <2> QED
    BY <2>2 DEF Percent
<1>2. Edge(seed, n) \in Int
  BY EdgeIsInt
<1>3. {f[k] : k \in S} = {Percent(75, (Edge(seed, k) * Edge(k, n)) \div One) : k \in S}
  OBVIOUS
<1> HIDE DEF f
<1>4. Max({Edge(seed, n)} \cup {f[k] : k \in S}) \in Int
  BY <1>1, <1>2, StoredFinite, MaxIsInt
<1>5. One \in Int
  BY DEF One
<1> QED
  BY <1>3, <1>4, <1>5, Zenon DEF Near

LEMMA CentralityIsInt ==
    ASSUME NEW S \in SUBSET DOMAIN Notes, NEW n \in S
    PROVE  Centrality(n, S) \in Int
<1> DEFINE linked == {m \in S \ {n} : Linked(m, n)}
           others == Cardinality(S) - 1
<1>1. IsFiniteSet(S)
  BY StoredFinite
<1>2. Cardinality(S) \in Nat /\ others \in Int
  BY <1>1, FS_CardinalityType
<1>3. linked \in SUBSET S
  OBVIOUS
<1> HIDE DEF linked, others
<1>4. One * Cardinality(linked) \in Int
  BY <1>1, <1>3, FS_Subset, FS_CardinalityType DEF One
<1>5. Max({1, others}) \in Nat \ {0}
  <2>1. Max({1, others}) \in Int /\ Max({1, others}) >= 1
    BY <1>2, PairExtremes
  <2> QED
    BY <2>1
<1>6. (One * Cardinality(linked)) \div Max({1, others}) \in Int
  BY <1>4, <1>5, Quotient
<1> QED
  BY <1>6 DEF Centrality, linked, others

LEMMA GraphIs ==
    ASSUME NEW S \in SUBSET DOMAIN Notes, NEW seeds \in Scorings(S)
    PROVE  Graph(seeds, S) \in Scorings(S)
<1> DEFINE Reach(s, n) ==
             LET near == Near(s, n, S)
             IN  IF near = 0 THEN 0
                 ELSE Percent(90, (near * seeds[s]) \div One) + Percent(10, Centrality(n, S))
           Best(n) == Max({0} \cup {Reach(s, n) : s \in DOMAIN seeds})
           best == [n \in S |-> Best(n)]
           T == {m \in S : best[m] > 0}
<1>1. Graph(seeds, S) = [n \in T |-> best[n]]
  BY TableIs DEF Graph
<1>2. DOMAIN seeds \in SUBSET S /\ IsFiniteSet(DOMAIN seeds) /\ \A s \in DOMAIN seeds : seeds[s] \in Int
  <2>1. DOMAIN seeds \in SUBSET S /\ seeds \in [DOMAIN seeds -> Int]
    BY ScoringIs
  <2> QED
    BY <2>1, StoredFinite, FS_Subset
<1>3. ASSUME NEW n \in S PROVE Best(n) \in Int
  <2> DEFINE f == [s \in DOMAIN seeds |-> Reach(s, n)]
  <2>1. ASSUME NEW s \in DOMAIN seeds PROVE f[s] \in Int
    <3>1. Near(s, n, S) \in Int /\ seeds[s] \in Int /\ Centrality(n, S) \in Int
      BY <1>2, NearIsInt, CentralityIsInt
    <3>2. (Near(s, n, S) * seeds[s]) \div One \in Int
      BY <3>1 DEF One
    <3> QED
      BY <3>1, <3>2 DEF Percent
  <2>2. {f[s] : s \in DOMAIN seeds} = {Reach(s, n) : s \in DOMAIN seeds}
    OBVIOUS
  <2> HIDE DEF f, Reach
  <2>3. 0 \in Int
    OBVIOUS
  <2>4. Max({0} \cup {f[s] : s \in DOMAIN seeds}) \in Int
    BY <1>2, <2>1, <2>3, MaxIsInt
  <2> QED
    BY <2>2, <2>4
<1> HIDE DEF Best
<1>4. T \in SUBSET S /\ [n \in T |-> best[n]] \in [T -> Int]
  BY <1>3
<1> QED
  BY <1>1, <1>4, IsScoring

LEMMA SeedsAre ==
    ASSUME NEW S \in SUBSET DOMAIN Notes, NEW dense \in Scorings(S), NEW sparse \in Scorings(S)
    PROVE  Seeds(dense, sparse) \in Scorings(S)
<1> DEFINE Of(f, n) == IF n \in DOMAIN f THEN f[n] ELSE 0
           T == DOMAIN dense \cup DOMAIN sparse
           f == [n \in T |-> Max({Of(dense, n), Of(sparse, n)})]
<1>1. /\ DOMAIN dense \in SUBSET S /\ dense \in [DOMAIN dense -> Int]
      /\ DOMAIN sparse \in SUBSET S /\ sparse \in [DOMAIN sparse -> Int]
  BY ScoringIs
<1>2. ASSUME NEW n \in T PROVE Max({Of(dense, n), Of(sparse, n)}) \in Int
  <2>1. Of(dense, n) \in Int /\ Of(sparse, n) \in Int
    BY <1>1
  <2> HIDE DEF Of
  <2> QED
    BY <2>1, PairExtremes
<1>3. T \in SUBSET S /\ f \in [T -> Int]
  BY <1>1, <1>2
<1> HIDE DEF f
<1>4. f \in Scorings(S)
  BY <1>3, IsScoring
<1> QED
  BY <1>4, TopIs DEF Seeds, f

-----------------------------------------------------------------------------
(* Fusion, boost and reranking keep to the notes that the strategies found. *)

Four == {"dense", "sparse", "temporal", "graph"}

LEMMA NormalisedIs ==
    ASSUME NEW S \in SUBSET DOMAIN Notes, NEW f \in Scorings(S)
    PROVE  Normalised(f) \in Scorings(S)
<1> DEFINE low  == Min(Range(f))
           high == Max(Range(f))
           flat == f = <<>> \/ high <= low
           even == [n \in DOMAIN f |-> (One * (f[n] - low)) \div (high - low)]
<1>1. Normalised(f) = IF flat THEN f ELSE even
  BY TableIs DEF Normalised
<1>2. DOMAIN f \in SUBSET S /\ f \in [DOMAIN f -> Int]
  BY ScoringIs
<1>3. CASE ~flat
  <2>1. DOMAIN f # {}
    <3> SUFFICES ASSUME DOMAIN f = {} PROVE f = <<>>
      BY <1>3
    <3> QED
      BY <1>2
  <2>2. Range(f) \in SUBSET Int /\ Range(f) # {}
    BY <1>2, <2>1 DEF Range
  <2>3. IsFiniteSet(Range(f))
    BY <1>2, StoredFinite, FS_Subset, FiniteRange DEF Range
  <2>4. low \in Int /\ high \in Int
    BY <2>2, <2>3, FiniteExtremes
  <2> HIDE DEF low, high
  <2>5. high - low \in Nat \ {0}
    BY <1>3, <2>4
  <2>6. ASSUME NEW n \in DOMAIN f PROVE (One * (f[n] - low)) \div (high - low) \in Int
    <3>1. One * (f[n] - low) \in Int
      BY <1>2, <2>4 DEF One
    <3> QED
      BY <2>5, <3>1, Quotient
  <2>7. even \in [DOMAIN f -> Int]
    BY <2>6
  <2> HIDE DEF even
  <2>8. even \in Scorings(S)
    BY <1>2, <2>7, IsScoring
  <2> QED
    BY <1>1, <1>3, <2>8
<1> QED
  BY <1>1, <1>3

\* Every strategy keeps to the open notes but the graph's, which keeps to the stored ones.
LEMMA CandidatesAre ==
    ASSUME NEW G \in SUBSET DOMAIN Notes, NEW S \in SUBSET G,
           NEW q \in Queries, q \in Seq(DOMAIN Lexicon),
           NEW a, Analysed(a), NEW seeds \in Scorings(S), NEW s \in Four
    PROVE  /\ Candidates(s, q, a, seeds, S, G) \in Scorings(G)
           /\ s # "graph" => Candidates(s, q, a, seeds, S, G) \in Scorings(S)
<1>0. S \in SUBSET DOMAIN Notes /\ seeds \in Scorings(G)
  BY ScoringsOfMore
<1>1. /\ Dense(q, S) \in Scorings(S)
      /\ Sparse(a, q, S) \in Scorings(S)
      /\ Temporal(q, S) \in Scorings(S)
      /\ Graph(seeds, G) \in Scorings(G)
  BY <1>0, DenseIs, SparseIs, TemporalIs, GraphIs
<1> DEFINE found == CASE s = "dense"    -> Dense(q, S)
                      [] s = "sparse"   -> Sparse(a, q, S)
                      [] s = "temporal" -> Temporal(q, S)
                      [] s = "graph"    -> Graph(seeds, G)
           most == Max({TopK, PoolSize})
<1>2. Candidates(s, q, a, seeds, S, G) = Top(found, most)
  BY DEF Candidates
<1>3. CASE s # "graph"
  <2>1. found \in Scorings(S)
    BY <1>1, <1>3 DEF Four
  <2> HIDE DEF found, most
  <2>2. Top(found, most) \in Scorings(S)
    BY <2>1, TopIs
  <2> QED
    BY <1>2, <1>3, <2>2, ScoringsOfMore
<1>4. CASE s = "graph"
  <2>1. found \in Scorings(G)
    BY <1>1, <1>4
  <2> HIDE DEF found, most
  <2>2. Top(found, most) \in Scorings(G)
    BY <2>1, TopIs
  <2> QED
    BY <1>2, <1>4, <2>2
<1> QED
  BY <1>3, <1>4

\* A stage between gathering and fusion: the scores of each strategy.
Scores4(by, S) == DOMAIN by \in SUBSET Four /\ \A s \in DOMAIN by : by[s] \in Scorings(S)

\* What a search of a profile may return.
Citable(profile, open, all) == IF profile = "simple_rag" THEN open ELSE all

LEMMA ScoredAre ==
    ASSUME NEW G \in SUBSET DOMAIN Notes, NEW S \in SUBSET G,
           NEW q \in Queries, q \in Seq(DOMAIN Lexicon),
           NEW a, Analysed(a), NEW seeds \in Scorings(S), NEW p \in {"simple_rag", "prima_full"}
    PROVE  Scores4(Scored(q, a, p, seeds, S, G), Citable(p, S, G))
<1>1. Selected(p) \in SUBSET Four /\ (p = "simple_rag" => "graph" \notin Selected(p))
  <2>1. ToSet(Strategies) = Four
    BY DEF ToSet, Strategies, Four
  <2> QED
    BY <2>1 DEF Selected, Four
<1> DEFINE c(s) == Candidates(s, q, a, seeds, S, G)
<1>2. Scored(q, a, p, seeds, S, G) = [s \in Selected(p) |-> Normalised(c(s))]
  BY TableIs DEF Scored
<1>3. ASSUME NEW s \in Selected(p) PROVE Normalised(c(s)) \in Scorings(Citable(p, S, G))
  <2>1. c(s) \in Scorings(G) /\ (s # "graph" => c(s) \in Scorings(S))
    BY <1>1, CandidatesAre
  <2>2. c(s) \in Scorings(Citable(p, S, G)) /\ Citable(p, S, G) \in SUBSET DOMAIN Notes
    BY <1>1, <2>1 DEF Citable
  <2> HIDE DEF c
  <2> QED
    BY <2>2, NormalisedIs
<1> HIDE DEF c
<1> QED
  BY <1>1, <1>2, <1>3 DEF Scores4

LEMMA FusedIs ==
    ASSUME NEW S \in SUBSET DOMAIN Notes, NEW by, Scores4(by, S)
    PROVE  Fuse(by) \in Scorings(S)
<1> DEFINE D == DOMAIN by
           weights == [s \in D |-> Weight(s)]
           total == SumFunction(weights)
           Of(n) == [s \in D |-> IF n \in DOMAIN by[s] THEN Weight(s) * by[s][n] ELSE 0]
           T == UNION {DOMAIN by[s] : s \in D}
           Mean(n) == SumFunction(Of(n)) \div Max({1, total})
           f == [n \in T |-> Min({One, Mean(n)})]
<1>1. IsFiniteSet(D) /\ \A s \in D : Weight(s) \in Int
  <2>1. IsFiniteSet(Four)
    <3> DEFINE s == <<"dense", "sparse", "temporal", "graph">>
    <3>1. Four = {s[i] : i \in 1 .. 4}
      BY DEF Four
    <3> HIDE DEF s
    <3>2. 1 \in Int /\ 4 \in Int
      OBVIOUS
    <3>3. IsFiniteSet(1 .. 4)
      BY <3>2, FS_Interval, Zenon
    <3>4. IsFiniteSet({s[i] : i \in 1 .. 4})
      BY <3>3, FiniteRange, Zenon
    <3> QED
      BY <3>1, <3>4
  <2> QED
    BY <2>1, FS_Subset DEF Scores4, Four, Weight
<1>2. total \in Int
  <2>1. DOMAIN weights = D /\ \A s \in D : weights[s] \in Int
    BY <1>1
  <2> HIDE DEF weights
  <2> QED
    BY <1>1, <2>1, SumIsInt DEF SumFunction
<1>3. Max({1, total}) \in Nat \ {0}
  <2> HIDE DEF total
  <2>1. 1 \in Int
    OBVIOUS
  <2>2. Max({1, total}) \in Int /\ Max({1, total}) >= 1
    BY <1>2, <2>1, PairExtremes, Zenon
  <2> QED
    BY <2>2
<1>4. ASSUME NEW n PROVE Min({One, Mean(n)}) \in Int
  <2> DEFINE g == Of(n)
  <2>1. DOMAIN g = D /\ \A s \in D : g[s] \in Int
    <3>1. ASSUME NEW s \in D, n \in DOMAIN by[s] PROVE by[s][n] \in Int
      <4>1. by[s] \in Scorings(S)
        BY DEF Scores4
      <4>2. by[s] \in [DOMAIN by[s] -> Int]
        BY <4>1, ScoringIs
      <4> QED
        BY <3>1, <4>2
    <3> QED
      BY <1>1, <3>1
  <2> HIDE DEF g
  <2>2. SumFunction(g) \in Int
    BY <1>1, <2>1, SumIsInt DEF SumFunction
  <2> HIDE DEF total
  <2> DEFINE mean == SumFunction(g) \div Max({1, total})
  <2>3. mean \in Int
    BY <1>3, <2>2, Quotient
  <2> HIDE DEF mean
  <2>4. Min({One, mean}) \in Int
    BY <2>3, AtMostOne
  <2> QED
    BY <2>4 DEF mean, g
<1>5. T \in SUBSET S
  <2>1. \A s \in D : DOMAIN by[s] \in SUBSET S
    <3> TAKE s \in D
    <3>1. by[s] \in Scorings(S)
      BY DEF Scores4
    <3> QED
      BY <3>1, ScoringIs
  <2> QED
    BY <2>1
<1> HIDE DEF T, Mean
<1>6. f \in [T -> Int]
  BY <1>4
<1> HIDE DEF f
<1>7. f \in Scorings(S)
  BY <1>5, <1>6, IsScoring
<1>8. Top(f, Max({TopK, PoolSize})) \in Scorings(S)
  BY <1>7, TopIs
<1> QED
  BY <1>8 DEF Fuse, f, T, Mean

LEMMA GatheredIs ==
    ASSUME NEW S \in SUBSET DOMAIN Notes, NEW q \in Queries, q \in Seq(DOMAIN Lexicon),
           NEW a, Analysed(a)
    PROVE  Gathered(a, q, S).dense \in Scorings(S) /\ Gathered(a, q, S).sparse \in Scorings(S)
<1>1. Dense(q, S) \in Scorings(S) /\ Sparse(a, q, S) \in Scorings(S)
  BY DenseIs, SparseIs
<1>2. Top(Dense(q, S), 6) \in Scorings(S) /\ Top(Sparse(a, q, S), 6) \in Scorings(S)
  BY <1>1, TopIs
<1> QED
  BY <1>2 DEF Gathered

LEMMA BoostIs ==
    ASSUME NEW S \in SUBSET DOMAIN Notes, NEW fused \in Scorings(S), NEW a, Analysed(a)
    PROVE  Boost(a, fused) \in Scorings(S)
<1> DEFINE Meaning(n) == Percent(30, Share(a.entities, WordsOf(n)))
                         + Percent(25, Share(a.relations \cup a.intents, WordsOf(n)))
                         + Percent(25, Share(a.wishes \cup a.attributes \cup a.events, WordsOf(n)))
                         + Percent(20, Agreement(a, n))
           f == [n \in DOMAIN fused |-> Min({One, fused[n] + Percent(8, Meaning(n))})]
<1>1. Boost(a, fused) = f
  BY TableIs DEF Boost
<1>2. DOMAIN fused \in SUBSET S /\ fused \in [DOMAIN fused -> Int]
  BY ScoringIs
<1>3. ASSUME NEW n PROVE Meaning(n) \in Int
  <2>1. /\ Share(a.entities, WordsOf(n)) \in Int
        /\ Share(a.relations \cup a.intents, WordsOf(n)) \in Int
        /\ Share(a.wishes \cup a.attributes \cup a.events, WordsOf(n)) \in Int
    BY ShareIsInt, TermsUnion DEF Analysed, Terms
  <2>2. Agreement(a, n) \in Int
    BY DEF Agreement, Percent, One
  <2> QED
    BY <2>1, <2>2 DEF Percent
<1>4. ASSUME NEW n \in DOMAIN fused PROVE Min({One, fused[n] + Percent(8, Meaning(n))}) \in Int
  <2> DEFINE x == fused[n] + Percent(8, Meaning(n))
  <2>1. x \in Int
    <3> HIDE DEF Meaning
    <3> QED
      BY <1>2, <1>3 DEF Percent
  <2> HIDE DEF x
  <2>2. Min({One, x}) \in Int
    BY <2>1, AtMostOne
  <2> QED
    BY <2>2 DEF x
<1> HIDE DEF Meaning
<1>5. f \in [DOMAIN fused -> Int]
  BY <1>4
<1> QED
  BY <1>1, <1>2, <1>5, IsScoring

LEMMA LexicalIsInt ==
    ASSUME NEW q \in Seq(DOMAIN Lexicon), NEW n \in DOMAIN Notes, NEW score \in Int
    PROVE  Lexical(q, n, score) \in Int
<1> DEFINE asked1 == {w \in ToSet(q) : Lexicon[w].keyword}
           both == Cardinality(asked1 \cap WordsOf(n))
<1>1. IsFiniteSet(asked1) /\ IsFiniteSet(WordsOf(n))
  <2>1. asked1 \in SUBSET ToSet(q) /\ IsFiniteSet(ToSet(q))
    BY FiniteToSet
  <2> QED
    BY <2>1, FS_Subset, WordsFinite
<1> HIDE DEF asked1
<1>2. both \in Nat
  BY <1>1, FS_Intersection, FS_CardinalityType
<1> HIDE DEF both
<1>3. CASE asked1 = {} \/ WordsOf(n) = {}
  BY <1>3 DEF Lexical, asked1
<1>4. CASE ~(asked1 = {} \/ WordsOf(n) = {})
  <2>1. Cardinality(asked1) \in Nat \ {0} /\ Cardinality(WordsOf(n)) \in Nat \ {0}
    BY <1>1, <1>4, FS_EmptySet, FS_CardinalityType
  <2>2. One * both \in Int
    BY <1>2 DEF One
  <2>3. (One * both) \div Cardinality(asked1) \in Int /\ (One * both) \div Cardinality(WordsOf(n)) \in Int
    BY <2>1, <2>2, Quotient
  <2>4. /\ Percent(45, score) \in Int
        /\ Percent(35, (One * both) \div Cardinality(asked1)) \in Int
        /\ Percent(10, (One * both) \div Cardinality(WordsOf(n))) \in Int
        /\ Percent(10, (One * both) \div Cardinality(asked1)) \in Int
    BY <2>3 DEF Percent
  <2>5. Percent(45, score) + Percent(35, (One * both) \div Cardinality(asked1))
          + Percent(10, (One * both) \div Cardinality(WordsOf(n)))
          + Percent(10, (One * both) \div Cardinality(asked1)) \in Int
    BY <2>4
  <2> QED
    BY <1>4, <2>5, Zenon DEF Lexical, asked1, both
<1> QED
  BY <1>3, <1>4

\* The reranked pool lists the scored notes, because every place has its note.
LEMMA RerankedAre ==
    ASSUME NEW S \in SUBSET DOMAIN Notes, NEW q \in Seq(DOMAIN Lexicon), NEW scores \in Scorings(S)
    PROVE  Rerank(q, scores) \in Seq(S)
<1> DEFINE key == Table([n \in DOMAIN scores |->
                           (One + 1) * Lexical(q, n, scores[n]) + scores[n]])
           D == DOMAIN key
           Place(n) == 1 + Cardinality({m \in DOMAIN key : Before(key, m, n)})
           At1(i) == CHOOSE n \in DOMAIN key : Place(n) = i
<1>1. Rerank(q, scores) = [i \in 1 .. Cardinality(DOMAIN key) |-> At1(i)]
  BY DEF Rerank
<1>2. DOMAIN scores \in SUBSET S /\ scores \in [DOMAIN scores -> Int]
  BY ScoringIs
<1>3. key \in [DOMAIN scores -> Int]
  <2>1. \A n \in DOMAIN scores : Lexical(q, n, scores[n]) \in Int
    BY <1>2, LexicalIsInt
  <2>2. key = [n \in DOMAIN scores |-> (One + 1) * Lexical(q, n, scores[n]) + scores[n]]
    BY TableIs
  <2> HIDE DEF key
  <2> QED
    BY <1>2, <2>1, <2>2 DEF One
<1> HIDE DEF key
<1>4. D \in SUBSET S /\ key \in [D -> Int]
  BY <1>2, <1>3
<1>5. IsFiniteSet(D) /\ D \in SUBSET Int
  BY <1>4, StoredFinite, FS_Subset
<1>6. ASSUME NEW i \in 1 .. Cardinality(D) PROVE At1(i) \in S
  <2>1. \E n \in D : Place(n) = i
    BY <1>4, <1>5, PlacesTaken
  <2> HIDE DEF Place
  <2>2. At1(i) \in D
    BY <2>1
  <2> HIDE DEF At1
  <2> QED
    BY <1>4, <2>2
<1>7. Cardinality(D) \in Nat
  BY <1>5, FS_CardinalityType
<1> HIDE DEF At1
<1>8. [i \in 1 .. Cardinality(D) |-> At1(i)] \in Seq(S)
  BY <1>6, <1>7
<1> QED
  BY <1>1, <1>8

LEMMA CutIs ==
    ASSUME NEW S, NEW pool \in Seq(S)
    PROVE  Cut(pool) \in Seq(S)
<1> DEFINE k == Min({TopK, Len(pool)})
<1>1. k \in Int /\ k <= Len(pool)
  <2>1. TopK \in Int /\ Len(pool) \in Int
    BY LimitAssumption
  <2> QED
    BY <2>1, PairExtremes, Zenon
<1>2. k \in {TopK, Len(pool)}
  <2>1. TopK \in Int /\ Len(pool) \in Int
    BY LimitAssumption
  <2> QED
    BY <2>1, PairExtremes, Zenon
<1>3. k \in Nat
  BY <1>2, LimitAssumption
<1> HIDE DEF k
<1>4. SubSeq(pool, 1, k) \in Seq(S)
  BY <1>1, <1>3
<1> QED
  BY <1>4 DEF Cut, k

-----------------------------------------------------------------------------
(* What is new among the results. *)

LEMMA NthIs ==
    ASSUME NEW S \in SUBSET Int, IsFiniteSet(S), NEW k \in 1 .. Cardinality(S)
    PROVE  Nth(S, k) \in S /\ Cardinality({j \in S : j < Nth(S, k)}) = k - 1
<1> DEFINE key == [n \in S |-> 0]
<1>1. key \in [S -> Int]
  OBVIOUS
<1>2. \A n \in S : {m \in S : Before(key, m, n)} = {m \in S : m < n}
  <2> TAKE n \in S
  <2>1. \A m \in S : Before(key, m, n) <=> m < n
    BY DEF Before
  <2> QED
    BY <2>1
<1> HIDE DEF key
<1>3. PICK n \in S : 1 + Cardinality({m \in S : Before(key, m, n)}) = k
  BY <1>1, PlacesTaken
<1>4. Cardinality({m \in S : m < n}) \in Nat
  <2>1. {m \in S : m < n} \in SUBSET S
    OBVIOUS
  <2> QED
    BY <2>1, FS_Subset, FS_CardinalityType
<1>5. Cardinality({m \in S : m < n}) = k - 1
  <2> DEFINE ahead == {m \in S : Before(key, m, n)}
             below == {m \in S : m < n}
  <2>1. ahead = below
    BY <1>2
  <2>2. 1 + Cardinality(ahead) = k
    BY <1>3
  <2>3. Cardinality(below) \in Nat
    BY <1>4
  <2> HIDE DEF ahead, below
  <2>4. Cardinality(below) = k - 1
    BY <2>1, <2>2, <2>3
  <2> QED
    BY <2>4 DEF below
<1> QED
  BY <1>5 DEF Nth

Items == [note : DOMAIN Notes, hop : Nat, query : Seq(DOMAIN Lexicon)]

\* Passages of a list differ from each other and from what was found before.
Fresh(new, found) ==
    /\ \A k \in DOMAIN new : /\ Notes[new[k]].eligible
                             /\ \A e \in ToSet(found) : Notes[e.note].words # Notes[new[k]].words
    /\ \A k, l \in DOMAIN new : k # l => Notes[new[k]].words # Notes[new[l]].words

LEMMA NovelIs ==
    ASSUME NEW S \in SUBSET DOMAIN Notes, NEW results \in Seq(S), NEW found \in Seq(Items),
           Len(found) <= MaxDocuments
    PROVE  /\ Novel(results, found) \in Seq(S)
           /\ Len(found) + Len(Novel(results, found)) <= MaxDocuments
           /\ Fresh(Novel(results, found), found)
<1> DEFINE Twin(m, n) == m = n \/ Notes[m].words = Notes[n].words
           New(i) == /\ Eligible(results[i])
                     /\ \A e \in ToSet(found) : ~Twin(e.note, results[i])
                     /\ \A j \in 1 .. i - 1 : Eligible(results[j]) => ~Twin(results[j], results[i])
           fresh == {i \in DOMAIN results : New(i)}
           room  == Max({0, MaxDocuments - Len(found)})
           most  == Min({room, Cardinality(fresh)})
           new   == [k \in 1 .. most |-> results[Nth(fresh, k)]]
<1>1. Novel(results, found) = new
  BY DEF Novel
<1>2. fresh \in SUBSET DOMAIN results /\ DOMAIN results \in SUBSET Int /\ IsFiniteSet(DOMAIN results)
  <2>1. 1 \in Int /\ Len(results) \in Int /\ DOMAIN results = 1 .. Len(results)
    OBVIOUS
  <2>2. IsFiniteSet(1 .. Len(results))
    BY <2>1, FS_Interval
  <2> QED
    BY <2>1, <2>2
<1>3. ASSUME NEW i \in fresh PROVE New(i) /\ i \in DOMAIN results
  OBVIOUS
<1> HIDE DEF fresh
<1>4. IsFiniteSet(fresh) /\ Cardinality(fresh) \in Nat /\ fresh \in SUBSET Int
  BY <1>2, FS_Subset, FS_CardinalityType
<1>5. room = MaxDocuments - Len(found) /\ room \in Nat
  <2> DEFINE left == MaxDocuments - Len(found)
  <2>1. left \in Nat /\ 0 \in Int
    BY BudgetAssumption
  <2> HIDE DEF left
  <2> DEFINE top == Max({0, left})
  <2>2. top \in {0, left} /\ top >= 0 /\ top >= left
    <3>1. 0 \in Int /\ left \in Int
      BY <2>1
    <3> QED
      BY <3>1, PairExtremes, Zenon
  <2> HIDE DEF top
  <2>3. top = left
    BY <2>1, <2>2
  <2> QED
    BY <2>1, <2>3 DEF left, top
<1> HIDE DEF room
<1>6. most \in Nat /\ most <= room /\ most <= Cardinality(fresh)
  <2>1. room \in Int /\ Cardinality(fresh) \in Int
    BY <1>4, <1>5
  <2>2. most \in {room, Cardinality(fresh)} /\ most <= room /\ most <= Cardinality(fresh)
    BY <2>1, PairExtremes, Zenon
  <2> HIDE DEF most
  <2> QED
    BY <1>4, <1>5, <2>2
<1> HIDE DEF most
<1>7. ASSUME NEW k \in 1 .. most
      PROVE  Nth(fresh, k) \in fresh /\ Cardinality({j \in fresh : j < Nth(fresh, k)}) = k - 1
  <2>1. k \in 1 .. Cardinality(fresh)
    BY <1>4, <1>6
  <2> QED
    BY <1>4, <2>1, NthIs
<1>8. \A i \in fresh : results[i] \in S
  BY <1>3
<1>9. new \in Seq(S) /\ Len(new) = most /\ DOMAIN new = 1 .. most
  <2> DEFINE Pick(k) == results[Nth(fresh, k)]
  <2>1. \A k \in 1 .. most : Pick(k) \in S
    BY <1>7, <1>8
  <2> HIDE DEF Pick
  <2>2. [k \in 1 .. most |-> Pick(k)] \in Seq(S) /\ Len([k \in 1 .. most |-> Pick(k)]) = most
    BY <1>6, <2>1
  <2> QED
    BY <2>2 DEF Pick
<1>10. Len(found) + Len(new) <= MaxDocuments
  BY <1>5, <1>6, <1>9, BudgetAssumption
<1>11. ASSUME NEW i \in fresh, NEW j \in fresh, i < j PROVE Notes[results[i]].words # Notes[results[j]].words
  <2>1. New(i) /\ New(j) /\ i \in 1 .. j - 1
    BY <1>2, <1>3, <1>11
  <2> QED
    BY <2>1
<1>12. \A k \in 1 .. most : new[k] = results[Nth(fresh, k)]
  OBVIOUS
<1> HIDE DEF new
<1>13. Fresh(new, found)
  <2>1. ASSUME NEW k \in DOMAIN new
        PROVE  Notes[new[k]].eligible /\ \A e \in ToSet(found) : Notes[e.note].words # Notes[new[k]].words
    <3>1. k \in 1 .. most
      BY <1>9
    <3>2. New(Nth(fresh, k)) /\ new[k] = results[Nth(fresh, k)]
      BY <1>3, <1>7, <1>12, <3>1
    <3> QED
      BY <3>2 DEF Eligible
  <2>2. ASSUME NEW k \in DOMAIN new, NEW l \in DOMAIN new, k # l
        PROVE  Notes[new[k]].words # Notes[new[l]].words
    <3> DEFINE i == Nth(fresh, k)
               j == Nth(fresh, l)
    <3>1. k \in 1 .. most /\ l \in 1 .. most
      BY <1>9
    <3>2. i \in fresh /\ j \in fresh /\ new[k] = results[i] /\ new[l] = results[j]
      BY <1>7, <1>12, <3>1
    <3> DEFINE Below(h) == Cardinality({h1 \in fresh : h1 < h})
    <3>3. Below(i) = k - 1 /\ Below(j) = l - 1
      BY <1>7, <3>1, Zenon
    <3> HIDE DEF Below
    <3>4. i # j
      <4>1. k - 1 # l - 1
        BY <2>2, <3>1
      <4> QED
        BY <3>3, <4>1
    <3> HIDE DEF i, j
    <3>5. i < j \/ j < i
      BY <1>4, <3>2, <3>4
    <3> QED
      BY <1>11, <3>2, <3>5
  <2> QED
    BY <2>1, <2>2 DEF Fresh
<1> QED
  BY <1>1, <1>9, <1>10, <1>13

-----------------------------------------------------------------------------
(* The words of the evidence, and what the compression keeps of it. *)

\* The words of the first k items.
Upto(s, k) == Words(SubSeq(s, 1, k))

LEMMA WordsOfOneMore ==
    ASSUME NEW s \in Seq(Items), NEW k \in 1 .. Len(s)
    PROVE  /\ Upto(s, k) \in Int /\ Upto(s, k - 1) \in Int
           /\ Upto(s, k - 1) <= Upto(s, k)
<1> DEFINE size(i) == Len(Notes[s[i].note].words)
           f == [i \in 1 .. k |-> size(i)]
           e == [i \in 1 .. k - 1 |-> size(i)]
<1>1. \A i \in 1 .. Len(s) : size(i) \in Nat
  <2> TAKE i \in 1 .. Len(s)
  <2>a. s[i] \in Items
    OBVIOUS
  <2>1. s[i].note \in DOMAIN Notes
    BY <2>a DEF Items
  <2>2. Notes[s[i].note].words \in Seq(DOMAIN Lexicon)
    BY <2>1, NotesAssumption
  <2> QED
    BY <2>2
<1>2. Upto(s, k) = SumFunctionOnSet(f, 1 .. k)
  <2> DEFINE t == SubSeq(s, 1, k)
             g == [i \in DOMAIN t |-> Len(Notes[t[i].note].words)]
  <2>1. DOMAIN t = 1 .. k /\ \A i \in 1 .. k : t[i] = s[i]
    OBVIOUS
  <2>2. Upto(s, k) = SumFunction(g)
    BY DEF Upto, Words
  <2> HIDE DEF t
  <2>3. g = f
    BY <2>1
  <2> HIDE DEF g
  <2>4. DOMAIN f = 1 .. k
    OBVIOUS
  <2> QED
    BY <2>2, <2>3, <2>4 DEF SumFunction
<1>3. Upto(s, k - 1) = SumFunctionOnSet(e, 1 .. k - 1)
  <2> DEFINE t == SubSeq(s, 1, k - 1)
             g == [i \in DOMAIN t |-> Len(Notes[t[i].note].words)]
  <2>1. DOMAIN t = 1 .. k - 1 /\ \A i \in 1 .. k - 1 : t[i] = s[i]
    OBVIOUS
  <2>2. Upto(s, k - 1) = SumFunction(g)
    BY DEF Upto, Words
  <2> HIDE DEF t
  <2>3. g = e
    BY <2>1
  <2> HIDE DEF g
  <2>4. DOMAIN e = 1 .. k - 1
    OBVIOUS
  <2> QED
    BY <2>2, <2>3, <2>4 DEF SumFunction
<1>4. \A i \in 1 .. k : f[i] \in Int
  BY <1>1
<1>5. \A i \in 1 .. k - 1 : e[i] = f[i] /\ e[i] \in Int
  BY <1>1
<1>6. f[k] \in Nat
  BY <1>1
<1> HIDE DEF f, e
<1>7. IsFiniteSet(1 .. k) /\ IsFiniteSet(1 .. k - 1) /\ (1 .. k) \ {k} = 1 .. k - 1 /\ k \in 1 .. k
  <2>1. {1, k, k - 1} \subseteq Int
    OBVIOUS
  <2>2. IsFiniteSet(1 .. k) /\ IsFiniteSet(1 .. k - 1)
    BY <2>1, FS_Interval
  <2> QED
    BY <2>2
<1>8. SumFunctionOnSet(f, 1 .. k) = f[k] + SumFunctionOnSet(e, 1 .. k - 1)
  <2>1. \A i \in (1 .. k) \ {k} : e[i] = f[i]
    BY <1>5, <1>7
  <2>2. SumFunctionOnSet(f, 1 .. k) = f[k] + SumFunctionOnSet(e, (1 .. k) \ {k})
    <3> DEFINE S == 1 .. k
    <3>1. IsFiniteSet(S) /\ k \in S /\ Ints(f, S)
      BY <1>4, <1>7 DEF Ints
    <3>2. Alike(e, f, S \ {k})
      BY <2>1 DEF Alike
    <3> HIDE DEF S
    <3>3. Parted(f, S, k, e)
      BY <3>1, <3>2, SumWithout, Zenon
    <3> QED
      BY <3>3 DEF S, Parted
  <2> QED
    BY <1>7, <2>2
<1>9. SumFunctionOnSet(e, 1 .. k - 1) \in Int
  BY <1>5, <1>7, SumIsInt
<1> QED
  BY <1>2, <1>3, <1>6, <1>8, <1>9

\* A set of positions that holds with each position the one before it is an interval.
LEMMA Initial ==
    ASSUME NEW n \in Nat, NEW C \in SUBSET (1 .. n), \A i \in C : i > 1 => i - 1 \in C
    PROVE  Cardinality(C) \in 0 .. n /\ C = 1 .. Cardinality(C)
<1> DEFINE B == (1 .. n + 1) \ C
<1>1. B \in SUBSET Nat /\ n + 1 \in B
  OBVIOUS
<1> HIDE DEF B
<1>2. PICK b \in B : \A k \in B : b <= k
  BY <1>1, LeastNatural
<1>3. b \in 1 .. n + 1 /\ b \notin C /\ 1 .. b - 1 \subseteq C
  BY <1>1, <1>2 DEF B
<1> DEFINE D == {d \in C : d > b}
<1>4. D = {}
  <2> SUFFICES ASSUME D # {} PROVE FALSE
    OBVIOUS
  <2>1. D \in SUBSET Nat
    <3>1. C \in SUBSET Nat
      OBVIOUS
    <3> QED
      BY <3>1
  <2>2. \A x \in D : x \in C /\ x > b
    OBVIOUS
  <2>3. \A x \in C : x > b => x \in D
    OBVIOUS
  <2> HIDE DEF D
  <2>4. PICK d \in D : \A k \in D : d <= k
    BY <2>1, LeastNatural
  <2>5. d - 1 \in C /\ d - 1 >= b
    BY <1>3, <2>1, <2>2, <2>4
  <2>6. d - 1 # b
    BY <1>3, <2>5
  <2>7. d - 1 \in D
    <3>1. d - 1 > b
      BY <1>3, <2>1, <2>5, <2>6
    <3> QED
      BY <2>3, <2>5, <3>1
  <2> QED
    BY <2>1, <2>4, <2>7
<1>5. C = 1 .. b - 1
  <2>1. ASSUME NEW x \in C PROVE x \in 1 .. b - 1
    <3>1. x \in 1 .. n /\ x # b /\ ~(x > b)
      BY <1>3, <1>4
    <3> QED
      BY <1>3, <3>1
  <2> QED
    BY <1>3, <2>1
<1>6. b - 1 \in 0 .. n
  BY <1>3
<1>7. Cardinality(1 .. b - 1) = b - 1
  BY <1>6, FS_Interval
<1> QED
  BY <1>5, <1>6, <1>7

\* What leaves of the evidence: its first items, the last of which still found room.
Kept(c, found) ==
    /\ IsPrefix(c, found)
    /\ c # <<>> => Words(SubSeq(c, 1, Len(c) - 1)) < MaxTokens

LEMMA CompressedIs ==
    ASSUME NEW found \in Seq(Items)
    PROVE  Kept(Compressed(found), found)
<1> DEFINE C == {i \in DOMAIN found : Words(SubSeq(found, 1, i - 1)) < MaxTokens}
           m == Cardinality(C)
           c == SubSeq(found, 1, m)
<1>1. Compressed(found) = c
  BY DEF Compressed
<1>2. C \in SUBSET (1 .. Len(found)) /\ Len(found) \in Nat
  OBVIOUS
<1>3. \A i \in 1 .. Len(found) : i \in C <=> Upto(found, i - 1) < MaxTokens
  BY DEF Upto
<1> HIDE DEF C
<1>4. ASSUME NEW i \in C, i > 1 PROVE i - 1 \in C
  <2>1. i - 1 \in 1 .. Len(found) /\ i \in 1 .. Len(found)
    BY <1>2, <1>4
  <2> DEFINE j == i - 1
  <2>2. /\ Upto(found, j) \in Int /\ Upto(found, j - 1) \in Int
        /\ Upto(found, j - 1) <= Upto(found, j)
    BY <2>1, WordsOfOneMore
  <2>3. Upto(found, j) < MaxTokens
    BY <1>3, <2>1
  <2>4. Upto(found, j - 1) < MaxTokens
    BY <2>2, <2>3, BudgetAssumption
  <2> QED
    BY <1>3, <2>1, <2>4
<1>5. m \in 0 .. Len(found) /\ C = 1 .. m
  BY <1>2, <1>4, Initial
<1> HIDE DEF m
<1>6. Len(c) = m /\ IsPrefix(c, found)
  <2>1. Len(c) = m /\ c \in Seq(Items)
    BY <1>5
  <2>2. SubSeq(c, 1, m) = c
    BY <2>1
  <2> QED
    BY <1>5, <2>1, <2>2 DEF IsPrefix
<1>7. ASSUME m # 0 PROVE Words(SubSeq(c, 1, m - 1)) < MaxTokens
  <2>1. m \in C /\ m \in 1 .. Len(found)
    BY <1>5, <1>7
  <2>2. SubSeq(c, 1, m - 1) = SubSeq(found, 1, m - 1)
    BY <1>5
  <2> QED
    BY <1>3, <2>1, <2>2 DEF Upto
<1>8. m = 0 => c = <<>>
  OBVIOUS
<1> HIDE DEF c
<1> QED
  BY <1>1, <1>6, <1>7, <1>8 DEF Kept

-----------------------------------------------------------------------------
(* The queries a question leads to, and what is said of the evidence. *)

LEMMA NeedIs ==
    ASSUME NEW question, NEW found \in Seq(Items), NEW attempts
    PROVE  Need(question, found, attempts) \in {<<>>} \cup {<<w>> : w \in DOMAIN Lexicon}
<1> DEFINE Unasked(n) == {i \in DOMAIN Notes[n].names : /\ Notes[n].names[i] \notin ToSet(question)
                                                        /\ <<Notes[n].names[i]>> \notin ToSet(attempts)}
           items == {i \in DOMAIN found : Unasked(found[i].note) # {}}
           latest == found[Max(items)].note
           first == Min(Unasked(latest))
<1>1. Need(question, found, attempts) = IF items = {} THEN <<>> ELSE <<Notes[latest].names[first]>>
  BY DEF Need
<1> SUFFICES ASSUME items # {} PROVE Notes[latest].names[first] \in DOMAIN Lexicon
  BY <1>1
<1>2. items \in SUBSET (1 .. Len(found)) /\ \A i \in items : Unasked(found[i].note) # {}
  OBVIOUS
<1> HIDE DEF items
<1>3. Max(items) \in items
  <2>1. 1 \in Int /\ Len(found) \in Int
    OBVIOUS
  <2>2. IsFiniteSet(1 .. Len(found)) /\ (1 .. Len(found)) \in SUBSET Int
    BY <2>1, FS_Interval
  <2>3. IsFiniteSet(items) /\ items \in SUBSET Int
    BY <1>2, <2>2, FS_Subset
  <2> QED
    BY <2>3, FiniteExtremes
<1>4. latest \in DOMAIN Notes
  <2> DEFINE last == Max(items)
  <2>1. last \in 1 .. Len(found)
    BY <1>2, <1>3
  <2> HIDE DEF last
  <2>2. found[last] \in Items
    BY <2>1
  <2>3. found[last].note \in DOMAIN Notes
    BY <2>2 DEF Items
  <2> QED
    BY <2>3 DEF last
<1>5. Notes[latest].names \in Seq(DOMAIN Lexicon)
  <2> HIDE DEF latest
  <2> QED
    BY <1>4, NotesAssumption
<1>6. Unasked(latest) # {}
  BY <1>2, <1>3
<1> DEFINE names == Notes[latest].names
<1>7. Unasked(latest) \in SUBSET (1 .. Len(names)) /\ names \in Seq(DOMAIN Lexicon)
  BY <1>5
<1> HIDE DEF latest, Unasked, names
<1>8. first \in Unasked(latest)
  <2>1. 1 \in Int /\ Len(names) \in Int
    BY <1>7
  <2>2. IsFiniteSet(1 .. Len(names)) /\ (1 .. Len(names)) \in SUBSET Int
    BY <2>1, FS_Interval
  <2>3. IsFiniteSet(Unasked(latest)) /\ Unasked(latest) \in SUBSET Int
    BY <1>7, <2>2, FS_Subset
  <2> QED
    BY <1>6, <2>3, FiniteExtremes
<1>9. names[first] \in DOMAIN Lexicon
  BY <1>7, <1>8
<1> QED
  BY <1>9 DEF names

\* The queries after at most n advices.
Leads(n) == {q \o Advices(k) : q \in Asked, k \in 0 .. n}

LEMMA AskedIs ==
    ASSUME NEW q \in Asked
    PROVE  q \in Seq(DOMAIN Lexicon)
<1>1. \A w \in DOMAIN Lexicon : <<w>> \in Seq(DOMAIN Lexicon)
  OBVIOUS
<1> QED
  BY <1>1, QueryAssumption DEF Asked

\* Three words, k times over.
Repeats(a, w, S, k) ==
    /\ a \in Seq(S) /\ Len(a) = 3 * k
    /\ \A i \in 1 .. 3 * k : a[i] = w[1 + ((i - 1) % 3)]

LEMMA Repeated ==
    ASSUME NEW S, NEW w \in Seq(S), Len(w) = 3, NEW k \in Nat
    PROVE  Repeats([i \in 1 .. 3 * k |-> w[1 + ((i - 1) % 3)]], w, S, k)
<1> DEFINE Turn(i) == w[1 + ((i - 1) % 3)]
           a == [i \in 1 .. 3 * k |-> Turn(i)]
<1>1. 3 * k \in Nat /\ \A i \in 1 .. 3 * k : 1 + ((i - 1) % 3) \in 1 .. 3
  OBVIOUS
<1>2. \A i \in 1 .. 3 * k : Turn(i) \in S
  <2> TAKE i \in 1 .. 3 * k
  <2> DEFINE j == 1 + ((i - 1) % 3)
  <2>1. j \in 1 .. 3
    BY <1>1
  <2> HIDE DEF j
  <2>2. w[j] \in S
    BY <2>1, ElementOfSeq
  <2> QED
    BY <2>2 DEF j
<1>3. \A i \in 1 .. 3 * k : Turn(i) = w[1 + ((i - 1) % 3)]
  OBVIOUS
<1> HIDE DEF Turn
<1>4. a \in Seq(S) /\ Len(a) = 3 * k /\ \A i \in 1 .. 3 * k : a[i] = Turn(i)
  <2> DEFINE m == 3 * k
  <2>1. m \in Nat /\ \A i \in 1 .. m : Turn(i) \in S
    BY <1>1, <1>2
  <2> HIDE DEF m
  <2> DEFINE b == [i \in 1 .. m |-> Turn(i)]
  <2>2. b \in Seq(S) /\ Len(b) = m /\ \A i \in 1 .. m : b[i] = Turn(i)
    BY <2>1
  <2> QED
    BY <2>2 DEF m
<1> HIDE DEF a
<1>5. Repeats(a, w, S, k)
  BY <1>3, <1>4 DEF Repeats
<1> QED
  BY <1>5 DEF a, Turn

LEMMA OnceMore ==
    ASSUME NEW S, NEW w \in Seq(S), Len(w) = 3, NEW k \in Nat,
           NEW one, Repeats(one, w, S, k), NEW two, Repeats(two, w, S, k + 1)
    PROVE  two = one \o w
<1> DEFINE both == one \o w
           turn == [i \in 1 .. 3 * k + 3 |-> 1 + ((i - 1) % 3)]
<1>1. \A j \in 1 .. 3 : turn[3 * k + j] = j
  <2> TAKE j \in 1 .. 3
  <2>1. 3 * k + j \in 1 .. 3 * k + 3
    OBVIOUS
  <2>2. ((3 * k + j) - 1) % 3 = j - 1
    OBVIOUS
  <2> QED
    BY <2>1, <2>2
<1>2. one \in Seq(S) /\ Len(one) = 3 * k /\ \A i \in 1 .. 3 * k : one[i] = w[turn[i]]
  BY DEF Repeats
<1>3. two \in Seq(S) /\ Len(two) = 3 * k + 3 /\ \A i \in 1 .. 3 * k + 3 : two[i] = w[turn[i]]
  BY DEF Repeats
<1>4. /\ both \in Seq(S) /\ Len(both) = 3 * k + 3
      /\ \A i \in 1 .. 3 * k : both[i] = one[i]
      /\ \A j \in 1 .. 3 : both[3 * k + j] = w[j]
  <2>1. /\ both \in Seq(S) /\ Len(both) = Len(one) + Len(w)
        /\ \A i \in 1 .. Len(one) + Len(w) :
             both[i] = IF i <= Len(one) THEN one[i] ELSE w[i - Len(one)]
    <3>1. one \in Seq(S)
      BY <1>2
    <3> QED
      BY <3>1, ConcatProperties
  <2> HIDE DEF both
  <2>2. \A j \in 1 .. 3 : /\ 3 * k + j \in 1 .. 3 * k + 3 /\ ~(3 * k + j <= 3 * k)
                          /\ (3 * k + j) - 3 * k = j
    OBVIOUS
  <2>3. \A i \in 1 .. 3 * k : i \in 1 .. 3 * k + 3 /\ i <= 3 * k
    OBVIOUS
  <2> QED
    BY <1>2, <2>1, <2>2, <2>3
<1> HIDE DEF both, turn
<1>5. ASSUME NEW i \in 1 .. 3 * k + 3 PROVE two[i] = both[i]
  <2>1. CASE i \in 1 .. 3 * k
    BY <1>2, <1>3, <1>4, <2>1
  <2>2. CASE i \notin 1 .. 3 * k
    <3> DEFINE j == i - 3 * k
    <3>1. j \in 1 .. 3 /\ i = 3 * k + j
      BY <2>2
    <3>2. both[i] = w[j] /\ turn[i] = j
      BY <1>1, <1>4, <3>1
    <3> QED
      BY <1>3, <3>2
  <2> QED
    BY <2>1, <2>2
<1>6. two = both
  BY <1>3, <1>4, <1>5
<1> QED
  BY <1>6 DEF both

LEMMA SuffixIs == Len(Suffix) = 3 /\ Suffix \in Seq(DOMAIN Lexicon)
<1>1. Len(Suffix) = 3 /\ DOMAIN Suffix = 1 .. 3 /\ \A i \in 1 .. 3 : Suffix[i] \in ToSet(Suffix)
  BY DEF Suffix, ToSet
<1>2. Suffix \in Seq(ToSet(Suffix))
  BY DEF Suffix, ToSet
<1> QED
  BY <1>1, <1>2, QueryAssumption

LEMMA AdvicesAre ==
    ASSUME NEW k \in Nat
    PROVE  Repeats(Advices(k), Suffix, DOMAIN Lexicon, k)
<1>1. Advices(k) = [i \in 1 .. 3 * k |-> Suffix[1 + ((i - 1) % 3)]]
  BY SuffixIs DEF Advices
<1>2. Repeats([i \in 1 .. 3 * k |-> Suffix[1 + ((i - 1) % 3)]], Suffix, DOMAIN Lexicon, k)
  BY SuffixIs, Repeated
<1> QED
  BY <1>1, <1>2

LEMMA NoAdvice ==
    ASSUME NEW q \in Asked, NEW n \in Nat
    PROVE  q \in Leads(n)
<1>1. Len(Advices(0)) = 0 /\ Advices(0) \in Seq(DOMAIN Lexicon)
  BY AdvicesAre DEF Repeats
<1>2. Advices(0) = <<>>
  BY <1>1
<1>3. q \o Advices(0) = q
  BY <1>2, AskedIs
<1> QED
  BY <1>3 DEF Leads

LEMMA OneMoreAdvice ==
    ASSUME NEW n \in Nat, NEW advised \in Leads(n)
    PROVE  advised \o Suffix \in Leads(n + 1) /\ advised \in Seq(DOMAIN Lexicon)
<1>1. PICK q \in Asked, k \in 0 .. n : advised = q \o Advices(k)
  BY DEF Leads
<1> DEFINE one == Advices(k)
           two == Advices(k + 1)
<1>2. q \in Seq(DOMAIN Lexicon)
  BY AskedIs
<1>3. k \in Nat /\ k + 1 \in Nat /\ k + 1 \in 0 .. n + 1
  OBVIOUS
<1>4. Repeats(one, Suffix, DOMAIN Lexicon, k) /\ Repeats(two, Suffix, DOMAIN Lexicon, k + 1)
  BY <1>3, AdvicesAre
<1>5. one \in Seq(DOMAIN Lexicon)
  BY <1>4 DEF Repeats
<1>6. q \o two \in Leads(n + 1)
  <2> DEFINE m == k + 1
             most == n + 1
  <2>1. m \in 0 .. most
    BY <1>3
  <2> HIDE DEF m, most
  <2>2. q \o Advices(m) \in Leads(most)
    BY <2>1 DEF Leads
  <2> QED
    BY <2>2 DEF m, most
<1> HIDE DEF one, two
<1>7. two = one \o Suffix
  <2> DEFINE D == DOMAIN Lexicon
  <2>1. Suffix \in Seq(D) /\ Len(Suffix) = 3
    BY SuffixIs
  <2>2. Repeats(one, Suffix, D, k) /\ Repeats(two, Suffix, D, k + 1)
    BY <1>4
  <2> HIDE DEF D
  <2> QED
    BY <1>3, <2>1, <2>2, OnceMore, Zenon
<1>8. (q \o one) \o Suffix = q \o (one \o Suffix)
  BY <1>2, <1>5, SuffixIs, ConcatAssociative
<1>9. advised = q \o one
  BY <1>1 DEF one
<1>10. advised \o Suffix \in Leads(n + 1)
  BY <1>6, <1>7, <1>8, <1>9
<1>11. advised \in Seq(DOMAIN Lexicon)
  BY <1>2, <1>5, <1>9, ConcatProperties
<1> QED
  BY <1>10, <1>11

LEMMA LeadsAreQueries ==
    ASSUME NEW n \in Nat, n <= MaxInterventions
    PROVE  Leads(n) \subseteq Queries
<1>1. \A k \in 0 .. n : k \in 0 .. MaxInterventions
  BY BudgetAssumption
<1> QED
  BY <1>1 DEF Leads, Queries

\* A question found answered has its terms in what was found, and nothing denies it.
Answered(question, found) ==
    found # <<>> /\ ~Conflicting(found) /\ Coverage(question, found) >= 600

LEMMA VerifyIs ==
    ASSUME NEW question, NEW found, Verify(question, found) = "sufficient"
    PROVE  Answered(question, found)
BY DEF Verify, Answered

-----------------------------------------------------------------------------
(* The inductive invariant. *)

Searching == {"search", "score", "rank", "integrate"}

Types ==
    /\ at \in Searching \cup {"idle", "weigh", "advise", "done"}
    /\ asked.profile \in {"simple_rag", "prima_full"}
    /\ stored \in SUBSET DOMAIN Notes /\ status \in Statuses
    /\ tried \in Seq(Seq(DOMAIN Lexicon)) /\ evidence \in Seq(Items)
    /\ calls \in Nat /\ interventions \in 0 .. MaxInterventions
    /\ at # "idle" => query \in Leads(interventions)

\* The budgets, and what is checked of them before a hop and before an advice.
Budgets ==
    /\ Len(tried) <= MaxHops /\ calls <= MaxCalls
    /\ \A i, j \in DOMAIN tried : tried[i] = tried[j] => i = j
    /\ at \in Searching => calls < MaxCalls /\ Len(tried) < MaxHops /\ query \notin ToSet(tried)
    /\ at = "advise" => interventions < MaxInterventions /\ stop \in DOMAIN Events
    /\ at = "idle" => tried = <<>> /\ calls = 0 /\ interventions = 0

\* A note is left for every advice that the budget still allows.
Room == Cardinality(ReflectionNotes \ stored) >= MaxInterventions - interventions

\* What the running search may return.
Found == Citable(asked.profile, Open, stored)

\* What the stages of the running search have returned.
Stages ==
    /\ at = "score" => returned.dense \in Scorings(Open) /\ returned.sparse \in Scorings(Open)
    /\ at = "rank" => Scores4(returned, Found)
    /\ at = "integrate" => returned \in Seq(Found)

\* An item cites a memory that may be cited, and the query of its hop.
Sourced(e) ==
    /\ Notes[e.note].eligible
    /\ Notes[e.note].type = "procedural" => asked.profile = "prima_full"
    /\ e.hop + 1 \in 1 .. Len(tried) /\ e.query = tried[e.hop + 1]

Cited ==
    /\ Len(evidence) <= MaxDocuments
    /\ \A i \in DOMAIN evidence : Sourced(evidence[i])
    /\ \A i, j \in DOMAIN evidence :
          i # j => Notes[evidence[i].note].words # Notes[evidence[j].note].words

Answering ==
    /\ Kept(context, evidence) /\ (at # "done" => context = <<>>)
    /\ status = "sufficient" => Answered(asked.question, evidence)
    /\ at = "idle" => status # "sufficient"

IInv == Types /\ Budgets /\ Room /\ Stages /\ Cited /\ Answering

LEMMA OpenIs ==
    ASSUME Types
    PROVE  /\ Open \in SUBSET DOMAIN Notes /\ stored \in SUBSET DOMAIN Notes
           /\ Open \in SUBSET stored /\ Found \in SUBSET DOMAIN Notes
           /\ \A n \in Found : Notes[n].type = "procedural" => asked.profile = "prima_full"
BY DEF Types, Open, Searched, Found, Citable

LEMMA QueryIs ==
    ASSUME Types, at # "idle"
    PROVE  query \in Queries /\ query \in Seq(DOMAIN Lexicon)
<1>1. query \in Leads(interventions) /\ interventions \in Nat /\ interventions <= MaxInterventions
  BY BudgetAssumption DEF Types
<1>2. query \in Seq(DOMAIN Lexicon)
  BY <1>1, OneMoreAdvice
<1> QED
  BY <1>1, <1>2, LeadsAreQueries

LEMMA SameRoom ==
    ASSUME Room, UNCHANGED <<stored, interventions>>
    PROVE  Room'
BY DEF Room

LEMMA SameCited ==
    ASSUME Cited, UNCHANGED <<evidence, tried, asked>>
    PROVE  Cited'
BY DEF Cited, Sourced

LEMMA SameStages ==
    ASSUME at' \notin {"score", "rank", "integrate"}
    PROVE  Stages'
BY DEF Stages

LEMMA NothingKept ==
    ASSUME NEW S, NEW found \in Seq(S)
    PROVE  Kept(<<>>, found)
<1>1. Len(<<>>) = 0 /\ SubSeq(<<>>, 1, 0) = <<>> /\ SubSeq(found, 1, 0) = <<>> /\ Len(found) \in Nat
  OBVIOUS
<1>2. IsPrefix(<<>>, found)
  BY <1>1 DEF IsPrefix
<1> QED
  BY <1>2 DEF Kept

LEMMA InitInv == Init => IInv
<1> SUFFICES ASSUME Init PROVE IInv
  OBVIOUS
<1>1. /\ at = "idle" /\ asked.profile = "prima_full" /\ stored \in SUBSET DOMAIN Notes
      /\ tried = <<>> /\ evidence = <<>> /\ calls = 0 /\ interventions = 0
      /\ status = "unanswerable" /\ context = <<>>
  BY DEF Init
<1>2. Types
  BY <1>1, BudgetAssumption DEF Types, Searching, Statuses
<1>3. Budgets
  BY <1>1, BudgetAssumption DEF Budgets, Searching
<1>4. Room
  <2>1. Cardinality(ReflectionNotes \ stored) >= MaxInterventions
    BY DEF Init
  <2> QED
    BY <1>1, <2>1, BudgetAssumption DEF Room
<1>5. Stages
  BY <1>1 DEF Stages
<1>6. Cited
  BY <1>1, BudgetAssumption DEF Cited
<1>7. Answering
  <2>1. <<>> \in Seq(Items)
    OBVIOUS
  <2>2. Kept(<<>>, <<>>)
    BY <2>1, NothingKept
  <2> QED
    BY <1>1, <2>2 DEF Answering
<1> QED
  BY <1>2, <1>3, <1>4, <1>5, <1>6, <1>7 DEF IInv

LEMMA AskInv ==
    ASSUME IInv, NEW q \in Questions, NEW m \in Modes, NEW p \in {"simple_rag", "prima_full"},
           Ask(q, m, p)
    PROVE  IInv'
<1> USE DEF IInv
<1>1. /\ at = "idle" /\ asked' = [question |-> q, mode |-> m, profile |-> p] /\ query' = q
      /\ UNCHANGED <<stored, keeps, tried, evidence, calls, stale, interventions, confidence,
                     returned, late, context>>
  BY DEF Ask
<1>2. /\ at' \in {"search", "done"}
      /\ status' # "sufficient" /\ status' \in Statuses
  <2>1. CASE RouteOf(q, m) = "clarify"
    BY <2>1 DEF Ask, Statuses
  <2>2. CASE RouteOf(q, m) = "bypass"
    BY <2>2 DEF Ask, Statuses
  <2>3. CASE RouteOf(q, m) \notin {"clarify", "bypass"}
    BY <2>3 DEF Ask, Answering, Types
  <2> QED
    BY <2>1, <2>2, <2>3
<1>3. Types'
  <2>1. q \in Leads(interventions)
    BY NoAdvice DEF Asked, Types
  <2> QED
    BY <1>1, <1>2, <2>1 DEF Types, Searching
<1>4. Budgets'
  <2>1. tried = <<>> /\ calls = 0
    BY <1>1 DEF Budgets
  <2> QED
    BY <1>1, <1>2, <2>1, BudgetAssumption DEF Budgets, Searching, ToSet
<1>5. Room'
  BY <1>1, SameRoom
<1>6. Stages'
  BY <1>2, SameStages
<1>7. Cited'
  <2>1. tried = <<>>
    BY <1>1 DEF Budgets
  <2>2. \A i \in DOMAIN evidence : FALSE
    BY <2>1 DEF Cited, Sourced
  <2> QED
    BY <1>1, <2>2 DEF Cited
<1>8. Answering'
  BY <1>1, <1>2 DEF Answering, Kept
<1> QED
  BY <1>3, <1>4, <1>5, <1>6, <1>7, <1>8

\* A stage of a search changes the stage and what has been returned alone.
LEMMA StageInv ==
    ASSUME IInv, at \in {"search", "score", "rank"}, at' \in {"score", "rank", "integrate"},
           UNCHANGED <<asked, stored, query, tried, evidence, calls, interventions, status, context>>
    PROVE  Types' /\ Budgets' /\ Room' /\ Cited' /\ Answering'
<1> USE DEF IInv
<1>1. Types'
  BY DEF Types, Searching
<1>2. Budgets'
  BY DEF Budgets, Searching
<1>3. Room'
  BY SameRoom
<1>4. Cited'
  BY SameCited
<1>5. Answering'
  BY DEF Answering, Kept
<1> QED
  BY <1>1, <1>2, <1>3, <1>4, <1>5

LEMMA SearchInv ==
    ASSUME IInv, Search
    PROVE  IInv'
<1> DEFINE a == Analyse(query)
           open == Open
<1>1. /\ at = "search" /\ at' = "score" /\ returned' = Gathered(a, query, open)
      /\ UNCHANGED <<asked, stored, query, tried, evidence, calls, interventions, status, context>>
  BY DEF Search, loop
<1>2. Types' /\ Budgets' /\ Room' /\ Cited' /\ Answering'
  BY <1>1, StageInv
<1>3. query \in Queries /\ query \in Seq(DOMAIN Lexicon) /\ open \in SUBSET DOMAIN Notes
  BY <1>1, QueryIs, OpenIs DEF IInv
<1>4. Analysed(a)
  BY <1>3, AnalysisIs
<1>5. Open' = open
  BY <1>1 DEF Open, Searched
<1> HIDE DEF a, open
<1>6. returned'.dense \in Scorings(open) /\ returned'.sparse \in Scorings(open)
  BY <1>1, <1>3, <1>4, GatheredIs
<1>7. Stages'
  BY <1>1, <1>5, <1>6 DEF Stages
<1> QED
  BY <1>2, <1>7 DEF IInv

LEMMA ScoreInv ==
    ASSUME IInv, Score
    PROVE  IInv'
<1> DEFINE a == Analyse(query)
           open == Open
           dense == returned.dense
           sparse == returned.sparse
           seeds == Seeds(dense, sparse)
           found == Found
<1>1. /\ at = "score" /\ at' = "rank"
      /\ returned' = Scored(query, a, asked.profile, seeds, open, stored)
      /\ UNCHANGED <<asked, stored, query, tried, evidence, calls, interventions, status, context>>
  BY DEF Score, loop
<1>2. Types' /\ Budgets' /\ Room' /\ Cited' /\ Answering'
  BY <1>1, StageInv
<1>3. query \in Queries /\ query \in Seq(DOMAIN Lexicon) /\ open \in SUBSET DOMAIN Notes
      /\ stored \in SUBSET DOMAIN Notes /\ open \in SUBSET stored
  BY <1>1, QueryIs, OpenIs DEF IInv
<1>4. Analysed(a)
  BY <1>3, AnalysisIs
<1>5. Found' = found /\ found = Citable(asked.profile, open, stored)
  BY <1>1 DEF Found, Citable, Open, Searched
<1>6. dense \in Scorings(open) /\ sparse \in Scorings(open) /\ asked.profile \in {"simple_rag", "prima_full"}
  BY <1>1 DEF IInv, Stages, Types
<1> HIDE DEF a, open, dense, sparse, found
<1>7. seeds \in Scorings(open)
  BY <1>3, <1>6, SeedsAre
<1> HIDE DEF seeds
<1>8. Scores4(returned', found)
  BY <1>1, <1>3, <1>4, <1>5, <1>6, <1>7, ScoredAre
<1>9. Stages'
  BY <1>1, <1>5, <1>8 DEF Stages
<1> QED
  BY <1>2, <1>9 DEF IInv

LEMMA RankInv ==
    ASSUME IInv, Rank
    PROVE  IInv'
<1> DEFINE a == Analyse(query)
           found == Found
           scores == Boost(a, Fuse(returned))
<1>1. /\ at = "rank" /\ at' = "integrate" /\ returned' = Cut(Rerank(query, scores))
      /\ UNCHANGED <<asked, stored, query, tried, evidence, calls, interventions, status, context>>
  BY DEF Rank
<1>2. Types' /\ Budgets' /\ Room' /\ Cited' /\ Answering'
  BY <1>1, StageInv
<1>3. query \in Seq(DOMAIN Lexicon) /\ found \in SUBSET DOMAIN Notes
  BY <1>1, QueryIs, OpenIs DEF IInv
<1>4. Analysed(a)
  BY <1>3, AnalysisIs
<1>5. Found' = found
  BY <1>1 DEF Found, Citable, Open, Searched
<1>6. Scores4(returned, found)
  BY <1>1 DEF IInv, Stages
<1> HIDE DEF a, found
<1>7. Fuse(returned) \in Scorings(found)
  BY <1>3, <1>6, FusedIs
<1>8. scores \in Scorings(found)
  BY <1>3, <1>4, <1>7, BoostIs
<1> HIDE DEF scores
<1>9. Rerank(query, scores) \in Seq(found)
  BY <1>3, <1>8, RerankedAre
<1>10. returned' \in Seq(found)
  BY <1>1, <1>9, CutIs
<1>11. Stages'
  BY <1>1, <1>5, <1>10 DEF Stages
<1> QED
  BY <1>2, <1>11 DEF IInv

\* The items of one hop.
Hop(new, hop, q) == [i \in DOMAIN new |-> [note |-> new[i], hop |-> hop, query |-> q]]

LEMMA HopIs ==
    ASSUME NEW S \in SUBSET DOMAIN Notes, NEW new \in Seq(S), NEW hop \in Nat,
           NEW q \in Seq(DOMAIN Lexicon)
    PROVE  /\ Hop(new, hop, q) \in Seq(Items) /\ Len(Hop(new, hop, q)) = Len(new)
           /\ \A i \in 1 .. Len(new) : Hop(new, hop, q)[i] = [note |-> new[i], hop |-> hop, query |-> q]
<1> DEFINE Item(i) == [note |-> new[i], hop |-> hop, query |-> q]
           n == Len(new)
<1>1. \A i \in 1 .. n : Item(i) \in Items
  BY DEF Items
<1>2. n \in Nat /\ DOMAIN new = 1 .. n
  OBVIOUS
<1>3. \A i \in 1 .. n : Item(i) = [note |-> new[i], hop |-> hop, query |-> q]
  OBVIOUS
<1>4. Hop(new, hop, q) = [i \in 1 .. n |-> Item(i)]
  BY <1>2 DEF Hop
<1> HIDE DEF Item
<1> DEFINE items == [i \in 1 .. n |-> Item(i)]
<1>5. items \in Seq(Items) /\ Len(items) = n /\ \A i \in 1 .. n : items[i] = Item(i)
  <2> HIDE DEF n
  <2> QED
    BY <1>1, <1>2
<1> HIDE DEF items
<1> QED
  BY <1>3, <1>4, <1>5 DEF items

\* Two lists one behind the other.
LEMMA Joined ==
    ASSUME NEW S, NEW s \in Seq(S), NEW t \in Seq(S)
    PROVE  /\ s \o t \in Seq(S) /\ Len(s \o t) = Len(s) + Len(t)
           /\ \A i \in 1 .. Len(s) : (s \o t)[i] = s[i]
           /\ \A i \in 1 .. Len(s \o t) : i \notin 1 .. Len(s) =>
                 i - Len(s) \in 1 .. Len(t) /\ (s \o t)[i] = t[i - Len(s)]
<1> DEFINE both == s \o t
<1>1. /\ both \in Seq(S) /\ Len(both) = Len(s) + Len(t)
      /\ \A i \in 1 .. Len(s) + Len(t) : both[i] = IF i <= Len(s) THEN s[i] ELSE t[i - Len(s)]
  BY ConcatProperties
<1> HIDE DEF both
<1>2. Len(s) \in Nat /\ Len(t) \in Nat
  OBVIOUS
<1>3. ASSUME NEW i \in 1 .. Len(s) PROVE both[i] = s[i]
  <2>1. i \in 1 .. Len(s) + Len(t) /\ i <= Len(s)
    BY <1>2
  <2> QED
    BY <1>1, <2>1
<1>4. ASSUME NEW i \in 1 .. Len(both), i \notin 1 .. Len(s)
      PROVE  i - Len(s) \in 1 .. Len(t) /\ both[i] = t[i - Len(s)]
  <2>1. i \in 1 .. Len(s) + Len(t) /\ ~(i <= Len(s)) /\ i - Len(s) \in 1 .. Len(t)
    BY <1>1, <1>2, <1>4
  <2> QED
    BY <1>1, <2>1
<1> QED
  BY <1>1, <1>3, <1>4 DEF both

LEMMA IntegrateInv ==
    ASSUME IInv, Integrate
    PROVE  IInv'
<1> DEFINE found == Found
           new == Novel(returned, evidence)
           hop == Len(tried)
           add == Hop(new, hop, query)
           old == Len(evidence)
<1>1. /\ at = "integrate" /\ at' = "weigh" /\ evidence' = evidence \o add
      /\ calls' = calls + 1 /\ tried' = Append(tried, query)
      /\ UNCHANGED <<asked, stored, query, interventions, context>>
  BY DEF Integrate, Hop
<1>2. status' = Verify(asked.question, evidence')
  BY DEF Integrate
<1>3. query \in Seq(DOMAIN Lexicon) /\ found \in SUBSET DOMAIN Notes
      /\ \A n \in found : Notes[n].type = "procedural" => asked.profile = "prima_full"
  BY <1>1, QueryIs, OpenIs DEF IInv
<1>4. /\ returned \in Seq(found) /\ evidence \in Seq(Items) /\ Len(evidence) <= MaxDocuments
      /\ tried \in Seq(Seq(DOMAIN Lexicon)) /\ hop \in Nat /\ old \in Nat
  BY <1>1 DEF IInv, Stages, Types, Cited
<1> HIDE DEF found
<1>5. /\ new \in Seq(found) /\ old + Len(new) <= MaxDocuments /\ Fresh(new, evidence)
  BY <1>3, <1>4, NovelIs
<1> HIDE DEF new, hop
<1>6. /\ add \in Seq(Items) /\ Len(add) = Len(new)
      /\ \A i \in 1 .. Len(new) : add[i] = [note |-> new[i], hop |-> hop, query |-> query]
  <2>1. found \in SUBSET DOMAIN Notes /\ new \in Seq(found) /\ hop \in Nat
        /\ query \in Seq(DOMAIN Lexicon)
    BY <1>3, <1>4, <1>5
  <2> QED
    BY <2>1, HopIs
<1> HIDE DEF add
<1>7. /\ evidence' \in Seq(Items) /\ Len(evidence') = old + Len(new)
      /\ \A i \in 1 .. old : evidence'[i] = evidence[i]
      /\ \A i \in 1 .. Len(evidence') : i \notin 1 .. old =>
            i - old \in 1 .. Len(new) /\ evidence'[i] = add[i - old]
  <2> DEFINE both == evidence \o add
  <2>1. evidence \in Seq(Items) /\ add \in Seq(Items) /\ Len(evidence) = old
    BY <1>4, <1>6
  <2>2. /\ both \in Seq(Items) /\ Len(both) = Len(evidence) + Len(add)
        /\ \A i \in 1 .. Len(evidence) : both[i] = evidence[i]
        /\ \A i \in 1 .. Len(both) : i \notin 1 .. Len(evidence) =>
              i - Len(evidence) \in 1 .. Len(add) /\ both[i] = add[i - Len(evidence)]
    BY <2>1, Joined
  <2>3. evidence' = both
    BY <1>1
  <2> HIDE DEF both, old
  <2> QED
    BY <1>6, <2>1, <2>2, <2>3
<1> HIDE DEF old
<1>8. /\ tried' \in Seq(Seq(DOMAIN Lexicon)) /\ Len(tried') = hop + 1 /\ tried'[hop + 1] = query
      /\ \A i \in 1 .. hop : tried'[i] = tried[i]
  <2> DEFINE S == Seq(DOMAIN Lexicon)
  <2>1. query \in S /\ tried \in Seq(S) /\ Len(tried) = hop
    BY <1>3, <1>4 DEF hop
  <2> HIDE DEF S
  <2> DEFINE more == Append(tried, query)
  <2>2. /\ more \in Seq(S) /\ Len(more) = hop + 1 /\ more[hop + 1] = query
        /\ \A i \in 1 .. hop : more[i] = tried[i]
    BY <1>4, <2>1
  <2> QED
    BY <1>1, <2>2 DEF S
<1>9. Types'
  <2>1. status' \in Statuses
    BY <1>2 DEF Verify, Statuses
  <2> QED
    BY <1>1, <1>7, <1>8, <2>1 DEF IInv, Types, Searching
<1>10. Budgets'
  <2>1. calls < MaxCalls /\ hop < MaxHops /\ query \notin ToSet(tried) /\ calls \in Nat
    BY <1>1 DEF IInv, Budgets, Types, Searching, hop
  <2>2. calls' <= MaxCalls /\ Len(tried') <= MaxHops
    BY <1>1, <1>4, <1>8, <2>1, BudgetAssumption
  <2>3. \A i \in 1 .. hop : tried[i] # query
    BY <1>4, <2>1 DEF ToSet, hop
  <2>4. \A i, j \in 1 .. hop : tried[i] = tried[j] => i = j
    BY <1>4 DEF IInv, Budgets, hop
  <2>5. DOMAIN tried' = 1 .. hop + 1
    BY <1>8
  <2>6. \A i \in 1 .. hop + 1 : i \in 1 .. hop \/ i = hop + 1
    BY <1>4
  <2>7. \A i, j \in 1 .. hop + 1 : tried'[i] = tried'[j] => i = j
    BY <1>8, <2>3, <2>4, <2>6
  <2> QED
    BY <1>1, <2>2, <2>5, <2>7 DEF Budgets, Searching
<1>11. Room'
  BY <1>1, SameRoom DEF IInv
<1>12. Stages'
  BY <1>1, SameStages
<1>13. Cited'
  <2>1. Len(evidence') <= MaxDocuments /\ DOMAIN evidence' = 1 .. Len(evidence')
    BY <1>5, <1>7
  <2>2. DOMAIN evidence = 1 .. old /\ ToSet(evidence) = {evidence[i] : i \in 1 .. old}
    BY <1>4 DEF old, ToSet
  <2>3. ASSUME NEW i \in 1 .. Len(evidence'), i \notin 1 .. old
        PROVE  LET k == i - old
               IN  /\ k \in 1 .. Len(new) /\ new[k] \in found /\ Notes[new[k]].eligible
                   /\ evidence'[i].note = new[k] /\ evidence'[i].hop = hop /\ evidence'[i].query = query
                   /\ \A e \in ToSet(evidence) : Notes[e.note].words # Notes[new[k]].words
                   /\ \A l \in 1 .. Len(new) : k # l => Notes[new[k]].words # Notes[new[l]].words
    <3> DEFINE k == i - old
    <3>1. k \in 1 .. Len(new) /\ evidence'[i] = add[k]
      BY <1>7, <2>3
    <3> HIDE DEF k
    <3>2. add[k] = [note |-> new[k], hop |-> hop, query |-> query]
      BY <1>6, <3>1
    <3>3. new[k] \in found /\ DOMAIN new = 1 .. Len(new)
      BY <1>5, <3>1
    <3>4. /\ Notes[new[k]].eligible
          /\ \A e \in ToSet(evidence) : Notes[e.note].words # Notes[new[k]].words
          /\ \A l \in 1 .. Len(new) : k # l => Notes[new[k]].words # Notes[new[l]].words
      BY <1>5, <3>1, <3>3 DEF Fresh
    <3> QED
      BY <3>1, <3>2, <3>3, <3>4 DEF k
  <2>4. ASSUME NEW i \in 1 .. Len(evidence') PROVE Sourced(evidence[i])'
    <3>1. CASE i \in 1 .. old
      <4>1. Sourced(evidence[i]) /\ evidence'[i] = evidence[i]
        BY <1>7, <2>2, <3>1 DEF IInv, Cited
      <4> DEFINE e == evidence[i]
      <4>2. /\ Notes[e.note].eligible
            /\ (Notes[e.note].type = "procedural" => asked.profile = "prima_full")
        BY <4>1 DEF Sourced
      <4>3. e.hop + 1 \in 1 .. hop /\ e.query = tried[e.hop + 1]
        BY <4>1 DEF Sourced, hop
      <4> HIDE DEF e
      <4>4. e.hop + 1 \in 1 .. Len(tried') /\ e.query = tried'[e.hop + 1]
        BY <1>4, <1>8, <4>3
      <4> QED
        BY <1>1, <4>1, <4>2, <4>4 DEF Sourced, e
    <3>2. CASE i \notin 1 .. old
      <4> DEFINE k == i - old
      <4>1. /\ new[k] \in found /\ Notes[new[k]].eligible
            /\ evidence'[i].note = new[k] /\ evidence'[i].hop = hop /\ evidence'[i].query = query
        BY <2>3, <3>2
      <4>2. Notes[new[k]].type = "procedural" => asked.profile = "prima_full"
        BY <1>3, <4>1
      <4>3. hop + 1 \in 1 .. Len(tried')
        BY <1>4, <1>8
      <4> QED
        BY <1>1, <1>8, <4>1, <4>2, <4>3 DEF Sourced
    <3> QED
      BY <3>1, <3>2
  <2>5. ASSUME NEW i \in 1 .. Len(evidence'), NEW j \in 1 .. Len(evidence'), i # j
        PROVE  Notes[evidence'[i].note].words # Notes[evidence'[j].note].words
    <3>1. CASE i \in 1 .. old /\ j \in 1 .. old
      BY <1>7, <2>2, <2>5, <3>1 DEF IInv, Cited
    <3>2. CASE i \in 1 .. old /\ j \notin 1 .. old
      <4>1. evidence[i] \in ToSet(evidence) /\ evidence'[i] = evidence[i]
        BY <1>7, <2>2, <3>2
      <4> QED
        BY <2>3, <3>2, <4>1
    <3>3. CASE i \notin 1 .. old /\ j \in 1 .. old
      <4>1. evidence[j] \in ToSet(evidence) /\ evidence'[j] = evidence[j]
        BY <1>7, <2>2, <3>3
      <4> QED
        BY <2>3, <3>3, <4>1
    <3>4. CASE i \notin 1 .. old /\ j \notin 1 .. old
      <4> DEFINE k == i - old
                 l == j - old
      <4>1. k # l
        BY <1>4, <1>7, <2>5 DEF old
      <4>2. /\ evidence'[i].note = new[k]
            /\ \A h \in 1 .. Len(new) : k # h => Notes[new[k]].words # Notes[new[h]].words
        BY <2>3, <3>4
      <4>3. l \in 1 .. Len(new) /\ evidence'[j].note = new[l]
        BY <2>3, <3>4
      <4> HIDE DEF k, l
      <4> QED
        BY <4>1, <4>2, <4>3
    <3> QED
      BY <3>1, <3>2, <3>3, <3>4
  <2> QED
    BY <2>1, <2>4, <2>5 DEF Cited
<1>14. Answering'
  <2>1. context = <<>> /\ context' = <<>>
    BY <1>1 DEF IInv, Answering
  <2>2. Kept(<<>>, evidence')
    BY <1>7, NothingKept
  <2>3. status' = "sufficient" => Answered(asked.question, evidence')
    BY <1>2, VerifyIs
  <2>4. Kept(context', evidence')
    BY <2>1, <2>2
  <2>5. asked'.question = asked.question
    BY <1>1
  <2> DEFINE question == asked.question
  <2> QED
    BY <1>1, <2>1, <2>3, <2>4, <2>5 DEF Answering, Kept, Answered
<1> QED
  BY <1>9, <1>10, <1>11, <1>12, <1>13, <1>14 DEF IInv

LEMMA MoreLeads ==
    ASSUME NEW n \in Nat
    PROVE  Leads(n) \subseteq Leads(n + 1)
<1>1. \A k \in 0 .. n : k \in 0 .. n + 1
  OBVIOUS
<1> QED
  BY <1>1 DEF Leads

\* The loop ends: what was found leaves it, compressed.
LEMMA DoneInv ==
    ASSUME IInv, at' = "done", context' = Compressed(evidence), status' \in {status, "error"},
           UNCHANGED <<asked, tried, evidence, calls>>
    PROVE  Budgets' /\ Stages' /\ Cited' /\ Answering'
<1> USE DEF IInv
<1>1. Budgets'
  BY DEF Budgets, Searching
<1>2. Stages'
  BY SameStages
<1>3. Cited'
  BY SameCited
<1>4. Answering'
  <2>1. Kept(context', evidence')
    BY CompressedIs DEF Types
  <2>2. status' = "sufficient" => Answered(asked.question, evidence)
    BY DEF Answering
  <2> QED
    BY <2>1, <2>2 DEF Answering, Kept, Answered
<1> QED
  BY <1>1, <1>2, <1>3, <1>4

LEMMA RaisesInv ==
    ASSUME IInv, SearchRaises
    PROVE  IInv'
<1>1. /\ at # "idle" /\ at' = "done" /\ status' = "error" /\ context' = Compressed(evidence)
      /\ UNCHANGED <<asked, stored, query, tried, evidence, calls, interventions>>
  BY DEF SearchRaises
<1>2. Budgets' /\ Stages' /\ Cited' /\ Answering'
  BY <1>1, DoneInv
<1>3. Types' /\ Room'
  BY <1>1, SameRoom DEF IInv, Types, Searching, Statuses
<1> QED
  BY <1>2, <1>3 DEF IInv

LEMMA FinishInv ==
    ASSUME IInv, at = "weigh", NEW reason, Finish(reason)
    PROVE  IInv'
<1>1. /\ at' = "done" /\ context' = Compressed(evidence)
      /\ UNCHANGED <<asked, stored, query, tried, evidence, calls, interventions, status>>
  BY DEF Finish
<1>2. Budgets' /\ Stages' /\ Cited' /\ Answering'
  BY <1>1, DoneInv
<1>3. Types' /\ Room'
  BY <1>1, SameRoom DEF IInv, Types, Searching
<1> QED
  BY <1>2, <1>3 DEF IInv

\* The question goes on: with a query that was not sent yet, and with the budget for a hop.
LEMMA OnInv ==
    ASSUME IInv, at' = "search", calls < MaxCalls, Len(tried) < MaxHops, query' \notin ToSet(tried),
           UNCHANGED <<asked, tried, evidence, calls, status, context>>, at \in {"weigh", "advise"}
    PROVE  Budgets' /\ Stages' /\ Cited' /\ Answering'
<1> USE DEF IInv
<1>1. Budgets'
  BY DEF Budgets, Searching
<1>2. Stages'
  BY SameStages
<1>3. Cited'
  BY SameCited
<1>4. Answering'
  BY DEF Answering, Kept
<1> QED
  BY <1>1, <1>2, <1>3, <1>4

LEMMA WeighInv ==
    ASSUME IInv, Weigh
    PROVE  IInv'
<1> DEFINE need == Need0
           reason == StopReason(need)
<1>1. at = "weigh"
  BY DEF Weigh
<1>2. \/ \E r : Finish(r)
      \/ reason = "" /\ need # <<>> /\ GoOn(need) /\ UNCHANGED <<stored, interventions>>
      \/ /\ Advisable(reason) /\ at' = "advise" /\ stop' = reason
         /\ UNCHANGED <<asked, stored, query, tried, evidence, calls, interventions, status, context>>
  BY DEF Weigh
<1>3. CASE \E r : Finish(r)
  BY <1>1, <1>3, FinishInv
<1>4. CASE reason = "" /\ need # <<>> /\ GoOn(need) /\ UNCHANGED <<stored, interventions>>
  <2>1. /\ at' = "search" /\ query' = need
        /\ UNCHANGED <<asked, stored, tried, evidence, calls, interventions, status, context>>
    BY <1>4 DEF GoOn
  <2>2. need \in {<<>>} \cup {<<w>> : w \in DOMAIN Lexicon}
    <3>1. evidence \in Seq(Items)
      BY DEF IInv, Types
    <3>2. Need(asked.question, evidence, tried) \in {<<>>} \cup {<<w>> : w \in DOMAIN Lexicon}
      BY <3>1, NeedIs
    <3> QED
      BY <3>2 DEF Need0
  <2> HIDE DEF need
  <2>3. ~(calls >= MaxCalls) /\ ~(Len(tried) >= MaxHops) /\ need \notin ToSet(tried)
    <3>1. StopReason(need) = "" /\ need # <<>>
      BY <1>4
    <3>2. status = "need_more_evidence"
      BY <3>1 DEF StopReason, IInv, Types, Statuses
    <3> QED
      BY <3>1, <3>2, Zenon DEF StopReason
  <2>4. calls < MaxCalls /\ Len(tried) < MaxHops
    BY <2>3, BudgetAssumption DEF IInv, Types
  <2>5. Budgets' /\ Stages' /\ Cited' /\ Answering'
    BY <1>1, <2>1, <2>3, <2>4, OnInv
  <2>6. need \in Leads(interventions)
    <3>1. need \in Asked
      BY <1>4, <2>2 DEF Asked
    <3>2. interventions \in Nat
      BY DEF IInv, Types
    <3> QED
      BY <3>1, <3>2, NoAdvice
  <2>7. Types' /\ Room'
    BY <2>1, <2>6, SameRoom DEF IInv, Types, Searching
  <2> QED
    BY <2>5, <2>7 DEF IInv
<1>5. CASE /\ Advisable(reason) /\ at' = "advise" /\ stop' = reason
           /\ UNCHANGED <<asked, stored, query, tried, evidence, calls, interventions, status, context>>
  <2> USE DEF IInv
  <2>1. interventions < MaxInterventions /\ reason \in DOMAIN Events
    BY <1>5 DEF Advisable
  <2> HIDE DEF reason
  <2>2. Types'
    BY <1>1, <1>5 DEF Types, Searching
  <2>3. Budgets'
    BY <1>1, <1>5, <2>1 DEF Budgets, Searching
  <2>4. Room' /\ Stages' /\ Cited'
    BY <1>5, SameRoom, SameStages, SameCited
  <2>5. Answering'
    BY <1>1, <1>5 DEF Answering, Kept
  <2> QED
    BY <2>2, <2>3, <2>4, <2>5
<1> QED
  BY <1>2, <1>3, <1>4, <1>5

LEMMA ReflectedIs ==
    ASSUME Types, Room, interventions < MaxInterventions
    PROVE  /\ Reflected \in SUBSET DOMAIN Notes
           /\ Cardinality(ReflectionNotes \ Reflected) >= MaxInterventions - (interventions + 1)
<1> DEFINE left == ReflectionNotes \ stored
           n == Cardinality(left)
           first == Min(left)
<1>1. /\ left \in SUBSET DOMAIN Notes /\ stored \in SUBSET DOMAIN Notes
      /\ interventions \in Nat /\ MaxInterventions \in Nat /\ n >= MaxInterventions - interventions
  BY BudgetAssumption DEF Types, Room
<1>2. Reflected = (IF keeps THEN stored \cup {first} ELSE stored)
  BY DEF Reflected
<1>3. left \ {first} = ReflectionNotes \ (stored \cup {first})
  OBVIOUS
<1> HIDE DEF left
<1>4. IsFiniteSet(left) /\ n \in Nat /\ left \in SUBSET Int
  <2>1. IsFiniteSet(left) /\ left \in SUBSET Int
    BY <1>1, StoredFinite
  <2> QED
    BY <2>1, FS_CardinalityType
<1>5. left # {}
  BY <1>1, <1>4, FS_EmptySet
<1>6. first \in left
  BY <1>4, <1>5, FiniteExtremes
<1> HIDE DEF first
<1>7. Cardinality(left \ {first}) = n - 1
  BY <1>4, <1>6, FS_RemoveElement
<1>8. CASE keeps
  <2>1. Reflected = stored \cup {first} /\ ReflectionNotes \ Reflected = left \ {first}
    BY <1>2, <1>3, <1>8
  <2>2. Reflected \in SUBSET DOMAIN Notes
    BY <1>1, <1>6, <2>1
  <2>3. Cardinality(ReflectionNotes \ Reflected) = n - 1
    BY <1>7, <2>1
  <2>4. n - 1 >= MaxInterventions - (interventions + 1)
    BY <1>1, <1>4
  <2> QED
    BY <2>2, <2>3, <2>4
<1>9. CASE ~keeps
  <2>1. Reflected = stored /\ Cardinality(ReflectionNotes \ Reflected) = n
    BY <1>2, <1>9 DEF left
  <2>2. n >= MaxInterventions - (interventions + 1)
    BY <1>1, <1>4
  <2> QED
    BY <1>1, <2>1, <2>2
<1> QED
  BY <1>8, <1>9

\* What is advised to a search that found nothing new, or found it denied.
LEMMA AdviceIs ==
    ASSUME NEW reason \in DOMAIN Events, NEW memories, NEW q
    PROVE  AdviceFor(Events[reason], ReasoningContext(Events[reason], memories), q).query = q \o Suffix
<1> DEFINE event == Events[reason]
<1>1. event \in {"no_new_evidence", "duplicate_query", "contradictory_evidence"}
  BY DEF Events
<1> HIDE DEF event
<1>2. ActionFor(event) \in {"revise_query", "broaden_query"}
  <2>1. CASE event = "no_new_evidence"
    BY <2>1 DEF ActionFor
  <2>2. CASE event = "duplicate_query"
    BY <2>2 DEF ActionFor
  <2>3. CASE event = "contradictory_evidence"
    BY <2>3 DEF ActionFor
  <2> QED
    BY <1>1, <2>1, <2>2, <2>3
<1>3. Suggested(event, q) = q \o Suffix
  <2>1. CASE ActionFor(event) = "revise_query"
    BY <2>1 DEF Suggested
  <2>2. CASE ActionFor(event) = "broaden_query"
    BY <2>2 DEF Suggested
  <2> QED
    BY <1>2, <2>1, <2>2
<1> QED
  BY <1>3 DEF AdviceFor, event

LEMMA AdviseInv ==
    ASSUME IInv, Advise
    PROVE  IInv'
<1> DEFINE event  == Events[stop]
           advice == AdviceFor(event, ReasoningContext(event, Len(evidence)), query)
<1>1. /\ at = "advise" /\ stored' = Reflected /\ interventions' = interventions + 1
      /\ UNCHANGED <<asked, tried, evidence, calls, status>>
  BY DEF Advise
<1>2. \/ Usable(advice) /\ at' = "search" /\ query' = advice.query /\ context' = context
      \/ at' = "done" /\ context' = Compressed(evidence) /\ query' = query
  BY DEF Advise
<1>3. stop \in DOMAIN Events /\ interventions < MaxInterventions /\ interventions \in Nat
      /\ MaxInterventions \in Nat /\ query \in Leads(interventions) /\ calls \in Nat /\ Len(tried) \in Nat
  BY <1>1, BudgetAssumption DEF IInv, Budgets, Types
<1>4. advice.query = query \o Suffix
  BY <1>3, AdviceIs
<1>5. query \o Suffix \in Leads(interventions + 1) /\ query \in Leads(interventions + 1)
  BY <1>3, OneMoreAdvice, MoreLeads
<1>6. Reflected \in SUBSET DOMAIN Notes
      /\ Cardinality(ReflectionNotes \ Reflected) >= MaxInterventions - (interventions + 1)
  BY <1>3, ReflectedIs DEF IInv
<1>7. Room'
  BY <1>1, <1>6 DEF Room
<1>8. ASSUME at' \in {"search", "done"}, query' \in Leads(interventions + 1) PROVE Types'
  <2>1. interventions + 1 \in 0 .. MaxInterventions
    BY <1>3
  <2> QED
    BY <1>1, <1>6, <1>8, <2>1 DEF IInv, Types, Searching
<1>9. CASE Usable(advice) /\ at' = "search" /\ query' = advice.query /\ context' = context
  <2>1. query' \notin ToSet(tried) /\ calls + 1 <= MaxCalls /\ Len(tried) + 1 <= MaxHops
    BY <1>9, Zenon DEF Usable, WithinBudget
  <2>2. calls < MaxCalls /\ Len(tried) < MaxHops
    BY <1>3, <2>1, BudgetAssumption
  <2>3. Budgets' /\ Stages' /\ Cited' /\ Answering'
    BY <1>1, <1>9, <2>1, <2>2, OnInv
  <2>4. Types'
    BY <1>4, <1>5, <1>8, <1>9
  <2> QED
    BY <1>7, <2>3, <2>4 DEF IInv
<1>10. CASE at' = "done" /\ context' = Compressed(evidence) /\ query' = query
  <2>1. Budgets' /\ Stages' /\ Cited' /\ Answering'
    BY <1>1, <1>10, DoneInv
  <2>2. Types'
    BY <1>5, <1>8, <1>10
  <2> QED
    BY <1>7, <2>1, <2>2 DEF IInv
<1> QED
  BY <1>2, <1>9, <1>10

LEMMA AdvisorRaisesInv ==
    ASSUME IInv, AdvisorRaises
    PROVE  IInv'
<1>1. /\ at = "advise" /\ at' = "done" /\ context' = Compressed(evidence)
      /\ interventions' = interventions + 1
      /\ UNCHANGED <<asked, stored, query, tried, evidence, calls, status>>
  BY DEF AdvisorRaises
<1>2. Budgets' /\ Stages' /\ Cited' /\ Answering'
  BY <1>1, DoneInv
<1>3. interventions < MaxInterventions /\ interventions \in Nat /\ MaxInterventions \in Nat
      /\ query \in Leads(interventions) /\ stored \in SUBSET DOMAIN Notes
  BY <1>1, BudgetAssumption DEF IInv, Budgets, Types
<1>4. Types'
  <2>1. interventions + 1 \in 0 .. MaxInterventions
    BY <1>3
  <2>2. query \in Leads(interventions + 1)
    BY <1>3, MoreLeads
  <2> QED
    BY <1>1, <2>1, <2>2 DEF IInv, Types, Searching
<1>5. Room'
  <2> DEFINE n == Cardinality(ReflectionNotes \ stored)
  <2>1. n >= MaxInterventions - interventions
    BY DEF IInv, Room
  <2>2. n \in Nat
    <3>1. IsFiniteSet(ReflectionNotes \ stored)
      <4>1. ReflectionNotes \ stored \in SUBSET DOMAIN Notes
        BY BudgetAssumption
      <4> QED
        BY <4>1, StoredFinite
    <3> QED
      BY <3>1, FS_CardinalityType
  <2> HIDE DEF n
  <2>3. n >= MaxInterventions - (interventions + 1)
    BY <1>3, <2>1, <2>2
  <2> QED
    BY <1>1, <2>3 DEF Room, n
<1> QED
  BY <1>2, <1>4, <1>5 DEF IInv

\* The time passes, or nothing happens.
LEMMA SameInv ==
    ASSUME IInv, UNCHANGED <<at, asked, stored, query, tried, evidence, calls, interventions,
                             returned, status, stop, context>>
    PROVE  IInv'
<1> USE DEF IInv
<1>1. Types'
  BY DEF Types
<1>2. Budgets'
  BY DEF Budgets
<1>3. Room' /\ Cited'
  BY SameRoom, SameCited
<1>4. Stages'
  <2>1. Open' = Open /\ Found' = Found
    BY DEF Found, Citable, Open, Searched
  <2> QED
    BY <2>1 DEF Stages
<1>5. Answering'
  BY DEF Answering, Kept
<1> QED
  BY <1>1, <1>2, <1>3, <1>4, <1>5

LEMMA NextInv == IInv /\ [Next]_vars => IInv'
<1> SUFFICES ASSUME IInv, [Next]_vars PROVE IInv'
  OBVIOUS
<1>1. ASSUME NEW q \in Questions, NEW m \in Modes, NEW p \in {"simple_rag", "prima_full"}, Ask(q, m, p)
      PROVE  IInv'
  BY <1>1, AskInv
<1>2. CASE SearchRaises
  BY <1>2, RaisesInv
<1>3. CASE AdvisorRaises
  BY <1>3, AdvisorRaisesInv
<1>4. CASE Weigh
  BY <1>4, WeighInv
<1>5. CASE Advise
  BY <1>5, AdviseInv
<1>6. CASE Integrate
  BY <1>6, IntegrateInv
<1>7. CASE Search
  BY <1>7, SearchInv
<1>8. CASE Score
  BY <1>8, ScoreInv
<1>9. CASE Rank
  BY <1>9, RankInv
<1>10. CASE TimePasses
  <2>1. UNCHANGED <<at, asked, stored, query, tried, evidence, calls, interventions,
                    returned, status, stop, context>>
    BY <1>10 DEF TimePasses, loop
  <2> QED
    BY <2>1, SameInv
<1>11. CASE UNCHANGED vars
  <2>1. UNCHANGED <<at, asked, stored, query, tried, evidence, calls, interventions,
                    returned, status, stop, context>>
    BY <1>11 DEF vars, loop
  <2> QED
    BY <2>1, SameInv
<1> QED
  BY <1>1, <1>2, <1>3, <1>4, <1>5, <1>6, <1>7, <1>8, <1>9, <1>10, <1>11 DEF Next, LoopStep

LEMMA Inductive == Spec => []IInv
BY InitInv, NextInv, PTL DEF Spec

\* The loop of ReasoningController.answer never sends a query twice, and stays within
\* max_hops, max_retrieval_calls and max_reflection_interventions, whichever of the two ways
\* a question goes on; before every search the budgets leave room for it.
THEOREM Budgeted == Spec => []LoopWithinBudget
<1>1. IInv => LoopWithinBudget
  BY BudgetAssumption DEF IInv, Budgets, Types, LoopWithinBudget, Searching
<1> QED
  BY Inductive, <1>1, PTL

\* What ReasoningController.answer cites was retrieved under a query that was sent, may be
\* cited, says nothing twice, and is a procedure under the full profile alone, whose graph
\* strategy does not filter by type; it stays within max_evidence_documents, and the
\* compressor hands on a prefix whose last item still found room. A question reported as
\* sufficient has its terms in the evidence, and nothing in the evidence denies it.
THEOREM Cites == Spec => []EvidenceIsOwn
<1>1. IInv => EvidenceIsOwn
  <2> SUFFICES ASSUME IInv PROVE EvidenceIsOwn
    OBVIOUS
  <2>1. Cited /\ Answering
    BY DEF IInv
  <2>2. ASSUME NEW i \in DOMAIN evidence
        PROVE  /\ Notes[evidence[i].note].eligible
               /\ Notes[evidence[i].note].type = "procedural" => asked.profile = "prima_full"
               /\ evidence[i].query = tried[evidence[i].hop + 1]
               /\ \A j \in DOMAIN evidence \ {i} :
                     Notes[evidence[i].note].words # Notes[evidence[j].note].words
    BY <2>1 DEF Cited, Sourced
  <2>3. Len(evidence) <= MaxDocuments
    BY <2>1 DEF Cited
  <2>4. IsPrefix(context, evidence) /\ (context # <<>> => Words(SubSeq(context, 1, Len(context) - 1)) < MaxTokens)
    BY <2>1 DEF Answering, Kept
  <2>5. status = "sufficient" => /\ evidence # <<>> /\ ~Conflicting(evidence)
                                 /\ Coverage(asked.question, evidence) >= 600
    BY <2>1 DEF Answering, Answered
  <2> QED
    BY <2>2, <2>3, <2>4, <2>5 DEF EvidenceIsOwn
<1> QED
  BY Inductive, <1>1, PTL
================================================================================
