-------------------------------- MODULE Scores --------------------------------
(* The arithmetic of scores. A score of the code is a float, mostly in [0,1];*)
(* here it is an integer over One, rounded down. Shared by the modules that  *)
(* compute scores; it has no state.                                          *)
EXTENDS Integers, Sequences, FiniteSets, FiniteSetsExt, SequencesExt

One == 1000
None == -1     \* no score: the Python value None

Within(x) == Max({0, Min({One, x})})

Or(x, default) == IF x = None THEN default ELSE Within(x)

(* The product of two scores, and the part of a score that a percentage is.  *)
Scaled(x, y) == (x * y) \div One

Percent(p, x) == (p * x) \div 100

Abs(x) == IF x < 0 THEN -x ELSE x

SumOver(S, f(_)) == MapThenSumSet(f, S)

(* The mean of f over a non-empty set of indices.                            *)
MeanOver(S, f(_)) == SumOver(S, f) \div Cardinality(S)

(* The square root of 0 .. 3519 squared: a block of 64 first, then in it.    *)
Root(n) ==
    CHOOSE r \in UNION {64 * q .. 64 * q + 63 :
                          q \in {b \in 0 .. 54 : 4096 * b * b <= n /\ n < 4096 * (b + 1) * (b + 1)}} :
        r * r <= n /\ n < (r + 1) * (r + 1)

(* A function of the code that has no integer form (a logarithm, a logistic) *)
(* is a table of its values at 0, step, 2 * step, ..., linear in between.    *)
At(table, step, x) ==
    LET i == Min({1 + (x \div step), Len(table) - 1})
    IN  table[i] + ((table[i + 1] - table[i]) * (x - (i - 1) * step)) \div step
=============================================================================
