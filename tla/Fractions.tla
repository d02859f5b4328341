------------------------------ MODULE Fractions ------------------------------
(***************************************************************************)
(* Exact fractions in lowest terms, <<numerator, denominator>> with a      *)
(* positive denominator: what the code holds in floating point.            *)
(***************************************************************************)
EXTENDS Common, Integers, Sequences, SequencesExt

Gcd[p \in Nat \X Nat] == IF p[2] = 0 THEN p[1] ELSE Gcd[<<p[2], p[1] % p[2]>>]

Frac(n, d) ==
    LET g == Gcd[<<IF n < 0 THEN -n ELSE n, d>>]
    IN  <<n \div g, d \div g>>

IsFraction(x) == x \in Int \X (Nat \ {0})

Int2Frac(n) == <<n, 1>>
Add(x, y) == Frac(x[1] * y[2] + y[1] * x[2], x[2] * y[2])
Minus(x, y) == Frac(x[1] * y[2] - y[1] * x[2], x[2] * y[2])
Times(x, y) == Frac(x[1] * y[1], x[2] * y[2])
Over(x, n) == Frac(x[1], x[2] * n)
Less(x, y) == x[1] * y[2] < y[1] * x[2]
AtMost(x, y) == ~Less(y, x)
Percentage(x) == IsFraction(x) /\ AtMost(Int2Frac(0), x) /\ AtMost(x, Int2Frac(100))
Larger(x, y) == IF Less(x, y) THEN y ELSE x
Smaller(x, y) == IF Less(x, y) THEN x ELSE y

(* A series has None where pandas has NaN.                                 *)
Known(s) == \A i \in DOMAIN s : s[i] # None
Mean(s) == Over(FoldLeft(Add, Int2Frac(0), s), Len(s))
SmallestOf(s) == FoldLeft(Smaller, Head(s), s)
AsFracs(s) == SubSeq([i \in DOMAIN s |-> Int2Frac(s[i])], 1, Len(s))
=============================================================================
