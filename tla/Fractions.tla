----------------------------- MODULE Fractions ------------------------------
(***************************************************************************)
(* The rates of the tables: a fraction is a numerator and a positive       *)
(* denominator.  A value that may be None is a set of at most one.         *)
(***************************************************************************)
EXTENDS Integers, FiniteSets, Functions

Zero == <<0, 1>>
One == <<1, 1>>

Equal(a, b) == a[1] * b[2] = b[1] * a[2]
AtMost(a, b) == a[1] * b[2] <= b[1] * a[2]
Less(a, b) == a[1] * b[2] < b[1] * a[2]

Negated(a) == <<-a[1], a[2]>>
Plus(a, b) ==
  IF a[2] % b[2] = 0 THEN <<a[1] + b[1] * (a[2] \div b[2]), a[2]>>
  ELSE IF b[2] % a[2] = 0 THEN <<a[1] * (b[2] \div a[2]) + b[1], b[2]>>
  ELSE <<a[1] * b[2] + b[1] * a[2], a[2] * b[2]>>
Minus(a, b) == Plus(a, Negated(b))
Over(a, n) == IF a[1] % n = 0 THEN <<a[1] \div n, a[2]>> ELSE <<a[1], a[2] * n>>

\* Of a function whose values are fractions.
SumOf(f) == FoldFunction(Plus, Zero, f)
MeanOf(f) == Over(SumOf(f), Cardinality(DOMAIN f))
\* The mean of the values that are there, None if none is.
The(value) == CHOOSE v \in value : TRUE
Available(f) == {k \in DOMAIN f : f[k] # {}}
OptionalMean(f) ==
  IF Available(f) = {} THEN {} ELSE {MeanOf([k \in Available(f) |-> The(f[k])])}
Half(a, b) == MeanOf(<<a, b>>)

\* a comes before b in the order of tuples of fractions.
Before(a, b) ==
  \E k \in DOMAIN a : Less(a[k], b[k]) /\ \A j \in 1 .. k - 1 : Equal(a[j], b[j])
=============================================================================
