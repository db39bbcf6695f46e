------------------------------ MODULE Counting ------------------------------
(***************************************************************************)
(* Sums and orders by counting.  The runners add up dollars: the cost of   *)
(* every saved response, of every failure receipt, of every reservation in *)
(* flight.  Here an amount f[x] is the set of f[x] tokens of x and a sum   *)
(* is the number of tokens.  The arms sort and filter: here the place of a *)
(* member is the number of those before it.  Both give the proofs the      *)
(* facts about finite cardinalities instead of a recursion.                *)
(***************************************************************************)
EXTENDS Integers, FiniteSets

\* The tokens of a function from a finite set to Nat.
Tokens(f) == UNION {{x} \X (1 .. f[x]) : x \in DOMAIN f}

\* The sum of f[x] over the domain of f.
Total(f) == Cardinality(Tokens(f))

\* The members of S in order, where before[x] is the set of those that precede x.
Arranged(S, before) ==
  [i \in 1 .. Cardinality(S) |-> CHOOSE x \in S : Cardinality(before[x]) = i - 1]

\* The places of a sequence where its element is in K, and these elements in order.
PlacesOf(s, K) ==
  LET places == {i \in DOMAIN s : s[i] \in K}
  IN  Arranged(places, [i \in places |-> {j \in places : j < i}])
Filtered(s, K) == LET places == PlacesOf(s, K) IN [k \in DOMAIN places |-> s[places[k]]]
=============================================================================
