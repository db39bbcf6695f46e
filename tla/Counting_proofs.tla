---------------------------- MODULE Counting_proofs ----------------------------
(* Facts about Total: it is a natural number, and it changes by exactly the  *)
(* change of one amount.  Facts about Arranged: it lists an ordered set, each *)
(* member once, by nothing but the order; and which orders the arms sort by.  *)
EXTENDS Counting, FiniteSetTheorems, FiniteSetsExt, SequencesExt, SequenceTheorems, TLAPS

\* A block of n tokens of x has n members.
LEMMA BlockSize ==
  ASSUME NEW x, NEW n \in Nat
  PROVE  /\ IsFiniteSet({x} \X (1 .. n))
         /\ Cardinality({x} \X (1 .. n)) = n
<1>1. IsFiniteSet({x}) /\ Cardinality({x}) = 1
  BY FS_Singleton
<1>2. IsFiniteSet(1 .. n) /\ Cardinality(1 .. n) = n
  BY FS_Interval
<1>3. /\ IsFiniteSet({x} \X (1 .. n))
      /\ Cardinality({x} \X (1 .. n)) = Cardinality({x}) * Cardinality(1 .. n)
  BY <1>1, <1>2, FS_Product, Zenon
<1>. QED
  BY <1>1, <1>2, <1>3

\* The sum of finitely many natural amounts is a natural number.
LEMMA TotalType ==
  ASSUME NEW S, IsFiniteSet(S), NEW f \in [S -> Nat]
  PROVE  IsFiniteSet(Tokens(f)) /\ Total(f) \in Nat
<1>. DEFINE B == {{x} \X (1 .. f[x]) : x \in S}
<1>. DEFINE block == [x \in S |-> {x} \X (1 .. f[x])]
<1>1. block \in Surjection(S, B)
  BY DEF Surjection
<1>2. IsFiniteSet(B)
  BY <1>1, FS_Surjection
<1>3. \A T \in B : IsFiniteSet(T)
  <2>. SUFFICES ASSUME NEW x \in S
                PROVE  IsFiniteSet({x} \X (1 .. f[x]))
    OBVIOUS
  <2>. f[x] \in Nat
    OBVIOUS
  <2>. QED
    BY BlockSize
<1>4. IsFiniteSet(UNION B)
  BY <1>2, <1>3, FS_UNION, Zenon
<1>5. Tokens(f) = UNION B
  BY DEF Tokens
<1>. QED
  BY <1>4, <1>5, FS_CardinalityType DEF Total

\* Changing one amount changes the sum by the difference.
LEMMA TotalUpdate ==
  ASSUME NEW S, IsFiniteSet(S), NEW f \in [S -> Nat],
         NEW x \in S, NEW v \in Nat
  PROVE  Total([f EXCEPT ![x] = v]) = Total(f) - f[x] + v
<1>. DEFINE g == [f EXCEPT ![x] = v]
            Rest == UNION {{y} \X (1 .. f[y]) : y \in S \ {x}}
            Old == {x} \X (1 .. f[x])
            New == {x} \X (1 .. v)
<1>1. g \in [S -> Nat] /\ f[x] \in Nat
  OBVIOUS
<1>2. Tokens(f) = Rest \cup Old
  BY DEF Tokens
<1>3. Tokens(g) = Rest \cup New
  BY DEF Tokens
<1>4. Rest \cap Old = {} /\ Rest \cap New = {}
  OBVIOUS
<1>5. IsFiniteSet(Rest)
  BY <1>2, TotalType, FS_Subset
<1>6. /\ IsFiniteSet(Old) /\ Cardinality(Old) = f[x]
      /\ IsFiniteSet(New) /\ Cardinality(New) = v
  BY <1>1, BlockSize
<1>7. Cardinality({}) = 0 /\ Cardinality(Rest) \in Nat
  BY <1>5, FS_EmptySet, FS_CardinalityType
<1>8. Cardinality(Rest \cup Old) = Cardinality(Rest) + f[x] - Cardinality(Rest \cap Old)
  BY <1>5, <1>6, FS_Union
<1>9. Cardinality(Rest \cup New) = Cardinality(Rest) + v - Cardinality(Rest \cap New)
  BY <1>5, <1>6, FS_Union
<1>. HIDE DEF g, Rest, Old, New
<1>10. Cardinality(Rest \cap Old) = 0 /\ Cardinality(Rest \cap New) = 0
  BY <1>4, <1>7, Zenon
<1>11. Total(f) = Cardinality(Rest \cup Old) /\ Total(g) = Cardinality(Rest \cup New)
  BY <1>2, <1>3, Zenon DEF Total
<1>12. Total(g) = Total(f) - f[x] + v
  BY <1>1, <1>7, <1>8, <1>9, <1>10, <1>11
<1>. QED
  BY <1>12 DEF g

\* One more amount adds itself to the sum: what appending a row does.
LEMMA TotalExtend ==
  ASSUME NEW S, IsFiniteSet(S), NEW x, x \notin S,
         NEW g \in [S \cup {x} -> Nat]
  PROVE  Total(g) = Total([y \in S |-> g[y]]) + g[x]
<1>. DEFINE f == [y \in S |-> g[y]]
            New == {x} \X (1 .. g[x])
<1>1. f \in [S -> Nat] /\ g[x] \in Nat
  OBVIOUS
<1>2. IsFiniteSet(Tokens(f)) /\ Total(f) \in Nat
  BY <1>1, TotalType
<1>3. IsFiniteSet(New) /\ Cardinality(New) = g[x]
  BY <1>1, BlockSize
<1>4. Tokens(g) = Tokens(f) \cup New
  BY DEF Tokens
<1>5. Tokens(f) \cap New = {}
  BY DEF Tokens
<1>6. Cardinality(Tokens(f) \cup New)
        = Cardinality(Tokens(f)) + Cardinality(New) - Cardinality(Tokens(f) \cap New)
  BY <1>2, <1>3, FS_Union
<1>7. Cardinality(Tokens(f) \cap New) = 0
  BY <1>5, FS_EmptySet
<1>. QED
  BY <1>1, <1>2, <1>3, <1>4, <1>6, <1>7 DEF Total

\* A sum of nothing.
LEMMA TotalZero ==
  ASSUME NEW S, NEW f \in [S -> Nat], \A x \in S : f[x] = 0
  PROVE  Total(f) = 0
<1>1. Tokens(f) = {}
  BY DEF Tokens
<1>. QED
  BY <1>1, FS_EmptySet DEF Total

\* With a single amount that is not zero the sum is that amount, however many
\* terms there are.
LEMMA TotalSingle ==
  ASSUME NEW S, NEW f \in [S -> Nat], NEW x \in S, \A y \in S \ {x} : f[y] = 0
  PROVE  Total(f) = f[x]
<1>1. Tokens(f) = {x} \X (1 .. f[x])
  BY DEF Tokens
<1>2. f[x] \in Nat
  OBVIOUS
<1>3. Cardinality({x} \X (1 .. f[x])) = f[x]
  BY <1>2, BlockSize, Zenon
<1>. QED
  BY <1>1, <1>3, Zenon DEF Total

\* Larger amounts have a larger sum.
LEMMA TotalMonotone ==
  ASSUME NEW S, IsFiniteSet(S), NEW f \in [S -> Nat], NEW g \in [S -> Nat],
         \A x \in S : f[x] <= g[x]
  PROVE  Total(f) <= Total(g)
<1>1. Tokens(f) \in SUBSET Tokens(g)
  BY DEF Tokens
<1>2. IsFiniteSet(Tokens(g))
  BY TotalType
<1>. QED
  BY <1>1, <1>2, FS_Subset DEF Total

\* Some of the amounts sum up to no more than all of them.
LEMMA TotalPart ==
  ASSUME NEW S, IsFiniteSet(S), NEW f \in [S -> Nat], NEW W \in SUBSET S
  PROVE  /\ Total([x \in W |-> f[x]]) \in Nat
         /\ Total([x \in W |-> f[x]]) <= Total(f)
<1>1. IsFiniteSet(W) /\ [x \in W |-> f[x]] \in [W -> Nat]
  BY FS_Subset
<1>2. Tokens([x \in W |-> f[x]]) \in SUBSET Tokens(f)
  BY DEF Tokens
<1>3. IsFiniteSet(Tokens(f))
  BY TotalType
<1>4. Total([x \in W |-> f[x]]) \in Nat
  BY <1>1, TotalType
<1>. QED
  BY <1>2, <1>3, <1>4, FS_Subset DEF Total

\* The sum of sums is the sum of both.
LEMMA TotalSum ==
  ASSUME NEW S, IsFiniteSet(S), NEW f \in [S -> Nat], NEW g \in [S -> Nat]
  PROVE  Total([x \in S |-> f[x] + g[x]]) = Total(f) + Total(g)
<1>. DEFINE both == [x \in S |-> f[x] + g[x]]
            Later == UNION {{x} \X (f[x] + 1 .. f[x] + g[x]) : x \in S}
            shift == [t \in Tokens(g) |-> <<t[1], f[t[1]] + t[2]>>]
<1>1. \A x \in S : f[x] \in Nat /\ g[x] \in Nat /\ both[x] = f[x] + g[x]
  OBVIOUS
<1>2. \A x, n : /\ <<x, n>> \in Tokens(f) <=> x \in S /\ n \in 1 .. f[x]
                /\ <<x, n>> \in Tokens(g) <=> x \in S /\ n \in 1 .. g[x]
                /\ <<x, n>> \in Tokens(both) <=> x \in S /\ n \in 1 .. f[x] + g[x]
                /\ <<x, n>> \in Later <=> x \in S /\ n \in f[x] + 1 .. f[x] + g[x]
  BY DEF Tokens
<1>3. \A t \in Tokens(f) \cup Tokens(g) \cup Tokens(both) \cup Later :
        \E x \in S, n \in Nat : t = <<x, n>>
  BY <1>1 DEF Tokens
<1>4. Tokens(both) = Tokens(f) \cup Later /\ Tokens(f) \cap Later = {}
  <2>. HIDE DEF both, Later
  <2>1. ASSUME NEW t \in Tokens(both) \cup Tokens(f) \cup Later
        PROVE  /\ t \in Tokens(both) <=> t \in Tokens(f) \/ t \in Later
               /\ ~(t \in Tokens(f) /\ t \in Later)
    <3>1. PICK x \in S, n \in Nat : t = <<x, n>>
      BY <1>3
    <3>. QED
      BY <1>1, <1>2, <3>1
  <2>. QED
    BY <2>1
<1>5. shift \in Bijection(Tokens(g), Later)
  <2>1. \A x \in S : \A n \in 1 .. g[x] : shift[<<x, n>>] = <<x, f[x] + n>>
    BY <1>2
  <2>2. \A t \in Tokens(g) : \E x \in S : \E n \in 1 .. g[x] : t = <<x, n>>
    BY DEF Tokens
  <2>3. \A x \in S : \A n \in 1 .. g[x] : <<x, f[x] + n>> \in Later
    BY <1>1, <1>2
  <2>. HIDE DEF Later
  <2>4. shift \in [Tokens(g) -> Later]
    <3>. SUFFICES ASSUME NEW t \in Tokens(g)
                  PROVE  shift[t] \in Later
      OBVIOUS
    <3>. HIDE DEF shift
    <3>. QED
      BY <2>1, <2>2, <2>3
  <2>. HIDE DEF shift
  <2>5. \A s, t \in Tokens(g) : shift[s] = shift[t] => s = t
    <3>. SUFFICES ASSUME NEW s \in Tokens(g), NEW t \in Tokens(g), shift[s] = shift[t]
                  PROVE  s = t
      OBVIOUS
    <3>1. PICK x \in S, n \in Nat : n \in 1 .. g[x] /\ s = <<x, n>>
      BY <2>2
    <3>2. PICK y \in S, k \in Nat : k \in 1 .. g[y] /\ t = <<y, k>>
      BY <2>2
    <3>3. <<x, f[x] + n>> = <<y, f[y] + k>>
      BY <2>1, <3>1, <3>2
    <3>. QED
      BY <1>1, <3>1, <3>2, <3>3
  <2>6. \A u \in Later : \E t \in Tokens(g) : shift[t] = u
    <3>. SUFFICES ASSUME NEW u \in Later
                  PROVE  \E t \in Tokens(g) : shift[t] = u
      OBVIOUS
    <3>1. PICK x \in S, n \in Nat : u = <<x, n>>
      BY <1>3
    <3>2. n \in f[x] + 1 .. f[x] + g[x]
      BY <1>2, <3>1
    <3>3. n - f[x] \in 1 .. g[x] /\ f[x] + (n - f[x]) = n
      BY <1>1, <3>2
    <3>. QED
      BY <1>2, <2>1, <3>1, <3>3
  <2>. QED
    BY <2>4, <2>5, <2>6 DEF Bijection, Injection, Surjection, IsInjective
<1>6. /\ IsFiniteSet(Tokens(f)) /\ IsFiniteSet(Tokens(g))
      /\ Total(f) \in Nat /\ Total(g) \in Nat
  BY TotalType
<1>7. IsFiniteSet(Later) /\ Cardinality(Later) = Cardinality(Tokens(g))
  <2>. HIDE DEF Later, shift
  <2>. QED
    BY <1>5, <1>6, FS_Bijection DEF ExistsBijection
<1>8. Cardinality(Tokens(f) \cap Later) = 0
  BY <1>4, FS_EmptySet
<1>9. Cardinality(Tokens(f) \cup Later)
        = Cardinality(Tokens(f)) + Cardinality(Later) - Cardinality(Tokens(f) \cap Later)
  <2>. HIDE DEF Later
  <2>. QED
    BY <1>6, <1>7, FS_Union
<1>. HIDE DEF Later, both
<1>10. Total(both) = Total(f) + Total(g)
  BY <1>4, <1>6, <1>7, <1>8, <1>9 DEF Total
<1>. QED
  BY <1>10 DEF both

\* Amounts up to m, not zero on a set W only, sum up to m for each member of W.
LEMMA TotalBounded ==
  ASSUME NEW S, IsFiniteSet(S), NEW f \in [S -> Nat], NEW W \in SUBSET S, NEW m \in Nat,
         \A x \in S : f[x] <= m, \A x \in S \ W : f[x] = 0
  PROVE  Total(f) <= Cardinality(W) * m
<1>1. IsFiniteSet(W) /\ IsFiniteSet(1 .. m) /\ Cardinality(1 .. m) = m
  BY FS_Subset, FS_Interval
<1>2. /\ IsFiniteSet(W \X (1 .. m))
      /\ Cardinality(W \X (1 .. m)) = Cardinality(W) * Cardinality(1 .. m)
  BY <1>1, FS_Product, Zenon
<1>3. Tokens(f) \in SUBSET (W \X (1 .. m))
  BY DEF Tokens
<1>4. Cardinality(Tokens(f)) <= Cardinality(W \X (1 .. m))
  BY <1>2, <1>3, FS_Subset, Zenon
<1>. QED
  BY <1>1, <1>2, <1>4 DEF Total

\* What the rows of a checkpoint cost together is a number.
LEMMA CostsType ==
  ASSUME NEW R, \A r \in R : r.cost \in Nat, NEW rows \in Seq(R)
  PROVE  Total([i \in DOMAIN rows |-> rows[i].cost]) \in Nat
<1>. DEFINE f == [i \in DOMAIN rows |-> rows[i].cost]
<1>1. IsFiniteSet(DOMAIN rows)
  BY FS_Interval, LenProperties
<1>2. f \in [DOMAIN rows -> Nat]
  <2>1. \A i \in DOMAIN rows : rows[i] \in R
    BY LenProperties, ElementOfSeq
  <2>. QED
    BY <2>1
<1>. QED
  BY <1>1, <1>2, TotalType, Zenon

\* A new row adds its cost.
LEMMA CostsAppend ==
  ASSUME NEW R, \A r \in R : r.cost \in Nat, NEW rows \in Seq(R), NEW row \in R
  PROVE  Total([i \in DOMAIN Append(rows, row) |-> Append(rows, row)[i].cost])
           = Total([i \in DOMAIN rows |-> rows[i].cost]) + row.cost
<1>. DEFINE S == 1 .. Len(rows)
            x == Len(rows) + 1
            more == Append(rows, row)
            g == [i \in S \cup {x} |-> more[i].cost]
<1>1. /\ Len(rows) \in Nat /\ DOMAIN rows = S /\ IsFiniteSet(S) /\ x \notin S
  BY LenProperties, FS_Interval
<1>2. more \in Seq(R) /\ Len(more) = x /\ DOMAIN more = S \cup {x}
  BY <1>1, LenProperties, AppendProperties
<1>3. more[x] = row /\ \A i \in S : more[i] = rows[i]
  BY AppendProperties
<1>4. g \in [S \cup {x} -> Nat]
  <2>1. \A i \in S \cup {x} : more[i] \in R
    <3>1. S \cup {x} = 1 .. Len(more)
      BY <1>1, <1>2, LenProperties
    <3>. QED
      BY <1>2, <3>1, ElementOfSeq
  <2>. QED
    BY <2>1
<1>5. Total(g) = Total([y \in S |-> g[y]]) + g[x]
  <2>. HIDE DEF S, x, g
  <2>. QED
    BY <1>1, <1>4, TotalExtend
<1>6. [y \in S |-> g[y]] = [i \in DOMAIN rows |-> rows[i].cost] /\ g[x] = row.cost
  BY <1>1, <1>3
<1>7. Total([i \in DOMAIN more |-> more[i].cost]) = Total(g)
  BY <1>2
<1>. QED
  BY <1>5, <1>6, <1>7

\* A nonempty set of natural numbers has the least element Min chooses.  The
\* lower bounds of S below a member x are 0 .. m - 1 for their number m, and
\* m - 1 itself is in S.
LEMMA MinIsMember ==
  ASSUME NEW S \in SUBSET Nat, S # {}
  PROVE  Min(S) \in S /\ \A y \in S : Min(S) <= y
<1>1. PICK x \in S : TRUE
  OBVIOUS
<1>. DEFINE L == {n \in 0 .. x : \A s \in S : n <= s}
            m == Cardinality(L)
<1>2. IsFiniteSet(L) /\ m \in Nat
  <2>1. IsFiniteSet(0 .. x)
    BY FS_Interval
  <2>2. L \in SUBSET (0 .. x)
    OBVIOUS
  <2>3. IsFiniteSet(L)
    BY <2>1, <2>2, FS_Subset, Zenon
  <2>. QED
    BY <2>3, FS_CardinalityType, Zenon
<1>3. 0 \in L
  OBVIOUS
<1>4. \A n \in L : n \in Nat /\ 0 .. n \in SUBSET L
  OBVIOUS
<1>5. \A k \in Nat : IsFiniteSet(0 .. k) /\ Cardinality(0 .. k) = k + 1
  BY FS_Interval
<1>6. \A n \in L : n + 1 <= m
  <2>. SUFFICES ASSUME NEW n \in L
                PROVE  n + 1 <= m
    BY Zenon
  <2>1. Cardinality(0 .. n) <= Cardinality(L)
    BY <1>2, <1>4, FS_Subset, Zenon
  <2>. QED
    BY <2>1, <1>2, <1>4, <1>5
<1>7. m > 0
  BY <1>2, <1>3, <1>6
<1>8. m - 1 \in L
  <2>1. SUFFICES ASSUME m - 1 \notin L
                 PROVE  FALSE
    BY Zenon
  <2>. HIDE DEF m
  <2>2. L \in SUBSET (0 .. (m - 2))
    <3>. SUFFICES ASSUME NEW n \in L
                  PROVE  n \in 0 .. (m - 2)
      BY Zenon
    <3>1. n \in Nat /\ n + 1 <= m /\ n # m - 1
      BY <1>4, <1>6, <2>1
    <3>. QED
      BY <3>1, <1>2
  <2>3. IsFiniteSet(0 .. (m - 2)) /\ Cardinality(0 .. (m - 2)) = m - 1
    <3>. HIDE DEF L
    <3>1. CASE m = 1
      <4>1. 0 .. (m - 2) = {}
        BY <3>1
      <4>2. Cardinality(0 .. (m - 2)) = Cardinality({})
        BY <4>1, Zenon
      <4>3. IsFiniteSet(0 .. (m - 2))
        BY <4>1, FS_EmptySet, Zenon
      <4>. QED
        BY <3>1, <4>2, <4>3, FS_EmptySet
    <3>2. CASE m # 1
      <4>. DEFINE k == m - 2
      <4>1. k \in Nat /\ k + 1 = m - 1
        BY <3>2, <1>2, <1>7
      <4>2. IsFiniteSet(0 .. k) /\ Cardinality(0 .. k) = k + 1
        <5>. HIDE DEF k
        <5>. QED
          BY <4>1, <1>5, Zenon
      <4>3. IsFiniteSet(0 .. (m - 2)) /\ Cardinality(0 .. (m - 2)) = k + 1
        BY <4>2, Zenon
      <4>. QED
        BY <4>1, <4>3
    <3>. QED
      BY <3>1, <3>2
  <2>4. Cardinality(L) <= Cardinality(0 .. (m - 2))
    BY <2>2, <2>3, FS_Subset, Zenon
  <2>. QED
    BY <1>2, <2>3, <2>4 DEF m
<1>9. m \notin L
  <2>. HIDE DEF m
  <2>. QED
    BY <1>2, <1>6
<1>. HIDE DEF m
<1>10. m - 1 \in S
  BY <1>2, <1>7, <1>8, <1>9
<1>11. \A y \in S : m - 1 <= y
  BY <1>8
<1>. QED
  BY <1>10, <1>11 DEF Min

\* A finite nonempty set of natural numbers has the greatest element Max chooses:
\* the sum of its members is an upper bound, and the least upper bound is in it.
LEMMA MaxIsMember ==
  ASSUME NEW S \in SUBSET Nat, IsFiniteSet(S), S # {}
  PROVE  Max(S) \in S /\ \A y \in S : y <= Max(S)
<1>. DEFINE f == [x \in S |-> x]
            U == {n \in Nat : \A y \in S : y <= n}
            u == Min(U)
<1>1. f \in [S -> Nat]
  OBVIOUS
<1>2. \A y \in S : y <= Total(f)
  <2>. SUFFICES ASSUME NEW y \in S
                PROVE  y <= Total(f)
    OBVIOUS
  <2>1. {y} \X (1 .. y) \in SUBSET Tokens(f)
    BY DEF Tokens
  <2>2. IsFiniteSet(Tokens(f))
    BY <1>1, TotalType
  <2>3. Cardinality({y} \X (1 .. y)) <= Cardinality(Tokens(f))
    BY <2>1, <2>2, FS_Subset, Zenon
  <2>4. y \in Nat
    OBVIOUS
  <2>5. Cardinality({y} \X (1 .. y)) = y
    BY <2>4, BlockSize, Zenon
  <2>. QED
    BY <2>3, <2>5 DEF Total
<1>3. Total(f) \in U
  BY <1>1, <1>2, TotalType
<1>4. u \in U /\ \A n \in U : u <= n
  <2>1. U \in SUBSET Nat /\ U # {}
    BY <1>3
  <2>. HIDE DEF U
  <2>. QED
    BY <2>1, MinIsMember
<1>. HIDE DEF u
<1>5. u \in S
  <2>1. SUFFICES ASSUME u \notin S
                 PROVE  FALSE
    OBVIOUS
  <2>2. \A y \in S : y <= u - 1 /\ y >= 0
    BY <1>4, <2>1
  <2>3. PICK z \in S : TRUE
    OBVIOUS
  <2>4. u - 1 \in U
    BY <1>4, <2>2, <2>3
  <2>. QED
    BY <1>4, <2>4
<1>6. \E x \in S : \A y \in S : x >= y
  BY <1>4, <1>5
<1>. QED
  BY <1>6 DEF Max

-----------------------------------------------------------------------------
(* Orders *)

\* before[x] are the members of S that a total order puts before x.
IsOrdering(S, before) ==
  /\ before \in [S -> SUBSET S]
  /\ \A x \in S : x \notin before[x]
  /\ \A x, y \in S : y \in before[x] => before[y] \subseteq before[x]
  /\ \A x, y \in S : x = y \/ x \in before[y] \/ y \in before[x]

\* Every member of a finite ordered set has one place, and every place a member.
LEMMA ArrangedPlaces ==
  ASSUME NEW S, IsFiniteSet(S), NEW before, IsOrdering(S, before)
  PROVE  /\ Arranged(S, before) \in Bijection(1 .. Cardinality(S), S)
         /\ \A i \in 1 .. Cardinality(S) :
              Cardinality(before[Arranged(S, before)[i]]) = i - 1
<1>. DEFINE n == Cardinality(S)
            place == [x \in S |-> Cardinality(before[x]) + 1]
            arranged == Arranged(S, before)
<1>1. n \in Nat /\ IsFiniteSet(1 .. n) /\ Cardinality(1 .. n) = n
  BY FS_CardinalityType, FS_Interval
<1>2. \A x \in S : /\ before[x] \in SUBSET S /\ before[x] # S
                   /\ IsFiniteSet(before[x]) /\ Cardinality(before[x]) \in Nat
  BY FS_Subset, FS_CardinalityType DEF IsOrdering
<1>3. \A x \in S : Cardinality(before[x]) < n
  <2>. SUFFICES ASSUME NEW x \in S
                PROVE  Cardinality(before[x]) < n
    OBVIOUS
  <2>1. Cardinality(before[x]) <= n /\ (n = Cardinality(before[x]) => S = before[x])
    BY <1>2, FS_Subset
  <2>. QED
    BY <1>1, <1>2, <2>1
<1>4. \A x, y \in S : x \in before[y] => Cardinality(before[x]) < Cardinality(before[y])
  <2>. SUFFICES ASSUME NEW x \in S, NEW y \in S, x \in before[y]
                PROVE  Cardinality(before[x]) < Cardinality(before[y])
    OBVIOUS
  <2>1. before[x] \in SUBSET before[y] /\ x \notin before[x]
    BY DEF IsOrdering
  <2>2. /\ Cardinality(before[x]) <= Cardinality(before[y])
        /\ Cardinality(before[y]) = Cardinality(before[x]) => before[y] = before[x]
    BY <1>2, <2>1, FS_Subset
  <2>. QED
    BY <1>2, <2>1, <2>2
<1>5. place \in Injection(S, 1 .. n)
  <2>1. place \in [S -> 1 .. n]
    BY <1>1, <1>2, <1>3
  <2>2. \A x, y \in S : place[x] = place[y] => x = y
    <3>1. \A x, y \in S : x = y \/ x \in before[y] \/ y \in before[x]
      BY DEF IsOrdering
    <3>. QED
      BY <3>1, <1>2, <1>4
  <2>. QED
    BY <2>1, <2>2 DEF Injection, IsInjective
<1>6. place \in Surjection(S, 1 .. n)
  <2>. HIDE DEF n, place
  <2>1. n = Cardinality(S)
    BY DEF n
  <2>. QED
    BY <1>1, <1>5, <2>1, FS_Injection
<1>7. \A i \in 1 .. n : \E x \in S : Cardinality(before[x]) = i - 1
  <2>1. \A i \in 1 .. n : \E x \in S : place[x] = i
    <3>. HIDE DEF place
    <3>. QED
      BY <1>6 DEF Surjection
  <2>. QED
    BY <1>2, <2>1
<1>8. \A i \in 1 .. n : arranged[i] \in S /\ Cardinality(before[arranged[i]]) = i - 1
  BY <1>7 DEF Arranged
<1>9. \A x \in S : place[x] \in 1 .. n /\ arranged[place[x]] = x
  <2>. SUFFICES ASSUME NEW x \in S
                PROVE  place[x] \in 1 .. n /\ arranged[place[x]] = x
    OBVIOUS
  <2>1. place[x] \in 1 .. n
    BY <1>1, <1>2, <1>3
  <2>2. arranged[place[x]] \in S /\ place[arranged[place[x]]] = place[x]
    BY <1>2, <1>8, <2>1
  <2>3. \A y, z \in S : place[y] = place[z] => y = z
    <3>. HIDE DEF place
    <3>. QED
      BY <1>5 DEF Injection, IsInjective
  <2>. HIDE DEF place, arranged
  <2>. QED
    BY <2>1, <2>2, <2>3
<1>10. arranged \in [1 .. n -> S]
  BY <1>8 DEF Arranged
<1>11. arranged \in Surjection(1 .. n, S)
  <2>. HIDE DEF place, arranged, n
  <2>. QED
    BY <1>9, <1>10 DEF Surjection
<1>12. \A i, j \in 1 .. n : arranged[i] = arranged[j] => i = j
  <2>. HIDE DEF arranged
  <2>. SUFFICES ASSUME NEW i \in 1 .. n, NEW j \in 1 .. n, arranged[i] = arranged[j]
                PROVE  i = j
    OBVIOUS
  <2>1. i - 1 = j - 1
    BY <1>8
  <2>. QED
    BY <2>1, <1>1
<1>. HIDE DEF arranged, n
<1>13. arranged \in Bijection(1 .. n, S)
  BY <1>10, <1>11, <1>12 DEF Bijection, Injection, IsInjective
<1>. QED
  BY <1>8, <1>13 DEF arranged, n

\* The image of a set under an injection has as many members.
LEMMA ImageSize ==
  ASSUME NEW S, IsFiniteSet(S), NEW f, S \subseteq DOMAIN f,
         \A x, y \in S : f[x] = f[y] => x = y
  PROVE  Cardinality({f[x] : x \in S}) = Cardinality(S)
<1>. DEFINE g == [x \in S |-> f[x]]
            T == {f[x] : x \in S}
<1>1. g \in Bijection(S, T)
  BY DEF Bijection, Injection, Surjection, IsInjective
<1>. QED
  BY <1>1, FS_Bijection DEF ExistsBijection

\* Two ordered sets are arranged alike by a bijection that preserves their orders.
LEMMA ArrangedAlike ==
  ASSUME NEW S, IsFiniteSet(S), NEW T, NEW f \in Bijection(S, T),
         NEW before, IsOrdering(S, before), NEW above, IsOrdering(T, above),
         \A x, y \in S : x \in before[y] <=> f[x] \in above[f[y]]
  PROVE  /\ Cardinality(T) = Cardinality(S)
         /\ \A i \in 1 .. Cardinality(S) : f[Arranged(S, before)[i]] = Arranged(T, above)[i]
<1>1. IsFiniteSet(T) /\ Cardinality(T) = Cardinality(S)
  BY FS_Bijection DEF ExistsBijection
<1>2. /\ f \in [S -> T] /\ DOMAIN f = S
      /\ \A x, y \in S : f[x] = f[y] => x = y
      /\ \A t \in T : \E x \in S : f[x] = t
  BY DEF Bijection, Injection, Surjection, IsInjective
<1>3. \A y \in S : Cardinality(above[f[y]]) = Cardinality(before[y])
  <2>. SUFFICES ASSUME NEW y \in S
                PROVE  Cardinality(above[f[y]]) = Cardinality(before[y])
    OBVIOUS
  <2>1. before[y] \in SUBSET S /\ above[f[y]] \in SUBSET T
    BY <1>2 DEF IsOrdering
  <2>2. above[f[y]] = {f[x] : x \in before[y]}
    <3>1. \A t \in above[f[y]] : \E x \in before[y] : f[x] = t
      BY <1>2, <2>1
    <3>2. \A x \in before[y] : f[x] \in above[f[y]]
      BY <2>1
    <3>. QED
      BY <3>1, <3>2
  <2>3. IsFiniteSet(before[y])
    BY <2>1, FS_Subset
  <2>. QED
    BY <1>2, <2>1, <2>2, <2>3, ImageSize
<1>4. /\ Arranged(S, before) \in Bijection(1 .. Cardinality(S), S)
      /\ \A i \in 1 .. Cardinality(S) : Cardinality(before[Arranged(S, before)[i]]) = i - 1
  BY ArrangedPlaces
<1>5. /\ Arranged(T, above) \in Bijection(1 .. Cardinality(T), T)
      /\ \A i \in 1 .. Cardinality(T) : Cardinality(above[Arranged(T, above)[i]]) = i - 1
  BY <1>1, ArrangedPlaces
<1>6. ASSUME NEW i \in 1 .. Cardinality(S)
      PROVE  f[Arranged(S, before)[i]] = Arranged(T, above)[i]
  <2>. DEFINE t == f[Arranged(S, before)[i]]
              u == Arranged(T, above)[i]
  <2>1. Arranged(S, before)[i] \in S /\ t \in T /\ u \in T
    BY <1>1, <1>2, <1>4, <1>5 DEF Bijection, Injection
  <2>2. Cardinality(above[t]) = i - 1 /\ Cardinality(above[u]) = i - 1
    BY <1>1, <1>3, <1>4, <1>5, <2>1
  <2>. HIDE DEF t, u
  <2>3. \A x, y \in T : x \in above[y] => Cardinality(above[x]) # Cardinality(above[y])
    <3>. SUFFICES ASSUME NEW x \in T, NEW y \in T, x \in above[y]
                  PROVE  Cardinality(above[x]) # Cardinality(above[y])
      OBVIOUS
    <3>1. /\ above[x] \in SUBSET above[y] /\ above[y] \in SUBSET T
          /\ x \notin above[x]
      BY DEF IsOrdering
    <3>2. IsFiniteSet(above[y])
      BY <1>1, <3>1, FS_Subset
    <3>3. Cardinality(above[y]) = Cardinality(above[x]) => above[y] = above[x]
      BY <3>1, <3>2, FS_Subset
    <3>. QED
      BY <3>1, <3>3
  <2>4. t = u \/ t \in above[u] \/ u \in above[t]
    BY <2>1 DEF IsOrdering
  <2>5. t = u
    BY <2>1, <2>2, <2>3, <2>4
  <2>. QED
    BY <2>5 DEF t, u
<1>. QED
  BY <1>1, <1>6

\* higher[n] are the members ranked above n: no two above each other, and what
\* is above another is above, or has below it, every third.
IsRanking(S, higher) ==
  /\ higher \in [S -> SUBSET S]
  /\ \A x, y \in S : ~(x \in higher[y] /\ y \in higher[x])
  /\ \A x, y, z \in S : x \in higher[z] => x \in higher[y] \/ y \in higher[z]

\* With ties broken by the smaller number a ranking is a total order.
Above(S, higher) ==
  [y \in S |-> {x \in S : x \in higher[y] \/ (y \notin higher[x] /\ x < y)}]

\* No member is above itself or above what is above it, and two are always comparable.
LEMMA TiesBroken ==
  ASSUME NEW S \in SUBSET Int, NEW higher, IsRanking(S, higher)
  PROVE  IsOrdering(S, Above(S, higher))
<1>. DEFINE above == Above(S, higher)
<1>0. \A x, y \in S : ~(x < x) /\ (x = y \/ x < y \/ y < x)
  <2>. SUFFICES ASSUME NEW x \in S, NEW y \in S
                PROVE  ~(x < x) /\ (x = y \/ x < y \/ y < x)
    OBVIOUS
  <2>1. x \in Int /\ y \in Int
    OBVIOUS
  <2>. QED
    BY <2>1
<1>1. \A x, y \in S : x \in above[y] <=> x \in higher[y] \/ (y \notin higher[x] /\ x < y)
  BY DEF Above
<1>2. above \in [S -> SUBSET S]
  BY DEF Above
<1>. HIDE DEF above
<1>3. /\ \A x, y \in S : ~(x \in higher[y] /\ y \in higher[x])
      /\ \A x, y, z \in S : x \in higher[z] => x \in higher[y] \/ y \in higher[z]
  BY DEF IsRanking
<1>4. \A x \in S : x \notin above[x]
  BY <1>0, <1>1, <1>3
<1>5. \A x, y, z \in S : x \in above[y] /\ y \in above[z] => x \in above[z]
  <2>. SUFFICES ASSUME NEW x \in S, NEW y \in S, NEW z \in S,
                       x \in above[y], y \in above[z], x \notin above[z]
                PROVE  FALSE
    OBVIOUS
  <2>1. x \notin higher[z]
    BY <1>1
  <2>2. y \notin higher[x] /\ z \notin higher[y]
    BY <1>1, <1>3
  <2>3. z \notin higher[x]
    BY <1>3, <2>2
  <2>4. ~(x < z)
    BY <1>1, <2>1, <2>3
  <2>5. x \in higher[y] \/ y \in higher[z]
    <3>1. SUFFICES ASSUME x \notin higher[y], y \notin higher[z]
                   PROVE  FALSE
      OBVIOUS
    <3>2. x < y /\ y < z
      BY <1>1, <3>1
    <3>3. x \in Int /\ y \in Int /\ z \in Int
      OBVIOUS
    <3>. QED
      BY <2>4, <3>2, <3>3
  <2>6. x \in higher[z]
    BY <1>3, <2>2, <2>3, <2>5
  <2>. QED
    BY <2>1, <2>6
<1>6. \A x, y \in S : x = y \/ x \in above[y] \/ y \in above[x]
  BY <1>0, <1>1, <1>3
<1>7. \A x, y \in S : y \in above[x] => above[y] \subseteq above[x]
  BY <1>2, <1>5
<1>. QED
  BY <1>2, <1>4, <1>6, <1>7 DEF IsOrdering, above

\* A score ranks what it is greater for.
LEMMA ScoresRank ==
  ASSUME NEW S, NEW score, \A x \in S : score[x] \in Int
  PROVE  IsRanking(S, [y \in S |-> {x \in S : score[x] > score[y]}])
BY DEF IsRanking

\* A fraction ranks what it is greater for, compared by cross-multiplication.
Fractional(S, p, q) == [y \in S |-> {x \in S : p[x] * q[y] > p[y] * q[x]}]

\* Cross-multiplication with positive denominators is transitive.
LEMMA FractionsRank ==
  ASSUME NEW S, NEW p, NEW q, \A x \in S : p[x] \in Int /\ q[x] \in Nat \ {0}
  PROVE  IsRanking(S, Fractional(S, p, q))
<1>. DEFINE higher == [y \in S |-> {x \in S : p[x] * q[y] > p[y] * q[x]}]
<1>1. \A a, b, c \in Int : \A u, v, w \in Nat \ {0} :
        a * v <= b * u /\ b * w <= c * v => a * w <= c * u
  <2>. SUFFICES ASSUME NEW a \in Int, NEW b \in Int, NEW c \in Int,
                       NEW u \in Nat \ {0}, NEW v \in Nat \ {0}, NEW w \in Nat \ {0},
                       a * v <= b * u, b * w <= c * v
                PROVE  a * w <= c * u
    OBVIOUS
  <2>1. \A i, j \in Int : \A k \in Nat \ {0} : i <= j <=> i * k <= j * k
    OBVIOUS
  <2>2. (a * v) * w <= (b * u) * w /\ (b * w) * u <= (c * v) * u
    BY <2>1
  <2>3. /\ (a * v) * w = (a * w) * v /\ (b * u) * w = (b * w) * u
        /\ (c * v) * u = (c * u) * v
    OBVIOUS
  <2>4. /\ (a * v) * w \in Int /\ (b * w) * u \in Int /\ (c * v) * u \in Int
        /\ a * w \in Int /\ c * u \in Int
    OBVIOUS
  <2>5. (a * w) * v <= (c * u) * v
    BY <2>2, <2>3, <2>4
  <2>. QED
    BY <2>1, <2>4, <2>5
<1>2. \A x, y \in S : p[x] * q[y] \in Int
  OBVIOUS
<1>3. \A x, y \in S : x \in higher[y] <=> ~(p[x] * q[y] <= p[y] * q[x])
  BY <1>2
<1>4. \A x, y \in S : ~(x \in higher[y] /\ y \in higher[x])
  BY <1>2, <1>3
<1>5. \A x, y, z \in S : x \in higher[z] => x \in higher[y] \/ y \in higher[z]
  <2>. HIDE DEF higher
  <2>. QED
    BY <1>1, <1>3
<1>. QED
  BY <1>4, <1>5 DEF IsRanking, Fractional

\* The elements of s in K, once for each of their places, are those of s in K.
LEMMA FilteredElements ==
  ASSUME NEW X, NEW s \in Seq(X), NEW K
  PROVE  /\ Filtered(s, K) \in Seq(X)
         /\ ToSet(Filtered(s, K)) = ToSet(s) \cap K
         /\ IsInjective(s) => IsInjective(Filtered(s, K))
<1>. DEFINE P == {i \in DOMAIN s : s[i] \in K}
            before == [i \in P |-> {j \in P : j < i}]
            n == Cardinality(P)
            places == PlacesOf(s, K)
<1>1. /\ DOMAIN s = 1 .. Len(s) /\ Len(s) \in Nat
      /\ \A i \in DOMAIN s : s[i] \in X
  BY LenProperties, ElementOfSeq
<1>2. IsFiniteSet(P) /\ P \in SUBSET Int
  <2>1. P \in SUBSET (1 .. Len(s)) /\ IsFiniteSet(1 .. Len(s))
    BY <1>1, FS_Interval
  <2>2. \A i \in P : i \in Int
    BY <1>1
  <2>. HIDE DEF P
  <2>3. IsFiniteSet(P)
    BY <2>1, FS_Subset, Zenon
  <2>. QED
    BY <2>2, <2>3
<1>3. IsOrdering(P, before)
  BY <1>2 DEF IsOrdering
<1>4. places = Arranged(P, before)
  BY DEF PlacesOf
<1>5. n \in Nat /\ places \in Bijection(1 .. n, P)
  <2>. HIDE DEF P, before, places
  <2>. QED
    BY <1>2, <1>3, <1>4, ArrangedPlaces, FS_CardinalityType DEF n
<1>6. /\ DOMAIN places = 1 .. n /\ \A k \in 1 .. n : places[k] \in P
      /\ \A k, l \in 1 .. n : places[k] = places[l] => k = l
      /\ \A i \in P : \E k \in 1 .. n : places[k] = i
  <2>. HIDE DEF P, n, places
  <2>. QED
    BY <1>5 DEF Bijection, Injection, Surjection, IsInjective
<1>7. Filtered(s, K) = [k \in 1 .. n |-> s[places[k]]]
  BY <1>6 DEF Filtered
<1>. HIDE DEF n, places, before
<1>8. Filtered(s, K) \in Seq(X)
  <2>1. Filtered(s, K) \in [1 .. n -> X]
    BY <1>1, <1>6, <1>7
  <2>. QED
    BY <1>5, <2>1
<1>9. ToSet(Filtered(s, K)) = ToSet(s) \cap K
  BY <1>6, <1>7 DEF ToSet
<1>10. IsInjective(s) => IsInjective(Filtered(s, K))
  BY <1>6, <1>7 DEF IsInjective
<1>. QED
  BY <1>8, <1>9, <1>10

\* The numbers of an injective sequence are as many as its places.
LEMMA ElementsFinite ==
  ASSUME NEW X, NEW s \in Seq(X)
  PROVE  /\ IsFiniteSet(ToSet(s)) /\ ToSet(s) \subseteq X
         /\ IsInjective(s) => s \in Bijection(DOMAIN s, ToSet(s))
<1>1. /\ DOMAIN s = 1 .. Len(s) /\ Len(s) \in Nat /\ s \in [DOMAIN s -> X]
      /\ \A i \in DOMAIN s : s[i] \in X
  BY LenProperties, ElementOfSeq
<1>2. s \in Surjection(DOMAIN s, ToSet(s))
  BY <1>1 DEF Surjection, ToSet
<1>3. IsFiniteSet(ToSet(s))
  <2>1. IsFiniteSet(DOMAIN s)
    BY LenProperties, FS_Interval
  <2>. QED
    BY <1>2, <2>1, FS_Surjection
<1>. QED
  BY <1>1, <1>2, <1>3 DEF ToSet, Bijection, Injection, Surjection

-----------------------------------------------------------------------------
(* Parts, filters and maxima *)

\* A sum of nothing but zeros.
LEMMA TotalNone ==
  ASSUME NEW S, IsFiniteSet(S), NEW f \in [S -> Nat], Total(f) = 0
  PROVE  \A x \in S : f[x] = 0
<1>1. Tokens(f) = {}
  BY TotalType, FS_EmptySet DEF Total
<1>2. ASSUME NEW x \in S, f[x] # 0
      PROVE  FALSE
  <2>1. <<x, 1>> \in {x} \X (1 .. f[x])
    BY <1>2
  <2>. QED
    BY <1>1, <2>1 DEF Tokens
<1>. QED
  BY <1>2

\* Two sets without a common member.
LEMMA DisjointSizes ==
  ASSUME NEW S, IsFiniteSet(S), NEW T, IsFiniteSet(T), S \cap T = {}
  PROVE  /\ IsFiniteSet(S \cup T)
         /\ Cardinality(S \cup T) = Cardinality(S) + Cardinality(T)
<1>1. Cardinality(S \cap T) = 0
  BY FS_EmptySet
<1>2. /\ IsFiniteSet(S \cup T)
      /\ Cardinality(S \cup T) = Cardinality(S) + Cardinality(T) - Cardinality(S \cap T)
  BY FS_Union, Zenon
<1>3. Cardinality(S) \in Nat /\ Cardinality(T) \in Nat
  BY FS_CardinalityType
<1>. QED
  BY <1>1, <1>2, <1>3

\* A filter that lets every element through leaves the sequence as it is.
LEMMA FilteredAll ==
  ASSUME NEW X, NEW s \in Seq(X), NEW K, \A i \in DOMAIN s : s[i] \in K
  PROVE  Filtered(s, K) = s
<1>. DEFINE n == Len(s)
            P == {i \in DOMAIN s : s[i] \in K}
            before == [i \in P |-> {j \in P : j < i}]
            places == Arranged(P, before)
<1>1. DOMAIN s = 1 .. n /\ n \in Nat /\ s \in [1 .. n -> X]
  BY LenProperties
<1>2. P = 1 .. n
  BY <1>1
<1>. HIDE DEF P, n
<1>3. IsFiniteSet(P) /\ Cardinality(P) = n
  BY <1>1, <1>2, FS_Interval
<1>4. IsOrdering(P, before)
  BY <1>1, <1>2 DEF IsOrdering
<1>5. \A i \in P : before[i] = 1 .. (i - 1) /\ i \in Nat
  BY <1>1, <1>2
<1>. HIDE DEF before
<1>6. /\ places \in Bijection(1 .. n, P)
      /\ \A i \in 1 .. n : Cardinality(before[places[i]]) = i - 1
  BY <1>3, <1>4, ArrangedPlaces
<1>. HIDE DEF places
<1>7. places \in [1 .. n -> P]
  BY <1>6 DEF Bijection, Injection
<1>8. ASSUME NEW i \in 1 .. n
      PROVE  places[i] = i
  <2>1. places[i] \in 1 .. n
    BY <1>2, <1>7
  <2>2. Cardinality(1 .. (places[i] - 1)) = places[i] - 1
    <3>1. \A k \in Nat \ {0} : Cardinality(1 .. (k - 1)) = k - 1
      BY FS_Interval
    <3>. QED
      BY <2>1, <3>1
  <2>3. places[i] - 1 = i - 1
    BY <1>2, <1>5, <1>6, <2>1, <2>2
  <2>. QED
    BY <2>1, <2>3
<1>9. Filtered(s, K) = [k \in DOMAIN places |-> s[places[k]]]
  BY DEF Filtered, PlacesOf, places, P, before
<1>10. DOMAIN places = 1 .. n
  BY <1>7
<1>. QED
  BY <1>1, <1>8, <1>9, <1>10

\* The parts of a finite set that are told apart by f are together the set.
LEMMA PartSizes ==
  ASSUME NEW S, IsFiniteSet(S), NEW C, NEW f \in [S -> C]
  PROVE  Total([c \in C |-> Cardinality({x \in S : f[x] = c})]) = Cardinality(S)
<1>. DEFINE Part(c) == {x \in S : f[x] = c}
            size == [c \in C |-> Cardinality(Part(c))]
            list == [c \in C |-> CHOOSE g : g \in Bijection(1 .. size[c], Part(c))]
            member == [t \in Tokens(size) |-> list[t[1]][t[2]]]
<1>1. \A c \in C : /\ IsFiniteSet(Part(c)) /\ size[c] \in Nat
                   /\ list[c] \in Bijection(1 .. size[c], Part(c))
  <2>. SUFFICES ASSUME NEW c \in C
                PROVE  /\ IsFiniteSet(Part(c)) /\ size[c] \in Nat
                       /\ list[c] \in Bijection(1 .. size[c], Part(c))
    OBVIOUS
  <2>1. IsFiniteSet(Part(c))
    BY FS_Subset
  <2>2. size[c] \in Nat
    BY <2>1, FS_CardinalityType
  <2>3. ExistsBijection(1 .. size[c], Part(c))
    BY <2>1, FS_CardinalityType
  <2>. QED
    BY <2>1, <2>2, <2>3 DEF ExistsBijection
<1>0. DOMAIN size = C
  OBVIOUS
<1>. HIDE DEF list, size
<1>2. /\ \A t \in Tokens(size) : /\ t = <<t[1], t[2]>> /\ t[1] \in C
                                /\ t[2] \in 1 .. size[t[1]]
      /\ \A c \in C : \A k \in 1 .. size[c] : <<c, k>> \in Tokens(size)
  BY <1>0 DEF Tokens
<1>3. \A c \in C : /\ \A k \in 1 .. size[c] : list[c][k] \in Part(c)
                   /\ \A k, l \in 1 .. size[c] : list[c][k] = list[c][l] => k = l
                   /\ \A x \in Part(c) : \E k \in 1 .. size[c] : list[c][k] = x
  <2>. HIDE DEF Part
  <2>. QED
    BY <1>1 DEF Bijection, Injection, Surjection, IsInjective
<1>4. member \in [Tokens(size) -> S] /\ \A t \in Tokens(size) : f[member[t]] = t[1]
  BY <1>2, <1>3
<1>5. \A t, u \in Tokens(size) : member[t] = member[u] => t = u
  <2>. SUFFICES ASSUME NEW t \in Tokens(size), NEW u \in Tokens(size), member[t] = member[u]
                PROVE  t = u
    OBVIOUS
  <2>1. t[1] = u[1]
    BY <1>4
  <2>2. member[t] = list[t[1]][t[2]] /\ member[u] = list[u[1]][u[2]]
    OBVIOUS
  <2>3. t[2] = u[2]
    BY <1>2, <1>3, <2>1, <2>2
  <2>. QED
    BY <1>2, <2>1, <2>3
<1>6. \A x \in S : \E t \in Tokens(size) : member[t] = x
  <2>. SUFFICES ASSUME NEW x \in S
                PROVE  \E t \in Tokens(size) : member[t] = x
    OBVIOUS
  <2>1. x \in Part(f[x]) /\ f[x] \in C
    OBVIOUS
  <2>2. PICK k \in 1 .. size[f[x]] : list[f[x]][k] = x
    BY <1>3, <2>1
  <2>3. <<f[x], k>> \in Tokens(size)
    BY <1>2, <2>1
  <2>. QED
    BY <2>2, <2>3
<1>. HIDE DEF member
<1>7. member \in Injection(Tokens(size), S) /\ member \in Surjection(Tokens(size), S)
  BY <1>4, <1>5, <1>6 DEF Injection, Surjection, IsInjective
<1>8. Cardinality(Tokens(size)) = Cardinality(S)
  BY <1>7, FS_Injection
<1>. QED
  BY <1>8 DEF Total, size

\* The numbers up to p that a filter of 1 .. n leaves are the first ones it leaves.
LEMMA FilteredPrefixes ==
  ASSUME NEW n \in Nat, NEW K \in SUBSET (1 .. n)
  PROVE  LET F == Filtered([i \in 1 .. n |-> i], K)
             Up(p) == Cardinality(K \cap (1 .. p))
         IN  /\ F \in Seq(1 .. n) /\ Len(F) = Up(n)
             /\ \A i, j \in 1 .. Len(F) : F[i] = F[j] => i = j
             /\ \A p \in 0 .. n : /\ Up(p) \in 0 .. Len(F)
                                  /\ {F[i] : i \in 1 .. Up(p)} = K \cap (1 .. p)
             /\ \A m \in 1 .. Len(F) : F[m] \in 1 .. n /\ Up(F[m]) = m
             /\ \A p, q \in 0 .. n : p <= q => Up(p) <= Up(q)
<1>. DEFINE s == [i \in 1 .. n |-> i]
            F == Filtered(s, K)
            Up(p) == Cardinality(K \cap (1 .. p))
            before == [i \in K |-> {j \in K : j < i}]
            places == Arranged(K, before)
            N == Cardinality(K)
<1>1. IsFiniteSet(1 .. n) /\ IsFiniteSet(K) /\ N \in Nat
  <2>1. IsFiniteSet(1 .. n)
    BY FS_Interval
  <2>2. IsFiniteSet(K)
    BY <2>1, FS_Subset
  <2>. QED
    BY <2>1, <2>2, FS_CardinalityType
<1>2. s \in Seq(1 .. n) /\ DOMAIN s = 1 .. n
  <2>1. \A T : \A m \in Nat : [1 .. m -> T] \subseteq Seq(T)
    BY SeqDef, Zenon
  <2>. QED
    BY <2>1
<1>3. /\ IsOrdering(K, before)
      /\ \A x \in K : /\ x \in 1 .. n /\ K \cap (1 .. x) = before[x] \cup {x}
                      /\ x \notin before[x] /\ before[x] \in SUBSET K
                      /\ \A y \in K : y < x => y \in before[x]
  <2>1. K \in SUBSET Int /\ \A x \in K : x \in 1 .. n
    OBVIOUS
  <2>2. IsOrdering(K, before)
    <3>1. \A x \in K : before[x] = {j \in K : j < x}
      OBVIOUS
    <3>2. before \in [K -> SUBSET K]
      OBVIOUS
    <3>. HIDE DEF before
    <3>3. \A x \in K : x \notin before[x]
      BY <2>1, <3>1
    <3>4. \A x, y \in K : x = y \/ x \in before[y] \/ y \in before[x]
      BY <2>1, <3>1
    <3>5. ASSUME NEW x \in K, NEW y \in before[x], NEW z \in before[y]
          PROVE  z \in before[x]
      <4>1. y \in K /\ y < x
        BY <3>1
      <4>2. z \in K /\ z < y
        BY <3>1, <4>1
      <4>3. z < x
        BY <2>1, <4>1, <4>2
      <4>. QED
        BY <3>1, <4>2, <4>3
    <3>. QED
      BY <3>2, <3>3, <3>4, <3>5 DEF IsOrdering
  <2>3. ASSUME NEW x \in K
        PROVE  K \cap (1 .. x) = before[x] \cup {x}
    <3>1. \A y \in K : y \in 1 .. x <=> y < x \/ y = x
      BY <2>1
    <3>2. before[x] = {j \in K : j < x}
      OBVIOUS
    <3>. QED
      BY <3>1, <3>2
  <2>. QED
    BY <2>1, <2>2, <2>3
<1>. HIDE DEF before
<1>4. /\ places \in Bijection(1 .. N, K)
      /\ \A i \in 1 .. N : Cardinality(before[places[i]]) = i - 1
  BY <1>1, <1>3, ArrangedPlaces
<1>5. /\ places \in [1 .. N -> K] /\ DOMAIN places = 1 .. N
      /\ \A i, j \in 1 .. N : places[i] = places[j] => i = j
      /\ \A k \in K : \E i \in 1 .. N : places[i] = k
  <2>. HIDE DEF places, N
  <2>. QED
    BY <1>4 DEF Bijection, Injection, Surjection, IsInjective
<1>6. F = places
  <2>. DEFINE P == {i \in DOMAIN s : s[i] \in K}
  <2>1. P = K
    BY <1>2
  <2>. HIDE DEF s, places
  <2>2. PlacesOf(s, K) = Arranged(P, [i \in P |-> {j \in P : j < i}])
    BY DEF PlacesOf
  <2>. HIDE DEF P
  <2>3. PlacesOf(s, K) = places
    BY <2>1, <2>2 DEF places, before
  <2>4. F = [k \in DOMAIN places |-> s[places[k]]]
    BY <2>3 DEF Filtered
  <2>5. \A k \in 1 .. N : s[places[k]] = places[k]
    <3>1. \A k \in 1 .. N : places[k] \in 1 .. n
      BY <1>3, <1>5
    <3>. QED
      BY <3>1 DEF s
  <2>. HIDE DEF F, N
  <2>. QED
    BY <1>5, <2>4, <2>5
<1>. HIDE DEF F, places, N
<1>7. F \in Seq(1 .. n) /\ Len(F) = N
  <2>1. F \in Seq(1 .. n)
    BY <1>2, FilteredElements DEF F
  <2>2. DOMAIN F = 1 .. N
    BY <1>5, <1>6
  <2>3. DOMAIN F = 1 .. Len(F) /\ Len(F) \in Nat
    BY <2>1, LenProperties
  <2>4. \A a, b \in Nat : 1 .. a = 1 .. b => a = b
    <3>. SUFFICES ASSUME NEW a \in Nat, NEW b \in Nat, 1 .. a = 1 .. b, a < b
                  PROVE  FALSE
      OBVIOUS
    <3>. QED
      <4>1. b \in 1 .. b
        OBVIOUS
      <4>. QED
        BY <4>1
  <2>. QED
    BY <1>1, <2>1, <2>2, <2>3, <2>4
<1>. HIDE DEF s
<1>8. \A p \in 0 .. n : IsFiniteSet(K \cap (1 .. p)) /\ Up(p) \in 0 .. N
  <2>. SUFFICES ASSUME NEW p \in 0 .. n
                PROVE  IsFiniteSet(K \cap (1 .. p)) /\ Up(p) \in 0 .. N
    OBVIOUS
  <2>1. IsFiniteSet(K \cap (1 .. p)) /\ Cardinality(K \cap (1 .. p)) <= Cardinality(K)
    BY <1>1, FS_Subset
  <2>2. Cardinality(K \cap (1 .. p)) \in Nat
    BY <2>1, FS_CardinalityType
  <2>. QED
    BY <1>1, <2>1, <2>2 DEF N
<1>9. \A p, q \in 0 .. n : p <= q => Up(p) <= Up(q)
  <2>. SUFFICES ASSUME NEW p \in 0 .. n, NEW q \in 0 .. n, p <= q
                PROVE  Up(p) <= Up(q)
    OBVIOUS
  <2>1. K \cap (1 .. p) \in SUBSET (K \cap (1 .. q))
    OBVIOUS
  <2>. QED
    BY <1>8, <2>1, FS_Subset
<1>10. ASSUME NEW i \in 1 .. N
       PROVE  /\ F[i] \in 1 .. n /\ F[i] \in K
              /\ K \cap (1 .. F[i]) = before[F[i]] \cup {F[i]}
              /\ Up(F[i]) = i
  <2>1. F[i] \in K /\ F[i] \in 1 .. n
    BY <1>3, <1>5, <1>6
  <2>2. /\ K \cap (1 .. F[i]) = before[F[i]] \cup {F[i]} /\ F[i] \notin before[F[i]]
        /\ before[F[i]] \in SUBSET K
    BY <1>3, <2>1
  <2>3. Cardinality(before[F[i]]) = i - 1
    BY <1>4, <1>6
  <2>4. IsFiniteSet(before[F[i]])
    BY <1>1, <2>2, FS_Subset
  <2>5. Cardinality(before[F[i]] \cup {F[i]}) = (i - 1) + 1
    BY <2>2, <2>3, <2>4, FS_AddElement
  <2>. QED
    BY <2>1, <2>2, <2>5
<1>11. ASSUME NEW p \in 0 .. n
       PROVE  {F[i] : i \in 1 .. Up(p)} = K \cap (1 .. p)
  <2>1. ASSUME NEW i \in 1 .. N
        PROVE  F[i] <= p <=> i <= Up(p)
    <3>0. F[i] \in 1 .. n /\ F[i] \in K /\ Up(F[i]) = i
      BY <1>10
    <3>1. ASSUME F[i] <= p
          PROVE  i <= Up(p)
      <4>1. F[i] \in 0 .. n
        BY <3>0
      <4>2. Up(F[i]) <= Up(p)
        BY <1>9, <3>1, <4>1
      <4>. QED
        BY <3>0, <4>2
    <3>2. ASSUME ~(F[i] <= p), i <= Up(p)
          PROVE  FALSE
      <4>1. K \cap (1 .. p) \in SUBSET before[F[i]]
        BY <1>3, <3>0, <3>2
      <4>2. IsFiniteSet(before[F[i]]) /\ Cardinality(before[F[i]]) = i - 1
        <5>1. before[F[i]] \in SUBSET K
          BY <1>3, <3>0
        <5>. QED
          BY <1>1, <1>4, <1>6, <5>1, FS_Subset
      <4>3. Up(p) <= i - 1
        BY <4>1, <4>2, FS_Subset
      <4>. QED
        BY <1>8, <3>2, <4>3
    <3>. QED
      BY <3>1, <3>2
  <2>2. Up(p) \in 0 .. N
    BY <1>8
  <2>. HIDE DEF Up
  <2>3. \A i \in 1 .. Up(p) : i \in 1 .. N
    BY <1>1, <2>2
  <2>4. \A k \in K \cap (1 .. p) : \E i \in 1 .. Up(p) : F[i] = k
    <3>. SUFFICES ASSUME NEW k \in K, k \in 1 .. p
                  PROVE  \E i \in 1 .. Up(p) : F[i] = k
      OBVIOUS
    <3>1. PICK i \in 1 .. N : F[i] = k
      BY <1>5, <1>6
    <3>2. i <= Up(p)
      BY <2>1, <3>1
    <3>. QED
      BY <2>2, <3>1, <3>2
  <2>5. \A i \in 1 .. Up(p) : F[i] \in K \cap (1 .. p)
    BY <1>10, <2>1, <2>2, <2>3
  <2>. QED
    BY <2>4, <2>5
<1>12. Up(n) = N
  <2>1. K \cap (1 .. n) = K
    OBVIOUS
  <2>. QED
    BY <2>1 DEF N
<1>. HIDE DEF Up
<1>13. /\ F \in Seq(1 .. n) /\ Len(F) = Up(n)
       /\ \A i, j \in 1 .. Len(F) : F[i] = F[j] => i = j
       /\ \A p \in 0 .. n : /\ Up(p) \in 0 .. Len(F)
                            /\ {F[i] : i \in 1 .. Up(p)} = K \cap (1 .. p)
       /\ \A m \in 1 .. Len(F) : F[m] \in 1 .. n /\ Up(F[m]) = m
       /\ \A p, q \in 0 .. n : p <= q => Up(p) <= Up(q)
  BY <1>5, <1>6, <1>7, <1>8, <1>9, <1>10, <1>11, <1>12
<1>. QED
  BY <1>13, Zenon DEF F, s, Up

\* The members of a finite set with the greatest fraction, as long as they are those
\* of no smaller fraction than any other.
LEMMA GreatestFractions ==
  ASSUME NEW S, IsFiniteSet(S), S # {}, NEW p, NEW q,
         \A x \in S : p[x] \in Int /\ q[x] \in Nat \ {0}
  PROVE  \E T \in SUBSET S :
           /\ T # {}
           /\ \A x \in T, y \in S : /\ ~(p[x] * q[y] < p[y] * q[x])
                                    /\ p[x] * q[y] = p[y] * q[x] => y \in T
<1>. DEFINE higher == Fractional(S, p, q)
            T == {x \in S : higher[x] = {}}
            size == [x \in S |-> Cardinality(higher[x])]
            sizes == {size[x] : x \in S}
<1>1. /\ \A x \in S : higher[x] \in SUBSET S
      /\ \A x, y \in S : ~(x \in higher[y] /\ y \in higher[x])
      /\ \A x, y, z \in S : x \in higher[z] => x \in higher[y] \/ y \in higher[z]
  <2>1. IsRanking(S, higher)
    BY FractionsRank
  <2>. HIDE DEF higher
  <2>. QED
    BY <2>1 DEF IsRanking
<1>2. \A x, y \in S : x \in higher[y] <=> p[y] * q[x] < p[x] * q[y]
  <2>. SUFFICES ASSUME NEW x \in S, NEW y \in S
                PROVE  x \in higher[y] <=> p[y] * q[x] < p[x] * q[y]
    OBVIOUS
  <2>1. p[y] * q[x] \in Int /\ p[x] * q[y] \in Int
    OBVIOUS
  <2>2. x \in higher[y] <=> p[x] * q[y] > p[y] * q[x]
    BY DEF Fractional
  <2>. QED
    BY <2>1, <2>2
<1>. HIDE DEF higher
<1>3. \A x \in S : IsFiniteSet(higher[x]) /\ size[x] \in Nat
  BY <1>1, FS_Subset, FS_CardinalityType
<1>. HIDE DEF size
<1>4. T # {}
  <2>1. sizes # {} /\ sizes \in SUBSET Nat
    BY <1>3
  <2>. DEFINE least == Min(sizes)
  <2>2. least \in sizes /\ \A k \in sizes : least <= k
    <3>. HIDE DEF sizes
    <3>. QED
      BY <2>1, MinIsMember
  <2>3. PICK x \in S : size[x] = least
    BY <2>2
  <2>. HIDE DEF least
  <2>4. ASSUME NEW y \in higher[x]
        PROVE  FALSE
    <3>1. y \in S /\ size[x] <= size[y]
      BY <1>1, <2>2, <2>3
    <3>2. y \notin higher[y] /\ \A z \in higher[y] : z \in higher[x]
      BY <1>1, <3>1
    <3>3. higher[y] \in SUBSET higher[x] /\ higher[y] # higher[x]
      BY <3>2
    <3>4. size[y] <= size[x] /\ size[y] # size[x]
      BY <1>3, <3>1, <3>3, FS_Subset DEF size
    <3>. QED
      BY <1>3, <3>1, <3>4
  <2>. QED
    BY <2>4
<1>5. ASSUME NEW x \in T, NEW y \in S
      PROVE  /\ ~(p[x] * q[y] < p[y] * q[x])
             /\ p[x] * q[y] = p[y] * q[x] => y \in T
  <2>1. y \notin higher[x]
    OBVIOUS
  <2>2. ASSUME p[x] * q[y] = p[y] * q[x], NEW z \in higher[y]
        PROVE  FALSE
    <3>1. z \in S
      BY <1>1
    <3>2. p[x] * q[y] \in Int /\ p[y] * q[x] \in Int
      OBVIOUS
    <3>3. x \notin higher[y]
      BY <1>2, <2>2, <3>2
    <3>. QED
      BY <1>1, <3>1, <3>3
  <2>. QED
    BY <1>2, <2>1, <2>2
<1>. QED
  BY <1>4, <1>5

\* A finite set has finitely many images.
LEMMA ImagesFinite ==
  ASSUME NEW f, IsFiniteSet(DOMAIN f)
  PROVE  IsFiniteSet({f[x] : x \in DOMAIN f})
<1>. DEFINE T == {f[x] : x \in DOMAIN f}
            g == [x \in DOMAIN f |-> f[x]]
<1>1. g \in Surjection(DOMAIN f, T)
  BY DEF Surjection
<1>. HIDE DEF g
<1>. QED
  BY <1>1, FS_Surjection, Zenon
=============================================================================
