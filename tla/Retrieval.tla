----------------------------- MODULE Retrieval ------------------------------
(***************************************************************************)
(* The retrieval arms of retrieval.py.  A case is what the program sees of *)
(* one query: memories in the order the caller gives them, each with the   *)
(* metadata a route may read, policy decisions, and the query.  Embeddings *)
(* are small vectors of naturals, so that dot products and comparisons of  *)
(* cosines are exact; a floating-point sum is rounded to Precision bits.   *)
(***************************************************************************)
EXTENDS Admissibility, Counting, Sequences, SequencesExt

CONSTANTS
  TopK, TopL,     \* depth of a ranking, clusters a router selects
  Theta,          \* cosine threshold, <<numerator, denominator>>
  RrfK,           \* the constant of reciprocal rank fusion
  Recency,        \* weight of the normalized release order, a fraction
  Precision       \* significant bits of a float

ASSUME RetrievalAssumption ==
  /\ TopK \in Nat \ {0} /\ TopL \in Nat \ {0} /\ RrfK \in Nat \ {0}
  /\ Theta \in Nat \X (Nat \ {0}) /\ Theta[1] <= Theta[2]
  /\ Recency \in Nat \X (Nat \ {0}) /\ Precision \in Nat \ {0}

-----------------------------------------------------------------------------
(* Ranking: by score, equal scores by memory id *)

ByPosition(ids, i, j) == i < j     \* mutant of Tie: the order of the caller
ById(ids, i, j) == ids[i] < ids[j]
Tie(ids, i, j) == ById(ids, i, j)

\* The sequence s with its places in order.
Sorted(s, before) ==
  LET places == Arranged(DOMAIN s, before) IN [k \in DOMAIN places |-> s[places[k]]]
Cut(s, depth) == IF Len(s) <= depth THEN s ELSE SubSeq(s, 1, depth)

\* The sequence ids in the order of Higher, cut at depth.
StableRanking(ids, Higher(_, _), depth) ==
  LET Before(i, j) ==
        \/ Higher(ids[i], ids[j])
        \/ ~Higher(ids[j], ids[i]) /\ Tie(ids, i, j)
  IN  Cut(Sorted(ids, [j \in DOMAIN ids |-> {i \in DOMAIN ids : Before(i, j)}]), depth)

Dot(v, w) == v[1] * w[1] + v[2] * w[2]

DenseOver(ids, case, depth) ==
  LET Score(m) == Dot(case.memory[m].vector, case.query.vector)
      Higher(m, n) == Score(m) > Score(n)
  IN  StableRanking(ids, Higher, depth)

DenseRank(ids, case, depth) == DenseOver(ids, case, depth)

\* The released order is normalized over the candidates; multiplied by the span
\* and the denominator of the weight the score is a natural number.
RecencyRank(ids, case, depth) ==
  LET orders == {case.memory[m].order : m \in ToSet(ids)}
      least == CHOOSE o \in orders : \A p \in orders : o <= p
      most == CHOOSE o \in orders : \A p \in orders : o >= p
      Dense(m) == Dot(case.memory[m].vector, case.query.vector)
      Score(m) == IF most = least THEN Dense(m)
                  ELSE Dense(m) * (most - least) * Recency[2]
                       + Recency[1] * (case.memory[m].order - least)
      Higher(m, n) == Score(m) > Score(n)
  IN  StableRanking(ids, Higher, depth)

\* The nearest float, ties to the even one.
Rounded(x) ==
  LET step == 2 ^ (CHOOSE e \in 0 .. x : /\ x < 2 ^ (Precision + e)
                                         /\ e > 0 => x >= 2 ^ (Precision + e - 1))
      below == x \div step
      rest == 2 * (x % step)
  IN  step * (IF rest > step \/ (rest = step /\ below % 2 = 1) THEN below + 1 ELSE below)

\* The terms of the query are a set of strings, which Python walks in an order
\* that depends on the process; each term adds a memory's weight for it.
Bm25Score(m, case, terms) ==
  LET sum[i \in 0 .. Len(terms)] ==
        IF i = 0 THEN 0 ELSE Rounded(sum[i - 1] + case.memory[m].weight[terms[i]])
  IN  sum[Len(terms)]

Bm25Rank(ids, case, terms, depth) ==
  LET Higher(m, n) == Bm25Score(m, case, terms) > Bm25Score(n, case, terms)
  IN  StableRanking(ids, Higher, depth)

TermOrders(case) == SetToSeqs(case.query.terms)

RankIn(ranking, m) == CHOOSE i \in DOMAIN ranking : ranking[i] = m

RrfRank(ids, case, terms, depth) ==
  LET bm25 == Bm25Rank(ids, case, terms, Len(ids))
      dense == DenseRank(ids, case, Len(ids))
      A(m) == RrfK + RankIn(bm25, m)
      B(m) == RrfK + RankIn(dense, m)
      \* 1/A(m) + 1/B(m) against the same of n
      Higher(m, n) == (A(m) + B(m)) * A(n) * B(n) > (A(n) + B(n)) * A(m) * B(m)
  IN  StableRanking(ids, Higher, depth)

-----------------------------------------------------------------------------
(* Support: the candidates an arm may rank *)

NamespaceSupport(ids, case) ==
  Filtered(ids, {m \in ToSet(ids) : case.memory[m].namespace = case.query.namespace})

\* A memory without a decision, or with an unknown one, stays.
DecidedOnly(ids, case) ==           \* mutant of PolicySupport: unknown is refused
  Filtered(ids, {m \in ToSet(ids) : case.policy[m] = "yes"})
PolicySupport(ids, case) == Filtered(ids, {m \in ToSet(ids) : case.policy[m] # "no"})

CurrentOnly(ids, case) ==
  Filtered(ids, {m \in ToSet(ids) : case.memory[m].state \notin {"stale", "superseded"}})

LifecycleSupport(ids, case) ==
  IF case.query.intent = "current_state" THEN CurrentOnly(ids, case) ELSE ids

CombinedSupport(ids, case) == LifecycleSupport(PolicySupport(ids, case), case)

\* The frozen v1 arm: a history query bypasses both filters.
HistoricalSupport(ids, case) ==
  IF case.query.intent = "current_state" THEN CombinedSupport(ids, case) ELSE ids

GlobalArms == {"global_bm25", "global_dense", "global_bm25_dense_rrf",
               "global_recency_dense"}
SupportArms == {"namespace_dense", "query_agnostic_current_only",
                "namespace_policy_only", "namespace_lifecycle_only",
                "released_intent_lifecycle_upper_bound",
                "released_governance_oracle_v2"}
RouterArms == {"threshold_router", "cluster_router"}
Arms == GlobalArms \cup SupportArms \cup RouterArms

Support(arm, case) ==
  LET local == NamespaceSupport(case.ids, case) IN
  CASE arm \in GlobalArms -> case.ids
    [] arm = "query_agnostic_current_only" -> CurrentOnly(local, case)
    [] arm = "namespace_policy_only" -> PolicySupport(local, case)
    [] arm = "namespace_lifecycle_only" -> LifecycleSupport(local, case)
    [] arm = "released_intent_lifecycle_upper_bound" -> HistoricalSupport(local, case)
    [] arm = "released_governance_oracle_v2" -> CombinedSupport(local, case)
    [] OTHER -> local

\* The ranking of an arm without clusters, for one order of the query's terms.
DirectRank(arm, case, terms, depth) ==
  LET ids == Support(arm, case) IN
  CASE arm = "global_bm25" -> Bm25Rank(ids, case, terms, depth)
    [] arm = "global_bm25_dense_rrf" -> RrfRank(ids, case, terms, depth)
    [] arm = "global_recency_dense" -> RecencyRank(ids, case, depth)
    [] OTHER -> DenseRank(ids, case, depth)

-----------------------------------------------------------------------------
(* Clusters of the routers: members and the sum of their embeddings *)

Square(d) == IF d < 0 THEN -(d * d) ELSE d * d

\* The cosine of v and a exceeds that of v and b; it reaches the threshold.
Closer(v, a, b) == Square(Dot(v, a)) * Dot(b, b) > Square(Dot(v, b)) * Dot(a, a)
Reaches(v, a) ==
  Square(Dot(v, a)) * Theta[2] * Theta[2] >= Theta[1] * Theta[1] * Dot(v, v) * Dot(a, a)

Earlier(case, m, n) ==
  \/ case.memory[m].order < case.memory[n].order
  \/ case.memory[m].order = case.memory[n].order /\ m < n

OrderedForInsertion(ids, case) ==
  Sorted(ids, [j \in DOMAIN ids |-> {i \in DOMAIN ids : Earlier(case, ids[i], ids[j])}])

NewCluster(m, case) == [members |-> {m}, sum |-> case.memory[m].vector]

Added(cluster, m, case) ==
  [members |-> cluster.members \cup {m},
   sum |-> <<cluster.sum[1] + case.memory[m].vector[1],
             cluster.sum[2] + case.memory[m].vector[2]>>]
Joined(cluster, m, case) == Added(cluster, m, case)

\* Of equally close clusters the first.
Closest(clusters, v) ==
  CHOOSE k \in DOMAIN clusters :
    \A l \in DOMAIN clusters :
      /\ ~Closer(v, clusters[l].sum, clusters[k].sum)
      /\ ~Closer(v, clusters[k].sum, clusters[l].sum) => k <= l

\* Clusters in the order of their cosine with the query, the qualifying ones
\* only, at most TopL.
ThresholdSelection(clusters, v) ==
  LET qualifying == {k \in DOMAIN clusters : Reaches(v, clusters[k].sum)}
      Before(k, l) ==
        \/ Closer(v, clusters[k].sum, clusters[l].sum)
        \/ ~Closer(v, clusters[l].sum, clusters[k].sum) /\ k < l
  IN  Cut(Arranged(qualifying, [l \in qualifying |-> {k \in qualifying : Before(k, l)}]), TopL)

\* The A5 score grows with the cosine of a cluster and does not fall with its
\* size, by weights that are not modelled: any clusters may be selected that no
\* other one dominates.
Dominates(clusters, v, k, l) ==
  /\ Cardinality(clusters[k].members) >= Cardinality(clusters[l].members)
  /\ ~Closer(v, clusters[l].sum, clusters[k].sum)
  /\ Closer(v, clusters[k].sum, clusters[l].sum) \/ k < l

A5Selections(clusters, v, number) ==
  {s \in SUBSET DOMAIN clusters :
     /\ Cardinality(s) = IF Len(clusters) <= number THEN Len(clusters) ELSE number
     /\ \A k \in s : \A l \in DOMAIN clusters :
          Dominates(clusters, v, l, k) => l \in s}

Members(clusters, selected) == UNION {clusters[k].members : k \in selected}

\* Without a qualifying cluster the whole namespace is ranked, never more.
WholeCase(case) == case.ids         \* mutant of Fallback: ranks everything
LocalCase(case) == NamespaceSupport(case.ids, case)
Fallback(case) == LocalCase(case)
=============================================================================
