----------------------------- MODULE Resampling -----------------------------
(***************************************************************************)
(* The bootstraps of the scores.  The clusters of every stratum (the       *)
(* groups of a source, the scenarios of an axis) are drawn again with      *)
(* replacement, as many as there are.  A cluster is the sum and the number *)
(* of its values, a sample the clusters of each stratum.  A mean m stands  *)
(* for m / Whole; Whole is a multiple of the divisors that occur.          *)
(***************************************************************************)
EXTENDS Integers, Sequences, SequencesExt, TLC

CONSTANT Whole

Total(values) == FoldSeq(LAMBDA v, sum : v + sum, 0, values)
Mean(means) == Total(means) \div Len(means)

\* All values of the clusters alike.
Pooled(clusters) ==
  (Whole * Total([i \in DOMAIN clusters |-> clusters[i].sum]))
    \div Total([i \in DOMAIN clusters |-> clusters[i].count])

\* Every cluster alike, whatever its size.
OfClusters(clusters) ==
  Mean([i \in DOMAIN clusters |-> (Whole * clusters[i].sum) \div clusters[i].count])

\* The strata count alike; within one, the natural and the inferred scores pool the
\* groups, the counterfactual and the exposure ones average the scenarios.
EqualStratumDelta(sample) == Mean([s \in DOMAIN sample |-> Pooled(sample[s])])
EqualAxisMean(sample) == Mean([s \in DOMAIN sample |-> OfClusters(sample[s])])

\* The table beside the bootstrap takes all values alike.
Aggregate(sample) == Pooled(FlattenSeq(sample))

\* One draw: for each stratum and place the cluster picked.
Draw(observed, pick) ==
  [s \in DOMAIN observed |-> [i \in DOMAIN observed[s] |-> observed[s][pick[s][i]]]]

Sorted(draws) == SortSeq(draws, <)

\* Between the two draws that enclose the position, or at it.
Quantile(ordered, probability) ==
  LET position == (Len(ordered) - 1) * probability[1]
      lower == position \div probability[2]
      weight == position % probability[2]
  IN  IF weight = 0 THEN ordered[lower + 1]
      ELSE (ordered[lower + 1] * (probability[2] - weight) + ordered[lower + 2] * weight)
             \div probability[2]

\* The draw nearest to the position, of two the one with the even index.
RoundedQuantile(ordered, probability) ==
  LET position == (Len(ordered) - 1) * probability[1]
      lower == position \div probability[2]
      over == 2 * (position % probability[2]) - probability[2]
  IN  IF over > 0 \/ (over = 0 /\ lower % 2 = 1) THEN ordered[lower + 2]
      ELSE ordered[lower + 1]

Interval(draws) ==
  LET ordered == Sorted(draws)
  IN  <<Quantile(ordered, <<1, 40>>), Quantile(ordered, <<39, 40>>)>>
=============================================================================
