--------------------------- MODULE RankStatistics ---------------------------
(***************************************************************************)
(* The statistics of inferred_admissibility.py and judge_agreement.py.  A  *)
(* row has a label, TRUE for a violation, and a score in units of 1 /      *)
(* Unit.  A statistic is a numerator and a denominator.                    *)
(***************************************************************************)
EXTENDS Integers, Sequences, FiniteSets, FiniteSetsExt

CONSTANT Unit

Positives(rows) == {i \in DOMAIN rows : rows[i].label}
Negatives(rows) == DOMAIN rows \ Positives(rows)
Scores(rows) == {rows[i].score : i \in DOMAIN rows}
At(rows, score) == {i \in DOMAIN rows : rows[i].score = score}
AtLeast(rows, score) == {i \in DOMAIN rows : rows[i].score >= score}

LastRank(rows, score) ==                     \* mutant of TwiceRank
  2 * Cardinality({i \in DOMAIN rows : rows[i].score <= score})
\* Twice the average rank of the rows that share a score.
TwiceRank(rows, score) ==
  2 * Cardinality({i \in DOMAIN rows : rows[i].score < score})
    + Cardinality(At(rows, score)) + 1

RocAuc(rows) ==
  LET p == Cardinality(Positives(rows))
      n == Cardinality(Negatives(rows))
      twiceSum == MapThenSumSet(LAMBDA i : TwiceRank(rows, rows[i].score), Positives(rows))
  IN  <<twiceSum - p * (p + 1), 2 * p * n>>

\* The area under the steps of recall, each with the precision at its end; Whole
\* is a multiple of every number of rows.
AveragePrecision(rows, Whole) ==
  LET Found(score) == Cardinality(AtLeast(rows, score) \cap Positives(rows))
      Step(score) == Cardinality(At(rows, score) \cap Positives(rows))
      area == MapThenSumSet(LAMBDA s : (Step(s) * Found(s) * Whole)
                                         \div Cardinality(AtLeast(rows, s)),
                            Scores(rows))
  IN  <<area, Whole * Cardinality(Positives(rows))>>

\* The rows of one of several bins; the last bin includes one.
InBin(rows, bin, bins) ==
  {i \in DOMAIN rows :
     /\ bin * Unit <= rows[i].score * bins
     /\ rows[i].score * bins < (bin + 1) * Unit \/ bin = bins - 1}

Distance(a, b) == IF a < b THEN b - a ELSE a - b

\* In every bin the confidence against the positives, in units of 1 / Unit per row.
CalibrationError(rows, bins) ==
  MapThenSumSet(LAMBDA bin :
      Distance(Unit * Cardinality(InBin(rows, bin, bins) \cap Positives(rows)),
               MapThenSumSet(LAMBDA i : rows[i].score, InBin(rows, bin, bins))),
    0 .. bins - 1)

-----------------------------------------------------------------------------
(* Agreement of two judges on the same answers.                            *)

Both(a, b, x, y) == Cardinality({i \in DOMAIN a : a[i] = x /\ b[i] = y})

\* Cohen's kappa, one where chance alone would agree on everything.
CohenKappa(a, b) ==
  LET n == Len(a)
      observed == n * (Both(a, b, TRUE, TRUE) + Both(a, b, FALSE, FALSE))
      yesA == Both(a, b, TRUE, TRUE) + Both(a, b, TRUE, FALSE)
      yesB == Both(a, b, TRUE, TRUE) + Both(a, b, FALSE, TRUE)
      chance == yesA * yesB + (n - yesA) * (n - yesB)
  IN  IF chance = n * n THEN <<1, 1>> ELSE <<observed - chance, n * n - chance>>

\* Gwet's AC1: chance is measured by the mean share of positives.
GwetAc1(a, b) ==
  LET n == Len(a)
      observed == 2 * n * (Both(a, b, TRUE, TRUE) + Both(a, b, FALSE, FALSE))
      yes == 2 * Both(a, b, TRUE, TRUE) + Both(a, b, TRUE, FALSE) + Both(a, b, FALSE, TRUE)
      chance == yes * (2 * n - yes)
  IN  <<observed - chance, 2 * n * n - chance>>

\* Quadratic weighted kappa of quality scores, one where none is expected to differ.
WeightedKappa(a, b) ==
  LET n == Len(a)
      Square(d) == d * d
      observed == n * MapThenSumSet(LAMBDA i : Square(b[i] - a[i]), DOMAIN a)
      expected == MapThenSumSet(LAMBDA p : Square(a[p[1]] - b[p[2]]),
                                (DOMAIN a) \X (DOMAIN b))
  IN  IF expected = 0 THEN <<1, 1>> ELSE <<expected - observed, expected>>
=============================================================================
