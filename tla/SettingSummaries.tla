-------------------------- MODULE SettingSummaries --------------------------
(***************************************************************************)
(* The tables of the retrieval study: a setting is summarized over the     *)
(* cases (experiment.py), the best of an arm's settings is selected on     *)
(* development cases, rankings are cut at several depths (pareto.py), and  *)
(* the corruption rate is found at which an arm stops dominating another   *)
(* (robustness.py).  A case has a source and the labels of its memories;   *)
(* a run is the case, the ranking returned for it and its score.           *)
(***************************************************************************)
EXTENDS RouteMetrics, Fractions, FiniteSetsExt

\* Rates of the matched prefix, None if there is nothing to count.
Optional(n, d) == IF d = 0 THEN {} ELSE {<<n, d>>}
Upper(bounds) == Optional(bounds.upper, bounds.items)
KnownRate(bounds) == Optional(bounds.lower, bounds.known)

\* scored: how many memories the arm ranked.
RunCase(case, ranked, scored) ==
  [source |-> case.source, labels |-> case.labels, ranked |-> ranked, scored |-> scored,
   recall |-> Optional(Hits(ranked, case.labels), Cardinality(Anchors(case.labels))),
   score |-> ScoreRoute(ranked, case.labels)]

Is(run, feasible) == run.score.feasible = feasible

\* The rate of a feasible run, one where it has none or the run is infeasible; None
\* where there is no recall.
Penalized(run, rate) ==
  CASE Is(run, "unknown") -> {}
    [] Is(run, "no") -> {One}
    [] OTHER -> IF rate = {} THEN {One} ELSE rate

UsableUpper(score) == Upper(score.nonUsable)
UsableKnown(score) == KnownRate(score.nonUsable)
AdmissibleUpper(score) == Upper(score.inadmissible)
AdmissibleKnown(score) == KnownRate(score.inadmissible)

\* What cannot be summarized is a source without a run whose recall is known.
Summarizable(runs) ==
  /\ runs # <<>>
  /\ \A s \in {runs[i].source : i \in DOMAIN runs} :
       \E i \in DOMAIN runs : runs[i].source = s /\ ~Is(runs[i], "unknown")

\* Over some runs and their rates: how much of the risk is infeasibility, how much that of the
\* feasible runs, and what it is among these.
RiskDecomposition(runs, rates) ==
  LET evaluable == {i \in DOMAIN runs : ~Is(runs[i], "unknown")}
      feasible == {i \in evaluable : Is(runs[i], "yes")}
      Risk(i) == The(Penalized(runs[i], rates[i]))
  IN  [infeasible |-> <<Cardinality(evaluable \ feasible), Cardinality(evaluable)>>,
       component |-> MeanOf([i \in evaluable |-> IF i \in feasible THEN Risk(i) ELSE Zero]),
       conditional |-> IF feasible = {} THEN {} ELSE {MeanOf([i \in feasible |-> Risk(i)])}]

\* Over the runs of one source, then over the sources alike.
SourceMetrics(runs) ==
  LET Rates(Rate(_)) == [i \in DOMAIN runs |-> Rate(runs[i].score)]
      PenalizedMean(Rate(_)) ==
        The(OptionalMean([i \in DOMAIN runs |-> Penalized(runs[i], Rate(runs[i].score))]))
      feasible == {i \in DOMAIN runs : Is(runs[i], "yes")}
      evaluable == {i \in DOMAIN runs : ~Is(runs[i], "unknown")}
      admissibility == RiskDecomposition(runs, Rates(AdmissibleUpper))
  IN  [feasible |-> <<Cardinality(feasible), Cardinality(evaluable)>>,
       usableUpper |-> PenalizedMean(UsableUpper), usableKnown |-> PenalizedMean(UsableKnown),
       upper |-> PenalizedMean(AdmissibleUpper), known |-> PenalizedMean(AdmissibleKnown),
       infeasible |-> admissibility.infeasible, component |-> admissibility.component,
       conditional |-> admissibility.conditional,
       usableComponent |-> RiskDecomposition(runs, Rates(UsableUpper)).component,
       recall |-> The(OptionalMean([i \in DOMAIN runs |-> runs[i].recall])),
       scored |-> MeanOf([i \in DOMAIN runs |-> <<runs[i].scored, 1>>])]

OfSource(runs, source) == SelectSeq(runs, LAMBDA run : run.source = source)
SummarizeSetting(runs) ==
  LET sources == {runs[i].source : i \in DOMAIN runs}
      metrics == {<<s, SourceMetrics(OfSource(runs, s))>> : s \in sources}
      fields == {"feasible", "usableUpper", "usableKnown", "upper", "known", "infeasible",
                 "component", "usableComponent", "recall", "scored"}
  IN  [f \in fields |-> MeanOf([m \in metrics |-> m[2][f]])]

\* Feasible first, then low risk, high recall, few candidates, and the setting's id.
SelectionKey(summary, id, target) ==
  <<Negated(summary.feasible),
    IF target = "non_usable" THEN summary.usableUpper ELSE summary.upper,
    IF target = "non_usable" THEN summary.usableKnown ELSE summary.known,
    Negated(summary.recall), summary.scored, <<id, 1>>>>

\* runs: for each setting of an arm its runs, of the same cases.
SelectDevSetting(runs, target) ==
  LET Key(id) == SelectionKey(SummarizeSetting(runs[id]), id, target)
  IN  CHOOSE id \in DOMAIN runs : \A other \in DOMAIN runs : ~Before(Key(other), Key(id))

\* A run at the greatest depth, cut; what was scored for it stays.
CutRun(run, depth) ==
  RunCase([source |-> run.source, labels |-> run.labels],
          SubSeq(run.ranked, 1, Min({depth, Len(run.ranked)})), run.scored)
TopKPareto(runs, depths) ==
  [depth \in depths |-> SummarizeSetting([i \in DOMAIN runs |-> CutRun(runs[i], depth)])]

\* The macro means of metrics.py: all scores alike, and what is missing left out.
AggregateScores(runs) ==
  LET Of(Rate(_)) == OptionalMean([i \in DOMAIN runs |->
                       IF Is(runs[i], "yes") THEN Rate(runs[i].score) ELSE {}])
      feasible == OptionalMean([i \in DOMAIN runs |->
                    CASE Is(runs[i], "yes") -> {One} [] Is(runs[i], "no") -> {Zero}
                      [] OTHER -> {}])
  IN  [feasible |-> feasible, recall |-> OptionalMean([i \in DOMAIN runs |-> runs[i].recall]),
       usableUpper |-> Of(UsableUpper), upper |-> Of(AdmissibleUpper),
       known |-> Of(AdmissibleKnown)]

-----------------------------------------------------------------------------
\* curve: for each rate, in units, the summaries of the two arms.
Dominates(treatment, reference) ==
  AtMost(reference.feasible, treatment.feasible) /\ AtMost(treatment.upper, reference.upper)

\* The rates in order: the last one that dominates before one that does not.
Bracket(curve) ==
  FoldLeft(LAMBDA seen, rate :
             CASE seen.first # {} -> seen
               [] /\ seen.first = {}
                  /\ Dominates(curve[rate].treatment, curve[rate].reference) ->
                    [seen EXCEPT !.last = {rate}]
               [] OTHER -> [seen EXCEPT !.first = {rate}],
           [last |-> {}, first |-> {}], SetToSortSeq(DOMAIN curve, <))
=============================================================================
