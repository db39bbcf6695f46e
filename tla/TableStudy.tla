----------------------------- MODULE TableStudy -----------------------------
(***************************************************************************)
(* The pure parts that compute the published numbers, beside those of      *)
(* ContractStudy and in the same way: statistics, means and tables,        *)
(* bootstraps, replays, settings and curves.                               *)
(***************************************************************************)
EXTENDS ContractStudy, FiniteSetsExt, Functions

CONSTANTS
  Grain,             \* a multiple of the numbers of rows
  Bins               \* of the calibration error

Metrics == INSTANCE RouteMetrics WITH Target <- subject.target
Statistics == INSTANCE RankStatistics
Tables == INSTANCE AnswerTables
Samples == INSTANCE Resampling WITH Whole <- Grain
Support == INSTANCE SupportControls
Summaries == INSTANCE SettingSummaries WITH Target <- subject.target

ASSUME TableAssumption == Bins \in Nat \ {0} /\ Grain \in Nat \ {0}

\* Discrimination and calibration of labelled scores.
Discriminate ==
  /\ Look("rank")
  /\ result' = [auc |-> Statistics!RocAuc(subject.rows),
                precision |-> Statistics!AveragePrecision(subject.rows, Grain),
                error |-> Statistics!CalibrationError(subject.rows, Bins)]

\* Two judges of the same answers: whether they are correct, and how good.
Compare ==
  /\ Look("judges")
  /\ result' = [kappa |-> Statistics!CohenKappa(subject.correct[1], subject.correct[2]),
                ac1 |-> Statistics!GwetAc1(subject.correct[1], subject.correct[2]),
                weighted |-> Statistics!WeightedKappa(subject.quality[1], subject.quality[2])]

\* The tables of one metric for an arm and its reference.
Tabulate ==
  /\ Look("tables")
  /\ result' = [delta |-> Tables!PairedDelta(subject.cases, subject.values, "arm", "reference"),
                arm |-> Tables!MacroMean(subject.cases, subject.values, "arm"),
                reference |-> Tables!MacroMean(subject.cases, subject.values, "reference")]

\* The bootstrap of one metric, and the table beside it.
Resample ==
  /\ Look("resample")
  /\ LET draws == [k \in DOMAIN subject.picks |->
                     Samples!EqualAxisMean(Samples!Draw(subject.observed, subject.picks[k]))]
     IN  result' = [estimate |-> Samples!EqualAxisMean(subject.observed),
                    pooled |-> Samples!EqualStratumDelta(subject.observed),
                    table |-> Samples!Aggregate(subject.observed),
                    draws |-> draws, interval |-> Samples!Interval(draws),
                    nearest |-> Samples!RoundedQuantile(Samples!Sorted(draws), <<39, 40>>)]

\* A frozen ranking under the supports of both replays, at every rate of a channel.
Gated(s, support, scored) ==
  [route |-> Support!FirstSupported(s.ranking, support, s.limit), scored |-> scored]
FalseAllow(s, k) ==
  LET own == Support!Own(s.query, Support!Released(s.memories))
  IN  Gated(s, Support!FalseAllowed(own, s.gate, s.rates[k]),
            Support!FalseAllowCount(Range(s.ranking), own, s.gate, s.rates, k))
Swap(s, k) ==
  LET alternate == [m \in DOMAIN s.memories |->
                      Support!AlternateNamespace(s.memories[m].namespace, s.namespaces, s.draws[m])]
      labels == Support!Swapped(s.memories, s.gate, alternate, s.rates[k])
  IN  Gated(s, Support!Own(s.query, labels),
            Support!SwapCount(Range(s.ranking), labels, s.query))
ReplayRanking ==
  /\ Look("support")
  /\ LET s == subject
         routes == Support!Routes(s.query, s.memories, s.ranking, s.limit, s.depths, s.shuffle)
     IN  result' =
           [routes |-> routes,
            scores |-> [arm \in {"global", "namespace", "random"} |->
                          Support!ScoreMatchedRecall(s.query, s.memories, routes[arm].route,
                                                     s.target, s.cost)],
            expansion |-> [arm \in {"global", "namespace"} |->
                             Support!ScoreRanking(s.query, s.memories, routes[arm].route)],
            falseAllow |-> [k \in DOMAIN s.rates |-> FalseAllow(s, k)],
            swap |-> [k \in DOMAIN s.rates |-> Swap(s, k)]]

\* The tables of a replay: the scores of each query in the two arms.
GroupMetrics == {"recall", "feasible", "risk", "residual"}
ArmRow(q, arm) == Support!Row(q[arm], q.scored[arm])
GroupRows(queries) ==
  [i \in DOMAIN queries |->
     [source |-> queries[i].source, group |-> queries[i].group,
      global |-> ArmRow(queries[i], "global"), namespace |-> ArmRow(queries[i], "namespace")]]
TabulateGroups ==
  /\ Look("groups")
  /\ LET rows == GroupRows(subject.queries)
         Of(arm, s) == Support!Total(rows, arm, Support!OfSource(rows, s))
     IN  result' = [groups |-> [metric \in GroupMetrics |-> Support!GroupOutputs(rows, metric)],
                    macro |-> [arm \in {"global", "namespace"} |->
                       Support!MetricRow([i \in DOMAIN subject.sources |->
                                            Of(arm, subject.sources[i])])]]

\* The selectivity of a model by scenario, and its range if one is left out.
TabulateScenarios ==
  /\ Look("scenarios")
  /\ IF ~Support!Selective(subject.rows) THEN result' = Refused
     ELSE LET gaps == Support!ScenarioSelectivity(subject.rows)
          IN  /\ Cardinality(DOMAIN gaps) > 1
              /\ result' = [refused |-> FALSE, gaps |-> gaps,
                            leftOut |-> Support!LeaveOneOutMeans(gaps),
                            p |-> Support!SignFlip(gaps)]

\* The settings of one arm on development cases: the one selected, its frontier over
\* the depths, and the scores by source as metrics aggregates them.
RunsOf(s, id) ==
  [c \in DOMAIN s.cases |->
     Summaries!RunCase(s.cases[c], s.rankings[id][c], s.scored[id])]
SummarizeSettings ==
  /\ Look("settings")
  /\ LET runs == [id \in DOMAIN subject.rankings |-> RunsOf(subject, id)]
     IN  IF \E id \in DOMAIN runs : ~Summaries!Summarizable(runs[id])
         THEN result' = Refused
         ELSE result' =
           [refused |-> FALSE, runs |-> runs,
            summaries |-> [id \in DOMAIN runs |->
                             Summaries!SummarizeSetting(runs[id])],
            selected |-> [risk \in {"non_usable", "admissibility"} |->
                            Summaries!SelectDevSetting(runs, risk)],
            frontier |-> [id \in DOMAIN runs |->
                            Summaries!TopKPareto(runs[id], subject.depths)]]

\* Where a corruption curve stops dominating.
FindBreakEven ==
  /\ Look("curve")
  /\ result' = Summaries!Bracket(subject.curve)

StudyNext ==
  \/ ContractNext \/ Discriminate \/ Compare \/ Tabulate \/ Resample
  \/ ReplayRanking \/ TabulateGroups \/ TabulateScenarios
  \/ SummarizeSettings \/ FindBreakEven

-----------------------------------------------------------------------------
\* The labels of a candidate as the retrieval study writes them.
Assessed(c) ==
  [relevance |-> IF c.required THEN "required" ELSE "not_useful", scope |-> "allowed",
   state |-> CASE c.lifecycle = "yes" -> "current" [] c.lifecycle = "no" -> "stale"
               [] OTHER -> "unknown",
   policy |-> c.policy, intent |-> "current_state"]
\* The required candidates are the anchors, and are admissible.
Anchored(case) ==
  /\ case.anchors = Cardinality({i \in DOMAIN case.candidates : case.candidates[i].required})
  /\ \A i \in DOMAIN case.candidates :
       case.candidates[i].required => Filter!Released(case.candidates[i]) = "yes"

ReleasedScoresAgree ==
  Done("route") =>
    LET filtered == result.filtered
        matched == result.matched
        released == Metrics!ScoreRoute(subject.keys,
                      [i \in DOMAIN subject.case.candidates |->
                         Assessed(subject.case.candidates[i])])
    IN  /\ filtered.feasible = matched.feasible /\ filtered.prefix = matched.prefix
        /\ filtered.penalized = matched.penalized /\ filtered.rate = matched.rate
        /\ Anchored(subject.case) =>
             /\ (released.feasible = "yes") = filtered.feasible
             /\ filtered.feasible =>
                  /\ filtered.prefix = {Len(released.prefix)}
                  /\ filtered.prefix # {0} =>
                       filtered.penalized[1] = released.inadmissible.upper

\* What the natural pipeline would see of a frozen route.
AsNatural(s, route) ==
  [i \in DOMAIN route |->
     [required |-> route[i] \in s.query.required, policy |-> "yes",
      scope |-> IF Support!OutOfScope(s.query, s.memories[route[i]]) THEN "no" ELSE "yes",
      lifecycle |-> Support!ResidualStatus(s.query, s.memories, route[i])]]
ReplayScoresAgree ==
  Done("support") =>
    \A arm \in DOMAIN result.scores :
      LET score == result.scores[arm]
          natural == Routes!MatchedRouteScore([anchors |-> Cardinality(subject.query.required)],
                       AsNatural(subject, result.routes[arm].route), subject.target)
      IN  /\ score.feasible = natural.feasible /\ score.prefix = natural.prefix
          /\ score.feasible => score.risk = natural.penalized
          /\ Support!AtMost(score.residual, score.risk)
          /\ subject.target = <<4, 5>> /\ arm \in DOMAIN result.expansion =>
               /\ result.expansion[arm].feasible = score.feasible
               /\ \A upper \in result.expansion[arm].upper : upper = score.risk

\* A gate that errs more lets more through, and one that does not err is the
\* namespace; a swapped label is never the memory's own; a filter after the ranking
\* finds a beginning of what one before it finds; and what is counted is what was let
\* through.
SupportsAreNested ==
  Done("support") =>
    LET namespace == result.routes.namespace
        Let(k) == Range(result.falseAllow[k].route)
        Unlimited == subject.limit >= Len(subject.ranking)
    IN  /\ \A k \in DOMAIN subject.rates : subject.rates[k] = 0 =>
             result.falseAllow[k] = namespace /\ result.swap[k] = namespace
        /\ \A j, k \in DOMAIN subject.rates : j <= k =>
             /\ result.falseAllow[j].scored <= result.falseAllow[k].scored
             /\ Unlimited => Let(j) \subseteq Let(k)
        /\ \A k \in DOMAIN subject.rates : Unlimited =>
             /\ result.falseAllow[k].scored = Len(result.falseAllow[k].route)
             /\ result.swap[k].scored = Len(result.swap[k].route)
             /\ \A m \in Range(result.swap[k].route) :
                  (subject.gate[m] < subject.rates[k])
                    = Support!OutOfScope(subject.query, subject.memories[m])
        /\ \A depth \in subject.depths :
             LET filtered == result.routes.filtered[depth]
             IN  /\ filtered = SubSeq(namespace.route, 1, Len(filtered))
                 /\ depth >= Len(subject.ranking) => filtered = namespace.route
        /\ Range(subject.ranking) = DOMAIN subject.memories =>
             result.routes.random.scored = namespace.scored

\* The scores of a route (inferred_admissibility, natural_end_to_end, where the
\* anchors are the usable memories metrics, and on the frozen rankings
\* support_controls and the support expansion) are the same score, so that the
\* inferred, the natural and the frozen results may be compared with each other; and
\* the supports of the replays are nested as their protocol says.
ScoresAgree == ReleasedScoresAgree /\ ReplayScoresAgree /\ SupportsAreNested

MannWhitney(rows) ==
  MapThenSumSet(LAMBDA p : IF rows[p[1]].score > rows[p[2]].score THEN 2
                           ELSE IF rows[p[1]].score = rows[p[2]].score THEN 1 ELSE 0,
                Statistics!Positives(rows) \X Statistics!Negatives(rows))
MeanPrecision(rows) ==
  MapThenSumSet(LAMBDA i :
      LET above == Statistics!AtLeast(rows, rows[i].score)
      IN  (Grain * Cardinality(above \cap Statistics!Positives(rows))) \div Cardinality(above),
    Statistics!Positives(rows))

IsOne(rate) == rate[1] = rate[2]

\* The rank sum is the Mann-Whitney count with ties as halves, the average
\* precision the mean precision at the positives, every score is in one bin, and
\* each coefficient of agreement is one exactly for judges that agree (_roc_auc,
\* _average_precision, _ece, binary_agreement, quality_agreement).
StatisticsAgree ==
  /\ Done("rank") =>
       /\ result.auc[1] = MannWhitney(subject.rows)
       /\ result.precision[1] = MeanPrecision(subject.rows)
       /\ \A i \in DOMAIN subject.rows :
            Cardinality({bin \in 0 .. Bins - 1 :
                             i \in Statistics!InBin(subject.rows, bin, Bins)}) = 1
  /\ Done("judges") =>
       /\ IsOne(result.kappa) = (subject.correct[1] = subject.correct[2])
       /\ IsOne(result.ac1) = (subject.correct[1] = subject.correct[2])
       /\ IsOne(result.weighted) = (subject.quality[1] = subject.quality[2])

\* Every axis has as many scenarios, and every scenario as many units, as any other
\* (validate_dataset_contract).
Balanced(observed) ==
  /\ \A s, t \in DOMAIN observed : Len(observed[s]) = Len(observed[t])
  /\ \A s, t \in DOMAIN observed : \A i \in DOMAIN observed[s], j \in DOMAIN observed[t] :
       observed[s][i].count = observed[t][j].count

\* Where a metric is evaluable for the same cases of both arms, their paired
\* difference is the difference of their means (_aggregate_rows, _paired_delta).  In
\* a balanced data set the estimate of a bootstrap is the value in the table beside
\* it, though one is a mean of means and the other counts all units alike; the
\* bounds of its interval are in order and no further apart than the draws, and
\* where the scenarios of each axis agree they are the estimate
\* (aggregate_cell_scores, scenario_stratified_cell_bootstrap, _quantile).
PairedTablesAgree ==
  /\ Done("tables")
       /\ (\A c \in DOMAIN subject.cases :
             (subject.values["arm"][c] = {}) = (subject.values["reference"][c] = {})) =>
       \A a \in result.arm, b \in result.reference, d \in result.delta :
         Tables!Equal(d, Tables!Minus(a, b))
  /\ Done("resample") =>
       LET low == result.interval[1]
           high == result.interval[2]
       IN  /\ Balanced(subject.observed) =>
                result.table = result.estimate /\ result.pooled = result.estimate
           /\ Min(Range(result.draws)) <= low /\ low <= high
           /\ high <= Max(Range(result.draws)) /\ result.nearest \in Range(result.draws)
           /\ (\A s \in DOMAIN subject.observed : \A i, j \in DOMAIN subject.observed[s] :
                 subject.observed[s][i] = subject.observed[s][j]) =>
                low = result.estimate /\ high = result.estimate

\* Taking a group away leaves the table of the others, the published range over the
\* groups left out encloses the estimate, the penalized risk is that of the feasible
\* queries and the cost of the others, and where all groups agree in direction no
\* choice of signs is more extreme (Aggregate, without, _group_outputs,
\* exact_sign_flip_pvalue).
Enclosed(value, values) ==
  /\ \E k \in DOMAIN values : Support!AtMost(values[k], value)
  /\ \E k \in DOMAIN values : Support!AtMost(value, values[k])
OneDirection(deltas) ==
  /\ DOMAIN deltas # {}
  /\ \/ \A k \in DOMAIN deltas : deltas[k][1] > 0
     \/ \A k \in DOMAIN deltas : deltas[k][1] < 0
LeastP(deltas, p) == OneDirection(deltas) => p = <<2, 2 ^ Cardinality(DOMAIN deltas)>>
MacroGap(rows, metric) ==
  LET Of(arm, s) == Support!Total(rows, arm, Support!OfSource(rows, s))
  IN  Support!MeanOf([s \in {rows[i].source : i \in DOMAIN rows} |->
                        Support!Gap(Of("namespace", s), Of("global", s), metric)])
GroupTablesAgree ==
  /\ Done("groups") =>
       LET rows == GroupRows(subject.queries)
           Overall(arm) == Support!Total(rows, arm, {Support!Place(rows[i]) : i \in DOMAIN rows})
       IN  /\ \A metric \in GroupMetrics : ~result.groups[metric].refused =>
                LET table == result.groups[metric]
                    Others(place) == SelectSeq(rows, LAMBDA r : Support!Place(r) # place)
                IN  /\ \A place \in DOMAIN table.leftOut :
                         Support!Equal(table.leftOut[place], MacroGap(Others(place), metric))
                    /\ Enclosed(table.estimate, table.leftOut)
                    /\ Support!Equal(table.estimate,
                                     Support!Minus(result.macro["namespace"].all[metric],
                                                   result.macro["global"].all[metric]))
                    /\ LET rhelm == {place \in DOMAIN table.groups : place[1] = "rhelm"}
                       IN  LeastP([place \in rhelm |-> table.groups[place]], table.p)
           /\ \A arm \in {"global", "namespace"} :
                LET total == Overall(arm)
                    lost == total.queries - total.matched
                IN  Support!Equal(total.all.risk,
                      Support!Plus(total.only.risk,
                                   <<lost * subject.cost[1], subject.cost[2]>>))
  /\ Done("scenarios") /\ ~result.refused =>
       /\ Enclosed(Support!MeanOf(result.gaps), result.leftOut)
       /\ Support!Equal(Support!MeanOf(result.leftOut), Support!MeanOf(result.gaps))
       /\ LeastP(result.gaps, result.p)

\* A penalized risk is its two components; the setting selected is not dominated by
\* another one of its arm; a deeper cut loses no feasibility and adds no risk; within
\* a source the risk among the feasible runs is the mean that metrics aggregates; and
\* a curve dominates up to the last rate reported and not at the first one after it
\* (summarize_setting, select_dev_settings, run_top_k_pareto, aggregate_scores,
\* break_even_interval).
Better(a, b) ==
  /\ Support!AtMost(b.feasible, a.feasible) /\ Support!AtMost(a.upper, b.upper)
  /\ Support!Less(b.feasible, a.feasible) \/ Support!Less(a.upper, b.upper)
SettingTablesAgree ==
  /\ Done("settings") /\ ~result.refused =>
       /\ \A id \in DOMAIN result.summaries :
            LET t == result.summaries[id]
            IN  /\ Support!Equal(t.upper, Support!Plus(t.infeasible, t.component))
                /\ Support!Equal(t.usableUpper, Support!Plus(t.infeasible, t.usableComponent))
                /\ Support!AtMost(t.known, t.upper)
                /\ ~Better(t, result.summaries[result.selected["admissibility"]])
                /\ \A d, e \in subject.depths : d <= e =>
                     ~Better(result.frontier[id][d], result.frontier[id][e])
       /\ \A id \in DOMAIN result.runs, c \in DOMAIN subject.cases :
            LET runs == Summaries!OfSource(result.runs[id], subject.cases[c].source)
                metrics == Summaries!AggregateScores(runs)
                source == Summaries!SourceMetrics(runs)
            IN  /\ Support!Equal(Support!The(metrics.feasible), source.feasible)
                /\ Support!Equal(Support!The(metrics.recall), source.recall)
                /\ (metrics.upper = {}) = (source.conditional = {})
                /\ \A upper \in metrics.upper, among \in source.conditional :
                     Support!Equal(upper, among)
  /\ Done("curve") =>
       LET Holds(rate) == Summaries!Dominates(subject.curve[rate].treatment,
                                            subject.curve[rate].reference)
       IN  /\ \A first \in result.first : ~Holds(first)
           /\ \A rate \in DOMAIN subject.curve :
                \/ \E last \in result.last : rate <= last /\ Holds(rate)
                \/ \E first \in result.first : rate >= first

\* Tables of the same numbers agree: paired differences and bootstraps, groups left
\* out, and settings, frontiers and curves.
TablesAgree == PairedTablesAgree /\ GroupTablesAgree /\ SettingTablesAgree
=============================================================================
