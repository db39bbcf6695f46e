-------------------------- MODULE SupportControls ---------------------------
(***************************************************************************)
(* The replays of the frozen natural rankings (support_controls.py, and    *)
(* run_frozen_natural_support_controls and _expansion): the ranking of a   *)
(* query is cut to a support, a set of memories, in several ways, and each *)
(* route is scored at matched recall.  A query has a namespace, the        *)
(* memories it requires and an intent; a memory a namespace, a state and   *)
(* whether it is a released distractor.  A draw is in units of 1 / Unit.   *)
(***************************************************************************)
EXTENDS Fractions, Sequences, SequencesExt, FiniteSetsExt, TLC

CONSTANT Unit

OutOfScope(query, memory) == memory.namespace # query.namespace

\* A required memory is admissible by definition, wherever it is not out of scope.
ResidualStatus(query, memories, m) ==
  IF m \in query.required THEN "yes"
  ELSE IF memories[m].state = "uncertain" THEN "unknown"
  ELSE IF \/ memories[m].distractor
          \/ query.intent = "current_state" /\ memories[m].state \in {"stale", "superseded"}
       THEN "no" ELSE "yes"
FullStatus(query, memories, m) ==
  IF OutOfScope(query, memories[m]) THEN "no" ELSE ResidualStatus(query, memories, m)

-----------------------------------------------------------------------------
(* Supports.  labels gives every memory the namespace a gate takes it for. *)

Own(query, labels) == {m \in DOMAIN labels : labels[m] = query.namespace}
Released(memories) == [m \in DOMAIN memories |-> memories[m].namespace]
Permuted(memories, shuffle) == [m \in DOMAIN memories |-> memories[shuffle[m]].namespace]

\* One of the other namespaces, which are numbered from 0; -1 if there is no other.
AlternateNamespace(original, count, draw) ==
  LET alternative == (draw * (count - 1)) \div Unit
  IN  IF count < 2 THEN -1
      ELSE IF alternative >= original THEN alternative + 1 ELSE alternative
Swapped(memories, selected, alternate, rate) ==
  [m \in DOMAIN memories |->
     IF selected[m] < rate THEN alternate[m] ELSE memories[m].namespace]

FalseAllowed(own, gate, rate) == own \cup {m \in DOMAIN gate : gate[m] < rate}

\* The first of a ranking that are supported.
FirstSupported(ranking, support, limit) ==
  LET kept == SelectSeq(ranking, LAMBDA m : m \in support)
  IN  SubSeq(kept, 1, Min({limit, Len(kept)}))

\* How many memories a gate lets through is counted without applying it: by a
\* histogram of the draws, whose bins begin at the rates.
FalseAllowCount(candidates, own, gate, rates, k) ==
  LET InBin(i) == {m \in candidates \ own : rates[i] <= gate[m] /\ gate[m] < rates[i + 1]}
  IN  Cardinality(candidates \cap own)
        + MapThenSumSet(LAMBDA i : Cardinality(InBin(i)), 1 .. k - 1)
\* By a count of the whole source, if every memory of it is a candidate.
SwapCount(candidates, labels, query) == Cardinality(Own(query, labels) \cap candidates)

-----------------------------------------------------------------------------
(* Scores at matched recall.                                               *)

Hits(query, ranked) == Cardinality(query.required \cap ToSet(ranked))
Reaches(query, ranked, target) ==
  Hits(query, ranked) * target[2] >= target[1] * Cardinality(query.required)
Prefix(query, ranked, target) ==
  SubSeq(ranked, 1, Min({n \in 1 .. Len(ranked) : Reaches(query, SubSeq(ranked, 1, n), target)}))

\* How many of a ranking are in a set of memories.
Places(ranked, set) == Cardinality({i \in DOMAIN ranked : ranked[i] \in set})
Share(ranked, set) == IF ranked = <<>> THEN Zero ELSE <<Places(ranked, set), Len(ranked)>>
\* The memories of each status.
Outside(query, memories) == {m \in DOMAIN memories : OutOfScope(query, memories[m])}
OfStatus(query, memories, statuses) ==
  {m \in DOMAIN memories : FullStatus(query, memories, m) \in statuses}

\* The score of support_controls, with the diagnostics of its script.
ScoreMatchedRecall(query, memories, ranked, target, cost) ==
  LET prefix == Prefix(query, ranked, target)
      outside == Outside(query, memories)
      violating == OfStatus(query, memories, {"no", "unknown"})
      suspect == {m \in DOMAIN memories : ResidualStatus(query, memories, m) # "yes"}
      score == [recall |-> <<Hits(query, ranked), Cardinality(query.required)>>,
                returnedWrongScope |-> Share(ranked, outside), width |-> Len(ranked)]
  IN  IF ~Reaches(query, ranked, target)
      THEN score @@ [feasible |-> FALSE, prefix |-> {}, risk |-> cost, residual |-> cost]
      ELSE score @@
           [feasible |-> TRUE, prefix |-> {Len(prefix)},
            risk |-> Share(prefix, violating), residual |-> Share(prefix, suspect),
            matchedWrongScope |-> Share(prefix, outside),
            known |-> Places(prefix, OfStatus(query, memories, {"no"})),
            upper |-> Places(prefix, violating)]

\* The score of the support expansion, at a recall of 4 / 5.
ScoreRanking(query, memories, ranked) ==
  LET prefix == Prefix(query, ranked, <<4, 5>>)
      outside == Outside(query, memories)
      Required(statuses) == query.required \cap OfStatus(query, memories, statuses)
      score == [recall |-> <<Hits(query, ranked), Cardinality(query.required)>>,
                returnedWrongScope |-> Share(ranked, outside)]
  IN  IF ~Reaches(query, ranked, <<4, 5>>) THEN score @@ [feasible |-> FALSE, upper |-> {}]
      ELSE score @@
           [feasible |-> TRUE,
            upper |-> {Share(prefix, OfStatus(query, memories, {"no", "unknown"}))},
            matchedWrongScope |-> Share(prefix, outside),
            relevantInadmissible |-> Share(prefix, Required({"no"})),
            jointCoverage |-> Share(prefix, Required({"yes", "no"}))]

\* The routes of one query and how many candidates each scores.
Routes(query, memories, ranking, limit, depths, shuffle) ==
  LET candidates == ToSet(ranking)
      own == Own(query, Released(memories)) \cap candidates
      random == Own(query, Permuted(memories, shuffle)) \cap candidates
  IN  [global |-> [route |-> SubSeq(ranking, 1, Min({limit, Len(ranking)})),
                   scored |-> Len(ranking)],
       namespace |-> [route |-> FirstSupported(ranking, own, limit), scored |-> Cardinality(own)],
       random |-> [route |-> FirstSupported(ranking, random, limit),
                   scored |-> Cardinality(random)],
       filtered |-> [depth \in depths |->
                       FirstSupported(SubSeq(ranking, 1, Min({depth, Len(ranking)})),
                                      own, limit)]]

-----------------------------------------------------------------------------
(* Tables: the scores of several queries are added up, and a group of them *)
(* can be taken away again.                                                *)

MatchedFields == {"risk", "residual", "wrongScope", "anyKnown", "known", "upper"}

\* What a query adds to the sums of all queries and to those of the feasible ones.
Indicator(holds) == IF holds THEN One ELSE Zero
Row(score, scored) ==
  [queries |-> 1, matched |-> IF score.feasible THEN 1 ELSE 0,
   all |-> [recall |-> score.recall, feasible |-> Indicator(score.feasible),
            risk |-> score.risk, residual |-> score.residual,
            wrongScope |-> score.returnedWrongScope,
            width |-> <<score.width, 1>>, scored |-> <<scored, 1>>],
   only |-> IF ~score.feasible THEN [f \in MatchedFields |-> Zero]
            ELSE [risk |-> score.risk, residual |-> score.residual,
                  wrongScope |-> score.matchedWrongScope,
                  anyKnown |-> Indicator(score.known > 0),
                  known |-> <<score.known, 1>>, upper |-> <<score.upper, 1>>]]

Update(total, row) ==
  [queries |-> total.queries + row.queries, matched |-> total.matched + row.matched,
   all |-> [f \in DOMAIN row.all |-> Plus(total.all[f], row.all[f])],
   only |-> [f \in MatchedFields |-> Plus(total.only[f], row.only[f])]]
\* A sum may not become empty.
MayLose(total, other) == other.queries < total.queries
Without(total, other) ==
  [queries |-> total.queries - other.queries, matched |-> total.matched - other.matched,
   all |-> [f \in DOMAIN total.all |-> Minus(total.all[f], other.all[f])],
   only |-> [f \in MatchedFields |-> Minus(total.only[f], other.only[f])]]

Aggregate(rows) == FoldSeq(LAMBDA row, total : Update(total, row), Head(rows), Tail(rows))

Mean(total, field) == Over(total.all[field], total.queries)
\* None if no query is feasible.
Conditional(total, field) ==
  IF total.matched = 0 THEN {} ELSE {Over(total.only[field], total.matched)}

\* The sources count alike, those without a value not at all.
MetricRow(totals) ==
  [all |-> [f \in DOMAIN totals[1].all |-> MeanOf([s \in DOMAIN totals |-> Mean(totals[s], f)])],
   only |-> [f \in MatchedFields |->
               OptionalMean([s \in DOMAIN totals |-> Conditional(totals[s], f)])]]

\* Two-sided, over all choices of signs for the deltas that are not zero.
SignFlip(deltas) ==
  LET nonzero == {k \in DOMAIN deltas : deltas[k][1] # 0}
      Size(positive) ==
        LET sum == SumOf([k \in nonzero |-> IF k \in positive THEN deltas[k]
                                            ELSE Negated(deltas[k])])
        IN  IF sum[1] < 0 THEN Negated(sum) ELSE sum
      extreme == {positive \in SUBSET nonzero : AtMost(Size(nonzero), Size(positive))}
  IN  <<Cardinality(extreme), Cardinality(SUBSET nonzero)>>

LeaveOneOutMeans(values) ==
  [k \in DOMAIN values |->
     Over(Minus(SumOf(values), values[k]), Cardinality(DOMAIN values) - 1)]

\* rows: the source and the group of a query, and its row in each of two arms.
Place(row) == <<row.source, row.group>>
Total(rows, arm, places) ==
  LET of == SelectSeq(rows, LAMBDA row : Place(row) \in places)
  IN  Aggregate([i \in DOMAIN of |-> of[i][arm]])
OfSource(rows, s) == {Place(rows[i]) : i \in {j \in DOMAIN rows : rows[j].source = s}}

Gap(namespace, global, metric) == Minus(Mean(namespace, metric), Mean(global, metric))

\* How the namespace arm differs from the global one: on average over the sources,
\* in each group, and with any one group left out.
GroupOutputs(rows, metric) ==
  LET places == {Place(rows[i]) : i \in DOMAIN rows}
      sources == {place[1] : place \in places}
      Whole(arm, s) == Total(rows, arm, OfSource(rows, s))
      Group(arm, place) == Total(rows, arm, {place})
      SourceGap(s) == Gap(Whole("namespace", s), Whole("global", s), metric)
      Rest(arm, place) == Without(Whole(arm, place[1]), Group(arm, place))
      Left(s, place) ==
        IF s = place[1] THEN Gap(Rest("namespace", place), Rest("global", place), metric)
        ELSE SourceGap(s)
      groups == [place \in places |->
                   Gap(Group("namespace", place), Group("global", place), metric)]
      rhelm == {place \in places : place[1] = "rhelm"}
  IN  IF \E place \in places : ~MayLose(Whole("global", place[1]), Group("global", place))
      THEN [refused |-> TRUE]
      ELSE [refused |-> FALSE, estimate |-> MeanOf([s \in sources |-> SourceGap(s)]),
            groups |-> groups,
            leftOut |-> [place \in places |-> MeanOf([s \in sources |-> Left(s, place)])],
            p |-> SignFlip([place \in rhelm |-> groups[place]])]

-----------------------------------------------------------------------------
\* scenario_selectivity: by scenario the mean effect of exposing what is admissible
\* over that of exposing what is not; rows of other cells are passed over.
SelectivityCells == {"relevant_admissible", "relevant_inadmissible"}
InCell(rows, scenario, cell) ==
  {i \in DOMAIN rows : rows[i].scenario = scenario /\ rows[i].cell = cell}
Scenarios(rows) ==
  {rows[i].scenario : i \in {j \in DOMAIN rows : rows[j].cell \in SelectivityCells}}
Selective(rows) ==
  /\ Scenarios(rows) # {}
  /\ \A s \in Scenarios(rows), cell \in SelectivityCells : InCell(rows, s, cell) # {}
ScenarioSelectivity(rows) ==
  LET Effect(s, cell) == MeanOf([i \in InCell(rows, s, cell) |-> rows[i].effect])
  IN  [s \in Scenarios(rows) |->
         Minus(Effect(s, "relevant_admissible"), Effect(s, "relevant_inadmissible"))]
=============================================================================
