--------------------------- MODULE ContractStudy ----------------------------
(***************************************************************************)
(* The pure parts that decide what a command publishes or shows: one input *)
(* at a time is parsed, filtered, routed, paired or scored the way the     *)
(* code does it, and the result is compared with what it should mean.      *)
(***************************************************************************)
EXTENDS Integers, Sequences, FiniteSets, Counting

CONSTANTS
  Unit, Tolerance,   \* of the probabilities
  Unseen             \* no result

VARIABLES
  subject,    \* what is looked at, by its kind
  result      \* Unseen before it is

Filter == INSTANCE VerifierFilter
Routes == INSTANCE NaturalRoutes
Scores == INSTANCE PairScores
Units == INSTANCE ExposureUnits

studied == <<subject, result>>

ASSUME ContractAssumption == Scores!ProbabilityAssumption

Is(kind) == subject.kind = kind
Look(kind) == Is(kind) /\ result = Unseen /\ UNCHANGED subject

\* What a command refuses leaves no result.
Refused == [refused |-> TRUE]

\* score_responses of the inferred experiment, for one model and arm: the answers
\* are parsed, the setting is selected on the calibration cases and measured.
Parsed(s) == \A c \in DOMAIN s.cases :
               Filter!IsResponse(s.responses[c], Len(s.cases[c].candidates))
SelectSetting ==
  /\ Look("filter") /\ Filter!Calibrates(subject.cases)
  /\ Filter!IsGrid(subject.violations, subject.unknowns, subject.bound)
  /\ IF ~Parsed(subject) THEN result' = Refused
     ELSE LET selected == Filter!SelectFilterSetting(subject.cases, subject.responses,
                            subject.violations, subject.unknowns, subject.bound)
          IN  result' = [refused |-> FALSE, selected |-> selected,
                         measured |-> Filter!FilterDecisionMetrics(subject.cases,
                                        subject.responses, selected.setting)]

\* A route is scored by each of the two modules that score routes; for the natural
\* one its candidates, all of one namespace, are in scope.
InScope(c) ==
  [required |-> c.required, policy |-> c.policy, lifecycle |-> c.lifecycle, scope |-> "yes"]
Selected(case, keys) == [i \in DOMAIN keys |-> InScope(case.candidates[keys[i]])]
ScoreRoute ==
  /\ Look("route") /\ Filter!IsCase(subject.case)
  /\ Filter!KeepsRanking(subject.case, subject.keys)
  /\ result' =
       [filtered |-> Filter!ScoreFilteredRoute(subject.case, subject.keys, subject.target),
        matched |-> Routes!MatchedRouteScore(subject.case,
                      Selected(subject.case, subject.keys), subject.target)]

\* Every arm of a natural case gets its prompt.
BuildRequests ==
  /\ Look("prompt") /\ Routes!Covers(subject.scores[1], subject.cases[1])
  /\ Routes!RankingIsValid(subject.cases[1].global)
  /\ Routes!RankingIsValid(subject.cases[1].namespace)
  /\ result' = Routes!Assignments(subject.cases, subject.scores, subject.threshold)

\* Two answers to a pair of queries, the oracle's and the keep-all baseline's.
PairAccepted(s) ==
  /\ Scores!ContractHolds(s.scenario, 1, s.alike)
  /\ \A c \in Scores!Conditions : Scores!IsPrediction(s.predictions[c], s.scenario.roles)
ScorePair ==
  /\ Look("pair")
  /\ LET roles == subject.scenario.roles
     IN  result' = IF ~PairAccepted(subject) THEN Refused
                   ELSE [refused |-> FALSE,
                         model |-> Scores!PairScoreRow(roles, subject.predictions),
                         oracle |-> Scores!PairScoreRow(roles, Scores!OraclePredictions(roles)),
                         keepAll |->
                           Scores!PairScoreRow(roles, Scores!NoVerifierPredictions(roles))]

\* A reader that quotes one of the texts it is shown, or the query (quote 0), or
\* has too few of them and says so.
Quoted(payload, quote) ==
  CASE quote = 0 -> [action |-> "answer", answer |-> payload.query]
    [] quote \in DOMAIN payload.texts -> [action |-> "answer", answer |-> payload.texts[quote]]
    [] OTHER -> [action |-> "insufficient", answer |-> <<>>]
Expose ==
  /\ Look("exposure")
  /\ LET cs == subject.candidates
         responses == [r \in Units!Requests(cs) |->
           Quoted(Units!RequestPayload(cs, subject.queries, r[1], r[2]), subject.quote)]
     IN  result' = IF ~Units!OverlayIsAligned(cs, subject.queries) THEN Refused
                   ELSE LET scores == Units!ScoreExposurePairs(cs, responses)
                        IN  [refused |-> FALSE, scores |-> scores,
                             cells |-> [cell \in Units!Cells |->
                                          Units!CellScores(scores, cell)]]

ContractNext == SelectSetting \/ ScoreRoute \/ BuildRequests \/ ScorePair \/ Expose

\* An input, and what is made of it.
ContractSpec == result = Unseen /\ [][ContractNext]_studied

Done(kind) == Is(kind) /\ result # Unseen

-----------------------------------------------------------------------------
(* What an answer says of a candidate, found by its key.                   *)
Said(response, key) == CHOOSE i \in DOMAIN response : response[i].key = key
SaidDrops(s, setting) ==
  {at \in Filter!All(s.cases) :
     LET response == s.responses[at[1]]
     IN  Filter!Drops(response[Said(response, at[2])], setting)}
Denied(s, setting) == Cardinality(SaidDrops(s, setting) \cap Filter!Required(s.cases))
Caught(s, setting) == Cardinality(SaidDrops(s, setting) \cap Filter!Violations(s.cases))
WithinBound(s, setting) ==
  Denied(s, setting) * s.bound[2] <= s.bound[1] * Cardinality(Filter!Required(s.cases))

\* The published setting does to the calibration cases what its row claims: by what
\* the answers say of each candidate it denies no more anchors than allowed, no
\* other point of the grid that does so catches more violations, and the separate
\* count of filter_decision_metrics finds the same (select_filter_setting,
\* filter_decision_metrics, prediction_from_mapping).
SelectionIsAsMeasured ==
  Done("filter") /\ ~result.refused =>
    LET chosen == result.selected.setting
        Admits(v, u) == WithinBound(subject, [violation |-> {v}, unknown |-> u])
    IN  /\ WithinBound(subject, chosen)
        /\ \A v \in subject.violations, u \in subject.unknowns :
             Admits(v, u) =>
               /\ chosen # Filter!RetainAll
               /\ Caught(subject, [violation |-> {v}, unknown |-> u]) <= Caught(subject, chosen)
        /\ result.selected.caught = Caught(subject, chosen)
        /\ result.measured.droppedViolations = Caught(subject, chosen)
        /\ result.measured.falseDenies = Denied(subject, chosen)
        /\ result.measured.dropped = result.measured.droppedKnown + result.selected.unresolved

Risk(case, arm, target) ==
  Filter!ScoreFilteredRoute(case, Filter!RouteKeys(case, arm, <<>>, Filter!RetainAll), target)

\* Deleting what is known to be inadmissible makes no route worse unless an anchor
\* is deleted with it: the gap to the oracle, by which the published share of the
\* gap closed is divided, is not negative (route_keys, _route_metric_rows).
OracleIsNoWorse ==
  Done("route") /\ (\A i \in DOMAIN subject.case.candidates :
                      subject.case.candidates[i].required =>
                        Filter!Released(subject.case.candidates[i]) # "no") =>
    LET dense == Risk(subject.case, "namespace_dense", subject.target)
        oracle == Risk(subject.case, "released_oracle", subject.target)
    IN  /\ oracle.feasible = dense.feasible
        /\ ~Filter!Less(dense.penalized, oracle.penalized)

Texts(candidates) == [i \in DOMAIN candidates |-> candidates[i].text]
Left(at) == Routes!RouteCandidates(subject.cases[at[1]], at[2], subject.scores[at[1]],
                                   subject.threshold)

\* A prompt shows what is left and nothing of what was deleted: two arms share a
\* request, and so one answer, exactly if they leave the same texts in the same
\* order (reader_payload, build_reader_requests).
DeletionLeavesNoTrace ==
  Done("prompt") =>
    \A a, b \in DOMAIN result :
      (result[a] = result[b]) =
        (/\ subject.cases[a[1]].query = subject.cases[b[1]].query
         /\ Texts(Left(a)) = Texts(Left(b)))

\* The scores of a pair do not contradict each other: right about both queries
\* implies the right direction, even where probabilities tie; unchanged controls
\* that are right do not flip; an unknown is never right; and the oracle and the
\* keep-all baseline are where they must be (pair_score_rows, argmax).
PairsAreCoherent ==
  Done("pair") /\ ~result.refused =>
    LET row == result.model
    IN  /\ row.strict => row.direction /\ row.focalUnknown = 0
        /\ row.stableCorrect = 4 => row.overflips = 0
        /\ row.correct + row.unknown <= row.judged
        /\ row.brier = 0 => row.correct = row.judged /\ row.strict
        /\ result.oracle.brier = 0 /\ result.oracle.correct = result.oracle.judged
        /\ ~result.keepAll.direction /\ result.keepAll.overflips = 0

\* A reader that quotes what it is shown discloses a candidate exactly if it was
\* shown it and quotes its text, in no unit of another candidate and never in a
\* withheld one: the effect of an exposure is the reader's, not the texts'; and the
\* cells together count every unit (_validate_target_alignment, request_payload,
\* score_exposure_pairs, aggregate_cell_scores).
MarkersAreAttributable ==
  Done("exposure") /\ ~result.refused =>
    \A unit \in DOMAIN result.scores :
      /\ ~result.scores[unit].withheld
      /\ result.scores[unit].exposed = (subject.quote = unit[2])
      /\ Total([cell \in DOMAIN result.cells |-> result.cells[cell].units])
           = Cardinality(DOMAIN result.scores)
=============================================================================
