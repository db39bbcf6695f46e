--------------------------- MODULE VerifierFilter ---------------------------
(***************************************************************************)
(* inferred_admissibility.py: a verifier's answers select, on the          *)
(* calibration cases, the thresholds above which a candidate is dropped;   *)
(* what is left of a ranking is scored by the released labels.  A          *)
(* threshold that may be None is a set of at most one value, and a rate a  *)
(* numerator and a denominator.                                            *)
(***************************************************************************)
EXTENDS Admissibility, Probabilities, Fractions, Counting

\* A candidate has a rank, its position in the case, and labels no prompt shows.
Candidates == [required : BOOLEAN, policy : Truth, lifecycle : Truth]
IsCase(case) ==
  /\ case.role \in {"calibration", "analysis"} /\ case.anchors \in Nat \ {0}
  /\ case.candidates \in Seq(Candidates) \ {<<>>}

Released(c) == Conjunction({c.policy, c.lifecycle})

Violation(p) == p.vector["inadmissible"]
Unresolved(p) == p.vector["unknown"]

RetainAll == [violation |-> {}, unknown |-> {}]

Drops(p, setting) ==
  /\ setting.violation # {}
  /\ \A v \in setting.violation : Violation(p) >= v
  /\ \A u \in setting.unknown : Unresolved(p) <= u

\* The candidates of several cases; a prediction is found by its position.
All(cases) == UNION {{c} \X DOMAIN cases[c].candidates : c \in DOMAIN cases}
Candidate(cases, at) == cases[at[1]].candidates[at[2]]
Prediction(responses, at) == responses[at[1]][at[2]]

Dropped(cases, responses, setting) ==
  {at \in All(cases) : Drops(Prediction(responses, at), setting)}
Required(cases) == {at \in All(cases) : Candidate(cases, at).required}
Known(cases) == {at \in All(cases) : Released(Candidate(cases, at)) # "unknown"}
Violations(cases) == {at \in All(cases) : Released(Candidate(cases, at)) = "no"}

\* What a selection asks of its cases, and of the grid and the bound of its protocol.
Calibrates(cases) ==
  /\ cases # <<>> /\ [c \in DOMAIN cases |-> cases[c].role] \in Seq({"calibration"})
  /\ \A c \in DOMAIN cases : IsCase(cases[c])
  /\ Required(cases) # {} /\ Violations(cases) # {}

IsGrid(violations, unknowns, bound) ==
  /\ violations # {} /\ violations \subseteq 0 .. Unit
  /\ unknowns # {} /\ \A u \in unknowns : u \subseteq 0 .. Unit /\ Cardinality(u) <= 1
  /\ bound[2] \in Nat \ {0} /\ bound[1] \in 0 .. bound[2]

\* What one point of the grid would drop.
Tried(cases, responses, setting) ==
  LET dropped == Dropped(cases, responses, setting)
  IN  [setting |-> setting,
       caught |-> Cardinality(dropped \cap Violations(cases)),
       known |-> Cardinality(dropped \cap Known(cases)),
       denied |-> Cardinality(dropped \cap Required(cases)),
       unresolved |-> Cardinality(dropped \ Known(cases))]

\* Recall, precision, false denials, the violation threshold, the other one.
Objective(t) ==
  <<<<t.caught, 1>>, IF t.known = 0 THEN <<-1, 1>> ELSE <<t.caught, t.known>>,
    <<-t.denied, 1>>, <<Max(t.setting.violation), 1>>,
    <<-(IF t.setting.unknown = {} THEN Unit ELSE Max(t.setting.unknown)), 1>>>>

Outdone(s, t) == Before(Objective(s), Objective(t))

\* No more of the required anchors are denied than the bound, a fraction, allows.
NoBound(t, cases, bound) == TRUE                 \* mutant of Preserves
Preserves(t, cases, bound) ==
  t.denied * bound[2] <= bound[1] * Cardinality(Required(cases))

SelectFilterSetting(cases, responses, violations, unknowns, bound) ==
  LET grid == {[violation |-> {v}, unknown |-> u] : v \in violations, u \in unknowns}
      feasible == {t \in {Tried(cases, responses, g) : g \in grid} :
                     Preserves(t, cases, bound)}
  IN  IF feasible = {}
      THEN [setting |-> RetainAll, caught |-> 0, known |-> 0, denied |-> 0,
            unresolved |-> 0]
      ELSE CHOOSE t \in feasible : \A s \in feasible : ~Outdone(t, s)

\* What a setting does to any cases, without tuning it.
FilterDecisionMetrics(cases, responses, setting) ==
  LET dropped == Dropped(cases, responses, setting)
      covered == {at \in All(cases) :
                    \A u \in setting.unknown : Unresolved(Prediction(responses, at)) <= u}
  IN  [candidates |-> Cardinality(All(cases)), dropped |-> Cardinality(dropped),
       known |-> Cardinality(Known(cases)), violations |-> Cardinality(Violations(cases)),
       droppedKnown |-> Cardinality(dropped \cap Known(cases)),
       droppedViolations |-> Cardinality(dropped \cap Violations(cases)),
       falseDenies |-> Cardinality(dropped \cap Required(cases)),
       required |-> Cardinality(Required(cases)), covered |-> Cardinality(covered)]

-----------------------------------------------------------------------------
(* Routes: the candidates an arm leaves, in the order of the ranking.      *)

Keys(case) == [i \in DOMAIN case.candidates |-> i]

\* The arm that infers from text alone has no threshold on the unknown.
ArmSetting(arm, setting) ==
  IF arm = "abstaining_verifier" THEN setting ELSE [setting EXCEPT !.unknown = {}]

OnlyAdmissible(c) == Released(c) = "yes"         \* mutant of OracleKeeps
OracleKeeps(c) == Released(c) # "no"

RouteKeys(case, arm, response, setting) ==
  CASE arm = "namespace_dense" -> Keys(case)
    [] arm = "released_oracle" ->
         Filtered(Keys(case), {i \in DOMAIN case.candidates : OracleKeeps(case.candidates[i])})
    [] OTHER ->
         Filtered(Keys(case), {i \in DOMAIN case.candidates :
                                 ~Drops(response[i], ArmSetting(arm, setting))})

RequiredIn(case, keys) == Cardinality({i \in DOMAIN keys : case.candidates[keys[i]].required})
Recalls(case, keys, target) == RequiredIn(case, keys) * target[2] >= target[1] * case.anchors

\* The preconditions of score_filtered_route.
KeepsRanking(case, keys) ==
  /\ keys \in Seq(DOMAIN case.candidates)
  /\ \A i, j \in DOMAIN keys : i < j => keys[i] < keys[j]

\* Without a matched prefix there are no rates, and the penalized risk is one;
\* an empty prefix, of a target of zero, has rates of zero.
ScoreFilteredRoute(case, keys, target) ==
  LET length == Min({n \in 0 .. Len(keys) : Recalls(case, SubSeq(keys, 1, n), target)})
      statuses == [i \in 1 .. length |-> Released(case.candidates[keys[i]])]
      Are(values) == Cardinality({i \in DOMAIN statuses : statuses[i] \in values})
      upper == IF length = 0 THEN <<0, 1>> ELSE <<Are({"no", "unknown"}), length>>
  IN  IF ~Recalls(case, keys, target)
      THEN [feasible |-> FALSE, prefix |-> {}, rate |-> {}, penalized |-> <<1, 1>>]
      ELSE [feasible |-> TRUE, prefix |-> {length}, penalized |-> upper,
            rate |-> IF length = 0 THEN {<<0, 1>>}
                     ELSE IF Are({"yes", "no"}) = 0 THEN {}
                     ELSE {<<Are({"no"}), Are({"yes", "no"})>>}]
=============================================================================
