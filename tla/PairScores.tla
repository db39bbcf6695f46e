----------------------------- MODULE PairScores -----------------------------
(***************************************************************************)
(* counterfactual_admissibility.py: one scenario asks pairs of queries     *)
(* about one pool of candidates; one query admits the focal candidate, the *)
(* other does not, and the two controls never change.  A query is the set  *)
(* of its tokens.  Sums of probabilities are in units of 1 / Unit, of      *)
(* their squares in units of 1 / (Unit * Unit).                            *)
(***************************************************************************)
EXTENDS Probabilities, Counting, Functions

Roles == {"focal", "stable_admissible", "stable_inadmissible"}
Conditions == {"allow", "block"}

Gold(role, condition) ==
  \/ role = "focal" /\ condition = "allow"
  \/ role = "stable_admissible"

Expected(role, condition) == IF Gold(role, condition) THEN "admissible" ELSE "inadmissible"

\* A scenario: one candidate of every role, in some order, and pairs of queries.
IsScenario(scenario) ==
  /\ scenario.roles \in [1 .. Cardinality(Roles) -> Roles] /\ Range(scenario.roles) = Roles
  /\ scenario.pairs # <<>>
  /\ \A i \in DOMAIN scenario.pairs : scenario.pairs[i].allow # scenario.pairs[i].block

\* query_token_jaccard is at least a fraction; two empty queries are alike.
AreAlike(pair, minimum) ==
  LET common == Cardinality(pair.allow \cap pair.block)
      either == Cardinality(pair.allow \cup pair.block)
  IN  either = 0 \/ common * minimum[2] >= minimum[1] * either

ContractHolds(scenario, pairs, minimum) ==
  /\ IsScenario(scenario) /\ Len(scenario.pairs) = pairs
  /\ \A i \in DOMAIN scenario.pairs : AreAlike(scenario.pairs[i], minimum)

\* Predictions: for each condition the answer about all candidates, in their order.
IsPrediction(response, roles) == IsResponse(response, Len(roles))

OraclePredictions(roles) ==
  [condition \in Conditions |-> [i \in DOMAIN roles |->
     [key |-> i, vector |-> [label \in Range(AdmissibilityLabels) |->
        IF label = Expected(roles[i], condition) THEN Unit ELSE 0]]]]

NoVerifierPredictions(roles) ==
  [condition \in Conditions |-> [i \in DOMAIN roles |->
     [key |-> i, vector |-> [label \in Range(AdmissibilityLabels) |->
        IF label = "admissible" THEN Unit ELSE 0]]]]

Verdict(prediction) == ArgMax(prediction.vector, AdmissibilityLabels)

\* The labels' distance from certainty about the expected one.
Brier(vector, expected) ==
  LET off == [label \in DOMAIN vector |-> vector[label] - (IF label = expected THEN Unit ELSE 0)]
  IN  Total([label \in DOMAIN vector |-> off[label] * off[label]])

\* What speaks for the candidate less what speaks against it.
Lean(prediction) == prediction.vector["admissible"] - prediction.vector["inadmissible"]

AllowAlone(predictions, focal) == Lean(predictions["allow"][focal])   \* mutant of Margin
\* Twice the directional margin.
Margin(predictions, focal) ==
  Lean(predictions["allow"][focal]) - Lean(predictions["block"][focal])

PairScoreRow(roles, predictions) ==
  LET focal == CHOOSE i \in DOMAIN roles : roles[i] = "focal"
      stable == DOMAIN roles \ {focal}
      judged == (DOMAIN roles) \X Conditions
      At(j) == predictions[j[2]][j[1]]
      right == {j \in judged : Verdict(At(j)) = Expected(roles[j[1]], j[2])}
  IN  [strict |-> {<<focal, c>> : c \in Conditions} \subseteq right,
       direction |-> Margin(predictions, focal) > 0,
       focalUnknown |-> Cardinality({c \in Conditions :
                                       Verdict(predictions[c][focal]) = "unknown"}),
       stableCorrect |-> Cardinality(right \cap (stable \X Conditions)),
       overflips |-> Cardinality({i \in stable : Verdict(predictions["allow"][i])
                                                   # Verdict(predictions["block"][i])}),
       correct |-> Cardinality(right), judged |-> Cardinality(judged),
       brier |-> Total([j \in judged |-> Brier(At(j).vector, Expected(roles[j[1]], j[2]))]),
       unknown |-> Cardinality({j \in judged : Verdict(At(j)) = "unknown"})]
=============================================================================
