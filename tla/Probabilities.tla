--------------------------- MODULE Probabilities ----------------------------
(***************************************************************************)
(* The probability vectors a model answers with (ProbabilityVector of      *)
(* counterfactual_admissibility.py and inferred_admissibility.py).  A      *)
(* probability p stands for p / Unit.                                      *)
(***************************************************************************)
EXTENDS Integers, Sequences, FiniteSetsExt

CONSTANTS
  Unit,        \* probability one
  Tolerance    \* by how much a vector's sum may miss it

ProbabilityAssumption == Unit \in Nat \ {0} /\ Tolerance \in Nat

\* The labels in the order in which a vector lists them.
AdmissibilityLabels == <<"admissible", "inadmissible", "unknown">>

Mass(vector) == MapThenSumSet(LAMBDA label : vector[label], DOMAIN vector)

\* What from_mapping accepts: the labels asked for, and a sum of about one.
IsVector(vector, labels) ==
  /\ vector \in [{labels[i] : i \in DOMAIN labels} -> 0 .. Unit]
  /\ Mass(vector) \in Unit - Tolerance .. Unit + Tolerance

\* Of several most probable labels the one listed first.
ArgMax(vector, labels) ==
  labels[Min({i \in DOMAIN labels :
                \A j \in DOMAIN labels : vector[labels[j]] <= vector[labels[i]]})]

\* An answer that names the requested candidates in the order of the request,
\* each with a vector; its predictions are taken by position.
InOrder(response, n) == [i \in DOMAIN response |-> response[i].key] = [i \in 1 .. n |-> i]
IsResponse(response, n) ==
  /\ Len(response) = n /\ InOrder(response, n)
  /\ \A i \in DOMAIN response : IsVector(response[i].vector, AdmissibilityLabels)
=============================================================================
