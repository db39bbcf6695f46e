--------------------------- MODULE NaturalRoutes ----------------------------
(***************************************************************************)
(* natural_end_to_end.py: the arms delete candidates from one of a case's  *)
(* two frozen rankings, the prompts of what is left are bought once each,  *)
(* and a route is scored at matched recall.                                *)
(***************************************************************************)
EXTENDS Admissibility, Integers, Sequences, FiniteSets, FiniteSetsExt

\* A candidate: its memory, what a reader sees of it, and the released labels.
Admissible(c) == Conjunction({c.scope, c.policy, c.lifecycle})

RankingIsValid(candidates) ==
  /\ candidates # <<>>
  /\ \A i, j \in DOMAIN candidates : i # j => candidates[i].memory # candidates[j].memory

NaturalArms == {"global_dense", "namespace_dense", "namespace_policy_gate",
                "released_field_oracle", "namespace_text_verifier"}

\* scores is a function from the memories of the namespace ranking.
Covers(scores, case) ==
  DOMAIN scores = {case.namespace[i].memory : i \in DOMAIN case.namespace}

RouteCandidates(case, arm, scores, threshold) ==
  CASE arm = "global_dense" -> case.global
    [] arm = "namespace_dense" -> case.namespace
    [] arm = "namespace_policy_gate" ->
         SelectSeq(case.namespace, LAMBDA c : c.policy # "no")
    [] arm = "released_field_oracle" ->
         SelectSeq(case.namespace, LAMBDA c : Admissible(c) # "no")
    [] OTHER -> SelectSeq(case.namespace, LAMBDA c : scores[c.memory] < threshold)

\* Numbered by the place in the base ranking (mutant of Renumbered).
RankKept(candidates) ==
  [i \in DOMAIN candidates |-> [key |-> candidates[i].rank, text |-> candidates[i].text]]
\* A reader sees the query and the texts, numbered from the first that is left.
Renumbered(candidates) == [i \in DOMAIN candidates |-> [key |-> i, text |-> candidates[i].text]]
ReaderPayload(case, candidates) == [query |-> case.query, candidates |-> Renumbered(candidates)]

\* The prompt of every case and arm; equal prompts are one request, and the request
\* stands for its prompt.
Assignments(cases, scores, threshold) ==
  [at \in (DOMAIN cases) \X NaturalArms |->
     ReaderPayload(cases[at[1]],
                   RouteCandidates(cases[at[1]], at[2], scores[at[1]], threshold))]

-----------------------------------------------------------------------------
RequiredAmong(candidates) == Cardinality({i \in DOMAIN candidates : candidates[i].required})

WholeRoute(case, candidates, target) == Len(candidates)   \* mutant of FirstMatching
FirstMatching(case, candidates, target) ==
  IF target[1] = 0 THEN 0
  ELSE Min({n \in 1 .. Len(candidates) :
              RequiredAmong(SubSeq(candidates, 1, n)) * target[2] >= target[1] * case.anchors})

\* Exposure is counted over the route, risk over its matched prefix.
MatchedRouteScore(case, candidates, target) ==
  LET feasible == RequiredAmong(candidates) * target[2] >= target[1] * case.anchors
      length == FirstMatching(case, candidates, target)
      known == {i \in 1 .. length : Admissible(candidates[i]) # "unknown"}
      violating == {i \in 1 .. length : Admissible(candidates[i]) = "no"}
      exposure == [width |-> Len(candidates),
                   scope |-> Cardinality({i \in DOMAIN candidates : candidates[i].scope = "no"}),
                   policy |-> Cardinality({i \in DOMAIN candidates : candidates[i].policy = "no"}),
                   lifecycle |->
                     Cardinality({i \in DOMAIN candidates : candidates[i].lifecycle = "no"}),
                   unresolved |->
                     Cardinality({i \in DOMAIN candidates :
                                    Admissible(candidates[i]) = "unknown"})]
  IN  [exposure |-> exposure, feasible |-> feasible,
       prefix |-> IF feasible THEN {length} ELSE {},
       penalized |->
         CASE ~feasible -> <<1, 1>>
           [] length = 0 -> <<0, 1>>
           [] OTHER -> <<Cardinality(violating) + length - Cardinality(known), length>>,
       rate |-> CASE ~feasible -> {}
                  [] length = 0 -> {<<0, 1>>}
                  [] known = {} -> {}
                  [] OTHER -> {<<Cardinality(violating), Cardinality(known)>>}]
=============================================================================
