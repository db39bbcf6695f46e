---------------------------- MODULE RouteMetrics ----------------------------
(***************************************************************************)
(* score_route of metrics.py: the smallest prefix of a ranking that        *)
(* reaches the target recall of the usable memories, and the bounds of the *)
(* violations in it when labels are unknown.  A rate is a numerator over   *)
(* the length of the prefix.                                               *)
(***************************************************************************)
EXTENDS Admissibility, Integers, Sequences, FiniteSets, SequencesExt

CONSTANT Target      \* target recall, <<numerator, denominator>>

ASSUME MetricsAssumption == Target \in Nat \X (Nat \ {0}) /\ Target[1] <= Target[2]

\* What a recall is measured against: the memories known to be usable.
Anchors(labels) == {m \in DOMAIN labels : UsableStatus(labels[m]) = "yes"}

Hits(ranked, labels) == Cardinality(Anchors(labels) \cap ToSet(ranked))

ReachesTarget(ranked, labels) ==
  Hits(ranked, labels) * Target[2] >= Target[1] * Cardinality(Anchors(labels))

\* Without anchors there is no recall, and feasibility is unknown.
Feasible(ranked, labels) ==
  IF Anchors(labels) = {} THEN "unknown"
  ELSE IF ReachesTarget(ranked, labels) THEN "yes" ELSE "no"

WholeRanking(ranked, labels) == Len(ranked)      \* mutant of MatchedLength
FirstReaching(ranked, labels) ==
  Min({n \in 0 .. Len(ranked) : ReachesTarget(SubSeq(ranked, 1, n), labels)})
MatchedLength(ranked, labels) == FirstReaching(ranked, labels)

\* Violations known, labels known, and items, of a tuple of statuses.
Statuses(prefix, labels, Status(_)) == [i \in DOMAIN prefix |-> Status(labels[prefix[i]])]

Count(statuses, values) == Cardinality({i \in DOMAIN statuses : statuses[i] \in values})

KnownOnly(statuses) == Count(statuses, {"no"})   \* mutant of UpperCount
NoOrUnresolved(statuses) == Count(statuses, {"no", "unknown"})
LowerCount(statuses) == Count(statuses, {"no"})
UpperCount(statuses) == NoOrUnresolved(statuses)

Bounds(statuses) ==
  [lower |-> LowerCount(statuses), upper |-> UpperCount(statuses),
   known |-> Count(statuses, {"yes", "no"}), items |-> Len(statuses)]

\* The preconditions of score_route: ranked once, and labelled.
Scorable(ranked, labels) == ranked \in Seq(DOMAIN labels) /\ IsInjective(ranked)

Unscored == [feasible |-> "unknown", prefix |-> <<>>]

\* Without a matched prefix every rate is undefined.
ScoreRoute(ranked, labels) ==
  LET feasible == Feasible(ranked, labels)
      prefix == SubSeq(ranked, 1, MatchedLength(ranked, labels))
  IN  IF feasible # "yes" THEN [feasible |-> feasible, prefix |-> <<>>]
      ELSE [feasible |-> "yes", prefix |-> prefix,
            nonUsable |-> Bounds(Statuses(prefix, labels, UsableStatus)),
            inadmissible |-> Bounds(Statuses(prefix, labels, AdmissibleStatus))]

-----------------------------------------------------------------------------
\* Whatever the unknown labels turn out to be, at least lower and at most upper
\* memories of the prefix violate the rule of Status.
MayBe(a, Status(_), value) == \E b \in Resolved : Resolves(a, b) /\ Status(b) = value
CertainViolations(prefix, labels, Status(_)) ==
  {i \in DOMAIN prefix : ~MayBe(labels[prefix[i]], Status, "yes")}
PossibleViolations(prefix, labels, Status(_)) ==
  {i \in DOMAIN prefix : MayBe(labels[prefix[i]], Status, "no")}
Encloses(bounds, prefix, labels, Status(_)) ==
  /\ bounds.lower <= Cardinality(CertainViolations(prefix, labels, Status))
  /\ bounds.upper >= Cardinality(PossibleViolations(prefix, labels, Status))
=============================================================================
