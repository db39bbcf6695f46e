------------------------ MODULE RetrievalStudy_proofs ------------------------
(* For every source, label, ranking and draw: labels decide conservatively,  *)
(* bounds enclose what the labels leave open, and corruption is nested.      *)
EXTENDS RetrievalStudy, Counting_proofs

-----------------------------------------------------------------------------
(* Labels *)

\* A memory counts as usable only on known labels that all speak for it
\* (usable_status): nothing that is unknown is ever imputed.
THEOREM UsableIsFailClosed ==
  ASSUME NEW a \in Assessments
  PROVE  UsableStatus(a) = "yes" <=>
           /\ a.relevance \in {"required", "supportive"}
           /\ a.scope = "allowed" /\ a.policy = "yes"
           /\ \/ a.state = "current" /\ a.intent # "unknown"
              \/ a.state # "unknown" /\ a.intent = "history"
<1>. DEFINE R == RelevantStatus(a)
            S == ScopeAllowed(a.scope)
            L == LifecycleCompatible(a.state, a.intent)
<1>1. R = "yes" <=> a.relevance \in {"required", "supportive"}
  BY DEF RelevantStatus
<1>2. S = "yes" <=> a.scope = "allowed"
  BY DEF ScopeAllowed
<1>3. L = "yes" <=> \/ a.state = "current" /\ a.intent # "unknown"
                    \/ a.state # "unknown" /\ a.intent = "history"
  BY DEF LifecycleCompatible, Assessments, LifecycleStates, Intents
<1>4. AdmissibleStatus(a) = "yes" <=> S = "yes" /\ a.policy = "yes" /\ L = "yes"
  BY DEF AdmissibleStatus, Conjunction
<1>5. UsableStatus(a) = "yes" <=> R = "yes" /\ AdmissibleStatus(a) = "yes"
  BY DEF UsableStatus, Conjunction
<1>. QED
  BY <1>1, <1>2, <1>3, <1>4, <1>5

\* What is decided about a memory stays decided when its unknown labels become
\* known: admissible_status and usable_status are monotone.
LEMMA ScopeSettled ==
  ASSUME NEW a, NEW b \in Resolved, Resolves(a, b), ScopeAllowed(a.scope) # "unknown"
  PROVE  ScopeAllowed(b.scope) = ScopeAllowed(a.scope)
BY DEF Resolves, Agrees, ScopeAllowed

LEMMA LifecycleSettled ==
  ASSUME NEW a, NEW b \in Resolved, Resolves(a, b),
         LifecycleCompatible(a.state, a.intent) # "unknown"
  PROVE  LifecycleCompatible(b.state, b.intent) = LifecycleCompatible(a.state, a.intent)
BY DEF Resolves, Agrees, LifecycleCompatible

THEOREM AdmissibleIsMonotone ==
  ASSUME NEW a, NEW b \in Resolved, Resolves(a, b), AdmissibleStatus(a) # "unknown"
  PROVE  AdmissibleStatus(b) = AdmissibleStatus(a)
<1>. DEFINE L(x) == LifecycleCompatible(x.state, x.intent)
<1>1. ScopeAllowed(a.scope) # "unknown" => ScopeAllowed(b.scope) = ScopeAllowed(a.scope)
  BY ScopeSettled
<1>2. L(a) # "unknown" => L(b) = L(a)
  BY LifecycleSettled
<1>3. a.policy # "unknown" => b.policy = a.policy
  BY DEF Resolves, Agrees
<1>. HIDE DEF L
<1>4. CASE AdmissibleStatus(a) = "no"
  <2>1. "no" \in {ScopeAllowed(a.scope), a.policy, L(a)}
    BY <1>4 DEF AdmissibleStatus, Conjunction, L
  <2>2. "no" \in {ScopeAllowed(b.scope), b.policy, L(b)}
    BY <2>1, <1>1, <1>2, <1>3
  <2>. QED
    BY <1>4, <2>2 DEF AdmissibleStatus, Conjunction, L
<1>5. CASE AdmissibleStatus(a) = "yes"
  <2>1. {ScopeAllowed(a.scope), a.policy, L(a)} \subseteq {"yes"}
    BY <1>5 DEF AdmissibleStatus, Conjunction, L
  <2>2. {ScopeAllowed(b.scope), b.policy, L(b)} \subseteq {"yes"}
    BY <2>1, <1>1, <1>2, <1>3
  <2>. QED
    BY <1>5, <2>2 DEF AdmissibleStatus, Conjunction, L
<1>6. AdmissibleStatus(a) \in {"no", "yes", "unknown"}
  BY DEF AdmissibleStatus, Conjunction
<1>. QED
  BY <1>4, <1>5, <1>6

THEOREM UsableIsMonotone ==
  ASSUME NEW a, NEW b \in Resolved, Resolves(a, b), UsableStatus(a) # "unknown"
  PROVE  UsableStatus(b) = UsableStatus(a)
<1>1. RelevantStatus(a) # "unknown" => RelevantStatus(b) = RelevantStatus(a)
  BY DEF Resolves, Agrees, RelevantStatus
<1>2. AdmissibleStatus(a) # "unknown" => AdmissibleStatus(b) = AdmissibleStatus(a)
  BY AdmissibleIsMonotone
<1>. QED
  BY <1>1, <1>2 DEF UsableStatus, Conjunction

-----------------------------------------------------------------------------
(* Scores *)

\* Counting what is known, and what is not yet known, bounds every set between.
LEMMA CountsEnclose ==
  ASSUME NEW statuses, IsFiniteSet(DOMAIN statuses),
         NEW C \in SUBSET DOMAIN statuses, NEW P \in SUBSET DOMAIN statuses,
         \A i \in DOMAIN statuses : statuses[i] = "no" => i \in C,
         \A i \in P : statuses[i] \in {"no", "unknown"}
  PROVE  /\ Bounds(statuses).lower <= Cardinality(C)
         /\ Bounds(statuses).upper >= Cardinality(P)
<1>. DEFINE No == {i \in DOMAIN statuses : statuses[i] \in {"no"}}
            Unsettled == {i \in DOMAIN statuses : statuses[i] \in {"no", "unknown"}}
<1>1. No \subseteq C /\ P \subseteq Unsettled
  OBVIOUS
<1>2. IsFiniteSet(C) /\ IsFiniteSet(Unsettled)
  BY FS_Subset
<1>3. Cardinality(No) <= Cardinality(C) /\ Cardinality(P) <= Cardinality(Unsettled)
  BY <1>1, <1>2, FS_Subset
<1>4. Cardinality(P) \in Nat /\ Cardinality(Unsettled) \in Nat
  BY <1>1, <1>2, FS_Subset, FS_CardinalityType
<1>5. Bounds(statuses).lower = Cardinality(No) /\ Bounds(statuses).upper = Cardinality(Unsettled)
  BY DEF Bounds, LowerCount, UpperCount, NoOrUnresolved, Count
<1>. QED
  BY <1>3, <1>4, <1>5

\* For every prefix and every labelling (_violation_bounds over both statuses).
THEOREM BoundsEnclose ==
  ASSUME NEW labels, NEW prefix, IsFiniteSet(DOMAIN prefix)
  PROVE  /\ Encloses(Bounds(Statuses(prefix, labels, UsableStatus)),
                     prefix, labels, UsableStatus)
         /\ Encloses(Bounds(Statuses(prefix, labels, AdmissibleStatus)),
                     prefix, labels, AdmissibleStatus)
<1>1. Encloses(Bounds(Statuses(prefix, labels, UsableStatus)),
               prefix, labels, UsableStatus)
  <2>. DEFINE st == Statuses(prefix, labels, UsableStatus)
              C == CertainViolations(prefix, labels, UsableStatus)
              P == PossibleViolations(prefix, labels, UsableStatus)
  <2>1. DOMAIN st = DOMAIN prefix
        /\ \A i \in DOMAIN prefix : st[i] = UsableStatus(labels[prefix[i]])
    BY DEF Statuses
  <2>2. C \subseteq DOMAIN prefix /\ P \subseteq DOMAIN prefix
    BY DEF CertainViolations, PossibleViolations
  <2>3. \A i \in DOMAIN prefix : st[i] = "no" => i \in C
    BY <2>1, UsableIsMonotone DEF CertainViolations, MayBe
  <2>4. \A i \in P : st[i] \in {"no", "unknown"}
    <3>. SUFFICES ASSUME NEW i \in P PROVE st[i] \in {"no", "unknown"}
      OBVIOUS
    <3>1. PICK b \in Resolved :
            Resolves(labels[prefix[i]], b) /\ UsableStatus(b) = "no"
      BY DEF PossibleViolations, MayBe
    <3>2. UsableStatus(labels[prefix[i]]) \in {"no", "unknown"}
      BY <3>1, UsableIsMonotone DEF UsableStatus, Conjunction
    <3>. QED
      BY <3>2, <2>1, <2>2
  <2>. HIDE DEF st, C, P
  <2>5. Bounds(st).lower <= Cardinality(C) /\ Bounds(st).upper >= Cardinality(P)
    BY <2>1, <2>2, <2>3, <2>4, CountsEnclose
  <2>. QED
    BY <2>5 DEF Encloses, st, C, P
<1>2. Encloses(Bounds(Statuses(prefix, labels, AdmissibleStatus)),
               prefix, labels, AdmissibleStatus)
  <2>. DEFINE st == Statuses(prefix, labels, AdmissibleStatus)
              C == CertainViolations(prefix, labels, AdmissibleStatus)
              P == PossibleViolations(prefix, labels, AdmissibleStatus)
  <2>1. DOMAIN st = DOMAIN prefix
        /\ \A i \in DOMAIN prefix : st[i] = AdmissibleStatus(labels[prefix[i]])
    BY DEF Statuses
  <2>2. C \subseteq DOMAIN prefix /\ P \subseteq DOMAIN prefix
    BY DEF CertainViolations, PossibleViolations
  <2>3. \A i \in DOMAIN prefix : st[i] = "no" => i \in C
    BY <2>1, AdmissibleIsMonotone DEF CertainViolations, MayBe
  <2>4. \A i \in P : st[i] \in {"no", "unknown"}
    <3>. SUFFICES ASSUME NEW i \in P PROVE st[i] \in {"no", "unknown"}
      OBVIOUS
    <3>1. PICK b \in Resolved :
            Resolves(labels[prefix[i]], b) /\ AdmissibleStatus(b) = "no"
      BY DEF PossibleViolations, MayBe
    <3>2. AdmissibleStatus(labels[prefix[i]]) \in {"no", "unknown"}
      BY <3>1, AdmissibleIsMonotone DEF AdmissibleStatus, Conjunction
    <3>. QED
      BY <3>2, <2>1, <2>2
  <2>. HIDE DEF st, C, P
  <2>5. Bounds(st).lower <= Cardinality(C) /\ Bounds(st).upper >= Cardinality(P)
    BY <2>1, <2>2, <2>3, <2>4, CountsEnclose
  <2>. QED
    BY <2>5 DEF Encloses, st, C, P
<1>. QED
  BY <1>1, <1>2

\* A set of memories that are ranked is finite, and a longer ranking has no fewer.
LEMMA HitsGrow ==
  ASSUME NEW S, NEW ranked \in Seq(S), NEW labels, NEW d \in 0 .. Len(ranked)
  PROVE  /\ Hits(SubSeq(ranked, 1, d), labels) \in Nat /\ Hits(ranked, labels) \in Nat
         /\ Hits(SubSeq(ranked, 1, d), labels) <= Hits(ranked, labels)
<1>. DEFINE cut == SubSeq(ranked, 1, d)
            All == Anchors(labels) \cap ToSet(ranked)
            Some == Anchors(labels) \cap ToSet(cut)
<1>1. /\ cut \in Seq(S) /\ Len(cut) = d
      /\ \A i \in 1 .. d : cut[i] = ranked[i]
  OBVIOUS
<1>2. IsFiniteSet(ToSet(ranked))
  <2>1. IsFiniteSet(1 .. Len(ranked))
    BY FS_Interval
  <2>2. ToSet(ranked) = {ranked[i] : i \in 1 .. Len(ranked)}
    BY DEF ToSet
  <2>. DEFINE f == [i \in 1 .. Len(ranked) |-> ranked[i]]
  <2>3. f \in Surjection(1 .. Len(ranked), ToSet(ranked))
    BY <2>2 DEF Surjection
  <2>. QED
    BY <2>1, <2>3, FS_Surjection
<1>3. ToSet(cut) \subseteq ToSet(ranked)
  BY <1>1 DEF ToSet
<1>. HIDE DEF cut
<1>4. Some \subseteq All /\ IsFiniteSet(All)
  BY <1>2, <1>3, FS_Subset
<1>5. IsFiniteSet(Some) /\ Cardinality(Some) <= Cardinality(All)
  BY <1>4, FS_Subset
<1>6. Cardinality(Some) \in Nat /\ Cardinality(All) \in Nat
  BY <1>4, <1>5, FS_CardinalityType
<1>. QED
  BY <1>5, <1>6 DEF Hits, cut

\* Once the target is reached it stays reached further down the ranking.
LEMMA ReachedStays ==
  ASSUME NEW S, NEW ranked \in Seq(S), NEW labels, IsFiniteSet(DOMAIN labels),
         NEW d \in 0 .. Len(ranked), ReachesTarget(SubSeq(ranked, 1, d), labels)
  PROVE  ReachesTarget(ranked, labels)
<1>. DEFINE h == Hits(SubSeq(ranked, 1, d), labels)
            k == Hits(ranked, labels)
            a == Cardinality(Anchors(labels))
<1>1. h \in Nat /\ k \in Nat /\ h <= k
  BY HitsGrow
<1>2. a \in Nat
  BY FS_Subset, FS_CardinalityType DEF Anchors
<1>3. Target[1] \in Nat /\ Target[2] \in Nat
  BY MetricsAssumption
<1>4. h * Target[2] >= Target[1] * a
  BY DEF ReachesTarget
<1>. HIDE DEF h, k, a
<1>5. \A x, y, t \in Nat : x <= y => x * t <= y * t
  OBVIOUS
<1>6. h * Target[2] <= k * Target[2]
  BY <1>1, <1>3, <1>5
<1>7. /\ h * Target[2] \in Nat /\ k * Target[2] \in Nat /\ Target[1] * a \in Nat
  BY <1>1, <1>2, <1>3
<1>8. k * Target[2] >= Target[1] * a
  BY <1>4, <1>6, <1>7
<1>. QED
  BY <1>8 DEF ReachesTarget, k, a

\* The matched prefix ends at the first place that reaches the target.
LEMMA MatchedIsFirst ==
  ASSUME NEW S, NEW ranked \in Seq(S), NEW labels,
         NEW d \in 0 .. Len(ranked), ReachesTarget(SubSeq(ranked, 1, d), labels)
  PROVE  LET n == MatchedLength(ranked, labels) IN
         /\ n \in 0 .. d /\ ReachesTarget(SubSeq(ranked, 1, n), labels)
         /\ \A k \in 0 .. Len(ranked) :
              ReachesTarget(SubSeq(ranked, 1, k), labels) => n <= k
<1>. DEFINE A == {n \in 0 .. Len(ranked) : ReachesTarget(SubSeq(ranked, 1, n), labels)}
<1>1. A \in SUBSET Nat /\ d \in A
  OBVIOUS
<1>2. MatchedLength(ranked, labels) = Min(A)
  BY DEF MatchedLength, FirstReaching
<1>3. Min(A) \in A /\ \A y \in A : Min(A) <= y
  BY <1>1, MinIsMember
<1>. QED
  BY <1>1, <1>2, <1>3

\* A ranking cut where it is feasible already gives the same matched prefix, and
\* the deeper one is feasible too (what nested depths rely on).
THEOREM PrefixOutlives ==
  ASSUME NEW S, NEW ranked \in Seq(S), NEW labels, IsFiniteSet(DOMAIN labels),
         NEW d \in 0 .. Len(ranked),
         ScoreRoute(SubSeq(ranked, 1, d), labels).feasible = "yes"
  PROVE  ScoreRoute(SubSeq(ranked, 1, d), labels).prefix = ScoreRoute(ranked, labels).prefix
<1>. DEFINE cut == SubSeq(ranked, 1, d)
            m == MatchedLength(cut, labels)
            n == MatchedLength(ranked, labels)
            R(s) == ReachesTarget(s, labels)
<1>1. /\ cut \in Seq(S) /\ Len(cut) = d
      /\ \A k \in 0 .. d : SubSeq(cut, 1, k) = SubSeq(ranked, 1, k)
  OBVIOUS
<1>2. Anchors(labels) # {} /\ R(cut)
  BY DEF ScoreRoute, Feasible
<1>3. R(ranked)
  BY <1>2, ReachedStays
<1>4. /\ n \in 0 .. d /\ R(SubSeq(ranked, 1, n))
      /\ \A k \in 0 .. Len(ranked) : R(SubSeq(ranked, 1, k)) => n <= k
  BY <1>2, MatchedIsFirst
<1>5. SubSeq(cut, 1, d) = cut
  BY <1>1
<1>6. /\ m \in 0 .. d /\ R(SubSeq(cut, 1, m))
      /\ \A k \in 0 .. d : R(SubSeq(cut, 1, k)) => m <= k
  <2>. HIDE DEF cut, m, n
  <2>1. d \in Nat /\ d \in 0 .. Len(cut)
    BY <1>1
  <2>2. ReachesTarget(SubSeq(cut, 1, d), labels)
    BY <1>2, <1>5
  <2>3. /\ m \in 0 .. d /\ ReachesTarget(SubSeq(cut, 1, m), labels)
        /\ \A k \in 0 .. Len(cut) :
             ReachesTarget(SubSeq(cut, 1, k), labels) => m <= k
    BY <1>1, <2>1, <2>2, MatchedIsFirst DEF m
  <2>. QED
    BY <1>1, <2>3
<1>. HIDE DEF cut, m, n, R
<1>7. m = n
  <2>1. m <= n
    BY <1>1, <1>4, <1>6
  <2>2. n <= m
    <3>1. R(SubSeq(ranked, 1, m))
      BY <1>1, <1>6
    <3>2. m \in 0 .. Len(ranked)
      BY <1>6
    <3>. QED
      BY <1>4, <3>1, <3>2
  <2>. QED
    BY <2>1, <2>2, <1>4, <1>6
<1>8. SubSeq(cut, 1, m) = SubSeq(ranked, 1, n)
  BY <1>1, <1>6, <1>7
<1>9. ScoreRoute(cut, labels).prefix = SubSeq(cut, 1, m)
  BY <1>2 DEF ScoreRoute, Feasible, R, m
<1>10. ScoreRoute(ranked, labels).prefix = SubSeq(ranked, 1, n)
  BY <1>2, <1>3 DEF ScoreRoute, Feasible, R, n
<1>. QED
  BY <1>8, <1>9, <1>10 DEF cut

-----------------------------------------------------------------------------
(* The study *)

StudyInv ==
  /\ \E f \in DOMAIN Inputs : input \in Inputs[f]
  /\ phase = "done" => /\ Scorable(route.ranked, input.labels)
                        /\ score = ScoreRoute(route.ranked, input.labels)

LEMMA StudyInvStep ==
  ASSUME StudyInv, [Next]_vars
  PROVE  StudyInv'
<1>1. input' = input
  BY DEF Next, vars, Corrupt, RouteDirect, StartRouter, RouteClusters, Score,
         InsertFirst, InsertThreshold, InsertA5, Insert
<1>2. phase' = "done" => \/ Score
                         \/ phase = "done" /\ UNCHANGED <<route, score>>
  BY DEF Next, vars, Corrupt, RouteDirect, StartRouter, RouteClusters,
         InsertFirst, InsertThreshold, InsertA5, Insert
<1>3. phase' = "done" => /\ Scorable(route'.ranked, input'.labels)
                         /\ score' = ScoreRoute(route'.ranked, input'.labels)
  BY <1>1, <1>2 DEF StudyInv, Score
<1>. QED
  BY <1>1, <1>3 DEF StudyInv

\* The inputs stay what they are, and a final score is that of its ranking.
THEOREM StudyInvHolds == Spec => []StudyInv
<1>1. Init => StudyInv
  BY DEF Init, StudyInv
<1>2. StudyInv /\ [Next]_vars => StudyInv'
  BY StudyInvStep
<1>. QED
  BY <1>1, <1>2, PTL DEF Spec

LEMMA StudyTypes ==
  ASSUME StudyInv
  PROVE  /\ IsFiniteSet(DOMAIN input.labels)
         /\ phase = "done" => route.ranked \in Seq(DOMAIN input.labels)
<1>1. input.labels \in Seq(Assessments)
  BY StudyAssumption DEF StudyInv
<1>2. DOMAIN input.labels = 1 .. Len(input.labels) /\ Len(input.labels) \in Nat
  BY <1>1, LenProperties
<1>3. IsFiniteSet(DOMAIN input.labels)
  BY <1>2, FS_Interval
<1>. QED
  BY <1>3 DEF StudyInv, Scorable

\* The published bounds of every finished study hold, whatever is still unknown.
THEOREM BoundsHoldHolds == Spec => []BoundsHold
<1>1. StudyInv => BoundsHold
  <2>. SUFFICES ASSUME StudyInv, phase = "done", score.feasible = "yes"
                PROVE  /\ Encloses(score.nonUsable, score.prefix, input.labels,
                                   UsableStatus)
                       /\ Encloses(score.inadmissible, score.prefix, input.labels,
                                   AdmissibleStatus)
    BY DEF BoundsHold
  <2>. DEFINE ranked == route.ranked
              labels == input.labels
              n == MatchedLength(ranked, labels)
              prefix == SubSeq(ranked, 1, n)
  <2>1. ranked \in Seq(DOMAIN labels) /\ score = ScoreRoute(ranked, labels)
    BY StudyTypes DEF StudyInv
  <2>2. ReachesTarget(ranked, labels)
    BY <2>1 DEF ScoreRoute, Feasible
  <2>3. n \in 0 .. Len(ranked)
    <3>. HIDE DEF ranked, labels
    <3>1. SubSeq(ranked, 1, Len(ranked)) = ranked /\ Len(ranked) \in 0 .. Len(ranked)
      BY <2>1
    <3>. QED
      BY <2>1, <2>2, <3>1, MatchedIsFirst
  <2>4. IsFiniteSet(DOMAIN prefix)
    <3>. HIDE DEF ranked, labels, n
    <3>1. DOMAIN prefix = 1 .. n
      BY <2>1, <2>3
    <3>. QED
      BY <2>3, <3>1, FS_Interval
  <2>5. /\ score.prefix = prefix
        /\ score.nonUsable = Bounds(Statuses(prefix, labels, UsableStatus))
        /\ score.inadmissible = Bounds(Statuses(prefix, labels, AdmissibleStatus))
    BY <2>1 DEF ScoreRoute
  <2>. HIDE DEF prefix
  <2>. QED
    BY <2>4, <2>5, BoundsEnclose
<1>. QED
  BY <1>1, StudyInvHolds, PTL

\* A deeper ranking keeps the prefix that was matched before.
THEOREM PrefixOutlivesDepthHolds == Spec => []PrefixOutlivesDepth
<1>1. StudyInv => PrefixOutlivesDepth
  BY StudyTypes, PrefixOutlives DEF StudyInv, PrefixOutlivesDepth
<1>. QED
  BY <1>1, StudyInvHolds, PTL

-----------------------------------------------------------------------------
(* Corruption *)

\* What is selected at a rate is selected at every larger one, nothing at zero.
LEMMA SelectionIsNested ==
  ASSUME NEW ids, NEW draw \in Draws(ids), NEW q \in {0} \cup Queries, NEW m \in ids,
         NEW small \in Nat, NEW large \in Nat, small <= large
  PROVE  /\ Selected(draw, <<q, m>>, small) => Selected(draw, <<q, m>>, large)
         /\ ~Selected(draw, <<q, m>>, 0)
<1>1. draw.memory[<<q, m>>] \in 0 .. Grid - 1
  BY DEF Draws
<1>2. Grid \in Nat
  BY CorruptionAssumption
<1>. QED
  BY <1>1, <1>2 DEF Selected

LEMMA RecordIsNested ==
  ASSUME NEW source, NEW ids, NEW draw \in Draws(ids), NEW q \in Queries, NEW m \in ids,
         NEW channel, NEW small \in Nat, NEW large \in Nat, small <= large
  PROVE  /\ KeptFrom(CorruptNamespace(source, q, m, channel, small, draw),
                     CorruptNamespace(source, q, m, channel, large, draw),
                     CorruptNamespace(source, q, m, channel, 0, draw))
         /\ KeptFrom(CorruptState(source, q, m, channel, small, draw),
                     CorruptState(source, q, m, channel, large, draw),
                     CorruptState(source, q, m, channel, 0, draw))
         /\ KeptFrom(CorruptPolicy(source.policy[m], Selected(draw, <<q, m>>, small), channel),
                     CorruptPolicy(source.policy[m], Selected(draw, <<q, m>>, large), channel),
                     CorruptPolicy(source.policy[m], Selected(draw, <<q, m>>, 0), channel))
<1>1. /\ Selected(draw, <<q, m>>, small) => Selected(draw, <<q, m>>, large)
      /\ ~Selected(draw, <<q, m>>, 0)
  BY SelectionIsNested
<1>2. /\ Selected(draw, <<Record, m>>, small) => Selected(draw, <<Record, m>>, large)
      /\ ~Selected(draw, <<Record, m>>, 0)
  BY SelectionIsNested DEF Record
<1>3. KeptFrom(CorruptNamespace(source, q, m, channel, small, draw),
               CorruptNamespace(source, q, m, channel, large, draw),
               CorruptNamespace(source, q, m, channel, 0, draw))
  BY <1>1, <1>2 DEF KeptFrom, CorruptNamespace, SwapDraw
<1>4. KeptFrom(CorruptState(source, q, m, channel, small, draw),
               CorruptState(source, q, m, channel, large, draw),
               CorruptState(source, q, m, channel, 0, draw))
  BY <1>2 DEF KeptFrom, CorruptState
<1>5. KeptFrom(CorruptPolicy(source.policy[m], Selected(draw, <<q, m>>, small), channel),
               CorruptPolicy(source.policy[m], Selected(draw, <<q, m>>, large), channel),
               CorruptPolicy(source.policy[m], Selected(draw, <<q, m>>, 0), channel))
  BY <1>1 DEF KeptFrom, CorruptPolicy
<1>. QED
  BY <1>3, <1>4, <1>5

\* What a route sees of a source under a corruption, field by field.
LEMMA SeenFields ==
  ASSUME StudyInv, NEW q \in Queries, NEW rate
  PROVE  /\ Seen(q, rate).query.intent =
              CorruptIntent(input.source.query[q].intent,
                            input.channel = "query_intent_flip" /\ input.draw.intent[q] < rate)
         /\ \A m \in Ids(input.source) :
              /\ Seen(q, rate).memory[m].namespace =
                   CorruptNamespace(input.source, q, m, input.channel, rate, input.draw)
              /\ Seen(q, rate).memory[m].state =
                   CorruptState(input.source, q, m, input.channel, rate, input.draw)
              /\ Seen(q, rate).policy[m] =
                   CorruptPolicy(input.source.policy[m],
                                 Selected(input.draw, <<q, m>>, rate), input.channel)
<1>1. input.source \in Sources
  BY StudyAssumption DEF StudyInv
<1>. DEFINE MemoryRecords == [namespace : Nat, order : Nat, state : LifecycleStates,
                              vector : Vectors, weight : Seq(Nat)]
            QueryRecords == [namespace : Nat, intent : Intents, vector : Vectors,
                             terms : SUBSET Nat]
<1>2. /\ input.source.query[q] \in QueryRecords
      /\ \A m \in Ids(input.source) : input.source.memory[m] \in MemoryRecords
  <2>. HIDE DEF MemoryRecords, QueryRecords
  <2>1. /\ input.source.query \in [Queries -> QueryRecords]
        /\ input.source.memory \in Seq(MemoryRecords)
    BY <1>1, Zenon DEF Sources, MemoryRecords, QueryRecords
  <2>2. Ids(input.source) = 1 .. Len(input.source.memory)
    BY <2>1, LenProperties DEF Ids
  <2>. QED
    BY <2>1, <2>2, ElementOfSeq
<1>. DEFINE S == input.source
            Intent == CorruptIntent(S.query[q].intent,
                        input.channel = "query_intent_flip" /\ input.draw.intent[q] < rate)
            Namespace(m) == CorruptNamespace(S, q, m, input.channel, rate, input.draw)
            State(m) == CorruptState(S, q, m, input.channel, rate, input.draw)
            Policy(m) == CorruptPolicy(S.policy[m], Selected(input.draw, <<q, m>>, rate),
                                       input.channel)
<1>3. /\ Seen(q, rate).query = [S.query[q] EXCEPT !.intent = Intent]
      /\ Seen(q, rate).memory = [m \in Ids(S) |->
           [S.memory[m] EXCEPT !.namespace = Namespace(m), !.state = State(m)]]
      /\ Seen(q, rate).policy = [m \in Ids(S) |-> Policy(m)]
  BY DEF Seen, CorruptCase, Ids
<1>. HIDE DEF S, Intent, Namespace, State, Policy
<1>4. Seen(q, rate).query.intent = Intent
  BY <1>2, <1>3 DEF S
<1>5. ASSUME NEW m \in Ids(S)
      PROVE  /\ Seen(q, rate).memory[m].namespace = Namespace(m)
             /\ Seen(q, rate).memory[m].state = State(m)
             /\ Seen(q, rate).policy[m] = Policy(m)
  <2>1. Seen(q, rate).memory[m] =
          [S.memory[m] EXCEPT !.namespace = Namespace(m), !.state = State(m)]
    BY <1>3
  <2>2. Seen(q, rate).policy[m] = Policy(m)
    BY <1>3
  <2>. QED
    BY <1>2, <2>1, <2>2 DEF S
<1>. QED
  BY <1>4, <1>5 DEF S, Intent, Namespace, State, Policy

\* The corrupted identities of a rate are among those of every larger rate, and
\* each of them is corrupted in the same way.
THEOREM CorruptionIsNestedHolds == Spec => []CorruptionIsNested
<1>1. StudyInv => CorruptionIsNested
  <2>. SUFFICES ASSUME StudyInv, NEW rate \in 0 .. input.rate
                PROVE
         /\ KeptFrom(Seen(Query, rate).query.intent, Seen(Query, input.rate).query.intent,
                     Seen(Query, 0).query.intent)
         /\ \A m \in Ids(input.source) :
              /\ KeptFrom(Seen(Query, rate).memory[m].namespace,
                          Seen(Query, input.rate).memory[m].namespace,
                          Seen(Query, 0).memory[m].namespace)
              /\ KeptFrom(Seen(Query, rate).memory[m].state,
                          Seen(Query, input.rate).memory[m].state,
                          Seen(Query, 0).memory[m].state)
              /\ KeptFrom(Seen(Query, rate).policy[m], Seen(Query, input.rate).policy[m],
                          Seen(Query, 0).policy[m])
    BY DEF CorruptionIsNested
  <2>1. /\ Query \in Queries /\ input.rate \in Nat /\ rate \in Nat /\ rate <= input.rate
        /\ input.draw \in Draws(Ids(input.source)) /\ Grid \in Nat
    BY StudyAssumption, CorruptionAssumption DEF StudyInv
  <2>2. KeptFrom(Seen(Query, rate).query.intent, Seen(Query, input.rate).query.intent,
                 Seen(Query, 0).query.intent)
    <3>1. input.draw.intent[Query] \in 0 .. Grid - 1
      BY <2>1 DEF Draws
    <3>2. /\ input.draw.intent[Query] < rate => input.draw.intent[Query] < input.rate
          /\ ~(input.draw.intent[Query] < 0)
      BY <2>1, <3>1
    <3>. DEFINE I(r) == CorruptIntent(input.source.query[Query].intent,
                   input.channel = "query_intent_flip" /\ input.draw.intent[Query] < r)
    <3>3. KeptFrom(I(rate), I(input.rate), I(0))
      BY <3>2 DEF KeptFrom, CorruptIntent
    <3>4. \A r : Seen(Query, r).query.intent = I(r)
      BY <2>1, SeenFields
    <3>. QED
      BY <3>3, <3>4 DEF KeptFrom
  <2>3. ASSUME NEW m \in Ids(input.source)
        PROVE  /\ KeptFrom(Seen(Query, rate).memory[m].namespace,
                           Seen(Query, input.rate).memory[m].namespace,
                           Seen(Query, 0).memory[m].namespace)
               /\ KeptFrom(Seen(Query, rate).memory[m].state,
                           Seen(Query, input.rate).memory[m].state,
                           Seen(Query, 0).memory[m].state)
               /\ KeptFrom(Seen(Query, rate).policy[m], Seen(Query, input.rate).policy[m],
                           Seen(Query, 0).policy[m])
    <3>. DEFINE N(r) == CorruptNamespace(input.source, Query, m, input.channel, r, input.draw)
                T(r) == CorruptState(input.source, Query, m, input.channel, r, input.draw)
                P(r) == CorruptPolicy(input.source.policy[m],
                                      Selected(input.draw, <<Query, m>>, r), input.channel)
    <3>1. /\ KeptFrom(N(rate), N(input.rate), N(0)) /\ KeptFrom(T(rate), T(input.rate), T(0))
          /\ KeptFrom(P(rate), P(input.rate), P(0))
      BY <2>1, RecordIsNested
    <3>2. \A r : /\ Seen(Query, r).memory[m].namespace = N(r)
                 /\ Seen(Query, r).memory[m].state = T(r)
                 /\ Seen(Query, r).policy[m] = P(r)
      BY <2>1, SeenFields
    <3>. HIDE DEF N, T, P
    <3>. QED
      BY <3>1, <3>2
  <2>. QED
    BY <2>2, <2>3
<1>. QED
  BY <1>1, StudyInvHolds, PTL

\* Every query of a source sees the same corrupted records.
THEOREM RecordsAgreeHolds == Spec => []RecordsAgree
<1>1. RecordsAgree
  <2>. SUFFICES ASSUME input.channel \in RecordChannels,
                       NEW p \in Queries, NEW q \in Queries
                PROVE  Seen(p, input.rate).memory = Seen(q, input.rate).memory
    BY DEF RecordsAgree
  <2>1. ASSUME NEW m
        PROVE  CorruptNamespace(input.source, p, m, input.channel, input.rate, input.draw)
                 = CorruptNamespace(input.source, q, m, input.channel, input.rate, input.draw)
    <3>1. \A current, draw : Alternate(input.source, p, current, draw)
                               = Alternate(input.source, q, current, draw)
      BY DEF Alternate, Vocabulary
    <3>2. input.channel \notin {"namespace_false_allow", "namespace_false_deny"}
      BY DEF RecordChannels
    <3>. QED
      BY <3>1, <3>2 DEF CorruptNamespace
  <2>2. \A m : CorruptState(input.source, p, m, input.channel, input.rate, input.draw)
                = CorruptState(input.source, q, m, input.channel, input.rate, input.draw)
    BY DEF CorruptState
  <2>. QED
    BY <2>1, <2>2 DEF Seen, CorruptCase
<1>. QED
  BY <1>1, PTL DEF Spec

-----------------------------------------------------------------------------
(* Rankings *)

\* The first depth members of a finite set in the order of a ranking.
Ranked(S, higher, depth) == Cut(Arranged(S, Above(S, higher)), depth)

\* A finite set of numbers in the order of a ranking is a sequence of all of them.
LEMMA ArrangedType ==
  ASSUME NEW S \in SUBSET Nat, IsFiniteSet(S), NEW higher, IsRanking(S, higher)
  PROVE  /\ Arranged(S, Above(S, higher)) \in Seq(S)
         /\ Len(Arranged(S, Above(S, higher))) = Cardinality(S)
         /\ IsInjective(Arranged(S, Above(S, higher)))
         /\ \A x \in S : \E i \in 1 .. Cardinality(S) : Arranged(S, Above(S, higher))[i] = x
<1>. DEFINE s == Arranged(S, Above(S, higher))
<1>1. S \in SUBSET Int
  OBVIOUS
<1>2. IsOrdering(S, Above(S, higher))
  BY <1>1, TiesBroken
<1>3. s \in Bijection(1 .. Cardinality(S), S)
  BY <1>2, ArrangedPlaces
<1>4. Cardinality(S) \in Nat
  BY FS_CardinalityType
<1>. HIDE DEF s
<1>5. s \in [1 .. Cardinality(S) -> S]
  BY <1>3 DEF Bijection, Injection
<1>6. s \in Seq(S) /\ Len(s) = Cardinality(S)
  BY <1>4, <1>5
<1>7. IsInjective(s) /\ \A x \in S : \E i \in 1 .. Cardinality(S) : s[i] = x
  BY <1>3 DEF Bijection, Injection, Surjection
<1>. QED
  BY <1>6, <1>7 DEF s

\* A cut keeps the order of what it keeps.
LEMMA CutType ==
  ASSUME NEW S, NEW s \in Seq(S), IsInjective(s), NEW depth \in Nat
  PROVE  /\ Cut(s, depth) \in Seq(S) /\ IsInjective(Cut(s, depth))
         /\ Len(s) <= depth => Cut(s, depth) = s
<1>1. CASE Len(s) <= depth
  BY <1>1 DEF Cut
<1>2. CASE ~(Len(s) <= depth)
  <2>1. Cut(s, depth) = SubSeq(s, 1, depth)
    BY <1>2 DEF Cut
  <2>2. /\ SubSeq(s, 1, depth) \in Seq(S) /\ Len(SubSeq(s, 1, depth)) = depth
        /\ \A i \in 1 .. depth : SubSeq(s, 1, depth)[i] = s[i]
    BY <1>2
  <2>3. DOMAIN SubSeq(s, 1, depth) = 1 .. depth /\ 1 .. depth \subseteq DOMAIN s
    BY <1>2, <2>2, LenProperties
  <2>. QED
    BY <1>2, <2>1, <2>2, <2>3 DEF IsInjective
<1>. QED
  BY <1>1, <1>2

\* A cut ranking lists members of its set, each at most once.
LEMMA RankedType ==
  ASSUME NEW S \in SUBSET Nat, IsFiniteSet(S), NEW higher, IsRanking(S, higher),
         NEW depth \in Nat
  PROVE  Ranked(S, higher, depth) \in Seq(S) /\ IsInjective(Ranked(S, higher, depth))
<1>1. /\ Arranged(S, Above(S, higher)) \in Seq(S)
      /\ IsInjective(Arranged(S, Above(S, higher)))
  BY ArrangedType
<1>. QED
  BY <1>1, CutType DEF Ranked

\* Places in the order of their elements are the elements in their order.
LEMMA SortedIsArranged ==
  ASSUME NEW ids \in Seq(Nat), IsInjective(ids), NEW higher,
         IsRanking(ToSet(ids), higher)
  PROVE  Sorted(ids, [j \in DOMAIN ids |-> {i \in DOMAIN ids :
                        \/ ids[i] \in higher[ids[j]]
                        \/ ids[j] \notin higher[ids[i]] /\ ids[i] < ids[j]}])
           = Arranged(ToSet(ids), Above(ToSet(ids), higher))
<1>. DEFINE S == DOMAIN ids
            T == ToSet(ids)
            above == Above(T, higher)
            before == [j \in S |-> {i \in S :
                         \/ ids[i] \in higher[ids[j]]
                         \/ ids[j] \notin higher[ids[i]] /\ ids[i] < ids[j]}]
<1>1. /\ IsFiniteSet(T) /\ T \in SUBSET Nat /\ T \in SUBSET Int
      /\ ids \in Bijection(S, T)
  BY ElementsFinite
<1>2. IsFiniteSet(S)
  BY LenProperties, FS_Interval
<1>3. IsOrdering(T, above)
  BY <1>1, TiesBroken
<1>4. \A i \in S : ids[i] \in T
  BY DEF ToSet
<1>5. \A i, j \in S : i \in before[j] <=> ids[i] \in above[ids[j]]
  <2>. HIDE DEF S, T
  <2>. QED
    BY <1>4 DEF Above
<1>6. before \in [S -> SUBSET S]
  OBVIOUS
<1>. HIDE DEF before, above, S, T
<1>7. /\ \A i, j \in S : ids[i] = ids[j] => i = j
      /\ \A i \in S : ids[i] \in T
  BY <1>1, <1>4 DEF Bijection, Injection, IsInjective
<1>8. IsOrdering(S, before)
  <2>1. \A x \in T : x \notin above[x]
    BY <1>3 DEF IsOrdering
  <2>2. \A x, y, z \in T : x \in above[y] /\ y \in above[z] => x \in above[z]
    BY <1>3 DEF IsOrdering
  <2>3. \A x, y \in T : x = y \/ x \in above[y] \/ y \in above[x]
    BY <1>3 DEF IsOrdering
  <2>4. \A i \in S : i \notin before[i]
    BY <1>5, <1>7, <2>1
  <2>5. \A i, j, k \in S : i \in before[j] /\ j \in before[k] => i \in before[k]
    BY <1>5, <1>7, <2>2
  <2>6. \A i, j \in S : i = j \/ i \in before[j] \/ j \in before[i]
    BY <1>5, <1>7, <2>3
  <2>7. \A i, j \in S : j \in before[i] => before[j] \subseteq before[i]
    BY <1>6, <2>5
  <2>. QED
    BY <1>6, <2>4, <2>6, <2>7 DEF IsOrdering
<1>9. /\ Cardinality(T) = Cardinality(S)
      /\ \A i \in 1 .. Cardinality(S) : ids[Arranged(S, before)[i]] = Arranged(T, above)[i]
  BY <1>1, <1>2, <1>3, <1>5, <1>8, ArrangedAlike
<1>10. /\ DOMAIN Arranged(S, before) = 1 .. Cardinality(S)
       /\ DOMAIN Arranged(T, above) = 1 .. Cardinality(T)
  BY DEF Arranged
<1>11. Arranged(T, above) = [i \in 1 .. Cardinality(T) |-> Arranged(T, above)[i]]
  BY DEF Arranged
<1>12. Sorted(ids, before) = Arranged(T, above)
  BY <1>9, <1>10, <1>11 DEF Sorted, S
<1>. QED
  BY <1>12 DEF before, above, S, T

\* What the arms read of the memories of a set: a place in the release order, an
\* embedding, and a weight for every term.
Readable(S, memory) ==
  /\ S \in SUBSET Nat /\ IsFiniteSet(S)
  /\ \A m \in S : memory[m].order \in Nat /\ memory[m].vector \in Vectors

\* Embeddings have natural coordinates and never the zero vector (_validate_vector).
LEMMA DotType ==
  ASSUME NEW v \in Vectors, NEW w \in Vectors
  PROVE  Dot(v, w) \in Nat /\ Dot(v, v) \in Nat \ {0}
<1>1. PICK a \in Nat, b \in Nat : v = <<a, b>> /\ (a # 0 \/ b # 0)
  BY DEF Vectors
<1>2. PICK c \in Nat, d \in Nat : w = <<c, d>>
  BY DEF Vectors
<1>3. Dot(v, w) = a * c + b * d /\ Dot(v, v) = a * a + b * b
  BY <1>1, <1>2 DEF Dot
<1>4. /\ a * c \in Nat /\ b * d \in Nat /\ a * a \in Nat /\ b * b \in Nat
      /\ a # 0 => a * a # 0
      /\ b # 0 => b * b # 0
  OBVIOUS
<1>. QED
  BY <1>1, <1>3, <1>4

DenseHigher(S, memory, query) ==
  [n \in S |-> {m \in S : Dot(memory[m].vector, query.vector)
                           > Dot(memory[n].vector, query.vector)}]

\* The dense ranking depends on the set of the candidates, not on their order.
LEMMA DenseOfSet ==
  ASSUME NEW ids \in Seq(Nat), IsInjective(ids), NEW c, NEW depth,
         Readable(ToSet(ids), c.memory), c.query.vector \in Vectors
  PROVE  /\ IsRanking(ToSet(ids), DenseHigher(ToSet(ids), c.memory, c.query))
         /\ DenseRank(ids, c, depth)
              = Ranked(ToSet(ids), DenseHigher(ToSet(ids), c.memory, c.query), depth)
<1>. DEFINE S == ToSet(ids)
            points == [m \in S |-> Dot(c.memory[m].vector, c.query.vector)]
            higher == DenseHigher(S, c.memory, c.query)
            before == [j \in DOMAIN ids |-> {i \in DOMAIN ids :
                         \/ ids[i] \in higher[ids[j]]
                         \/ ids[j] \notin higher[ids[i]] /\ ids[i] < ids[j]}]
<1>1. \A m \in S : points[m] \in Int
  BY DotType DEF Readable
<1>2. higher = [n \in S |-> {m \in S : points[m] > points[n]}]
  BY DEF DenseHigher
<1>3. IsRanking(S, higher)
  <2>. HIDE DEF S, points, higher
  <2>. QED
    BY <1>1, <1>2, ScoresRank
<1>4. \A i \in DOMAIN ids : ids[i] \in S
  BY DEF ToSet
<1>5. \A i, j \in DOMAIN ids : ids[i] \in higher[ids[j]] <=>
        Dot(c.memory[ids[i]].vector, c.query.vector)
          > Dot(c.memory[ids[j]].vector, c.query.vector)
  <2>. HIDE DEF S
  <2>. QED
    BY <1>4 DEF DenseHigher
<1>6. DenseRank(ids, c, depth) = Cut(Sorted(ids, before), depth)
  <2>. HIDE DEF higher
  <2>1. [j \in DOMAIN ids |-> {i \in DOMAIN ids :
           \/ Dot(c.memory[ids[i]].vector, c.query.vector)
                > Dot(c.memory[ids[j]].vector, c.query.vector)
           \/ /\ ~(Dot(c.memory[ids[j]].vector, c.query.vector)
                     > Dot(c.memory[ids[i]].vector, c.query.vector))
              /\ ids[i] < ids[j]}] = before
    BY <1>5
  <2>. HIDE DEF before
  <2>. QED
    BY <2>1, Zenon DEF DenseRank, DenseOver, StableRanking, Tie, ById
<1>7. Sorted(ids, before) = Arranged(S, Above(S, higher))
  <2>. HIDE DEF higher
  <2>. QED
    BY <1>3, SortedIsArranged
<1>. QED
  BY <1>3, <1>6, <1>7 DEF Ranked

\* What _normalized_recency adds to the cosines, over the candidates' own orders.
RecencyScores(S, memory, query) ==
  LET orders == {memory[m].order : m \in S}
      least == CHOOSE o \in orders : \A p \in orders : o <= p
      most == CHOOSE o \in orders : \A p \in orders : o >= p
  IN  [m \in S |-> IF most = least THEN Dot(memory[m].vector, query.vector)
                   ELSE Dot(memory[m].vector, query.vector) * (most - least) * Recency[2]
                        + Recency[1] * (memory[m].order - least)]

RecencyHigher(S, memory, query) ==
  [n \in S |-> {m \in S : RecencyScores(S, memory, query)[m]
                           > RecencyScores(S, memory, query)[n]}]

\* Finitely many release orders have a least and a greatest, so the scores are integers.
LEMMA RecencyScoresType ==
  ASSUME NEW S, NEW memory, NEW query, Readable(S, memory), query.vector \in Vectors,
         NEW m \in S
  PROVE  RecencyScores(S, memory, query)[m] \in Int
<1>. DEFINE orders == {memory[n].order : n \in S}
            least == CHOOSE o \in orders : \A p \in orders : o <= p
            most == CHOOSE o \in orders : \A p \in orders : o >= p
            dot == Dot(memory[m].vector, query.vector)
<1>1. orders \in SUBSET Nat /\ orders # {} /\ IsFiniteSet(orders)
  <2>1. \A n \in S : memory[n].order \in Nat
    BY DEF Readable
  <2>. DEFINE f == [n \in S |-> memory[n].order]
  <2>2. f \in Surjection(S, orders)
    BY DEF Surjection
  <2>3. IsFiniteSet(orders)
    BY <2>2, FS_Surjection DEF Readable
  <2>. QED
    BY <2>1, <2>3
<1>2. least \in Nat
  <2>. HIDE DEF orders
  <2>1. Min(orders) \in orders /\ \A y \in orders : Min(orders) <= y
    BY <1>1, MinIsMember
  <2>. QED
    BY <1>1, <2>1
<1>3. most \in Nat
  <2>. HIDE DEF orders
  <2>1. Max(orders) \in orders /\ \A y \in orders : y <= Max(orders)
    BY <1>1, MaxIsMember
  <2>2. \A y \in orders : Max(orders) >= y
    BY <1>1, <2>1
  <2>. QED
    BY <1>1, <2>1, <2>2
<1>4. dot \in Nat /\ memory[m].order \in Nat
  BY DotType DEF Readable
<1>5. Recency[1] \in Nat /\ Recency[2] \in Nat
  BY RetrievalAssumption
<1>6. RecencyScores(S, memory, query)[m] =
        IF most = least THEN dot
        ELSE dot * (most - least) * Recency[2] + Recency[1] * (memory[m].order - least)
  BY DEF RecencyScores
<1>. HIDE DEF least, most, dot
<1>7. /\ most - least \in Int /\ memory[m].order - least \in Int
  BY <1>2, <1>3, <1>4
<1>8. dot * (most - least) * Recency[2] + Recency[1] * (memory[m].order - least) \in Int
  BY <1>4, <1>5, <1>7
<1>. QED
  BY <1>4, <1>6, <1>8

\* The ranking by recency depends on the set of the candidates only.
LEMMA RecencyOfSet ==
  ASSUME NEW ids \in Seq(Nat), IsInjective(ids), NEW c, NEW depth,
         Readable(ToSet(ids), c.memory), c.query.vector \in Vectors
  PROVE  /\ IsRanking(ToSet(ids), RecencyHigher(ToSet(ids), c.memory, c.query))
         /\ RecencyRank(ids, c, depth)
              = Ranked(ToSet(ids), RecencyHigher(ToSet(ids), c.memory, c.query), depth)
<1>. DEFINE S == ToSet(ids)
            points == RecencyScores(S, c.memory, c.query)
            higher == RecencyHigher(S, c.memory, c.query)
            before == [j \in DOMAIN ids |-> {i \in DOMAIN ids :
                         \/ ids[i] \in higher[ids[j]]
                         \/ ids[j] \notin higher[ids[i]] /\ ids[i] < ids[j]}]
            orders == {c.memory[m].order : m \in ToSet(ids)}
            least == CHOOSE o \in orders : \A p \in orders : o <= p
            most == CHOOSE o \in orders : \A p \in orders : o >= p
            Value(m) == IF most = least THEN Dot(c.memory[m].vector, c.query.vector)
              ELSE Dot(c.memory[m].vector, c.query.vector) * (most - least) * Recency[2]
                   + Recency[1] * (c.memory[m].order - least)
<1>1. \A m \in S : points[m] \in Int
  BY RecencyScoresType
<1>2. higher = [n \in S |-> {m \in S : points[m] > points[n]}]
  BY DEF RecencyHigher
<1>3. IsRanking(S, higher)
  <2>. HIDE DEF S, points, higher
  <2>. QED
    BY <1>1, <1>2, ScoresRank
<1>4. \A i \in DOMAIN ids : ids[i] \in S
  BY DEF ToSet
<1>5. \A m \in S : points[m] = Value(m)
  BY DEF RecencyScores
<1>6. RecencyRank(ids, c, depth) =
        Cut(Sorted(ids, [j \in DOMAIN ids |-> {i \in DOMAIN ids :
              \/ Value(ids[i]) > Value(ids[j])
              \/ ~(Value(ids[j]) > Value(ids[i])) /\ ids[i] < ids[j]}]), depth)
  BY Zenon DEF RecencyRank, StableRanking, Tie, ById
<1>. HIDE DEF Value, points, S
<1>7. \A i, j \in DOMAIN ids : ids[i] \in higher[ids[j]] <=> Value(ids[i]) > Value(ids[j])
  <2>. HIDE DEF higher
  <2>. QED
    BY <1>2, <1>4, <1>5
<1>8. [j \in DOMAIN ids |-> {i \in DOMAIN ids :
         \/ Value(ids[i]) > Value(ids[j])
         \/ ~(Value(ids[j]) > Value(ids[i])) /\ ids[i] < ids[j]}] = before
  <2>. HIDE DEF higher
  <2>. QED
    BY <1>7
<1>9. Sorted(ids, before) = Arranged(S, Above(S, higher))
  <2>. HIDE DEF higher
  <2>. QED
    BY <1>3, SortedIsArranged DEF S
<1>10. RecencyRank(ids, c, depth) = Ranked(S, higher, depth)
  BY <1>6, <1>8, <1>9, Zenon DEF Ranked
<1>. QED
  BY <1>3, <1>10 DEF S

-----------------------------------------------------------------------------
(* Sums of floats *)

\* A power of two is the number of sets of exponents below it, and these are more.
LEMMA PowerOfTwo ==
  ASSUME NEW e \in Nat
  PROVE  2 ^ e \in Nat \ {0} /\ e < 2 ^ e
<1>1. IsFiniteSet(1 .. e) /\ Cardinality(1 .. e) = e
  BY FS_Interval
<1>. DEFINE S == SUBSET (1 .. e)
            f == [i \in 0 .. e |-> 1 .. i]
<1>2. IsFiniteSet(S) /\ Cardinality(S) = 2 ^ Cardinality(1 .. e)
  BY <1>1, FS_SUBSET
<1>3. Cardinality(S) = 2 ^ e
  BY <1>1, <1>2, Zenon
<1>4. Cardinality(S) \in Nat
  BY <1>2, FS_CardinalityType
<1>5. f \in Injection(0 .. e, S)
  <2>1. f \in [0 .. e -> S]
    OBVIOUS
  <2>2. \A i, j \in 0 .. e : i < j => f[i] # f[j]
    <3>. SUFFICES ASSUME NEW i \in 0 .. e, NEW j \in 0 .. e, i < j
                  PROVE  f[i] # f[j]
      OBVIOUS
    <3>1. j \in f[j] /\ j \notin f[i]
      OBVIOUS
    <3>. QED
      BY <3>1
  <2>3. \A i, j \in 0 .. e : i = j \/ i < j \/ j < i
    OBVIOUS
  <2>. HIDE DEF f
  <2>. QED
    BY <2>1, <2>2, <2>3 DEF Injection, IsInjective
<1>6. Cardinality(0 .. e) <= Cardinality(S)
  <2>. HIDE DEF f, S
  <2>. QED
    BY <1>2, <1>5, FS_Injection
<1>7. Cardinality(0 .. e) = e + 1
  BY FS_Interval
<1>. HIDE DEF S
<1>. QED
  BY <1>3, <1>4, <1>6, <1>7

\* A natural number is rounded to a natural number.
LEMMA RoundedType ==
  ASSUME NEW x \in Nat
  PROVE  Rounded(x) \in Nat
<1>. DEFINE E == {e \in 0 .. x : x < 2 ^ (Precision + e)}
            Fits(e) == /\ x < 2 ^ (Precision + e)
                       /\ e > 0 => x >= 2 ^ (Precision + e - 1)
            chosen == CHOOSE e \in 0 .. x : Fits(e)
            step == 2 ^ chosen
            below == x \div step
            rest == 2 * (x % step)
<1>1. Precision \in Nat
  BY RetrievalAssumption
<1>2. \A e \in Nat : 2 ^ (Precision + e) \in Nat /\ Precision + e < 2 ^ (Precision + e)
  <2>. SUFFICES ASSUME NEW e \in Nat
                PROVE  2 ^ (Precision + e) \in Nat /\ Precision + e < 2 ^ (Precision + e)
    OBVIOUS
  <2>1. Precision + e \in Nat
    BY <1>1
  <2>. QED
    BY <2>1, PowerOfTwo
<1>3. x \in E
  <2>1. x < 2 ^ (Precision + x)
    BY <1>1, <1>2
  <2>. QED
    BY <2>1
<1>4. \E e \in 0 .. x : Fits(e)
  <2>. DEFINE e == Min(E)
  <2>1. E \in SUBSET Nat /\ E # {}
    BY <1>3
  <2>2. e \in E /\ \A y \in E : e <= y
    <3>. HIDE DEF E
    <3>. QED
      BY <2>1, MinIsMember
  <2>. HIDE DEF e
  <2>3. e > 0 => x >= 2 ^ (Precision + e - 1)
    <3>. SUFFICES ASSUME e > 0
                  PROVE  x >= 2 ^ (Precision + e - 1)
      OBVIOUS
    <3>1. e - 1 \in Nat /\ e - 1 \in 0 .. x /\ e - 1 \notin E
      BY <2>2
    <3>2. Precision + (e - 1) = Precision + e - 1
      BY <1>1, <3>1
    <3>3. ~(x < 2 ^ (Precision + (e - 1))) /\ 2 ^ (Precision + (e - 1)) \in Nat
      BY <1>2, <3>1
    <3>4. x >= 2 ^ (Precision + (e - 1))
      BY <3>3
    <3>. QED
      BY <3>2, <3>4, Zenon
  <2>. QED
    BY <2>2, <2>3
<1>5. chosen \in 0 .. x
  <2>. HIDE DEF Fits
  <2>. QED
    BY <1>4
<1>6. step \in Nat \ {0}
  <2>. HIDE DEF chosen
  <2>1. chosen \in Nat
    BY <1>5
  <2>. QED
    BY <2>1, PowerOfTwo
<1>7. below \in Nat
  <2>. HIDE DEF step
  <2>. QED
    BY <1>6
<1>8. Rounded(x) = step * (IF rest > step \/ (rest = step /\ below % 2 = 1)
                           THEN below + 1 ELSE below)
  BY Zenon DEF Rounded
<1>. HIDE DEF step, below, rest
<1>9. (IF rest > step \/ (rest = step /\ below % 2 = 1) THEN below + 1 ELSE below) \in Nat
  BY <1>7
<1>. QED
  BY <1>6, <1>8, <1>9

\* Adding natural numbers one after the other, rounding every sum.
Sum(n, w) ==
  CHOOSE f : f = [i \in 0 .. n |-> IF i = 0 THEN 0 ELSE Rounded(f[i - 1] + w[i])]

\* Such a sum exists for every number of terms: take the least length without one.
LEMMA SumType ==
  ASSUME NEW n \in Nat, NEW w \in [1 .. n -> Nat]
  PROVE  Sum(n, w)[n] \in Nat
<1>. DEFINE Adds(f, k) == /\ f \in [0 .. k -> Nat] /\ f[0] = 0
                          /\ \A i \in 1 .. k : f[i] = Rounded(f[i - 1] + w[i])
            A == {k \in 0 .. n : ~ \E f : Adds(f, k)}
            m == Min(A)
<1>1. \E f : Adds(f, n)
  <2>1. SUFFICES ASSUME ~ \E f : Adds(f, n)
                 PROVE  FALSE
    OBVIOUS
  <2>2. A \in SUBSET Nat /\ A # {}
    <3>. HIDE DEF Adds
    <3>1. n \in A
      BY <2>1
    <3>2. \A k \in 0 .. n : k \in Nat
      OBVIOUS
    <3>. QED
      BY <3>1, <3>2, Zenon
  <2>3. m \in A /\ \A y \in A : m <= y
    <3>. HIDE DEF A
    <3>. QED
      BY <2>2, MinIsMember
  <2>. HIDE DEF m
  <2>4. m # 0
    <3>1. Adds([i \in 0 .. 0 |-> 0], 0)
      OBVIOUS
    <3>. HIDE DEF Adds
    <3>. QED
      BY <2>3, <3>1
  <2>5. m \in 1 .. n /\ m - 1 \in 0 .. n /\ m - 1 \notin A
    <3>. HIDE DEF Adds
    <3>1. m \in 1 .. n /\ m - 1 \in 0 .. n /\ ~(m <= m - 1)
      BY <2>3, <2>4
    <3>. QED
      BY <2>3, <3>1
  <2>6. PICK f : Adds(f, m - 1)
    <3>. HIDE DEF Adds
    <3>. QED
      BY <2>5
  <2>. DEFINE g == [i \in 0 .. m |-> IF i = m THEN Rounded(f[m - 1] + w[m]) ELSE f[i]]
  <2>7. f[m - 1] \in Nat /\ w[m] \in Nat
    BY <2>5, <2>6
  <2>8. Rounded(f[m - 1] + w[m]) \in Nat
    <3>1. f[m - 1] + w[m] \in Nat
      BY <2>7
    <3>. QED
      BY <3>1, RoundedType
  <2>9. g \in [0 .. m -> Nat] /\ g[0] = 0
    BY <2>4, <2>5, <2>6, <2>8
  <2>10. \A i \in 1 .. m : g[i] = Rounded(g[i - 1] + w[i])
    <3>. SUFFICES ASSUME NEW i \in 1 .. m
                  PROVE  g[i] = Rounded(g[i - 1] + w[i])
      OBVIOUS
    <3>1. g[i - 1] = f[i - 1]
      BY <2>5
    <3>2. CASE i = m
      BY <2>5, <3>1, <3>2
    <3>3. CASE i # m
      <4>1. i \in 1 .. m - 1 /\ g[i] = f[i]
        BY <2>5, <3>3
      <4>. QED
        BY <2>6, <3>1, <4>1
    <3>. QED
      BY <3>2, <3>3
  <2>11. Adds(g, m)
    BY <2>9, <2>10
  <2>. HIDE DEF Adds
  <2>. QED
    BY <2>3, <2>11
<1>2. PICK f : Adds(f, n)
  BY <1>1
<1>3. f = [i \in 0 .. n |-> IF i = 0 THEN 0 ELSE Rounded(f[i - 1] + w[i])]
  <2>1. \A i \in 0 .. n : f[i] = IF i = 0 THEN 0 ELSE Rounded(f[i - 1] + w[i])
    BY <1>2
  <2>. QED
    BY <1>2, <2>1
<1>. DEFINE s == Sum(n, w)
<1>4. s = [i \in 0 .. n |-> IF i = 0 THEN 0 ELSE Rounded(s[i - 1] + w[i])]
  BY <1>3, Zenon DEF Sum
<1>. HIDE DEF s
<1>. DEFINE B == {k \in 0 .. n : s[k] \notin Nat}
<1>5. B = {}
  <2>1. SUFFICES ASSUME B # {}
                 PROVE  FALSE
    OBVIOUS
  <2>. DEFINE b == Min(B)
  <2>2. B \in SUBSET Nat
    OBVIOUS
  <2>3. b \in B /\ \A y \in B : b <= y
    <3>. HIDE DEF B
    <3>. QED
      BY <2>1, <2>2, MinIsMember
  <2>. HIDE DEF b
  <2>4. s[0] = 0
    BY <1>4
  <2>5. b \in 1 .. n
    BY <2>3, <2>4
  <2>6. b - 1 \in 0 .. n /\ b - 1 \notin B
    BY <2>3, <2>5
  <2>7. s[b] = Rounded(s[b - 1] + w[b]) /\ s[b - 1] + w[b] \in Nat
    <3>1. s[b] = Rounded(s[b - 1] + w[b])
      BY <1>4, <2>5
    <3>2. s[b - 1] \in Nat /\ w[b] \in Nat
      BY <2>5, <2>6
    <3>. QED
      BY <3>1, <3>2
  <2>8. s[b] \in Nat
    BY <2>7, RoundedType
  <2>. QED
    BY <2>3, <2>8
<1>6. s[n] \in Nat
  BY <1>5
<1>. QED
  BY <1>6 DEF s

\* The lexical score of a memory is such a sum, whatever the order of the terms.
LEMMA Bm25Type ==
  ASSUME NEW m, NEW c, NEW terms \in Seq(DOMAIN c.memory[m].weight),
         c.memory[m].weight \in Seq(Nat)
  PROVE  Bm25Score(m, c, terms) \in Nat
<1>. DEFINE n == Len(terms)
            w == [i \in 1 .. n |-> c.memory[m].weight[terms[i]]]
<1>1. n \in Nat /\ \A i \in 1 .. n : terms[i] \in DOMAIN c.memory[m].weight
  BY LenProperties, ElementOfSeq
<1>2. w \in [1 .. n -> Nat]
  <2>1. \A i \in 1 .. n : c.memory[m].weight[terms[i]] \in Nat
    BY <1>1, LenProperties, ElementOfSeq
  <2>. QED
    BY <2>1
<1>3. Bm25Score(m, c, terms) =
       (CHOOSE f : f = [i \in 0 .. n |-> IF i = 0 THEN 0
                     ELSE Rounded(f[i - 1] + c.memory[m].weight[terms[i]])])[n]
  BY Zenon DEF Bm25Score
<1>4. \A f : [i \in 0 .. n |-> IF i = 0 THEN 0
                     ELSE Rounded(f[i - 1] + c.memory[m].weight[terms[i]])]
           = [i \in 0 .. n |-> IF i = 0 THEN 0 ELSE Rounded(f[i - 1] + w[i])]
  BY <1>1
<1>. HIDE DEF w, n
<1>5. (CHOOSE f : f = [i \in 0 .. n |-> IF i = 0 THEN 0
                     ELSE Rounded(f[i - 1] + c.memory[m].weight[terms[i]])])
       = Sum(n, w)
  BY <1>4 DEF Sum
<1>6. Sum(n, w)[n] \in Nat
  BY <1>1, <1>2, SumType
<1>. QED
  BY <1>3, <1>5, <1>6

\* Every term has a weight in every memory.
Weighted(S, c, terms) ==
  \A m \in S : /\ c.memory[m].weight \in Seq(Nat)
               /\ terms \in Seq(DOMAIN c.memory[m].weight)

Bm25Higher(S, c, terms) ==
  [n \in S |-> {m \in S : Bm25Score(m, c, terms) > Bm25Score(n, c, terms)}]

\* The lexical ranking for an order of the terms depends on the set of the candidates.
LEMMA Bm25OfSet ==
  ASSUME NEW ids \in Seq(Nat), IsInjective(ids), NEW c, NEW terms, NEW depth,
         Weighted(ToSet(ids), c, terms)
  PROVE  /\ IsRanking(ToSet(ids), Bm25Higher(ToSet(ids), c, terms))
         /\ Bm25Rank(ids, c, terms, depth)
              = Ranked(ToSet(ids), Bm25Higher(ToSet(ids), c, terms), depth)
<1>. DEFINE S == ToSet(ids)
            points == [m \in S |-> Bm25Score(m, c, terms)]
            higher == Bm25Higher(S, c, terms)
            before == [j \in DOMAIN ids |-> {i \in DOMAIN ids :
                         \/ ids[i] \in higher[ids[j]]
                         \/ ids[j] \notin higher[ids[i]] /\ ids[i] < ids[j]}]
            Points(m) == Bm25Score(m, c, terms)
<1>1. \A m \in S : points[m] \in Int
  BY Bm25Type DEF Weighted
<1>2. higher = [n \in S |-> {m \in S : points[m] > points[n]}]
  BY DEF Bm25Higher
<1>3. IsRanking(S, higher)
  <2>. HIDE DEF S, points, higher
  <2>. QED
    BY <1>1, <1>2, ScoresRank
<1>4. \A i \in DOMAIN ids : ids[i] \in S
  BY DEF ToSet
<1>5. \A m \in S : points[m] = Points(m)
  OBVIOUS
<1>6. Bm25Rank(ids, c, terms, depth) =
        Cut(Sorted(ids, [j \in DOMAIN ids |-> {i \in DOMAIN ids :
              \/ Points(ids[i]) > Points(ids[j])
              \/ ~(Points(ids[j]) > Points(ids[i])) /\ ids[i] < ids[j]}]), depth)
  BY Zenon DEF Bm25Rank, StableRanking, Tie, ById
<1>. HIDE DEF Points, points, S
<1>7. \A i, j \in DOMAIN ids : ids[i] \in higher[ids[j]] <=> Points(ids[i]) > Points(ids[j])
  <2>. HIDE DEF higher
  <2>. QED
    BY <1>2, <1>4, <1>5
<1>8. [j \in DOMAIN ids |-> {i \in DOMAIN ids :
         \/ Points(ids[i]) > Points(ids[j])
         \/ ~(Points(ids[j]) > Points(ids[i])) /\ ids[i] < ids[j]}] = before
  <2>. HIDE DEF higher
  <2>. QED
    BY <1>7
<1>9. Sorted(ids, before) = Arranged(S, Above(S, higher))
  <2>. HIDE DEF higher
  <2>. QED
    BY <1>3, SortedIsArranged DEF S
<1>10. Bm25Rank(ids, c, terms, depth) = Ranked(S, higher, depth)
  BY <1>6, <1>8, <1>9, Zenon DEF Ranked
<1>. QED
  BY <1>3, <1>10 DEF S

\* The place of a memory in a ranking of the whole set.
LEMMA RankInType ==
  ASSUME NEW S \in SUBSET Nat, IsFiniteSet(S), NEW higher, IsRanking(S, higher),
         NEW m \in S
  PROVE  RankIn(Ranked(S, higher, Cardinality(S)), m) \in Nat \ {0}
<1>. DEFINE s == Arranged(S, Above(S, higher))
<1>1. /\ s \in Seq(S) /\ Len(s) = Cardinality(S) /\ IsInjective(s)
      /\ \A x \in S : \E i \in 1 .. Cardinality(S) : s[i] = x
  BY ArrangedType
<1>2. Cardinality(S) \in Nat
  BY FS_CardinalityType
<1>3. Ranked(S, higher, Cardinality(S)) = s
  <2>. HIDE DEF s
  <2>1. Cut(s, Cardinality(S)) = s
    BY <1>1, <1>2, CutType
  <2>. QED
    BY <2>1 DEF Ranked, s
<1>. HIDE DEF s
<1>4. DOMAIN s = 1 .. Cardinality(S)
  BY <1>1, LenProperties
<1>5. RankIn(s, m) \in 1 .. Cardinality(S)
  BY <1>1, <1>4 DEF RankIn
<1>. QED
  BY <1>2, <1>3, <1>5

FusedPlaces(S, c, terms) ==
  [m \in S |->
    <<RrfK + RankIn(Ranked(S, Bm25Higher(S, c, terms), Cardinality(S)), m),
      RrfK + RankIn(Ranked(S, DenseHigher(S, c.memory, c.query), Cardinality(S)), m)>>]

RrfHigher(S, c, terms) ==
  LET place == FusedPlaces(S, c, terms)
      p == [m \in S |-> place[m][1] + place[m][2]]
      q == [m \in S |-> place[m][1] * place[m][2]]
  IN  Fractional(S, p, q)

\* The fused ranking depends on the set of the candidates only.
LEMMA RrfOfSet ==
  ASSUME NEW ids \in Seq(Nat), IsInjective(ids), NEW c, NEW terms, NEW depth,
         Readable(ToSet(ids), c.memory), c.query.vector \in Vectors,
         Weighted(ToSet(ids), c, terms)
  PROVE  /\ IsRanking(ToSet(ids), RrfHigher(ToSet(ids), c, terms))
         /\ RrfRank(ids, c, terms, depth)
              = Ranked(ToSet(ids), RrfHigher(ToSet(ids), c, terms), depth)
<1>. DEFINE S == ToSet(ids)
            place == FusedPlaces(S, c, terms)
            p == [m \in S |-> place[m][1] + place[m][2]]
            q == [m \in S |-> place[m][1] * place[m][2]]
            higher == RrfHigher(S, c, terms)
            before == [j \in DOMAIN ids |-> {i \in DOMAIN ids :
                         \/ ids[i] \in higher[ids[j]]
                         \/ ids[j] \notin higher[ids[i]] /\ ids[i] < ids[j]}]
            bm25 == Bm25Rank(ids, c, terms, Len(ids))
            dense == DenseRank(ids, c, Len(ids))
            A(m) == RrfK + RankIn(bm25, m)
            B(m) == RrfK + RankIn(dense, m)
            Higher(m, n) == (A(m) + B(m)) * A(n) * B(n) > (A(n) + B(n)) * A(m) * B(m)
<1>1. S \in SUBSET Nat /\ IsFiniteSet(S) /\ Len(ids) = Cardinality(S)
  <2>1. IsFiniteSet(S) /\ S \subseteq Nat /\ ids \in Bijection(DOMAIN ids, S)
    BY ElementsFinite
  <2>2. /\ IsFiniteSet(DOMAIN ids) /\ Cardinality(DOMAIN ids) = Len(ids)
    <3>1. DOMAIN ids = 1 .. Len(ids) /\ Len(ids) \in Nat
      BY LenProperties
    <3>2. \A n \in Nat : IsFiniteSet(1 .. n) /\ Cardinality(1 .. n) = n
      BY FS_Interval
    <3>. QED
      BY <3>1, <3>2, Zenon
  <2>3. Cardinality(S) = Cardinality(DOMAIN ids)
    <3>. HIDE DEF S
    <3>. QED
      BY <2>1, <2>2, FS_Bijection DEF ExistsBijection
  <2>. QED
    BY <2>1, <2>2, <2>3
<1>2. /\ IsRanking(S, Bm25Higher(S, c, terms))
      /\ bm25 = Ranked(S, Bm25Higher(S, c, terms), Cardinality(S))
  BY <1>1, Bm25OfSet
<1>3. /\ IsRanking(S, DenseHigher(S, c.memory, c.query))
      /\ dense = Ranked(S, DenseHigher(S, c.memory, c.query), Cardinality(S))
  BY <1>1, DenseOfSet
<1>. HIDE DEF S, bm25, dense
<1>4. \A m \in S : A(m) \in Nat \ {0} /\ B(m) \in Nat \ {0}
  <2>. SUFFICES ASSUME NEW m \in S
                PROVE  A(m) \in Nat \ {0} /\ B(m) \in Nat \ {0}
    OBVIOUS
  <2>1. RankIn(bm25, m) \in Nat \ {0}
    BY <1>1, <1>2, RankInType
  <2>2. RankIn(dense, m) \in Nat \ {0}
    BY <1>1, <1>3, RankInType
  <2>. QED
    BY <2>1, <2>2, RetrievalAssumption
<1>5. \A m \in S : place[m] = <<A(m), B(m)>>
  BY <1>2, <1>3 DEF FusedPlaces
<1>6. RrfRank(ids, c, terms, depth) =
        Cut(Sorted(ids, [j \in DOMAIN ids |-> {i \in DOMAIN ids :
              \/ Higher(ids[i], ids[j])
              \/ ~Higher(ids[j], ids[i]) /\ ids[i] < ids[j]}]), depth)
  BY Zenon DEF RrfRank, StableRanking, Tie, ById, bm25, dense
<1>. HIDE DEF A, B, place
<1>7. \A m \in S : /\ p[m] = A(m) + B(m) /\ q[m] = A(m) * B(m)
                   /\ p[m] \in Int /\ q[m] \in Nat \ {0}
  <2>1. \A a, b \in Nat \ {0} : a + b \in Int /\ a * b \in Nat \ {0}
    OBVIOUS
  <2>. QED
    BY <1>4, <1>5, <2>1
<1>8. higher = Fractional(S, p, q)
  BY Zenon DEF RrfHigher, place
<1>. HIDE DEF p, q, higher
<1>9. IsRanking(S, higher)
  <2>1. \A m \in S : p[m] \in Int /\ q[m] \in Nat \ {0}
    BY <1>7
  <2>. QED
    BY <1>8, <2>1, FractionsRank, Zenon
<1>10. \A m, n \in S : m \in higher[n] <=> Higher(m, n)
  <2>. SUFFICES ASSUME NEW m \in S, NEW n \in S
                PROVE  m \in higher[n] <=> Higher(m, n)
    OBVIOUS
  <2>1. m \in higher[n] <=> (A(m) + B(m)) * (A(n) * B(n)) > (A(n) + B(n)) * (A(m) * B(m))
    BY <1>7, <1>8 DEF Fractional
  <2>2. A(m) \in Int /\ B(m) \in Int /\ A(n) \in Int /\ B(n) \in Int
    BY <1>4
  <2>3. \A i, j, k \in Int : (i + j) * k \in Int /\ i * (j * k) = (i * j) * k
    OBVIOUS
  <2>4. /\ (A(m) + B(m)) * (A(n) * B(n)) = (A(m) + B(m)) * A(n) * B(n)
        /\ (A(n) + B(n)) * (A(m) * B(m)) = (A(n) + B(n)) * A(m) * B(m)
    <3>1. A(m) + B(m) \in Int /\ A(n) + B(n) \in Int
      BY <2>2
    <3>. QED
      BY <2>2, <2>3, <3>1
  <2>. QED
    BY <2>1, <2>4
<1>11. \A i \in DOMAIN ids : ids[i] \in S
  BY DEF ToSet, S
<1>. HIDE DEF Higher
<1>12. [j \in DOMAIN ids |-> {i \in DOMAIN ids :
          \/ Higher(ids[i], ids[j])
          \/ ~Higher(ids[j], ids[i]) /\ ids[i] < ids[j]}] = before
  BY <1>10, <1>11
<1>13. Sorted(ids, before) = Arranged(S, Above(S, higher))
  BY <1>9, SortedIsArranged DEF S
<1>14. RrfRank(ids, c, terms, depth) = Ranked(S, higher, depth)
  BY <1>6, <1>12, <1>13, Zenon DEF Ranked
<1>. QED
  BY <1>9, <1>14 DEF S, higher

-----------------------------------------------------------------------------
(* Support *)

\* A sequence that lists a set.
Lists(s, S) == s \in Seq(Nat) /\ IsInjective(s) /\ ToSet(s) = S

\* Filtering a list of a set lists the part that is kept.
LEMMA FilteredLists ==
  ASSUME NEW s, NEW S, Lists(s, S), NEW K
  PROVE  Lists(Filtered(s, K), S \cap K)
BY FilteredElements DEF Lists

\* The candidates of every filter, as a set.
\* What each of the filters keeps of a set.
Local(S, c) == {m \in S : c.memory[m].namespace = c.query.namespace}
Permitted(S, c) == {m \in S : c.policy[m] # "no"}
Living(S, c) == {m \in S : c.memory[m].state \notin {"stale", "superseded"}}
Timely(S, c) == IF c.query.intent = "current_state" THEN Living(S, c) ELSE S

\* Every filter of the arms lists what it keeps.
LEMMA FiltersList ==
  ASSUME NEW s, NEW S, Lists(s, S), NEW c
  PROVE  /\ Lists(NamespaceSupport(s, c), Local(S, c))
         /\ Lists(PolicySupport(s, c), Permitted(S, c))
         /\ Lists(CurrentOnly(s, c), Living(S, c))
         /\ Lists(LifecycleSupport(s, c), Timely(S, c))
<1>1. ToSet(s) = S
  BY DEF Lists
<1>2. Lists(NamespaceSupport(s, c), Local(S, c))
  <2>1. Lists(NamespaceSupport(s, c), S \cap Local(S, c))
    BY <1>1, FilteredLists DEF NamespaceSupport, Local
  <2>2. S \cap Local(S, c) = Local(S, c)
    BY DEF Local
  <2>. QED
    BY <2>1, <2>2, Zenon
<1>3. Lists(PolicySupport(s, c), Permitted(S, c))
  <2>1. Lists(PolicySupport(s, c), S \cap Permitted(S, c))
    BY <1>1, FilteredLists DEF PolicySupport, Permitted
  <2>2. S \cap Permitted(S, c) = Permitted(S, c)
    BY DEF Permitted
  <2>. QED
    BY <2>1, <2>2, Zenon
<1>4. Lists(CurrentOnly(s, c), Living(S, c))
  <2>1. Lists(CurrentOnly(s, c), S \cap Living(S, c))
    BY <1>1, FilteredLists DEF CurrentOnly, Living
  <2>2. S \cap Living(S, c) = Living(S, c)
    BY DEF Living
  <2>. QED
    BY <2>1, <2>2, Zenon
<1>5. Lists(LifecycleSupport(s, c), Timely(S, c))
  BY <1>4 DEF LifecycleSupport, Timely
<1>. QED
  BY <1>2, <1>3, <1>4, <1>5

\* The candidates of every arm, as a set.
SupportSet(arm, c) ==
  LET all == ToSet(c.ids)
      near == Local(all, c)
  IN  CASE arm \in GlobalArms -> all
        [] arm = "query_agnostic_current_only" -> Living(near, c)
        [] arm = "namespace_policy_only" -> Permitted(near, c)
        [] arm = "namespace_lifecycle_only" -> Timely(near, c)
        [] arm = "released_intent_lifecycle_upper_bound" ->
             IF c.query.intent = "current_state"
             THEN Timely(Permitted(near, c), c) ELSE near
        [] arm = "released_governance_oracle_v2" -> Timely(Permitted(near, c), c)
        [] OTHER -> near

\* The support of an arm lists the arm's candidates, in whatever order they came.
LEMMA SupportLists ==
  ASSUME NEW c, Lists(c.ids, ToSet(c.ids)), NEW arm \in Arms
  PROVE  Lists(Support(arm, c), SupportSet(arm, c))
<1>. DEFINE all == ToSet(c.ids)
            local == NamespaceSupport(c.ids, c)
            near == Local(all, c)
<1>1. Lists(c.ids, all) /\ Lists(local, near)
  BY FiltersList
<1>. HIDE DEF all, local, near
<1>2. /\ Lists(CurrentOnly(local, c), Living(near, c))
      /\ Lists(PolicySupport(local, c), Permitted(near, c))
      /\ Lists(LifecycleSupport(local, c), Timely(near, c))
  BY <1>1, FiltersList
<1>3. Lists(CombinedSupport(local, c), Timely(Permitted(near, c), c))
  BY <1>2, FiltersList DEF CombinedSupport
<1>4. Lists(HistoricalSupport(local, c),
            IF c.query.intent = "current_state"
            THEN Timely(Permitted(near, c), c) ELSE near)
  BY <1>1, <1>3 DEF HistoricalSupport
<1>5. CASE arm \in GlobalArms
  BY <1>1, <1>5, Zenon DEF Support, SupportSet, GlobalArms, all
<1>6. CASE arm = "query_agnostic_current_only"
  BY <1>2, <1>6, Zenon DEF Support, SupportSet, GlobalArms, all, near, local
<1>7. CASE arm = "namespace_policy_only"
  BY <1>2, <1>7, Zenon DEF Support, SupportSet, GlobalArms, all, near, local
<1>8. CASE arm = "namespace_lifecycle_only"
  BY <1>2, <1>8, Zenon DEF Support, SupportSet, GlobalArms, all, near, local
<1>9. CASE arm = "released_intent_lifecycle_upper_bound"
  BY <1>4, <1>9, Zenon DEF Support, SupportSet, GlobalArms, all, near, local
<1>10. CASE arm = "released_governance_oracle_v2"
  BY <1>3, <1>10, Zenon DEF Support, SupportSet, GlobalArms, all, near, local
<1>11. CASE arm \in {"namespace_dense"} \cup RouterArms
  <2>1. /\ arm \notin GlobalArms
        /\ arm # "query_agnostic_current_only" /\ arm # "namespace_policy_only"
        /\ arm # "namespace_lifecycle_only" /\ arm # "released_intent_lifecycle_upper_bound"
        /\ arm # "released_governance_oracle_v2"
    BY <1>11 DEF GlobalArms, RouterArms
  <2>. QED
    BY <1>1, <2>1, Zenon DEF Support, SupportSet, all, near, local
<1>. QED
  BY <1>5, <1>6, <1>7, <1>8, <1>9, <1>10, <1>11 DEF Arms, SupportArms, GlobalArms

\* What a c must be for its arms to be able to rank.
WellFormed(c) ==
  /\ Lists(c.ids, ToSet(c.ids))
  /\ Readable(ToSet(c.ids), c.memory) /\ c.query.vector \in Vectors
  /\ \A terms \in TermOrders(c) : Weighted(ToSet(c.ids), c, terms)

\* The ranking of an arm without clusters, for one order of the terms.
DirectHigher(arm, S, c, terms) ==
  CASE arm = "global_bm25" -> Bm25Higher(S, c, terms)
    [] arm = "global_bm25_dense_rrf" -> RrfHigher(S, c, terms)
    [] arm = "global_recency_dense" -> RecencyHigher(S, c.memory, c.query)
    [] OTHER -> DenseHigher(S, c.memory, c.query)

\* Every arm but the four global ones sees the namespace of the query only.
LEMMA SupportSetPart ==
  ASSUME NEW c, NEW arm \in Arms
  PROVE  /\ SupportSet(arm, c) \subseteq ToSet(c.ids)
         /\ arm \notin GlobalArms => SupportSet(arm, c) \subseteq Local(ToSet(c.ids), c)
<1>. DEFINE all == ToSet(c.ids)
            near == Local(all, c)
<1>1. near \subseteq all
  BY DEF Local
<1>. HIDE DEF all, near
<1>2. /\ Living(near, c) \subseteq near /\ Permitted(near, c) \subseteq near
      /\ Timely(near, c) \subseteq near
      /\ Timely(Permitted(near, c), c) \subseteq near
  BY DEF Living, Permitted, Timely
<1>3. arm \in GlobalArms => SupportSet(arm, c) = all
  BY Zenon DEF SupportSet, all, GlobalArms
<1>4. arm \notin GlobalArms => SupportSet(arm, c) \subseteq near
  <2>. SUFFICES ASSUME arm \notin GlobalArms
                PROVE  SupportSet(arm, c) \subseteq near
    OBVIOUS
  <2>1. SupportSet(arm, c) \in
          {Living(near, c), Permitted(near, c), Timely(near, c), near,
           Timely(Permitted(near, c), c)}
    BY Zenon DEF SupportSet, near, all
  <2>. QED
    BY <1>2, <2>1
<1>. QED
  BY <1>1, <1>3, <1>4 DEF all, near

\* An arm without clusters ranks the set of its candidates.
LEMMA DirectOfSet ==
  ASSUME NEW c, WellFormed(c), NEW arm \in Arms,
         NEW terms \in TermOrders(c), NEW depth
  PROVE  /\ SupportSet(arm, c) \in SUBSET Nat /\ IsFiniteSet(SupportSet(arm, c))
         /\ IsRanking(SupportSet(arm, c),
                      DirectHigher(arm, SupportSet(arm, c), c, terms))
         /\ DirectRank(arm, c, terms, depth)
              = Ranked(SupportSet(arm, c),
                       DirectHigher(arm, SupportSet(arm, c), c, terms), depth)
<1>. DEFINE ids == Support(arm, c)
            S == SupportSet(arm, c)
<1>1. /\ ids \in Seq(Nat) /\ IsInjective(ids) /\ ToSet(ids) = S
  BY SupportLists DEF WellFormed, Lists
<1>2. S \subseteq ToSet(c.ids)
  BY SupportSetPart
<1>3. S \in SUBSET Nat /\ IsFiniteSet(S)
  <2>1. IsFiniteSet(ToSet(ids)) /\ ToSet(ids) \subseteq Nat
    BY <1>1, ElementsFinite
  <2>. QED
    BY <1>1, <2>1
<1>4. /\ Readable(ToSet(ids), c.memory) /\ c.query.vector \in Vectors
      /\ Weighted(ToSet(ids), c, terms)
  BY <1>1, <1>2, <1>3 DEF WellFormed, Readable, Weighted
<1>. HIDE DEF ids, S
<1>5. CASE arm = "global_bm25"
  <2>1. DirectHigher(arm, S, c, terms) = Bm25Higher(S, c, terms)
    BY <1>5, Zenon DEF DirectHigher
  <2>2. DirectRank(arm, c, terms, depth) = Bm25Rank(ids, c, terms, depth)
    BY <1>5, Zenon DEF DirectRank, ids
  <2>. QED
    BY <1>1, <1>3, <1>4, <2>1, <2>2, Bm25OfSet DEF S
<1>6. CASE arm = "global_bm25_dense_rrf"
  <2>1. DirectHigher(arm, S, c, terms) = RrfHigher(S, c, terms)
    BY <1>6, Zenon DEF DirectHigher
  <2>2. DirectRank(arm, c, terms, depth) = RrfRank(ids, c, terms, depth)
    BY <1>6, Zenon DEF DirectRank, ids
  <2>. QED
    BY <1>1, <1>3, <1>4, <2>1, <2>2, RrfOfSet DEF S
<1>7. CASE arm = "global_recency_dense"
  <2>1. DirectHigher(arm, S, c, terms) = RecencyHigher(S, c.memory, c.query)
    BY <1>7, Zenon DEF DirectHigher
  <2>2. DirectRank(arm, c, terms, depth) = RecencyRank(ids, c, depth)
    BY <1>7, Zenon DEF DirectRank, ids
  <2>. QED
    BY <1>1, <1>3, <1>4, <2>1, <2>2, RecencyOfSet DEF S
<1>8. CASE arm \notin {"global_bm25", "global_bm25_dense_rrf", "global_recency_dense"}
  <2>1. DirectHigher(arm, S, c, terms) = DenseHigher(S, c.memory, c.query)
    BY <1>8, Zenon DEF DirectHigher
  <2>2. DirectRank(arm, c, terms, depth) = DenseRank(ids, c, depth)
    BY <1>8, Zenon DEF DirectRank, ids
  <2>. QED
    BY <1>1, <1>3, <1>4, <2>1, <2>2, DenseOfSet DEF S
<1>. QED
  BY <1>5, <1>6, <1>7, <1>8

-----------------------------------------------------------------------------
(* Clusters *)

\* Cosines with v order the members of S, vectors that sum[k] is in the direction of.
Cosines(S, v, sum) ==
  LET p == [k \in S |-> Square(Dot(v, sum[k]))]
      q == [k \in S |-> Dot(sum[k], sum[k])]
  IN  Fractional(S, p, q)

\* Squared cosines rank: a sum of embeddings is never the zero vector.
LEMMA CosinesRank ==
  ASSUME NEW S, NEW v \in Vectors, NEW sum, \A k \in S : sum[k] \in Vectors
  PROVE  /\ IsRanking(S, Cosines(S, v, sum))
         /\ \A k, l \in S : k \in Cosines(S, v, sum)[l] <=> Closer(v, sum[k], sum[l])
<1>. DEFINE p == [k \in S |-> Square(Dot(v, sum[k]))]
            q == [k \in S |-> Dot(sum[k], sum[k])]
<1>1. \A k \in S : Dot(v, sum[k]) \in Nat /\ Dot(sum[k], sum[k]) \in Nat \ {0}
  BY DotType
<1>2. \A d \in Nat : Square(d) \in Int
  BY DEF Square
<1>3. \A k \in S : p[k] \in Int /\ q[k] \in Nat \ {0}
  BY <1>1, <1>2
<1>4. \A k, l \in S : Closer(v, sum[k], sum[l]) <=> p[k] * q[l] > p[l] * q[k]
  BY DEF Closer
<1>5. Cosines(S, v, sum) = Fractional(S, p, q)
  BY DEF Cosines
<1>. HIDE DEF p, q
<1>6. IsRanking(S, Fractional(S, p, q))
  BY <1>3, FractionsRank, Zenon
<1>7. \A k, l \in S : k \in Fractional(S, p, q)[l] <=> p[k] * q[l] > p[l] * q[k]
  BY DEF Fractional
<1>. QED
  BY <1>4, <1>5, <1>6, <1>7, Zenon

\* Of finitely many numbers in a ranking, and at least one, one comes first.
LEMMA FirstExists ==
  ASSUME NEW S \in SUBSET Nat, IsFiniteSet(S), S # {}, NEW higher, IsRanking(S, higher)
  PROVE  \E k \in S : \A l \in S : l \notin higher[k] /\ (k \notin higher[l] => k <= l)
<1>. DEFINE k == Arranged(S, Above(S, higher))[1]
<1>1. S \in SUBSET Int
  OBVIOUS
<1>2. IsOrdering(S, Above(S, higher))
  BY <1>1, TiesBroken
<1>3. Cardinality(S) \in Nat /\ Cardinality(S) # 0
  BY FS_CardinalityType, FS_EmptySet
<1>4. 1 \in 1 .. Cardinality(S)
  BY <1>3
<1>5. Cardinality(Above(S, higher)[k]) = 0
  BY <1>2, <1>4, ArrangedPlaces
<1>6. k \in S
  <2>1. Arranged(S, Above(S, higher)) \in Bijection(1 .. Cardinality(S), S)
    BY <1>2, ArrangedPlaces
  <2>2. Arranged(S, Above(S, higher)) \in [1 .. Cardinality(S) -> S]
    BY <2>1, Zenon DEF Bijection, Injection
  <2>. QED
    BY <1>4, <2>2
<1>. HIDE DEF k
<1>7. Above(S, higher)[k] = {}
  <2>1. Above(S, higher)[k] \in SUBSET S
    BY <1>2, <1>6 DEF IsOrdering
  <2>2. IsFiniteSet(Above(S, higher)[k])
    BY <2>1, FS_Subset
  <2>. QED
    BY <1>5, <2>2, FS_EmptySet
<1>8. \A l \in S : ~(l \in higher[k] \/ (k \notin higher[l] /\ l < k))
  BY <1>6, <1>7 DEF Above
<1>9. \A l \in S : ~(l < k) => k <= l
  <2>. SUFFICES ASSUME NEW l \in S, ~(l < k)
                PROVE  k <= l
    OBVIOUS
  <2>1. k \in Nat /\ l \in Nat
    BY <1>6
  <2>. QED
    BY <2>1
<1>. QED
  BY <1>6, <1>8, <1>9

\* The directions of the clusters.
Sums(cs) == [k \in DOMAIN cs |-> cs[k].sum]

\* The places of the clusters are finitely many natural numbers.
LEMMA ClustersCount ==
  ASSUME NEW C, NEW cs \in Seq(C)
  PROVE  DOMAIN cs \in SUBSET Nat /\ IsFiniteSet(DOMAIN cs)
<1>1. DOMAIN cs = 1 .. Len(cs) /\ Len(cs) \in Nat
  BY LenProperties
<1>2. IsFiniteSet(DOMAIN cs)
  BY LenProperties, FS_Interval
<1>. QED
  BY <1>1, <1>2

\* The closest of some clusters is one of them.
LEMMA ClosestIsCluster ==
  ASSUME NEW C, NEW cs \in Seq(C), cs # <<>>,
         \A k \in DOMAIN cs : cs[k].sum \in Vectors, NEW v \in Vectors
  PROVE  Closest(cs, v) \in DOMAIN cs
<1>. DEFINE S == DOMAIN cs
            sum == Sums(cs)
            higher == Cosines(S, v, sum)
<1>1. S \in SUBSET Nat /\ IsFiniteSet(S)
  BY ClustersCount
<1>2. S # {}
  <2>1. S = 1 .. Len(cs) /\ Len(cs) \in Nat /\ (Len(cs) = 0 => cs = <<>>)
    BY LenProperties, EmptySeq
  <2>. QED
    BY <2>1
<1>3. \A k \in S : sum[k] = cs[k].sum /\ sum[k] \in Vectors
  BY DEF Sums
<1>. HIDE DEF S, sum
<1>4. /\ IsRanking(S, higher)
      /\ \A k, l \in S : k \in higher[l] <=> Closer(v, sum[k], sum[l])
  BY <1>3, CosinesRank
<1>. HIDE DEF higher
<1>5. PICK k \in S : \A l \in S : l \notin higher[k] /\ (k \notin higher[l] => k <= l)
  BY <1>1, <1>2, <1>4, FirstExists
<1>6. \A l \in S : /\ ~Closer(v, cs[l].sum, cs[k].sum)
                   /\ ~Closer(v, cs[k].sum, cs[l].sum) => k <= l
  BY <1>3, <1>4, <1>5
<1>. QED
  BY <1>6, Zenon DEF Closest, S

\* A router selects clusters.
LEMMA SelectionType ==
  ASSUME NEW C, clusters \in Seq(C),
         \A k \in DOMAIN clusters : clusters[k].sum \in Vectors,
         case.query.vector \in Vectors, NEW selected \in Selections
  PROVE  selected \subseteq DOMAIN clusters
<1>1. CASE input.arm = "threshold_router"
  <2>. DEFINE v == case.query.vector
              S == {k \in DOMAIN clusters : Reaches(v, clusters[k].sum)}
              sum == Sums(clusters)
              higher == Cosines(S, v, sum)
              before == [l \in S |-> {k \in S :
                           \/ Closer(v, clusters[k].sum, clusters[l].sum)
                           \/ ~Closer(v, clusters[l].sum, clusters[k].sum) /\ k < l}]
  <2>1. selected = ToSet(Cut(Arranged(S, before), TopL))
    BY <1>1, Zenon DEF Selections, ThresholdSelection
  <2>2. S \subseteq DOMAIN clusters
    OBVIOUS
  <2>. HIDE DEF v, S
  <2>3. S \in SUBSET Nat /\ IsFiniteSet(S)
    BY <2>2, ClustersCount, FS_Subset
  <2>4. \A k \in S : sum[k] = clusters[k].sum /\ sum[k] \in Vectors
    BY <2>2 DEF Sums
  <2>. HIDE DEF sum
  <2>5. /\ IsRanking(S, higher)
        /\ \A k, l \in S : k \in higher[l] <=> Closer(v, sum[k], sum[l])
    BY <2>4, CosinesRank DEF v
  <2>. HIDE DEF higher
  <2>6. before = Above(S, higher)
    BY <2>4, <2>5 DEF Above
  <2>. HIDE DEF before
  <2>7. TopL \in Nat
    BY RetrievalAssumption
  <2>8. Cut(Arranged(S, before), TopL) \in Seq(S)
    BY <2>3, <2>5, <2>6, <2>7, RankedType DEF Ranked
  <2>9. selected \subseteq S
    BY <2>1, <2>8, ElementsFinite
  <2>. QED
    BY <2>2, <2>9
<1>2. CASE input.arm # "threshold_router"
  BY <1>2 DEF Selections, A5Selections
<1>. QED
  BY <1>1, <1>2

-----------------------------------------------------------------------------
(* Insertion *)

Older(S, memory) ==
  [n \in S |-> {m \in S : 0 - memory[m].order > 0 - memory[n].order}]

\* The order of insertion depends on the set of the candidates only.
LEMMA InsertionOfSet ==
  ASSUME NEW c, NEW S, NEW ids, Lists(ids, S), Readable(S, c.memory)
  PROVE  /\ IsRanking(S, Older(S, c.memory))
         /\ OrderedForInsertion(ids, c) = Arranged(S, Above(S, Older(S, c.memory)))
<1>. DEFINE points == [m \in S |-> 0 - c.memory[m].order]
            higher == Older(S, c.memory)
            before == [j \in DOMAIN ids |-> {i \in DOMAIN ids :
                         \/ ids[i] \in higher[ids[j]]
                         \/ ids[j] \notin higher[ids[i]] /\ ids[i] < ids[j]}]
<1>1. \A m \in S : c.memory[m].order \in Nat /\ points[m] \in Int
  BY DEF Readable
<1>2. higher = [n \in S |-> {m \in S : points[m] > points[n]}]
  BY DEF Older
<1>3. IsRanking(S, higher)
  <2>. HIDE DEF points, higher
  <2>. QED
    BY <1>1, <1>2, ScoresRank
<1>4. ids \in Seq(Nat) /\ IsInjective(ids) /\ ToSet(ids) = S
  BY DEF Lists
<1>5. \A i \in DOMAIN ids : ids[i] \in S
  BY <1>4 DEF ToSet
<1>6. \A m, n \in S : Earlier(c, m, n) <=>
        m \in higher[n] \/ (n \notin higher[m] /\ m < n)
  <2>. SUFFICES ASSUME NEW m \in S, NEW n \in S
                PROVE  Earlier(c, m, n) <=> m \in higher[n] \/ (n \notin higher[m] /\ m < n)
    OBVIOUS
  <2>1. /\ m \in higher[n] <=> c.memory[m].order < c.memory[n].order
        /\ n \in higher[m] <=> c.memory[n].order < c.memory[m].order
    BY <1>1, <1>2
  <2>. HIDE DEF higher
  <2>. QED
    BY <1>1, <2>1 DEF Earlier
<1>. HIDE DEF higher
<1>7. [j \in DOMAIN ids |-> {i \in DOMAIN ids : Earlier(c, ids[i], ids[j])}] = before
  BY <1>5, <1>6
<1>8. Sorted(ids, before) = Arranged(S, Above(S, higher))
  BY <1>3, <1>4, SortedIsArranged
<1>9. OrderedForInsertion(ids, c) = Arranged(S, Above(S, higher))
  BY <1>7, <1>8, Zenon DEF OrderedForInsertion
<1>. QED
  BY <1>3, <1>9 DEF higher

-----------------------------------------------------------------------------
(* The route *)

\* The memories a route sees in the namespace of its query.
Near == Local(ToSet(case.ids), case)

\* The case is corrupted once, and nothing else is there before its time.
ProgressInv ==
  /\ phase \in {"corrupt", "route", "insert", "score", "done"}
  /\ case = Seen(Query, IF phase = "corrupt" THEN 0 ELSE input.rate)
  /\ phase \in {"corrupt", "route"} => waiting = <<>> /\ clusters = <<>>
  /\ phase \in {"corrupt", "route", "insert"} => route = NoRoute
  /\ phase # "done" => score = Unscored

\* Every memory of the namespace waits, or is in one cluster; a cluster has a
\* direction, and nothing is inserted before the first cluster is opened.
InsertionInv ==
  /\ waiting \in Seq(Near) /\ IsInjective(waiting)
  /\ clusters \in Seq([members : SUBSET Near, sum : Vectors])
  /\ \A k \in DOMAIN clusters : ToSet(waiting) \cap clusters[k].members = {}
  /\ \A k, l \in DOMAIN clusters :
       k # l => clusters[k].members \cap clusters[l].members = {}
  /\ phase = "insert" =>
       /\ input.arm \in RouterArms
       /\ Clustered(DOMAIN clusters) \cup ToSet(waiting) = Near
       /\ clusters = <<>> =>
            waiting = OrderedForInsertion(Support(input.arm, case), case)

\* A ranking lists candidates, and these are what the arm may see.
RankedInv ==
  Routed =>
    /\ route.ranked \in Seq(route.candidates) /\ IsInjective(route.ranked)
    /\ route.candidates \subseteq ToSet(case.ids)
    /\ input.arm \notin GlobalArms => route.candidates \subseteq Near
    /\ input.arm \notin RouterArms => route.candidates = SupportSet(input.arm, case)

RouteInv == StudyInv /\ ProgressInv /\ InsertionInv /\ RankedInv

\* What a route sees is well-formed, as its source is.
LEMMA SeenIsWellFormed ==
  ASSUME StudyInv, NEW rate, case = Seen(Query, rate)
  PROVE  /\ WellFormed(case) /\ ToSet(case.ids) = Ids(input.source)
         /\ Ids(case) = Ids(input.source) /\ DOMAIN input.labels = Ids(case)
         /\ input.labels \in Seq(Assessments) /\ input.arm \in Arms
         /\ case.query.intent \in Intents
         /\ \A m \in Ids(case) :
              case.memory[m].state \in LifecycleStates /\ case.policy[m] \in Truth
<1>. DEFINE S == input.source
            MemoryRecords == [namespace : Nat, order : Nat, state : LifecycleStates,
                              vector : Vectors, weight : Seq(Nat)]
            QueryRecords == [namespace : Nat, intent : Intents, vector : Vectors,
                             terms : SUBSET Nat]
<1>1. PICK f \in DOMAIN Inputs : input \in Inputs[f]
  BY DEF StudyInv
<1>2. /\ S \in Sources /\ input.labels \in Seq(Assessments) /\ input.arm \in Arms
      /\ ToSet(S.ids) = Ids(S) /\ IsInjective(S.ids)
      /\ \A m \in Ids(S) : \A q \in Queries : S.query[q].terms \subseteq DOMAIN S.memory[m].weight
      /\ DOMAIN input.labels = Ids(S) /\ DOMAIN S.policy = Ids(S) /\ Query \in Queries
  BY <1>1, StudyAssumption
<1>3. /\ S.query \in [Queries -> QueryRecords] /\ S.memory \in Seq(MemoryRecords)
      /\ S.policy \in Seq(Truth) /\ S.ids \in Seq(Nat)
  <2>. HIDE DEF S, MemoryRecords, QueryRecords
  <2>. QED
    BY <1>2, Zenon DEF Sources, MemoryRecords, QueryRecords
<1>4. /\ Ids(S) = 1 .. Len(S.memory)
      /\ \A m \in Ids(S) : S.memory[m] \in MemoryRecords /\ S.policy[m] \in Truth
  <2>. HIDE DEF MemoryRecords, S
  <2>1. Ids(S) = 1 .. Len(S.memory) /\ Len(S.memory) \in Nat
    BY <1>3, LenProperties DEF Ids
  <2>2. Ids(S) = 1 .. Len(S.policy)
    BY <1>2, <1>3, LenProperties
  <2>. QED
    BY <1>3, <2>1, <2>2, ElementOfSeq
<1>5. S.query[Query] \in QueryRecords
  <2>. HIDE DEF QueryRecords
  <2>. QED
    BY <1>2, <1>3
<1>. DEFINE Intent == CorruptIntent(S.query[Query].intent,
                        input.channel = "query_intent_flip" /\ input.draw.intent[Query] < rate)
            Namespace(m) == CorruptNamespace(S, Query, m, input.channel, rate, input.draw)
            State(m) == CorruptState(S, Query, m, input.channel, rate, input.draw)
            Policy(m) == CorruptPolicy(S.policy[m], Selected(input.draw, <<Query, m>>, rate),
                                       input.channel)
<1>6. /\ case.ids = S.ids
      /\ case.query = [S.query[Query] EXCEPT !.intent = Intent]
      /\ case.memory = [m \in Ids(S) |->
           [S.memory[m] EXCEPT !.namespace = Namespace(m), !.state = State(m)]]
      /\ case.policy = [m \in Ids(S) |-> Policy(m)]
  BY DEF Seen, CorruptCase, Ids
<1>7. Intent \in Intents
  <2>1. S.query[Query].intent \in Intents
    BY <1>5
  <2>. QED
    BY <2>1 DEF CorruptIntent, Intents
<1>8. \A m \in Ids(S) : State(m) \in LifecycleStates /\ Policy(m) \in Truth
  <2>. SUFFICES ASSUME NEW m \in Ids(S)
                PROVE  State(m) \in LifecycleStates /\ Policy(m) \in Truth
    OBVIOUS
  <2>1. S.memory[m].state \in LifecycleStates /\ S.policy[m] \in Truth
    BY <1>4
  <2>2. State(m) \in {S.memory[m].state, "current", "stale", "unknown"}
    BY Zenon DEF CorruptState
  <2>3. Policy(m) \in {S.policy[m], "yes", "no", "unknown"}
    BY Zenon DEF CorruptPolicy
  <2>. QED
    BY <2>1, <2>2, <2>3 DEF LifecycleStates, Truth
<1>. HIDE DEF S, Intent, Namespace, State, Policy
<1>9. /\ case.query.intent \in Intents
      /\ case.query.vector \in Vectors /\ case.query.terms = S.query[Query].terms
  <2>. HIDE DEF Vectors
  <2>1. /\ S.query[Query] = [namespace |-> S.query[Query].namespace,
                             intent |-> S.query[Query].intent,
                             vector |-> S.query[Query].vector,
                             terms |-> S.query[Query].terms]
        /\ S.query[Query].vector \in Vectors
    BY <1>5
  <2>2. case.query = [namespace |-> S.query[Query].namespace, intent |-> Intent,
                      vector |-> S.query[Query].vector, terms |-> S.query[Query].terms]
    BY <1>6, <2>1
  <2>. QED
    BY <1>7, <2>1, <2>2
<1>10. ASSUME NEW m \in Ids(S)
       PROVE  /\ case.memory[m].state = State(m) /\ case.memory[m].order \in Nat
              /\ case.memory[m].vector \in Vectors
              /\ case.memory[m].weight = S.memory[m].weight
              /\ case.memory[m].weight \in Seq(Nat)
              /\ case.policy[m] = Policy(m)
  <2>1. S.memory[m] \in MemoryRecords
    BY <1>4
  <2>2. case.memory[m] = [S.memory[m] EXCEPT !.namespace = Namespace(m), !.state = State(m)]
    BY <1>6
  <2>3. case.policy[m] = Policy(m)
    BY <1>6
  <2>. QED
    BY <2>1, <2>2, <2>3
<1>11. Ids(case) = Ids(S)
  BY <1>6 DEF Ids
<1>12. Lists(case.ids, ToSet(case.ids)) /\ ToSet(case.ids) = Ids(S)
  BY <1>2, <1>3, <1>6 DEF Lists
<1>13. Readable(ToSet(case.ids), case.memory)
  BY <1>3, <1>6, <1>10, <1>12, ElementsFinite DEF Readable
<1>14. ASSUME NEW terms \in TermOrders(case)
       PROVE  Weighted(ToSet(case.ids), case, terms)
  <2>. SUFFICES ASSUME NEW m \in Ids(S)
                PROVE  terms \in Seq(DOMAIN case.memory[m].weight)
    BY <1>10, <1>12 DEF Weighted
  <2>. DEFINE T == case.query.terms
              D == DOMAIN case.memory[m].weight
  <2>1. T \in SUBSET D
    BY <1>2, <1>9, <1>10
  <2>2. IsFiniteSet(D)
    BY <1>10, LenProperties, FS_Interval
  <2>3. IsFiniteSet(T) /\ Cardinality(T) \in Nat
    <3>. HIDE DEF T, D
    <3>. QED
      BY <2>1, <2>2, FS_Subset, FS_CardinalityType
  <2>4. terms \in [1 .. Cardinality(T) -> T]
    BY DEF TermOrders, SetToSeqs
  <2>. HIDE DEF T, D
  <2>5. terms \in Seq(D)
    <3>1. terms \in [1 .. Cardinality(T) -> D]
      BY <2>1, <2>4
    <3>. QED
      BY <2>3, <3>1
  <2>. QED
    BY <2>5 DEF D
<1>15. WellFormed(case)
  BY <1>9, <1>12, <1>13, <1>14 DEF WellFormed
<1>16. \A m \in Ids(S) : case.memory[m].state \in LifecycleStates /\ case.policy[m] \in Truth
  BY <1>8, <1>10
<1>. QED
  BY <1>2, <1>9, <1>11, <1>12, <1>15, <1>16 DEF S

\* What the invariant says of the case, for every step that ranks or inserts.
LEMMA CaseFacts ==
  ASSUME RouteInv
  PROVE  /\ WellFormed(case) /\ ToSet(case.ids) = Ids(case)
         /\ Lists(case.ids, ToSet(case.ids)) /\ Near \subseteq ToSet(case.ids)
         /\ Ids(case) \in SUBSET Nat /\ IsFiniteSet(Ids(case))
         /\ Readable(Near, case.memory) /\ case.query.vector \in Vectors
         /\ input.arm \in Arms
<1>1. StudyInv /\ case = Seen(Query, IF phase = "corrupt" THEN 0 ELSE input.rate)
  BY DEF RouteInv, ProgressInv
<1>2. /\ WellFormed(case) /\ ToSet(case.ids) = Ids(input.source)
      /\ Ids(case) = Ids(input.source) /\ input.arm \in Arms
  BY <1>1, SeenIsWellFormed
<1>3. Near \subseteq ToSet(case.ids)
  BY DEF Near, Local
<1>4. Lists(case.ids, ToSet(case.ids)) /\ case.query.vector \in Vectors
  BY <1>2 DEF WellFormed
<1>5. ToSet(case.ids) \in SUBSET Nat /\ IsFiniteSet(ToSet(case.ids))
  BY <1>2 DEF WellFormed, Readable
<1>6. Readable(Near, case.memory)
  <2>1. IsFiniteSet(Near)
    BY <1>3, <1>5, FS_Subset
  <2>. QED
    BY <1>2, <1>3, <2>1 DEF WellFormed, Readable
<1>. QED
  BY <1>1, <1>2, <1>3, <1>4, <1>5, <1>6

\* A router sees its whole namespace.
LEMMA RouterSupport ==
  ASSUME input.arm \in RouterArms
  PROVE  SupportSet(input.arm, case) = Near
<1>1. /\ input.arm \notin GlobalArms
      /\ input.arm # "query_agnostic_current_only" /\ input.arm # "namespace_policy_only"
      /\ input.arm # "namespace_lifecycle_only"
      /\ input.arm # "released_intent_lifecycle_upper_bound"
      /\ input.arm # "released_governance_oracle_v2"
  BY DEF GlobalArms, RouterArms
<1>. QED
  BY <1>1, Zenon DEF SupportSet, Near

\* Taking the first of the waiting memories.
LEMMA InsertTakesOne ==
  ASSUME InsertionInv, NEW m, Insert(m)
  PROVE  /\ m \in Near /\ waiting' \in Seq(Near) /\ IsInjective(waiting')
         /\ ToSet(waiting) = {m} \cup ToSet(waiting') /\ m \notin ToSet(waiting')
         /\ \A k \in DOMAIN clusters : m \notin clusters[k].members
<1>1. /\ waiting \in Seq(Near) /\ IsInjective(waiting) /\ waiting # <<>>
      /\ m = Head(waiting) /\ waiting' = Tail(waiting)
      /\ \A k \in DOMAIN clusters : ToSet(waiting) \cap clusters[k].members = {}
  BY DEF InsertionInv, Insert
<1>. DEFINE n == Len(waiting)
            rest == waiting'
<1>2. /\ n \in Nat /\ n >= 1 /\ DOMAIN waiting = 1 .. n /\ m = waiting[1]
      /\ rest \in Seq(Near) /\ Len(rest) = n - 1 /\ DOMAIN rest = 1 .. n - 1
      /\ \A i \in 1 .. n - 1 : rest[i] = waiting[i + 1]
  BY <1>1, HeadTailProperties, LenProperties, EmptySeq
<1>3. \A i, j \in 1 .. n : waiting[i] = waiting[j] => i = j
  BY <1>1, <1>2 DEF IsInjective
<1>4. 1 \in 1 .. n /\ m \in Near
  BY <1>1, <1>2, ElementOfSeq
<1>. HIDE DEF n, rest
<1>5. IsInjective(rest)
  <2>. SUFFICES ASSUME NEW i \in 1 .. n - 1, NEW j \in 1 .. n - 1, rest[i] = rest[j]
                PROVE  i = j
    BY <1>2 DEF IsInjective
  <2>1. i + 1 \in 1 .. n /\ j + 1 \in 1 .. n /\ waiting[i + 1] = waiting[j + 1]
    BY <1>2
  <2>2. i + 1 = j + 1
    BY <1>3, <2>1
  <2>. QED
    BY <1>2, <2>2
<1>6. ToSet(waiting) = {waiting[i] : i \in 1 .. n} /\ ToSet(rest) = {rest[i] : i \in 1 .. n - 1}
  BY <1>2 DEF ToSet
<1>7. \A x \in ToSet(rest) : \E i \in 1 .. n : i # 1 /\ x = waiting[i]
  <2>. SUFFICES ASSUME NEW i \in 1 .. n - 1
                PROVE  \E j \in 1 .. n : j # 1 /\ rest[i] = waiting[j]
    BY <1>6
  <2>1. i + 1 \in 1 .. n /\ i + 1 # 1 /\ rest[i] = waiting[i + 1]
    BY <1>2
  <2>. QED
    BY <2>1
<1>8. \A i \in 1 .. n : i # 1 => waiting[i] \in ToSet(rest)
  <2>. SUFFICES ASSUME NEW i \in 1 .. n, i # 1
                PROVE  waiting[i] \in ToSet(rest)
    OBVIOUS
  <2>1. i - 1 \in 1 .. n - 1 /\ rest[i - 1] = waiting[i - 1 + 1] /\ i - 1 + 1 = i
    BY <1>2
  <2>. QED
    BY <1>6, <2>1
<1>9. m \notin ToSet(rest)
  BY <1>2, <1>3, <1>4, <1>7
<1>10. ToSet(waiting) = {m} \cup ToSet(rest)
  BY <1>2, <1>4, <1>6, <1>7, <1>8
<1>11. \A k \in DOMAIN clusters : m \notin clusters[k].members
  BY <1>1, <1>10
<1>. QED
  BY <1>2, <1>4, <1>5, <1>9, <1>10, <1>11 DEF rest

\* The memory taken is put into a cluster of its own.
LEMMA OpenKeepsInsertion ==
  ASSUME RouteInv, NEW m, Insert(m), Open(m)
  PROVE  InsertionInv'
<1>. DEFINE C == [members : SUBSET Near, sum : Vectors]
            n == Len(clusters)
<1>1. /\ InsertionInv /\ clusters \in Seq(C) /\ phase = "insert" /\ phase' = phase
      /\ case' = case /\ input' = input
  BY DEF RouteInv, InsertionInv, Insert
<1>2. /\ m \in Near /\ waiting' \in Seq(Near) /\ IsInjective(waiting')
      /\ ToSet(waiting) = {m} \cup ToSet(waiting') /\ m \notin ToSet(waiting')
      /\ \A k \in DOMAIN clusters : m \notin clusters[k].members
  BY <1>1, InsertTakesOne
<1>3. /\ \A k \in DOMAIN clusters : ToSet(waiting) \cap clusters[k].members = {}
      /\ \A k, l \in DOMAIN clusters :
           k # l => clusters[k].members \cap clusters[l].members = {}
      /\ input.arm \in RouterArms
      /\ Clustered(DOMAIN clusters) \cup ToSet(waiting) = Near
  BY <1>1 DEF InsertionInv
<1>4. NewCluster(m, case) \in C /\ NewCluster(m, case).members = {m}
  <2>1. case.memory[m].vector \in Vectors
    BY <1>2, CaseFacts DEF Readable
  <2>. QED
    BY <1>2, <2>1 DEF NewCluster
<1>5. /\ n \in Nat /\ DOMAIN clusters = 1 .. n
      /\ clusters' \in Seq(C) /\ DOMAIN clusters' = 1 .. n + 1
      /\ clusters'[n + 1] = NewCluster(m, case)
      /\ \A k \in 1 .. n : clusters'[k] = clusters[k]
  <2>. HIDE DEF C
  <2>1. clusters' = Append(clusters, NewCluster(m, case))
    BY DEF Open
  <2>. QED
    BY <1>1, <1>4, <2>1, AppendProperties, LenProperties
<1>6. Near' = Near
  BY <1>1 DEF Near
<1>. HIDE DEF n
<1>7. \A k \in DOMAIN clusters' :
        \/ k \in DOMAIN clusters /\ clusters'[k].members = clusters[k].members
        \/ k = n + 1 /\ clusters'[k].members = {m}
  BY <1>4, <1>5
<1>8. \A k \in DOMAIN clusters' : ToSet(waiting') \cap clusters'[k].members = {}
  BY <1>2, <1>3, <1>7
<1>9. \A k, l \in DOMAIN clusters' :
        k # l => clusters'[k].members \cap clusters'[l].members = {}
  BY <1>2, <1>3, <1>7
<1>10. (UNION {clusters'[k].members : k \in DOMAIN clusters'}) \cup ToSet(waiting') = Near
  <2>1. /\ n + 1 \in DOMAIN clusters' /\ clusters'[n + 1].members = {m}
        /\ DOMAIN clusters \subseteq DOMAIN clusters'
        /\ \A k \in DOMAIN clusters : clusters'[k].members = clusters[k].members
    BY <1>4, <1>5
  <2>2. (UNION {clusters'[k].members : k \in DOMAIN clusters'})
          = (UNION {clusters[k].members : k \in DOMAIN clusters}) \cup {m}
    BY <1>7, <2>1
  <2>. QED
    BY <1>2, <1>3, <2>2 DEF Clustered
<1>11. clusters' # <<>>
  BY <1>5
<1>. HIDE DEF C
<1>12. clusters' \in Seq([members : SUBSET Near, sum : Vectors]')
  BY <1>5, <1>6 DEF C
<1>. QED
  BY <1>1, <1>2, <1>3, <1>6, <1>8, <1>9, <1>10, <1>11, <1>12 DEF InsertionInv, Clustered

\* The memory taken joins a cluster.
LEMMA JoinKeepsInsertion ==
  ASSUME RouteInv, NEW m, Insert(m), NEW k \in DOMAIN clusters, Join(m, k)
  PROVE  InsertionInv'
<1>. DEFINE C == [members : SUBSET Near, sum : Vectors]
            joined == Joined(clusters[k], m, case)
<1>1. /\ InsertionInv /\ clusters \in Seq(C) /\ phase = "insert" /\ phase' = phase
      /\ case' = case /\ input' = input
  BY DEF RouteInv, InsertionInv, Insert
<1>2. /\ m \in Near /\ waiting' \in Seq(Near) /\ IsInjective(waiting')
      /\ ToSet(waiting) = {m} \cup ToSet(waiting') /\ m \notin ToSet(waiting')
      /\ \A l \in DOMAIN clusters : m \notin clusters[l].members
  BY <1>1, InsertTakesOne
<1>3. /\ \A l \in DOMAIN clusters : ToSet(waiting) \cap clusters[l].members = {}
      /\ \A j, l \in DOMAIN clusters :
           j # l => clusters[j].members \cap clusters[l].members = {}
      /\ input.arm \in RouterArms
      /\ Clustered(DOMAIN clusters) \cup ToSet(waiting) = Near
  BY <1>1 DEF InsertionInv
<1>4. clusters[k] \in C
  <2>. HIDE DEF C
  <2>. QED
    BY <1>1, LenProperties, ElementOfSeq
<1>5. joined \in C /\ joined.members = clusters[k].members \cup {m}
  <2>1. case.memory[m].vector \in Vectors /\ clusters[k].sum \in Vectors
        /\ clusters[k].members \subseteq Near
    BY <1>2, <1>4, CaseFacts DEF Readable
  <2>2. <<clusters[k].sum[1] + case.memory[m].vector[1],
          clusters[k].sum[2] + case.memory[m].vector[2]>> \in Vectors
    <3>. DEFINE v == case.memory[m].vector
                w == clusters[k].sum
    <3>. HIDE DEF v, w
    <3>1. v \in Vectors /\ w \in Vectors
      BY <2>1 DEF v, w
    <3>2. <<w[1] + v[1], w[2] + v[2]>> \in Vectors
      BY <3>1 DEF Vectors
    <3>. QED
      BY <3>2 DEF v, w
  <2>. QED
    BY <1>2, <2>1, <2>2 DEF Joined, Added
<1>. HIDE DEF C, joined
<1>6. /\ clusters' \in Seq(C) /\ DOMAIN clusters' = DOMAIN clusters
      /\ clusters'[k] = joined /\ Len(clusters') = Len(clusters)
      /\ \A l \in DOMAIN clusters : l # k => clusters'[l] = clusters[l]
  <2>1. clusters' = [clusters EXCEPT ![k] = joined]
    BY DEF Join, joined
  <2>2. clusters \in [1 .. Len(clusters) -> C] /\ DOMAIN clusters = 1 .. Len(clusters)
        /\ Len(clusters) \in Nat
    BY <1>1, LenProperties
  <2>. QED
    BY <1>1, <1>5, <2>1, <2>2
<1>7. Near' = Near
  BY <1>1 DEF Near
<1>8. \A l \in DOMAIN clusters' :
        /\ l \in DOMAIN clusters
        /\ clusters'[l].members = IF l = k THEN clusters[k].members \cup {m}
                                  ELSE clusters[l].members
  BY <1>5, <1>6
<1>9. \A l \in DOMAIN clusters' : ToSet(waiting') \cap clusters'[l].members = {}
  BY <1>2, <1>3, <1>8
<1>10. \A j, l \in DOMAIN clusters' :
        j # l => clusters'[j].members \cap clusters'[l].members = {}
  <2>. SUFFICES ASSUME NEW j \in DOMAIN clusters', NEW l \in DOMAIN clusters', j # l
                PROVE  clusters'[j].members \cap clusters'[l].members = {}
    OBVIOUS
  <2>1. clusters[j].members \cap clusters[l].members = {}
    BY <1>3, <1>8
  <2>2. m \notin clusters[j].members /\ m \notin clusters[l].members
    BY <1>2, <1>8
  <2>. QED
    BY <1>8, <2>1, <2>2
<1>11. (UNION {clusters'[l].members : l \in DOMAIN clusters'}) \cup ToSet(waiting') = Near
  <2>1. (UNION {clusters'[l].members : l \in DOMAIN clusters'})
          = (UNION {clusters[l].members : l \in DOMAIN clusters}) \cup {m}
    <3>1. \A x \in UNION {clusters'[l].members : l \in DOMAIN clusters'} :
            x = m \/ \E l \in DOMAIN clusters : x \in clusters[l].members
      BY <1>8
    <3>2. \A l \in DOMAIN clusters : clusters[l].members \subseteq clusters'[l].members
      BY <1>6, <1>8
    <3>3. m \in clusters'[k].members /\ k \in DOMAIN clusters'
      BY <1>6, <1>8
    <3>. QED
      BY <1>6, <3>1, <3>2, <3>3
  <2>. QED
    BY <1>2, <1>3, <2>1 DEF Clustered
<1>12. clusters' # <<>>
  BY <1>6
<1>13. clusters' \in Seq([members : SUBSET Near, sum : Vectors]')
  BY <1>6, <1>7 DEF C
<1>. QED
  BY <1>1, <1>2, <1>3, <1>7, <1>9, <1>10, <1>11, <1>12, <1>13 DEF InsertionInv, Clustered

\* In a reachable state too an arm that is not global sees the namespace only.
LEMMA SupportNear ==
  ASSUME RouteInv
  PROVE  /\ SupportSet(input.arm, case) \subseteq ToSet(case.ids)
         /\ input.arm \notin GlobalArms => SupportSet(input.arm, case) \subseteq Near
BY CaseFacts, SupportSetPart DEF Near

\* An arm without clusters ranks what it may see, each memory once.
LEMMA DirectKeepsRanked ==
  ASSUME RouteInv, RouteDirect
  PROVE  RankedInv'
<1>. DEFINE S == SupportSet(input.arm, case)
<1>1. /\ case' = case /\ input' = input /\ input.arm \notin RouterArms
      /\ \E terms \in TermOrders(case) :
           route' = [ranked |-> DirectRank(input.arm, case, terms, TopK),
                     candidates |-> ToSet(Support(input.arm, case)),
                     selected |-> {}, fallback |-> FALSE]
  BY DEF RouteDirect
<1>2. /\ WellFormed(case) /\ input.arm \in Arms /\ Lists(case.ids, ToSet(case.ids))
  BY CaseFacts
<1>3. ToSet(Support(input.arm, case)) = S
  BY <1>2, SupportLists DEF Lists
<1>4. PICK terms \in TermOrders(case) :
        route' = [ranked |-> DirectRank(input.arm, case, terms, TopK),
                  candidates |-> ToSet(Support(input.arm, case)),
                  selected |-> {}, fallback |-> FALSE]
  BY <1>1
<1>5. TopK \in Nat
  BY RetrievalAssumption
<1>. HIDE DEF S
<1>6. /\ DirectRank(input.arm, case, terms, TopK) \in Seq(S)
      /\ IsInjective(DirectRank(input.arm, case, terms, TopK))
  BY <1>2, <1>5, DirectOfSet, RankedType DEF S
<1>7. /\ route'.ranked \in Seq(S) /\ IsInjective(route'.ranked) /\ route'.candidates = S
  BY <1>3, <1>4, <1>6
<1>8. /\ S \subseteq ToSet(case.ids)
      /\ input.arm \notin GlobalArms => S \subseteq Near
  BY SupportNear DEF S
<1>9. Near' = Near /\ SupportSet(input.arm, case)' = S
  BY <1>1 DEF Near, S
<1>. QED
  BY <1>1, <1>7, <1>8, <1>9 DEF RankedInv

\* A router starts with its whole namespace waiting.
LEMMA StartKeepsInsertion ==
  ASSUME RouteInv, StartRouter
  PROVE  InsertionInv'
<1>1. /\ case' = case /\ input' = input /\ input.arm \in RouterArms
      /\ clusters' = <<>> /\ phase' = "insert"
      /\ waiting' = OrderedForInsertion(Support(input.arm, case), case)
  BY DEF StartRouter
<1>2. Lists(Support(input.arm, case), Near)
  BY <1>1, CaseFacts, SupportLists, RouterSupport
<1>3. Readable(Near, case.memory)
  BY CaseFacts
<1>4. /\ IsRanking(Near, Older(Near, case.memory))
      /\ waiting' = Arranged(Near, Above(Near, Older(Near, case.memory)))
  BY <1>1, <1>2, <1>3, InsertionOfSet
<1>5. Near \in SUBSET Nat /\ IsFiniteSet(Near)
  BY <1>3 DEF Readable
<1>6. /\ waiting' \in Seq(Near) /\ Len(waiting') = Cardinality(Near)
      /\ IsInjective(waiting')
      /\ \A x \in Near : \E i \in 1 .. Cardinality(Near) : waiting'[i] = x
  BY <1>4, <1>5, ArrangedType
<1>7. ToSet(waiting') = Near
  <2>1. DOMAIN waiting' = 1 .. Cardinality(Near)
    BY <1>6, LenProperties
  <2>2. \A i \in DOMAIN waiting' : waiting'[i] \in Near
    BY <1>6, LenProperties, ElementOfSeq
  <2>. QED
    BY <1>6, <2>1, <2>2 DEF ToSet
<1>8. Near' = Near
  BY <1>1 DEF Near
<1>9. clusters' \in Seq([members : SUBSET Near, sum : Vectors]')
  BY <1>1
<1>10. DOMAIN clusters' = {}
  BY <1>1
<1>11. Clustered(DOMAIN clusters)' = {}
  BY <1>10 DEF Clustered
<1>. QED
  BY <1>1, <1>6, <1>7, <1>8, <1>9, <1>10, <1>11 DEF InsertionInv

\* Every cluster has a direction, and members of the namespace.
LEMMA ClusterSums ==
  ASSUME InsertionInv
  PROVE  \A k \in DOMAIN clusters :
           clusters[k].sum \in Vectors /\ clusters[k].members \subseteq Near
<1>. DEFINE C == [members : SUBSET Near, sum : Vectors]
<1>1. \A k \in DOMAIN clusters : clusters[k] \in C
  <2>. HIDE DEF C
  <2>1. clusters \in Seq(C)
    BY DEF InsertionInv, C
  <2>. QED
    BY <2>1, LenProperties, ElementOfSeq
<1>. QED
  BY <1>1

\* A router ranks what is in the clusters it selects, and never leaves its namespace.
LEMMA ClustersKeepRanked ==
  ASSUME RouteInv, RouteClusters
  PROVE  RankedInv'
<1>1. /\ case' = case /\ input' = input /\ phase = "insert"
      /\ \E selected \in Selections :
           LET chosen == Members(clusters, selected)
               ids == IF selected = {} THEN Fallback(case) ELSE Filtered(case.ids, chosen)
           IN  route' = [ranked |-> DenseRank(ids, case, TopK), candidates |-> ToSet(ids),
                         selected |-> selected, fallback |-> selected = {}]
  BY DEF RouteClusters
<1>2. PICK selected \in Selections :
           LET chosen == Members(clusters, selected)
               ids == IF selected = {} THEN Fallback(case) ELSE Filtered(case.ids, chosen)
           IN  route' = [ranked |-> DenseRank(ids, case, TopK), candidates |-> ToSet(ids),
                         selected |-> selected, fallback |-> selected = {}]
  BY <1>1
<1>. DEFINE chosen == Members(clusters, selected)
            ids == IF selected = {} THEN Fallback(case) ELSE Filtered(case.ids, chosen)
            S == ToSet(ids)
<1>3. route' = [ranked |-> DenseRank(ids, case, TopK), candidates |-> S,
                selected |-> selected, fallback |-> selected = {}]
  BY <1>2
<1>4. /\ clusters \in Seq([members : SUBSET Near, sum : Vectors])
      /\ input.arm \in RouterArms
  BY <1>1 DEF RouteInv, InsertionInv
<1>5. \A k \in DOMAIN clusters : clusters[k].sum \in Vectors /\ clusters[k].members \subseteq Near
  BY ClusterSums DEF RouteInv
<1>6. selected \subseteq DOMAIN clusters
  BY <1>4, <1>5, CaseFacts, SelectionType
<1>7. chosen \subseteq Near
  BY <1>5, <1>6 DEF Members
<1>8. Lists(case.ids, ToSet(case.ids)) /\ Near \subseteq ToSet(case.ids)
  BY CaseFacts
<1>9. Lists(Fallback(case), Near)
  BY <1>8, FiltersList DEF Fallback, LocalCase, Near
<1>10. Lists(Filtered(case.ids, chosen), ToSet(case.ids) \cap chosen)
  <2>. HIDE DEF chosen
  <2>. QED
    BY <1>8, FilteredLists
<1>. HIDE DEF chosen
<1>11. ids \in Seq(Nat) /\ IsInjective(ids) /\ S \subseteq Near
  <2>1. CASE selected = {}
    BY <1>9, <2>1 DEF Lists
  <2>2. CASE selected # {}
    BY <1>7, <1>10, <2>2 DEF Lists
  <2>. QED
    BY <2>1, <2>2
<1>. HIDE DEF ids
<1>12. S \in SUBSET Nat /\ IsFiniteSet(S)
  BY <1>11, ElementsFinite
<1>13. Readable(S, case.memory) /\ case.query.vector \in Vectors
  BY <1>11, <1>12, CaseFacts DEF Readable
<1>14. TopK \in Nat
  BY RetrievalAssumption
<1>15. DenseRank(ids, case, TopK) \in Seq(S) /\ IsInjective(DenseRank(ids, case, TopK))
  BY <1>11, <1>12, <1>13, <1>14, DenseOfSet, RankedType
<1>. HIDE DEF S
<1>16. route'.ranked \in Seq(S) /\ IsInjective(route'.ranked) /\ route'.candidates = S
  BY <1>3, <1>15
<1>17. Near' = Near
  BY <1>1 DEF Near
<1>. QED
  BY <1>1, <1>4, <1>8, <1>11, <1>16, <1>17 DEF RankedInv, RouterArms

\* The inductive invariant of the route: from the corruption of the case through the
\* ranking or the one-by-one insertion into clusters to the score of the record.
THEOREM RouteInvHolds == Spec => []RouteInv
<1>1. Init => RouteInv
  <2>. SUFFICES ASSUME Init
                PROVE  RouteInv
    OBVIOUS
  <2>1. StudyInv
    BY DEF Init, StudyInv
  <2>2. ProgressInv
    BY DEF Init, ProgressInv, Seen
  <2>3. InsertionInv
    <3>1. waiting = <<>> /\ clusters = <<>> /\ phase = "corrupt"
      BY DEF Init
    <3>. QED
      BY <3>1 DEF InsertionInv, IsInjective
  <2>4. RankedInv
    BY DEF Init, RankedInv, Routed
  <2>. QED
    BY <2>1, <2>2, <2>3, <2>4 DEF RouteInv
<1>2. RouteInv /\ [Next]_vars => RouteInv'
  <2>. SUFFICES ASSUME RouteInv, [Next]_vars
                PROVE  RouteInv'
    OBVIOUS
  <2>. USE DEF RouteInv
  <2>1. StudyInv'
    BY StudyInvStep
  <2>2. CASE Corrupt
    <3>1. /\ phase = "corrupt" /\ waiting = <<>> /\ clusters = <<>> /\ route = NoRoute
          /\ score = Unscored
      BY <2>2 DEF Corrupt, ProgressInv
    <3>2. /\ waiting' = <<>> /\ clusters' = <<>> /\ route' = NoRoute /\ score' = Unscored
          /\ phase' = "route" /\ input' = input
          /\ case' = CorruptCase(input.source, Query, input.channel, input.rate, input.draw)
      BY <2>2, <3>1 DEF Corrupt
    <3>3. ProgressInv'
      BY <3>2 DEF ProgressInv, Seen
    <3>4. InsertionInv'
      BY <3>2 DEF InsertionInv, IsInjective
    <3>5. RankedInv'
      BY <3>2 DEF RankedInv, Routed
    <3>. QED
      BY <2>1, <3>3, <3>4, <3>5
  <2>3. CASE RouteDirect
    <3>1. ProgressInv'
      BY <2>3 DEF RouteDirect, ProgressInv, Seen
    <3>2. InsertionInv'
      <4>1. /\ waiting' = <<>> /\ clusters' = <<>> /\ phase' = "score"
        BY <2>3 DEF RouteDirect, ProgressInv
      <4>. QED
        BY <4>1 DEF InsertionInv, IsInjective
    <3>. QED
      BY <2>1, <2>3, <3>1, <3>2, DirectKeepsRanked
  <2>4. CASE StartRouter
    <3>1. ProgressInv'
      BY <2>4 DEF StartRouter, ProgressInv, Seen
    <3>2. RankedInv'
      BY <2>4 DEF StartRouter, RankedInv, Routed
    <3>. QED
      BY <2>1, <2>4, <3>1, <3>2, StartKeepsInsertion
  <2>5. CASE RouteClusters
    <3>1. ProgressInv'
      BY <2>5 DEF RouteClusters, ProgressInv, Seen
    <3>2. InsertionInv'
      <4>1. /\ UNCHANGED <<case, input, waiting, clusters>> /\ phase' = "score"
        BY <2>5 DEF RouteClusters
      <4>2. Near' = Near
        BY <4>1 DEF Near
      <4>. QED
        BY <4>1, <4>2 DEF InsertionInv
    <3>. QED
      BY <2>1, <2>5, <3>1, <3>2, ClustersKeepRanked
  <2>6. CASE Score \/ UNCHANGED vars
    <3>1. /\ UNCHANGED <<case, input, waiting, clusters, route>>
          /\ \/ phase = "score" /\ phase' = "done"
             \/ UNCHANGED <<phase, score>>
      BY <2>6 DEF Score, vars
    <3>2. Near' = Near /\ SupportSet(input.arm, case)' = SupportSet(input.arm, case)
      BY <3>1 DEF Near
    <3>3. ProgressInv'
      BY <3>1 DEF ProgressInv, Seen
    <3>4. InsertionInv'
      BY <3>1, <3>2 DEF InsertionInv, Clustered
    <3>5. RankedInv'
      BY <3>1, <3>2 DEF RankedInv, Routed
    <3>. QED
      BY <2>1, <3>3, <3>4, <3>5
  <2>7. ASSUME NEW m \in Ids(case), InsertFirst(m) \/ InsertThreshold(m) \/ InsertA5(m)
        PROVE  RouteInv'
    <3>1. Insert(m) /\ phase = "insert"
      BY <2>7 DEF InsertFirst, InsertThreshold, InsertA5, Insert
    <3>2. ProgressInv'
      BY <3>1 DEF Insert, ProgressInv, Seen
    <3>3. RankedInv'
      BY <3>1 DEF Insert, RankedInv, Routed
    <3>4. Open(m) \/ \E k \in DOMAIN clusters : Join(m, k)
      <4>1. CASE InsertFirst(m)
        BY <4>1 DEF InsertFirst
      <4>2. CASE InsertThreshold(m)
        <5>1. clusters # <<>>
          BY <4>2 DEF InsertThreshold
        <5>2. clusters \in Seq([members : SUBSET Near, sum : Vectors])
          BY DEF InsertionInv
        <5>3. \A k \in DOMAIN clusters : clusters[k].sum \in Vectors
          BY ClusterSums
        <5>4. case.memory[m].vector \in Vectors
          BY CaseFacts DEF WellFormed, Readable
        <5>5. Closest(clusters, case.memory[m].vector) \in DOMAIN clusters
          BY <5>1, <5>2, <5>3, <5>4, ClosestIsCluster
        <5>. QED
          BY <4>2, <5>5 DEF InsertThreshold
      <4>3. CASE InsertA5(m)
        BY <4>3 DEF InsertA5, A5Selections
      <4>. QED
        BY <2>7, <4>1, <4>2, <4>3
    <3>5. InsertionInv'
      BY <3>1, <3>4, OpenKeepsInsertion, JoinKeepsInsertion
    <3>. QED
      BY <2>1, <3>2, <3>3, <3>5
  <2>. QED
    BY <2>2, <2>3, <2>4, <2>5, <2>6, <2>7 DEF Next
<1>. QED
  BY <1>1, <1>2, PTL DEF Spec

\* Every variable keeps its type, through corruption, ranking and insertion.
THEOREM StudyTypeOK == Spec => []TypeOK
<1>1. RouteInv => TypeOK
  <2>. SUFFICES ASSUME RouteInv
                PROVE  TypeOK
    OBVIOUS
  <2>1. /\ ToSet(case.ids) = Ids(input.source) /\ Ids(case) = Ids(input.source)
        /\ case.query.intent \in Intents
        /\ \A m \in Ids(case) :
             case.memory[m].state \in LifecycleStates /\ case.policy[m] \in Truth
    BY SeenIsWellFormed DEF RouteInv, ProgressInv
  <2>2. Near \subseteq Ids(case)
    BY <2>1, CaseFacts
  <2>3. ToSet(waiting) \subseteq Near
    BY ElementsFinite DEF RouteInv, InsertionInv
  <2>4. (UNION {c.members : c \in ToSet(clusters)}) \subseteq Near
    BY ClusterSums DEF RouteInv, ToSet
  <2>5. ToSet(route.ranked) \subseteq route.candidates /\ route.candidates \subseteq Ids(case)
    <3>1. CASE Routed
      BY <2>1, <3>1, ElementsFinite DEF RouteInv, RankedInv
    <3>2. CASE ~Routed
      <4>1. route = NoRoute
        BY <3>2 DEF RouteInv, ProgressInv, Routed
      <4>. QED
        BY <4>1 DEF NoRoute, ToSet
    <3>. QED
      BY <3>1, <3>2
  <2>6. score.feasible \in Truth /\ ToSet(score.prefix) \subseteq Ids(case)
    <3>1. CASE phase # "done"
      BY <3>1 DEF RouteInv, ProgressInv, Unscored, Truth, ToSet
    <3>2. CASE phase = "done"
      <4>. DEFINE ranked == route.ranked
                  labels == input.labels
                  n == MatchedLength(ranked, labels)
      <4>1. score = ScoreRoute(ranked, labels)
        BY <3>2 DEF RouteInv, StudyInv
      <4>2. ranked \in Seq(Ids(case))
        <5>1. /\ ranked \in Seq(route.candidates) /\ route.candidates \subseteq Ids(case)
          BY <2>5, <3>2 DEF RouteInv, RankedInv, Routed
        <5>. QED
          BY <5>1
      <4>3. Feasible(ranked, labels) \in Truth
        BY DEF Feasible, Truth
      <4>. HIDE DEF ranked, labels
      <4>4. CASE Feasible(ranked, labels) # "yes"
        <5>1. score = [feasible |-> Feasible(ranked, labels), prefix |-> <<>>]
          BY <4>1, <4>4 DEF ScoreRoute
        <5>. QED
          BY <4>3, <5>1 DEF ToSet
      <4>5. CASE Feasible(ranked, labels) = "yes"
        <5>1. score.feasible = "yes" /\ score.prefix = SubSeq(ranked, 1, n)
          BY <4>1, <4>5 DEF ScoreRoute
        <5>2. ReachesTarget(ranked, labels)
          BY <4>5 DEF Feasible
        <5>3. SubSeq(ranked, 1, Len(ranked)) = ranked /\ Len(ranked) \in 0 .. Len(ranked)
          BY <4>2
        <5>4. n \in 0 .. Len(ranked)
          BY <4>2, <5>2, <5>3, MatchedIsFirst
        <5>. HIDE DEF n
        <5>5. SubSeq(ranked, 1, n) \in Seq(Ids(case))
          BY <4>2, <5>4
        <5>6. ToSet(SubSeq(ranked, 1, n)) \subseteq Ids(case)
          BY <5>5, ElementsFinite
        <5>. QED
          BY <5>1, <5>6 DEF Truth
      <4>. QED
        BY <4>4, <4>5
    <3>. QED
      BY <3>1, <3>2
  <2>7. phase \in {"corrupt", "route", "insert", "score", "done"}
    BY DEF RouteInv, ProgressInv
  <2>. QED
    BY <2>1, <2>2, <2>3, <2>4, <2>5, <2>6, <2>7 DEF TypeOK
<1>. QED
  BY <1>1, RouteInvHolds, PTL

\* A router loses no memory of the namespace and keeps none twice.
THEOREM MemoriesClusteredOnceHolds == Spec => []MemoriesClusteredOnce
<1>1. RouteInv => MemoriesClusteredOnce
  <2>. SUFFICES ASSUME RouteInv
                PROVE  MemoriesClusteredOnce
    OBVIOUS
  <2>1. ToSet(NamespaceSupport(case.ids, case)) = Near
    BY CaseFacts, FiltersList DEF Lists, Near
  <2>. QED
    BY <2>1 DEF MemoriesClusteredOnce, RouteInv, InsertionInv
<1>. QED
  BY <1>1, RouteInvHolds, PTL

\* No route restricted to a namespace leaves it, whatever the metadata were corrupted
\* to, and its ranking can be scored.
THEOREM RoutesStayLocalHolds == Spec => []RoutesStayLocal
<1>1. RouteInv /\ TypeOK /\ MemoriesClusteredOnce => RoutesStayLocal
  <2>. SUFFICES ASSUME RouteInv, TypeOK, MemoriesClusteredOnce
                PROVE  RoutesStayLocal
    OBVIOUS
  <2>1. ASSUME Routed, input.arm \notin GlobalArms, NEW m \in route.candidates
        PROVE  case.memory[m].namespace = case.query.namespace
    BY <2>1 DEF RouteInv, RankedInv, Near, Local
  <2>2. ASSUME phase = "score"
        PROVE  Scorable(route.ranked, input.labels)
    <3>1. DOMAIN input.labels = Ids(case)
      BY SeenIsWellFormed DEF RouteInv, ProgressInv
    <3>2. /\ route.ranked \in Seq(route.candidates) /\ IsInjective(route.ranked)
      BY <2>2 DEF RouteInv, RankedInv, Routed
    <3>3. route.candidates \subseteq Ids(case)
      BY DEF TypeOK
    <3>4. route.ranked \in Seq(Ids(case))
      BY <3>2, <3>3
    <3>. QED
      BY <3>1, <3>2, <3>4 DEF Scorable
  <2>. QED
    BY <2>1, <2>2 DEF RoutesStayLocal
<1>. QED
  BY <1>1, RouteInvHolds, StudyTypeOK, MemoriesClusteredOnceHolds, PTL

\* Where the labels say what the route sees, the v2 arm sees the memories that are
\* not known to be inadmissible.
THEOREM OracleFollowsLabelsHolds == Spec => []OracleFollowsLabels
<1>1. RouteInv => OracleFollowsLabels
  <2>. SUFFICES ASSUME RouteInv, Routed, input.arm = "released_governance_oracle_v2", Aligned
                PROVE  route.candidates =
                         {m \in Ids(case) : AdmissibleStatus(input.labels[m]) # "no"}
    BY DEF OracleFollowsLabels
  <2>1. route.candidates = SupportSet(input.arm, case)
    BY DEF RouteInv, RankedInv, RouterArms
  <2>2. SupportSet(input.arm, case) = Timely(Permitted(Near, case), case)
    BY Zenon DEF SupportSet, GlobalArms, Near
  <2>3. /\ ToSet(case.ids) = Ids(case) /\ DOMAIN input.labels = Ids(case)
        /\ input.labels \in Seq(Assessments)
        /\ case.query.intent \in Intents
        /\ \A m \in Ids(case) :
             case.memory[m].state \in LifecycleStates /\ case.policy[m] \in Truth
    BY SeenIsWellFormed DEF RouteInv, ProgressInv
  <2>4. \A m \in Ids(case) : input.labels[m] \in Assessments
    BY <2>3, LenProperties, ElementOfSeq
  <2>5. ASSUME NEW m \in Ids(case)
        PROVE  m \in Timely(Permitted(Near, case), case)
                 <=> AdmissibleStatus(input.labels[m]) # "no"
    <3>. DEFINE a == input.labels[m]
                here == case.memory[m].namespace = case.query.namespace
                state == case.memory[m].state
                intent == case.query.intent
    <3>1. /\ (a.scope = "allowed") = here /\ a.scope # "unknown"
          /\ a.state = state /\ a.policy = case.policy[m] /\ a.intent = intent
      BY DEF Aligned
    <3>2. a.scope \in Scopes
      BY <2>4 DEF Assessments
    <3>3. m \in Near <=> here
      BY <2>3 DEF Near, Local
    <3>4. m \in Timely(Permitted(Near, case), case) <=>
            /\ m \in Near /\ case.policy[m] # "no"
            /\ intent = "current_state" => state \notin {"stale", "superseded"}
      BY DEF Timely, Permitted, Living
    <3>5. state \in LifecycleStates /\ intent \in Intents
      BY <2>3
    <3>. HIDE DEF a, here, state, intent
    <3>6. ScopeAllowed(a.scope) = "no" <=> ~here
      BY <3>1, <3>2, Zenon DEF ScopeAllowed, Scopes
    <3>7. LifecycleCompatible(a.state, a.intent) = "no" <=>
            intent = "current_state" /\ state \in {"stale", "superseded"}
      BY <3>1, <3>5 DEF LifecycleCompatible, LifecycleStates, Intents
    <3>8. AdmissibleStatus(a) = "no" <=>
            "no" \in {ScopeAllowed(a.scope), a.policy, LifecycleCompatible(a.state, a.intent)}
      BY DEF AdmissibleStatus, Conjunction
    <3>9. AdmissibleStatus(a) # "no" <=> m \in Timely(Permitted(Near, case), case)
      BY <3>1, <3>3, <3>4, <3>6, <3>7, <3>8
    <3>. QED
      BY <3>9 DEF a
  <2>6. Timely(Permitted(Near, case), case) \subseteq Ids(case)
    BY <2>3 DEF Timely, Permitted, Living, Near, Local
  <2>. QED
    BY <2>1, <2>2, <2>5, <2>6
<1>. QED
  BY <1>1, RouteInvHolds, PTL

\* A case listed in another order is as well-formed, and every arm sees in it what it
\* sees in the other.
LEMMA ListedAlike ==
  ASSUME RouteInv, NEW ids \in SetToSeqs(Ids(case))
  PROVE  /\ WellFormed(Listed(ids)) /\ Lists(Listed(ids).ids, ToSet(Listed(ids).ids))
         /\ Listed(ids).memory = case.memory /\ Listed(ids).query = case.query
         /\ SupportSet(input.arm, Listed(ids)) = SupportSet(input.arm, case)
<1>. DEFINE c == Listed(ids)
            S == Ids(case)
<1>1. /\ WellFormed(case) /\ ToSet(case.ids) = S
      /\ S \in SUBSET Nat /\ IsFiniteSet(S)
  BY CaseFacts
<1>2. /\ c.ids = ids /\ c.memory = case.memory /\ c.query = case.query /\ c.policy = case.policy
  BY DEF Listed, RouteInv, ProgressInv, Seen, CorruptCase
<1>. HIDE DEF c, S
<1>3. /\ ids \in [1 .. Cardinality(S) -> S]
      /\ \A i, j \in 1 .. Cardinality(S) : i # j => ids[i] # ids[j]
  BY DEF SetToSeqs, S
<1>4. Cardinality(S) \in Nat
  BY <1>1, FS_CardinalityType
<1>5. ids \in Seq(Nat) /\ IsInjective(ids)
  <2>1. ids \in [1 .. Cardinality(S) -> Nat]
    BY <1>1, <1>3
  <2>2. DOMAIN ids = 1 .. Cardinality(S)
    BY <2>1
  <2>3. ids \in Seq(Nat)
    BY <2>1, <1>4
  <2>4. IsInjective(ids)
    BY <1>3, <2>2 DEF IsInjective
  <2>. QED
    BY <2>3, <2>4
<1>6. ToSet(ids) = S
  <2>1. ids \in Injection(1 .. Cardinality(S), S)
    BY <1>3 DEF Injection, IsInjective
  <2>2. Cardinality(1 .. Cardinality(S)) = Cardinality(S)
    BY <1>4, FS_Interval
  <2>3. ids \in Surjection(1 .. Cardinality(S), S)
    BY <1>1, <2>1, <2>2, FS_Injection
  <2>. QED
    BY <1>3, <2>3 DEF Surjection, ToSet
<1>7. Lists(c.ids, ToSet(c.ids)) /\ ToSet(c.ids) = ToSet(case.ids)
  BY <1>1, <1>2, <1>5, <1>6 DEF Lists
<1>8. WellFormed(c)
  <2>1. TermOrders(c) = TermOrders(case)
    BY <1>2 DEF TermOrders
  <2>. QED
    BY <1>1, <1>2, <1>7, <2>1 DEF WellFormed, Weighted
<1>9. SupportSet(input.arm, c) = SupportSet(input.arm, case)
  <2>1. \A T : Local(T, c) = Local(T, case)
    BY <1>2 DEF Local
  <2>2. \A T : Living(T, c) = Living(T, case)
    BY <1>2 DEF Living
  <2>3. \A T : Permitted(T, c) = Permitted(T, case)
    BY <1>2 DEF Permitted
  <2>4. \A T : Timely(T, c) = Timely(T, case)
    BY <1>2, <2>2 DEF Timely
  <2>. QED
    BY <1>2, <1>7, <2>1, <2>2, <2>3, <2>4, Zenon DEF SupportSet
<1>. QED
  BY <1>2, <1>7, <1>8, <1>9 DEF c

\* The order in which the caller lists the memories changes no ranking and no insertion.
THEOREM OrderIsIrrelevantHolds == Spec => []OrderIsIrrelevant
<1>1. RouteInv => OrderIsIrrelevant
  <2>. SUFFICES ASSUME RouteInv, NEW ids \in SetToSeqs(Ids(case))
                PROVE
         /\ phase = "score" /\ input.arm \notin RouterArms =>
              \A terms \in TermOrders(case) :
                DirectRank(input.arm, Listed(ids), terms, TopK)
                  = DirectRank(input.arm, case, terms, TopK)
         /\ phase = "insert" /\ clusters = <<>> =>
              OrderedForInsertion(Support(input.arm, Listed(ids)), case) = waiting
    BY DEF OrderIsIrrelevant
  <2>. DEFINE c == Listed(ids)
              S == SupportSet(input.arm, case)
  <2>1. /\ WellFormed(c) /\ Lists(c.ids, ToSet(c.ids))
        /\ c.memory = case.memory /\ c.query = case.query
        /\ SupportSet(input.arm, c) = S
    BY ListedAlike
  <2>2. /\ WellFormed(case) /\ input.arm \in Arms /\ Lists(case.ids, ToSet(case.ids))
        /\ Readable(Near, case.memory)
    BY CaseFacts
  <2>. HIDE DEF c
  <2>3. ASSUME NEW terms \in TermOrders(case)
        PROVE  DirectRank(input.arm, c, terms, TopK) = DirectRank(input.arm, case, terms, TopK)
    <3>1. terms \in TermOrders(c)
      BY <2>1 DEF TermOrders
    <3>2. DirectRank(input.arm, case, terms, TopK)
            = Ranked(S, DirectHigher(input.arm, S, case, terms), TopK)
      BY <2>2, DirectOfSet
    <3>3. DirectRank(input.arm, c, terms, TopK)
            = Ranked(S, DirectHigher(input.arm, S, c, terms), TopK)
      BY <2>1, <2>2, <3>1, DirectOfSet
    <3>. HIDE DEF S
    <3>4. \A m : Bm25Score(m, c, terms) = Bm25Score(m, case, terms)
      BY <2>1, Zenon DEF Bm25Score
    <3>5. Bm25Higher(S, c, terms) = Bm25Higher(S, case, terms)
      BY <3>4 DEF Bm25Higher
    <3>6. FusedPlaces(S, c, terms) = FusedPlaces(S, case, terms)
      BY <2>1, <3>5, Zenon DEF FusedPlaces
    <3>7. RrfHigher(S, c, terms) = RrfHigher(S, case, terms)
      BY <3>6, Zenon DEF RrfHigher
    <3>8. DirectHigher(input.arm, S, c, terms) = DirectHigher(input.arm, S, case, terms)
      BY <2>1, <3>5, <3>7, Zenon DEF DirectHigher
    <3>. QED
      BY <3>2, <3>3, <3>8
  <2>4. ASSUME phase = "insert", clusters = <<>>
        PROVE  OrderedForInsertion(Support(input.arm, c), case) = waiting
    <3>1. /\ input.arm \in RouterArms
          /\ waiting = OrderedForInsertion(Support(input.arm, case), case)
      BY <2>4 DEF RouteInv, InsertionInv
    <3>2. S = Near
      BY <3>1, RouterSupport
    <3>3. Lists(Support(input.arm, c), Near) /\ Lists(Support(input.arm, case), Near)
      BY <2>1, <2>2, <3>2, SupportLists
    <3>. QED
      BY <2>2, <3>1, <3>3, InsertionOfSet
  <2>. QED
    BY <2>3, <2>4 DEF c
<1>. QED
  BY <1>1, RouteInvHolds, PTL
=============================================================================
