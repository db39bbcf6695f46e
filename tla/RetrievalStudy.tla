--------------------------- MODULE RetrievalStudy ---------------------------
(***************************************************************************)
(* One query of one arm, from the released source to its score: the        *)
(* metadata are corrupted (or not), the arm ranks what it may see of them, *)
(* and the ranking is scored by the untouched labels.  A router inserts    *)
(* the memories into its clusters one at a time.                           *)
(***************************************************************************)
EXTENDS Retrieval, RouteMetrics, MetadataCorruption

CONSTANTS
  Inputs,      \* families of studies
  Query        \* the query that is studied

Ids(source) == DOMAIN source.memory

\* A zero vector is refused.
Vectors == (Nat \X Nat) \ {<<0, 0>>}

\* The queries over one memory, and what the process knows of them and of it.
Sources ==
  [ids : Seq(Nat), policy : Seq(Truth),
   memory : Seq([namespace : Nat, order : Nat, state : LifecycleStates,
                 vector : Vectors, weight : Seq(Nat)]),
   query : [Queries -> [namespace : Nat, intent : Intents, vector : Vectors,
                        terms : SUBSET Nat]]]

ASSUME StudyAssumption ==
  /\ Query \in Queries
  /\ \A f \in DOMAIN Inputs : \A i \in Inputs[f] :
       /\ i.source \in Sources /\ i.labels \in Seq(Assessments)
       /\ ToSet(i.source.ids) = Ids(i.source) /\ IsInjective(i.source.ids)
       /\ \A m \in Ids(i.source) : \A q \in Queries :
            i.source.query[q].terms \subseteq DOMAIN i.source.memory[m].weight
       /\ DOMAIN i.labels = Ids(i.source) /\ DOMAIN i.source.policy = Ids(i.source)
       /\ i.arm \in Arms /\ i.channel \in Channels
       /\ i.rate \in 0 .. Grid /\ i.draw \in Draws(Ids(i.source))

VARIABLES
  input,      \* what the study was started with
  case,       \* what the route sees
  phase,      \* "corrupt", "route", "insert", "score", "done"
  waiting,    \* memories still to be inserted, in order
  clusters,   \* of a router
  route,      \* ranking, candidates, clusters selected, fallback
  score

vars == <<input, case, phase, waiting, clusters, route, score>>

NoRoute == [ranked |-> <<>>, candidates |-> {}, selected |-> {}, fallback |-> FALSE]

\* What a route sees is well-formed, and it ranks only what it may rank.
TypeOK ==
  /\ phase \in {"corrupt", "route", "insert", "score", "done"}
  /\ ToSet(case.ids) = Ids(input.source) /\ case.query.intent \in Intents
  /\ \A m \in Ids(input.source) :
       case.memory[m].state \in LifecycleStates /\ case.policy[m] \in Truth
  /\ ToSet(waiting) \cup UNION {c.members : c \in ToSet(clusters)} \subseteq Ids(case)
  /\ ToSet(route.ranked) \subseteq route.candidates
  /\ route.candidates \subseteq Ids(case)
  /\ score.feasible \in Truth /\ ToSet(score.prefix) \subseteq Ids(case)

Init ==
  /\ \E family \in DOMAIN Inputs : input \in Inputs[family]
  /\ case = CorruptCase(input.source, Query, input.channel, 0, input.draw)
  /\ phase = "corrupt" /\ waiting = <<>> /\ clusters = <<>>
  /\ route = NoRoute /\ score = Unscored

Corrupt ==
  /\ phase = "corrupt"
  /\ case' = CorruptCase(input.source, Query, input.channel, input.rate, input.draw)
  /\ phase' = "route"
  /\ UNCHANGED <<input, waiting, clusters, route, score>>

\* An arm without clusters.
RouteDirect ==
  /\ phase = "route" /\ input.arm \notin RouterArms
  /\ \E terms \in TermOrders(case) :
       route' = [ranked |-> DirectRank(input.arm, case, terms, TopK),
                 candidates |-> ToSet(Support(input.arm, case)),
                 selected |-> {}, fallback |-> FALSE]
  /\ phase' = "score"
  /\ UNCHANGED <<input, case, waiting, clusters, score>>

StartRouter ==
  /\ phase = "route" /\ input.arm \in RouterArms
  /\ waiting' = OrderedForInsertion(Support(input.arm, case), case)
  /\ clusters' = <<>>
  /\ phase' = "insert"
  /\ UNCHANGED <<input, case, route, score>>

Insert(m) ==
  /\ phase = "insert" /\ waiting # <<>> /\ m = Head(waiting)
  /\ waiting' = Tail(waiting)
  /\ UNCHANGED <<input, case, phase, route, score>>

Join(m, k) == clusters' = [clusters EXCEPT ![k] = Joined(@, m, case)]
Open(m) == clusters' = Append(clusters, NewCluster(m, case))

InsertFirst(m) == Insert(m) /\ clusters = <<>> /\ Open(m)

InsertThreshold(m) ==
  LET v == case.memory[m].vector
      k == Closest(clusters, v)
  IN  /\ Insert(m) /\ clusters # <<>> /\ input.arm = "threshold_router"
      /\ IF Reaches(v, clusters[k].sum) THEN Join(m, k) ELSE Open(m)

\* The scores of an existing and of a new cluster are not modelled.
InsertA5(m) ==
  /\ Insert(m) /\ clusters # <<>> /\ input.arm = "cluster_router"
  /\ \/ Open(m)
     \/ \E s \in A5Selections(clusters, case.memory[m].vector, 1) :
          \E k \in s : Join(m, k)

Selections ==
  IF input.arm = "threshold_router"
  THEN {ToSet(ThresholdSelection(clusters, case.query.vector))}
  ELSE A5Selections(clusters, case.query.vector, TopL)

RouteClusters ==
  /\ phase = "insert" /\ waiting = <<>>
  /\ \E selected \in Selections :
       LET chosen == Members(clusters, selected)
           ids == IF selected = {} THEN Fallback(case)
                  ELSE Filtered(case.ids, chosen)
       IN  route' = [ranked |-> DenseRank(ids, case, TopK), candidates |-> ToSet(ids),
                     selected |-> selected, fallback |-> selected = {}]
  /\ phase' = "score"
  /\ UNCHANGED <<input, case, waiting, clusters, score>>

Score ==
  /\ phase = "score" /\ Scorable(route.ranked, input.labels)
  /\ score' = ScoreRoute(route.ranked, input.labels)
  /\ phase' = "done"
  /\ UNCHANGED <<input, case, waiting, clusters, route>>

Next ==
  \/ Corrupt \/ RouteDirect \/ StartRouter \/ RouteClusters \/ Score
  \/ \E m \in Ids(case) : InsertFirst(m) \/ InsertThreshold(m) \/ InsertA5(m)

Spec == Init /\ [][Next]_vars

-----------------------------------------------------------------------------
Routed == phase \in {"score", "done"}

Clustered(s) == UNION {clusters[k].members : k \in s}

\* A router loses no memory and keeps none twice.
MemoriesClusteredOnce ==
  /\ phase = "insert" =>
       Clustered(DOMAIN clusters) \cup ToSet(waiting)
         = ToSet(NamespaceSupport(case.ids, case))
  /\ \A k, l \in DOMAIN clusters :
       k # l => clusters[k].members \cap clusters[l].members = {}

\* An arm restricted to the namespace never ranks a memory outside it, not even
\* when no cluster qualifies ("never global support"), and never one twice, so that
\* scoring does not refuse its ranking.
RoutesStayLocal ==
  /\ TypeOK /\ MemoriesClusteredOnce
  /\ Routed /\ input.arm \notin GlobalArms =>
       \A m \in route.candidates : case.memory[m].namespace = case.query.namespace
  /\ phase = "score" => Scorable(route.ranked, input.labels)

\* The labels say what the route sees.
Aligned ==
  \A m \in Ids(case) :
    /\ (input.labels[m].scope = "allowed")
         = (case.memory[m].namespace = case.query.namespace)
    /\ input.labels[m].scope # "unknown"
    /\ input.labels[m].state = case.memory[m].state
    /\ input.labels[m].policy = case.policy[m]
    /\ input.labels[m].intent = case.query.intent

\* Where the labels are what the route sees, the v2 arm ranks the memories not
\* known to be inadmissible: two independent readings of the same rules agree.
OracleFollowsLabels ==
  Routed /\ input.arm = "released_governance_oracle_v2" /\ Aligned =>
    route.candidates = {m \in Ids(case) : AdmissibleStatus(input.labels[m]) # "no"}

\* The case in another order.
Listed(ids) == [case EXCEPT !.ids = ids]

\* The order in which the caller lists the memories is of no consequence: not for
\* the ranking, and not for the clusters a router has built.
OrderIsIrrelevant ==
  \A ids \in SetToSeqs(Ids(case)) :
    /\ phase = "score" /\ input.arm \notin RouterArms =>
         \A terms \in TermOrders(case) :
           DirectRank(input.arm, Listed(ids), terms, TopK)
             = DirectRank(input.arm, case, terms, TopK)
    /\ phase = "insert" /\ clusters = <<>> =>
         OrderedForInsertion(Support(input.arm, Listed(ids)), case) = waiting

\* A ranking does not depend on the order in which the terms are added up.
RankingIsReproducible ==
  phase = "score" /\ input.arm \in GlobalArms =>
    \A terms \in TermOrders(case) :
      DirectRank(input.arm, case, terms, TopK) = route.ranked

\* A deeper ranking that was feasible already is matched by the same prefix.
PrefixOutlivesDepth ==
  phase = "done" =>
    \A d \in 0 .. Len(route.ranked) :
      LET cut == ScoreRoute(SubSeq(route.ranked, 1, d), input.labels)
      IN  cut.feasible = "yes" => cut.prefix = score.prefix

\* Whatever the unknown labels turn out to be, the violations in the matched
\* prefix are within the published bounds.
BoundsHold ==
  phase = "done" /\ score.feasible = "yes" =>
    /\ Encloses(score.nonUsable, score.prefix, input.labels, UsableStatus)
    /\ Encloses(score.inadmissible, score.prefix, input.labels, AdmissibleStatus)

\* What query q sees at a rate.
Seen(q, rate) == CorruptCase(input.source, q, input.channel, rate, input.draw)
KeptFrom(small, large, released) == small = released \/ large = small

\* What is corrupted at a rate is corrupted in the same way at every larger one.
CorruptionIsNested ==
  phase = "corrupt" => \A rate \in 0 .. input.rate :
    LET small == Seen(Query, rate)
        large == Seen(Query, input.rate)
        none == Seen(Query, 0)
    IN  /\ KeptFrom(small.query.intent, large.query.intent, none.query.intent)
        /\ \A m \in Ids(input.source) :
             /\ KeptFrom(small.memory[m].namespace, large.memory[m].namespace,
                         none.memory[m].namespace)
             /\ KeptFrom(small.memory[m].state, large.memory[m].state,
                         none.memory[m].state)
             /\ KeptFrom(small.policy[m], large.policy[m], none.policy[m])

\* All queries of a source see the same corrupted record of a memory.
RecordsAgree ==
  phase = "corrupt" /\ input.channel \in RecordChannels =>
    \A p, q \in Queries : Seen(p, input.rate).memory = Seen(q, input.rate).memory
=============================================================================
