-------------------------- MODULE MCRetrievalStudy --------------------------
(***************************************************************************)
(* Inputs of RetrievalStudy for model checking: four families, each of     *)
(* which varies what one group of properties depends on.                   *)
(***************************************************************************)
EXTENDS RetrievalStudy

MCTheta == <<4, 5>>
MCTarget == <<1, 2>>
MCRecency == <<1, 2>>

Along == <<1, 0>>

MemoryOf(ns, order, state, vector, weight) ==
  [namespace |-> ns, order |-> order, state |-> state, vector |-> vector,
   weight |-> weight]

QueryOf(ns, intent, vector, terms) ==
  [namespace |-> ns, intent |-> intent, vector |-> vector, terms |-> terms]

Label(relevance, scope, state, policy, intent) ==
  [relevance |-> relevance, scope |-> scope, state |-> state, policy |-> policy,
   intent |-> intent]

Undrawn(n) ==
  [memory |-> [i \in ({0} \cup Queries) \X (1 .. n) |-> 0],
   alternate |-> [m \in 1 .. n |-> 0], intent |-> [q \in Queries |-> 0]]

Plain(source, labels, arm) ==
  [source |-> source, labels |-> labels, arm |-> arm, channel |-> "policy_missing",
   rate |-> 0, draw |-> Undrawn(Len(source.ids))]

\* Two memories with every metadata, labelled as they are.
SupportInputs ==
  {LET memory == <<MemoryOf(1, 0, s1, Along, <<1>>), MemoryOf(ns, 0, s2, Along, <<1>>)>>
       policy == <<p1, p2>>
       Aligning(m, relevance) ==
         Label(relevance, IF memory[m].namespace = 1 THEN "allowed" ELSE "disallowed",
               memory[m].state, policy[m], intent)
   IN  Plain([ids |-> <<1, 2>>, memory |-> memory, policy |-> policy,
              query |-> [q \in Queries |-> QueryOf(1, intent, Along, {1})]],
             <<Aligning(1, "required"), Aligning(2, "unknown")>>, arm) :
     s1 \in {"current", "stale", "unknown"}, s2 \in LifecycleStates, ns \in {1, 2},
     p1 \in Truth, p2 \in Truth, intent \in Intents, arm \in SupportArms}

\* Three memories at several angles, released in several orders.
Angles == {<<1, 0>>, <<2, 1>>, <<0, 1>>}
GeometryInputs ==
  {LET memory == [m \in 1 .. 3 |->
         MemoryOf(IF m = 3 THEN ns ELSE 1, order[m], "current", vector[m],
                  <<m % 2, 1>>)]
   IN  Plain([ids |-> <<2, 3, 1>>, memory |-> memory, policy |-> <<"yes", "yes", "yes">>,
              query |-> [q \in Queries |-> QueryOf(1, "history", v, {1, 2})]],
             [m \in 1 .. 3 |-> Label("required", "allowed", "current", "yes", "history")],
             arm) :
     vector \in [1 .. 3 -> Angles], order \in [1 .. 3 -> {0, 1}], ns \in {1, 2},
     v \in Angles, arm \in GlobalArms \cup RouterArms}

\* Three memories in a fixed ranking, with labels that are partly unknown.
Labels ==
  {Label(relevance, l[1], l[2], l[3], l[4]) :
     relevance \in {"required", "not_useful", "unknown"},
     l \in {<<"allowed", "current", "yes", "current_state">>,
            <<"unknown", "current", "yes", "current_state">>,
            <<"allowed", "unknown", "yes", "current_state">>,
            <<"allowed", "stale", "yes", "unknown">>,
            <<"allowed", "unknown", "yes", "history">>,
            <<"allowed", "current", "no", "current_state">>,
            <<"unknown", "stale", "unknown", "current_state">>}}
ScoringInputs ==
  {LET memory == [m \in 1 .. 3 |-> MemoryOf(1, 0, "current", Along, <<1>>)]
   IN  Plain([ids |-> <<1, 2, 3>>, memory |-> memory,
              policy |-> <<"yes", "yes", "yes">>,
              query |-> [q \in Queries |-> QueryOf(1, "history", Along, {1})]],
             labels, "global_dense") :
     labels \in [1 .. 3 -> Labels]}

\* Two memories under every corruption.
CorruptionInputs ==
  {[Plain([ids |-> <<1, 2>>,
           memory |-> <<MemoryOf(1, 0, "current", Along, <<1>>),
                        MemoryOf(3, 0, "stale", Along, <<1>>)>>,
           policy |-> <<"yes", "no">>,
           query |-> [q \in Queries |-> QueryOf(q, "current_state", Along, {1})]],
          <<Label("required", "allowed", "current", "yes", "current_state"),
            Label("required", "disallowed", "stale", "no", "current_state")>>,
          "released_governance_oracle_v2")
      EXCEPT !.channel = channel, !.rate = rate,
             !.draw = [memory |-> drawn, alternate |-> <<a, b>>,
                       intent |-> [q \in Queries |-> i]]] :
     channel \in Channels, rate \in 0 .. Grid, i \in 0 .. Grid - 1,
     a \in 0 .. Grid - 1, b \in 0 .. Grid - 1,
     drawn \in [({0} \cup Queries) \X (1 .. 2) -> 0 .. Grid - 1]}

AllInputs == <<SupportInputs, GeometryInputs, ScoringInputs, CorruptionInputs>>

\* Two memories with the same words, in frequencies that differ in order.
Permuted == {<<5, 6, 7>>, <<5, 7, 6>>, <<7, 6, 5>>}
LexicalInputs ==
  <<{LET memory == <<MemoryOf(1, 0, "current", Along, w1),
                   MemoryOf(1, 0, "current", Along, w2)>>
   IN  Plain([ids |-> <<1, 2>>, memory |-> memory, policy |-> <<"yes", "yes">>,
              query |-> [q \in Queries |-> QueryOf(1, "history", Along, {1, 2, 3})]],
             [m \in 1 .. 2 |-> Label("required", "allowed", "current", "yes", "history")],
             arm) :
     w1 \in Permuted, w2 \in Permuted,
     arm \in {"global_bm25", "global_bm25_dense_rrf"}}>>
=============================================================================
