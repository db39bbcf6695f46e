------------------------- MODULE MetadataCorruption -------------------------
(***************************************************************************)
(* corrupt_case of robustness.py.  The metadata a route may read are       *)
(* changed, the labels it is scored by are not.  A draw is the hash of an  *)
(* identity, and an identity is corrupted when its draw is below the rate. *)
(***************************************************************************)
EXTENDS Admissibility, Integers, FiniteSets, FiniteSetsExt

CONSTANTS
  Queries,       \* queries over the same memories of one source
  Grid           \* draws are 0 .. Grid - 1, rates 0 .. Grid

ASSUME CorruptionAssumption == Queries \subseteq Nat \ {0} /\ Grid \in Nat \ {0}

\* The channels that change a record in the same way for every query; false-deny
\* draws once for a record too, but hides it from the queries of its namespace.
RecordChannels == {"namespace_missing", "namespace_swap", "lifecycle_false_current",
                   "lifecycle_false_stale", "lifecycle_missing"}
Channels == RecordChannels \cup
  {"namespace_false_allow", "namespace_false_deny", "policy_false_allow",
   "policy_false_deny", "policy_missing", "query_intent_flip"}

\* A namespace that only a corruption invents belongs to no query.
Invented == 0

\* The hashes of all identities: of a memory or a memory under a query, of the
\* choice of another namespace, and of a query.
Draws(ids) ==
  [memory : [({0} \cup Queries) \X ids -> 0 .. Grid - 1],
   alternate : [ids -> 0 .. Grid - 1], intent : [Queries -> 0 .. Grid - 1]]

\* Record-level channels draw once for a memory; the others for every query.
Record == 0

Selected(draw, identity, rate) == draw.memory[identity] < rate

\* The namespaces a swap may choose from: all of the source.
Vocabulary(source, q) ==
  {source.query[p].namespace : p \in Queries} \cup
  {source.memory[m].namespace : m \in DOMAIN source.memory}

\* The alternatives in order, indexed by a draw of their own.
Alternate(source, q, current, draw) ==
  LET others == Vocabulary(source, q) \ {current}
      index == (draw * Cardinality(others)) \div Grid
  IN  IF others = {} THEN Invented
      ELSE CHOOSE ns \in others : Cardinality({o \in others : o < ns}) = index

DrawnAgain(draw, rate) == (draw + rate) % Grid   \* mutant of SwapDraw: not nested
SwapDraw(draw, rate) == draw

CorruptNamespace(source, q, m, channel, rate, draw) ==
  LET current == source.memory[m].namespace
      own == source.query[q].namespace
      hit == Selected(draw, <<Record, m>>, rate)
  IN
  CASE channel = "namespace_false_allow" /\ Selected(draw, <<q, m>>, rate) -> own
    [] channel = "namespace_false_deny" /\ hit /\ current = own -> Invented
    [] channel = "namespace_missing" /\ hit -> Invented
    [] channel = "namespace_swap" /\ hit ->
         Alternate(source, q, current, SwapDraw(draw.alternate[m], rate))
    [] OTHER -> current

CorruptState(source, q, m, channel, rate, draw) ==
  LET current == source.memory[m].state
      hit == Selected(draw, <<Record, m>>, rate)
  IN
  CASE channel = "lifecycle_false_current" /\ hit /\ current \in {"stale", "superseded"} ->
         "current"
    [] channel = "lifecycle_false_stale" /\ hit /\ current = "current" -> "stale"
    [] channel = "lifecycle_missing" /\ hit -> "unknown"
    [] OTHER -> current

CorruptPolicy(value, hit, channel) ==
  CASE channel = "policy_false_allow" /\ hit /\ value = "no" -> "yes"
    [] channel = "policy_false_deny" /\ hit /\ value = "yes" -> "no"
    [] channel = "policy_missing" /\ hit -> "unknown"
    [] OTHER -> value

CorruptIntent(intent, hit) ==
  CASE hit /\ intent = "current_state" -> "history"
    [] hit /\ intent = "history" -> "current_state"
    [] OTHER -> intent

\* The case of query q as its route sees it.
CorruptCase(source, q, channel, rate, draw) ==
  [ids |-> source.ids,
   memory |-> [m \in DOMAIN source.memory |->
     [source.memory[m] EXCEPT
        !.namespace = CorruptNamespace(source, q, m, channel, rate, draw),
        !.state = CorruptState(source, q, m, channel, rate, draw)]],
   policy |-> [m \in DOMAIN source.memory |->
     CorruptPolicy(source.policy[m], Selected(draw, <<q, m>>, rate), channel)],
   query |-> [source.query[q] EXCEPT
     !.intent = CorruptIntent(@, channel = "query_intent_flip" /\ draw.intent[q] < rate)]]
=============================================================================
