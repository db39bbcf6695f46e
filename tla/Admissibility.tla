--------------------------- MODULE Admissibility ----------------------------
(***************************************************************************)
(* The rules of admissibility.py over the labels of schema.py.  Every      *)
(* label may be unknown, and an unknown label is never imputed.            *)
(***************************************************************************)

Truth == {"yes", "no", "unknown"}

Relevances == {"required", "supportive", "not_useful", "unknown"}
Scopes == {"allowed", "disallowed", "unknown"}
LifecycleStates == {"current", "stale", "superseded", "unknown"}
Intents == {"current_state", "history", "unknown"}

\* One memory relative to one query.
Assessments ==
  [relevance : Relevances, scope : Scopes, state : LifecycleStates,
   policy : Truth, intent : Intents]

Conjunction(values) ==
  CASE "no" \in values -> "no"
    [] values \subseteq {"yes"} -> "yes"
    [] OTHER -> "unknown"

LifecycleCompatible(state, intent) ==
  IF "unknown" \in {state, intent} THEN "unknown"
  ELSE IF state = "current" \/ intent = "history" THEN "yes" ELSE "no"

ScopeAllowed(scope) ==
  CASE scope = "allowed" -> "yes"
    [] scope = "disallowed" -> "no"
    [] OTHER -> "unknown"

AdmissibleStatus(a) ==
  Conjunction({ScopeAllowed(a.scope), a.policy, LifecycleCompatible(a.state, a.intent)})

RelevantStatus(a) ==
  CASE a.relevance \in {"required", "supportive"} -> "yes"
    [] a.relevance = "not_useful" -> "no"
    [] OTHER -> "unknown"

UsableStatus(a) == Conjunction({RelevantStatus(a), AdmissibleStatus(a)})

-----------------------------------------------------------------------------
\* b is what a may turn out to be: it agrees with every label of a that is known.
Agrees(known, value) == known = "unknown" \/ known = value
Resolves(a, b) ==
  /\ Agrees(a.relevance, b.relevance) /\ Agrees(a.scope, b.scope)
  /\ Agrees(a.state, b.state) /\ Agrees(a.policy, b.policy)
  /\ Agrees(a.intent, b.intent)

\* The assessments without an unknown label.
Resolved ==
  {b \in Assessments :
     "unknown" \notin {b.relevance, b.scope, b.state, b.policy, b.intent}}
=============================================================================
