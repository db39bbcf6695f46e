-------------------------- MODULE CrossJudgeAudit --------------------------
(***************************************************************************)
(* scripts/run_natural_cross_judge_audit.py: a second judge over a sample  *)
(* of the requests that two finished experiments already judged.  It buys  *)
(* one answer at a time, on its own budget, and freezes at the first       *)
(* failure; the analysis pairs the two judges' answers.                    *)
(***************************************************************************)
EXTENDS Counting

CONSTANTS
  Requests,      \* judge payloads of both experiments, in the order of their hashes
  Strata,        \* 1 .. n: the strata (reader, source, route), sorted
  Stratum,       \* requests assigned to each stratum; one may be in several
  Rank,          \* order of the salted hashes within each stratum
  Quota,         \* stratum_quotas
  PriorSpent,    \* prior_budget_consumption_usd: fixture and failure of the first attempt
  FixtureCap, Reservation, TotalCap,
  Costs,         \* what an answer may cost: more than its reservation, too
  Commits, None,
  MaxMoves,      \* bound: changes outside the runtime directory
  MaxLosses      \* bound: charges of calls whose answer nobody records

\* An answer and the fixture receipt have one form.
Records == [by : Commits, cost : Nat]

AuditAssumption ==
  /\ IsFiniteSet(Requests) /\ Requests \subseteq Nat
  /\ Stratum \in [Strata -> SUBSET Requests] /\ Rank \in [Strata -> [Requests -> Nat]]
  /\ Quota \in [Strata -> Nat \ {0}]
  /\ {PriorSpent, FixtureCap, Reservation, TotalCap} \subseteq Nat
  /\ Costs \subseteq Nat /\ Costs # {} /\ IsFiniteSet(Costs)
  /\ None \notin Commits \cup Records /\ {MaxMoves, MaxLosses} \subseteq Nat

-----------------------------------------------------------------------------
(* The sample *)

\* select_unique_stratified: stratum by stratum, the requests of lowest rank among
\* those that no earlier stratum took.
Available(s, taken) == Stratum[s] \ UNION {taken[t] : t \in 1 .. (s - 1)}

Before(s, r, q) == Rank[s][q] < Rank[s][r] \/ (Rank[s][q] = Rank[s][r] /\ q < r)
Lowest(s, pool) == {r \in pool : Cardinality({q \in pool : Before(s, r, q)}) < Quota[s]}

Drawn ==
  LET taken[s \in 0 .. Cardinality(Strata)] ==
        IF s = 0 THEN <<>>
        ELSE [t \in 1 .. s |-> IF t < s THEN taken[s - 1][t]
                               ELSE Lowest(s, Available(s, taken[s - 1]))]
  IN taken[Cardinality(Strata)]

Sample == {r \in Requests : \E s \in Strata : r \in Drawn[s]}
QuotasFilled == \A s \in Strata : Cardinality(Drawn[s]) = Quota[s]

\* load_protocol: the planned reservations fit under the cap.
PlanFits ==
  /\ QuotasFilled
  /\ PriorSpent + FixtureCap + Cardinality(Sample) * Reservation <= TotalCap

VARIABLES
  head, clean, moves,  \* HEAD; whether the contract paths have no changes
  source,              \* "frozen", or a hash that drifted: of the judged "plans",
                       \* or of the "recovery" artifacts
  (* files *)
  manifest,            \* the sample manifest: "none", "frozen" or "other"
  responses,           \* record of each answer
  failures,            \* requests with a failure file
  fixture, completion, scored,
  (* the command that runs *)
  pc, commit, left, flying, budget,
  asked,               \* commit that run_fixture read for itself
  (* history *)
  billed, losses

outside == <<head, clean, moves, source>>
files == <<manifest, responses, failures, fixture, completion, scored>>
local == <<pc, commit, left, flying, budget, asked>>
history == <<billed, losses>>
vars == <<outside, files, local, history>>

Answered == {r \in Requests : responses[r] # None}
CostOf(requests) == Total([r \in requests |-> responses[r].cost])
FixtureCost == IF fixture = None THEN 0 ELSE fixture.cost

Init ==
  /\ head \in Commits /\ clean = TRUE /\ moves = 0 /\ source = "frozen"
  /\ manifest = "none" /\ responses = [r \in Requests |-> None] /\ failures = {}
  /\ fixture = None /\ completion = None /\ scored = None
  /\ pc = "idle" /\ commit = None /\ left = {} /\ flying = {} /\ budget = 0 /\ asked = None
  /\ billed = 0 /\ losses = 0

Leave ==
  /\ pc' = "idle" /\ commit' = None /\ left' = {} /\ flying' = {}
  /\ budget' = 0 /\ asked' = None

Goto(from, to) == pc = from /\ pc' = to

\* The command raises or dies with a charge that no file records.
Lose(charge) ==
  /\ losses < MaxLosses /\ losses' = losses + 1 /\ billed' = billed + charge
  /\ Leave /\ UNCHANGED <<outside, files>>

-----------------------------------------------------------------------------
(* freeze-sample *)

\* Both plans and the recovery artifacts are bound by hash.  A manifest that differs
\* from the sample is neither overwritten nor used.
FreezeSample ==
  /\ pc = "idle" /\ source # "plans" /\ manifest # "other"
  /\ manifest' = "frozen"
  /\ UNCHANGED <<outside, responses, failures, fixture, completion, scored, local, history>>

SampleCurrent == manifest = "frozen" /\ source # "plans"

-----------------------------------------------------------------------------
(* fixture, alone or inside execute *)

BoughtAgain == fixture # None => fixture.by # head      \* mutant of NoReceipt
NoReceipt == fixture = None

\* run_fixture reads HEAD for itself.  A receipt of that commit is used again, one
\* of another commit makes it raise.
EnterFixture ==
  /\ pc \in {"idle", "prepare"} /\ clean /\ source # "recovery"
  /\ \/ NoReceipt /\ pc' = "fixture" /\ asked' = head
     \/ fixture # None /\ fixture.by = head /\ pc = "prepare" /\ pc' = "check"
        /\ UNCHANGED asked
  /\ UNCHANGED <<outside, files, commit, left, flying, budget, history>>

PassFixture(c) ==
  /\ c <= FixtureCap
  /\ Goto("fixture", IF commit = None THEN "idle" ELSE "check")
  /\ fixture' = [by |-> asked, cost |-> c] /\ billed' = billed + c /\ asked' = None
  /\ UNCHANGED <<outside, manifest, responses, failures, completion, scored, commit, left,
                 flying, budget, losses>>

\* A failed fixture and one above its cap leave no receipt.
LoseFixture(c) == pc = "fixture" /\ Lose(c)

-----------------------------------------------------------------------------
(* execute *)

StartExecute ==
  /\ clean /\ SampleCurrent
  /\ Goto("idle", "prepare") /\ commit' = head
  /\ UNCHANGED <<outside, files, left, flying, budget, asked, history>>

Spent == PriorSpent + FixtureCost + CostOf(Answered)

NotFrozen == failures = {}

Pending == Sample \ Answered

\* The records of this commit, no failure file, and a reservation for every call.
StartCalls ==
  /\ \A r \in Answered : responses[r].by = commit
  /\ NotFrozen
  /\ Spent + Cardinality(Pending) * Reservation <= TotalCap
  /\ Goto("check", "calls") /\ left' = Pending /\ budget' = Spent
  /\ UNCHANGED <<outside, files, commit, flying, asked, history>>

Ask(r) ==
  /\ pc = "calls" /\ flying = {} /\ r \in left /\ \A q \in left : r <= q
  /\ budget + Reservation <= TotalCap
  /\ flying' = {r} /\ left' = left \ {r}
  /\ UNCHANGED <<outside, files, pc, commit, budget, asked, history>>

SaveAnswer(r, c) ==
  /\ pc = "calls" /\ r \in flying /\ c <= Reservation
  /\ responses' = [responses EXCEPT ![r] = [by |-> commit, cost |-> c]]
  /\ flying' = {} /\ budget' = budget + c /\ billed' = billed + c
  /\ UNCHANGED <<outside, manifest, failures, fixture, completion, scored, pc, commit, left,
                 asked, losses>>

\* Any exception of the call: a failure file at the full reservation, whatever the
\* provider charged for the reply that was refused, then it raises.
SaveFailure(r, c) ==
  /\ pc = "calls" /\ r \in flying
  /\ failures' = failures \cup {r} /\ billed' = billed + c
  /\ Leave
  /\ UNCHANGED <<outside, manifest, responses, fixture, completion, scored, losses>>

\* An answer above its reservation raises before it is saved, and so does a crash.
LoseAnswer(c) == pc = "calls" /\ flying # {} /\ Lose(c)

CompleteAudit ==
  /\ pc = "calls" /\ left = {} /\ flying = {}
  /\ completion' = [by |-> commit, total |-> budget]
  /\ Leave
  /\ UNCHANGED <<outside, manifest, responses, failures, fixture, scored, history>>

\* One of the refusals above, or a crash that costs nothing.
Refuse ==
  /\ pc \in {"prepare", "check", "calls"} /\ flying = {}
  /\ Leave /\ UNCHANGED <<outside, files, history>>

-----------------------------------------------------------------------------
(* analyze *)

Loads ==
  /\ completion # None
  /\ \A r \in Sample : responses[r] # None /\ responses[r].by = completion.by

Analyze ==
  /\ pc = "idle" /\ clean /\ SampleCurrent /\ source # "recovery" /\ Loads
  /\ scored' = [answers |-> [r \in Sample |-> responses[r]], by |-> completion.by,
                total |-> completion.total]
  /\ UNCHANGED <<outside, manifest, responses, failures, fixture, completion, local, history>>

-----------------------------------------------------------------------------

Change ==
  /\ moves < MaxMoves /\ moves' = moves + 1
  /\ \/ head' \in Commits \ {head} /\ clean' = TRUE /\ UNCHANGED <<source, manifest>>
     \/ clean' = ~clean /\ UNCHANGED <<head, source, manifest>>
     \/ source' \in {"plans", "recovery"} /\ UNCHANGED <<head, clean, manifest>>
     \/ manifest' = "other" /\ UNCHANGED <<head, clean, source>>
  /\ UNCHANGED <<responses, failures, fixture, completion, scored, local, history>>

Next ==
  \/ FreezeSample \/ EnterFixture \/ StartExecute \/ StartCalls \/ CompleteAudit \/ Refuse
  \/ Analyze \/ Change
  \/ \E c \in Costs : PassFixture(c) \/ LoseFixture(c) \/ LoseAnswer(c)
  \/ \E r \in Requests, c \in Costs : SaveAnswer(r, c)
  \/ \E r \in Requests, c \in Costs \cup {0} : SaveFailure(r, c)
  \/ \E r \in Requests : Ask(r)

Spec == Init /\ [][Next]_vars

-----------------------------------------------------------------------------
(* Properties *)

TypeOK ==
  /\ head \in Commits /\ clean \in BOOLEAN /\ source \in {"frozen", "plans", "recovery"}
  /\ manifest \in {"none", "frozen", "other"} /\ failures \subseteq Requests
  /\ responses \in [Requests -> Records \cup {None}]
  /\ pc \in {"idle", "prepare", "fixture", "check", "calls"}
  /\ commit \in Commits \cup {None} /\ asked \in Commits \cup {None}
  /\ left \subseteq Requests /\ flying \subseteq Requests
  /\ budget \in Nat /\ billed \in Nat /\ losses \in 0 .. MaxLosses

Recorded ==
  PriorSpent + FixtureCost + CostOf(Answered) + Reservation * Cardinality(failures)

\* Over restarts, with the first attempt, the fixture, the failure and the call in
\* flight, what is recorded stays within the total cap.
RecordedWithinTotal == Recorded + Reservation * Cardinality(flying) <= TotalCap

\* What the files miss of the provider's charges is one charge for each command that
\* died or raised with it, and once what a refused reply cost above the reservation its
\* failure file books: the first failure freezes the audit, so there is no second.
Dearest == CHOOSE c \in Costs : \A d \in Costs : d <= c
Unbooked == IF failures # {} /\ Dearest > Reservation THEN Dearest - Reservation ELSE 0
LossIsBounded == PriorSpent + billed <= Recorded + (losses * Dearest + Unbooked)

\* The agreement is computed over the whole sample, on answers of one commit, which
\* are what its receipt says they cost.
AuditIsWhole ==
  scored # None =>
    /\ \A r \in Sample : scored.answers[r].by = scored.by
    /\ scored.total = PriorSpent + FixtureCost
                        + Total([r \in Sample |-> scored.answers[r].cost])
=============================================================================
