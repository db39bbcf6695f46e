--------------------------- MODULE TwoReaderJudge ---------------------------
(***************************************************************************)
(* scripts/run_natural_two_reader_judge.py: the semantic judge of a sample *)
(* of cases, recovered from an earlier attempt.  Its commands import that  *)
(* attempt's answers, freeze a plan, try a fixture, execute and score, and *)
(* each of them trusts the receipts of those before it.  The stage itself  *)
(* is StageExecutor; here are its answers, failures and budget.            *)
(***************************************************************************)
EXTENDS Counting

CONSTANTS
  Cases, MemOps,      \* the population, and its cases of the source memops
  Rank,               \* order of the salted hashes of the memops cases
  SampleCount,        \* memops cases in the sample
  Readers, Arms,
  Read,               \* the answer of each reader to each case on each arm
  Bound,              \* _conservative_call_cost of each request
  Costs,              \* what an answer may cost
  Prior, PriorCost,   \* requests answered by the earlier attempt, and at what cost
  PriorFailed,        \* requests that failed in it, of the model contract
  PriorFixture,       \* cost of its fixture
  FixtureBound, FixtureCap, PlanCap, ProviderCap, TotalCap,
  Recovery,           \* maximum_model_contract_recovery_attempts
  Commits, Descendants, \* commits, and those after the passed analysis
  Workers,
  None,               \* no file, no commit
  MaxMoves            \* bound: changes of the working tree and of the sources

\* select_cases: all cases of rhelm, and the memops cases of lowest rank.
Sampled == {c \in MemOps : Cardinality({d \in MemOps : Rank[d] < Rank[c]}) < SampleCount}
Selected == (Cases \ MemOps) \cup Sampled

\* _judge_plan names a request by what the judge sees: the case and an answer,
\* never the reader or the arm.
RequestOf(reader, case, arm) == <<case, Read[reader, case, arm]>>
Requests == {RequestOf(p, c, a) : p \in Readers, c \in Selected, a \in Arms}

Records == [by : Commits, prior : BOOLEAN, cost : Nat]
FixtureReceipts == [by : Commits, cost : Nat]

JudgeAssumption ==
  /\ IsFiniteSet(Cases) /\ MemOps \subseteq Cases /\ Rank \in [MemOps -> Nat]
  /\ SampleCount \in Nat /\ IsFiniteSet(Requests)
  /\ Prior \subseteq Requests /\ PriorFailed \subseteq Requests \ Prior
  /\ Bound \in [Requests -> Nat] /\ PriorCost \in [Prior -> Nat]
  /\ Costs \subseteq Nat /\ Descendants \subseteq Commits
  /\ {PriorFixture, FixtureBound, FixtureCap, PlanCap, ProviderCap, TotalCap} \subseteq Nat
  /\ {Recovery, Workers, MaxMoves} \subseteq Nat
  /\ None \notin Commits \cup Records \cup FixtureReceipts

VARIABLES
  head, clean,   \* HEAD, and whether the contract paths have no changes
  source,        \* "frozen", or what drifted in the directories it reads: the
                 \* "receipts", the "answers" of the readers, the "prior" attempt
  moves,
  (* the runtime directory *)
  responses,     \* the record of each answered request
  failures,      \* failure files
  imported, plan, fixture, attestation, completion, sample,
  scored,        \* the score directory
  (* local state of the command that runs *)
  pc, commit, left, flying, budget, cap, failed,
  halted         \* history: an execute command stopped at a provider failure

outside == <<head, clean, source, moves>>
stage == <<responses, failures, completion>>
receipts == <<imported, plan, fixture, attestation, sample, scored>>
local == <<pc, commit, left, flying, budget, cap, failed>>
vars == <<outside, stage, receipts, local, halted>>

Answered == {r \in Requests : responses[r] # None}
ImportedOf(by) == [r \in Prior |-> [by |-> by, prior |-> TRUE, cost |-> PriorCost[r]]]
PriorFailures == {[request |-> r, nr |-> 0, contract |-> TRUE, terminal |-> FALSE,
                   cost |-> Bound[r]] : r \in PriorFailed}

\* The frozen protocol is far from its total cap after the earlier attempt and one call
\* of the fixture, whose receipt is written before its cost is compared with a cap.
PriorFits ==
  \A c \in Costs \cup {0} :
    PriorFixture + c + Total(PriorCost) + Total([f \in PriorFailures |-> f.cost]) <= TotalCap

CostOf(requests) == Total([r \in requests |-> responses[r].cost])
FailureCost == Total([f \in failures |-> f.cost])
FixtureCost == IF fixture = None THEN 0 ELSE fixture.cost
Bounds(requests) == Total([r \in requests |-> Bound[r]])

Init ==
  /\ head \in Descendants /\ clean = TRUE /\ source = "frozen" /\ moves = 0
  /\ responses = [r \in Requests |-> None] /\ failures = {} /\ completion = None
  /\ imported = None /\ plan = None /\ fixture = None /\ attestation = None
  /\ sample = None /\ scored = None
  /\ pc = "idle" /\ commit = None /\ left = {} /\ flying = {}
  /\ budget = 0 /\ cap = 0 /\ failed = FALSE /\ halted = FALSE

\* The command ends, returning or raising.
Leave ==
  /\ pc' = "idle" /\ commit' = None /\ left' = {} /\ flying' = {}
  /\ budget' = 0 /\ cap' = 0 /\ failed' = FALSE

Goto(from, to) == pc = from /\ pc' = to

\* _require_clean_contract
CleanContract == clean /\ head \in Descendants

-----------------------------------------------------------------------------
(* What a command finds current *)

\* The answers of the readers decide the identity of the sample's requests.
PlanBuilds == source # "answers"
SourceValid == source = "frozen" \/ source = "prior"

PlanCurrent == plan = head /\ PlanBuilds

\* The receipt against the directories as they are now.
ImportCurrent ==
  /\ imported # None /\ imported.by = head
  /\ imported.responses = [r \in Answered |-> responses[r]]
  /\ imported.failures = failures

Attested(by) == [by |-> by, plan |-> plan, imported |-> imported, fixture |-> fixture]
FixtureCurrent ==
  attestation # None /\ attestation = Attested(head) /\ fixture.cost <= FixtureCap

-----------------------------------------------------------------------------
(* import *)

StartImport ==
  /\ CleanContract /\ source = "frozen"
  /\ Goto("idle", "import")
  /\ commit' = head /\ left' = Prior
  /\ UNCHANGED <<outside, stage, receipts, flying, budget, cap, failed, halted>>

\* An answer that is there already must be the same one.
ImportResponse(r) ==
  /\ pc = "import" /\ r \in left
  /\ responses[r] \in {None, ImportedOf(commit)[r]}
  /\ responses' = [responses EXCEPT ![r] = ImportedOf(commit)[r]]
  /\ left' = left \ {r}
  /\ UNCHANGED <<outside, failures, completion, receipts, pc, commit, flying, budget, cap,
                 failed, halted>>

RefuseImport(r) ==
  /\ pc = "import" /\ r \in left
  /\ responses[r] \notin {None, ImportedOf(commit)[r]}
  /\ Leave /\ UNCHANGED <<outside, stage, receipts, halted>>

\* The failures are copied, then the receipt names both sets of files.
WriteImport ==
  /\ pc = "import" /\ left = {}
  /\ failures' = failures \cup PriorFailures
  /\ imported' = [by |-> commit, responses |-> [r \in Prior |-> responses[r]],
                  failures |-> PriorFailures]
  /\ Leave
  /\ UNCHANGED <<outside, responses, completion, plan, fixture, attestation, sample, scored,
                 halted>>

-----------------------------------------------------------------------------
(* plan *)

WritePlan ==
  /\ pc = "idle" /\ SourceValid /\ Bounds(Requests) <= PlanCap
  /\ plan' = head
  /\ UNCHANGED <<outside, stage, imported, fixture, attestation, sample, scored, local, halted>>

-----------------------------------------------------------------------------
(* fixture *)

\* A receipt of this commit is used again, one of another makes it raise.
StartFixture ==
  /\ CleanContract /\ PlanCurrent /\ ImportCurrent /\ FixtureBound <= FixtureCap
  /\ pc = "idle"
  /\ \/ fixture = None /\ pc' = "fixture"
     \/ fixture # None /\ fixture.by = head /\ pc' = "attest"
  /\ commit' = head
  /\ UNCHANGED <<outside, stage, receipts, left, flying, budget, cap, failed, halted>>

PassFixture(c) ==
  /\ Goto("fixture", "attest")
  /\ fixture' = [by |-> commit, cost |-> c]
  /\ UNCHANGED <<outside, stage, imported, plan, attestation, sample, scored, commit, left,
                 flying, budget, cap, failed, halted>>

\* Above its cap it raises, with its receipt written.
Attest ==
  /\ pc = "attest"
  /\ attestation' = IF FixtureCost <= FixtureCap THEN Attested(commit) ELSE attestation
  /\ Leave
  /\ UNCHANGED <<outside, stage, imported, plan, fixture, sample, scored, halted>>

-----------------------------------------------------------------------------
(* execute *)

FixtureForgotten == TotalCap - PriorFixture - Total(PriorCost)  \* mutant of ResponseCap
ResponseCap == TotalCap - PriorFixture - Total(PriorCost) - FixtureCost

Missing == Requests \ Answered

\* Imported answers were paid from another budget; every failure counts.
BudgetSpent == CostOf({r \in Answered : ~responses[r].prior}) + FailureCost

StartExecute ==
  /\ CleanContract /\ PlanCurrent /\ ImportCurrent /\ FixtureCurrent
  /\ \A r \in Answered : responses[r].by = head
  /\ \A f \in failures : f.request \in Missing => ~f.terminal
  /\ BudgetSpent <= ResponseCap
  /\ CostOf(Answered) + Bounds(Missing) <= ProviderCap
  /\ Goto("idle", "execute")
  /\ commit' = head /\ left' = Missing
  /\ budget' = BudgetSpent /\ cap' = ResponseCap
  /\ UNCHANGED <<outside, stage, receipts, flying, failed, halted>>

Fits(r) == budget + Bounds(flying) + Bound[r] <= cap

Submit(r) ==
  /\ pc = "execute" /\ ~failed /\ r \in left
  /\ Cardinality(flying) < Workers /\ Fits(r)
  /\ left' = left \ {r} /\ flying' = flying \cup {r}
  /\ UNCHANGED <<outside, stage, receipts, pc, commit, budget, cap, failed, halted>>

SaveAnswer(r, c) ==
  /\ pc = "execute" /\ r \in flying /\ c <= Bound[r]
  /\ responses' = [responses EXCEPT ![r] = [by |-> commit, prior |-> FALSE, cost |-> c]]
  /\ flying' = flying \ {r} /\ budget' = budget + c
  /\ UNCHANGED <<outside, failures, completion, receipts, pc, commit, left, cap, failed, halted>>

\* A refusal by the provider and a second answer outside the contract are terminal;
\* a rate limit is free.
Contracts(r) == Cardinality({f \in failures : f.request = r /\ f.contract})
SaveFailure(r, class) ==
  /\ pc = "execute" /\ r \in flying
  /\ LET cost == IF class = "rate_limit" THEN 0 ELSE Bound[r] IN
       /\ failures' = failures \cup
            {[request |-> r, nr |-> Cardinality({f \in failures : f.request = r}),
              contract |-> class = "model_contract",
              terminal |-> \/ class = "provider_terminal"
                           \/ class = "model_contract" /\ Contracts(r) >= Recovery,
              cost |-> cost]}
       /\ budget' = budget + cost
  /\ flying' = flying \ {r} /\ failed' = TRUE
  /\ UNCHANGED <<outside, responses, completion, receipts, pc, commit, left, cap, halted>>

\* Drained after a failure, or the next request does not fit.
StopExecute ==
  /\ pc = "execute" /\ flying = {}
  /\ failed \/ \E r \in left : ~Fits(r)
  /\ halted' = (halted \/ failed)
  /\ Leave /\ UNCHANGED <<outside, stage, receipts>>

\* The receipt of the stage names HEAD as it is now.
CompleteStage ==
  /\ Goto("execute", "close") /\ ~failed /\ left = {} /\ flying = {}
  /\ completion' = head
  /\ UNCHANGED <<outside, responses, failures, receipts, commit, left, flying, budget, cap,
                 failed, halted>>

TotalCost == PriorFixture + FixtureCost + CostOf(Answered) + FailureCost

WriteSample ==
  /\ pc = "close" /\ TotalCost <= TotalCap
  /\ sample' = [by |-> commit, imported |-> imported, completion |-> completion,
                total |-> TotalCost]
  /\ Leave
  /\ UNCHANGED <<outside, stage, imported, plan, fixture, attestation, scored, halted>>

-----------------------------------------------------------------------------
(* score *)

SampleCurrent ==
  /\ sample # None /\ sample.completion = completion /\ sample.imported = imported
  /\ sample.total <= TotalCap

\* _load_judge_responses binds every answer to the commit of the completion.
Loads == \A r \in Requests : responses[r] # None /\ responses[r].by = completion

Score ==
  /\ pc = "idle" /\ SourceValid /\ PlanBuilds /\ SampleCurrent /\ Loads
  /\ scored' = [by |-> completion, answers |-> responses, imported |-> imported]
  /\ UNCHANGED <<outside, stage, imported, plan, fixture, attestation, sample, local, halted>>

-----------------------------------------------------------------------------

\* The process ends between two steps, or the fixture's call fails: what was in
\* flight is lost.
Crash ==
  /\ pc # "idle"
  /\ Leave /\ UNCHANGED <<outside, stage, receipts, halted>>

\* The working tree, HEAD and the directories that are read change at any time.
Change ==
  /\ moves < MaxMoves /\ moves' = moves + 1
  /\ \/ head' \in Commits \ {head} /\ clean' = TRUE /\ UNCHANGED source
     \/ clean' = ~clean /\ UNCHANGED <<head, source>>
     \/ source' \in {"frozen", "receipts", "answers", "prior"} /\ UNCHANGED <<head, clean>>
  /\ UNCHANGED <<stage, receipts, local, halted>>

Import == StartImport \/ WriteImport \/ \E r \in Prior : ImportResponse(r) \/ RefuseImport(r)
Fixture == StartFixture \/ Attest \/ \E c \in Costs : PassFixture(c)
Classes == {"transport", "rate_limit", "provider_terminal", "model_contract"}
Execute ==
  \/ StartExecute \/ StopExecute \/ CompleteStage \/ WriteSample
  \/ \E r \in Requests : \/ Submit(r) \/ \E c \in Costs : SaveAnswer(r, c)
                         \/ \E class \in Classes : SaveFailure(r, class)

Next == Import \/ WritePlan \/ Fixture \/ Execute \/ Score \/ Crash \/ Change
Spec == Init /\ [][Next]_vars

-----------------------------------------------------------------------------
(* Properties *)

TypeOK ==
  /\ head \in Commits /\ clean \in BOOLEAN
  /\ source \in {"frozen", "receipts", "answers", "prior"}
  /\ responses \in [Requests -> Records \cup {None}]
  /\ plan \in Commits \cup {None} /\ completion \in Commits \cup {None}
  /\ pc \in {"idle", "import", "fixture", "attest", "execute", "close"}
  /\ commit \in Commits \cup {None} /\ left \subseteq Requests /\ flying \subseteq Requests
  /\ budget \in Nat /\ cap \in Nat /\ failed \in BOOLEAN /\ halted \in BOOLEAN

\* A paid answer, imported or bought, is never bought again or rewritten, whatever
\* commands are interrupted and repeated on whatever commits.
AnswersKept == \A r \in Answered : responses'[r] = responses[r]
AnswersStay == [][AnswersKept]_vars

\* Fixtures, imported and new answers, failures and calls in flight stay together
\* within the total cap, though the stage knows only a cap that was derived from it.
RecordedWithinTotal ==
  PriorFixture + FixtureCost + CostOf(Answered) + FailureCost + Bounds(flying) <= TotalCap

\* What is scored was answered and completed on one commit, with the answers of the
\* earlier attempt as its receipt says, also when HEAD moves while calls run.
ScoredIsBound ==
  scored # None =>
    /\ \A r \in Requests : scored.answers[r].by = scored.by
    /\ \A r \in Prior : scored.answers[r] = scored.imported.responses[r]

\* "Provider failures stop new submissions; successful checkpoints remain reusable."
\* (docs/COST_AWARE_NATURAL_END_TO_END_PLAN.md).  After such a stop, with the checkout,
\* the plan and the fixture as they were, the next command still finds its import.
CheckpointsReusable ==
  /\ halted /\ pc = "idle" /\ PlanCurrent /\ FixtureCurrent
  /\ \A f \in failures : ~f.terminal
  => ImportCurrent
=============================================================================
