-------------------------- MODULE InferredExecutor --------------------------
(***************************************************************************)
(* scripts/run_inferred_admissibility_experiment.py for one provider: the  *)
(* commands provider-fixture, execute, canonicalize and score.  execute    *)
(* appends answers to a JSONL checkpoint without a lock, so concurrent     *)
(* invocations may buy one case twice.  canonicalize then writes the       *)
(* primary view, the first row committed for each case, and a sensitivity  *)
(* view with the last; score reads the checkpoint or one of the views.     *)
(***************************************************************************)
EXTENDS Counting, Sequences

CONSTANTS
  Procs,       \* invocations of the runner that may exist at once
  Auditors,    \* those that canonicalize and score
  N,           \* cases of the frozen sample, in order 1, 2, .., N
  Reserve,     \* _estimated_request_reserve of each case
  HardCap,     \* binding.hard_cap_usd
  FixtureCap,  \* fixture_hard_cap_usd_per_provider
  Costs,       \* what an answer may cost once its usage is known
  Answers,     \* predictions that differ
  Contracts,   \* hashes the protocol file may have
  None,        \* "the file does not exist"
  MaxFaults,   \* bound: failing calls
  MaxLosses,   \* bound: crashes and interrupts
  MaxEdits     \* bound: edits of the protocol file

\* Two canonicalize commands at once would share their temporary files.
ASSUME InferredAssumption ==
  /\ Auditors \subseteq Procs /\ \A p, q \in Auditors : p = q
  /\ N \in Nat \ {0} /\ Reserve \in [1 .. N -> Nat]
  /\ HardCap \in Nat /\ FixtureCap \in Nat /\ Costs \subseteq Nat
  /\ None \notin Contracts
  /\ MaxFaults \in Nat /\ MaxLosses \in Nat /\ MaxEdits \in Nat

VARIABLES
  (* files *)
  receipt,      \* contract of the fixture receipt, or None
  receiptCost,  \* its cost_usd
  log,          \* rows of the response checkpoint
  failures,     \* what the failure log says of which case
  primary,      \* primary_first_committed, by case; <<>>: not written
  sensitivity,  \* sensitivity_last_committed, by case
  audit,        \* <<rows, source>>: counted rows, hashed checkpoint; <<>>
  score,        \* <<directory, predictions>>; <<>>
  contract,     \* hash of the protocol file
  (* local state of each process *)
  pc,           \* where it is
  completed,    \* completed
  spent,        \* spent
  view,         \* records, as read
  source,       \* the directory a score command reads
  (* bounded events *)
  faults, losses, edits

files == <<receipt, receiptCost, log, failures, primary, sensitivity, audit, score>>
local == <<pc, completed, spent, view, source>>
events == <<faults, losses, edits>>
vars == <<files, contract, local, events>>

-----------------------------------------------------------------------------
Cases == 1 .. N
Rows == [case : Cases, contract : Contracts, cost : Nat, answer : Answers]

Spent(rows) == Total([i \in DOMAIN rows |-> rows[i].cost])

\* Positions of a case, the cases answered, the first and the last row of each.
At(rows, c) == {i \in DOMAIN rows : rows[i].case = c}
Answered(rows) == {c \in Cases : At(rows, c) # {}}
Covers(rows) == Answered(rows) = Cases
Distinct(rows) == \A i, j \in DOMAIN rows : rows[i].case = rows[j].case => i = j
Valid(rows) == \A i \in DOMAIN rows : rows[i].contract = contract

FirstAt(rows, c) == CHOOSE i \in At(rows, c) : \A j \in At(rows, c) : i <= j
LastAt(rows, c) == CHOOSE i \in At(rows, c) : \A j \in At(rows, c) : j <= i
Firsts(rows) == [c \in Cases |-> rows[FirstAt(rows, c)]]
Lasts(rows) == [c \in Cases |-> rows[LastAt(rows, c)]]

TypeOK ==
  /\ receipt \in Contracts \cup {None} /\ receiptCost \in Nat
  /\ log \in Seq(Rows)
  /\ failures \subseteq Cases \X {"transport", "contract"}
  /\ primary \in Seq(Rows) /\ sensitivity \in Seq(Rows)
  /\ audit \in {<<>>} \cup Seq(Rows) \X Seq(Rows)
  /\ score \in {<<>>} \cup {"log", "primary", "sensitivity"} \X [Cases -> Rows]
  /\ contract \in Contracts
  /\ pc \in [Procs -> {"idle", "fixture", "loop", "sent", "primary", "sensitivity",
                       "audit", "score"}]
  /\ completed \in [Procs -> SUBSET Cases] /\ spent \in [Procs -> Nat]
  /\ view \in [Procs -> Seq(Rows)]
  /\ source \in [Procs -> {"log", "primary", "sensitivity"}]
  /\ faults \in Nat /\ losses \in Nat /\ edits \in Nat

Init ==
  /\ receipt = None /\ receiptCost = 0 /\ log = <<>> /\ failures = {}
  /\ primary = <<>> /\ sensitivity = <<>> /\ audit = <<>> /\ score = <<>>
  /\ contract \in Contracts
  /\ pc = [p \in Procs |-> "idle"] /\ completed = [p \in Procs |-> {}]
  /\ spent = [p \in Procs |-> 0] /\ view = [p \in Procs |-> <<>>]
  /\ source = [p \in Procs |-> "log"]
  /\ faults = 0 /\ losses = 0 /\ edits = 0

Goto(p, from, to) ==
  /\ pc[p] = from
  /\ pc' = [pc EXCEPT ![p] = to]

\* The command ends, returning or raising, and its memory is gone.
Leave(p) ==
  /\ pc' = [pc EXCEPT ![p] = "idle"]
  /\ completed' = [completed EXCEPT ![p] = {}]
  /\ spent' = [spent EXCEPT ![p] = 0]
  /\ view' = [view EXCEPT ![p] = <<>>]
  /\ source' = [source EXCEPT ![p] = "log"]

Fault == faults < MaxFaults /\ faults' = faults + 1 /\ UNCHANGED <<losses, edits>>

-----------------------------------------------------------------------------
(* provider-fixture *)

\* A receipt that exists is returned or refused, never renewed.
StartFixture(p) ==
  /\ receipt = None
  /\ Goto(p, "idle", "fixture")
  /\ UNCHANGED <<files, contract, completed, spent, view, source, events>>

\* The receipt is written first; a cost above the fixture cap raises after it.
WriteReceipt(p, c) ==
  /\ pc[p] = "fixture"
  /\ receipt' = contract /\ receiptCost' = c
  /\ Leave(p)
  /\ UNCHANGED <<log, failures, primary, sensitivity, audit, score, contract, events>>

FixtureFails(p) ==
  /\ pc[p] = "fixture" /\ Fault
  /\ Leave(p)
  /\ UNCHANGED <<files, contract>>

-----------------------------------------------------------------------------
(* execute *)

\* validate_provider_fixture_receipt.
ReceiptAccepted == receipt = contract

\* What execute_provider asks of the checkpoint before it calls anybody.
Resumable == Distinct(log) /\ Valid(log) /\ Spent(log) <= HardCap

NothingYet == {}                 \* mutant of AlreadyAnswered: begins again
AlreadyAnswered == Answered(log)

SpentBefore == Spent(log)

StartExecute(p) ==
  /\ ReceiptAccepted /\ Resumable
  /\ Goto(p, "idle", "loop")
  /\ completed' = [completed EXCEPT ![p] = AlreadyAnswered]
  /\ spent' = [spent EXCEPT ![p] = SpentBefore]
  /\ UNCHANGED <<files, contract, view, source, events>>

\* The case the loop stands at.
Turn(p, c) ==
  /\ c \in Cases \ completed[p]
  /\ \A d \in Cases \ completed[p] : c <= d

Request(p, c) ==
  /\ Turn(p, c) /\ spent[p] + Reserve[c] <= HardCap
  /\ Goto(p, "loop", "sent")
  /\ UNCHANGED <<files, contract, completed, spent, view, source, events>>

StopAtCap(p, c) ==
  /\ pc[p] = "loop" /\ Turn(p, c) /\ spent[p] + Reserve[c] > HardCap
  /\ Leave(p)
  /\ UNCHANGED <<files, contract, events>>

Answer(p, c, cost, answer) ==
  /\ pc[p] = "sent" /\ Turn(p, c)
  /\ log' = Append(log, [case |-> c, contract |-> contract, cost |-> cost,
                         answer |-> answer])
  /\ UNCHANGED <<receipt, receiptCost, failures, primary, sensitivity, audit, score,
                 contract, events>>

SaveRow(p, c, cost, answer) ==
  /\ Answer(p, c, cost, answer) /\ spent[p] + cost <= HardCap
  /\ pc' = [pc EXCEPT ![p] = "loop"]
  /\ completed' = [completed EXCEPT ![p] = @ \cup {c}]
  /\ spent' = [spent EXCEPT ![p] = @ + cost]
  /\ UNCHANGED <<view, source>>

\* "hard cap was exceeded": raised after the answer is saved.
SaveLastRow(p, c, cost, answer) ==
  /\ Answer(p, c, cost, answer) /\ spent[p] + cost > HardCap
  /\ Leave(p)

\* A transport error, or an answer outside the contract.
CallFails(p, c, kind) ==
  /\ pc[p] = "sent" /\ Turn(p, c) /\ Fault
  /\ failures' = failures \cup {<<c, kind>>}
  /\ Leave(p)
  /\ UNCHANGED <<receipt, receiptCost, log, primary, sensitivity, audit, score, contract>>

EndExecute(p) ==
  /\ pc[p] = "loop" /\ completed[p] = Cases
  /\ Leave(p)
  /\ UNCHANGED <<files, contract, events>>

-----------------------------------------------------------------------------
(* canonicalize: two views and an audit, from one read of the checkpoint *)

Complete(rows) == Covers(rows) /\ Valid(rows)

StartCanonicalize(p) ==
  /\ p \in Auditors /\ Complete(log)
  /\ Goto(p, "idle", "primary")
  /\ view' = [view EXCEPT ![p] = log]
  /\ UNCHANGED <<files, contract, completed, spent, source, events>>

LatestOf(rows) == Lasts(rows)   \* mutant of PrimaryOf: the newest row wins
PrimaryOf(rows) == Firsts(rows)

WritePrimary(p) ==
  /\ Goto(p, "primary", "sensitivity")
  /\ primary' = PrimaryOf(view[p])
  /\ UNCHANGED <<receipt, receiptCost, log, failures, sensitivity, audit, score,
                 contract, completed, spent, view, source, events>>

WriteSensitivity(p) ==
  /\ Goto(p, "sensitivity", "audit")
  /\ sensitivity' = Lasts(view[p])
  /\ UNCHANGED <<receipt, receiptCost, log, failures, primary, audit, score, contract,
                 completed, spent, view, source, events>>

\* The hash of the checkpoint is taken now, the counts are those of the read.
WriteAudit(p) ==
  /\ pc[p] = "audit"
  /\ audit' = <<view[p], log>>
  /\ Leave(p)
  /\ UNCHANGED <<receipt, receiptCost, log, failures, primary, sensitivity, score,
                 contract, events>>

-----------------------------------------------------------------------------
(* score: from the raw checkpoint or from a view *)

AnyRows(rows) == Complete(rows)  \* mutant of Scorable: duplicates are accepted
Scorable(rows) == Distinct(rows) /\ Complete(rows)

StartScore(p, f, rows) ==
  /\ p \in Auditors /\ Scorable(rows)
  /\ Goto(p, "idle", "score")
  /\ view' = [view EXCEPT ![p] = rows] /\ source' = [source EXCEPT ![p] = f]
  /\ UNCHANGED <<files, contract, completed, spent, events>>

\* _predictions_from_records keeps the last row it meets.
WriteScore(p) ==
  /\ pc[p] = "score"
  /\ score' = <<source[p], Lasts(view[p])>>
  /\ Leave(p)
  /\ UNCHANGED <<receipt, receiptCost, log, failures, primary, sensitivity, audit,
                 contract, events>>

-----------------------------------------------------------------------------
\* The process dies, or a KeyboardInterrupt passes "except Exception".
Crash(p) ==
  /\ pc[p] # "idle" /\ losses < MaxLosses
  /\ losses' = losses + 1
  /\ Leave(p)
  /\ UNCHANGED <<files, contract, faults, edits>>

EditProtocol ==
  /\ edits < MaxEdits /\ edits' = edits + 1
  /\ contract' \in Contracts \ {contract}
  /\ UNCHANGED <<files, local, faults, losses>>

Fixture(p) ==
  \/ StartFixture(p) \/ FixtureFails(p)
  \/ \E c \in Costs : WriteReceipt(p, c)

Execute(p) ==
  \/ EndExecute(p)
  \/ \E c \in Cases :
       \/ Request(p, c) \/ StopAtCap(p, c)
       \/ \E kind \in {"transport", "contract"} : CallFails(p, c, kind)
       \/ \E cost \in Costs, answer \in Answers :
            SaveRow(p, c, cost, answer) \/ SaveLastRow(p, c, cost, answer)

Canonicalize(p) == WritePrimary(p) \/ WriteSensitivity(p) \/ WriteAudit(p)

Score(p) ==
  \/ StartScore(p, "log", log) \/ StartScore(p, "primary", primary)
  \/ StartScore(p, "sensitivity", sensitivity) \/ WriteScore(p)

Next ==
  \/ \E p \in Procs : \/ Fixture(p) \/ StartExecute(p) \/ Execute(p)
                      \/ StartCanonicalize(p) \/ Canonicalize(p)
                      \/ Score(p) \/ Crash(p)
  \/ EditProtocol

Spec == Init /\ [][Next]_vars

\* Calls return within their timeouts and attempts; the fixture and the panel
\* are invoked again after they stopped.
OperatedSpec ==
  /\ Spec
  /\ \A p \in Procs : WF_vars(Fixture(p)) /\ WF_vars(Execute(p)) /\ SF_vars(StartExecute(p))

-----------------------------------------------------------------------------
(* Properties *)

OneRunner == \A p, q \in Procs : p = q

\* Once written, the primary view never changes: a later canonicalize command
\* selects the same rows, whatever concurrent invocations appended in between.
PrimaryStays == primary # <<>> => primary' = primary
PrimaryIsStable == [][PrimaryStays]_vars

\* The checkpoint whose hash the audit holds yields the published primary view,
\* although it is hashed after it was read and may have grown.
AuditNamesPrimary == audit # <<>> => primary = Firsts(audit[2])

\* What is scored as primary are the first committed answers, from the views or
\* from the raw checkpoint, and remains so while the checkpoint grows.
ScoresFirstCommitted ==
  score # <<>> /\ score[1] # "sensitivity" => score[2] = Firsts(log)

\* One invocation at a time buys no case twice, so every start can resume.
DistinctCases == Distinct(log)

\* The cap is passed by the last answer at most, which was reserved within it.
Earlier(rows) == SubSeq(rows, 1, Len(rows) - 1)
OverrunByOne ==
  log # <<>> => Spent(Earlier(log)) + Reserve[log[Len(log)].case] <= HardCap

\* An answer outside the contract is not bought again ("neither scored nor
\* selectively rerun").
Rejected == {c \in Cases : <<c, "contract">> \in failures} \ Answered(log)
RejectedStays == \A c \in Rejected : c \notin Answered(log')
NoSelectiveRerun == [][RejectedStays]_vars

\* An interrupted panel is finished by later invocations, or meets its cap,
\* unless the protocol it is bound to was edited.
CapReached ==
  \/ Spent(log) > HardCap
  \/ \E c \in Cases \ Answered(log) : Spent(log) + Reserve[c] > HardCap
Finishes == <>(Covers(log) \/ CapReached \/ edits > 0)
=============================================================================
