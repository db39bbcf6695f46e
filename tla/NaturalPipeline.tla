-------------------------- MODULE NaturalPipeline --------------------------
(***************************************************************************)
(* The stages of a natural route-to-reader experiment over one runtime     *)
(* directory: a bundle imported from an earlier protocol, the provider     *)
(* stages, the receipt that unlocks the judge, and the scores.  Purchase   *)
(* and budget inside a stage are StageExecutor; here a stage is its saved  *)
(* answers, its completion receipt and the commit its command started on.  *)
(***************************************************************************)
EXTENDS FiniteSets, Integers

CONSTANTS
  Stages, Judge,  \* provider stages, and the last of them
  Uses,           \* stages whose answers the plan of a stage is built from
  Requests,       \* requests of each stage
  Reused,         \* those that the earlier bundle answers
  Whole,          \* stages whose completion receipt is imported with them
  SamePlace,      \* the import creates the whole runtime, not just the stage
  Strict,         \* stages whose fixture must be of the commit that executes
  Gate,           \* what unlocks the judge: "none", "analysis" or "frozen"
  Commits, None,
  MaxMoves        \* bound: changes of the working tree

PipelineAssumption ==
  /\ IsFiniteSet(Stages) /\ Judge \in Stages /\ Uses \in [Stages -> SUBSET Stages]
  /\ \A s \in Stages : IsFiniteSet(Requests[s]) /\ Reused[s] \subseteq Requests[s]
  /\ \A s \in Whole : Reused[s] = Requests[s]
  /\ Reused[Judge] = {} /\ Judge \notin Whole
  /\ ~SamePlace => \A s \in Stages \ Whole : Reused[s] = {}
  /\ Whole \subseteq Stages /\ Strict \subseteq Stages /\ SamePlace \in BOOLEAN
  /\ Gate \in {"none", "analysis", "frozen"} /\ None \notin Commits /\ MaxMoves \in Nat

VARIABLES
  head, clean, moves,   \* HEAD; whether the contract paths have no changes
  (* the runtime directory *)
  answers,              \* commit of each saved answer of each stage
  completion,           \* commit of each completion receipt
  fixture,              \* commit of each fixture receipt
  staging,              \* the directory of an import that was not renamed yet
  analysis, gate,       \* manifest of the deterministic analysis; its receipt
  scored,
  (* written by the operator and committed *)
  pinned,               \* completions the analysis or judge protocol names
  (* commands that run: one of each *)
  runner,               \* commit of the execute command of each stage
  importing, analysing

files == <<answers, completion, fixture>>
triage == <<analysis, gate, pinned, analysing>>
outside == <<head, clean, moves>>
import == <<staging, importing>>
vars == <<outside, files, triage, import, scored, runner>>

Inputs == Uses[Judge]
Empty == [s \in Stages |-> [r \in Requests[s] |-> None]]
Nowhere == [s \in Stages |-> None]

Init ==
  /\ head \in Commits /\ clean = TRUE /\ moves = 0
  /\ answers = Empty /\ completion = Nowhere /\ fixture = Nowhere
  /\ staging = None /\ analysis = None /\ gate = None /\ scored = None /\ pinned = None
  /\ runner = Nowhere /\ importing = FALSE /\ analysing = FALSE

Answered(s) == {r \in Requests[s] : answers[s][r] # None}

-----------------------------------------------------------------------------
(* import_natural_verifier_bundle, import_natural_two_reader_checkpoints *)

Untouched(s) == Answered(s) = {} /\ fixture[s] = None /\ runner[s] = None
Anywhere == TRUE                          \* mutant of DestinationEmpty
DestinationEmpty ==
  \A s \in Stages : (SamePlace \/ s \in Whole) => Untouched(s)

ToCopy ==
  {pair \in Stages \X UNION {Requests[s] : s \in Stages} : pair[2] \in Reused[pair[1]]}

\* A staging directory that a dead import left is refused.
StartImport ==
  /\ ToCopy # {} /\ clean /\ DestinationEmpty /\ staging = None
  /\ staging' = [by |-> head, copied |-> {}] /\ importing' = TRUE
  /\ UNCHANGED <<outside, files, triage, scored, runner>>

\* A record keeps its response and is bound to the new protocol and commit.
CopyRecord(s, r) ==
  /\ importing /\ <<s, r>> \in ToCopy \ staging.copied
  /\ staging' = [staging EXCEPT !.copied = @ \cup {<<s, r>>}]
  /\ UNCHANGED <<outside, files, triage, importing, scored, runner>>

\* The rename makes the records and their receipt visible at once.
Early == DestinationEmpty                                 \* mutant of Copied
Copied == DestinationEmpty /\ staging.copied = ToCopy

Rename ==
  /\ importing /\ Copied
  /\ answers' = [s \in Stages |-> [r \in Requests[s] |->
                   IF <<s, r>> \in staging.copied THEN staging.by ELSE answers[s][r]]]
  /\ completion' = [s \in Stages |-> IF s \in Whole THEN staging.by ELSE completion[s]]
  /\ staging' = None /\ importing' = FALSE
  /\ UNCHANGED <<outside, fixture, triage, scored, runner>>

\* It is killed, or the destination is there by now; the operator cleans up.
StopImport ==
  /\ importing /\ importing' = FALSE
  /\ UNCHANGED <<outside, files, triage, staging, scored, runner>>
RemoveStaging ==
  /\ ~importing /\ staging # None /\ staging' = None
  /\ UNCHANGED <<outside, files, triage, importing, scored, runner>>

-----------------------------------------------------------------------------
(* What a command loads before it does anything *)

\* Every answer of a stage, bound to the commit of its completion receipt.
Loads(s) ==
  completion[s] # None /\ \A r \in Requests[s] : answers[s][r] = completion[s]

PinHolds == pinned # None /\ \A s \in Inputs : pinned[s] = completion[s]

\* _require_judge_gate: the receipt of the analysis, of this very HEAD and of the
\* manifest that is there; or the completions that the judge protocol froze.
GatePassed ==
  /\ gate # None /\ gate.passed /\ gate.by = head
  /\ gate.pinned = pinned /\ gate = analysis
AnyReceipt == Gate # "none" => pinned # None              \* mutant of Unlocked
Unlocked ==
  /\ Gate = "analysis" => GatePassed
  /\ Gate = "frozen" => PinHolds

PlanLoads(s) ==
  /\ \A u \in Uses[s] : Loads(u)
  /\ s = Judge => Unlocked

-----------------------------------------------------------------------------
(* fixture and execute *)

\* The judge's fixture waits for the gate; a receipt of this commit is used again.
RunFixture(s) ==
  /\ clean /\ fixture[s] = None
  /\ s = Judge => Unlocked
  /\ fixture' = [fixture EXCEPT ![s] = head]
  /\ UNCHANGED <<outside, answers, completion, triage, import, scored, runner>>

Undrifted(s) == \A r \in Answered(s) : answers[s][r] = head

\* The stage lock admits one command.  _git_head is cached for its lifetime.
Execute(s) ==
  /\ clean /\ runner[s] = None
  /\ PlanLoads(s)
  /\ fixture[s] # None /\ (s \in Strict => fixture[s] = head)
  /\ Undrifted(s)
  /\ runner' = [runner EXCEPT ![s] = head]
  /\ UNCHANGED <<outside, files, triage, import, scored>>

SaveAnswer(s, r) ==
  /\ runner[s] # None /\ r \in Requests[s] \ Answered(s)
  /\ answers' = [answers EXCEPT ![s][r] = runner[s]]
  /\ UNCHANGED <<outside, completion, fixture, triage, import, scored, runner>>

CompleteStage(s) ==
  /\ runner[s] # None /\ Answered(s) = Requests[s]
  /\ completion' = [completion EXCEPT ![s] = runner[s]]
  /\ runner' = [runner EXCEPT ![s] = None]
  /\ UNCHANGED <<outside, answers, fixture, triage, import, scored>>

\* A failed call, an exhausted cap, an interrupt or a crash.
StopStage(s) ==
  /\ runner[s] # None /\ runner' = [runner EXCEPT ![s] = None]
  /\ UNCHANGED <<outside, files, triage, import, scored>>

-----------------------------------------------------------------------------
(* What unlocks the judge *)

\* The operator freezes the next protocol with the receipts of complete stages.
Pin ==
  /\ Gate # "none" /\ pinned = None
  /\ \A s \in Inputs : completion[s] # None
  /\ pinned' = [s \in Inputs |-> completion[s]]
  /\ UNCHANGED <<outside, files, analysis, gate, analysing, import, scored, runner>>

\* validate_frozen_inputs and _score_rows: one execution commit for all stages.
OneCommit == \A s, t \in Inputs : pinned[s] = pinned[t]

\* The analysis wants its outputs and its receipt absent, not a clean checkout.
Analyse(passed) ==
  /\ Gate = "analysis" /\ ~analysing /\ analysis = None /\ gate = None
  /\ PinHolds /\ OneCommit /\ \A s \in Inputs : Loads(s)
  /\ analysis' = [by |-> head, pinned |-> pinned, passed |-> passed] /\ analysing' = TRUE
  /\ UNCHANGED <<outside, files, gate, pinned, import, scored, runner>>

WriteGate ==
  /\ analysing /\ gate' = analysis /\ analysing' = FALSE
  /\ UNCHANGED <<outside, files, analysis, pinned, import, scored, runner>>

\* Killed in between: the operator has to remove the outputs it left.
StopAnalysis ==
  /\ analysing /\ analysing' = FALSE
  /\ UNCHANGED <<outside, files, analysis, gate, pinned, import, scored, runner>>
RemoveAnalysis ==
  /\ ~analysing /\ analysis # None /\ gate = None /\ analysis' = None
  /\ UNCHANGED <<outside, files, gate, pinned, analysing, import, scored, runner>>

Score ==
  /\ Unlocked /\ \A s \in Inputs \cup {Judge} : Loads(s)
  /\ scored' = [completion |-> completion, answers |-> answers, gate |-> gate]
  /\ UNCHANGED <<outside, files, triage, import, runner>>

-----------------------------------------------------------------------------

\* HEAD and the working tree change at any time.
Change ==
  /\ moves < MaxMoves /\ moves' = moves + 1
  /\ \/ head' \in Commits \ {head} /\ clean' = TRUE
     \/ clean' = ~clean /\ UNCHANGED head
  /\ UNCHANGED <<files, triage, import, scored, runner>>

Import ==
  \/ StartImport \/ Rename \/ StopImport \/ RemoveStaging
  \/ \E pair \in ToCopy : CopyRecord(pair[1], pair[2])
Stage(s) ==
  \/ RunFixture(s) \/ Execute(s) \/ CompleteStage(s) \/ StopStage(s)
  \/ \E r \in Requests[s] : SaveAnswer(s, r)
Triage ==
  \/ Pin \/ WriteGate \/ StopAnalysis \/ RemoveAnalysis
  \/ \E passed \in BOOLEAN : Analyse(passed)

Next == Import \/ (\E s \in Stages : Stage(s)) \/ Triage \/ Score \/ Change
Spec == Init /\ [][Next]_vars

-----------------------------------------------------------------------------
(* Properties *)

TypeOK ==
  /\ head \in Commits /\ clean \in BOOLEAN /\ moves \in 0 .. MaxMoves
  /\ \A s \in Stages : answers[s] \in [Requests[s] -> Commits \cup {None}]
  /\ {completion, fixture, runner} \subseteq [Stages -> Commits \cup {None}]
  /\ importing \in BOOLEAN /\ analysing \in BOOLEAN
  /\ importing => staging \in [by : Commits, copied : SUBSET ToCopy]

\* The judge is asked only about complete readers of one execution, and only where
\* the frozen continuation rule was evaluated on them and passed; also when HEAD
\* moves, commands die or the analysis is repeated in between.
JudgeWaits ==
  runner[Judge] # None \/ Answered(Judge) # {} =>
    /\ \A s \in Inputs : \A r \in Requests[s] :
         answers[s][r] # None /\ answers[s][r] = completion[s]
    /\ Gate = "analysis" =>
         /\ gate # None /\ gate.passed /\ OneCommit
         /\ \A r \in Answered(Judge) : answers[Judge][r] = gate.by

\* Scores rest on whole stages, each bought or imported on the commit its receipt
\* names, the judge's on that of the analysis that unlocked it.
ScoredIsBound ==
  scored # None =>
    /\ \A s \in Inputs \cup {Judge} : \A r \in Requests[s] :
         scored.answers[s][r] \in Commits /\ scored.answers[s][r] = scored.completion[s]
    /\ Gate = "analysis" => scored.completion[Judge] = scored.gate.by

\* An imported bundle is there entirely or not at all, wherever its import died.
ImportIsWhole ==
  \A s \in Whole : completion[s] # None => Answered(s) = Requests[s]

\* A saved answer is never rewritten, by an import either.
AnswersKept == \A s \in Stages : \A r \in Answered(s) : answers'[s][r] = answers[s][r]
AnswersStay == [][AnswersKept]_vars
=============================================================================
