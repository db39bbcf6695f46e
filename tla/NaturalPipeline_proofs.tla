------------------------ MODULE NaturalPipeline_proofs ------------------------
(***************************************************************************)
(* Theorems about NaturalPipeline for every set of stages, every plan of   *)
(* what uses what, every import and every gate: the judge waits for whole  *)
(* readers and a passed gate, scores rest on stages of one commit each, an *)
(* import is there entirely or not at all, and saved answers stay.         *)
(***************************************************************************)
EXTENDS NaturalPipeline, TLAPS

FullTypeOK == TypeOK /\ answers = [s \in Stages |-> answers[s]]

\* A command that buys has found or bought every answer on its own commit, and a
\* completion receipt names the commit of all answers of its stage.
BoughtOf(s) ==
  /\ runner[s] # None => \A r \in Answered(s) : answers[s][r] = runner[s]
  /\ completion[s] # None => Loads(s)
BoughtInv == \A s \in Stages : BoughtOf(s)

\* An analysis that runs, or whose receipt is there, is about completions of one
\* commit, and the receipt is written once.
TriageInv ==
  /\ analysing => gate = None
  /\ analysing \/ gate # None => pinned # None /\ OneCommit

\* What the judge has bought, or is buying, it buys on complete inputs and on the commit
\* of the receipt that passed.
Judging == runner[Judge] # None \/ Answered(Judge) # {} \/ completion[Judge] # None
JudgeInv ==
  Judging =>
    /\ \A s \in Inputs : completion[s] # None
    /\ Gate = "analysis" =>
         /\ gate # None /\ gate.passed
         /\ {runner[Judge], completion[Judge]} \subseteq {gate.by, None}
         /\ \A r \in Answered(Judge) : answers[Judge][r] = gate.by

\* The inductive invariant.
PipelineInv == FullTypeOK /\ BoughtInv /\ TriageInv /\ JudgeInv /\ ScoredIsBound
-----------------------------------------------------------------------------
(* Imports *)

\* What an import copies: the reused requests, of stages it found untouched.
LEMMA CopyPairs ==
  ASSUME PipelineAssumption, NEW s \in Stages, NEW r, <<s, r>> \in ToCopy
  PROVE  r \in Reused[s] /\ (SamePlace \/ s \in Whole) /\ s # Judge
<1>1. r \in Reused[s]
  BY DEF ToCopy
<1>. QED
  BY <1>1 DEF PipelineAssumption

LEMMA PairsToCopy ==
  ASSUME PipelineAssumption, NEW s \in Stages, NEW r \in Reused[s]
  PROVE  <<s, r>> \in ToCopy
<1>1. r \in Requests[s]
  BY DEF PipelineAssumption
<1>. QED
  BY <1>1 DEF ToCopy

\* A rename that happens writes the copied answers and leaves every other one, in
\* stages that had no answer and no command.
LEMMA RenameWrites ==
  ASSUME PipelineAssumption, FullTypeOK, Rename, NEW s \in Stages
  PROVE  /\ staging.by \in Commits
         /\ answers'[s] \in [Requests[s] -> Commits \cup {None}]
         /\ \A r \in Requests[s] :
              answers'[s][r] = IF r \in Reused[s] THEN staging.by ELSE answers[s][r]
         /\ completion'[s] = IF s \in Whole THEN staging.by ELSE completion[s]
         /\ s \in Whole \/ Reused[s] # {} => Untouched(s) /\ s # Judge
<1>1. staging \in [by : Commits, copied : SUBSET ToCopy] /\ staging.copied = ToCopy
  BY DEF FullTypeOK, TypeOK, Rename, Copied
<1>2. /\ answers' = [t \in Stages |-> [r \in Requests[t] |->
                       IF <<t, r>> \in staging.copied THEN staging.by ELSE answers[t][r]]]
      /\ completion' = [t \in Stages |-> IF t \in Whole THEN staging.by ELSE completion[t]]
      /\ DestinationEmpty
  BY DEF Rename, Copied
<1>3. \A r \in Requests[s] : <<s, r>> \in ToCopy <=> r \in Reused[s]
  BY CopyPairs, PairsToCopy
<1>4. \A r \in Requests[s] :
        answers'[s][r] = IF r \in Reused[s] THEN staging.by ELSE answers[s][r]
  BY <1>1, <1>2, <1>3
<1>5. answers[s] \in [Requests[s] -> Commits \cup {None}]
  BY DEF FullTypeOK, TypeOK
<1>6. answers'[s] \in [Requests[s] -> Commits \cup {None}]
  BY <1>1, <1>2, <1>5
<1>7. s \in Whole \/ Reused[s] # {} => Untouched(s) /\ s # Judge
  BY <1>2 DEF DestinationEmpty, PipelineAssumption
<1>. QED
  BY <1>1, <1>2, <1>4, <1>6, <1>7

-----------------------------------------------------------------------------
(* Types *)

LEMMA InitTypes == ASSUME PipelineAssumption PROVE Init => FullTypeOK
<1>. SUFFICES ASSUME PipelineAssumption, Init
              PROVE  FullTypeOK
  OBVIOUS
<1>1. answers = [s \in Stages |-> [r \in Requests[s] |-> None]]
  BY DEF Init, Empty
<1>2. {completion, fixture, runner} \subseteq [Stages -> Commits \cup {None}]
  BY DEF Init, Nowhere
<1>3. moves \in 0 .. MaxMoves
  BY DEF Init, PipelineAssumption
<1>4. /\ answers = [s \in Stages |-> answers[s]]
      /\ \A s \in Stages : answers[s] \in [Requests[s] -> Commits \cup {None}]
  BY <1>1
<1>. QED
  BY <1>2, <1>3, <1>4 DEF Init, FullTypeOK, TypeOK

LEMMA ImportTypes ==
  ASSUME PipelineAssumption, FullTypeOK, Import
  PROVE  FullTypeOK'
<1>. USE DEF outside, files, import, triage
<1>1. TypeOK /\ answers = [s \in Stages |-> answers[s]]
  BY DEF FullTypeOK
<1>2. CASE StartImport
  BY <1>1, <1>2 DEF StartImport, FullTypeOK, TypeOK
<1>3. ASSUME NEW pair \in ToCopy, CopyRecord(pair[1], pair[2])
      PROVE  FullTypeOK'
  <2>1. pair = <<pair[1], pair[2]>>
    BY DEF ToCopy
  <2>2. staging' \in [by : Commits, copied : SUBSET ToCopy]
    BY <1>1, <1>3, <2>1 DEF CopyRecord, TypeOK
  <2>. QED
    BY <1>1, <1>3, <2>2 DEF CopyRecord, FullTypeOK, TypeOK
<1>4. CASE Rename
  <2>1. \A s \in Stages : answers'[s] \in [Requests[s] -> Commits \cup {None}]
    BY <1>4, RenameWrites
  <2>2. answers' = [s \in Stages |-> answers'[s]]
    BY <1>4 DEF Rename
  <2>3. completion' \in [Stages -> Commits \cup {None}]
    <3>1. \A s \in Stages : completion'[s] \in Commits \cup {None}
      BY <1>1, <1>4, RenameWrites DEF TypeOK
    <3>2. completion' = [s \in Stages |-> completion'[s]]
      BY <1>4 DEF Rename
    <3>. QED
      BY <3>1, <3>2
  <2>. QED
    BY <1>1, <1>4, <2>1, <2>2, <2>3 DEF Rename, FullTypeOK, TypeOK
<1>5. CASE StopImport
  BY <1>1, <1>5 DEF StopImport, FullTypeOK, TypeOK
<1>6. CASE RemoveStaging
  BY <1>1, <1>6 DEF RemoveStaging, FullTypeOK, TypeOK
<1>. QED
  BY <1>2, <1>3, <1>4, <1>5, <1>6 DEF Import

LEMMA StageTypes ==
  ASSUME PipelineAssumption, FullTypeOK, NEW s \in Stages, Stage(s)
  PROVE  FullTypeOK'
<1>. USE DEF outside, files, import, triage
<1>1. TypeOK /\ answers = [t \in Stages |-> answers[t]]
  BY DEF FullTypeOK
<1>2. CASE RunFixture(s) \/ Execute(s) \/ CompleteStage(s) \/ StopStage(s)
  BY <1>1, <1>2 DEF RunFixture, Execute, CompleteStage, StopStage, FullTypeOK, TypeOK
<1>3. ASSUME NEW r \in Requests[s], SaveAnswer(s, r)
      PROVE  FullTypeOK'
  <2>1. runner[s] \in Commits
    BY <1>1, <1>3 DEF SaveAnswer, TypeOK
  <2>2. \A t \in Stages : answers'[t] \in [Requests[t] -> Commits \cup {None}]
    BY <1>1, <1>3, <2>1 DEF SaveAnswer, TypeOK
  <2>3. answers' = [t \in Stages |-> answers'[t]]
    BY <1>1, <1>3 DEF SaveAnswer
  <2>. QED
    BY <1>1, <1>3, <2>2, <2>3 DEF SaveAnswer, FullTypeOK, TypeOK
<1>. QED
  BY <1>2, <1>3 DEF Stage

LEMMA OtherTypes ==
  ASSUME PipelineAssumption, FullTypeOK, Triage \/ Score \/ Change
  PROVE  FullTypeOK'
<1>. USE DEF outside, files, import, triage
<1>1. TypeOK /\ answers = [t \in Stages |-> answers[t]]
  BY DEF FullTypeOK
<1>2. ASSUME UNCHANGED <<outside, files, import, runner>>, analysing' \in BOOLEAN
      PROVE  FullTypeOK'
  BY <1>1, <1>2 DEF FullTypeOK, TypeOK
<1>3. ASSUME NEW passed \in BOOLEAN, Analyse(passed)
      PROVE  FullTypeOK'
  BY <1>1, <1>2, <1>3 DEF Analyse
<1>4. CASE Change
  <2>1. moves' \in 0 .. MaxMoves
    BY <1>1, <1>4 DEF Change, TypeOK, PipelineAssumption
  <2>. QED
    BY <1>1, <1>4, <2>1 DEF Change, FullTypeOK, TypeOK
<1>5. CASE Pin \/ WriteGate \/ StopAnalysis \/ RemoveAnalysis \/ Score
  BY <1>1, <1>2, <1>5 DEF Pin, WriteGate, StopAnalysis, RemoveAnalysis, Score, TypeOK
<1>. QED
  BY <1>3, <1>4, <1>5 DEF Triage

-----------------------------------------------------------------------------
(* Answers and receipts *)

\* Nothing that BoughtOf(s) speaks of changes.
Quiet(s) == answers'[s] = answers[s] /\ completion'[s] = completion[s] /\ runner'[s] = runner[s]

LEMMA QuietBuys ==
  ASSUME NEW s \in Stages, Quiet(s)
  PROVE  /\ BoughtOf(s) => BoughtOf(s)'
         /\ Answered(s)' = Answered(s) /\ (Loads(s)' <=> Loads(s))
BY DEF Quiet, BoughtOf, Answered, Loads

\* A rename keeps what was bought: it writes whole bundles of one commit into stages
\* that had neither an answer nor a command.
LEMMA RenameBuys ==
  ASSUME PipelineAssumption, FullTypeOK, Rename, NEW s \in Stages, BoughtOf(s)
  PROVE  /\ BoughtOf(s)'
         /\ \A r \in Answered(s) : answers'[s][r] = answers[s][r]
         /\ completion[s] # None => completion'[s] # None
         /\ s = Judge => Quiet(s) /\ Answered(s)' = Answered(s)
<1>1. /\ staging.by \in Commits /\ staging.by # None /\ runner' = runner
      /\ answers[s] \in [Requests[s] -> Commits \cup {None}]
      /\ answers'[s] \in [Requests[s] -> Commits \cup {None}]
  BY RenameWrites DEF PipelineAssumption, Rename, FullTypeOK, TypeOK
<1>2. CASE s \notin Whole /\ Reused[s] = {}
  <2>1. /\ completion'[s] = completion[s]
        /\ \A r \in Requests[s] : answers'[s][r] = answers[s][r]
    BY <1>2, RenameWrites
  <2>2. Quiet(s)
    BY <1>1, <2>1 DEF Quiet
  <2>. QED
    BY <2>2, QuietBuys DEF Quiet
<1>3. CASE s \in Whole \/ Reused[s] # {}
  <2>1. Untouched(s) /\ s # Judge
    BY <1>3, RenameWrites
  <2>2. Answered(s) = {} /\ runner'[s] = None
    BY <1>1, <2>1 DEF Untouched
  <2>3. ASSUME s \in Whole
        PROVE  /\ completion'[s] = staging.by
               /\ \A r \in Requests[s] : answers'[s][r] = staging.by
    BY <2>3, RenameWrites DEF PipelineAssumption
  <2>4. ASSUME s \notin Whole
        PROVE  completion'[s] = completion[s] /\ (completion[s] # None => Requests[s] = {})
    BY <2>2, <2>4, RenameWrites DEF BoughtOf, Loads, Answered
  <2>5. completion'[s] # None => Loads(s)'
    BY <1>1, <2>3, <2>4 DEF Loads
  <2>. QED
    BY <1>1, <2>1, <2>2, <2>3, <2>4, <2>5 DEF BoughtOf
<1>. QED
  BY <1>2, <1>3

\* The handlers of stage s leave the other stages alone.
LEMMA OthersQuiet ==
  ASSUME FullTypeOK, NEW s \in Stages, Stage(s), NEW t \in Stages \ {s}
  PROVE  Quiet(t)
<1>1. {completion, runner} \subseteq [Stages -> Commits \cup {None}]
      /\ answers = [u \in Stages |-> answers[u]]
  BY DEF FullTypeOK, TypeOK
<1>2. CASE RunFixture(s)
  BY <1>2 DEF RunFixture, Quiet
<1>3. CASE Execute(s)
  BY <1>1, <1>3 DEF Execute, Quiet, files
<1>4. CASE CompleteStage(s)
  BY <1>1, <1>4 DEF CompleteStage, Quiet
<1>5. CASE StopStage(s)
  BY <1>1, <1>5 DEF StopStage, Quiet, files
<1>6. ASSUME NEW r \in Requests[s], SaveAnswer(s, r)
      PROVE  Quiet(t)
  BY <1>1, <1>6 DEF SaveAnswer, Quiet
<1>. QED
  BY <1>2, <1>3, <1>4, <1>5, <1>6 DEF Stage

\* A command starts only on answers of its commit, and completes with its own.
LEMMA StageBuys ==
  ASSUME PipelineAssumption, FullTypeOK, NEW s \in Stages, Stage(s), BoughtOf(s)
  PROVE  /\ BoughtOf(s)'
         /\ \A r \in Answered(s) : answers'[s][r] = answers[s][r]
         /\ completion[s] # None => completion'[s] # None
<1>1. /\ {completion, runner} \subseteq [Stages -> Commits \cup {None}]
      /\ answers = [u \in Stages |-> answers[u]] /\ head \in Commits
      /\ answers[s] \in [Requests[s] -> Commits \cup {None}] /\ None \notin Commits
  BY DEF FullTypeOK, TypeOK, PipelineAssumption
<1>2. CASE RunFixture(s)
  BY <1>2, QuietBuys DEF RunFixture, Quiet
<1>3. CASE Execute(s)
  BY <1>1, <1>3 DEF Execute, Undrifted, BoughtOf, Answered, Loads, files
<1>4. CASE CompleteStage(s)
  BY <1>1, <1>4 DEF CompleteStage, BoughtOf, Answered, Loads
<1>5. CASE StopStage(s)
  BY <1>1, <1>5 DEF StopStage, BoughtOf, Answered, Loads, files
<1>6. ASSUME NEW r \in Requests[s], SaveAnswer(s, r)
      PROVE  /\ BoughtOf(s)'
             /\ \A q \in Answered(s) : answers'[s][q] = answers[s][q]
             /\ completion[s] # None => completion'[s] # None
  <2>1. /\ answers'[s] = [answers[s] EXCEPT ![r] = runner[s]]
        /\ completion' = completion /\ runner' = runner /\ r \notin Answered(s)
        /\ runner[s] # None
    BY <1>1, <1>6 DEF SaveAnswer
  <2>2. completion[s] = None
    BY <1>1, <2>1 DEF BoughtOf, Loads, Answered
  <2>. QED
    BY <1>1, <2>1, <2>2 DEF BoughtOf, Answered
<1>. QED
  BY <1>2, <1>3, <1>4, <1>5, <1>6 DEF Stage

\* Every step keeps the first half of the invariant, rewrites no answer and removes no
\* receipt.
LEMMA StepBuys ==
  ASSUME PipelineAssumption, PipelineInv, [Next]_vars
  PROVE  /\ FullTypeOK' /\ BoughtInv'
         /\ AnswersKept
         /\ \A s \in Stages : completion[s] # None => completion'[s] # None
<1>1. FullTypeOK /\ \A s \in Stages : BoughtOf(s)
  BY DEF PipelineInv, BoughtInv
<1>2. FullTypeOK'
  <2>1. CASE UNCHANGED vars
    BY <1>1, <2>1 DEF vars, outside, files, triage, import, FullTypeOK, TypeOK
  <2>. QED
    BY <1>1, <2>1, ImportTypes, StageTypes, OtherTypes DEF Next
<1>3. SUFFICES ASSUME NEW s \in Stages
               PROVE  /\ BoughtOf(s)'
                      /\ \A r \in Answered(s) : answers'[s][r] = answers[s][r]
                      /\ completion[s] # None => completion'[s] # None
  BY <1>2 DEF BoughtInv, AnswersKept
<1>4. CASE Quiet(s)
  BY <1>1, <1>4, QuietBuys DEF Quiet, Answered
<1>5. CASE Rename
  BY <1>1, <1>5, RenameBuys
<1>6. ASSUME NEW t \in Stages, Stage(t)
      PROVE  \/ Quiet(s)
             \/ /\ BoughtOf(s)'
                /\ \A r \in Answered(s) : answers'[s][r] = answers[s][r]
                /\ completion[s] # None => completion'[s] # None
  BY <1>1, <1>6, OthersQuiet, StageBuys
<1>7. CASE UNCHANGED vars \/ (Import /\ ~Rename) \/ Triage \/ Score \/ Change
  <2>1. UNCHANGED <<answers, completion, runner>>
    BY <1>7 DEF vars, files, Import, StartImport, CopyRecord, StopImport, RemoveStaging, Triage,
       Pin, WriteGate, StopAnalysis, RemoveAnalysis, Analyse, Score, Change
  <2>. QED
    BY <1>4, <2>1 DEF Quiet
<1>. QED
  BY <1>4, <1>5, <1>6, <1>7 DEF Next

-----------------------------------------------------------------------------
(* The gate *)

\* The completions that an analysis, or its receipt, is about were pinned before and
\* stay; the receipt is written by the analysis only.
LEMMA StepTriages ==
  ASSUME PipelineInv, [Next]_vars
  PROVE  TriageInv' /\ (gate # None => gate' = gate /\ pinned' = pinned)
<1>1. TriageInv
  BY DEF PipelineInv
<1>2. ASSUME UNCHANGED triage
      PROVE  TriageInv' /\ (gate # None => gate' = gate /\ pinned' = pinned)
  BY <1>1, <1>2 DEF triage, TriageInv, OneCommit
<1>3. CASE UNCHANGED vars \/ Import \/ Score \/ Change
  BY <1>2, <1>3 DEF vars, Import, StartImport, CopyRecord, Rename, StopImport, RemoveStaging,
     Score, Change
<1>4. ASSUME NEW s \in Stages, Stage(s)
      PROVE  TriageInv' /\ (gate # None => gate' = gate /\ pinned' = pinned)
  BY <1>2, <1>4 DEF Stage, RunFixture, Execute, SaveAnswer, CompleteStage, StopStage
<1>5. CASE Pin
  BY <1>1, <1>5 DEF Pin, TriageInv
<1>6. ASSUME NEW passed \in BOOLEAN, Analyse(passed)
      PROVE  TriageInv' /\ (gate # None => gate' = gate /\ pinned' = pinned)
  BY <1>6 DEF Analyse, TriageInv, PinHolds, OneCommit
<1>7. CASE WriteGate
  BY <1>1, <1>7 DEF WriteGate, TriageInv, OneCommit
<1>8. CASE StopAnalysis
  BY <1>1, <1>8 DEF StopAnalysis, TriageInv, OneCommit
<1>9. CASE RemoveAnalysis
  BY <1>1, <1>9 DEF RemoveAnalysis, TriageInv, OneCommit
<1>. QED
  BY <1>3, <1>4, <1>5, <1>6, <1>7, <1>8, <1>9 DEF Next, Triage

\* A judge that runs, or has bought something, keeps its inputs complete and its commit
\* that of the receipt.
LEMMA StepJudges ==
  ASSUME PipelineAssumption, PipelineInv, [Next]_vars
  PROVE  JudgeInv'
<1>1. /\ FullTypeOK /\ JudgeInv /\ BoughtOf(Judge) /\ Judge \in Stages
      /\ Inputs \subseteq Stages
      /\ runner \in [Stages -> Commits \cup {None}]
      /\ completion \in [Stages -> Commits \cup {None}]
      /\ answers = [s \in Stages |-> answers[s]]
  BY DEF PipelineInv, BoughtInv, PipelineAssumption, FullTypeOK, TypeOK, Inputs
<1>2. \A s \in Inputs : completion[s] # None => completion'[s] # None
  BY <1>1, StepBuys
<1>3. gate # None => gate' = gate
  BY StepTriages
<1>4. ASSUME Quiet(Judge)
      PROVE  JudgeInv'
  <2>1. Judging' => Judging
    BY <1>1, <1>4, QuietBuys DEF Quiet, Judging
  <2>2. Answered(Judge)' = Answered(Judge)
    BY <1>1, <1>4, QuietBuys
  <2>. QED
    BY <1>1, <1>2, <1>3, <1>4, <2>1, <2>2 DEF Quiet, JudgeInv
<1>5. CASE Rename
  BY <1>1, <1>4, <1>5, RenameBuys
<1>6. ASSUME NEW s \in Stages \ {Judge}, Stage(s)
      PROVE  JudgeInv'
  BY <1>1, <1>4, <1>6, OthersQuiet
<1>7. CASE UNCHANGED vars \/ (Import /\ ~Rename) \/ Triage \/ Score \/ Change
  <2>1. UNCHANGED <<answers, completion, runner>>
    BY <1>7 DEF vars, files, Import, StartImport, CopyRecord, StopImport, RemoveStaging, Triage,
       Pin, WriteGate, StopAnalysis, RemoveAnalysis, Analyse, Score, Change
  <2>. QED
    BY <1>4, <2>1 DEF Quiet
<1>8. CASE Execute(Judge)
  <2>1. /\ UNCHANGED <<answers, completion, gate>>
        /\ runner'[Judge] = head
        /\ \A r \in Answered(Judge) : answers[Judge][r] = head
        /\ \A u \in Inputs : Loads(u)
        /\ Unlocked
    BY <1>1, <1>8 DEF Execute, files, triage, Undrifted, PlanLoads, Inputs
  <2>2. \A s \in Inputs : completion'[s] # None
    BY <2>1 DEF Loads
  <2>3. Answered(Judge)' = Answered(Judge)
    BY <2>1 DEF Answered
  <2>4. ASSUME Gate = "analysis"
        PROVE  /\ gate' # None /\ gate'.passed
               /\ {runner'[Judge], completion'[Judge]} \subseteq {gate'.by, None}
               /\ \A r \in Answered(Judge) : answers'[Judge][r] = gate'.by
    <3>1. gate # None /\ gate.passed /\ gate.by = head
      BY <2>1, <2>4 DEF Unlocked, GatePassed
    <3>2. completion[Judge] # None => completion[Judge] = gate.by
      BY <1>1, <2>4 DEF JudgeInv, Judging
    <3>. QED
      BY <2>1, <3>1, <3>2
  <2>. QED
    BY <2>2, <2>3, <2>4 DEF JudgeInv
<1>9. ASSUME NEW r \in Requests[Judge], SaveAnswer(Judge, r)
      PROVE  JudgeInv'
  <2>1. /\ answers'[Judge] = [answers[Judge] EXCEPT ![r] = runner[Judge]]
        /\ UNCHANGED <<completion, runner, gate>>
        /\ Judging /\ runner[Judge] # None
        /\ answers[Judge] \in [Requests[Judge] -> Commits \cup {None}]
    BY <1>1, <1>9 DEF SaveAnswer, triage, Judging, FullTypeOK, TypeOK
  <2>. QED
    BY <1>1, <2>1 DEF JudgeInv, Answered
<1>10. CASE CompleteStage(Judge)
  <2>1. /\ completion'[Judge] = runner[Judge] /\ runner'[Judge] = None
        /\ UNCHANGED <<answers, gate>>
        /\ Judging
    BY <1>1, <1>10 DEF CompleteStage, triage, Judging
  <2>. QED
    BY <1>1, <1>2, <2>1 DEF JudgeInv, Answered
<1>11. CASE StopStage(Judge)
  <2>1. /\ runner'[Judge] = None
        /\ UNCHANGED <<answers, completion, gate>>
        /\ Judging
    BY <1>1, <1>11 DEF StopStage, files, triage, Judging
  <2>. QED
    BY <1>1, <2>1 DEF JudgeInv, Answered
<1>12. CASE RunFixture(Judge)
  BY <1>4, <1>12 DEF RunFixture, Quiet
<1>. QED
  BY <1>5, <1>6, <1>7, <1>8, <1>9, <1>10, <1>11, <1>12 DEF Next, Stage

\* A score is taken from whole stages, the judge's of the commit of the receipt, and no
\* other step writes it.
LEMMA StepScores ==
  ASSUME PipelineAssumption, PipelineInv, [Next]_vars
  PROVE  ScoredIsBound'
<1>1. /\ FullTypeOK /\ JudgeInv /\ ScoredIsBound /\ Inputs \cup {Judge} \subseteq Stages
      /\ completion \in [Stages -> Commits \cup {None}]
  BY DEF PipelineInv, PipelineAssumption, FullTypeOK, TypeOK, Inputs
<1>2. CASE UNCHANGED scored
  BY <1>1, <1>2 DEF ScoredIsBound
<1>3. CASE Score
  <2>1. /\ scored' = [completion |-> completion, answers |-> answers, gate |-> gate]
        /\ \A s \in Inputs \cup {Judge} : Loads(s)
    BY <1>3 DEF Score
  <2>2. \A s \in Inputs \cup {Judge} : \A r \in Requests[s] :
          answers[s][r] \in Commits /\ answers[s][r] = completion[s]
    BY <1>1, <2>1 DEF Loads
  <2>3. Gate = "analysis" => completion[Judge] = gate.by
    BY <1>1, <2>1 DEF Loads, JudgeInv, Judging
  <2>. QED
    BY <2>1, <2>2, <2>3 DEF ScoredIsBound
<1>4. CASE ~Score
  <2>1. UNCHANGED scored
    <3>1. CASE UNCHANGED vars \/ Import \/ Triage \/ Change
      BY <3>1 DEF vars, Import, StartImport, CopyRecord, Rename, StopImport, RemoveStaging,
         Triage, Pin, WriteGate, StopAnalysis, RemoveAnalysis, Analyse, Change
    <3>2. ASSUME NEW s \in Stages, Stage(s)
          PROVE  UNCHANGED scored
      BY <3>2 DEF Stage, RunFixture, Execute, SaveAnswer, CompleteStage, StopStage
    <3>. QED
      BY <1>4, <3>1, <3>2 DEF Next
  <2>. QED
    BY <1>2, <2>1
<1>. QED
  BY <1>3, <1>4

-----------------------------------------------------------------------------
(* The theorems *)

LEMMA InitPipeline == ASSUME PipelineAssumption PROVE Init => PipelineInv
<1>. SUFFICES ASSUME PipelineAssumption, Init
              PROVE  PipelineInv
  OBVIOUS
<1>1. FullTypeOK
  BY InitTypes
<1>2. /\ Judge \in Stages /\ \A s \in Stages : runner[s] = None /\ completion[s] = None
      /\ \A s \in Stages : Answered(s) = {}
  BY DEF Init, Nowhere, Empty, Answered, PipelineAssumption
<1>3. BoughtInv
  BY <1>2 DEF BoughtInv, BoughtOf
<1>4. TriageInv /\ JudgeInv /\ ScoredIsBound
  BY <1>2 DEF Init, TriageInv, JudgeInv, Judging, ScoredIsBound
<1>. QED
  BY <1>1, <1>3, <1>4 DEF PipelineInv

\* Whatever is imported, bought, analysed, scored, killed, repeated and committed in any
\* order keeps the answers, the receipts and the gate in the relation above.
THEOREM PipelineInvHolds == ASSUME PipelineAssumption PROVE Spec => []PipelineInv
<1>1. PipelineInv /\ [Next]_vars => PipelineInv'
  BY StepBuys, StepTriages, StepJudges, StepScores DEF PipelineInv
<1>. QED
  BY <1>1, InitPipeline, PTL DEF Spec

\* All variables stay in their types, and a staging directory is what an import left.
THEOREM TypeCorrect == ASSUME PipelineAssumption PROVE Spec => []TypeOK
<1>1. PipelineInv => TypeOK
  BY DEF PipelineInv, FullTypeOK
<1>. QED
  BY <1>1, PipelineInvHolds, PTL

\* The judge is asked only about complete readers, and, where a gate is required, about
\* readers of one commit for which the continuation rule passed, on its commit.
THEOREM JudgeWaitsHolds == ASSUME PipelineAssumption PROVE Spec => []JudgeWaits
<1>1. PipelineInv => JudgeWaits
  <2>. SUFFICES ASSUME PipelineInv, runner[Judge] # None \/ Answered(Judge) # {}
                PROVE  JudgeWaits
    BY DEF JudgeWaits
  <2>1. Judging /\ JudgeInv /\ TriageInv /\ Inputs \subseteq Stages
    BY DEF PipelineInv, Judging, PipelineAssumption, Inputs
  <2>2. \A s \in Inputs : Loads(s)
    BY <2>1 DEF PipelineInv, BoughtInv, BoughtOf, JudgeInv
  <2>. QED
    BY <2>1, <2>2 DEF JudgeWaits, JudgeInv, TriageInv, Loads
<1>. QED
  BY <1>1, PipelineInvHolds, PTL

\* Scores rest on whole stages of the commits their receipts name.
THEOREM ScoredIsBoundHolds == ASSUME PipelineAssumption PROVE Spec => []ScoredIsBound
<1>1. PipelineInv => ScoredIsBound
  BY DEF PipelineInv
<1>. QED
  BY <1>1, PipelineInvHolds, PTL

\* An imported bundle is there entirely or not at all, wherever its import died.
THEOREM ImportIsWholeHolds == ASSUME PipelineAssumption PROVE Spec => []ImportIsWhole
<1>1. PipelineInv => ImportIsWhole
  <2>. SUFFICES ASSUME PipelineInv, NEW s \in Whole, completion[s] # None
                PROVE  Answered(s) = Requests[s]
    BY DEF ImportIsWhole
  <2>1. s \in Stages
    BY DEF PipelineAssumption
  <2>. QED
    BY <2>1 DEF PipelineInv, BoughtInv, BoughtOf, Loads, Answered
<1>. QED
  BY <1>1, PipelineInvHolds, PTL

\* A saved answer is never rewritten, by an import either.
THEOREM AnswersStayHolds == ASSUME PipelineAssumption PROVE Spec => AnswersStay
<1>1. PipelineInv /\ [Next]_vars => [AnswersKept]_vars
  BY StepBuys
<1>. QED
  BY <1>1, PipelineInvHolds, PTL DEF Spec, AnswersStay

=============================================================================
