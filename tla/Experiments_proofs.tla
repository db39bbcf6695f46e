------------------------- MODULE Experiments_proofs -------------------------
(***************************************************************************)
(* Theorems about Experiments: the recovered judge and the cross-judge     *)
(* audit, for every sample, every price and every cap, and what follows    *)
(* for all experiments together from the theorems about their modules.     *)
(***************************************************************************)
EXTENDS Experiments, Counting_proofs

\* The instances of TwoReaderJudge and CrossJudgeAudit add up as Counting does.
LEMMA SameTotals ==
  /\ \A f : TwoReader!Total(f) = Total(f)
  /\ \A f : Audit!Total(f) = Total(f)
<1>1. \A f : TwoReader!Tokens(f) = Tokens(f) /\ Audit!Tokens(f) = Tokens(f)
  BY DEF TwoReader!Tokens, Audit!Tokens, Tokens
<1>2. \A S : TwoReader!Cardinality(S) = Cardinality(S) /\ Audit!Cardinality(S) = Cardinality(S)
  BY DEF TwoReader!Cardinality, Audit!Cardinality, Cardinality
<1>. QED
  BY <1>1, <1>2 DEF TwoReader!Total, Audit!Total, Total

\* ... and their finite sets are the same ones.
LEMMA SameFiniteSets ==
  /\ \A S : TwoReader!IsFiniteSet(S) <=> IsFiniteSet(S)
  /\ \A S : Audit!IsFiniteSet(S) <=> IsFiniteSet(S)
  /\ \A S : Audit!Cardinality(S) = Cardinality(S)
  BY DEF TwoReader!IsFiniteSet, Audit!IsFiniteSet, IsFiniteSet, Audit!Cardinality, Cardinality

-----------------------------------------------------------------------------
(* The judge: its invariant *)

\* Types, those of the failure files and of the fixture receipt included; whoever runs
\* knows its commit, and calls are in flight while it executes.
JudgeTypes ==
  /\ TwoReader!TypeOK
  /\ IsFiniteSet(failures) /\ \A f \in failures : f.cost \in Nat
  /\ fixture \in [by : JudgeSetup.commits, cost : JudgeSetup.costs] \cup {None}
  /\ pc # "idle" => commit \in JudgeSetup.commits
  /\ pc # "execute" => flying = {}

\* Nothing is there but what the earlier attempt left; or all of that is there.
Untouched ==
  TwoReader!Answered \subseteq JudgeSetup.prior /\ failures \subseteq TwoReader!PriorFailures
Imported ==
  JudgeSetup.prior \subseteq TwoReader!Answered /\ TwoReader!PriorFailures \subseteq failures

\* Calls are bought only behind a fixture and a whole import, and an answer of the
\* earlier attempt is never one of them.
PhaseInv ==
  /\ \A r \in JudgeSetup.prior \cap TwoReader!Answered :
       responses[r].cost = JudgeSetup.priorCost[r]
  /\ Untouched \/ Imported
  /\ fixture = None => Untouched /\ attestation = None /\ pc # "attest"
  /\ pc = "fixture" => fixture = None
  /\ pc \in {"execute", "close"} => fixture # None /\ Imported

\* An import that runs has answered what it is past; its receipt, and the one of the
\* sample, name the answers that are there.
NamesAnswers(receipt) ==
  /\ JudgeSetup.prior \subseteq TwoReader!Answered
  /\ receipt.responses = [r \in JudgeSetup.prior |-> responses[r]]
ReceiptInv ==
  /\ pc = "import" => JudgeSetup.prior \ left \subseteq TwoReader!Answered
  /\ imported # None => NamesAnswers(imported) /\ imported.failures = TwoReader!PriorFailures
  /\ pc \in {"execute", "close"} => NamesAnswers(imported)
  /\ sample # None => NamesAnswers(sample.imported)

\* The budget of an execute command covers what was recorded since the import, and
\* with the reservations it stays under the cap that was left for it.
ExecuteInv ==
  pc = "execute" =>
    /\ (left \cup flying) \cap TwoReader!Answered = {} /\ left \cap flying = {}
    /\ TwoReader!CostOf(TwoReader!Answered) + TwoReader!FailureCost
         <= budget + Total(JudgeSetup.priorCost)
    /\ budget + TwoReader!Bounds(flying) <= cap
    /\ cap = TwoReader!ResponseCap

JudgeInv ==
  /\ JudgeTypes /\ PhaseInv /\ ReceiptInv /\ ExecuteInv
  /\ TwoReader!RecordedWithinTotal /\ TwoReader!ScoredIsBound

-----------------------------------------------------------------------------
(* The judge: its constants *)

\* What the judge's constants are.
LEMMA JudgeConstants ==
  /\ IsFiniteSet(TwoReader!Requests) /\ JudgeSetup.prior \in SUBSET TwoReader!Requests
  /\ JudgeSetup.bound \in [TwoReader!Requests -> Nat]
  /\ JudgeSetup.priorCost \in [JudgeSetup.prior -> Nat]
  /\ JudgeSetup.costs \in SUBSET Nat
  /\ JudgeSetup.descendants \in SUBSET JudgeSetup.commits
  /\ JudgeSetup.priorFixture \in Nat /\ JudgeSetup.totalCap \in Nat
  /\ None \notin JudgeSetup.commits
  /\ None \notin TwoReader!Records /\ None \notin TwoReader!FixtureReceipts
  BY ExperimentsAssumption, SameFiniteSets DEF TwoReader!JudgeAssumption

\* The failures of the earlier attempt are finitely many.
LEMMA PriorFailuresAreFinite ==
  /\ IsFiniteSet(TwoReader!PriorFailures)
  /\ \A f \in TwoReader!PriorFailures : f.cost \in Nat
<1>. DEFINE file(r) == [request |-> r, nr |-> 0, contract |-> TRUE, terminal |-> FALSE,
                        cost |-> JudgeSetup.bound[r]]
            S == JudgeSetup.priorFailed
            h == [r \in S |-> file(r)]
<1>1. S \in SUBSET TwoReader!Requests
  BY ExperimentsAssumption DEF TwoReader!JudgeAssumption
<1>2. IsFiniteSet(S)
  BY <1>1, JudgeConstants, FS_Subset
<1>3. TwoReader!PriorFailures = {h[r] : r \in S}
  BY DEF TwoReader!PriorFailures
<1>4. h \in Surjection(S, TwoReader!PriorFailures)
  BY <1>3 DEF Surjection
<1>5. IsFiniteSet(TwoReader!PriorFailures)
  BY <1>2, <1>4, FS_Surjection DEF ExistsSurjection
<1>6. \A f \in TwoReader!PriorFailures : f.cost \in Nat
  BY <1>1, JudgeConstants DEF TwoReader!PriorFailures
<1>. QED
  BY <1>5, <1>6

\* What the earlier attempt cost and one fixture fit under the total cap.
LEMMA PriorFits ==
  \A c \in JudgeSetup.costs \cup {0} :
    JudgeSetup.priorFixture + c + Total(JudgeSetup.priorCost)
      + Total([f \in TwoReader!PriorFailures |-> f.cost]) <= JudgeSetup.totalCap
  BY ExperimentsAssumption, SameTotals DEF TwoReader!PriorFits

-----------------------------------------------------------------------------
(* The judge: its sums *)

\* What answered requests and failures cost are natural numbers, and so is what the calls
\* in flight may cost.
LEMMA JudgeSums ==
  JudgeTypes =>
    /\ TwoReader!CostOf(TwoReader!Answered) \in Nat
    /\ TwoReader!FailureCost \in Nat /\ TwoReader!Bounds(flying) \in Nat
    /\ TwoReader!FixtureCost \in JudgeSetup.costs \cup {0}
<1>. SUFFICES ASSUME JudgeTypes
              PROVE  /\ TwoReader!CostOf(TwoReader!Answered) \in Nat
                     /\ TwoReader!FailureCost \in Nat /\ TwoReader!Bounds(flying) \in Nat
                     /\ TwoReader!FixtureCost \in JudgeSetup.costs \cup {0}
  OBVIOUS
<1>1. TwoReader!CostOf(TwoReader!Answered) \in Nat
  <2>. DEFINE A == TwoReader!Answered
              f == [r \in A |-> responses[r].cost]
  <2>1. A \in SUBSET TwoReader!Requests /\ \A r \in A : responses[r] \in TwoReader!Records
    BY DEF JudgeTypes, TwoReader!TypeOK, TwoReader!Answered
  <2>2. f \in [A -> Nat] /\ IsFiniteSet(A)
    BY <2>1, JudgeConstants, FS_Subset DEF TwoReader!Records
  <2>. HIDE DEF A
  <2>3. Total(f) \in Nat
    BY <2>2, TotalType
  <2>. QED
    BY <2>3, SameTotals DEF TwoReader!CostOf, A
<1>2. TwoReader!FailureCost \in Nat
  <2>1. [f \in failures |-> f.cost] \in [failures -> Nat] /\ IsFiniteSet(failures)
    BY DEF JudgeTypes
  <2>. QED
    BY <2>1, TotalType, SameTotals DEF TwoReader!FailureCost
<1>3. TwoReader!Bounds(flying) \in Nat
  <2>1. flying \in SUBSET TwoReader!Requests
    BY DEF JudgeTypes, TwoReader!TypeOK
  <2>2. [r \in flying |-> JudgeSetup.bound[r]] \in [flying -> Nat] /\ IsFiniteSet(flying)
    BY <2>1, JudgeConstants, FS_Subset
  <2>. QED
    BY <2>2, TotalType, SameTotals DEF TwoReader!Bounds
<1>4. TwoReader!FixtureCost \in JudgeSetup.costs \cup {0}
  BY DEF JudgeTypes, TwoReader!FixtureCost
<1>. QED
  BY <1>1, <1>2, <1>3, <1>4

\* One more answer adds its cost and changes no other.
LEMMA AnswerAdds ==
  ASSUME JudgeTypes, NEW r \in TwoReader!Requests \ TwoReader!Answered,
         NEW record \in TwoReader!Records, responses' = [responses EXCEPT ![r] = record]
  PROVE  /\ TwoReader!Answered' = TwoReader!Answered \cup {r}
         /\ \A q \in TwoReader!Answered : responses'[q] = responses[q]
         /\ TwoReader!CostOf(TwoReader!Answered)'
              = TwoReader!CostOf(TwoReader!Answered) + record.cost
<1>. DEFINE A == TwoReader!Answered
            g == [q \in A \cup {r} |-> responses'[q].cost]
<1>1. /\ responses \in [TwoReader!Requests -> TwoReader!Records \cup {None}]
      /\ None \notin TwoReader!Records
  BY JudgeConstants DEF JudgeTypes, TwoReader!TypeOK
<1>2. /\ responses'[r] = record /\ \A q \in TwoReader!Requests \ {r} : responses'[q] = responses[q]
      /\ A \in SUBSET TwoReader!Requests
  BY <1>1 DEF TwoReader!Answered
<1>3. TwoReader!Answered' = A \cup {r} /\ \A q \in A : responses'[q] = responses[q]
  BY <1>1, <1>2 DEF TwoReader!Answered
<1>4. \A q \in A : responses[q] \in TwoReader!Records
  BY <1>1 DEF TwoReader!Answered
<1>5. /\ IsFiniteSet(A) /\ r \notin A
      /\ g \in [A \cup {r} -> Nat] /\ g[r] = record.cost
      /\ [q \in A |-> g[q]] = [q \in A |-> responses[q].cost]
  BY <1>2, <1>3, <1>4, JudgeConstants, FS_Subset DEF TwoReader!Records
<1>6. Total(g) = Total([q \in A |-> g[q]]) + g[r]
  <2>. HIDE DEF A, g
  <2>. QED
    BY <1>5, TotalExtend
<1>7. TwoReader!CostOf(TwoReader!Answered)' = Total(g)
  BY <1>3, SameTotals DEF TwoReader!CostOf
<1>8. TwoReader!CostOf(TwoReader!Answered) = Total([q \in A |-> responses[q].cost])
  BY SameTotals DEF TwoReader!CostOf
<1>9. Total(g) = TwoReader!CostOf(TwoReader!Answered) + record.cost
  BY <1>5, <1>6, <1>8
<1>. QED
  BY <1>3, <1>7, <1>9

\* A call that is submitted adds its bound to what is in flight, and takes it away when
\* it returns.
LEMMA BoundsOfCall ==
  ASSUME NEW F \in SUBSET TwoReader!Requests, NEW r \in TwoReader!Requests \ F
  PROVE  TwoReader!Bounds(F \cup {r}) = TwoReader!Bounds(F) + JudgeSetup.bound[r]
<1>. DEFINE g == [q \in F \cup {r} |-> JudgeSetup.bound[q]]
<1>1. /\ IsFiniteSet(F) /\ r \notin F /\ g \in [F \cup {r} -> Nat]
      /\ g[r] = JudgeSetup.bound[r]
      /\ [q \in F |-> g[q]] = [q \in F |-> JudgeSetup.bound[q]]
  BY JudgeConstants, FS_Subset
<1>2. Total(g) = Total([q \in F |-> g[q]]) + g[r]
  <2>. HIDE DEF g
  <2>. QED
    BY <1>1, TotalExtend
<1>. QED
  BY <1>1, <1>2, SameTotals DEF TwoReader!Bounds

\* A failure file adds at most its cost: it may be there already.
LEMMA FailureAdds ==
  ASSUME JudgeTypes, NEW file, file.cost \in Nat, failures' = failures \cup {file}
  PROVE  /\ IsFiniteSet(failures') /\ \A f \in failures' : f.cost \in Nat
         /\ TwoReader!FailureCost' <= TwoReader!FailureCost + file.cost
<1>. DEFINE g == [f \in failures \cup {file} |-> f.cost]
<1>1. IsFiniteSet(failures) /\ \A f \in failures : f.cost \in Nat
  BY DEF JudgeTypes
<1>2. IsFiniteSet(failures') /\ \A f \in failures' : f.cost \in Nat
  BY <1>1, FS_AddElement
<1>3. TwoReader!FailureCost' = Total(g)
  BY SameTotals DEF TwoReader!FailureCost
<1>4. TwoReader!FailureCost = Total([f \in failures |-> f.cost])
  BY SameTotals DEF TwoReader!FailureCost
<1>5. CASE file \in failures
  <2>1. failures' = failures
    BY <1>5
  <2>2. TwoReader!FailureCost' = TwoReader!FailureCost
    BY <2>1 DEF TwoReader!FailureCost
  <2>. QED
    BY <1>2, <2>2, JudgeSums
<1>6. CASE file \notin failures
  <2>1. /\ g \in [failures \cup {file} -> Nat] /\ g[file] = file.cost
        /\ [f \in failures |-> g[f]] = [f \in failures |-> f.cost]
    BY <1>1
  <2>2. Total(g) = Total([f \in failures |-> g[f]]) + g[file]
    <3>. HIDE DEF g
    <3>. QED
      BY <1>1, <1>6, <2>1, TotalExtend
  <2>3. TwoReader!FailureCost' = TwoReader!FailureCost + file.cost
    BY <1>3, <1>4, <2>1, <2>2
  <2>. QED
    BY <1>2, <2>3, JudgeSums
<1>. QED
  BY <1>5, <1>6

-----------------------------------------------------------------------------
(* The judge: its steps *)

\* A saved answer is of the commit of its command, in its type, and new.
LEMMA ImportedRecords ==
  ASSUME JudgeTypes, NEW r \in JudgeSetup.prior, pc = "import"
  PROVE  /\ TwoReader!ImportedOf(commit)[r] \in TwoReader!Records
         /\ TwoReader!ImportedOf(commit)[r].cost = JudgeSetup.priorCost[r]
<1>1. commit \in JudgeSetup.commits /\ JudgeSetup.priorCost[r] \in Nat
  BY JudgeConstants DEF JudgeTypes
<1>. QED
  BY <1>1 DEF TwoReader!ImportedOf, TwoReader!Records

\* A failed call leaves one file at what it may have cost.
LEMMA SaveFailureWrites ==
  ASSUME NEW r, NEW class, TwoReader!SaveFailure(r, class)
  PROVE  \E file : /\ failures' = failures \cup {file}
                   /\ file.cost = IF class = "rate_limit" THEN 0 ELSE JudgeSetup.bound[r]
<1>. DEFINE cost == IF class = "rate_limit" THEN 0 ELSE JudgeSetup.bound[r]
            file == [request |-> r,
                     nr |-> TwoReader!Cardinality({f \in failures : f.request = r}),
                     contract |-> class = "model_contract",
                     terminal |-> \/ class = "provider_terminal"
                                  \/ /\ class = "model_contract"
                                     /\ TwoReader!Contracts(r) >= JudgeSetup.recovery,
                     cost |-> cost]
<1>1. failures' = failures \cup {file}
  BY DEF TwoReader!SaveFailure
<1>2. file.cost = cost
  OBVIOUS
<1>. HIDE DEF file
<1>. WITNESS file
<1>. QED
  BY <1>1, <1>2

\* Every step keeps the types.
LEMMA JudgeTypesStep ==
  ASSUME JudgeInv, TwoReader!Next
  PROVE  JudgeTypes'
<1>. USE JudgeConstants
<1>1. JudgeTypes /\ TwoReader!TypeOK
  BY DEF JudgeInv, JudgeTypes
<1>2. CASE TwoReader!StartImport \/ TwoReader!StartFixture
  BY <1>1, <1>2 DEF JudgeTypes, TwoReader!TypeOK, TwoReader!StartImport, TwoReader!StartFixture,
     TwoReader!Goto, TwoReader!outside, TwoReader!stage, TwoReader!receipts
<1>3. ASSUME NEW r \in JudgeSetup.prior, TwoReader!ImportResponse(r)
      PROVE  JudgeTypes'
  <2>1. responses' \in [TwoReader!Requests -> TwoReader!Records \cup {None}]
    BY <1>1, <1>3, ImportedRecords DEF TwoReader!TypeOK, TwoReader!ImportResponse
  <2>. QED
    BY <1>1, <1>3, <2>1 DEF JudgeTypes, TwoReader!TypeOK, TwoReader!ImportResponse,
       TwoReader!outside, TwoReader!receipts
<1>4. CASE TwoReader!WriteImport
  <2>1. IsFiniteSet(failures') /\ \A f \in failures' : f.cost \in Nat
    BY <1>1, <1>4, PriorFailuresAreFinite, FS_Union DEF JudgeTypes, TwoReader!WriteImport
  <2>. QED
    BY <1>1, <1>4, <2>1 DEF JudgeTypes, TwoReader!TypeOK, TwoReader!WriteImport, TwoReader!Leave,
       TwoReader!outside
<1>5. CASE \/ TwoReader!Crash \/ TwoReader!StopExecute
           \/ \E r \in JudgeSetup.prior : TwoReader!RefuseImport(r)
  <2>1. /\ TwoReader!Leave /\ halted' \in BOOLEAN
        /\ UNCHANGED <<TwoReader!outside, TwoReader!stage, TwoReader!receipts>>
    BY <1>1, <1>5 DEF TwoReader!TypeOK, TwoReader!Crash, TwoReader!StopExecute,
       TwoReader!RefuseImport
  <2>. QED
    BY <1>1, <2>1 DEF JudgeTypes, TwoReader!TypeOK, TwoReader!Leave, TwoReader!outside,
       TwoReader!stage, TwoReader!receipts
<1>6. CASE TwoReader!WritePlan \/ TwoReader!Score
  BY <1>1, <1>6 DEF JudgeTypes, TwoReader!TypeOK, TwoReader!WritePlan, TwoReader!Score,
     TwoReader!outside, TwoReader!stage, TwoReader!local
<1>7. ASSUME NEW c \in JudgeSetup.costs, TwoReader!PassFixture(c)
      PROVE  JudgeTypes'
  <2>1. fixture' \in [by : JudgeSetup.commits, cost : JudgeSetup.costs]
    BY <1>1, <1>7 DEF JudgeTypes, TwoReader!PassFixture, TwoReader!Goto
  <2>. QED
    BY <1>1, <1>7, <2>1 DEF JudgeTypes, TwoReader!TypeOK, TwoReader!PassFixture, TwoReader!Goto,
       TwoReader!outside, TwoReader!stage
<1>8. CASE TwoReader!Attest \/ TwoReader!WriteSample
  <2>1. /\ TwoReader!Leave
        /\ UNCHANGED <<TwoReader!outside, TwoReader!stage, imported, plan, fixture, halted>>
    BY <1>8 DEF TwoReader!Attest, TwoReader!WriteSample
  <2>. QED
    BY <1>1, <2>1 DEF JudgeTypes, TwoReader!TypeOK, TwoReader!Leave, TwoReader!outside,
       TwoReader!stage
<1>9. CASE TwoReader!StartExecute
  <2>1. budget' \in Nat /\ cap' \in Nat
    <3>1. TwoReader!BudgetSpent \in Nat
      <4>. DEFINE A == {r \in TwoReader!Answered : ~responses[r].prior}
                  f == [r \in A |-> responses[r].cost]
      <4>1. /\ A \in SUBSET TwoReader!Requests
            /\ \A r \in A : responses[r] \in TwoReader!Records
        BY <1>1 DEF TwoReader!TypeOK, TwoReader!Answered
      <4>2. f \in [A -> Nat] /\ IsFiniteSet(A)
        BY <4>1, FS_Subset DEF TwoReader!Records
      <4>3. TwoReader!CostOf(A) = Total(f)
        BY SameTotals DEF TwoReader!CostOf
      <4>. HIDE DEF A, f
      <4>4. Total(f) \in Nat
        BY <4>2, TotalType
      <4>5. TwoReader!BudgetSpent = TwoReader!CostOf(A) + TwoReader!FailureCost
        BY DEF TwoReader!BudgetSpent, A
      <4>. QED
        BY <1>1, <4>3, <4>4, <4>5, JudgeSums
    <3>2. TwoReader!ResponseCap \in Int
      <4>1. Total(JudgeSetup.priorCost) \in Nat
        BY FS_Subset, TotalType
      <4>. QED
        BY <1>1, <4>1, JudgeSums, SameTotals DEF TwoReader!ResponseCap
    <3>. QED
      BY <1>9, <3>1, <3>2 DEF TwoReader!StartExecute
  <2>. QED
    BY <1>1, <1>9, <2>1 DEF JudgeTypes, TwoReader!TypeOK, TwoReader!StartExecute, TwoReader!Goto,
       TwoReader!Missing, TwoReader!outside, TwoReader!stage, TwoReader!receipts
<1>10. CASE TwoReader!CompleteStage
  BY <1>1, <1>10 DEF JudgeTypes, TwoReader!TypeOK, TwoReader!CompleteStage, TwoReader!Goto,
     TwoReader!outside, TwoReader!receipts
<1>11. ASSUME NEW r \in TwoReader!Requests, TwoReader!Submit(r)
       PROVE  JudgeTypes'
  BY <1>1, <1>11 DEF JudgeTypes, TwoReader!TypeOK, TwoReader!Submit, TwoReader!outside,
     TwoReader!stage, TwoReader!receipts
<1>12. ASSUME NEW r \in TwoReader!Requests, NEW c \in JudgeSetup.costs,
              TwoReader!SaveAnswer(r, c)
       PROVE  JudgeTypes'
  <2>1. [by |-> commit, prior |-> FALSE, cost |-> c] \in TwoReader!Records
    BY <1>1, <1>12 DEF JudgeTypes, TwoReader!SaveAnswer, TwoReader!Records
  <2>2. responses' \in [TwoReader!Requests -> TwoReader!Records \cup {None}]
    BY <1>1, <1>12, <2>1 DEF TwoReader!TypeOK, TwoReader!SaveAnswer
  <2>. QED
    BY <1>1, <1>12, <2>2 DEF JudgeTypes, TwoReader!TypeOK, TwoReader!SaveAnswer,
       TwoReader!outside, TwoReader!receipts
<1>13. ASSUME NEW r \in TwoReader!Requests, NEW class \in TwoReader!Classes,
              TwoReader!SaveFailure(r, class)
       PROVE  JudgeTypes'
  <2>. DEFINE cost == IF class = "rate_limit" THEN 0 ELSE JudgeSetup.bound[r]
  <2>1. PICK file : failures' = failures \cup {file} /\ file.cost = cost
    BY <1>13, SaveFailureWrites
  <2>2. cost \in Nat
    OBVIOUS
  <2>3. IsFiniteSet(failures') /\ \A f \in failures' : f.cost \in Nat
    BY <1>1, <2>1, <2>2, FailureAdds
  <2>4. budget' \in Nat
    BY <1>1, <1>13, <2>2 DEF TwoReader!TypeOK, TwoReader!SaveFailure
  <2>. QED
    BY <1>1, <1>13, <2>3, <2>4 DEF JudgeTypes, TwoReader!TypeOK, TwoReader!SaveFailure,
       TwoReader!outside, TwoReader!receipts
<1>14. CASE TwoReader!Change
  <2>1. /\ head' \in JudgeSetup.commits /\ clean' \in BOOLEAN
        /\ source' \in {"frozen", "receipts", "answers", "prior"}
        /\ UNCHANGED <<TwoReader!stage, TwoReader!receipts, TwoReader!local, halted>>
    BY <1>1, <1>14 DEF TwoReader!TypeOK, TwoReader!Change
  <2>. QED
    BY <1>1, <2>1 DEF JudgeTypes, TwoReader!TypeOK, TwoReader!stage, TwoReader!receipts,
       TwoReader!local
<1>. QED
  BY <1>2, <1>3, <1>4, <1>5, <1>6, <1>7, <1>8, <1>9, <1>10, <1>11, <1>12, <1>13, <1>14
     DEF TwoReader!Next, TwoReader!Import, TwoReader!Fixture, TwoReader!Execute

-----------------------------------------------------------------------------
(* The judge: answers, phases and receipts *)

\* Answers and failures change where they are imported or bought only.
Quiet == UNCHANGED <<responses, failures>>

\* The steps that do change them: the import, and what becomes of a call.
LEMMA JudgeWrites ==
  TwoReader!Next =>
    \/ Quiet \/ TwoReader!WriteImport
    \/ \E r \in JudgeSetup.prior : TwoReader!ImportResponse(r)
    \/ \E r \in TwoReader!Requests :
         \/ \E c \in JudgeSetup.costs : TwoReader!SaveAnswer(r, c)
         \/ \E class \in TwoReader!Classes : TwoReader!SaveFailure(r, class)
  BY DEF TwoReader!Next, TwoReader!Import, TwoReader!Fixture, TwoReader!Execute,
     TwoReader!StartImport, TwoReader!RefuseImport, TwoReader!WritePlan, TwoReader!StartFixture,
     TwoReader!PassFixture, TwoReader!Attest, TwoReader!StartExecute, TwoReader!Submit,
     TwoReader!StopExecute, TwoReader!CompleteStage, TwoReader!WriteSample, TwoReader!Score,
     TwoReader!Crash, TwoReader!Change, TwoReader!stage, Quiet

\* What stays: answers, and failures.
Kept ==
  /\ TwoReader!AnswersKept /\ TwoReader!Answered \subseteq TwoReader!Answered'
  /\ failures \subseteq failures'

\* An answer is imported over nothing or over itself.
LEMMA ImportKeeps ==
  ASSUME JudgeInv, NEW r \in JudgeSetup.prior, TwoReader!ImportResponse(r)
  PROVE  /\ Kept /\ failures' = failures
         /\ TwoReader!Answered' = TwoReader!Answered \cup {r}
         /\ responses'[r].cost = JudgeSetup.priorCost[r]
         /\ r \in TwoReader!Answered => responses' = responses
<1>1. JudgeTypes /\ r \in TwoReader!Requests /\ pc = "import"
  BY JudgeConstants DEF JudgeInv, TwoReader!ImportResponse
<1>. DEFINE record == TwoReader!ImportedOf(commit)[r]
<1>2. record \in TwoReader!Records /\ record.cost = JudgeSetup.priorCost[r]
  BY <1>1, ImportedRecords
<1>. HIDE DEF record
<1>3. /\ responses' = [responses EXCEPT ![r] = record] /\ responses[r] \in {None, record}
      /\ failures' = failures
  BY DEF TwoReader!ImportResponse, record
<1>4. responses \in [TwoReader!Requests -> TwoReader!Records \cup {None}]
  BY <1>1 DEF JudgeTypes, TwoReader!TypeOK
<1>5. /\ responses'[r] = record /\ \A q \in TwoReader!Requests \ {r} : responses'[q] = responses[q]
      /\ responses' \in [TwoReader!Requests -> TwoReader!Records \cup {None}]
  BY <1>1, <1>2, <1>3, <1>4
<1>6. record # None
  BY <1>2, JudgeConstants
<1>7. r \in TwoReader!Answered => responses' = responses
  BY <1>3, <1>4 DEF TwoReader!Answered
<1>. QED
  BY <1>1, <1>2, <1>3, <1>5, <1>6, <1>7 DEF Kept, TwoReader!AnswersKept, TwoReader!Answered

\* What is bought was not there, and is not of the earlier attempt.
LEMMA PurchaseKeeps ==
  ASSUME JudgeInv, NEW r \in TwoReader!Requests, NEW c \in JudgeSetup.costs,
         TwoReader!SaveAnswer(r, c)
  PROVE  /\ Kept /\ failures' = failures /\ r \notin JudgeSetup.prior
         /\ TwoReader!Answered' = TwoReader!Answered \cup {r}
         /\ TwoReader!CostOf(TwoReader!Answered)' = TwoReader!CostOf(TwoReader!Answered) + c
<1>1. JudgeTypes /\ pc = "execute" /\ r \in flying /\ commit \in JudgeSetup.commits
  BY DEF JudgeInv, JudgeTypes, TwoReader!SaveAnswer
<1>2. r \notin TwoReader!Answered /\ JudgeSetup.prior \subseteq TwoReader!Answered
  BY <1>1 DEF JudgeInv, ExecuteInv, PhaseInv, Imported
<1>3. [by |-> commit, prior |-> FALSE, cost |-> c] \in TwoReader!Records
  BY <1>1, JudgeConstants DEF TwoReader!Records
<1>4. /\ responses' = [responses EXCEPT ![r] = [by |-> commit, prior |-> FALSE, cost |-> c]]
      /\ failures' = failures
  BY DEF TwoReader!SaveAnswer
<1>5. /\ TwoReader!Answered' = TwoReader!Answered \cup {r}
      /\ \A q \in TwoReader!Answered : responses'[q] = responses[q]
      /\ TwoReader!CostOf(TwoReader!Answered)' = TwoReader!CostOf(TwoReader!Answered) + c
  BY <1>1, <1>2, <1>3, <1>4, AnswerAdds
<1>. QED
  BY <1>2, <1>4, <1>5 DEF Kept, TwoReader!AnswersKept

\* No step removes or rewrites an answer, or removes a failure.
LEMMA JudgeKeeps ==
  ASSUME JudgeInv, TwoReader!Next
  PROVE  Kept
<1>1. CASE Quiet
  BY <1>1 DEF Quiet, Kept, TwoReader!AnswersKept, TwoReader!Answered
<1>2. CASE TwoReader!WriteImport
  BY <1>2 DEF TwoReader!WriteImport, Kept, TwoReader!AnswersKept, TwoReader!Answered
<1>3. ASSUME NEW r \in TwoReader!Requests, NEW class \in TwoReader!Classes,
             TwoReader!SaveFailure(r, class)
      PROVE  Kept
  <2>1. responses' = responses
    BY <1>3 DEF TwoReader!SaveFailure
  <2>2. failures \subseteq failures'
    BY <1>3, SaveFailureWrites
  <2>. QED
    BY <2>1, <2>2 DEF Kept, TwoReader!AnswersKept, TwoReader!Answered
<1>. QED
  BY <1>1, <1>2, <1>3, JudgeWrites, ImportKeeps, PurchaseKeeps

\* The receipts of a whole import go on naming the answers that are there.
LEMMA NamesStay ==
  ASSUME Kept, NEW receipt, NamesAnswers(receipt)
  PROVE  /\ JudgeSetup.prior \subseteq TwoReader!Answered'
         /\ receipt.responses = [r \in JudgeSetup.prior |-> responses'[r]]
<1>1. \A r \in JudgeSetup.prior : r \in TwoReader!Answered /\ responses'[r] = responses[r]
  BY DEF Kept, TwoReader!AnswersKept, NamesAnswers
<1>. QED
  BY <1>1 DEF Kept, NamesAnswers

\* Before an execute command starts, only what was imported is there.
LEMMA ExecuteFindsImport ==
  ASSUME JudgeInv, TwoReader!StartExecute
  PROVE  /\ NamesAnswers(imported) /\ fixture # None
         /\ TwoReader!Answered = JudgeSetup.prior
         /\ failures = TwoReader!PriorFailures
<1>1. /\ imported # None
      /\ imported.responses = [r \in TwoReader!Answered |-> responses[r]]
      /\ imported.failures = failures
  BY DEF TwoReader!StartExecute, TwoReader!ImportCurrent
<1>2. NamesAnswers(imported) /\ imported.failures = TwoReader!PriorFailures
  BY <1>1 DEF JudgeInv, ReceiptInv
<1>3. TwoReader!Answered = JudgeSetup.prior
  <2>1. DOMAIN [r \in TwoReader!Answered |-> responses[r]]
          = DOMAIN [r \in JudgeSetup.prior |-> responses[r]]
    BY <1>1, <1>2 DEF NamesAnswers
  <2>. QED
    BY <2>1
<1>4. fixture # None
  BY DEF JudgeInv, PhaseInv, TwoReader!StartExecute, TwoReader!FixtureCurrent
<1>. QED
  BY <1>1, <1>2, <1>3, <1>4

\* Every step keeps the phases.
LEMMA JudgePhasesStep ==
  ASSUME JudgeInv, TwoReader!Next
  PROVE  PhaseInv'
<1>1. JudgeTypes /\ PhaseInv /\ Kept
  BY JudgeKeeps DEF JudgeInv
<1>2. CASE Quiet
  <2>1. /\ TwoReader!Answered' = TwoReader!Answered /\ responses' = responses
        /\ failures' = failures /\ (Untouched' <=> Untouched) /\ (Imported' <=> Imported)
    BY <1>2 DEF Quiet, TwoReader!Answered, Untouched, Imported
  <2>. SUFFICES /\ fixture' = None => fixture = None /\ attestation' = None /\ pc' # "attest"
                /\ pc' = "fixture" => fixture' = None
                /\ pc' \in {"execute", "close"} => fixture' # None /\ Imported
    BY <1>1, <2>1 DEF PhaseInv
  <2>2. CASE TwoReader!StartImport \/ TwoReader!StartFixture
    BY <1>1, <2>2 DEF PhaseInv, TwoReader!StartImport, TwoReader!StartFixture, TwoReader!Goto,
       TwoReader!receipts
  <2>3. ASSUME NEW c \in JudgeSetup.costs, TwoReader!PassFixture(c)
        PROVE  pc' = "attest" /\ fixture' # None
    <3>1. [by |-> commit, cost |-> c] \in TwoReader!FixtureReceipts
      BY <1>1, <2>3, JudgeConstants
         DEF JudgeTypes, TwoReader!FixtureReceipts, TwoReader!PassFixture, TwoReader!Goto
    <3>. QED
      BY <2>3, <3>1, JudgeConstants DEF TwoReader!PassFixture, TwoReader!Goto
  <2>4. CASE TwoReader!Attest
    BY <1>1, <2>4 DEF PhaseInv, TwoReader!Attest, TwoReader!Leave
  <2>5. CASE TwoReader!StartExecute
    BY <2>5, ExecuteFindsImport
       DEF Imported, TwoReader!StartExecute, TwoReader!Goto, TwoReader!receipts
  <2>6. CASE \/ TwoReader!StopExecute \/ TwoReader!WriteSample \/ TwoReader!Crash
             \/ \E r \in JudgeSetup.prior : TwoReader!RefuseImport(r)
    <3>1. pc' = "idle" /\ fixture' = fixture /\ attestation' = attestation
      BY <2>6 DEF TwoReader!StopExecute, TwoReader!WriteSample, TwoReader!Crash,
         TwoReader!RefuseImport, TwoReader!Leave, TwoReader!receipts
    <3>. QED
      BY <1>1, <3>1 DEF PhaseInv
  <2>7. CASE TwoReader!CompleteStage \/ \E r \in TwoReader!Requests : TwoReader!Submit(r)
    BY <1>1, <2>7 DEF PhaseInv, TwoReader!CompleteStage, TwoReader!Submit, TwoReader!Goto,
       TwoReader!receipts
  <2>8. CASE TwoReader!WritePlan \/ TwoReader!Score \/ TwoReader!Change
    <3>1. pc' = pc /\ fixture' = fixture /\ attestation' = attestation
      BY <2>8 DEF TwoReader!WritePlan, TwoReader!Score, TwoReader!Change, TwoReader!local,
         TwoReader!receipts
    <3>. QED
      BY <1>1, <3>1 DEF PhaseInv
  <2>9. CASE \/ TwoReader!WriteImport
             \/ \E r \in JudgeSetup.prior : TwoReader!ImportResponse(r)
    <3>1. /\ pc' \in {"idle", "import"} /\ fixture' = fixture /\ attestation' = attestation
      BY <2>9 DEF TwoReader!WriteImport, TwoReader!ImportResponse, TwoReader!Leave,
         TwoReader!receipts
    <3>. QED
      BY <1>1, <3>1 DEF PhaseInv
  <2>10. CASE \E r \in TwoReader!Requests :
               \/ \E c \in JudgeSetup.costs : TwoReader!SaveAnswer(r, c)
               \/ \E class \in TwoReader!Classes : TwoReader!SaveFailure(r, class)
    <3>1. /\ pc = "execute" /\ pc' = pc /\ fixture' = fixture
      BY <2>10 DEF TwoReader!SaveAnswer, TwoReader!SaveFailure, TwoReader!receipts
    <3>. QED
      BY <1>1, <3>1 DEF PhaseInv
  <2>. QED
    BY <2>2, <2>3, <2>4, <2>5, <2>6, <2>7, <2>8, <2>9, <2>10
       DEF TwoReader!Next, TwoReader!Import, TwoReader!Fixture, TwoReader!Execute
<1>3. ASSUME NEW r \in JudgeSetup.prior, TwoReader!ImportResponse(r)
      PROVE  PhaseInv'
  <2>1. /\ pc' = "import" /\ fixture' = fixture /\ attestation' = attestation
        /\ failures' = failures
    BY <1>3 DEF TwoReader!ImportResponse, TwoReader!receipts
  <2>2. /\ TwoReader!Answered' = TwoReader!Answered \cup {r}
        /\ responses'[r].cost = JudgeSetup.priorCost[r]
    BY <1>3, ImportKeeps
  <2>3. \A q \in JudgeSetup.prior \cap TwoReader!Answered' :
          responses'[q].cost = JudgeSetup.priorCost[q]
    BY <1>1, <2>2 DEF PhaseInv, Kept, TwoReader!AnswersKept
  <2>4. (Untouched => Untouched') /\ (Imported => Imported')
    BY <2>1, <2>2 DEF Untouched, Imported
  <2>. QED
    BY <1>1, <2>1, <2>3, <2>4 DEF PhaseInv
<1>4. CASE TwoReader!WriteImport
  <2>1. /\ pc' = "idle" /\ fixture' = fixture /\ attestation' = attestation
        /\ responses' = responses /\ failures' = failures \cup TwoReader!PriorFailures
    BY <1>4 DEF TwoReader!WriteImport, TwoReader!Leave
  <2>2. TwoReader!Answered' = TwoReader!Answered
    BY <2>1 DEF TwoReader!Answered
  <2>3. (Untouched => Untouched') /\ (Imported => Imported')
    BY <2>1, <2>2 DEF Untouched, Imported
  <2>. QED
    BY <1>1, <2>1, <2>2, <2>3 DEF PhaseInv
<1>5. ASSUME NEW r \in TwoReader!Requests,
             \/ \E c \in JudgeSetup.costs : TwoReader!SaveAnswer(r, c)
             \/ \E class \in TwoReader!Classes : TwoReader!SaveFailure(r, class)
      PROVE  PhaseInv'
  <2>1. /\ pc = "execute" /\ pc' = "execute" /\ fixture' = fixture
    BY <1>5 DEF TwoReader!SaveAnswer, TwoReader!SaveFailure, TwoReader!receipts
  <2>2. fixture # None /\ Imported
    BY <1>1, <2>1 DEF PhaseInv
  <2>3. Imported'
    BY <1>1, <2>2 DEF Imported, Kept
  <2>4. \A q \in JudgeSetup.prior \cap TwoReader!Answered' :
          responses'[q].cost = JudgeSetup.priorCost[q]
    BY <1>1, <2>2 DEF Imported, PhaseInv, Kept, TwoReader!AnswersKept
  <2>. QED
    BY <2>1, <2>2, <2>3, <2>4 DEF PhaseInv
<1>. QED
  BY <1>2, <1>3, <1>4, <1>5, JudgeWrites

\* Every step keeps what the receipts name.
LEMMA JudgeReceiptsStep ==
  ASSUME JudgeInv, TwoReader!Next
  PROVE  ReceiptInv'
<1>1. JudgeTypes /\ PhaseInv /\ ReceiptInv /\ Kept
  BY JudgeKeeps DEF JudgeInv
<1>2. \A receipt : NamesAnswers(receipt) =>
        /\ JudgeSetup.prior \subseteq TwoReader!Answered'
        /\ receipt.responses = [r \in JudgeSetup.prior |-> responses'[r]]
  BY <1>1, NamesStay
<1>3. CASE TwoReader!WriteImport
  <2>1. JudgeSetup.prior \subseteq TwoReader!Answered
    BY <1>1, <1>3 DEF ReceiptInv, TwoReader!WriteImport
  <2>2. /\ pc' = "idle" /\ responses' = responses /\ sample' = sample
        /\ imported'.responses = [r \in JudgeSetup.prior |-> responses'[r]]
        /\ imported'.failures = TwoReader!PriorFailures
    BY <1>3 DEF TwoReader!WriteImport, TwoReader!Leave
  <2>3. TwoReader!Answered' = TwoReader!Answered
    BY <2>2 DEF TwoReader!Answered
  <2>. QED
    BY <1>1, <1>2, <2>1, <2>2, <2>3 DEF ReceiptInv, NamesAnswers
<1>4. ASSUME NEW r \in JudgeSetup.prior, TwoReader!ImportResponse(r)
      PROVE  ReceiptInv'
  <2>1. /\ pc = "import" /\ pc' = "import" /\ left' = left \ {r}
        /\ imported' = imported /\ sample' = sample
    BY <1>4 DEF TwoReader!ImportResponse, TwoReader!receipts
  <2>2. TwoReader!Answered' = TwoReader!Answered \cup {r}
    BY <1>4, ImportKeeps
  <2>3. JudgeSetup.prior \ left' \subseteq TwoReader!Answered'
    BY <1>1, <2>1, <2>2 DEF ReceiptInv
  <2>. QED
    BY <1>1, <1>2, <2>1, <2>3 DEF ReceiptInv, NamesAnswers
<1>5. CASE TwoReader!StartImport
  <2>1. /\ left' = JudgeSetup.prior /\ pc' = "import"
        /\ imported' = imported /\ sample' = sample
    BY <1>5 DEF TwoReader!StartImport, TwoReader!Goto, TwoReader!receipts
  <2>. QED
    BY <1>1, <1>2, <2>1 DEF ReceiptInv, NamesAnswers
<1>6. CASE TwoReader!StartExecute
  <2>1. pc' = "execute" /\ imported' = imported /\ sample' = sample
    BY <1>6 DEF TwoReader!StartExecute, TwoReader!Goto, TwoReader!receipts
  <2>. QED
    BY <1>1, <1>2, <1>6, <2>1, ExecuteFindsImport DEF ReceiptInv, NamesAnswers
<1>7. CASE TwoReader!WriteSample
  <2>1. /\ pc = "close" /\ pc' = "idle" /\ imported' = imported
        /\ sample'.imported = imported
    BY <1>7 DEF TwoReader!WriteSample, TwoReader!Leave
  <2>. QED
    BY <1>1, <1>2, <2>1 DEF ReceiptInv, NamesAnswers
<1>8. CASE TwoReader!WritePlan \/ TwoReader!Score \/ TwoReader!Change
  <2>1. pc' = pc /\ left' = left /\ imported' = imported /\ sample' = sample
    BY <1>8 DEF TwoReader!WritePlan, TwoReader!Score, TwoReader!Change, TwoReader!local,
       TwoReader!receipts
  <2>. QED
    BY <1>1, <1>2, <2>1 DEF ReceiptInv, NamesAnswers, Kept
<1>9. CASE \/ TwoReader!StartFixture \/ TwoReader!Attest \/ TwoReader!StopExecute
           \/ TwoReader!Crash \/ TwoReader!CompleteStage
           \/ \E c \in JudgeSetup.costs : TwoReader!PassFixture(c)
           \/ \E r \in JudgeSetup.prior : TwoReader!RefuseImport(r)
           \/ \E r \in TwoReader!Requests :
                \/ TwoReader!Submit(r) \/ \E c \in JudgeSetup.costs : TwoReader!SaveAnswer(r, c)
                \/ \E class \in TwoReader!Classes : TwoReader!SaveFailure(r, class)
  <2>1. /\ imported' = imported /\ sample' = sample /\ pc' # "import"
        /\ pc' \in {"execute", "close"} => pc = "execute"
    BY <1>9 DEF TwoReader!StartFixture, TwoReader!Attest, TwoReader!StopExecute,
       TwoReader!Crash, TwoReader!CompleteStage, TwoReader!PassFixture, TwoReader!RefuseImport,
       TwoReader!Submit, TwoReader!SaveAnswer, TwoReader!SaveFailure, TwoReader!Leave,
       TwoReader!Goto, TwoReader!receipts
  <2>. QED
    BY <1>1, <1>2, <2>1 DEF ReceiptInv, NamesAnswers
<1>. QED
  BY <1>3, <1>4, <1>5, <1>6, <1>7, <1>8, <1>9
     DEF TwoReader!Next, TwoReader!Import, TwoReader!Fixture, TwoReader!Execute

-----------------------------------------------------------------------------
(* The judge: its budget *)

\* What any of the answered requests cost is a natural number.
LEMMA CostOfSome ==
  ASSUME JudgeTypes, NEW S \in SUBSET TwoReader!Answered
  PROVE  TwoReader!CostOf(S) \in Nat
<1>. DEFINE f == [r \in S |-> responses[r].cost]
<1>1. S \in SUBSET TwoReader!Requests /\ \A r \in S : responses[r] \in TwoReader!Records
  BY DEF JudgeTypes, TwoReader!TypeOK, TwoReader!Answered
<1>2. f \in [S -> Nat] /\ IsFiniteSet(S)
  BY <1>1, JudgeConstants, FS_Subset DEF TwoReader!Records
<1>. QED
  BY <1>2, TotalType, SameTotals DEF TwoReader!CostOf

\* No call in flight, no reservation.
LEMMA NothingReserved ==
  TwoReader!Bounds({}) = 0
<1>1. [r \in {} |-> JudgeSetup.bound[r]] \in [{} -> Nat]
  OBVIOUS
<1>2. Total([r \in {} |-> JudgeSetup.bound[r]]) = 0
  BY <1>1, TotalZero
<1>. QED
  BY <1>2, SameTotals DEF TwoReader!Bounds

\* With nothing but what the earlier attempt left, the total cap is far.
LEMMA UntouchedFits ==
  /\ JudgeTypes /\ Untouched /\ flying = {}
  /\ \A r \in JudgeSetup.prior \cap TwoReader!Answered :
       responses[r].cost = JudgeSetup.priorCost[r]
  => TwoReader!RecordedWithinTotal
<1>. SUFFICES ASSUME JudgeTypes, Untouched, flying = {},
                     \A r \in JudgeSetup.prior \cap TwoReader!Answered :
                       responses[r].cost = JudgeSetup.priorCost[r]
              PROVE  TwoReader!RecordedWithinTotal
  OBVIOUS
<1>. DEFINE A == TwoReader!Answered
            P == TwoReader!PriorFailures
            f == [x \in P |-> x.cost]
<1>1. A \in SUBSET JudgeSetup.prior /\ failures \in SUBSET P
  BY DEF Untouched
<1>2. TwoReader!CostOf(A) <= Total(JudgeSetup.priorCost)
  <2>1. IsFiniteSet(JudgeSetup.prior)
    BY JudgeConstants, FS_Subset
  <2>2. [r \in A |-> responses[r].cost] = [r \in A |-> JudgeSetup.priorCost[r]]
    BY <1>1
  <2>. HIDE DEF A
  <2>3. Total([r \in A |-> JudgeSetup.priorCost[r]]) <= Total(JudgeSetup.priorCost)
    BY <1>1, <2>1, JudgeConstants, TotalPart
  <2>. QED
    BY <2>2, <2>3, SameTotals DEF TwoReader!CostOf
<1>3. TwoReader!FailureCost <= Total(f) /\ Total(f) \in Nat
  <2>1. f \in [P -> Nat] /\ IsFiniteSet(P)
    BY PriorFailuresAreFinite
  <2>2. [x \in failures |-> f[x]] = [x \in failures |-> x.cost]
    BY <1>1
  <2>. HIDE DEF f, P
  <2>3. Total([x \in failures |-> f[x]]) <= Total(f) /\ Total(f) \in Nat
    BY <1>1, <2>1, TotalPart, TotalType
  <2>. QED
    BY <2>2, <2>3, SameTotals DEF TwoReader!FailureCost
<1>4. Total(JudgeSetup.priorCost) \in Nat
  BY JudgeConstants, FS_Subset, TotalType
<1>5. JudgeSetup.priorFixture + TwoReader!FixtureCost + Total(JudgeSetup.priorCost) + Total(f)
        <= JudgeSetup.totalCap
  BY JudgeSums, PriorFits
<1>6. TwoReader!Bounds(flying) = 0
  BY NothingReserved
<1>7. TwoReader!FixtureCost \in Nat
  BY JudgeSums, JudgeConstants
<1>. HIDE DEF A, f
<1>. QED
  BY <1>2, <1>3, <1>4, <1>5, <1>6, <1>7, JudgeSums, JudgeConstants
     DEF TwoReader!RecordedWithinTotal, A

\* The cap of an execute command is what the total cap leaves.
LEMMA ExecuteFits ==
  JudgeTypes /\ ExecuteInv /\ pc = "execute" => TwoReader!RecordedWithinTotal
<1>. SUFFICES ASSUME JudgeTypes, ExecuteInv, pc = "execute"
              PROVE  TwoReader!RecordedWithinTotal
  OBVIOUS
<1>1. Total(JudgeSetup.priorCost) \in Nat
  BY JudgeConstants, FS_Subset, TotalType
<1>2. /\ TwoReader!CostOf(TwoReader!Answered) + TwoReader!FailureCost
           <= budget + Total(JudgeSetup.priorCost)
      /\ budget + TwoReader!Bounds(flying) <= cap /\ budget \in Nat
      /\ cap = JudgeSetup.totalCap - JudgeSetup.priorFixture - Total(JudgeSetup.priorCost)
                 - TwoReader!FixtureCost
  BY SameTotals DEF ExecuteInv, TwoReader!ResponseCap, JudgeTypes, TwoReader!TypeOK
<1>3. TwoReader!FixtureCost \in Nat
  BY JudgeSums, JudgeConstants
<1>. QED
  BY <1>1, <1>2, <1>3, JudgeSums, JudgeConstants DEF TwoReader!RecordedWithinTotal

\* An execute command starts with what the import left, and with failures its budget
\* counts.
LEMMA StartExecuteStep ==
  ASSUME JudgeInv, TwoReader!StartExecute
  PROVE  ExecuteInv'
<1>. DEFINE A == TwoReader!Answered
            New == {r \in A : ~responses[r].prior}
<1>1. JudgeTypes /\ PhaseInv
  BY DEF JudgeInv
<1>2. A = JudgeSetup.prior
  BY ExecuteFindsImport
<1>3. TwoReader!CostOf(A) = Total(JudgeSetup.priorCost)
  <2>1. [r \in A |-> responses[r].cost] = JudgeSetup.priorCost
    BY <1>1, <1>2, JudgeConstants DEF PhaseInv
  <2>. QED
    BY <2>1, SameTotals DEF TwoReader!CostOf
<1>4. TwoReader!CostOf(New) \in Nat
  <2>1. New \in SUBSET TwoReader!Answered
    OBVIOUS
  <2>. HIDE DEF New
  <2>. QED
    BY <1>1, <2>1, CostOfSome
<1>5. /\ pc' = "execute" /\ left' = TwoReader!Requests \ A
      /\ budget' = TwoReader!CostOf(New) + TwoReader!FailureCost
      /\ cap' = TwoReader!ResponseCap
      /\ TwoReader!CostOf(New) + TwoReader!FailureCost <= TwoReader!ResponseCap
      /\ responses' = responses /\ failures' = failures /\ fixture' = fixture
      /\ flying' = flying /\ pc = "idle"
  BY DEF TwoReader!StartExecute, TwoReader!Goto, TwoReader!Missing, TwoReader!BudgetSpent,
     TwoReader!stage, TwoReader!receipts
<1>6. flying = {} /\ TwoReader!Bounds(flying') = 0
  BY <1>1, <1>5, NothingReserved DEF JudgeTypes
<1>7. /\ A' = A /\ TwoReader!CostOf(TwoReader!Answered)' = TwoReader!CostOf(A)
      /\ TwoReader!FailureCost' = TwoReader!FailureCost
      /\ TwoReader!ResponseCap' = TwoReader!ResponseCap
  BY <1>5 DEF TwoReader!Answered, TwoReader!CostOf, TwoReader!FailureCost,
     TwoReader!ResponseCap, TwoReader!FixtureCost
<1>8. /\ TwoReader!FailureCost \in Nat /\ TwoReader!CostOf(A) \in Nat
      /\ TwoReader!ResponseCap \in Int
  <2>1. Total(JudgeSetup.priorCost) \in Nat
    BY JudgeConstants, FS_Subset, TotalType
  <2>. QED
    BY <1>1, <2>1, JudgeSums, JudgeConstants, SameTotals DEF TwoReader!ResponseCap
<1>9. (left' \cup flying') \cap A' = {} /\ left' \cap flying' = {}
  BY <1>5, <1>6, <1>7
<1>. HIDE DEF New
<1>10. /\ TwoReader!CostOf(A) + TwoReader!FailureCost
             <= budget' + Total(JudgeSetup.priorCost)
       /\ budget' + TwoReader!Bounds(flying') <= cap'
  BY <1>3, <1>4, <1>5, <1>6, <1>8
<1>. QED
  BY <1>5, <1>7, <1>9, <1>10 DEF ExecuteInv

\* A request is submitted only when its bound still fits.
LEMMA SubmitStep ==
  ASSUME JudgeInv, NEW r \in TwoReader!Requests, TwoReader!Submit(r)
  PROVE  ExecuteInv'
<1>1. JudgeTypes /\ ExecuteInv /\ pc = "execute" /\ r \in left
  BY DEF JudgeInv, TwoReader!Submit
<1>2. /\ pc' = pc /\ left' = left \ {r} /\ flying' = flying \cup {r} /\ budget' = budget
      /\ cap' = cap /\ responses' = responses /\ failures' = failures /\ fixture' = fixture
      /\ budget + TwoReader!Bounds(flying) + JudgeSetup.bound[r] <= cap
  BY DEF TwoReader!Submit, TwoReader!Fits, TwoReader!stage, TwoReader!receipts
<1>3. TwoReader!Bounds(flying \cup {r}) = TwoReader!Bounds(flying) + JudgeSetup.bound[r]
  <2>1. flying \in SUBSET TwoReader!Requests /\ r \notin flying
    BY <1>1 DEF JudgeTypes, TwoReader!TypeOK, ExecuteInv
  <2>. QED
    BY <2>1, BoundsOfCall
<1>4. /\ TwoReader!Answered' = TwoReader!Answered
      /\ TwoReader!CostOf(TwoReader!Answered)' = TwoReader!CostOf(TwoReader!Answered)
      /\ TwoReader!FailureCost' = TwoReader!FailureCost
      /\ TwoReader!ResponseCap' = TwoReader!ResponseCap
      /\ TwoReader!Bounds(flying)' = TwoReader!Bounds(flying \cup {r})
  BY <1>2 DEF TwoReader!Answered, TwoReader!CostOf, TwoReader!FailureCost,
     TwoReader!ResponseCap, TwoReader!FixtureCost, TwoReader!Bounds
<1>5. budget' + TwoReader!Bounds(flying)' <= cap'
  BY <1>1, <1>2, <1>3, <1>4, JudgeSums, JudgeConstants DEF JudgeTypes, TwoReader!TypeOK
<1>. QED
  BY <1>1, <1>2, <1>4, <1>5 DEF ExecuteInv

\* An answer is paid from the reservation of its call.
LEMMA SaveAnswerStep ==
  ASSUME JudgeInv, NEW r \in TwoReader!Requests, NEW c \in JudgeSetup.costs,
         TwoReader!SaveAnswer(r, c)
  PROVE  ExecuteInv'
<1>1. JudgeTypes /\ ExecuteInv /\ pc = "execute" /\ r \in flying /\ c <= JudgeSetup.bound[r]
  BY DEF JudgeInv, TwoReader!SaveAnswer
<1>2. /\ pc' = pc /\ left' = left /\ flying' = flying \ {r} /\ budget' = budget + c
      /\ cap' = cap /\ failures' = failures /\ fixture' = fixture
  BY DEF TwoReader!SaveAnswer, TwoReader!receipts
<1>3. /\ TwoReader!Answered' = TwoReader!Answered \cup {r}
      /\ TwoReader!CostOf(TwoReader!Answered)' = TwoReader!CostOf(TwoReader!Answered) + c
  BY PurchaseKeeps
<1>4. /\ TwoReader!FailureCost' = TwoReader!FailureCost
      /\ TwoReader!ResponseCap' = TwoReader!ResponseCap
      /\ TwoReader!Bounds(flying)' = TwoReader!Bounds(flying \ {r})
  BY <1>2 DEF TwoReader!FailureCost, TwoReader!ResponseCap, TwoReader!FixtureCost,
     TwoReader!Bounds
<1>5. TwoReader!Bounds(flying) = TwoReader!Bounds(flying \ {r}) + JudgeSetup.bound[r]
  <2>1. /\ flying \ {r} \in SUBSET TwoReader!Requests /\ r \in TwoReader!Requests \ (flying \ {r})
        /\ (flying \ {r}) \cup {r} = flying
    BY <1>1 DEF JudgeTypes, TwoReader!TypeOK
  <2>. QED
    BY <2>1, BoundsOfCall
<1>6. JudgeTypes'
  BY JudgeTypesStep DEF TwoReader!Next, TwoReader!Execute
<1>7. TwoReader!Bounds(flying \ {r}) \in Nat
  <2>1. TwoReader!Bounds(flying)' \in Nat
    <3>1. JudgeTypes' => (TwoReader!Bounds(flying) \in Nat)'
      BY JudgeSums, PTL
    <3>. QED
      BY <1>6, <3>1
  <2>. QED
    BY <1>4, <2>1
<1>8. /\ c \in Nat /\ JudgeSetup.bound[r] \in Nat /\ budget \in Nat /\ cap \in Nat
      /\ Total(JudgeSetup.priorCost) \in Nat
  BY <1>1, JudgeConstants, FS_Subset, TotalType DEF JudgeTypes, TwoReader!TypeOK
<1>9. /\ TwoReader!CostOf(TwoReader!Answered)' + TwoReader!FailureCost'
            <= budget' + Total(JudgeSetup.priorCost)
      /\ budget' + TwoReader!Bounds(flying)' <= cap'
  BY <1>1, <1>2, <1>3, <1>4, <1>5, <1>7, <1>8, JudgeSums DEF ExecuteInv
<1>10. (left' \cup flying') \cap TwoReader!Answered' = {} /\ left' \cap flying' = {}
  BY <1>1, <1>2, <1>3 DEF ExecuteInv
<1>11. cap' = TwoReader!ResponseCap'
  BY <1>1, <1>2, <1>4 DEF ExecuteInv
<1>. QED
  BY <1>9, <1>10, <1>11 DEF ExecuteInv

\* A failed call is charged at most its reservation.
LEMMA SaveFailureStep ==
  ASSUME JudgeInv, NEW r \in TwoReader!Requests, NEW class \in TwoReader!Classes,
         TwoReader!SaveFailure(r, class)
  PROVE  ExecuteInv'
<1>. DEFINE cost == IF class = "rate_limit" THEN 0 ELSE JudgeSetup.bound[r]
<1>1. JudgeTypes /\ ExecuteInv /\ pc = "execute" /\ r \in flying
  BY DEF JudgeInv, TwoReader!SaveFailure
<1>2. /\ pc' = pc /\ left' = left /\ flying' = flying \ {r} /\ budget' = budget + cost
      /\ cap' = cap /\ responses' = responses /\ fixture' = fixture
  BY DEF TwoReader!SaveFailure, TwoReader!receipts
<1>3. JudgeSetup.bound[r] \in Nat /\ cost \in Nat /\ cost <= JudgeSetup.bound[r]
  BY JudgeConstants
<1>4. TwoReader!FailureCost' <= TwoReader!FailureCost + cost
  <2>1. PICK file : failures' = failures \cup {file} /\ file.cost = cost
    BY SaveFailureWrites
  <2>. HIDE DEF cost
  <2>. QED
    BY <1>1, <1>3, <2>1, FailureAdds
<1>5. /\ TwoReader!Answered' = TwoReader!Answered
      /\ TwoReader!CostOf(TwoReader!Answered)' = TwoReader!CostOf(TwoReader!Answered)
      /\ TwoReader!ResponseCap' = TwoReader!ResponseCap
      /\ TwoReader!Bounds(flying)' = TwoReader!Bounds(flying \ {r})
  BY <1>2 DEF TwoReader!Answered, TwoReader!CostOf, TwoReader!ResponseCap,
     TwoReader!FixtureCost, TwoReader!Bounds
<1>6. TwoReader!Bounds(flying) = TwoReader!Bounds(flying \ {r}) + JudgeSetup.bound[r]
  <2>1. /\ flying \ {r} \in SUBSET TwoReader!Requests /\ r \in TwoReader!Requests \ (flying \ {r})
        /\ (flying \ {r}) \cup {r} = flying
    BY <1>1 DEF JudgeTypes, TwoReader!TypeOK
  <2>. QED
    BY <2>1, BoundsOfCall
<1>7. TwoReader!Bounds(flying \ {r}) \in Nat /\ TwoReader!FailureCost' \in Nat
  <2>1. JudgeTypes'
    BY JudgeTypesStep DEF TwoReader!Next, TwoReader!Execute
  <2>2. JudgeTypes' => (TwoReader!Bounds(flying) \in Nat)' /\ (TwoReader!FailureCost \in Nat)'
    BY JudgeSums, PTL
  <2>. QED
    BY <1>5, <2>1, <2>2
<1>8. /\ budget \in Nat /\ cap \in Nat /\ Total(JudgeSetup.priorCost) \in Nat
  BY <1>1, JudgeConstants, FS_Subset, TotalType DEF JudgeTypes, TwoReader!TypeOK
<1>. HIDE DEF cost
<1>9. /\ TwoReader!CostOf(TwoReader!Answered)' + TwoReader!FailureCost'
            <= budget' + Total(JudgeSetup.priorCost)
      /\ budget' + TwoReader!Bounds(flying)' <= cap'
  BY <1>1, <1>2, <1>3, <1>4, <1>5, <1>6, <1>7, <1>8, JudgeSums DEF ExecuteInv
<1>10. (left' \cup flying') \cap TwoReader!Answered' = {} /\ left' \cap flying' = {}
  BY <1>1, <1>2, <1>5 DEF ExecuteInv
<1>11. cap' = TwoReader!ResponseCap'
  BY <1>1, <1>2, <1>5 DEF ExecuteInv
<1>. QED
  BY <1>9, <1>10, <1>11 DEF ExecuteInv

\* What matters to the total cap, when no call is in flight afterwards.
LEMMA QuietStep ==
  ASSUME JudgeInv, JudgeTypes', pc' # "execute",
         responses' = responses, failures' = failures, fixture' = fixture
  PROVE  ExecuteInv' /\ TwoReader!RecordedWithinTotal'
<1>1. JudgeTypes /\ TwoReader!RecordedWithinTotal
  BY DEF JudgeInv
<1>2. /\ TwoReader!CostOf(TwoReader!Answered)' = TwoReader!CostOf(TwoReader!Answered)
      /\ TwoReader!FailureCost' = TwoReader!FailureCost
      /\ TwoReader!FixtureCost' = TwoReader!FixtureCost
  BY DEF TwoReader!Answered, TwoReader!CostOf, TwoReader!FailureCost, TwoReader!FixtureCost
<1>3. TwoReader!Bounds(flying)' = 0
  <2>1. flying' = {}
    BY DEF JudgeTypes
  <2>2. TwoReader!Bounds(flying)' = TwoReader!Bounds({})
    BY <2>1 DEF TwoReader!Bounds
  <2>. QED
    BY <2>2, NothingReserved
<1>4. TwoReader!FixtureCost \in Nat
  BY <1>1, JudgeSums, JudgeConstants
<1>. QED
  BY <1>1, <1>2, <1>3, <1>4, JudgeSums, JudgeConstants
     DEF ExecuteInv, TwoReader!RecordedWithinTotal

\* Every step keeps the budget of the execute command and the total cap.
LEMMA JudgeMoneyStep ==
  ASSUME JudgeInv, TwoReader!Next
  PROVE  ExecuteInv' /\ TwoReader!RecordedWithinTotal'
<1>1. JudgeTypes /\ PhaseInv /\ JudgeTypes' /\ PhaseInv'
  BY JudgeTypesStep, JudgePhasesStep DEF JudgeInv
<1>2. JudgeTypes' /\ ExecuteInv' /\ (pc = "execute")' => TwoReader!RecordedWithinTotal'
  BY ExecuteFits, PTL
<1>3. Untouched' /\ flying' = {} => TwoReader!RecordedWithinTotal'
  <2>1. /\ JudgeTypes' /\ Untouched' /\ (flying = {})'
        /\ (\A r \in JudgeSetup.prior \cap TwoReader!Answered :
              responses[r].cost = JudgeSetup.priorCost[r])'
        => TwoReader!RecordedWithinTotal'
    BY UntouchedFits, PTL
  <2>. QED
    BY <1>1, <2>1 DEF PhaseInv
<1>4. CASE \/ TwoReader!StartImport \/ TwoReader!StartFixture \/ TwoReader!Attest
           \/ TwoReader!StopExecute \/ TwoReader!CompleteStage \/ TwoReader!WriteSample
           \/ TwoReader!WritePlan \/ TwoReader!Score \/ TwoReader!Crash
           \/ \E r \in JudgeSetup.prior : TwoReader!RefuseImport(r)
  <2>1. /\ pc' # "execute"
        /\ responses' = responses /\ failures' = failures /\ fixture' = fixture
    BY <1>4 DEF TwoReader!StartImport, TwoReader!StartFixture, TwoReader!Attest,
       TwoReader!StopExecute, TwoReader!CompleteStage, TwoReader!WriteSample,
       TwoReader!WritePlan, TwoReader!Score, TwoReader!Crash, TwoReader!RefuseImport,
       TwoReader!Leave, TwoReader!Goto, TwoReader!stage, TwoReader!receipts, TwoReader!local
  <2>. QED
    BY <1>1, <2>1, QuietStep
<1>5. CASE TwoReader!Change
  <2>1. /\ pc' = pc /\ flying' = flying /\ left' = left /\ budget' = budget /\ cap' = cap
        /\ responses' = responses /\ failures' = failures /\ fixture' = fixture
    BY <1>5 DEF TwoReader!Change, TwoReader!stage, TwoReader!receipts, TwoReader!local
  <2>2. /\ TwoReader!Answered' = TwoReader!Answered
        /\ TwoReader!CostOf(TwoReader!Answered)' = TwoReader!CostOf(TwoReader!Answered)
        /\ TwoReader!FailureCost' = TwoReader!FailureCost
        /\ TwoReader!FixtureCost' = TwoReader!FixtureCost
        /\ TwoReader!ResponseCap' = TwoReader!ResponseCap
        /\ TwoReader!Bounds(flying)' = TwoReader!Bounds(flying)
    BY <2>1 DEF TwoReader!Answered, TwoReader!CostOf, TwoReader!FailureCost,
       TwoReader!FixtureCost, TwoReader!ResponseCap, TwoReader!Bounds
  <2>. QED
    BY <2>1, <2>2 DEF JudgeInv, ExecuteInv, TwoReader!RecordedWithinTotal
<1>6. ASSUME NEW c \in JudgeSetup.costs, TwoReader!PassFixture(c)
      PROVE  ExecuteInv' /\ TwoReader!RecordedWithinTotal'
  <2>1. /\ pc = "fixture" /\ pc' = "attest" /\ flying' = flying
        /\ responses' = responses /\ failures' = failures
    BY <1>6 DEF TwoReader!PassFixture, TwoReader!Goto, TwoReader!stage
  <2>2. Untouched /\ flying = {}
    BY <1>1, <2>1 DEF PhaseInv, JudgeTypes
  <2>3. Untouched' /\ flying' = {}
    BY <2>1, <2>2 DEF Untouched, TwoReader!Answered
  <2>. QED
    BY <1>3, <2>1, <2>3 DEF ExecuteInv
<1>7. CASE TwoReader!WriteImport \/ \E r \in JudgeSetup.prior : TwoReader!ImportResponse(r)
  <2>1. pc' # "execute" /\ fixture' = fixture /\ flying' = {}
    BY <1>1, <1>7 DEF TwoReader!WriteImport, TwoReader!ImportResponse, TwoReader!Leave,
       TwoReader!receipts, JudgeTypes
  <2>2. CASE Untouched
    <3>1. Untouched'
      <4>1. CASE TwoReader!WriteImport
        BY <2>2, <4>1 DEF TwoReader!WriteImport, Untouched, TwoReader!Answered
      <4>2. ASSUME NEW r \in JudgeSetup.prior, TwoReader!ImportResponse(r)
            PROVE  Untouched'
        BY <2>2, <4>2, ImportKeeps DEF Untouched
      <4>. QED
        BY <1>7, <4>1, <4>2
    <3>. QED
      BY <1>3, <2>1, <3>1 DEF ExecuteInv
  <2>3. CASE Imported
    <3>1. responses' = responses /\ failures' = failures
      <4>1. CASE TwoReader!WriteImport
        BY <2>3, <4>1 DEF TwoReader!WriteImport, Imported
      <4>2. ASSUME NEW r \in JudgeSetup.prior, TwoReader!ImportResponse(r)
            PROVE  responses' = responses /\ failures' = failures
        BY <2>3, <4>2, ImportKeeps DEF Imported
      <4>. QED
        BY <1>7, <4>1, <4>2
    <3>. QED
      BY <1>1, <2>1, <3>1, QuietStep
  <2>. QED
    BY <1>1, <2>2, <2>3 DEF PhaseInv
<1>8. CASE \/ TwoReader!StartExecute
           \/ \E r \in TwoReader!Requests :
                \/ TwoReader!Submit(r) \/ \E c \in JudgeSetup.costs : TwoReader!SaveAnswer(r, c)
                \/ \E class \in TwoReader!Classes : TwoReader!SaveFailure(r, class)
  <2>1. ExecuteInv'
    BY <1>8, StartExecuteStep, SubmitStep, SaveAnswerStep, SaveFailureStep
  <2>2. pc' = "execute"
    BY <1>8 DEF TwoReader!StartExecute, TwoReader!Submit, TwoReader!SaveAnswer,
       TwoReader!SaveFailure, TwoReader!Goto
  <2>. QED
    BY <1>1, <1>2, <2>1, <2>2
<1>. QED
  BY <1>4, <1>5, <1>6, <1>7, <1>8
     DEF TwoReader!Next, TwoReader!Import, TwoReader!Fixture, TwoReader!Execute

\* What is scored is what the receipts name; afterwards nobody rewrites it.
LEMMA JudgeScoredStep ==
  ASSUME JudgeInv, TwoReader!Next
  PROVE  TwoReader!ScoredIsBound'
<1>1. CASE TwoReader!Score
  <2>1. /\ sample # None /\ sample.imported = imported
        /\ \A r \in TwoReader!Requests : responses[r].by = completion
        /\ scored' = [by |-> completion, answers |-> responses, imported |-> imported]
    BY <1>1 DEF TwoReader!Score, TwoReader!SampleCurrent, TwoReader!Loads
  <2>2. imported.responses = [r \in JudgeSetup.prior |-> responses[r]]
    BY <2>1 DEF JudgeInv, ReceiptInv, NamesAnswers
  <2>. QED
    BY <2>1, <2>2 DEF TwoReader!ScoredIsBound
<1>2. ASSUME ~TwoReader!Score
      PROVE  scored' = scored
  BY <1>2 DEF TwoReader!Next, TwoReader!Import, TwoReader!Fixture, TwoReader!Execute,
     TwoReader!StartImport, TwoReader!ImportResponse, TwoReader!RefuseImport,
     TwoReader!WriteImport, TwoReader!WritePlan, TwoReader!StartFixture,
     TwoReader!PassFixture, TwoReader!Attest, TwoReader!StartExecute, TwoReader!Submit,
     TwoReader!SaveAnswer, TwoReader!SaveFailure, TwoReader!StopExecute,
     TwoReader!CompleteStage, TwoReader!WriteSample, TwoReader!Crash, TwoReader!Change,
     TwoReader!receipts
<1>3. CASE scored' = scored
  BY <1>3 DEF JudgeInv, TwoReader!ScoredIsBound
<1>. QED
  BY <1>1, <1>2, <1>3

\* The judge starts with nothing.
LEMMA JudgeInit ==
  TwoReader!Init => JudgeInv
<1>. SUFFICES ASSUME TwoReader!Init
              PROVE  JudgeInv
  OBVIOUS
<1>1. /\ head \in JudgeSetup.descendants /\ clean = TRUE /\ source = "frozen"
      /\ responses = [r \in TwoReader!Requests |-> None] /\ failures = {} /\ completion = None
      /\ imported = None /\ plan = None /\ fixture = None /\ attestation = None
      /\ sample = None /\ scored = None
      /\ pc = "idle" /\ commit = None /\ left = {} /\ flying = {}
      /\ budget = 0 /\ cap = 0 /\ failed = FALSE /\ halted = FALSE
  BY DEF TwoReader!Init
<1>2. TwoReader!Answered = {}
  BY <1>1 DEF TwoReader!Answered
<1>3. JudgeTypes
  BY <1>1, JudgeConstants, FS_EmptySet DEF JudgeTypes, TwoReader!TypeOK
<1>4. Untouched
  BY <1>1, <1>2 DEF Untouched
<1>5. TwoReader!RecordedWithinTotal
  BY <1>1, <1>2, <1>3, <1>4, UntouchedFits
<1>. QED
  BY <1>1, <1>2, <1>3, <1>4, <1>5
     DEF JudgeInv, PhaseInv, ReceiptInv, ExecuteInv, TwoReader!ScoredIsBound

\* The judge's invariant.
THEOREM JudgeInvariant ==
  TwoReader!Spec => []JudgeInv
<1>1. ASSUME JudgeInv, [TwoReader!Next]_TwoReader!vars
      PROVE  JudgeInv'
  <2>1. CASE TwoReader!Next
    BY <1>1, <2>1, JudgeTypesStep, JudgePhasesStep, JudgeReceiptsStep, JudgeMoneyStep,
       JudgeScoredStep DEF JudgeInv
  <2>2. CASE UNCHANGED TwoReader!vars
    <3>1. /\ UNCHANGED <<head, clean, source, moves>>
          /\ UNCHANGED <<responses, failures, completion>>
          /\ UNCHANGED <<imported, plan, fixture, attestation, sample, scored>>
          /\ UNCHANGED <<pc, commit, left, flying, budget, cap, failed, halted>>
      BY <2>2 DEF TwoReader!vars, TwoReader!outside, TwoReader!stage, TwoReader!receipts,
         TwoReader!local
    <3>2. /\ TwoReader!Answered' = TwoReader!Answered
          /\ TwoReader!CostOf(TwoReader!Answered)' = TwoReader!CostOf(TwoReader!Answered)
          /\ TwoReader!FailureCost' = TwoReader!FailureCost
          /\ TwoReader!FixtureCost' = TwoReader!FixtureCost
          /\ TwoReader!ResponseCap' = TwoReader!ResponseCap
          /\ TwoReader!Bounds(flying)' = TwoReader!Bounds(flying)
      BY <3>1 DEF TwoReader!Answered, TwoReader!CostOf, TwoReader!FailureCost,
         TwoReader!FixtureCost, TwoReader!ResponseCap, TwoReader!Bounds
    <3>3. JudgeTypes'
      BY <1>1, <3>1 DEF JudgeInv, JudgeTypes, TwoReader!TypeOK
    <3>4. PhaseInv'
      BY <1>1, <3>1, <3>2 DEF JudgeInv, PhaseInv, Untouched, Imported
    <3>5. ReceiptInv'
      BY <1>1, <3>1, <3>2 DEF JudgeInv, ReceiptInv, NamesAnswers
    <3>6. ExecuteInv' /\ TwoReader!RecordedWithinTotal' /\ TwoReader!ScoredIsBound'
      BY <1>1, <3>1, <3>2
         DEF JudgeInv, ExecuteInv, TwoReader!RecordedWithinTotal, TwoReader!ScoredIsBound
    <3>. QED
      BY <3>3, <3>4, <3>5, <3>6 DEF JudgeInv
  <2>. QED
    BY <1>1, <2>1, <2>2
<1>. QED
  BY <1>1, JudgeInit, PTL DEF TwoReader!Spec

-----------------------------------------------------------------------------
(* The audit: its invariant *)

\* Types, that of the fixture receipt included; a command knows the commit it works for,
\* and one call at a time is in flight, while calls are made.
AuditTypes ==
  /\ Audit!TypeOK
  /\ fixture \in Audit!Records \cup {None}
  /\ pc \in {"prepare", "check", "calls"} => commit \in AuditSetup.commits
  /\ pc = "fixture" => asked \in AuditSetup.commits
  /\ flying = {} \/ \E r \in AuditSetup.requests : flying = {r}
  /\ pc # "calls" => flying = {}

\* The fixture comes first: nothing is bought, completed or scored before its receipt,
\* which is written once, and only the sample is bought.
AuditPhases ==
  /\ pc = "fixture" => fixture = None
  /\ pc \in {"check", "calls"} => fixture # None
  /\ fixture = None =>
       Audit!Answered = {} /\ failures = {} /\ completion = None /\ scored = None
  /\ Audit!Answered \subseteq Audit!Sample

\* While calls are made no failure is there, the budget is what was recorded, and what
\* is left is what is missing.
AuditCalls ==
  pc = "calls" =>
    /\ failures = {} /\ budget = Audit!Spent
    /\ flying # {} => budget + AuditSetup.reservation <= AuditSetup.totalCap
    /\ (left \cup flying) \cap Audit!Answered = {} /\ left \cap flying = {}
    /\ left \cup flying \subseteq Audit!Sample
    /\ Audit!Sample \subseteq Audit!Answered \cup left \cup flying

\* A completed audit has answered its sample, at the cost its receipt says.
AuditCompleted ==
  completion # None =>
    Audit!Answered = Audit!Sample /\ completion.total = Audit!Spent

AuditInv ==
  /\ AuditTypes /\ AuditPhases /\ AuditCalls /\ AuditCompleted
  /\ Audit!RecordedWithinTotal /\ Audit!LossIsBounded /\ Audit!AuditIsWhole

-----------------------------------------------------------------------------
(* The audit: its constants and sums *)

\* What the audit's constants are.
LEMMA AuditConstants ==
  /\ IsFiniteSet(AuditSetup.requests)
  /\ AuditSetup.priorSpent \in Nat /\ AuditSetup.fixtureCap \in Nat
  /\ AuditSetup.reservation \in Nat /\ AuditSetup.totalCap \in Nat
  /\ AuditSetup.costs \in SUBSET Nat /\ AuditSetup.maxLosses \in Nat
  /\ None \notin AuditSetup.commits /\ None \notin Audit!Records
  BY ExperimentsAssumption, SameFiniteSets DEF Audit!AuditAssumption

\* The first attempt and a fixture fit under the total cap.
LEMMA FixtureFits ==
  AuditSetup.priorSpent + AuditSetup.fixtureCap <= AuditSetup.totalCap
<1>1. Audit!Sample \in SUBSET AuditSetup.requests
  BY DEF Audit!Sample
<1>2. Cardinality(Audit!Sample) \in Nat
  BY <1>1, AuditConstants, FS_Subset, FS_CardinalityType
<1>3. AuditSetup.priorSpent + AuditSetup.fixtureCap
        + Cardinality(Audit!Sample) * AuditSetup.reservation <= AuditSetup.totalCap
  BY ExperimentsAssumption, SameFiniteSets DEF Audit!PlanFits
<1>. DEFINE n == Cardinality(Audit!Sample)
<1>4. \A m, k \in Nat : m * k \in Nat
  OBVIOUS
<1>5. n * AuditSetup.reservation \in Nat
  BY <1>2, <1>4, AuditConstants
<1>. QED
  BY <1>3, <1>5, AuditConstants

\* No answer costs more than the dearest.
LEMMA DearestIsDearest ==
  Audit!Dearest \in Nat /\ \A c \in AuditSetup.costs : c <= Audit!Dearest
<1>1. /\ AuditSetup.costs \in SUBSET Nat /\ IsFiniteSet(AuditSetup.costs)
      /\ AuditSetup.costs # {}
  BY ExperimentsAssumption, SameFiniteSets DEF Audit!AuditAssumption
<1>2. \E c \in AuditSetup.costs : \A d \in AuditSetup.costs : d <= c
  BY <1>1, MaxIsMember
<1>. QED
  BY <1>1, <1>2 DEF Audit!Dearest

\* Nothing is missed of a refused reply before there is one.
LEMMA UnbookedIsNatural ==
  Audit!Unbooked \in Nat /\ (failures = {} => Audit!Unbooked = 0)
BY DearestIsDearest, AuditConstants DEF Audit!Unbooked

\* What is recorded is a natural number, part by part.
LEMMA AuditSums ==
  AuditTypes =>
    /\ Audit!CostOf(Audit!Answered) \in Nat /\ Audit!FixtureCost \in Nat
    /\ Audit!Spent \in Nat /\ Audit!Recorded \in Nat
    /\ Audit!Recorded = Audit!Spent + AuditSetup.reservation * Cardinality(failures)
    /\ AuditSetup.reservation * Cardinality(failures) \in Nat
    /\ AuditSetup.reservation * Cardinality(flying) \in Nat
<1>. SUFFICES ASSUME AuditTypes
              PROVE  /\ Audit!CostOf(Audit!Answered) \in Nat /\ Audit!FixtureCost \in Nat
                     /\ Audit!Spent \in Nat /\ Audit!Recorded \in Nat
                     /\ Audit!Recorded
                          = Audit!Spent + AuditSetup.reservation * Cardinality(failures)
                     /\ AuditSetup.reservation * Cardinality(failures) \in Nat
                     /\ AuditSetup.reservation * Cardinality(flying) \in Nat
  OBVIOUS
<1>1. Audit!CostOf(Audit!Answered) \in Nat
  <2>. DEFINE A == Audit!Answered
              f == [r \in A |-> responses[r].cost]
  <2>1. A \in SUBSET AuditSetup.requests /\ \A r \in A : responses[r] \in Audit!Records
    BY DEF AuditTypes, Audit!TypeOK, Audit!Answered
  <2>2. f \in [A -> Nat] /\ IsFiniteSet(A)
    BY <2>1, AuditConstants, FS_Subset DEF Audit!Records
  <2>. HIDE DEF A
  <2>3. Total(f) \in Nat
    BY <2>2, TotalType
  <2>. QED
    BY <2>3, SameTotals DEF Audit!CostOf, A
<1>2. Audit!FixtureCost \in Nat
  BY DEF AuditTypes, Audit!FixtureCost, Audit!Records
<1>3. failures \in SUBSET AuditSetup.requests /\ flying \in SUBSET AuditSetup.requests
  BY DEF AuditTypes, Audit!TypeOK
<1>4. Cardinality(failures) \in Nat /\ Cardinality(flying) \in Nat
  BY <1>3, AuditConstants, FS_Subset, FS_CardinalityType
<1>5. \A m, k \in Nat : m * k \in Nat
  OBVIOUS
<1>6. /\ AuditSetup.reservation * Cardinality(failures) \in Nat
      /\ AuditSetup.reservation * Cardinality(flying) \in Nat
  BY <1>4, <1>5, AuditConstants
<1>7. Audit!Spent \in Nat
  BY <1>1, <1>2, AuditConstants DEF Audit!Spent
<1>8. Audit!Recorded = Audit!Spent + AuditSetup.reservation * Cardinality(failures)
  BY <1>1, <1>2, <1>6, AuditConstants, SameFiniteSets DEF Audit!Recorded, Audit!Spent
<1>9. Audit!Recorded \in Nat
  BY <1>6, <1>7, <1>8
<1>. QED
  BY <1>1, <1>2, <1>6, <1>7, <1>8, <1>9

\* No file of a failure and no call in flight cost nothing; one costs one reservation.
LEMMA OneReservation ==
  /\ AuditSetup.reservation * Cardinality({}) = 0
  /\ \A r : AuditSetup.reservation * Cardinality({r}) = AuditSetup.reservation
<1>1. Cardinality({}) = 0 /\ \A r : Cardinality({r}) = 1
  BY FS_EmptySet, FS_Singleton
<1>2. \A n \in Nat : n * 0 = 0 /\ n * 1 = n
  OBVIOUS
<1>. QED
  BY <1>1, <1>2, AuditConstants

\* Where no file changes, what is recorded stays.
LEMMA AuditSumsStay ==
  ASSUME responses' = responses, failures' = failures, fixture' = fixture
  PROVE  /\ Audit!Answered' = Audit!Answered /\ Audit!Spent' = Audit!Spent
         /\ Audit!FixtureCost' = Audit!FixtureCost
         /\ Audit!Recorded' = Audit!Recorded
  BY DEF Audit!Answered, Audit!CostOf, Audit!FixtureCost, Audit!Spent, Audit!Recorded

\* One more answer adds its cost and changes no other.
LEMMA AuditAnswerAdds ==
  ASSUME AuditTypes, NEW r \in AuditSetup.requests \ Audit!Answered,
         NEW record \in Audit!Records, responses' = [responses EXCEPT ![r] = record],
         fixture' = fixture, failures' = failures
  PROVE  /\ Audit!Answered' = Audit!Answered \cup {r}
         /\ Audit!Spent' = Audit!Spent + record.cost
         /\ Audit!Recorded' = Audit!Recorded + record.cost
<1>. DEFINE A == Audit!Answered
            g == [q \in A \cup {r} |-> responses'[q].cost]
<1>1. /\ responses \in [AuditSetup.requests -> Audit!Records \cup {None}]
      /\ None \notin Audit!Records
  BY AuditConstants DEF AuditTypes, Audit!TypeOK
<1>2. /\ responses'[r] = record /\ \A q \in AuditSetup.requests \ {r} : responses'[q] = responses[q]
      /\ A \in SUBSET AuditSetup.requests
  BY <1>1 DEF Audit!Answered
<1>3. Audit!Answered' = A \cup {r} /\ \A q \in A : responses'[q] = responses[q]
  BY <1>1, <1>2 DEF Audit!Answered
<1>4. \A q \in A : responses[q] \in Audit!Records
  BY <1>1 DEF Audit!Answered
<1>5. /\ IsFiniteSet(A) /\ r \notin A
      /\ g \in [A \cup {r} -> Nat] /\ g[r] = record.cost
      /\ [q \in A |-> g[q]] = [q \in A |-> responses[q].cost]
  BY <1>2, <1>3, <1>4, AuditConstants, FS_Subset DEF Audit!Records
<1>6. Total(g) = Total([q \in A |-> g[q]]) + g[r]
  <2>. HIDE DEF A, g
  <2>. QED
    BY <1>5, TotalExtend
<1>7. Audit!CostOf(Audit!Answered)' = Total(g)
  BY <1>3, SameTotals DEF Audit!CostOf
<1>8. Audit!CostOf(Audit!Answered) = Total([q \in A |-> responses[q].cost])
  BY SameTotals DEF Audit!CostOf
<1>9. Audit!CostOf(Audit!Answered)' = Audit!CostOf(Audit!Answered) + record.cost
  BY <1>5, <1>6, <1>7, <1>8
<1>10. Audit!FixtureCost' = Audit!FixtureCost
  BY DEF Audit!FixtureCost
<1>11. record.cost \in Nat
  BY DEF Audit!Records
<1>12. Audit!Spent' = Audit!Spent + record.cost
  BY <1>9, <1>10, <1>11, AuditSums, AuditConstants DEF Audit!Spent
<1>13. Audit!Recorded' = Audit!Spent' + AuditSetup.reservation * Cardinality(failures)
  <2>1. Audit!Recorded' = Audit!CostOf(Audit!Answered)' + AuditSetup.priorSpent
          + Audit!FixtureCost + AuditSetup.reservation * Cardinality(failures)
    <3>1. AuditSetup.reservation * Cardinality(failures) \in Int
      BY AuditSums, AuditConstants
    <3>2. Audit!CostOf(Audit!Answered)' \in Nat
      BY <1>9, <1>11, AuditSums
    <3>. QED
      BY <1>10, <3>1, <3>2, AuditSums, AuditConstants, SameFiniteSets DEF Audit!Recorded
  <2>. QED
    BY <1>9, <1>10, <1>11, <2>1, AuditSums, AuditConstants DEF Audit!Spent
<1>. QED
  BY <1>3, <1>11, <1>12, <1>13, AuditSums

-----------------------------------------------------------------------------
(* The audit: its steps *)

\* A step that writes no file of the spending and is charged nothing.
AuditQuiet ==
  /\ responses' = responses /\ failures' = failures /\ fixture' = fixture
  /\ billed' = billed /\ losses' = losses

\* The steps that do write: a fixture, its loss, and what becomes of a call.
LEMMA AuditWrites ==
  Audit!Next =>
    \/ AuditQuiet
    \/ \E c \in AuditSetup.costs :
         Audit!PassFixture(c) \/ Audit!LoseFixture(c) \/ Audit!LoseAnswer(c)
    \/ \E r \in AuditSetup.requests :
         \/ \E c \in AuditSetup.costs : Audit!SaveAnswer(r, c)
         \/ \E c \in AuditSetup.costs \cup {0} : Audit!SaveFailure(r, c)
  BY DEF Audit!Next, Audit!FreezeSample, Audit!EnterFixture, Audit!StartExecute,
     Audit!StartCalls, Audit!CompleteAudit, Audit!Refuse, Audit!Analyze, Audit!Change,
     Audit!Ask, Audit!files, Audit!history, AuditQuiet

\* What is bought is of the sample, and was not there; nothing was completed.
LEMMA AuditBuys ==
  ASSUME AuditInv, NEW r \in AuditSetup.requests, NEW c \in AuditSetup.costs,
         Audit!SaveAnswer(r, c)
  PROVE  /\ flying = {r} /\ fixture # None /\ completion = None
         /\ r \in Audit!Sample /\ r \notin Audit!Answered
         /\ Audit!Answered' = Audit!Answered \cup {r}
         /\ Audit!Spent' = Audit!Spent + c /\ Audit!Recorded' = Audit!Recorded + c
<1>1. /\ AuditTypes /\ pc = "calls" /\ r \in flying /\ commit \in AuditSetup.commits
      /\ fixture # None
  BY DEF AuditInv, AuditTypes, AuditPhases, Audit!SaveAnswer
<1>2. flying = {r}
  BY <1>1 DEF AuditTypes
<1>3. r \in Audit!Sample /\ r \notin Audit!Answered
  BY <1>1 DEF AuditInv, AuditCalls
<1>4. [by |-> commit, cost |-> c] \in Audit!Records
  BY <1>1, AuditConstants DEF Audit!Records
<1>5. /\ responses' = [responses EXCEPT ![r] = [by |-> commit, cost |-> c]]
      /\ fixture' = fixture /\ failures' = failures
  BY DEF Audit!SaveAnswer
<1>6. /\ Audit!Answered' = Audit!Answered \cup {r}
      /\ Audit!Spent' = Audit!Spent + c /\ Audit!Recorded' = Audit!Recorded + c
  BY <1>1, <1>3, <1>4, <1>5, AuditAnswerAdds
<1>7. completion = None
  BY <1>3 DEF AuditInv, AuditCompleted
<1>. QED
  BY <1>1, <1>2, <1>3, <1>6, <1>7

\* Every step keeps the types.
LEMMA AuditTypesStep ==
  ASSUME AuditInv, Audit!Next
  PROVE  AuditTypes'
<1>. USE AuditConstants
<1>1. AuditTypes /\ Audit!TypeOK
  BY DEF AuditInv, AuditTypes
<1>2. CASE \/ Audit!FreezeSample \/ Audit!Analyze \/ Audit!Change
  <2>1. /\ pc' = pc /\ commit' = commit /\ left' = left /\ flying' = flying /\ budget' = budget
        /\ asked' = asked /\ responses' = responses /\ failures' = failures
        /\ fixture' = fixture /\ billed' = billed /\ losses' = losses
    BY <1>2 DEF Audit!FreezeSample, Audit!Analyze, Audit!Change, Audit!local, Audit!history
  <2>2. /\ head' \in AuditSetup.commits /\ clean' \in BOOLEAN
        /\ source' \in {"frozen", "plans", "recovery"}
        /\ manifest' \in {"none", "frozen", "other"}
    BY <1>1, <1>2 DEF Audit!FreezeSample, Audit!Analyze, Audit!Change, Audit!outside,
       Audit!TypeOK
  <2>. QED
    BY <1>1, <2>1, <2>2 DEF AuditTypes, Audit!TypeOK
<1>3. CASE Audit!EnterFixture \/ Audit!StartExecute
  BY <1>1, <1>3 DEF AuditTypes, Audit!TypeOK, Audit!EnterFixture, Audit!StartExecute,
     Audit!Goto, Audit!outside, Audit!files, Audit!history
<1>4. CASE Audit!StartCalls
  <2>1. budget' \in Nat
    BY <1>1, <1>4, AuditSums DEF Audit!StartCalls
  <2>2. left' \subseteq AuditSetup.requests
    BY <1>4 DEF Audit!StartCalls, Audit!Pending, Audit!Sample
  <2>. QED
    BY <1>1, <1>4, <2>1, <2>2 DEF AuditTypes, Audit!TypeOK, Audit!StartCalls, Audit!Goto,
       Audit!outside, Audit!files, Audit!history
<1>5. CASE Audit!CompleteAudit \/ Audit!Refuse
  <2>1. /\ Audit!Leave
        /\ UNCHANGED <<head, clean, moves, source, manifest, responses, failures, fixture>>
        /\ UNCHANGED <<billed, losses>>
    BY <1>5 DEF Audit!CompleteAudit, Audit!Refuse, Audit!outside, Audit!files, Audit!history
  <2>. QED
    BY <1>1, <2>1 DEF AuditTypes, Audit!TypeOK, Audit!Leave
<1>6. ASSUME NEW c \in AuditSetup.costs, Audit!PassFixture(c)
      PROVE  AuditTypes'
  <2>1. asked \in AuditSetup.commits /\ c \in Nat
    BY <1>1, <1>6 DEF AuditTypes, Audit!PassFixture, Audit!Goto
  <2>2. fixture' \in Audit!Records
    BY <1>6, <2>1 DEF Audit!PassFixture, Audit!Records
  <2>. QED
    BY <1>1, <1>6, <2>1, <2>2 DEF AuditTypes, Audit!TypeOK, Audit!PassFixture, Audit!Goto,
       Audit!outside
<1>7. ASSUME NEW c \in AuditSetup.costs, Audit!LoseFixture(c) \/ Audit!LoseAnswer(c)
      PROVE  AuditTypes'
  <2>1. Audit!Lose(c) /\ c \in Nat
    BY <1>7 DEF Audit!LoseFixture, Audit!LoseAnswer
  <2>. QED
    BY <1>1, <2>1 DEF AuditTypes, Audit!TypeOK, Audit!Lose, Audit!Leave, Audit!outside,
       Audit!files
<1>8. ASSUME NEW r \in AuditSetup.requests, Audit!Ask(r)
      PROVE  AuditTypes'
  BY <1>1, <1>8 DEF AuditTypes, Audit!TypeOK, Audit!Ask, Audit!outside, Audit!files,
     Audit!history
<1>9. ASSUME NEW r \in AuditSetup.requests, NEW c \in AuditSetup.costs \cup {0},
             Audit!SaveFailure(r, c)
      PROVE  AuditTypes'
  BY <1>1, <1>9 DEF AuditTypes, Audit!TypeOK, Audit!SaveFailure, Audit!Leave, Audit!outside
<1>10. ASSUME NEW r \in AuditSetup.requests, NEW c \in AuditSetup.costs, Audit!SaveAnswer(r, c)
       PROVE  AuditTypes'
  <2>1. commit \in AuditSetup.commits /\ c \in Nat
    BY <1>1, <1>10 DEF AuditTypes, Audit!SaveAnswer
  <2>2. responses' \in [AuditSetup.requests -> Audit!Records \cup {None}]
    BY <1>1, <1>10, <2>1 DEF Audit!TypeOK, Audit!SaveAnswer, Audit!Records
  <2>. QED
    BY <1>1, <1>10, <2>1, <2>2 DEF AuditTypes, Audit!TypeOK, Audit!SaveAnswer, Audit!outside
<1>. QED
  BY <1>2, <1>3, <1>4, <1>5, <1>6, <1>7, <1>8, <1>9, <1>10 DEF Audit!Next

\* Every step keeps the phases.
LEMMA AuditPhasesStep ==
  ASSUME AuditInv, Audit!Next
  PROVE  AuditPhases'
<1>1. AuditTypes /\ AuditPhases
  BY DEF AuditInv
<1>2. CASE AuditQuiet
  <2>1. Audit!Answered' = Audit!Answered /\ failures' = failures /\ fixture' = fixture
    BY <1>2 DEF AuditQuiet, Audit!Answered
  <2>2. CASE Audit!CompleteAudit \/ Audit!Analyze
    <3>1. fixture # None
      BY <1>1, <2>2 DEF AuditPhases, Audit!CompleteAudit, Audit!Analyze, Audit!Loads
    <3>2. pc' = "idle"
      BY <2>2 DEF Audit!CompleteAudit, Audit!Analyze, Audit!Leave, Audit!local
    <3>. QED
      BY <1>1, <2>1, <3>1, <3>2 DEF AuditPhases
  <2>3. CASE \/ Audit!FreezeSample \/ Audit!EnterFixture \/ Audit!StartExecute
             \/ Audit!StartCalls \/ Audit!Refuse \/ Audit!Change
             \/ \E r \in AuditSetup.requests : Audit!Ask(r)
    <3>1. completion' = completion /\ scored' = scored
      BY <2>3 DEF Audit!FreezeSample, Audit!EnterFixture, Audit!StartExecute,
         Audit!StartCalls, Audit!Refuse, Audit!Change, Audit!Ask, Audit!files
    <3>2. /\ pc' = "fixture" => fixture = None
          /\ pc' \in {"check", "calls"} => fixture # None
      BY <1>1, <2>3 DEF AuditPhases, Audit!FreezeSample, Audit!EnterFixture,
         Audit!NoReceipt, Audit!StartExecute, Audit!StartCalls, Audit!Refuse, Audit!Change,
         Audit!Ask, Audit!Leave, Audit!Goto, Audit!local
    <3>. QED
      BY <1>1, <2>1, <3>1, <3>2 DEF AuditPhases
  <2>4. CASE \/ \E c \in AuditSetup.costs :
                  Audit!PassFixture(c) \/ Audit!LoseFixture(c) \/ Audit!LoseAnswer(c)
             \/ \E r \in AuditSetup.requests :
                  \/ \E c \in AuditSetup.costs : Audit!SaveAnswer(r, c)
                  \/ \E c \in AuditSetup.costs \cup {0} : Audit!SaveFailure(r, c)
    <3>2. /\ completion' = completion /\ scored' = scored
          /\ pc' = "fixture" => fixture = None
          /\ pc' \in {"check", "calls"} => fixture' # None
      <4>1. ASSUME NEW c \in AuditSetup.costs, Audit!PassFixture(c)
            PROVE  fixture' # None
        <5>1. asked \in AuditSetup.commits /\ c \in Nat
          BY <1>1, <4>1, AuditConstants DEF AuditTypes, Audit!PassFixture, Audit!Goto
        <5>2. fixture' \in Audit!Records
          BY <4>1, <5>1 DEF Audit!PassFixture, Audit!Records
        <5>. QED
          BY <5>2, AuditConstants
      <4>. QED
        BY <1>1, <2>4, <4>1 DEF AuditPhases, Audit!PassFixture, Audit!LoseFixture,
           Audit!LoseAnswer, Audit!Lose, Audit!Leave, Audit!SaveFailure, Audit!SaveAnswer,
           Audit!Goto, Audit!files
    <3>. QED
      BY <1>1, <2>1, <3>2 DEF AuditPhases
  <2>. QED
    BY <2>2, <2>3, <2>4 DEF Audit!Next
<1>3. ASSUME NEW c \in AuditSetup.costs, Audit!PassFixture(c)
      PROVE  AuditPhases'
  <2>1. asked \in AuditSetup.commits /\ c \in Nat
    BY <1>1, <1>3, AuditConstants DEF AuditTypes, Audit!PassFixture, Audit!Goto
  <2>2. fixture' \in Audit!Records
    BY <1>3, <2>1 DEF Audit!PassFixture, Audit!Records
  <2>3. /\ fixture' # None /\ pc' \in {"idle", "check"} /\ responses' = responses
    BY <1>3, <2>2, AuditConstants DEF Audit!PassFixture, Audit!Goto
  <2>4. Audit!Answered' = Audit!Answered
    BY <2>3 DEF Audit!Answered
  <2>. QED
    BY <1>1, <2>3, <2>4 DEF AuditPhases
<1>4. ASSUME NEW c \in AuditSetup.costs, Audit!LoseFixture(c) \/ Audit!LoseAnswer(c)
      PROVE  AuditPhases'
  <2>1. /\ pc' = "idle" /\ responses' = responses /\ failures' = failures
        /\ fixture' = fixture /\ completion' = completion /\ scored' = scored
    BY <1>4 DEF Audit!LoseFixture, Audit!LoseAnswer, Audit!Lose, Audit!Leave, Audit!files
  <2>2. Audit!Answered' = Audit!Answered
    BY <2>1 DEF Audit!Answered
  <2>. QED
    BY <1>1, <2>1, <2>2 DEF AuditPhases
<1>5. ASSUME NEW r \in AuditSetup.requests, NEW c \in AuditSetup.costs \cup {0},
             Audit!SaveFailure(r, c)
      PROVE  AuditPhases'
  <2>1. /\ pc = "calls" /\ pc' = "idle" /\ responses' = responses /\ fixture' = fixture
    BY <1>5 DEF Audit!SaveFailure, Audit!Leave
  <2>2. Audit!Answered' = Audit!Answered
    BY <2>1 DEF Audit!Answered
  <2>. QED
    BY <1>1, <2>1, <2>2 DEF AuditPhases
<1>6. ASSUME NEW r \in AuditSetup.requests, NEW c \in AuditSetup.costs, Audit!SaveAnswer(r, c)
      PROVE  AuditPhases'
  <2>1. pc' = "calls" /\ fixture' = fixture
    BY <1>6 DEF Audit!SaveAnswer
  <2>. QED
    BY <1>1, <1>6, <2>1, AuditBuys DEF AuditPhases
<1>. QED
  BY <1>2, <1>3, <1>4, <1>5, <1>6, AuditWrites

\* Every step keeps what the calls rest on.
LEMMA AuditCallsStep ==
  ASSUME AuditInv, Audit!Next
  PROVE  AuditCalls'
<1>1. AuditTypes /\ AuditCalls
  BY DEF AuditInv
<1>2. CASE Audit!StartCalls
  <2>1. /\ failures' = failures /\ failures = {} /\ flying' = flying /\ flying = {}
        /\ left' = Audit!Sample \ Audit!Answered /\ budget' = Audit!Spent
        /\ responses' = responses /\ fixture' = fixture
    BY <1>1, <1>2 DEF AuditTypes, Audit!StartCalls, Audit!Goto, Audit!NotFrozen,
       Audit!Pending, Audit!files
  <2>2. Audit!Answered' = Audit!Answered /\ Audit!Spent' = Audit!Spent
    BY <2>1, AuditSumsStay
  <2>. QED
    BY <2>1, <2>2 DEF AuditCalls
<1>3. ASSUME NEW r \in AuditSetup.requests, Audit!Ask(r)
      PROVE  AuditCalls'
  <2>1. /\ pc = "calls" /\ r \in left /\ flying = {} /\ flying' = {r} /\ left' = left \ {r}
        /\ budget' = budget /\ budget + AuditSetup.reservation <= AuditSetup.totalCap
        /\ failures' = failures /\ responses' = responses /\ fixture' = fixture
    BY <1>3 DEF Audit!Ask, Audit!files
  <2>2. Audit!Answered' = Audit!Answered /\ Audit!Spent' = Audit!Spent
    BY <2>1, AuditSumsStay
  <2>. QED
    BY <1>1, <2>1, <2>2 DEF AuditCalls
<1>4. ASSUME NEW r \in AuditSetup.requests, NEW c \in AuditSetup.costs, Audit!SaveAnswer(r, c)
      PROVE  AuditCalls'
  <2>1. /\ pc = "calls" /\ r \in flying /\ flying' = {} /\ left' = left
        /\ budget' = budget + c /\ failures' = failures
    BY <1>4 DEF Audit!SaveAnswer
  <2>. QED
    BY <1>1, <1>4, <2>1, AuditBuys DEF AuditCalls
<1>5. CASE Audit!Change
  <2>1. /\ pc' = pc /\ flying' = flying /\ left' = left /\ budget' = budget
        /\ failures' = failures /\ responses' = responses /\ fixture' = fixture
    BY <1>5 DEF Audit!Change, Audit!local
  <2>2. Audit!Answered' = Audit!Answered /\ Audit!Spent' = Audit!Spent
    BY <2>1, AuditSumsStay
  <2>. QED
    BY <1>1, <2>1, <2>2 DEF AuditCalls
<1>6. CASE \/ Audit!FreezeSample \/ Audit!EnterFixture \/ Audit!StartExecute
           \/ Audit!CompleteAudit \/ Audit!Refuse \/ Audit!Analyze
           \/ \E c \in AuditSetup.costs :
                Audit!PassFixture(c) \/ Audit!LoseFixture(c) \/ Audit!LoseAnswer(c)
           \/ \E r \in AuditSetup.requests, c \in AuditSetup.costs \cup {0} :
                Audit!SaveFailure(r, c)
  <2>1. pc' # "calls"
    BY <1>6 DEF Audit!FreezeSample, Audit!EnterFixture, Audit!StartExecute,
       Audit!CompleteAudit, Audit!Refuse, Audit!Analyze, Audit!PassFixture,
       Audit!LoseFixture, Audit!LoseAnswer, Audit!SaveFailure, Audit!Lose, Audit!Leave,
       Audit!Goto, Audit!local
  <2>. QED
    BY <2>1 DEF AuditCalls
<1>. QED
  BY <1>2, <1>3, <1>4, <1>5, <1>6 DEF Audit!Next

\* A completion receipt goes on saying what the audit cost.
LEMMA AuditCompletedStep ==
  ASSUME AuditInv, Audit!Next
  PROVE  AuditCompleted'
<1>1. AuditTypes /\ AuditPhases /\ AuditCalls /\ AuditCompleted
  BY DEF AuditInv
<1>2. CASE Audit!CompleteAudit
  <2>1. /\ pc = "calls" /\ left = {} /\ flying = {} /\ completion'.total = budget
        /\ responses' = responses /\ failures' = failures /\ fixture' = fixture
    BY <1>2 DEF Audit!CompleteAudit
  <2>2. Audit!Answered = Audit!Sample /\ budget = Audit!Spent
    BY <1>1, <2>1 DEF AuditCalls, AuditPhases
  <2>3. Audit!Answered' = Audit!Answered /\ Audit!Spent' = Audit!Spent
    BY <2>1, AuditSumsStay
  <2>. QED
    BY <2>1, <2>2, <2>3 DEF AuditCompleted
<1>3. ASSUME ~Audit!CompleteAudit
      PROVE  completion' = completion
  BY <1>3 DEF Audit!Next, Audit!FreezeSample, Audit!EnterFixture, Audit!StartExecute,
     Audit!StartCalls, Audit!Refuse, Audit!Analyze, Audit!Change, Audit!PassFixture,
     Audit!LoseFixture, Audit!LoseAnswer, Audit!Lose, Audit!Ask, Audit!SaveFailure,
     Audit!SaveAnswer, Audit!files
<1>4. CASE completion' = completion /\ responses' = responses /\ fixture' = fixture
  <2>1. Audit!Answered' = Audit!Answered /\ Audit!Spent' = Audit!Spent
    BY <1>4 DEF Audit!Answered, Audit!Spent, Audit!CostOf, Audit!FixtureCost
  <2>. QED
    BY <1>1, <1>4, <2>1 DEF AuditCompleted
<1>5. ASSUME NEW c \in AuditSetup.costs, Audit!PassFixture(c)
      PROVE  AuditCompleted'
  BY <1>1, <1>5 DEF AuditPhases, AuditCompleted, Audit!PassFixture, Audit!Goto
<1>6. ASSUME NEW r \in AuditSetup.requests, NEW c \in AuditSetup.costs, Audit!SaveAnswer(r, c)
      PROVE  AuditCompleted'
  <2>1. completion' = completion
    BY <1>6 DEF Audit!SaveAnswer
  <2>. QED
    BY <1>6, <2>1, AuditBuys DEF AuditCompleted
<1>7. ASSUME \/ \E c \in AuditSetup.costs : Audit!LoseFixture(c) \/ Audit!LoseAnswer(c)
             \/ \E r \in AuditSetup.requests, c \in AuditSetup.costs \cup {0} :
                  Audit!SaveFailure(r, c)
      PROVE  completion' = completion /\ responses' = responses /\ fixture' = fixture
  BY <1>7 DEF Audit!LoseFixture, Audit!LoseAnswer, Audit!Lose, Audit!SaveFailure, Audit!files
<1>8. CASE AuditQuiet
  BY <1>2, <1>3, <1>4, <1>8 DEF AuditQuiet
<1>. QED
  BY <1>4, <1>5, <1>6, <1>7, <1>8, AuditWrites

\* What is scored is the whole sample, at the cost its receipt says; the fixture that
\* belongs to this cost is not bought again.
LEMMA AuditIsWholeStep ==
  ASSUME AuditInv, Audit!Next
  PROVE  Audit!AuditIsWhole'
<1>1. AuditPhases /\ AuditCompleted /\ Audit!AuditIsWhole
  BY DEF AuditInv
<1>2. CASE Audit!Analyze
  <2>. DEFINE S == Audit!Sample
  <2>1. /\ completion # None /\ \A r \in S : responses[r].by = completion.by
        /\ scored' = [answers |-> [r \in S |-> responses[r]], by |-> completion.by,
                      total |-> completion.total]
        /\ fixture' = fixture
    BY <1>2 DEF Audit!Analyze, Audit!Loads
  <2>2. Audit!Answered = S /\ completion.total = Audit!Spent
    BY <1>1, <2>1 DEF AuditCompleted
  <2>3. /\ scored'.by = completion.by /\ scored'.total = Audit!Spent
        /\ \A r \in S : scored'.answers[r] = responses[r]
    BY <2>1, <2>2
  <2>4. [r \in S |-> scored'.answers[r].cost] = [r \in S |-> responses[r].cost]
    BY <2>3
  <2>5. Audit!Spent = AuditSetup.priorSpent + Audit!FixtureCost'
                        + Audit!Total([r \in S |-> scored'.answers[r].cost])
    BY <2>1, <2>2, <2>4 DEF Audit!Spent, Audit!CostOf, Audit!FixtureCost
  <2>. HIDE DEF S
  <2>6. /\ \A r \in S : scored'.answers[r].by = scored'.by
        /\ scored'.total = AuditSetup.priorSpent + Audit!FixtureCost'
                             + Audit!Total([r \in S |-> scored'.answers[r].cost])
    BY <2>1, <2>3, <2>5
  <2>. QED
    BY <2>6 DEF Audit!AuditIsWhole, S
<1>3. ASSUME ~Audit!Analyze
      PROVE  scored' = scored
  BY <1>3 DEF Audit!Next, Audit!FreezeSample, Audit!EnterFixture, Audit!StartExecute,
     Audit!StartCalls, Audit!CompleteAudit, Audit!Refuse, Audit!Change, Audit!PassFixture,
     Audit!LoseFixture, Audit!LoseAnswer, Audit!Lose, Audit!Ask, Audit!SaveFailure,
     Audit!SaveAnswer, Audit!files
<1>4. ASSUME scored # None
      PROVE  fixture' = fixture
  BY <1>1, <1>4 DEF AuditPhases, Audit!Next, Audit!FreezeSample, Audit!EnterFixture,
     Audit!StartExecute, Audit!StartCalls, Audit!CompleteAudit, Audit!Refuse, Audit!Analyze,
     Audit!Change, Audit!PassFixture, Audit!LoseFixture, Audit!LoseAnswer, Audit!Lose,
     Audit!Ask, Audit!SaveFailure, Audit!SaveAnswer, Audit!files, Audit!Goto
<1>5. CASE scored' = scored
  BY <1>1, <1>4, <1>5 DEF Audit!AuditIsWhole, Audit!FixtureCost
<1>. QED
  BY <1>2, <1>3, <1>5

\* Every step keeps the total cap, and every charge in a file, among the losses or, of
\* the refused reply, above its reservation.
LEMMA AuditMoneyStep ==
  ASSUME AuditInv, Audit!Next
  PROVE  Audit!RecordedWithinTotal' /\ Audit!LossIsBounded'
<1>. DEFINE Flying == AuditSetup.reservation * Cardinality(flying)
            Lost == losses * Audit!Dearest + Audit!Unbooked
<1>1. /\ AuditTypes /\ AuditPhases /\ AuditCalls
      /\ Audit!RecordedWithinTotal /\ Audit!LossIsBounded
  BY DEF AuditInv
<1>2. /\ Audit!Recorded \in Nat /\ Flying \in Nat /\ Audit!Recorded + Flying <= AuditSetup.totalCap
  BY <1>1, AuditSums, SameFiniteSets DEF Audit!RecordedWithinTotal
<1>3. /\ billed \in Nat /\ losses \in Nat /\ Lost \in Nat
      /\ AuditSetup.priorSpent + billed <= Audit!Recorded + Lost
  <2>1. \A m, k \in Nat : m * k \in Nat
    OBVIOUS
  <2>2. billed \in Nat /\ losses \in Nat
    BY <1>1, AuditConstants DEF AuditTypes, Audit!TypeOK
  <2>3. losses * Audit!Dearest \in Nat
    BY <2>1, <2>2, DearestIsDearest
  <2>4. Lost \in Nat
    BY <2>3, UnbookedIsNatural
  <2>. QED
    BY <1>1, <2>2, <2>4 DEF Audit!LossIsBounded
<1>4. (Audit!Recorded' + Flying' <= AuditSetup.totalCap) => Audit!RecordedWithinTotal'
  BY SameFiniteSets DEF Audit!RecordedWithinTotal
<1>5. (AuditSetup.priorSpent + billed' <= Audit!Recorded' + Lost') => Audit!LossIsBounded'
  BY DEF Audit!LossIsBounded
<1>6. flying' = {} => Flying' = 0
  BY OneReservation
<1>7. CASE AuditQuiet
  <2>1. Audit!Recorded' = Audit!Recorded /\ Lost' = Lost /\ billed' = billed
    BY <1>7, AuditSumsStay DEF AuditQuiet, Audit!Unbooked
  <2>2. CASE flying' \in {{}, flying}
    <3>1. Flying' = 0 \/ Flying' = Flying
      BY <1>6, <2>2
    <3>. HIDE DEF Flying, Lost
    <3>. QED
      BY <1>2, <1>3, <1>4, <1>5, <2>1, <3>1, AuditConstants
  <2>3. ASSUME NEW r \in AuditSetup.requests, Audit!Ask(r)
        PROVE  Audit!RecordedWithinTotal' /\ Audit!LossIsBounded'
    <3>1. /\ pc = "calls" /\ flying' = {r}
          /\ budget + AuditSetup.reservation <= AuditSetup.totalCap
      BY <2>3 DEF Audit!Ask
    <3>2. failures = {} /\ budget = Audit!Spent
      BY <1>1, <3>1 DEF AuditCalls
    <3>3. Audit!Recorded = budget
      BY <1>1, <3>2, OneReservation, AuditSums
    <3>4. Flying' = AuditSetup.reservation
      BY <3>1, OneReservation
    <3>. HIDE DEF Flying, Lost
    <3>. QED
      BY <1>3, <1>4, <1>5, <2>1, <3>1, <3>3, <3>4
  <2>4. flying' \in {{}, flying} \/ \E r \in AuditSetup.requests : Audit!Ask(r)
    BY DEF Audit!Next, Audit!FreezeSample, Audit!EnterFixture, Audit!StartExecute,
       Audit!StartCalls, Audit!CompleteAudit, Audit!Refuse, Audit!Analyze, Audit!Change,
       Audit!PassFixture, Audit!LoseFixture, Audit!LoseAnswer, Audit!Lose, Audit!Leave,
       Audit!SaveFailure, Audit!SaveAnswer, Audit!local, Audit!Goto
  <2>. QED
    BY <2>2, <2>3, <2>4
<1>8. ASSUME NEW c \in AuditSetup.costs, Audit!PassFixture(c)
      PROVE  Audit!RecordedWithinTotal' /\ Audit!LossIsBounded'
  <2>1. /\ pc = "fixture" /\ c <= AuditSetup.fixtureCap /\ fixture' = [by |-> asked, cost |-> c]
        /\ responses' = responses /\ failures' = failures /\ flying' = flying
        /\ billed' = billed + c /\ losses' = losses /\ c \in Nat
    BY <1>8, AuditConstants DEF Audit!PassFixture, Audit!Goto
  <2>2. /\ fixture = None /\ Audit!Answered = {} /\ failures = {} /\ flying = {}
    BY <1>1, <2>1 DEF AuditPhases, AuditTypes
  <2>3. fixture' # None
    <3>1. asked \in AuditSetup.commits
      BY <1>1, <2>1 DEF AuditTypes
    <3>2. fixture' \in Audit!Records
      BY <2>1, <3>1 DEF Audit!Records
    <3>. QED
      BY <3>2, AuditConstants
  <2>4. /\ Audit!FixtureCost = 0 /\ Audit!FixtureCost' = c
        /\ Audit!CostOf(Audit!Answered)' = Audit!CostOf(Audit!Answered)
    BY <2>1, <2>2, <2>3 DEF Audit!FixtureCost, Audit!CostOf, Audit!Answered
  <2>5. Audit!CostOf(Audit!Answered) = 0
    <3>1. [r \in {} |-> responses[r].cost] \in [{} -> Nat]
      OBVIOUS
    <3>2. Total([r \in {} |-> responses[r].cost]) = 0
      BY <3>1, TotalZero
    <3>. QED
      BY <2>2, <3>2, SameTotals DEF Audit!CostOf
  <2>6. Audit!Recorded = AuditSetup.priorSpent /\ Audit!Recorded' = AuditSetup.priorSpent + c
    BY <2>1, <2>2, <2>4, <2>5, OneReservation, SameFiniteSets, AuditConstants
       DEF Audit!Recorded
  <2>7. Flying' = 0 /\ Lost' = Lost
    BY <1>6, <2>1, <2>2 DEF Audit!Unbooked
  <2>. HIDE DEF Flying, Lost
  <2>. QED
    BY <1>3, <1>4, <1>5, <2>1, <2>6, <2>7, FixtureFits, AuditConstants
<1>9. ASSUME NEW c \in AuditSetup.costs, Audit!LoseFixture(c) \/ Audit!LoseAnswer(c)
      PROVE  Audit!RecordedWithinTotal' /\ Audit!LossIsBounded'
  <2>1. /\ responses' = responses /\ failures' = failures /\ fixture' = fixture
        /\ flying' = {} /\ billed' = billed + c /\ losses' = losses + 1 /\ c \in Nat
    BY <1>9, AuditConstants
       DEF Audit!LoseFixture, Audit!LoseAnswer, Audit!Lose, Audit!Leave, Audit!files
  <2>2. Audit!Recorded' = Audit!Recorded /\ Flying' = 0
    BY <1>6, <2>1, AuditSumsStay
  <2>3. \A m, k \in Nat : (m + 1) * k = m * k + k
    OBVIOUS
  <2>4. Lost' = Lost + Audit!Dearest /\ c <= Audit!Dearest /\ Audit!Dearest \in Nat
    <3>1. Audit!Unbooked' = Audit!Unbooked /\ Audit!Unbooked \in Nat
      BY <2>1, UnbookedIsNatural DEF Audit!Unbooked
    <3>2. \A m, k \in Nat : m * k \in Nat
      OBVIOUS
    <3>3. losses * Audit!Dearest \in Nat /\ losses' * Audit!Dearest = losses * Audit!Dearest + Audit!Dearest
      BY <1>3, <2>1, <2>3, <3>2, DearestIsDearest
    <3>. QED
      BY <2>1, <3>1, <3>3, DearestIsDearest
  <2>. HIDE DEF Flying, Lost
  <2>. QED
    BY <1>2, <1>3, <1>4, <1>5, <2>1, <2>2, <2>4, AuditConstants
<1>10. ASSUME NEW r \in AuditSetup.requests, NEW c \in AuditSetup.costs \cup {0},
              Audit!SaveFailure(r, c)
       PROVE  Audit!RecordedWithinTotal' /\ Audit!LossIsBounded'
  <2>1. /\ pc = "calls" /\ r \in flying /\ failures' = failures \cup {r} /\ flying' = {}
        /\ responses' = responses /\ fixture' = fixture
        /\ billed' = billed + c /\ losses' = losses /\ c \in Nat
    BY <1>10, AuditConstants DEF Audit!SaveFailure, Audit!Leave
  <2>2. failures = {} /\ flying = {r}
    BY <1>1, <2>1 DEF AuditCalls, AuditTypes
  <2>3. Audit!Recorded' = Audit!Recorded + AuditSetup.reservation
    <3>1. Audit!Spent' = Audit!Spent
      BY <2>1 DEF Audit!Spent, Audit!CostOf, Audit!FixtureCost, Audit!Answered
    <3>2. Audit!Recorded' = Audit!Spent' + AuditSetup.reservation * Cardinality(failures')
      <4>1. AuditTypes'
        BY AuditTypesStep
      <4>2. AuditTypes' => (Audit!Recorded
                              = Audit!Spent + AuditSetup.reservation * Cardinality(failures))'
        BY AuditSums, PTL
      <4>. QED
        BY <4>1, <4>2
    <3>3. failures' = {r}
      BY <2>1, <2>2
    <3>4. Audit!Recorded' = Audit!Spent + AuditSetup.reservation
      BY <3>1, <3>2, <3>3, OneReservation
    <3>5. Audit!Recorded = Audit!Spent
      BY <1>1, <2>2, OneReservation, AuditSums
    <3>. QED
      BY <3>4, <3>5
  <2>4. Flying = AuditSetup.reservation /\ Flying' = 0
    BY <1>6, <2>1, <2>2, OneReservation
  <2>5. Lost' = Lost + Audit!Unbooked' /\ Audit!Unbooked' \in Nat
        /\ c <= AuditSetup.reservation + Audit!Unbooked'
    <3>1. /\ Audit!Unbooked' \in Nat
          /\ failures' # {} => c <= AuditSetup.reservation + Audit!Unbooked'
      <4>1. /\ Audit!Dearest \in Nat /\ c \in Nat /\ c <= Audit!Dearest
        BY DearestIsDearest, AuditConstants
      <4>. QED
        BY <4>1, AuditConstants DEF Audit!Unbooked
    <3>2. Audit!Unbooked = 0 /\ failures' # {}
      BY <2>1, <2>2, UnbookedIsNatural
    <3>3. losses * Audit!Dearest \in Nat
      <4>1. \A m, k \in Nat : m * k \in Nat
        OBVIOUS
      <4>. QED
        BY <1>3, <4>1, DearestIsDearest
    <3>. QED
      BY <2>1, <3>1, <3>2, <3>3
  <2>. HIDE DEF Flying, Lost
  <2>. QED
    BY <1>2, <1>3, <1>4, <1>5, <2>1, <2>3, <2>4, <2>5, AuditConstants
<1>11. ASSUME NEW r \in AuditSetup.requests, NEW c \in AuditSetup.costs, Audit!SaveAnswer(r, c)
       PROVE  Audit!RecordedWithinTotal' /\ Audit!LossIsBounded'
  <2>1. /\ c <= AuditSetup.reservation /\ flying' = {} /\ c \in Nat
        /\ billed' = billed + c /\ losses' = losses
    BY <1>11, AuditConstants DEF Audit!SaveAnswer
  <2>2. flying = {r} /\ Audit!Recorded' = Audit!Recorded + c
    BY <1>11, AuditBuys
  <2>3. Flying = AuditSetup.reservation /\ Flying' = 0
    BY <1>6, <2>1, <2>2, OneReservation
  <2>4. Lost' = Lost
    BY <1>11, <2>1 DEF Audit!SaveAnswer, Audit!Unbooked
  <2>. HIDE DEF Flying, Lost
  <2>. QED
    BY <1>2, <1>3, <1>4, <1>5, <2>1, <2>2, <2>3, <2>4, AuditConstants
<1>. QED
  BY <1>7, <1>8, <1>9, <1>10, <1>11, AuditWrites

\* The audit starts with nothing but what the first attempt spent.
LEMMA AuditInit ==
  Audit!Init => AuditInv
<1>. SUFFICES ASSUME Audit!Init
              PROVE  AuditInv
  OBVIOUS
<1>1. /\ head \in AuditSetup.commits /\ clean = TRUE /\ source = "frozen" /\ manifest = "none"
      /\ responses = [r \in AuditSetup.requests |-> None] /\ failures = {}
      /\ fixture = None /\ completion = None /\ scored = None
      /\ pc = "idle" /\ commit = None /\ left = {} /\ flying = {} /\ budget = 0
      /\ asked = None /\ billed = 0 /\ losses = 0
  BY DEF Audit!Init
<1>2. Audit!Answered = {}
  BY <1>1 DEF Audit!Answered
<1>3. AuditTypes
  BY <1>1, AuditConstants DEF AuditTypes, Audit!TypeOK
<1>4. Audit!Recorded = AuditSetup.priorSpent
  <2>1. [r \in {} |-> responses[r].cost] \in [{} -> Nat]
    OBVIOUS
  <2>2. Total([r \in {} |-> responses[r].cost]) = 0
    BY <2>1, TotalZero
  <2>3. Audit!CostOf(Audit!Answered) = 0
    BY <1>2, <2>2, SameTotals DEF Audit!CostOf
  <2>4. Audit!FixtureCost = 0
    BY <1>1 DEF Audit!FixtureCost
  <2>. QED
    BY <1>1, <2>3, <2>4, OneReservation, SameFiniteSets, AuditConstants DEF Audit!Recorded
<1>5. Audit!RecordedWithinTotal
  BY <1>1, <1>4, OneReservation, FixtureFits, SameFiniteSets, AuditConstants
     DEF Audit!RecordedWithinTotal
<1>6. Audit!LossIsBounded
  BY <1>1, <1>4, DearestIsDearest, UnbookedIsNatural, AuditConstants DEF Audit!LossIsBounded
<1>. QED
  BY <1>1, <1>2, <1>3, <1>5, <1>6
     DEF AuditInv, AuditPhases, AuditCalls, AuditCompleted, Audit!AuditIsWhole

\* The audit's invariant.
THEOREM AuditInvariant ==
  Audit!Spec => []AuditInv
<1>1. ASSUME AuditInv, [Audit!Next]_Audit!vars
      PROVE  AuditInv'
  <2>1. CASE Audit!Next
    BY <1>1, <2>1, AuditTypesStep, AuditPhasesStep, AuditCallsStep, AuditCompletedStep,
       AuditMoneyStep, AuditIsWholeStep DEF AuditInv
  <2>2. CASE UNCHANGED Audit!vars
    <3>1. /\ UNCHANGED <<head, clean, moves, source, manifest, responses, failures>>
          /\ UNCHANGED <<fixture, completion, scored, pc, commit, left, flying, budget>>
          /\ UNCHANGED <<asked, billed, losses>>
      BY <2>2 DEF Audit!vars, Audit!outside, Audit!files, Audit!local, Audit!history
    <3>2. /\ Audit!Answered' = Audit!Answered /\ Audit!Spent' = Audit!Spent
          /\ Audit!FixtureCost' = Audit!FixtureCost /\ Audit!Recorded' = Audit!Recorded
      BY <3>1, AuditSumsStay
    <3>3. AuditTypes'
      BY <1>1, <3>1 DEF AuditInv, AuditTypes, Audit!TypeOK
    <3>4. AuditPhases' /\ AuditCalls' /\ AuditCompleted'
      BY <1>1, <3>1, <3>2 DEF AuditInv, AuditPhases, AuditCalls, AuditCompleted
    <3>5. Audit!RecordedWithinTotal' /\ Audit!LossIsBounded' /\ Audit!AuditIsWhole'
      BY <1>1, <3>1, <3>2
         DEF AuditInv, Audit!RecordedWithinTotal, Audit!LossIsBounded, Audit!Unbooked,
             Audit!AuditIsWhole
    <3>. QED
      BY <3>3, <3>4, <3>5 DEF AuditInv
  <2>. QED
    BY <1>1, <2>1, <2>2
<1>. QED
  BY <1>1, AuditInit, PTL DEF Audit!Spec

-----------------------------------------------------------------------------
(* The experiments side by side *)

\* A behaviour follows one experiment from its start.
LEMMA OneExperiment ==
  ASSUME NEW w, [Next]_vars
  PROVE  which = w <=> (which = w)'
  BY DEF Next, JudgeStep, AuditStep, ExposureStep, PipelineStep, vars

\* While the judge runs.
LEMMA JudgeInTurn ==
  /\ Spec => [](which = "judge" => JudgeInv)
  /\ Spec => [][which = "judge" => TwoReader!AnswersKept]_vars
<1>1. Init /\ which = "judge" => TwoReader!Init
  BY DEF Init, JudgeStarts, AuditStarts, ExposureStarts, PipelineStarts
<1>2. which = "judge" /\ [Next]_vars => [TwoReader!Next]_TwoReader!vars
  BY DEF Next, JudgeStep, AuditStep, ExposureStep, PipelineStep, vars, shared, paid, judged,
     TwoReader!vars, TwoReader!outside, TwoReader!stage, TwoReader!receipts, TwoReader!local
<1>3. [Next]_vars => (which = "judge" <=> (which = "judge")')
  BY OneExperiment
<1>4. Spec /\ which = "judge" => TwoReader!Spec
  BY <1>1, <1>2, <1>3, PTL DEF Spec, TwoReader!Spec
<1>5. Spec => [](which = "judge" => JudgeInv)
  BY <1>3, <1>4, JudgeInvariant, PTL DEF Spec
<1>6. /\ which = "judge" => JudgeInv
      /\ [Next]_vars
      => [which = "judge" => TwoReader!AnswersKept]_vars
  <2>. SUFFICES ASSUME which = "judge", JudgeInv, [Next]_vars, ~UNCHANGED vars
                PROVE  TwoReader!AnswersKept
    OBVIOUS
  <2>1. TwoReader!Next
    BY DEF Next, JudgeStep, AuditStep, ExposureStep, PipelineStep
  <2>. QED
    BY <2>1, JudgeKeeps DEF Kept
<1>. QED
  BY <1>5, <1>6, PTL DEF Spec

\* While the audit runs.
LEMMA AuditInTurn ==
  Spec => [](which = "audit" => AuditInv)
<1>1. Init /\ which = "audit" => Audit!Init
  BY DEF Init, JudgeStarts, AuditStarts, ExposureStarts, PipelineStarts
<1>2. which = "audit" /\ [Next]_vars => [Audit!Next]_Audit!vars
  BY DEF Next, JudgeStep, AuditStep, ExposureStep, PipelineStep, vars, shared, paid, audited,
     Audit!vars, Audit!outside, Audit!files, Audit!local, Audit!history
<1>3. [Next]_vars => (which = "audit" <=> (which = "audit")')
  BY OneExperiment
<1>4. Spec /\ which = "audit" => Audit!Spec
  BY <1>1, <1>2, <1>3, PTL DEF Spec, Audit!Spec
<1>. QED
  BY <1>3, <1>4, AuditInvariant, PTL DEF Spec

\* While two invocations of the exposure runner run: what ExposureExecutor_proofs shows.
LEMMA ExposureInTurn ==
  Spec => [](which = "exposure" => Exposure!ScoredIsWhole)
<1>1. Init /\ which = "exposure" => Exposure!Init
  BY DEF Init, JudgeStarts, AuditStarts, ExposureStarts, PipelineStarts
<1>2. which = "exposure" /\ [Next]_vars => [Exposure!Next]_Exposure!vars
  BY DEF Next, JudgeStep, AuditStep, ExposureStep, PipelineStep, vars, shared, paid, audited,
     exposed, Exposure!vars, Exposure!files, Exposure!checkout, Exposure!local
<1>3. [Next]_vars => (which = "exposure" <=> (which = "exposure")')
  BY OneExperiment
<1>4. Spec /\ which = "exposure" => Exposure!Spec
  BY <1>1, <1>2, <1>3, PTL DEF Spec, Exposure!Spec
<1>5. Exposure!Spec => []Exposure!ScoredIsWhole
  BY ExperimentsAssumption, Exposure!ScoredIsWholeHolds
<1>. QED
  BY <1>3, <1>4, <1>5, PTL DEF Spec

\* While the third protocol runs: what NaturalPipeline_proofs shows of it.
LEMMA V3InTurn ==
  /\ Spec => [](which = "v3" => /\ V3!TypeOK /\ V3!ScoredIsBound
                               /\ V3!JudgeWaits /\ V3!ImportIsWhole)
  /\ Spec => [][which = "v3" => V3!AnswersKept]_vars
<1>1. Init /\ which = "v3" => V3!Init
  BY DEF Init, JudgeStarts, AuditStarts, ExposureStarts, PipelineStarts
<1>2. which = "v3" /\ [Next]_vars => [V3!Next]_V3!vars
  BY DEF Next, JudgeStep, AuditStep, ExposureStep, PipelineStep, vars, shared, piped,
     V3!vars, V3!outside, V3!files, V3!triage, V3!import
<1>3. [Next]_vars => (which = "v3" <=> (which = "v3")')
  BY OneExperiment
<1>4. Spec /\ which = "v3" => V3!Spec
  BY <1>1, <1>2, <1>3, PTL DEF Spec, V3!Spec
<1>5. V3!Spec => [](/\ V3!TypeOK /\ V3!ScoredIsBound
                     /\ V3!JudgeWaits /\ V3!ImportIsWhole)
  BY ExperimentsAssumption, V3!TypeCorrect, V3!ScoredIsBoundHolds, V3!JudgeWaitsHolds,
     V3!ImportIsWholeHolds, PTL
<1>6. V3!Spec => [][V3!AnswersKept]_V3!vars
  BY ExperimentsAssumption, V3!AnswersStayHolds, PTL DEF V3!AnswersStay
<1>7. [V3!AnswersKept]_V3!vars => [which = "v3" => V3!AnswersKept]_vars
  BY DEF V3!AnswersKept, V3!vars, V3!outside, V3!files, V3!triage, V3!import
<1>8. which # "v3" => [which = "v3" => V3!AnswersKept]_vars
  OBVIOUS
<1>. QED
  BY <1>3, <1>4, <1>5, <1>6, <1>7, <1>8, PTL DEF Spec

\* While the second protocol runs: what NaturalPipeline_proofs shows of it.
LEMMA V2InTurn ==
  /\ Spec => [](which = "v2" => /\ V2!TypeOK /\ V2!ScoredIsBound
                               /\ V2!JudgeWaits /\ V2!ImportIsWhole)
  /\ Spec => [][which = "v2" => V2!AnswersKept]_vars
<1>1. Init /\ which = "v2" => V2!Init
  BY DEF Init, JudgeStarts, AuditStarts, ExposureStarts, PipelineStarts
<1>2. which = "v2" /\ [Next]_vars => [V2!Next]_V2!vars
  BY DEF Next, JudgeStep, AuditStep, ExposureStep, PipelineStep, vars, shared, piped,
     V2!vars, V2!outside, V2!files, V2!triage, V2!import
<1>3. [Next]_vars => (which = "v2" <=> (which = "v2")')
  BY OneExperiment
<1>4. Spec /\ which = "v2" => V2!Spec
  BY <1>1, <1>2, <1>3, PTL DEF Spec, V2!Spec
<1>5. V2!Spec => [](/\ V2!TypeOK /\ V2!ScoredIsBound
                     /\ V2!JudgeWaits /\ V2!ImportIsWhole)
  BY ExperimentsAssumption, V2!TypeCorrect, V2!ScoredIsBoundHolds, V2!JudgeWaitsHolds,
     V2!ImportIsWholeHolds, PTL
<1>6. V2!Spec => [][V2!AnswersKept]_V2!vars
  BY ExperimentsAssumption, V2!AnswersStayHolds, PTL DEF V2!AnswersStay
<1>7. [V2!AnswersKept]_V2!vars => [which = "v2" => V2!AnswersKept]_vars
  BY DEF V2!AnswersKept, V2!vars, V2!outside, V2!files, V2!triage, V2!import
<1>8. which # "v2" => [which = "v2" => V2!AnswersKept]_vars
  OBVIOUS
<1>. QED
  BY <1>3, <1>4, <1>5, <1>6, <1>7, <1>8, PTL DEF Spec

\* While the replication runs: what NaturalPipeline_proofs shows of it.
LEMMA ReplicationInTurn ==
  /\ Spec => [](which = "replication" => /\ Replication!TypeOK /\ Replication!ScoredIsBound
                               /\ Replication!JudgeWaits /\ Replication!ImportIsWhole)
  /\ Spec => [][which = "replication" => Replication!AnswersKept]_vars
<1>1. Init /\ which = "replication" => Replication!Init
  BY DEF Init, JudgeStarts, AuditStarts, ExposureStarts, PipelineStarts
<1>2. which = "replication" /\ [Next]_vars => [Replication!Next]_Replication!vars
  BY DEF Next, JudgeStep, AuditStep, ExposureStep, PipelineStep, vars, shared, piped,
     Replication!vars, Replication!outside, Replication!files, Replication!triage,
     Replication!import
<1>3. [Next]_vars => (which = "replication" <=> (which = "replication")')
  BY OneExperiment
<1>4. Spec /\ which = "replication" => Replication!Spec
  BY <1>1, <1>2, <1>3, PTL DEF Spec, Replication!Spec
<1>5. Replication!Spec => [](/\ Replication!TypeOK /\ Replication!ScoredIsBound
                     /\ Replication!JudgeWaits /\ Replication!ImportIsWhole)
  BY ExperimentsAssumption, Replication!TypeCorrect, Replication!ScoredIsBoundHolds,
     Replication!JudgeWaitsHolds, Replication!ImportIsWholeHolds, PTL
<1>6. Replication!Spec => [][Replication!AnswersKept]_Replication!vars
  BY ExperimentsAssumption, Replication!AnswersStayHolds, PTL DEF Replication!AnswersStay
<1>7. [Replication!AnswersKept]_Replication!vars
        => [which = "replication" => Replication!AnswersKept]_vars
  BY DEF Replication!AnswersKept, Replication!vars, Replication!outside, Replication!files,
     Replication!triage, Replication!import
<1>8. which # "replication" => [which = "replication" => Replication!AnswersKept]_vars
  OBVIOUS
<1>. QED
  BY <1>3, <1>4, <1>5, <1>6, <1>7, <1>8, PTL DEF Spec

-----------------------------------------------------------------------------
(* All experiments *)

\* Every experiment keeps its types.
THEOREM TypesCorrect ==
  Spec => []TypesOK
<1>1. /\ which = "judge" => JudgeInv
      /\ which = "audit" => AuditInv
      /\ which = "v3" => V3!TypeOK
      /\ which = "v2" => V2!TypeOK
      /\ which = "replication" => Replication!TypeOK
      => TypesOK
  BY DEF TypesOK, JudgeInv, JudgeTypes, AuditInv, AuditTypes
<1>. QED
  BY <1>1, JudgeInTurn, AuditInTurn, V3InTurn, V2InTurn, ReplicationInTurn, PTL

\* The judge and the audit keep what they record and what is in flight within their total
\* caps, whatever calls cost, fail or are lost and whatever commands run on what commits.
THEOREM RecordedWithinTotalHolds ==
  Spec => []RecordedWithinTotal
<1>1. /\ TypesOK
      /\ which = "judge" => JudgeInv
      /\ which = "audit" => AuditInv
      => RecordedWithinTotal
  BY DEF RecordedWithinTotal, JudgeInv, AuditInv
<1>. QED
  BY <1>1, TypesCorrect, JudgeInTurn, AuditInTurn, PTL

\* No experiment publishes anything but a whole bundle of the commit its receipt names.
THEOREM ScoredIsBoundHolds ==
  Spec => []ScoredIsBound
<1>1. /\ which = "judge" => JudgeInv
      /\ which = "audit" => AuditInv
      /\ which = "exposure" => Exposure!ScoredIsWhole
      /\ which = "v3" => V3!ScoredIsBound
      /\ which = "v2" => V2!ScoredIsBound
      /\ which = "replication" => Replication!ScoredIsBound
      => ScoredIsBound
  BY DEF ScoredIsBound, JudgeInv, AuditInv
<1>. QED
  BY <1>1, JudgeInTurn, AuditInTurn, ExposureInTurn, V3InTurn, V2InTurn, ReplicationInTurn,
     PTL

\* In no protocol of the pipeline does the judge run before the stages it judges are
\* complete and its gate has passed.
THEOREM JudgeWaitsHolds ==
  Spec => []JudgeWaits
<1>1. /\ which = "v3" => V3!JudgeWaits
      /\ which = "v2" => V2!JudgeWaits
      /\ which = "replication" => Replication!JudgeWaits
      => JudgeWaits
  BY DEF JudgeWaits
<1>. QED
  BY <1>1, V3InTurn, V2InTurn, ReplicationInTurn, PTL

\* In every protocol of the pipeline a stage that is imported with its receipt has all
\* its answers as soon as the receipt is there.
THEOREM ImportIsWholeHolds ==
  Spec => []ImportIsWhole
<1>1. /\ which = "v3" => V3!ImportIsWhole
      /\ which = "v2" => V2!ImportIsWhole
      /\ which = "replication" => Replication!ImportIsWhole
      => ImportIsWhole
  BY DEF ImportIsWhole
<1>. QED
  BY <1>1, V3InTurn, V2InTurn, ReplicationInTurn, PTL

\* The audit's files account for every charge but one for each lost call and, once,
\* what a refused reply cost above the reservation booked for it.
THEOREM LossIsBoundedHolds ==
  Spec => []LossIsBounded
<1>1. (which = "audit" => AuditInv) => LossIsBounded
  BY DEF LossIsBounded, AuditInv
<1>. QED
  BY <1>1, AuditInTurn, PTL

\* No step of the judge or of a protocol of the pipeline rewrites a saved answer.
THEOREM AnswersStayHolds ==
  Spec => AnswersStay
<1>1. /\ [which = "judge" => TwoReader!AnswersKept]_vars
      /\ [which = "v3" => V3!AnswersKept]_vars
      /\ [which = "v2" => V2!AnswersKept]_vars
      /\ [which = "replication" => Replication!AnswersKept]_vars
      => [/\ which = "judge" => TwoReader!AnswersKept
          /\ which = "v3" => V3!AnswersKept
          /\ which = "v2" => V2!AnswersKept
          /\ which = "replication" => Replication!AnswersKept]_vars
  OBVIOUS
<1>. QED
  BY <1>1, JudgeInTurn, V3InTurn, V2InTurn, ReplicationInTurn, PTL DEF AnswersStay
=============================================================================
