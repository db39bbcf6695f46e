------------------------ MODULE InferredStudy_proofs -------------------------
(***************************************************************************)
(* The inferred experiment, its executor first (InferredExecutor): what it *)
(* spends and publishes.  Then the contracts it shares with the            *)
(* counterfactual and the natural ones (ContractStudy), for every input:   *)
(* what a selected setting claims, what a deletion costs, what a pair or a *)
(* quotation shows.                                                        *)
(***************************************************************************)
EXTENDS InferredInvariant, ContractStudy, Counting_proofs

-----------------------------------------------------------------------------
(* First and last rows *)

\* A row of a checkpoint, by its position.
LEMMA RowType ==
  ASSUME NEW rows \in Seq(Rows), NEW i \in DOMAIN rows
  PROVE  rows[i] \in Rows /\ rows[i].case \in Cases /\ rows[i].cost \in Nat /\ i \in Nat
<1>1. i \in 1 .. Len(rows) /\ Len(rows) \in Nat
  BY LenProperties
<1>2. rows[i] \in Rows
  BY <1>1, ElementOfSeq
<1>. QED
  BY <1>1, <1>2 DEF Rows

\* A case of the sample that has a row has a first one.
LEMMA FirstExists ==
  ASSUME NEW rows \in Seq(Rows), NEW c \in Cases, At(rows, c) # {}
  PROVE  /\ FirstAt(rows, c) \in At(rows, c)
         /\ \A j \in At(rows, c) : FirstAt(rows, c) <= j
<1>1. At(rows, c) \in SUBSET Nat
  BY RowType DEF At
<1>2. \E i \in At(rows, c) : \A j \in At(rows, c) : i <= j
  BY <1>1, MinIsMember, Zenon
<1>. QED
  BY <1>2, Zenon DEF FirstAt

\* Whatever row of a case comes before all others is that first one.
LEMMA FirstUnique ==
  ASSUME NEW rows \in Seq(Rows), NEW c \in Cases, NEW i \in At(rows, c),
         \A j \in At(rows, c) : i <= j
  PROVE  FirstAt(rows, c) = i
<1>1. FirstAt(rows, c) \in At(rows, c) /\ FirstAt(rows, c) <= i /\ i <= FirstAt(rows, c)
  BY FirstExists
<1>2. FirstAt(rows, c) \in Nat /\ i \in Nat
  BY <1>1, RowType DEF At
<1>. QED
  BY <1>1, <1>2

\* And it has a last one: counted from the end, the first.
LEMMA LastExists ==
  ASSUME NEW rows \in Seq(Rows), NEW c \in Cases, At(rows, c) # {}
  PROVE  LastAt(rows, c) \in At(rows, c)
<1>. DEFINE S == {Len(rows) - i : i \in At(rows, c)}
<1>1. \A i \in At(rows, c) : i \in 1 .. Len(rows)
  BY LenProperties DEF At
<1>2. Len(rows) \in Nat
  BY LenProperties
<1>3. S \in SUBSET Nat /\ S # {}
  BY <1>1, <1>2
<1>4. PICK m \in S : \A y \in S : m <= y
  <2>. HIDE DEF S
  <2>. QED
    BY <1>3, MinIsMember, Zenon
<1>5. PICK i \in At(rows, c) : m = Len(rows) - i
  OBVIOUS
<1>6. \A j \in At(rows, c) : j <= i
  <2>. SUFFICES ASSUME NEW j \in At(rows, c) PROVE j <= i
    OBVIOUS
  <2>1. m <= Len(rows) - j
    BY <1>4
  <2>. QED
    BY <2>1, <1>1, <1>2, <1>5
<1>. QED
  BY <1>6, Zenon DEF LastAt

\* With every case answered, both selections are rows, one for each case in
\* the order of the sample, and each row is of its case.
LEMMA SelectionType ==
  ASSUME NEW rows \in Seq(Rows), Covers(rows)
  PROVE  /\ Firsts(rows) \in [Cases -> Rows] /\ Lasts(rows) \in [Cases -> Rows]
         /\ \A c \in Cases : At(rows, c) # {} /\ Firsts(rows)[c].case = c
<1>1. \A c \in Cases : At(rows, c) # {}
  BY DEF Covers, Answered
<1>2. \A c \in Cases : FirstAt(rows, c) \in At(rows, c) /\ LastAt(rows, c) \in At(rows, c)
  BY <1>1, FirstExists, LastExists
<1>3. \A c \in Cases : /\ rows[FirstAt(rows, c)] \in Rows /\ rows[LastAt(rows, c)] \in Rows
                       /\ rows[FirstAt(rows, c)].case = c
  BY <1>2, RowType DEF At
<1>. QED
  BY <1>1, <1>3 DEF Firsts, Lasts

\* A row for every case is a sequence of rows.
LEMMA SelectionIsSeq ==
  ASSUME InferredAssumption, NEW f \in [Cases -> Rows]
  PROVE  f \in Seq(Rows) /\ DOMAIN f = Cases /\ f # <<>>
<1>1. N \in Nat /\ N # 0 /\ f \in [1 .. N -> Rows]
  BY DEF InferredAssumption, Cases
<1>2. f \in Seq(Rows)
  BY <1>1
<1>3. DOMAIN f = Cases /\ 1 \in DOMAIN f
  BY <1>1 DEF Cases
<1>. QED
  BY <1>2, <1>3

\* So a view of a covered checkpoint is not the absence of one.
LEMMA FirstsNonempty ==
  ASSUME InferredAssumption, NEW rows \in Seq(Rows), Covers(rows)
  PROVE  Firsts(rows) # <<>> /\ Firsts(rows) \in Seq(Rows)
BY SelectionType, SelectionIsSeq

\* Once every case is answered, a new row changes the first row of no case.
LEMMA FirstsStay ==
  ASSUME NEW rows \in Seq(Rows), NEW row \in Rows, Covers(rows)
  PROVE  Covers(Append(rows, row)) /\ Firsts(Append(rows, row)) = Firsts(rows)
<1>. DEFINE more == Append(rows, row)
<1>1. /\ more \in Seq(Rows) /\ Len(rows) \in Nat /\ DOMAIN rows = 1 .. Len(rows)
      /\ DOMAIN more = 1 .. (Len(rows) + 1)
      /\ \A i \in DOMAIN rows : more[i] = rows[i]
  BY AppendProperties, LenProperties
<1>2. \A c \in Cases : At(rows, c) # {}
  BY DEF Covers, Answered
<1>. HIDE DEF more
<1>3. \A c \in Cases : /\ FirstAt(rows, c) \in At(more, c)
                       /\ \A j \in At(more, c) : FirstAt(rows, c) <= j
                       /\ more[FirstAt(rows, c)] = rows[FirstAt(rows, c)]
  <2>. SUFFICES ASSUME NEW c \in Cases
                PROVE  /\ FirstAt(rows, c) \in At(more, c)
                       /\ \A j \in At(more, c) : FirstAt(rows, c) <= j
                       /\ more[FirstAt(rows, c)] = rows[FirstAt(rows, c)]
    OBVIOUS
  <2>1. /\ FirstAt(rows, c) \in At(rows, c)
        /\ \A j \in At(rows, c) : FirstAt(rows, c) <= j
    BY <1>2, FirstExists
  <2>2. FirstAt(rows, c) \in DOMAIN rows /\ FirstAt(rows, c) \in 1 .. Len(rows)
    BY <2>1, <1>1 DEF At
  <2>3. FirstAt(rows, c) \in At(more, c)
    BY <2>1, <2>2, <1>1 DEF At
  <2>4. ASSUME NEW j \in At(more, c) PROVE FirstAt(rows, c) <= j
    <3>1. CASE j \in DOMAIN rows
      BY <3>1, <2>1, <1>1 DEF At
    <3>2. CASE j \notin DOMAIN rows
      BY <3>2, <2>2, <1>1 DEF At
    <3>. QED
      BY <3>1, <3>2
  <2>. QED
    BY <2>2, <2>3, <2>4, <1>1
<1>4. \A c \in Cases : FirstAt(more, c) = FirstAt(rows, c)
  BY <1>1, <1>3, FirstUnique
<1>5. Covers(more)
  BY <1>3 DEF Covers, Answered
<1>6. Firsts(more) = Firsts(rows)
  BY <1>3, <1>4 DEF Firsts
<1>. QED
  BY <1>5, <1>6 DEF more

\* Without duplicates the last row of a case is its first.
LEMMA DistinctLasts ==
  ASSUME NEW rows \in Seq(Rows), Covers(rows), Distinct(rows)
  PROVE  Lasts(rows) = Firsts(rows)
<1>1. \A c \in Cases : FirstAt(rows, c) \in At(rows, c) /\ LastAt(rows, c) \in At(rows, c)
  BY FirstExists, LastExists DEF Covers, Answered
<1>2. \A c \in Cases : LastAt(rows, c) = FirstAt(rows, c)
  BY <1>1 DEF At, Distinct
<1>. QED
  BY <1>2 DEF Firsts, Lasts

\* A primary view that is scored yields itself.
LEMMA ViewOfView ==
  ASSUME InferredAssumption, NEW rows \in Seq(Rows), Covers(rows)
  PROVE  Lasts(Firsts(rows)) = Firsts(rows)
<1>. DEFINE f == Firsts(rows)
<1>1. f \in [Cases -> Rows] /\ \A c \in Cases : f[c].case = c
  BY SelectionType
<1>2. f \in Seq(Rows) /\ DOMAIN f = Cases
  BY <1>1, SelectionIsSeq
<1>. HIDE DEF f
<1>3. \A c \in Cases : At(f, c) = {c}
  BY <1>1, <1>2 DEF At
<1>4. \A c \in Cases : LastAt(f, c) = c
  <2>. SUFFICES ASSUME NEW c \in Cases PROVE LastAt(f, c) = c
    OBVIOUS
  <2>1. LastAt(f, c) \in At(f, c)
    BY <1>2, <1>3, LastExists
  <2>. QED
    BY <2>1, <1>3
<1>5. Lasts(f) = [c \in Cases |-> f[c]]
  BY <1>4 DEF Lasts
<1>. QED
  BY <1>1, <1>5 DEF f

-----------------------------------------------------------------------------
(* Types, for any number of invocations *)

\* Whoever publishes or scores holds rows of every case.
CoverInv ==
  \A p \in Procs : pc[p] \in {"primary", "sensitivity", "audit", "score"} =>
    Covers(view[p])

TypeInv == TypeOK /\ CoverInv

\* The total of a checkpoint is a number, and a new row adds its cost.
LEMMA SpentType ==
  ASSUME NEW rows \in Seq(Rows)
  PROVE  /\ Spent(rows) \in Nat
         /\ \A row \in Rows : Spent(Append(rows, row)) = Spent(rows) + row.cost
<1>1. \A r \in Rows : r.cost \in Nat
  BY DEF Rows
<1>. QED
  BY <1>1, CostsType, CostsAppend DEF Spent

\* Empty files are well typed.
LEMMA InitTypes == ASSUME InferredAssumption PROVE Init => TypeInv
<1>1. <<>> \in Seq(Rows)
  OBVIOUS
<1>2. Init => /\ log \in Seq(Rows) /\ primary \in Seq(Rows) /\ sensitivity \in Seq(Rows)
              /\ view \in [Procs -> Seq(Rows)]
  BY <1>1, Zenon DEF Init
<1>6. Init => receiptCost \in Nat
  BY DEF Init
<1>3. Init => /\ receipt \in Contracts \cup {None}
              /\ failures \subseteq Cases \X {"transport", "contract"}
              /\ audit \in {<<>>} \cup Seq(Rows) \X Seq(Rows)
              /\ score \in {<<>>} \cup {"log", "primary", "sensitivity"} \X [Cases -> Rows]
  BY Zenon DEF Init
<1>4. Init => /\ contract \in Contracts
              /\ pc \in [Procs -> {"idle", "fixture", "loop", "sent", "primary",
                                   "sensitivity", "audit", "score"}]
              /\ completed \in [Procs -> SUBSET Cases] /\ spent \in [Procs -> Nat]
              /\ source \in [Procs -> {"log", "primary", "sensitivity"}]
              /\ faults \in Nat /\ losses \in Nat /\ edits \in Nat
  BY DEF Init
<1>5. Init => CoverInv
  BY DEF Init, CoverInv
<1>. QED
  BY <1>2, <1>3, <1>4, <1>5, <1>6 DEF TypeInv, TypeOK

\* The row that Answer appends.
NewRow(c, cost, answer) ==
  [case |-> c, contract |-> contract, cost |-> cost, answer |-> answer]

\* An answer adds one row of its case.
LEMMA AnswerRow ==
  ASSUME InferredAssumption, TypeOK, NEW p \in Procs, NEW c \in Cases,
         NEW cost \in Costs, NEW answer \in Answers, Answer(p, c, cost, answer)
  PROVE  /\ NewRow(c, cost, answer) \in Rows
         /\ log' = Append(log, NewRow(c, cost, answer)) /\ log' \in Seq(Rows)
<1>1. contract \in Contracts /\ cost \in Nat /\ log \in Seq(Rows)
  BY DEF InferredAssumption, TypeOK
<1>2. NewRow(c, cost, answer) \in Rows
  BY <1>1 DEF NewRow, Rows
<1>3. log' = Append(log, NewRow(c, cost, answer))
  BY DEF Answer, NewRow
<1>. QED
  BY <1>1, <1>2, <1>3, AppendProperties

\* Leaving a command forgets its memory and keeps the types of it.
LEMMA LeaveTypes ==
  ASSUME TypeInv, NEW p \in Procs, Leave(p)
  PROVE  /\ CoverInv'
         /\ pc' \in [Procs -> {"idle", "fixture", "loop", "sent", "primary",
                               "sensitivity", "audit", "score"}]
         /\ completed' \in [Procs -> SUBSET Cases] /\ spent' \in [Procs -> Nat]
         /\ view' \in [Procs -> Seq(Rows)]
         /\ source' \in [Procs -> {"log", "primary", "sensitivity"}]
<1>1. <<>> \in Seq(Rows)
  OBVIOUS
<1>2. /\ pc \in [Procs -> {"idle", "fixture", "loop", "sent", "primary",
                           "sensitivity", "audit", "score"}]
      /\ completed \in [Procs -> SUBSET Cases] /\ spent \in [Procs -> Nat]
      /\ view \in [Procs -> Seq(Rows)]
      /\ source \in [Procs -> {"log", "primary", "sensitivity"}]
  BY DEF TypeInv, TypeOK
<1>3. \A q \in Procs : q # p => pc'[q] = pc[q] /\ view'[q] = view[q]
  BY <1>2 DEF Leave
<1>4. pc'[p] = "idle"
  BY <1>2 DEF Leave
<1>5. CoverInv'
  BY <1>3, <1>4 DEF TypeInv, CoverInv, Covers, Answered, At
<1>. QED
  BY <1>1, <1>2, <1>5 DEF Leave

\* Every step keeps the types, whoever takes it.
LEMMA StepTypes ==
  ASSUME InferredAssumption, TypeInv, [Next]_vars
  PROVE  TypeInv'
<1>. USE DEF InferredAssumption, TypeInv, TypeOK, files, local, events, Fault, Goto
<1>1. ASSUME NEW p \in Procs, Leave(p), UNCHANGED contract,
             receipt' \in Contracts \cup {None}, receiptCost' \in Nat,
             log' \in Seq(Rows), failures' \subseteq Cases \X {"transport", "contract"},
             UNCHANGED <<primary, sensitivity, audit, score>>,
             faults' \in Nat, losses' \in Nat, UNCHANGED edits
      PROVE  TypeInv'
  BY <1>1, LeaveTypes
<1>2. ASSUME NEW p \in Procs, StartFixture(p) PROVE TypeInv'
  BY <1>2 DEF StartFixture, CoverInv
<1>3. ASSUME NEW p \in Procs, NEW c \in Costs, WriteReceipt(p, c) PROVE TypeInv'
  BY <1>3, <1>1 DEF WriteReceipt
<1>4. ASSUME NEW p \in Procs, FixtureFails(p) PROVE TypeInv'
  BY <1>4, <1>1 DEF FixtureFails
<1>5. ASSUME NEW p \in Procs, StartExecute(p) PROVE TypeInv'
  <2>1. Answered(log) \in SUBSET Cases /\ Spent(log) \in Nat
    BY SpentType DEF Answered
  <2>2. CoverInv'
    BY <1>5 DEF StartExecute, CoverInv
  <2>. QED
    BY <1>5, <2>1, <2>2 DEF StartExecute, AlreadyAnswered, SpentBefore
<1>6. ASSUME NEW p \in Procs, NEW c \in Cases, Request(p, c) PROVE TypeInv'
  BY <1>6 DEF Request, CoverInv
<1>7. ASSUME NEW p \in Procs, NEW c \in Cases, StopAtCap(p, c) PROVE TypeInv'
  BY <1>7, <1>1 DEF StopAtCap
<1>8. ASSUME NEW p \in Procs, NEW c \in Cases, NEW cost \in Costs, NEW answer \in Answers,
             SaveRow(p, c, cost, answer)
      PROVE  TypeInv'
  <2>1. log' \in Seq(Rows)
    BY <1>8, AnswerRow DEF SaveRow
  <2>2. spent[p] + cost \in Nat
    OBVIOUS
  <2>3. CoverInv'
    BY <1>8 DEF SaveRow, CoverInv
  <2>. QED
    BY <1>8, <2>1, <2>2, <2>3 DEF SaveRow, Answer
<1>9. ASSUME NEW p \in Procs, NEW c \in Cases, NEW cost \in Costs, NEW answer \in Answers,
             SaveLastRow(p, c, cost, answer)
      PROVE  TypeInv'
  <2>1. log' \in Seq(Rows)
    BY <1>9, AnswerRow DEF SaveLastRow
  <2>. QED
    BY <1>9, <1>1, <2>1 DEF SaveLastRow, Answer
<1>10. ASSUME NEW p \in Procs, NEW c \in Cases, NEW kind \in {"transport", "contract"},
              CallFails(p, c, kind)
       PROVE  TypeInv'
  <2>1. failures' \subseteq Cases \X {"transport", "contract"}
    BY <1>10 DEF CallFails
  <2>2. /\ Leave(p) /\ faults' \in Nat /\ losses' \in Nat
        /\ UNCHANGED <<edits, contract, receipt, receiptCost, log, primary, sensitivity,
                       audit, score>>
    BY <1>10 DEF CallFails
  <2>. QED
    BY <1>1, <2>1, <2>2
<1>11. ASSUME NEW p \in Procs, EndExecute(p) PROVE TypeInv'
  BY <1>11, <1>1 DEF EndExecute
<1>12. ASSUME NEW p \in Procs, StartCanonicalize(p) PROVE TypeInv'
  <2>1. Covers(log)
    BY <1>12 DEF StartCanonicalize, Complete
  <2>2. CoverInv'
    BY <1>12, <2>1 DEF StartCanonicalize, CoverInv
  <2>. QED
    BY <1>12, <2>2 DEF StartCanonicalize
<1>13. ASSUME NEW p \in Procs, WritePrimary(p) PROVE TypeInv'
  <2>1. Covers(view[p]) /\ view[p] \in Seq(Rows)
    BY <1>13 DEF WritePrimary, CoverInv
  <2>2. primary' \in Seq(Rows)
    BY <1>13, <2>1, SelectionType, SelectionIsSeq DEF WritePrimary, PrimaryOf
  <2>3. CoverInv'
    BY <1>13 DEF WritePrimary, CoverInv
  <2>. QED
    BY <1>13, <2>2, <2>3 DEF WritePrimary
<1>14. ASSUME NEW p \in Procs, WriteSensitivity(p) PROVE TypeInv'
  <2>1. Covers(view[p]) /\ view[p] \in Seq(Rows)
    BY <1>14 DEF WriteSensitivity, CoverInv
  <2>2. sensitivity' \in Seq(Rows)
    BY <1>14, <2>1, SelectionType, SelectionIsSeq DEF WriteSensitivity
  <2>3. CoverInv'
    BY <1>14 DEF WriteSensitivity, CoverInv
  <2>. QED
    BY <1>14, <2>2, <2>3 DEF WriteSensitivity
<1>15. ASSUME NEW p \in Procs, WriteAudit(p) PROVE TypeInv'
  <2>1. audit' \in Seq(Rows) \X Seq(Rows)
    BY <1>15 DEF WriteAudit
  <2>. QED
    BY <1>15, <2>1, LeaveTypes DEF WriteAudit
<1>16. ASSUME NEW p \in Procs, NEW f \in {"log", "primary", "sensitivity"},
              NEW rows \in Seq(Rows), StartScore(p, f, rows)
       PROVE  TypeInv'
  <2>1. Covers(rows)
    BY <1>16 DEF StartScore, Scorable, Complete
  <2>2. CoverInv'
    BY <1>16, <2>1 DEF StartScore, CoverInv
  <2>. QED
    BY <1>16, <2>2 DEF StartScore
<1>17. ASSUME NEW p \in Procs, WriteScore(p) PROVE TypeInv'
  <2>1. Covers(view[p]) /\ view[p] \in Seq(Rows)
    BY <1>17 DEF WriteScore, CoverInv
  <2>2. Lasts(view[p]) \in [Cases -> Rows]
    BY <2>1, SelectionType
  <2>3. score' \in {"log", "primary", "sensitivity"} \X [Cases -> Rows]
    BY <1>17, <2>2 DEF WriteScore
  <2>. QED
    BY <1>17, <2>3, LeaveTypes DEF WriteScore
<1>18. ASSUME NEW p \in Procs, Crash(p) PROVE TypeInv'
  BY <1>18, <1>1 DEF Crash
<1>19. ASSUME EditProtocol PROVE TypeInv'
  <2>1. contract' \in Contracts /\ edits' \in Nat
    BY <1>19 DEF EditProtocol
  <2>2. UNCHANGED <<files, local, faults, losses>>
    BY <1>19 DEF EditProtocol
  <2>3. CoverInv'
    BY <2>2 DEF CoverInv
  <2>. QED
    BY <2>1, <2>2, <2>3
<1>20. ASSUME UNCHANGED vars PROVE TypeInv'
  BY <1>20 DEF vars, CoverInv
<1>21. log \in Seq(Rows) /\ primary \in Seq(Rows) /\ sensitivity \in Seq(Rows)
  OBVIOUS
<1>. HIDE DEF InferredAssumption, TypeInv, TypeOK, files, local, events, Fault, Goto
<1>22. ASSUME NEW p \in Procs, Fixture(p) PROVE TypeInv'
  BY <1>2, <1>3, <1>4, <1>22 DEF Fixture
<1>23. ASSUME NEW p \in Procs, Execute(p) PROVE TypeInv'
  BY <1>6, <1>7, <1>8, <1>9, <1>10, <1>11, <1>23 DEF Execute
<1>24. ASSUME NEW p \in Procs, Canonicalize(p) PROVE TypeInv'
  BY <1>13, <1>14, <1>15, <1>24 DEF Canonicalize
<1>25. ASSUME NEW p \in Procs, Score(p) PROVE TypeInv'
  BY <1>16, <1>17, <1>21, <1>25 DEF Score
<1>. QED
  BY <1>5, <1>12, <1>18, <1>19, <1>20, <1>22, <1>23, <1>24, <1>25 DEF Next

\* Every file, view and total keeps its type, however many invocations run.
THEOREM TypeCorrect == ASSUME InferredAssumption PROVE Spec => []TypeOK
<1>1. Init => TypeInv
  BY InitTypes
<1>2. TypeInv /\ [Next]_vars => TypeInv'
  BY StepTypes
<1>3. TypeInv => TypeOK
  BY DEF TypeInv
<1>. QED
  BY <1>1, <1>2, <1>3, PTL DEF Spec

-----------------------------------------------------------------------------
(* What is published *)

\* Nothing but an answer changes the checkpoint, by one row at its end.
LEMMA LogGrows ==
  ASSUME InferredAssumption, TypeOK, [Next]_vars
  PROVE  log' = log \/ \E row \in Rows : log' = Append(log, row)
<1>. USE DEF files
<1>1. ASSUME NEW p \in Procs, Fixture(p) PROVE log' = log
  BY <1>1 DEF Fixture, StartFixture, WriteReceipt, FixtureFails
<1>2. ASSUME NEW p \in Procs, Execute(p)
      PROVE  log' = log \/ \E row \in Rows : log' = Append(log, row)
  <2>1. ASSUME NEW c \in Cases, NEW cost \in Costs, NEW answer \in Answers,
               SaveRow(p, c, cost, answer) \/ SaveLastRow(p, c, cost, answer)
        PROVE  \E row \in Rows : log' = Append(log, row)
    BY <2>1, AnswerRow DEF SaveRow, SaveLastRow
  <2>2. ASSUME NEW c \in Cases, Request(p, c) \/ StopAtCap(p, c) PROVE log' = log
    BY <2>2 DEF Request, StopAtCap
  <2>3. ASSUME NEW c \in Cases, NEW kind \in {"transport", "contract"}, CallFails(p, c, kind)
        PROVE  log' = log
    BY <2>3 DEF CallFails
  <2>4. EndExecute(p) => log' = log
    BY DEF EndExecute
  <2>. QED
    BY <1>2, <2>1, <2>2, <2>3, <2>4 DEF Execute
<1>3. ASSUME NEW p \in Procs, StartExecute(p) \/ StartCanonicalize(p) \/ Crash(p)
      PROVE  log' = log
  BY <1>3 DEF StartExecute, StartCanonicalize, Crash
<1>4. ASSUME NEW p \in Procs, Canonicalize(p) PROVE log' = log
  BY <1>4 DEF Canonicalize, WritePrimary, WriteSensitivity, WriteAudit
<1>5. ASSUME NEW p \in Procs, Score(p) PROVE log' = log
  BY <1>5 DEF Score, StartScore, WriteScore
<1>6. EditProtocol \/ UNCHANGED vars => log' = log
  BY DEF EditProtocol, vars
<1>. QED
  BY <1>1, <1>2, <1>3, <1>4, <1>5, <1>6 DEF Next

\* So a covered checkpoint stays covered and keeps its first rows.
LEMMA FirstsKept ==
  ASSUME InferredAssumption, TypeOK, [Next]_vars, Covers(log)
  PROVE  Covers(log') /\ Firsts(log') = Firsts(log)
<1>1. log \in Seq(Rows)
  BY DEF TypeOK
<1>. QED
  BY <1>1, LogGrows, FirstsStay

\* The commands that publish, and what they hold.
Publishing == {"primary", "sensitivity", "audit", "score"}
Held(p) == pc'[p] = pc[p] /\ view'[p] = view[p] /\ source'[p] = source[p]

\* A step that publishes nothing, and after which only those publish who did
\* before, keeps the invariant, whatever it appends to the checkpoint.
LEMMA OtherSteps ==
  ASSUME InferredAssumption, TypeOK, PublishInv, [Next]_vars,
         UNCHANGED <<primary, audit, score>>,
         \A q \in Procs : pc'[q] \in Publishing => Held(q)
  PROVE  PublishInv'
<1>. USE DEF Publishing, Held
<1>2. ReadInv'
  BY FirstsKept DEF PublishInv, ReadInv
<1>3. PrimaryInv'
  BY FirstsKept DEF PublishInv, PrimaryInv
<1>4. ScoredInv'
  BY FirstsKept DEF PublishInv, ScoredInv
<1>. QED
  BY <1>2, <1>3, <1>4 DEF PublishInv

\* Nobody publishes in an empty directory.
LEMMA InitPublishes == Init => PublishInv
BY DEF Init, PublishInv, ReadInv, PrimaryInv, ScoredInv

\* Whoever leaves holds nothing any more, the others what they held.
LEMMA LeaveHolds ==
  ASSUME TypeOK, NEW p \in Procs, Leave(p)
  PROVE  \A q \in Procs : pc'[q] \in Publishing => q # p /\ Held(q)
BY DEF TypeOK, Leave, Publishing, Held

\* The fixture, the loop and what ends it publish nothing.
LEMMA BuyingPublishes ==
  ASSUME InferredAssumption, TypeOK, PublishInv, NEW p \in Procs,
         Fixture(p) \/ StartExecute(p) \/ Execute(p) \/ Crash(p), [Next]_vars
  PROVE  PublishInv'
<1>. USE DEF files
<1>1. UNCHANGED <<primary, audit, score>>
  <2>1. ASSUME Fixture(p) PROVE UNCHANGED <<primary, audit, score>>
    BY <2>1 DEF Fixture, StartFixture, WriteReceipt, FixtureFails
  <2>2. ASSUME Execute(p) PROVE UNCHANGED <<primary, audit, score>>
    BY <2>2 DEF Execute, Request, StopAtCap, CallFails, SaveRow, SaveLastRow, Answer,
                EndExecute
  <2>3. StartExecute(p) \/ Crash(p) => UNCHANGED <<primary, audit, score>>
    BY DEF StartExecute, Crash
  <2>. QED
    BY <2>1, <2>2, <2>3
<1>2. \A q \in Procs : pc'[q] \in Publishing => Held(q)
  <2>1. ASSUME pc' = [pc EXCEPT ![p] = "fixture"] \/ pc' = [pc EXCEPT ![p] = "loop"]
                 \/ pc' = [pc EXCEPT ![p] = "sent"],
               UNCHANGED <<view, source>>
        PROVE  \A q \in Procs : pc'[q] \in Publishing => Held(q)
    BY <2>1 DEF TypeOK, Publishing, Held
  <2>2. ASSUME Fixture(p) PROVE \A q \in Procs : pc'[q] \in Publishing => Held(q)
    BY <2>1, <2>2, LeaveHolds DEF Fixture, StartFixture, WriteReceipt, FixtureFails, Goto
  <2>3. ASSUME Execute(p) PROVE \A q \in Procs : pc'[q] \in Publishing => Held(q)
    BY <2>1, <2>3, LeaveHolds DEF Execute, Request, StopAtCap, CallFails, SaveRow,
                                  SaveLastRow, EndExecute, Goto
  <2>4. StartExecute(p) \/ Crash(p) => \A q \in Procs : pc'[q] \in Publishing => Held(q)
    BY <2>1, LeaveHolds DEF StartExecute, Crash, Goto
  <2>. QED
    BY <2>2, <2>3, <2>4
<1>. QED
  BY <1>1, <1>2, OtherSteps

\* canonicalize reads, selects and audits the first rows.
LEMMA CanonicalizePublishes ==
  ASSUME InferredAssumption, TypeOK, PublishInv, NEW p \in Procs,
         StartCanonicalize(p) \/ Canonicalize(p)
  PROVE  PublishInv'
<1>. USE DEF PublishInv, ReadInv, PrimaryInv, ScoredInv, TypeOK, files, Goto
<1>1. ASSUME StartCanonicalize(p) PROVE PublishInv'
  <2>1. Covers(log) /\ log' = log /\ view' = [view EXCEPT ![p] = log]
        /\ pc' = [pc EXCEPT ![p] = "primary"] /\ UNCHANGED <<primary, audit, score, source>>
    BY <1>1 DEF StartCanonicalize, Complete
  <2>. QED
    BY <2>1
<1>2. ASSUME WritePrimary(p) PROVE PublishInv'
  <2>1. /\ Covers(log) /\ Covers(view[p]) /\ Firsts(view[p]) = Firsts(log) /\ log' = log
        /\ pc' = [pc EXCEPT ![p] = "sensitivity"] /\ primary' = Firsts(log)
        /\ UNCHANGED <<audit, score, view, source>>
    BY <1>2 DEF WritePrimary, PrimaryOf
  <2>2. primary' # <<>>
    BY <2>1, FirstsNonempty
  <2>3. ReadInv'
    BY <2>1
  <2>4. PrimaryInv'
    BY <2>1, <2>2
  <2>5. ScoredInv'
    BY <2>1
  <2>. QED
    BY <2>3, <2>4, <2>5
<1>3. ASSUME WriteSensitivity(p) PROVE PublishInv'
  <2>1. /\ log' = log /\ pc[p] = "sensitivity" /\ pc' = [pc EXCEPT ![p] = "audit"]
        /\ UNCHANGED <<primary, audit, score, view, source>>
    BY <1>3 DEF WriteSensitivity
  <2>. QED
    BY <2>1
<1>4. ASSUME WriteAudit(p) PROVE PublishInv'
  <2>1. /\ log' = log /\ pc[p] = "audit" /\ audit' = <<view[p], log>>
        /\ UNCHANGED <<primary, score>>
    BY <1>4 DEF WriteAudit
  <2>2. primary # <<>> /\ Covers(log) /\ audit'[2] = log
    BY <2>1
  <2>3. \A q \in Procs : pc'[q] \in Publishing => q # p /\ Held(q)
    BY <1>4, LeaveHolds DEF WriteAudit
  <2>. QED
    BY <2>1, <2>2, <2>3 DEF Publishing, Held
<1>. QED
  BY <1>1, <1>2, <1>3, <1>4 DEF Canonicalize

\* score reads distinct rows of every case, or a view.
LEMMA ScorePublishes ==
  ASSUME InferredAssumption, TypeOK, PublishInv, NEW p \in Procs, Score(p)
  PROVE  PublishInv'
<1>. USE DEF PublishInv, ReadInv, PrimaryInv, ScoredInv, TypeOK, files, Goto
<1>1. ASSUME NEW f \in {"log", "primary", "sensitivity"}, NEW rows \in Seq(Rows),
             StartScore(p, f, rows),
             f # "sensitivity" => Covers(log) /\ Lasts(rows) = Firsts(log)
      PROVE  PublishInv'
  <2>1. /\ log' = log /\ pc' = [pc EXCEPT ![p] = "score"]
        /\ view' = [view EXCEPT ![p] = rows] /\ source' = [source EXCEPT ![p] = f]
        /\ UNCHANGED <<primary, audit, score>>
    BY <1>1 DEF StartScore
  <2>2. ReadInv'
    BY <2>1 DEF ReadInv
  <2>3. PrimaryInv'
    BY <2>1 DEF PrimaryInv
  <2>4. ScoredInv'
    BY <1>1, <2>1 DEF ScoredInv
  <2>. QED
    BY <2>2, <2>3, <2>4
<1>2. ASSUME StartScore(p, "log", log) PROVE PublishInv'
  <2>1. Covers(log) /\ Distinct(log)
    BY <1>2 DEF StartScore, Scorable, Complete
  <2>. QED
    BY <1>1, <1>2, <2>1, DistinctLasts
<1>3. ASSUME StartScore(p, "primary", primary) PROVE PublishInv'
  <2>1. Covers(primary)
    BY <1>3 DEF StartScore, Scorable, Complete
  <2>2. primary # <<>>
    <3>1. 1 \in Cases
      BY DEF InferredAssumption, Cases
    <3>2. At(primary, 1) # {}
      BY <2>1, <3>1 DEF Covers, Answered
    <3>. QED
      BY <3>2 DEF At
  <2>3. Covers(log) /\ Lasts(primary) = Firsts(log)
    BY <2>2, ViewOfView
  <2>. QED
    BY <1>1, <1>3, <2>3
<1>4. ASSUME StartScore(p, "sensitivity", sensitivity) PROVE PublishInv'
  BY <1>1, <1>4
<1>5. ASSUME WriteScore(p) PROVE PublishInv'
  <2>1. /\ log' = log /\ pc[p] = "score" /\ score' = <<source[p], Lasts(view[p])>>
        /\ UNCHANGED <<primary, audit>>
    BY <1>5 DEF WriteScore
  <2>2. score'[1] # "sensitivity" => Covers(log) /\ score'[2] = Firsts(log)
    BY <2>1
  <2>3. \A q \in Procs : pc'[q] \in Publishing => q # p /\ Held(q)
    BY <1>5, LeaveHolds DEF WriteScore
  <2>4. ReadInv'
    BY <2>1, <2>3 DEF ReadInv, Publishing, Held
  <2>5. PrimaryInv'
    BY <2>1, <2>3 DEF PrimaryInv, Publishing, Held
  <2>6. ScoredInv'
    BY <2>1, <2>2, <2>3 DEF ScoredInv, Publishing, Held
  <2>. QED
    BY <2>4, <2>5, <2>6
<1>. QED
  BY <1>2, <1>3, <1>4, <1>5 DEF Score

\* Every step keeps what is published.
LEMMA StepPublishes ==
  ASSUME InferredAssumption, TypeOK, PublishInv, [Next]_vars
  PROVE  PublishInv'
<1>1. ASSUME EditProtocol \/ UNCHANGED vars PROVE PublishInv'
  BY <1>1, OtherSteps DEF EditProtocol, vars, files, local, Publishing, Held
<1>. QED
  BY <1>1, BuyingPublishes, CanonicalizePublishes, ScorePublishes DEF Next

\* What is published, audited or scored as primary are the first rows of the
\* checkpoint, for any number of invocations appending to it.
THEOREM PublishInvHolds == ASSUME InferredAssumption PROVE Spec => []PublishInv
<1>1. Init => PublishInv
  BY InitPublishes
<1>2. TypeOK /\ PublishInv /\ [Next]_vars => PublishInv'
  BY StepPublishes
<1>. QED
  BY <1>1, <1>2, TypeCorrect, PTL DEF Spec

\* The audited checkpoint yields the published view.
THEOREM AuditNamesPrimaryHolds ==
  ASSUME InferredAssumption PROVE Spec => []AuditNamesPrimary
<1>1. PublishInv => AuditNamesPrimary
  BY DEF PublishInv, PrimaryInv, AuditNamesPrimary
<1>. QED
  BY <1>1, PublishInvHolds, PTL

\* Scores are of the first committed answers, from whichever file.
THEOREM ScoresFirstCommittedHolds ==
  ASSUME InferredAssumption PROVE Spec => []ScoresFirstCommitted
<1>1. PublishInv => ScoresFirstCommitted
  BY DEF PublishInv, ScoredInv, ScoresFirstCommitted
<1>. QED
  BY <1>1, PublishInvHolds, PTL

\* No later canonicalize command publishes another primary view.
THEOREM PrimaryIsStableHolds ==
  ASSUME InferredAssumption PROVE Spec => PrimaryIsStable
<1>1. ASSUME TypeOK, PublishInv, PublishInv', [Next]_vars
      PROVE  PrimaryStays
  <2>1. SUFFICES ASSUME primary # <<>> PROVE primary' = primary
    BY DEF PrimaryStays
  <2>2. Covers(log) /\ primary = Firsts(log)
    BY <1>1, <2>1 DEF PublishInv, PrimaryInv
  <2>3. Firsts(log') = Firsts(log)
    BY <1>1, <2>2, FirstsKept
  <2>4. primary' # <<>>
    <3>1. ASSUME NEW p \in Procs, WritePrimary(p) PROVE primary' # <<>>
      BY <1>1, <3>1, <2>2, FirstsNonempty
      DEF WritePrimary, PrimaryOf, Goto, PublishInv, ReadInv, TypeOK
    <3>2. ASSUME NEW p \in Procs, StartCanonicalize(p) \/ WriteSensitivity(p)
                                    \/ WriteAudit(p) \/ Score(p)
          PROVE  primary' = primary
      BY <3>2 DEF StartCanonicalize, WriteSensitivity, WriteAudit, Score, StartScore,
                  WriteScore, files
    <3>3. ASSUME NEW p \in Procs, Fixture(p) \/ StartExecute(p) \/ Crash(p)
          PROVE  primary' = primary
      BY <3>3 DEF Fixture, StartFixture, WriteReceipt, FixtureFails, StartExecute, Crash,
                  files
    <3>4. ASSUME NEW p \in Procs, Execute(p) PROVE primary' = primary
      BY <3>4 DEF Execute, Request, StopAtCap, CallFails, SaveRow, SaveLastRow, Answer,
                  EndExecute, files
    <3>5. EditProtocol \/ UNCHANGED vars => primary' = primary
      BY DEF EditProtocol, vars, files
    <3>. QED
      BY <1>1, <2>1, <3>1, <3>2, <3>3, <3>4, <3>5 DEF Next, Canonicalize
  <2>5. primary' = Firsts(log')
    BY <1>1, <2>4 DEF PublishInv, PrimaryInv
  <2>. QED
    BY <2>2, <2>3, <2>5
<1>2. TypeOK /\ PublishInv /\ PublishInv' /\ [Next]_vars => [PrimaryStays]_vars
  BY <1>1
<1>. QED
  BY <1>2, TypeCorrect, PublishInvHolds, PTL DEF Spec, PrimaryIsStable

-----------------------------------------------------------------------------
(* What is bought, by one invocation at a time *)

\* A new row answers its case.
LEMMA AnsweredAppend ==
  ASSUME NEW rows \in Seq(Rows), NEW row \in Rows
  PROVE  /\ Answered(Append(rows, row)) = Answered(rows) \cup {row.case}
         /\ Distinct(rows) /\ row.case \notin Answered(rows)
              => Distinct(Append(rows, row))
<1>. DEFINE more == Append(rows, row)
            x == Len(rows) + 1
<1>1. /\ Len(rows) \in Nat /\ DOMAIN rows = 1 .. Len(rows)
      /\ DOMAIN more = (DOMAIN rows) \cup {x} /\ x \notin DOMAIN rows
      /\ more[x] = row /\ \A i \in DOMAIN rows : more[i] = rows[i]
  <2>1. Len(rows) \in Nat /\ DOMAIN rows = 1 .. Len(rows)
    BY LenProperties
  <2>2. more \in Seq(Rows) /\ Len(more) = x
    BY AppendProperties
  <2>3. DOMAIN more = 1 .. x
    BY <2>2, LenProperties
  <2>. QED
    BY <2>1, <2>3, AppendProperties
<1>2. row.case \in Cases /\ \A i \in DOMAIN rows : rows[i].case \in Cases
  BY RowType DEF Rows
<1>. HIDE DEF more, x
<1>3. Answered(more) = Answered(rows) \cup {row.case}
  BY <1>1, <1>2 DEF Answered, At
<1>4. ASSUME Distinct(rows), row.case \notin Answered(rows) PROVE Distinct(more)
  <2>1. \A i \in DOMAIN rows : rows[i].case # row.case
    BY <1>2, <1>4 DEF Answered, At
  <2>. QED
    BY <1>1, <1>4, <2>1 DEF Distinct
<1>. QED
  BY <1>3, <1>4 DEF more

\* Without its last row the checkpoint is the one before.
LEMMA EarlierAppend ==
  ASSUME NEW rows \in Seq(Rows), NEW row \in Rows
  PROVE  /\ Earlier(Append(rows, row)) = rows
         /\ Append(rows, row)[Len(Append(rows, row))] = row
<1>. DEFINE more == Append(rows, row)
<1>1. /\ Len(rows) \in Nat /\ more \in Seq(Rows) /\ Len(more) = Len(rows) + 1
      /\ more[Len(rows) + 1] = row /\ \A i \in 1 .. Len(rows) : more[i] = rows[i]
  BY LenProperties, AppendProperties
<1>. HIDE DEF more
<1>2. Len(more) - 1 = Len(rows)
  BY <1>1
<1>3. \A i \in 1 .. Len(rows) : more[i] \in Rows
  BY <1>1, ElementOfSeq
<1>. DEFINE less == SubSeq(more, 1, Len(rows))
<1>4. /\ less \in Seq(Rows) /\ Len(less) = Len(rows)
      /\ \A i \in 1 .. Len(rows) : less[i] = more[i]
  BY <1>1, <1>3, SubSeqProperties
<1>. HIDE DEF less
<1>5. less = rows
  BY <1>1, <1>4, SeqEqual
<1>. QED
  BY <1>1, <1>2, <1>5 DEF Earlier, more, less

\* An answer that was asked for under the cap is the first of its case, and the
\* memory of the command that asked stays that of the checkpoint.
LEMMA AnswerResumes ==
  ASSUME InferredAssumption, TypeOK, ResumeInv, NEW p \in Procs, NEW c \in Cases,
         NEW cost \in Costs, NEW answer \in Answers, Answer(p, c, cost, answer)
  PROVE  /\ Answered(log') = completed[p] \cup {c} /\ Spent(log') = spent[p] + cost
         /\ DistinctCases' /\ OverrunByOne'
<1>. DEFINE row == NewRow(c, cost, answer)
<1>1. /\ log \in Seq(Rows) /\ row \in Rows /\ log' = Append(log, row)
      /\ row.case = c /\ row.cost = cost
  BY AnswerRow DEF TypeOK, NewRow
<1>2. pc[p] = "sent" /\ Turn(p, c)
  BY DEF Answer
<1>3. PICK d \in Cases : Turn(p, d) /\ spent[p] + Reserve[d] <= HardCap
  BY <1>2 DEF ResumeInv, MemoryInv
<1>4. d = c
  BY <1>2, <1>3 DEF Turn, Cases, InferredAssumption
<1>5. completed[p] = Answered(log) /\ spent[p] = Spent(log) /\ Distinct(log)
  BY <1>2 DEF ResumeInv, MemoryInv, DistinctCases
<1>6. c \notin Answered(log)
  BY <1>2, <1>5 DEF Turn
<1>. HIDE DEF row
<1>7. Answered(log') = completed[p] \cup {c} /\ DistinctCases'
  BY <1>1, <1>5, <1>6, AnsweredAppend DEF DistinctCases
<1>8. Spent(log') = spent[p] + cost
  BY <1>1, <1>5, SpentType
<1>9. Earlier(log') = log /\ log'[Len(log')].case = c
  BY <1>1, EarlierAppend
<1>10. OverrunByOne'
  BY <1>3, <1>4, <1>5, <1>9 DEF OverrunByOne
<1>. QED
  BY <1>7, <1>8, <1>10

\* A step that appends nothing, and after which only those execute who did
\* before, with the same memory, keeps the invariant.
Buying == {"loop", "sent"}
LEMMA OthersResume ==
  ASSUME ResumeInv, log' = log,
         \A q \in Procs : pc'[q] \in Buying =>
           pc'[q] = pc[q] /\ completed'[q] = completed[q] /\ spent'[q] = spent[q]
  PROVE  ResumeInv'
<1>1. DistinctCases' /\ OverrunByOne'
  BY DEF ResumeInv, DistinctCases, OverrunByOne
<1>2. MemoryInv'
  BY DEF ResumeInv, MemoryInv, Buying, Turn
<1>. QED
  BY <1>1, <1>2 DEF ResumeInv

\* With one invocation, every step of execute keeps it.
LEMMA ExecuteResumes ==
  ASSUME InferredAssumption, OneRunner, TypeOK, ResumeInv, NEW p \in Procs,
         StartExecute(p) \/ Execute(p)
  PROVE  ResumeInv'
<1>1. \A q \in Procs : q = p
  BY DEF OneRunner
<1>2. ASSUME StartExecute(p) PROVE ResumeInv'
  <2>1. /\ log' = log /\ pc'[p] = "loop" /\ completed'[p] = Answered(log)
        /\ spent'[p] = Spent(log) /\ Spent(log) <= HardCap
    BY <1>2 DEF StartExecute, Resumable, AlreadyAnswered, SpentBefore, Goto, files, TypeOK
  <2>. QED
    BY <1>1, <2>1 DEF ResumeInv, MemoryInv, DistinctCases, OverrunByOne
<1>3. ASSUME NEW c \in Cases, Request(p, c) PROVE ResumeInv'
  <2>1. /\ log' = log /\ pc[p] = "loop" /\ completed' = completed /\ spent' = spent
        /\ Turn(p, c) /\ spent[p] + Reserve[c] <= HardCap
    BY <1>3 DEF Request, Goto, files
  <2>2. Turn(p, c)'
    BY <2>1 DEF Turn
  <2>3. MemoryInv'
    BY <1>1, <2>1, <2>2 DEF ResumeInv, MemoryInv
  <2>4. DistinctCases' /\ OverrunByOne'
    BY <2>1 DEF ResumeInv, DistinctCases, OverrunByOne
  <2>. QED
    BY <2>3, <2>4 DEF ResumeInv
<1>4. ASSUME NEW c \in Cases, NEW cost \in Costs, NEW answer \in Answers,
             SaveRow(p, c, cost, answer)
      PROVE  ResumeInv'
  <2>1. /\ Answered(log') = completed[p] \cup {c} /\ Spent(log') = spent[p] + cost
        /\ DistinctCases' /\ OverrunByOne'
    BY <1>4, AnswerResumes DEF SaveRow
  <2>2. /\ pc'[p] = "loop" /\ completed'[p] = completed[p] \cup {c}
        /\ spent'[p] = spent[p] + cost /\ spent[p] + cost <= HardCap
    BY <1>4 DEF SaveRow, TypeOK
  <2>3. MemoryInv'
    BY <1>1, <2>1, <2>2 DEF MemoryInv
  <2>. QED
    BY <2>1, <2>3 DEF ResumeInv
<1>5. ASSUME NEW c \in Cases, NEW cost \in Costs, NEW answer \in Answers,
             SaveLastRow(p, c, cost, answer)
      PROVE  ResumeInv'
  <2>1. DistinctCases' /\ OverrunByOne'
    BY <1>5, AnswerResumes DEF SaveLastRow
  <2>2. pc'[p] = "idle"
    BY <1>5 DEF SaveLastRow, Leave, TypeOK
  <2>3. MemoryInv'
    BY <1>1, <2>2 DEF MemoryInv
  <2>. QED
    BY <2>1, <2>3 DEF ResumeInv
<1>6. ASSUME log' = log, Leave(p) PROVE ResumeInv'
  BY <1>1, <1>6, OthersResume DEF Leave, TypeOK, Buying
<1>7. ASSUME NEW c \in Cases, StopAtCap(p, c) PROVE ResumeInv'
  BY <1>6, <1>7 DEF StopAtCap, files
<1>8. ASSUME NEW c \in Cases, NEW kind \in {"transport", "contract"}, CallFails(p, c, kind)
      PROVE  ResumeInv'
  BY <1>6, <1>8 DEF CallFails
<1>9. ASSUME EndExecute(p) PROVE ResumeInv'
  BY <1>6, <1>9 DEF EndExecute, files
<1>. QED
  BY <1>2, <1>3, <1>4, <1>5, <1>7, <1>8, <1>9 DEF Execute

\* And so does every other command.
LEMMA StepResumes ==
  ASSUME InferredAssumption, OneRunner, TypeOK, ResumeInv, [Next]_vars
  PROVE  ResumeInv'
<1>. USE DEF Buying, files, Goto, TypeOK
<1>1. ASSUME NEW p \in Procs, log' = log, Leave(p) PROVE ResumeInv'
  BY <1>1, OthersResume DEF Leave
<1>2. ASSUME NEW p \in Procs, Fixture(p) PROVE ResumeInv'
  <2>1. StartFixture(p) => ResumeInv'
    BY OthersResume DEF StartFixture
  <2>2. FixtureFails(p) => ResumeInv'
    BY <1>1 DEF FixtureFails
  <2>3. \A c \in Costs : WriteReceipt(p, c) => ResumeInv'
    BY <1>1 DEF WriteReceipt
  <2>. QED
    BY <1>2, <2>1, <2>2, <2>3 DEF Fixture
<1>3. ASSUME NEW p \in Procs, StartCanonicalize(p) \/ Canonicalize(p) PROVE ResumeInv'
  <2>1. StartCanonicalize(p) => ResumeInv'
    BY OthersResume DEF StartCanonicalize
  <2>2. WritePrimary(p) => ResumeInv'
    BY OthersResume DEF WritePrimary
  <2>3. WriteSensitivity(p) => ResumeInv'
    BY OthersResume DEF WriteSensitivity
  <2>4. WriteAudit(p) => ResumeInv'
    BY <1>1 DEF WriteAudit
  <2>. QED
    BY <1>3, <2>1, <2>2, <2>3, <2>4 DEF Canonicalize
<1>4. ASSUME NEW p \in Procs, Score(p) PROVE ResumeInv'
  <2>1. ASSUME NEW f, NEW rows, StartScore(p, f, rows) PROVE ResumeInv'
    BY <2>1, OthersResume DEF StartScore
  <2>2. WriteScore(p) => ResumeInv'
    BY <1>1 DEF WriteScore
  <2>. QED
    BY <1>4, <2>1, <2>2 DEF Score
<1>5. ASSUME NEW p \in Procs, Crash(p) PROVE ResumeInv'
  BY <1>1, <1>5 DEF Crash
<1>6. ASSUME EditProtocol \/ UNCHANGED vars PROVE ResumeInv'
  BY <1>6, OthersResume DEF EditProtocol, vars, local
<1>. HIDE DEF Buying, files, Goto, TypeOK
<1>. QED
  BY <1>2, <1>3, <1>4, <1>5, <1>6, ExecuteResumes DEF Next

\* One invocation at a time remembers what the checkpoint says, buys no case
\* twice, and passes the cap with one answer at most.
THEOREM ResumeInvHolds ==
  ASSUME InferredAssumption, OneRunner PROVE Spec => []ResumeInv
<1>1. Init => ResumeInv
  BY DEF Init, ResumeInv, MemoryInv, DistinctCases, Distinct, OverrunByOne
<1>2. TypeOK /\ ResumeInv /\ [Next]_vars => ResumeInv'
  BY StepResumes
<1>. QED
  BY <1>1, <1>2, TypeCorrect, PTL DEF Spec

\* No case is bought twice by one invocation at a time.
THEOREM DistinctCasesHolds ==
  ASSUME InferredAssumption, OneRunner PROVE Spec => []DistinctCases
<1>1. ResumeInv => DistinctCases
  BY DEF ResumeInv
<1>. QED
  BY <1>1, ResumeInvHolds, PTL

\* Its last answer alone may pass the cap.
THEOREM OverrunByOneHolds ==
  ASSUME InferredAssumption, OneRunner PROVE Spec => []OverrunByOne
<1>1. ResumeInv => OverrunByOne
  BY DEF ResumeInv
<1>. QED
  BY <1>1, ResumeInvHolds, PTL

-----------------------------------------------------------------------------
(* The contracts: one input at a time, whatever it is *)

\* An input is looked at once, by the operation for its kind.
LEMMA OneLook ==
  ASSUME [ContractNext]_studied
  PROVE  /\ subject' = subject
         /\ UNCHANGED studied
            \/ /\ result = Unseen
               /\ \/ Is("filter") /\ SelectSetting
                  \/ Is("route") /\ ScoreRoute
                  \/ Is("prompt") /\ BuildRequests
                  \/ Is("pair") /\ ScorePair
                  \/ Is("exposure") /\ Expose
<1>1. CASE UNCHANGED studied
  BY <1>1 DEF studied
<1>2. CASE SelectSetting
  BY <1>2 DEF SelectSetting, Look, Is
<1>3. CASE ScoreRoute
  BY <1>3 DEF ScoreRoute, Look, Is
<1>4. CASE BuildRequests
  BY <1>4 DEF BuildRequests, Look, Is
<1>5. CASE ScorePair
  BY <1>5 DEF ScorePair, Look, Is
<1>6. CASE Expose
  BY <1>6 DEF Expose, Look, Is
<1>. QED
  BY <1>1, <1>2, <1>3, <1>4, <1>5, <1>6 DEF ContractNext

\* An input that is not of a kind has no result of that kind.
LEMMA OtherKinds ==
  ASSUME NEW kind, subject' = subject, subject.kind # kind
  PROVE  ~Done(kind)'
BY DEF Done, Is

\* Equal prompts are equal queries about equal texts.
LEMMA PromptsShowWhatIsLeft ==
  ASSUME BuildRequests
  PROVE  DeletionLeavesNoTrace'
<1>1. subject' = subject
  BY DEF BuildRequests, Look, Is
<1>2. result' = Routes!Assignments(subject.cases, subject.scores, subject.threshold)
  BY DEF BuildRequests
<1>. DEFINE Prompt(at) == [query |-> subject.cases[at[1]].query,
                           candidates |-> [i \in DOMAIN Left(at) |->
                             [key |-> i, text |-> Left(at)[i].text]]]
<1>3. ASSUME NEW at \in DOMAIN result'
      PROVE  result'[at] = Prompt(at)
  BY <1>2 DEF Routes!Assignments, Routes!ReaderPayload,
              Routes!Renumbered, Left
<1>4. ASSUME NEW f, NEW g
      PROVE  ([i \in DOMAIN f |-> [key |-> i, text |-> f[i].text]]
                = [i \in DOMAIN g |-> [key |-> i, text |-> g[i].text]])
             <=> Texts(f) = Texts(g)
  <2>. DEFINE F == [i \in DOMAIN f |-> [key |-> i, text |-> f[i].text]]
              G == [i \in DOMAIN g |-> [key |-> i, text |-> g[i].text]]
  <2>1. ASSUME F = G
        PROVE  Texts(f) = Texts(g)
    <3>1. DOMAIN f = DOMAIN g
      BY <2>1
    <3>2. \A i \in DOMAIN f : F[i].text = f[i].text /\ G[i].text = g[i].text
      BY <3>1
    <3>. QED
      BY <2>1, <3>1, <3>2 DEF Texts
  <2>2. ASSUME Texts(f) = Texts(g)
        PROVE  F = G
    <3>1. DOMAIN f = DOMAIN g
      BY <2>2 DEF Texts
    <3>2. \A i \in DOMAIN f : f[i].text = g[i].text
      BY <2>2, <3>1 DEF Texts
    <3>. QED
      BY <3>1, <3>2
  <2>. QED
    BY <2>1, <2>2
<1>5. ASSUME NEW a \in DOMAIN result', NEW b \in DOMAIN result'
      PROVE  (result'[a] = result'[b])
               = (/\ subject.cases[a[1]].query = subject.cases[b[1]].query
                  /\ Texts(Left(a)) = Texts(Left(b)))
  <2>. DEFINE pa == Left(a)
              pb == Left(b)
              qa == [i \in DOMAIN pa |-> [key |-> i, text |-> pa[i].text]]
              qb == [i \in DOMAIN pb |-> [key |-> i, text |-> pb[i].text]]
  <2>1. /\ result'[a] = [query |-> subject.cases[a[1]].query, candidates |-> qa]
        /\ result'[b] = [query |-> subject.cases[b[1]].query, candidates |-> qb]
    BY <1>3
  <2>2. (qa = qb) <=> Texts(pa) = Texts(pb)
    BY <1>4
  <2>. HIDE DEF qa, qb
  <2>3. (result'[a] = result'[b])
          <=> subject.cases[a[1]].query = subject.cases[b[1]].query /\ qa = qb
    BY <2>1
  <2>. QED
    BY <2>2, <2>3
<1>. QED
  BY <1>1, <1>5 DEF DeletionLeavesNoTrace, Left

-----------------------------------------------------------------------------
(* The contracts: pairs *)

\* The instance counts and adds up as Counting does.
LEMMA SamePairSums ==
  /\ \A f : Scores!Total(f) = Total(f)
  /\ \A S : Scores!Cardinality(S) = Cardinality(S)
  /\ \A S : Scores!Min(S) = Min(S)
<1>1. \A f : Scores!Tokens(f) = Tokens(f)
  BY DEF Scores!Tokens, Tokens
<1>2. \A S : Scores!Cardinality(S) = Cardinality(S)
  BY DEF Scores!Cardinality, Cardinality
<1>3. \A S : Scores!Min(S) = Min(S)
  BY DEF Scores!Min, Min
<1>. QED
  BY <1>1, <1>2, <1>3 DEF Scores!Total, Total

\* What a vector speaks of, and the two queries of a pair.
Labels == {"admissible", "inadmissible", "unknown"}
Both == {"allow", "block"}

\* One candidate of every role.
IsPool(roles) ==
  /\ roles \in [1 .. 3 -> {"focal", "stable_admissible", "stable_inadmissible"}]
  /\ \A i, j \in 1 .. 3 : roles[i] = roles[j] => i = j

\* For both queries a number for each label of each candidate.
IsAnswered(Q) == \A c \in Both, i \in 1 .. 3 : Q[c][i].vector \in [Labels -> Nat]

\* Of equal labels the admissible one comes first.
LEMMA VerdictIs ==
  ASSUME NEW p, p.vector \in [Labels -> Nat]
  PROVE  /\ Scores!Verdict(p) \in Labels
         /\ Scores!Verdict(p) = "admissible" <=>
              /\ p.vector["inadmissible"] <= p.vector["admissible"]
              /\ p.vector["unknown"] <= p.vector["admissible"]
         /\ Scores!Verdict(p) = "inadmissible" <=>
              /\ p.vector["admissible"] < p.vector["inadmissible"]
              /\ p.vector["unknown"] <= p.vector["inadmissible"]
<1>. DEFINE L == Scores!AdmissibilityLabels
            v == p.vector
            best == {i \in DOMAIN L : \A j \in DOMAIN L : v[L[j]] <= v[L[i]]}
<1>1. /\ L = <<"admissible", "inadmissible", "unknown">> /\ DOMAIN L = 1 .. 3
      /\ L[1] = "admissible" /\ L[2] = "inadmissible" /\ L[3] = "unknown"
  BY DEF Scores!AdmissibilityLabels
<1>2. v["admissible"] \in Nat /\ v["inadmissible"] \in Nat /\ v["unknown"] \in Nat
  BY DEF Labels
<1>3. Scores!Verdict(p) = L[Min(best)]
  BY SamePairSums DEF Scores!Verdict, Scores!ArgMax
<1>. HIDE DEF L, v
<1>4. /\ 1 \in best <=> v["inadmissible"] <= v["admissible"] /\ v["unknown"] <= v["admissible"]
      /\ 2 \in best <=> v["admissible"] <= v["inadmissible"] /\ v["unknown"] <= v["inadmissible"]
      /\ 3 \in best <=> v["admissible"] <= v["unknown"] /\ v["inadmissible"] <= v["unknown"]
      /\ best \subseteq 1 .. 3
  BY <1>1, <1>2
<1>. HIDE DEF best
<1>5. best # {}
  BY <1>2, <1>4
<1>6. Min(best) \in best /\ \A y \in best : Min(best) <= y
  BY <1>4, <1>5, MinIsMember
<1>7. Min(best) = 1 \/ Min(best) = 2 \/ Min(best) = 3
  <2>1. Min(best) \in 1 .. 3
    BY <1>4, <1>6, Zenon
  <2>. QED
    BY <2>1
<1>. QED
  BY <1>1, <1>2, <1>3, <1>4, <1>6, <1>7 DEF Labels, v

\* The distance from certainty is zero exactly if the answer is certain.
LEMMA BrierIs ==
  ASSUME NEW v \in [Labels -> Nat], NEW expected \in Labels, Unit \in Nat
  PROVE  /\ Scores!Brier(v, expected) \in Nat
         /\ Scores!Brier(v, expected) = 0 <=>
              v = [label \in Labels |-> IF label = expected THEN Unit ELSE 0]
<1>. DEFINE certain == [label \in Labels |-> IF label = expected THEN Unit ELSE 0]
            off == [label \in Labels |-> v[label] - certain[label]]
            f == [label \in Labels |-> off[label] * off[label]]
<1>1. Scores!Brier(v, expected) = Total(f)
  BY SamePairSums DEF Scores!Brier
<1>2. certain \in [Labels -> Nat]
  OBVIOUS
<1>. HIDE DEF certain
<1>3. \A label \in Labels : /\ off[label] \in Int /\ v[label] \in Nat /\ certain[label] \in Nat
                            /\ off[label] = v[label] - certain[label]
  BY <1>2
<1>. HIDE DEF off
<1>4. \A x \in Int : x * x \in Nat /\ (x * x = 0 <=> x = 0)
  OBVIOUS
<1>5. f \in [Labels -> Nat] /\ \A label \in Labels : f[label] = off[label] * off[label]
  BY <1>3, <1>4
<1>. HIDE DEF f
<1>6. IsFiniteSet(Labels)
  <2>1. Labels = {"admissible"} \cup {"inadmissible"} \cup {"unknown"}
    BY DEF Labels
  <2>. QED
    BY <2>1, FS_Singleton, FS_Union
<1>7. Total(f) \in Nat
  BY <1>5, <1>6, TotalType
<1>8. ASSUME Total(f) = 0
      PROVE  v = certain
  <2>1. \A label \in Labels : f[label] = 0
    BY <1>5, <1>6, <1>8, TotalNone
  <2>2. ASSUME NEW label \in Labels
        PROVE  v[label] = certain[label]
    <3>1. off[label] * off[label] = 0 /\ off[label] \in Int
      BY <1>3, <1>5, <2>1
    <3>2. off[label] = 0
      BY <1>4, <3>1
    <3>3. v[label] \in Nat /\ certain[label] \in Nat /\ off[label] = v[label] - certain[label]
      BY <1>3
    <3>. QED
      BY <3>2, <3>3
  <2>. QED
    BY <1>2, <2>2
<1>9. ASSUME v = certain
      PROVE  Total(f) = 0
  <2>1. \A label \in Labels : f[label] = 0
    BY <1>3, <1>5, <1>9
  <2>. QED
    BY <1>5, <2>1, TotalZero
<1>. QED
  BY <1>1, <1>7, <1>8, <1>9 DEF certain

\* Three candidates and two queries: what is judged, and what never changes.
LEMMA PoolSizes ==
  ASSUME NEW focal \in 1 .. 3
  PROVE  /\ IsFiniteSet((1 .. 3) \X Both) /\ Cardinality((1 .. 3) \X Both) = 6
         /\ IsFiniteSet(((1 .. 3) \ {focal}) \X Both)
         /\ Cardinality(((1 .. 3) \ {focal}) \X Both) = 4
<1>1. IsFiniteSet(Both) /\ Cardinality(Both) = 2
  <2>1. Both = {"allow"} \cup {"block"} /\ "block" \notin {"allow"}
    BY DEF Both
  <2>2. IsFiniteSet({"allow"}) /\ Cardinality({"allow"}) = 1
    BY FS_Singleton
  <2>. QED
    BY <2>1, <2>2, FS_AddElement
<1>2. IsFiniteSet(1 .. 3) /\ Cardinality(1 .. 3) = 3
  <2>1. \A n \in Nat : IsFiniteSet(1 .. n) /\ Cardinality(1 .. n) = n
    BY FS_Interval
  <2>. QED
    BY <2>1
<1>3. IsFiniteSet((1 .. 3) \ {focal}) /\ Cardinality((1 .. 3) \ {focal}) = 2
  BY <1>2, FS_RemoveElement
<1>. DEFINE all == 1 .. 3
            stable == (1 .. 3) \ {focal}
<1>. HIDE DEF all, stable
<1>4. IsFiniteSet(all \X Both) /\ Cardinality(all \X Both) = 3 * 2
  BY <1>1, <1>2, FS_Product DEF all
<1>5. IsFiniteSet(stable \X Both) /\ Cardinality(stable \X Both) = 2 * 2
  BY <1>1, <1>3, FS_Product DEF stable
<1>. QED
  BY <1>4, <1>5 DEF all, stable

\* An answer that is certain of what is expected.
Certain(role, condition) ==
  [label \in Labels |->
     IF label = Scores!Expected(role, condition) THEN Unit ELSE 0]

\* What the scores of a pair have to do with each other.
LEMMA RowsAreCoherent ==
  ASSUME NEW roles, IsPool(roles), NEW Q, IsAnswered(Q), NEW focal \in 1 .. 3,
         roles[focal] = "focal", Unit \in Nat \ {0}
  PROVE  LET row == Scores!PairScoreRow(roles, Q)
         IN  /\ row.strict => row.direction /\ row.focalUnknown = 0
             /\ row.stableCorrect = 4 => row.overflips = 0
             /\ row.correct + row.unknown <= row.judged
             /\ row.brier = 0 => row.correct = row.judged /\ row.strict
             /\ (\A i \in 1 .. 3, c \in Both : Q[c][i].vector = Certain(roles[i], c)) => row.brier = 0
             /\ (\A i \in 1 .. 3 : Q["allow"][i].vector = Q["block"][i].vector) =>
                  ~row.direction /\ row.overflips = 0
<1>. DEFINE judged == (1 .. 3) \X Both
            stable == (1 .. 3) \ {focal}
            Verdict(i, c) == Scores!Verdict(Q[c][i])
            Expected(i, c) == Scores!Expected(roles[i], c)
            right == {j \in judged : Verdict(j[1], j[2]) = Expected(j[1], j[2])}
            unknown == {j \in judged : Verdict(j[1], j[2]) = "unknown"}
            brier == [j \in judged |->
                        Scores!Brier(Q[j[2]][j[1]].vector, Expected(j[1], j[2]))]
            row == Scores!PairScoreRow(roles, Q)
<1>1. /\ row.strict = ({<<focal, c>> : c \in Both} \subseteq right)
      /\ row.direction = (Scores!Margin(Q, focal) > 0)
      /\ row.focalUnknown = Cardinality({c \in Both : Verdict(focal, c) = "unknown"})
      /\ row.stableCorrect = Cardinality(right \cap (stable \X Both))
      /\ row.overflips = Cardinality({i \in stable : Verdict(i, "allow") # Verdict(i, "block")})
      /\ row.correct = Cardinality(right) /\ row.judged = Cardinality(judged)
      /\ row.unknown = Cardinality(unknown) /\ row.brier = Total(brier)
  <2>1. DOMAIN roles = 1 .. 3
    BY DEF IsPool
  <2>2. (CHOOSE i \in 1 .. 3 : roles[i] = "focal") = focal
    BY DEF IsPool
  <2>3. Scores!Conditions = Both
    BY DEF Scores!Conditions, Both
  <2>. QED
    BY <2>1, <2>2, <2>3, SamePairSums, Zenon DEF Scores!PairScoreRow
<1>2. \A i \in 1 .. 3, c \in Both :
        /\ Q[c][i].vector \in [Labels -> Nat]
        /\ Verdict(i, c) \in Labels
        /\ Verdict(i, c) = "admissible" =>
             Q[c][i].vector["inadmissible"] <= Q[c][i].vector["admissible"]
        /\ Verdict(i, c) = "inadmissible" =>
             Q[c][i].vector["admissible"] < Q[c][i].vector["inadmissible"]
  BY VerdictIs DEF IsAnswered
<1>3. /\ Expected(focal, "allow") = "admissible" /\ Expected(focal, "block") = "inadmissible"
      /\ \A i \in stable : Expected(i, "allow") = Expected(i, "block")
      /\ \A i \in 1 .. 3, c \in Both : Expected(i, c) \in {"admissible", "inadmissible"}
  BY DEF Scores!Expected, Scores!Gold, IsPool, Both
<1>4. /\ IsFiniteSet(judged) /\ Cardinality(judged) = 6
      /\ IsFiniteSet(stable \X Both) /\ Cardinality(stable \X Both) = 4
  BY PoolSizes
<1>5. "allow" \in Both /\ "block" \in Both
  BY DEF Both
<1>. HIDE DEF row
<1>0. brier \in [judged -> Nat]
  <2>. SUFFICES ASSUME NEW j \in judged
                PROVE  Scores!Brier(Q[j[2]][j[1]].vector, Expected(j[1], j[2])) \in Nat
    BY Zenon
  <2>1. j[1] \in 1 .. 3 /\ j[2] \in Both
    OBVIOUS
  <2>2. Q[j[2]][j[1]].vector \in [Labels -> Nat] /\ Expected(j[1], j[2]) \in Labels
    BY <1>2, <1>3, <2>1 DEF Labels
  <2>. QED
    BY <2>2, BrierIs, Zenon
<1>6. row.strict => row.direction /\ row.focalUnknown = 0
  <2>. SUFFICES ASSUME row.strict
                PROVE  row.direction /\ row.focalUnknown = 0
    OBVIOUS
  <2>1. <<focal, "allow">> \in right /\ <<focal, "block">> \in right
    BY <1>1, <1>5
  <2>2. Verdict(focal, "allow") = "admissible" /\ Verdict(focal, "block") = "inadmissible"
    BY <1>3, <2>1
  <2>. DEFINE a == Q["allow"][focal].vector
              b == Q["block"][focal].vector
  <2>3. a \in [Labels -> Nat] /\ b \in [Labels -> Nat]
    BY <1>2, <1>5
  <2>4. a["inadmissible"] <= a["admissible"] /\ b["admissible"] < b["inadmissible"]
    BY <1>2, <1>5, <2>2
  <2>. HIDE DEF a, b
  <2>5. Scores!Margin(Q, focal) > 0
    <3>1. /\ a["admissible"] \in Nat /\ a["inadmissible"] \in Nat
          /\ b["admissible"] \in Nat /\ b["inadmissible"] \in Nat
      BY <2>3 DEF Labels
    <3>2. Scores!Margin(Q, focal)
            = (a["admissible"] - a["inadmissible"]) - (b["admissible"] - b["inadmissible"])
      BY DEF Scores!Margin, Scores!Lean, a, b
    <3>. QED
      BY <2>4, <3>1, <3>2
  <2>6. {c \in Both : Verdict(focal, c) = "unknown"} = {}
    BY <2>2 DEF Both
  <2>. QED
    BY <1>1, <2>5, <2>6, FS_EmptySet
<1>7. row.stableCorrect = 4 => row.overflips = 0
  <2>. SUFFICES ASSUME Cardinality(right \cap (stable \X Both)) = 4
                PROVE  row.overflips = 0
    BY <1>1
  <2>1. right \cap (stable \X Both) = stable \X Both
    BY <1>4, FS_Subset
  <2>2. \A i \in stable : Verdict(i, "allow") = Expected(i, "allow")
                          /\ Verdict(i, "block") = Expected(i, "block")
    <3>. SUFFICES ASSUME NEW i \in stable
                  PROVE  Verdict(i, "allow") = Expected(i, "allow")
                         /\ Verdict(i, "block") = Expected(i, "block")
      OBVIOUS
    <3>1. <<i, "allow">> \in right /\ <<i, "block">> \in right
      BY <1>5, <2>1
    <3>. QED
      BY <3>1
  <2>3. {i \in stable : Verdict(i, "allow") # Verdict(i, "block")} = {}
    BY <1>3, <2>2
  <2>. QED
    BY <1>1, <2>3, FS_EmptySet
<1>8. row.correct + row.unknown <= row.judged
  <2>1. right \cap unknown = {} /\ right \cup unknown \subseteq judged
    BY <1>3
  <2>2. IsFiniteSet(right) /\ IsFiniteSet(unknown)
    BY <1>4, FS_Subset
  <2>. HIDE DEF right, unknown, judged
  <2>3. Cardinality(right \cup unknown) = Cardinality(right) + Cardinality(unknown)
    BY <2>1, <2>2, DisjointSizes, Zenon
  <2>4. Cardinality(right \cup unknown) <= Cardinality(judged)
    BY <1>4, <2>1, FS_Subset
  <2>. QED
    BY <1>1, <2>3, <2>4
<1>9. row.brier = 0 => row.correct = row.judged /\ row.strict
  <2>. SUFFICES ASSUME Total(brier) = 0
                PROVE  row.correct = row.judged /\ row.strict
    BY <1>1
  <2>2. \A j \in judged : brier[j] = 0
    BY <1>0, <1>4, TotalNone
  <2>3. ASSUME NEW i \in 1 .. 3, NEW c \in Both
        PROVE  Verdict(i, c) = Expected(i, c)
    <3>. DEFINE v == Q[c][i].vector
                e == Expected(i, c)
    <3>1. <<i, c>> \in judged /\ brier[<<i, c>>] = Scores!Brier(v, e)
      OBVIOUS
    <3>2. v \in [Labels -> Nat] /\ e \in Labels /\ e \in {"admissible", "inadmissible"}
      BY <1>2, <1>3 DEF Labels
    <3>3. v = [label \in Labels |-> IF label = e THEN Unit ELSE 0]
      BY <2>2, <3>1, <3>2, BrierIs
    <3>4. Verdict(i, c) = e
      <4>. HIDE DEF e
      <4>1. /\ Verdict(i, c) = "admissible" <=>
                 v["inadmissible"] <= v["admissible"] /\ v["unknown"] <= v["admissible"]
            /\ Verdict(i, c) = "inadmissible" <=>
                 v["admissible"] < v["inadmissible"] /\ v["unknown"] <= v["inadmissible"]
        BY <3>2, VerdictIs
      <4>. HIDE DEF Verdict, v
      <4>. QED
        BY <3>2, <3>3, <4>1 DEF Labels
    <3>. QED
      BY <3>4
  <2>4. right = judged
    BY <2>3
  <2>5. {<<focal, c>> : c \in Both} \subseteq right
    BY <2>4
  <2>. QED
    BY <1>1, <2>4, <2>5
<1>10. ASSUME \A i \in 1 .. 3, c \in Both : Q[c][i].vector = Certain(roles[i], c)
       PROVE  row.brier = 0
  <2>1. ASSUME NEW j \in judged
        PROVE  brier[j] = 0
    <3>1. j[1] \in 1 .. 3 /\ j[2] \in Both
      OBVIOUS
    <3>2. /\ Q[j[2]][j[1]].vector \in [Labels -> Nat] /\ Expected(j[1], j[2]) \in Labels
          /\ Q[j[2]][j[1]].vector = Certain(roles[j[1]], j[2])
      BY <1>2, <1>3, <1>10, <3>1 DEF Labels
    <3>3. Scores!Brier(Q[j[2]][j[1]].vector, Expected(j[1], j[2])) = 0
      BY <3>2, BrierIs DEF Certain
    <3>. QED
      BY <3>3
  <2>. QED
    BY <1>0, <1>1, <2>1, TotalZero
<1>11. ASSUME \A i \in 1 .. 3 : Q["allow"][i].vector = Q["block"][i].vector
       PROVE  ~row.direction /\ row.overflips = 0
  <2>1. \A i \in 1 .. 3 : Verdict(i, "allow") = Verdict(i, "block")
    BY <1>11 DEF Scores!Verdict
  <2>2. {i \in stable : Verdict(i, "allow") # Verdict(i, "block")} = {}
    BY <2>1
  <2>. DEFINE v == Q["block"][focal].vector
  <2>3. Scores!Margin(Q, focal)
          = (v["admissible"] - v["inadmissible"]) - (v["admissible"] - v["inadmissible"])
    BY <1>11 DEF Scores!Margin, Scores!Lean
  <2>4. v["admissible"] \in Nat /\ v["inadmissible"] \in Nat
    BY <1>2, <1>5 DEF Labels
  <2>. HIDE DEF v
  <2>5. ~(Scores!Margin(Q, focal) > 0)
    BY <2>3, <2>4
  <2>. QED
    BY <1>1, <2>2, <2>5, FS_EmptySet
<1>. QED
  BY <1>6, <1>7, <1>8, <1>9, <1>10, <1>11 DEF row

\* The labels of a vector.
LEMMA LabelsAre ==
  /\ DOMAIN Scores!AdmissibilityLabels = 1 .. 3
  /\ Scores!Range(Scores!AdmissibilityLabels) = Labels
  /\ {Scores!AdmissibilityLabels[i] : i \in DOMAIN Scores!AdmissibilityLabels}
       = Labels
<1>. DEFINE L == Scores!AdmissibilityLabels
<1>1. /\ L = <<"admissible", "inadmissible", "unknown">> /\ DOMAIN L = 1 .. 3
      /\ L[1] = "admissible" /\ L[2] = "inadmissible" /\ L[3] = "unknown"
  BY DEF Scores!AdmissibilityLabels
<1>. HIDE DEF L
<1>2. {L[i] : i \in DOMAIN L} = Labels
  BY <1>1 DEF Labels
<1>. QED
  BY <1>1, <1>2 DEF Scores!Range, L

\* A pair that is accepted has one candidate of each role and a vector for each.
LEMMA AcceptedPairs ==
  ASSUME NEW s, PairAccepted(s), Unit \in Nat \ {0}
  PROVE  /\ IsPool(s.scenario.roles) /\ IsAnswered(s.predictions)
         /\ \E focal \in 1 .. 3 : s.scenario.roles[focal] = "focal"
<1>. DEFINE roles == s.scenario.roles
            R == {"focal", "stable_admissible", "stable_inadmissible"}
<1>1. Scores!Roles = R /\ Cardinality(R) = 3
  <2>1. /\ IsFiniteSet({"focal"}) /\ Cardinality({"focal"}) = 1
    BY FS_Singleton
  <2>2. /\ IsFiniteSet({"focal"} \cup {"stable_admissible"})
        /\ Cardinality({"focal"} \cup {"stable_admissible"}) = 2
    BY <2>1, FS_AddElement
  <2>3. Cardinality(({"focal"} \cup {"stable_admissible"}) \cup {"stable_inadmissible"}) = 3
    <3>1. "stable_inadmissible" \notin {"focal"} \cup {"stable_admissible"}
      OBVIOUS
    <3>2. Cardinality(({"focal"} \cup {"stable_admissible"}) \cup {"stable_inadmissible"}) = 2 + 1
      BY <2>2, <3>1, FS_AddElement, Zenon
    <3>. QED
      BY <3>2
  <2>4. R = ({"focal"} \cup {"stable_admissible"}) \cup {"stable_inadmissible"}
    OBVIOUS
  <2>. QED
    BY <2>3, <2>4 DEF Scores!Roles
<1>2. roles \in [1 .. 3 -> R] /\ {roles[i] : i \in DOMAIN roles} = R
  <2>1. Scores!IsScenario(s.scenario)
    BY DEF PairAccepted, Scores!ContractHolds
  <2>2. /\ roles \in [1 .. Scores!Cardinality(Scores!Roles)
                        -> Scores!Roles]
        /\ Scores!Range(roles) = Scores!Roles
    BY <2>1 DEF Scores!IsScenario
  <2>3. Scores!Cardinality(Scores!Roles) = 3
    BY <1>1, SamePairSums
  <2>. QED
    BY <1>1, <2>2, <2>3 DEF Scores!Range
<1>. HIDE DEF roles
<1>3. \E a, b, c \in 1 .. 3 : /\ roles[a] = "focal" /\ roles[b] = "stable_admissible"
                              /\ roles[c] = "stable_inadmissible"
  <2>1. \A x \in R : \E i \in 1 .. 3 : roles[i] = x
    BY <1>2
  <2>. QED
    BY <2>1
<1>4. IsPool(roles)
  <2>. SUFFICES ASSUME NEW i \in 1 .. 3, NEW j \in 1 .. 3, roles[i] = roles[j]
                PROVE  i = j
    BY <1>2 DEF IsPool
  <2>1. PICK a \in 1 .. 3, b \in 1 .. 3, c \in 1 .. 3 :
          /\ roles[a] = "focal" /\ roles[b] = "stable_admissible"
          /\ roles[c] = "stable_inadmissible"
    BY <1>3
  <2>2. a # b /\ a # c /\ b # c
    BY <2>1
  <2>3. i \in {a, b, c} /\ j \in {a, b, c}
    BY <2>2
  <2>. QED
    BY <2>1, <2>3
<1>5. Len(roles) = 3
  <2>1. roles \in Seq(R)
    <3>1. \A n \in Nat : [1 .. n -> R] \subseteq Seq(R)
      BY SeqDef, Zenon
    <3>. QED
      BY <1>2, <3>1
  <2>. QED
    BY <1>2, <2>1
<1>6. ASSUME NEW c \in Both, NEW i \in 1 .. 3
      PROVE  s.predictions[c][i].vector \in [Labels -> Nat]
  <2>. DEFINE response == s.predictions[c]
  <2>1. Scores!IsResponse(response, 3)
    <3>1. c \in Scores!Conditions
      BY DEF Scores!Conditions, Both
    <3>. QED
      BY <1>5, <3>1 DEF PairAccepted, Scores!IsPrediction, roles
  <2>. HIDE DEF response
  <2>2. DOMAIN response = 1 .. 3
    <3>1. [k \in DOMAIN response |-> response[k].key] = [k \in 1 .. 3 |-> k]
      BY <2>1 DEF Scores!IsResponse, Scores!InOrder
    <3>. QED
      BY <3>1
  <2>3. Scores!IsVector(response[i].vector, Scores!AdmissibilityLabels)
    BY <2>1, <2>2 DEF Scores!IsResponse
  <2>4. response[i].vector \in [Labels -> 0 .. Unit]
    BY <2>3, LabelsAre DEF Scores!IsVector
  <2>. QED
    BY <2>4 DEF response
<1>7. IsAnswered(s.predictions)
  BY <1>6 DEF IsAnswered
<1>. QED
  BY <1>3, <1>4, <1>7 DEF roles

\* The oracle is certain; the keep-all baseline says the same of both queries.
LEMMA BaselinesAre ==
  ASSUME NEW roles, IsPool(roles), Unit \in Nat \ {0}
  PROVE  /\ IsAnswered(Scores!OraclePredictions(roles))
         /\ IsAnswered(Scores!NoVerifierPredictions(roles))
         /\ \A i \in 1 .. 3, c \in Both :
              Scores!OraclePredictions(roles)[c][i].vector = Certain(roles[i], c)
         /\ \A i \in 1 .. 3 :
              Scores!NoVerifierPredictions(roles)["allow"][i].vector
                = Scores!NoVerifierPredictions(roles)["block"][i].vector
<1>. DEFINE oracle == Scores!OraclePredictions(roles)
            keepAll == Scores!NoVerifierPredictions(roles)
<1>1. DOMAIN roles = 1 .. 3
  BY DEF IsPool
<1>2. Scores!Conditions = Both /\ "allow" \in Both /\ "block" \in Both
  BY DEF Scores!Conditions, Both
<1>3. ASSUME NEW i \in 1 .. 3, NEW c \in Both
      PROVE  /\ oracle[c][i].vector = Certain(roles[i], c)
             /\ keepAll[c][i].vector = [label \in Labels |->
                                          IF label = "admissible" THEN Unit ELSE 0]
  BY <1>1, <1>2, LabelsAre, Zenon
     DEF Scores!OraclePredictions, Scores!NoVerifierPredictions, Certain
<1>4. \A role, c : Certain(role, c) \in [Labels -> Nat]
  BY DEF Certain
<1>5. [label \in Labels |-> IF label = "admissible" THEN Unit ELSE 0] \in [Labels -> Nat]
  OBVIOUS
<1>. HIDE DEF oracle, keepAll
<1>6. IsAnswered(oracle) /\ IsAnswered(keepAll)
  <2>1. ASSUME NEW c \in Both, NEW i \in 1 .. 3
        PROVE  oracle[c][i].vector \in [Labels -> Nat] /\ keepAll[c][i].vector \in [Labels -> Nat]
    <3>1. oracle[c][i].vector \in [Labels -> Nat]
      <4>1. oracle[c][i].vector = Certain(roles[i], c)
        BY <1>3
      <4>. QED
        BY <1>4, <4>1, Zenon
    <3>2. keepAll[c][i].vector \in [Labels -> Nat]
      BY <1>3, <1>5
    <3>. QED
      BY <3>1, <3>2
  <2>. QED
    BY <2>1, Zenon DEF IsAnswered
<1>7. \A i \in 1 .. 3 : keepAll["allow"][i].vector = keepAll["block"][i].vector
  BY <1>2, <1>3
<1>. QED
  BY <1>3, <1>6, <1>7 DEF oracle, keepAll

\* Scoring a pair yields coherent rows.
LEMMA ScoredPairs ==
  ASSUME ScorePair, Unit \in Nat \ {0}
  PROVE  PairsAreCoherent'
<1>1. subject' = subject /\ subject.kind = "pair"
  BY DEF ScorePair, Look, Is
<1>2. CASE ~PairAccepted(subject)
  <2>1. result'.refused
    BY <1>2 DEF ScorePair, Refused
  <2>. QED
    BY <2>1 DEF PairsAreCoherent
<1>3. CASE PairAccepted(subject)
  <2>. DEFINE roles == subject.scenario.roles
              Q == subject.predictions
              oracle == Scores!OraclePredictions(roles)
              keepAll == Scores!NoVerifierPredictions(roles)
  <2>1. result' = [refused |-> FALSE, model |-> Scores!PairScoreRow(roles, Q),
                   oracle |-> Scores!PairScoreRow(roles, oracle),
                   keepAll |-> Scores!PairScoreRow(roles, keepAll)]
    BY <1>3, Zenon DEF ScorePair
  <2>2. PICK focal \in 1 .. 3 : IsPool(roles) /\ IsAnswered(Q) /\ roles[focal] = "focal"
    BY <1>3, AcceptedPairs
  <2>3. /\ IsAnswered(oracle) /\ IsAnswered(keepAll)
        /\ \A i \in 1 .. 3, c \in Both : oracle[c][i].vector = Certain(roles[i], c)
        /\ \A i \in 1 .. 3 : keepAll["allow"][i].vector = keepAll["block"][i].vector
    BY <2>2, BaselinesAre
  <2>. HIDE DEF roles, Q, oracle, keepAll
  <2>4. LET row == Scores!PairScoreRow(roles, Q)
        IN  /\ row.strict => row.direction /\ row.focalUnknown = 0
            /\ row.stableCorrect = 4 => row.overflips = 0
            /\ row.correct + row.unknown <= row.judged
            /\ row.brier = 0 => row.correct = row.judged /\ row.strict
    BY <2>2, RowsAreCoherent, Zenon
  <2>5. LET row == Scores!PairScoreRow(roles, oracle)
        IN  row.brier = 0 /\ row.correct = row.judged
    BY <2>2, <2>3, RowsAreCoherent, Zenon
  <2>6. LET row == Scores!PairScoreRow(roles, keepAll)
        IN  ~row.direction /\ row.overflips = 0
    BY <2>2, <2>3, RowsAreCoherent, Zenon
  <2>7. /\ result'.model = Scores!PairScoreRow(roles, Q)
        /\ result'.oracle = Scores!PairScoreRow(roles, oracle)
        /\ result'.keepAll = Scores!PairScoreRow(roles, keepAll)
    BY <2>1
  <2>. QED
    BY <2>4, <2>5, <2>6, <2>7, Zenon DEF PairsAreCoherent
<1>. QED
  BY <1>2, <1>3

-----------------------------------------------------------------------------
(* The contracts: exposures *)

\* The instance counts and filters as Counting does.
LEMMA SameExposureSums ==
  /\ \A S : Units!Cardinality(S) = Cardinality(S)
  /\ \A s, K : Units!Filtered(s, K) = Filtered(s, K)
<1>1. \A S : Units!Cardinality(S) = Cardinality(S)
  BY DEF Units!Cardinality, Cardinality
<1>2. \A S, before : Units!Arranged(S, before) = Arranged(S, before)
  BY DEF Units!Arranged, Arranged, Units!Cardinality, Cardinality
<1>3. \A s, K : Units!PlacesOf(s, K) = PlacesOf(s, K)
  BY <1>2, Zenon DEF Units!PlacesOf, PlacesOf
<1>4. \A s, K : Units!Filtered(s, K) = Filtered(s, K)
  BY <1>3, Zenon DEF Units!Filtered, Filtered
<1>. QED
  BY <1>1, <1>4

\* A marker tells the text of its candidate from all others and from the queries.
IsMarked(cs, queries) ==
  /\ DOMAIN cs = 1 .. 3
  /\ \A i \in 1 .. 3 :
       /\ cs[i].markers # {}
       /\ \A m \in cs[i].markers :
            /\ Units!ContainsWords(cs[i].text, m)
            /\ ~Units!ContainsWords(<<>>, m)
            /\ \A j \in 1 .. 3 \ {i} : ~Units!ContainsWords(cs[j].text, m)
            /\ \A c \in Both : ~Units!ContainsWords(queries[c], m)

\* An overlay that is accepted is marked.
LEMMA AlignedIsMarked ==
  ASSUME NEW cs, NEW queries, Units!OverlayIsAligned(cs, queries)
  PROVE  IsMarked(cs, queries)
<1>1. DOMAIN cs = 1 .. 3
  <2>. DEFINE R == {"focal", "irrelevant_admissible", "irrelevant_inadmissible"}
  <2>1. /\ IsFiniteSet({"focal"}) /\ Cardinality({"focal"}) = 1
    BY FS_Singleton
  <2>2. /\ IsFiniteSet({"focal"} \cup {"irrelevant_admissible"})
        /\ Cardinality({"focal"} \cup {"irrelevant_admissible"}) = 2
    BY <2>1, FS_AddElement
  <2>3. "irrelevant_inadmissible" \notin {"focal"} \cup {"irrelevant_admissible"}
    OBVIOUS
  <2>4. Cardinality(({"focal"} \cup {"irrelevant_admissible"}) \cup {"irrelevant_inadmissible"}) = 2 + 1
    BY <2>2, <2>3, FS_AddElement, Zenon
  <2>5. Units!Roles
          = ({"focal"} \cup {"irrelevant_admissible"}) \cup {"irrelevant_inadmissible"}
    BY DEF Units!Roles
  <2>6. DOMAIN cs = 1 .. Units!Cardinality(Units!Roles)
    BY DEF Units!OverlayIsAligned
  <2>. QED
    BY <2>4, <2>5, <2>6, SameExposureSums
<1>2. Units!Conditions = Both
  BY DEF Units!Conditions, Both
<1>3. ASSUME NEW i \in 1 .. 3
      PROVE  /\ cs[i].markers # {}
             /\ \A m \in cs[i].markers : m \in Seq(Nat) /\ m # <<>>
  BY <1>1 DEF Units!OverlayIsAligned, Units!CandidateIsValid
<1>4. ASSUME NEW i \in 1 .. 3, NEW m \in cs[i].markers
      PROVE  /\ Units!ContainsWords(cs[i].text, m)
             /\ \A j \in 1 .. 3 \ {i} : ~Units!ContainsWords(cs[j].text, m)
             /\ \A c \in Both : ~Units!ContainsWords(queries[c], m)
  BY <1>1, <1>2
     DEF Units!OverlayIsAligned, Units!InOwnText,
         Units!InNoOther, Units!InNoQuery
<1>5. ASSUME NEW m \in Seq(Nat), m # <<>>
      PROVE  ~Units!ContainsWords(<<>>, m)
  <2>1. Len(m) \in Nat \ {0}
    BY <1>5, EmptySeq
  <2>2. 1 .. Len(<<>>) - Len(m) + 1 = {}
    BY <2>1
  <2>. QED
    BY <2>2 DEF Units!ContainsWords
<1>. QED
  BY <1>1, <1>3, <1>4, <1>5 DEF IsMarked

\* What a reader is shown: all texts, or all but the one withheld.
LEMMA ShownIs ==
  ASSUME NEW cs, DOMAIN cs = 1 .. 3, NEW unit, NEW exposure
  PROVE  LET shown == Units!Shown(cs, unit, exposure)
         IN  /\ \A k \in DOMAIN shown : shown[k] \in 1 .. 3 /\ k \in Nat \ {0}
             /\ exposure = "exposed" => shown = [i \in 1 .. 3 |-> i]
             /\ exposure # "exposed" => \A k \in DOMAIN shown : shown[k] # unit[2]
<1>. DEFINE all == [i \in 1 .. 3 |-> i]
            K == IF exposure = "exposed" THEN 1 .. 3 ELSE 1 .. 3 \ {unit[2]}
            shown == Filtered(all, K)
<1>1. Units!Shown(cs, unit, exposure) = shown
  BY SameExposureSums, Zenon DEF Units!Shown
<1>2. all \in Seq(1 .. 3)
  <2>1. \A T : \A n \in Nat : [1 .. n -> T] \subseteq Seq(T)
    BY SeqDef, Zenon
  <2>. QED
    BY <2>1
<1>3. exposure = "exposed" => shown = all
  BY <1>2, FilteredAll
<1>4. shown \in Seq(1 .. 3) /\ ToSet(shown) = ToSet(all) \cap K
  BY <1>2, FilteredElements
<1>. HIDE DEF shown, all
<1>5. /\ DOMAIN shown = 1 .. Len(shown) /\ Len(shown) \in Nat
      /\ \A k \in DOMAIN shown : shown[k] \in 1 .. 3
  BY <1>4, LenProperties, ElementOfSeq
<1>6. \A k \in DOMAIN shown : shown[k] \in K
  BY <1>4 DEF ToSet
<1>. QED
  BY <1>1, <1>3, <1>5, <1>6 DEF all

\* The quote of a text discloses its candidate; nothing else that is quoted does.
LEMMA QuoteDiscloses ==
  ASSUME NEW cs, NEW queries, IsMarked(cs, queries), NEW c \in Both, NEW i \in 1 .. 3,
         NEW exposure, NEW quote
  PROVE  Units!TargetDisclosed(
           Quoted(Units!RequestPayload(cs, queries, <<c, i>>, exposure),
                            quote).answer,
           cs[i].markers)
           <=> exposure = "exposed" /\ quote = i
<1>. DEFINE shown == Units!Shown(cs, <<c, i>>, exposure)
            payload == Units!RequestPayload(cs, queries, <<c, i>>, exposure)
            answer == Quoted(payload, quote).answer
            Told == Units!TargetDisclosed(answer, cs[i].markers)
<1>1. DOMAIN cs = 1 .. 3
  BY DEF IsMarked
<1>2. payload = [query |-> queries[c], texts |-> [k \in DOMAIN shown |-> cs[shown[k]].text]]
  BY DEF Units!RequestPayload
<1>3. /\ \A k \in DOMAIN shown : shown[k] \in 1 .. 3 /\ k \in Nat \ {0}
      /\ exposure = "exposed" => shown = [k \in 1 .. 3 |-> k]
      /\ exposure # "exposed" => \A k \in DOMAIN shown : shown[k] # i
  BY <1>1, ShownIs
<1>. HIDE DEF shown, payload
<1>4. payload.query = queries[c] /\ payload.texts = [k \in DOMAIN shown |-> cs[shown[k]].text]
  BY <1>2
<1>5. CASE quote = 0
  <2>1. answer = queries[c]
    BY <1>3, <1>4, <1>5 DEF Quoted
  <2>2. ~Told
    BY <2>1 DEF Units!TargetDisclosed, IsMarked
  <2>. QED
    BY <1>5, <2>2 DEF payload
<1>6. CASE quote \in DOMAIN shown
  <2>1. answer = cs[shown[quote]].text
    BY <1>3, <1>4, <1>6 DEF Quoted
  <2>2. shown[quote] = i => Told
    BY <2>1 DEF Units!TargetDisclosed, IsMarked
  <2>3. shown[quote] # i => ~Told
    BY <1>3, <1>6, <2>1 DEF Units!TargetDisclosed, IsMarked
  <2>. QED
    BY <1>3, <1>6, <2>2, <2>3 DEF payload
<1>7. CASE quote # 0 /\ quote \notin DOMAIN shown
  <2>1. answer = <<>>
    BY <1>4, <1>7 DEF Quoted
  <2>2. ~Told
    BY <2>1 DEF Units!TargetDisclosed, IsMarked
  <2>3. exposure = "exposed" => quote # i
    BY <1>3, <1>7
  <2>. QED
    BY <2>2, <2>3 DEF payload
<1>. QED
  BY <1>5, <1>6, <1>7

\* Exposing the candidates to a reader that quotes attributes every disclosure.
LEMMA ExposuresAttribute ==
  ASSUME Expose
  PROVE  MarkersAreAttributable'
<1>. DEFINE cs == subject.candidates
            responses == [r \in Units!Requests(cs) |->
              Quoted(Units!RequestPayload(cs, subject.queries, r[1], r[2]),
                               subject.quote)]
            scores == Units!ScoreExposurePairs(cs, responses)
            Told(c, i, exposure) ==
              Units!TargetDisclosed(responses[<<<<c, i>>, exposure>>].answer,
                                                 cs[i].markers)
<1>1. subject' = subject /\ subject.kind = "exposure"
  BY DEF Expose, Look, Is
<1>2. CASE ~Units!OverlayIsAligned(cs, subject.queries)
  <2>1. result'.refused
    BY <1>2 DEF Expose, Refused
  <2>. QED
    BY <2>1 DEF MarkersAreAttributable
<1>3. CASE Units!OverlayIsAligned(cs, subject.queries)
  <2>1. IsMarked(cs, subject.queries)
    BY <1>3, AlignedIsMarked
  <2>2. /\ DOMAIN cs = 1 .. 3 /\ Units!Conditions = Both
        /\ "exposed" \in Units!Exposures /\ "withheld" \in Units!Exposures
    BY <2>1 DEF IsMarked, Units!Conditions, Both, Units!Exposures
  <2>3. result' = [refused |-> FALSE, scores |-> scores,
                   cells |-> [cell \in Units!Cells |->
                                Units!CellScores(scores, cell)]]
    BY <1>3, Zenon DEF Expose
  <2>4. /\ DOMAIN scores = Both \X (1 .. 3)
        /\ \A c \in Both, i \in 1 .. 3 :
             /\ scores[<<c, i>>].exposed = Told(c, i, "exposed")
             /\ scores[<<c, i>>].withheld = Told(c, i, "withheld")
             /\ scores[<<c, i>>].cell = Units!Cell(cs, <<c, i>>)
    BY <2>2 DEF Units!ScoreExposurePairs, Units!ExposureUnitsOf
  <2>5. ASSUME NEW c \in Both, NEW i \in 1 .. 3, NEW exposure \in {"exposed", "withheld"}
        PROVE  Told(c, i, exposure) <=> exposure = "exposed" /\ subject.quote = i
    <3>1. <<<<c, i>>, exposure>> \in Units!Requests(cs)
      BY <2>2 DEF Units!Requests, Units!ExposureUnitsOf
    <3>2. responses[<<<<c, i>>, exposure>>]
            = Quoted(
                Units!RequestPayload(cs, subject.queries, <<c, i>>, exposure),
                subject.quote)
      BY <3>1
    <3>. HIDE DEF cs, responses
    <3>3. Units!TargetDisclosed(
            Quoted(
              Units!RequestPayload(cs, subject.queries, <<c, i>>, exposure),
              subject.quote).answer,
            cs[i].markers)
            <=> exposure = "exposed" /\ subject.quote = i
      BY <2>1, QuoteDiscloses
    <3>. QED
      BY <3>2, <3>3
  <2>. HIDE DEF cs, scores
  <2>6. IsFiniteSet(DOMAIN scores)
    <3>1. \A n \in Nat : IsFiniteSet(1 .. n)
      BY FS_Interval
    <3>2. IsFiniteSet(1 .. 3) /\ IsFiniteSet({"allow"}) /\ IsFiniteSet({"block"})
      BY <3>1, FS_Singleton
    <3>3. IsFiniteSet({"allow"} \cup {"block"}) /\ Both = {"allow"} \cup {"block"}
      BY <3>2, FS_Union DEF Both
    <3>4. IsFiniteSet(Both \X (1 .. 3))
      BY <3>2, <3>3, FS_Product
    <3>. QED
      BY <2>4, <3>4
  <2>7. Total([cell \in Units!Cells |->
                 Units!CellScores(scores, cell).units]) = Cardinality(DOMAIN scores)
    <3>. DEFINE f == [u \in DOMAIN scores |-> scores[u].cell]
                units == [cell \in Units!Cells |->
                            Cardinality({u \in DOMAIN scores : f[u] = cell})]
    <3>1. f \in [DOMAIN scores -> Units!Cells]
      <4>. SUFFICES ASSUME NEW u \in DOMAIN scores
                    PROVE  scores[u].cell \in Units!Cells
        OBVIOUS
      <4>1. \A role, c : /\ Units!Relevant(role, c) \in BOOLEAN
                         /\ Units!AdmissibleUnder(role, c) \in BOOLEAN
        BY DEF Units!Relevant, Units!AdmissibleUnder
      <4>2. PICK c \in Both, i \in 1 .. 3 : u = <<c, i>>
        BY <2>4
      <4>3. scores[u].cell = Units!Cell(cs, <<c, i>>)
        BY <2>4, <4>2
      <4>. QED
        BY <4>1, <4>3 DEF Units!Cell, Units!Cells
    <3>2. Total(units) = Cardinality(DOMAIN scores)
      <4>. DEFINE S == DOMAIN scores
                  C == Units!Cells
      <4>1. IsFiniteSet(S) /\ f \in [S -> C]
        BY <2>6, <3>1
      <4>. HIDE DEF f, S, C
      <4>2. Total([c \in C |-> Cardinality({x \in S : f[x] = c})]) = Cardinality(S)
        BY <4>1, PartSizes
      <4>. QED
        BY <4>2 DEF S, C
    <3>3. \A cell \in Units!Cells :
            Units!CellScores(scores, cell).units = units[cell]
      <4>. SUFFICES ASSUME NEW cell \in Units!Cells
                    PROVE  Units!CellScores(scores, cell).units = units[cell]
        OBVIOUS
      <4>1. {u \in DOMAIN scores : scores[u].cell = cell} = {u \in DOMAIN scores : f[u] = cell}
        OBVIOUS
      <4>. QED
        BY <4>1, SameExposureSums DEF Units!CellScores
    <3>4. [cell \in Units!Cells |->
             Units!CellScores(scores, cell).units] = units
      BY <3>3
    <3>. QED
      BY <3>2, <3>4
  <2>8. /\ result'.scores = scores /\ DOMAIN result'.cells = Units!Cells
        /\ \A cell \in Units!Cells :
             result'.cells[cell] = Units!CellScores(scores, cell)
    BY <2>3
  <2>9. Total([cell \in DOMAIN result'.cells |-> result'.cells[cell].units])
          = Cardinality(DOMAIN result'.scores)
    <3>1. [cell \in DOMAIN result'.cells |-> result'.cells[cell].units]
            = [cell \in Units!Cells |->
                 Units!CellScores(scores, cell).units]
      BY <2>8
    <3>. QED
      BY <2>7, <2>8, <3>1, SameExposureSums
  <2>10. ASSUME NEW unit \in DOMAIN scores
         PROVE  /\ ~scores[unit].withheld
                /\ scores[unit].exposed = (subject.quote = unit[2])
    <3>1. PICK c \in Both, i \in 1 .. 3 : unit = <<c, i>>
      BY <2>4
    <3>2. Told(c, i, "exposed") <=> subject.quote = i
      BY <2>5
    <3>3. ~Told(c, i, "withheld")
      BY <2>5
    <3>4. /\ scores[unit].exposed = Told(c, i, "exposed")
          /\ scores[unit].withheld = Told(c, i, "withheld")
      BY <2>4, <3>1
    <3>5. unit[2] = i
      BY <3>1
    <3>. HIDE DEF Told
    <3>6. Told(c, i, "exposed") = (subject.quote = i)
      <4>1. Told(c, i, "exposed") \in BOOLEAN
        BY DEF Told, Units!TargetDisclosed
      <4>. QED
        BY <3>2, <4>1
    <3>. QED
      BY <3>3, <3>4, <3>5, <3>6
  <2>. QED
    BY <1>1, <2>8, <2>9, <2>10 DEF MarkersAreAttributable
<1>. QED
  BY <1>2, <1>3

-----------------------------------------------------------------------------
(* The contracts: routes *)

\* The instance counts and filters as Counting does.
LEMMA SameFilterSums ==
  /\ \A S : Filter!Cardinality(S) = Cardinality(S)
  /\ \A S : Filter!Min(S) = Min(S)
  /\ \A s, K : Filter!Filtered(s, K) = Filtered(s, K)
<1>1. \A S : Filter!Cardinality(S) = Cardinality(S)
  BY DEF Filter!Cardinality, Cardinality
<1>2. \A S : Filter!Min(S) = Min(S)
  BY DEF Filter!Min, Min
<1>3. \A S, before : Filter!Arranged(S, before) = Arranged(S, before)
  BY DEF Filter!Arranged, Arranged, Filter!Cardinality, Cardinality
<1>4. \A s, K : Filter!PlacesOf(s, K) = PlacesOf(s, K)
  BY <1>3, Zenon DEF Filter!PlacesOf, PlacesOf
<1>5. \A s, K : Filter!Filtered(s, K) = Filtered(s, K)
  BY <1>4, Zenon DEF Filter!Filtered, Filtered
<1>. QED
  BY <1>1, <1>2, <1>5

\* Enough anchors are among the candidates S; and those of S that are not admissible.
Enough(case, S, target) ==
  Cardinality({k \in S : case.candidates[k].required}) * target[2] >= target[1] * case.anchors
Amiss(case, S) ==
  {k \in S : Filter!Released(case.candidates[k]) \in {"no", "unknown"}}
FirstOf(s, m) == {s[i] : i \in 1 .. m}

\* The score of a route is that of the shortest beginning with enough anchors.
LEMMA PrefixScores ==
  ASSUME NEW case, NEW n \in Nat, NEW s \in Seq(1 .. n), NEW target,
         \A i, j \in 1 .. Len(s) : s[i] = s[j] => i = j
  PROVE  LET rated == Filter!ScoreFilteredRoute(case, s, target)
         IN  /\ rated.feasible \in BOOLEAN
             /\ rated.feasible <=> Enough(case, FirstOf(s, Len(s)), target)
             /\ ~rated.feasible => rated.penalized = <<1, 1>>
             /\ rated.feasible =>
                  \E m \in 0 .. Len(s) :
                    /\ Enough(case, FirstOf(s, m), target)
                    /\ \A k \in 0 .. Len(s) : Enough(case, FirstOf(s, k), target) => m <= k
                    /\ rated.penalized =
                         IF m = 0 THEN <<0, 1>>
                         ELSE <<Cardinality(Amiss(case, FirstOf(s, m))), m>>
<1>. DEFINE required == {k \in 1 .. n : case.candidates[k].required}
            bad == {k \in 1 .. n : Filter!Released(case.candidates[k]) \in {"no", "unknown"}}
            G == {m \in 0 .. Len(s) : Filter!Recalls(case, SubSeq(s, 1, m), target)}
            length == Min(G)
            rated == Filter!ScoreFilteredRoute(case, s, target)
<1>1. Len(s) \in Nat /\ DOMAIN s = 1 .. Len(s) /\ \A i \in 1 .. Len(s) : s[i] \in 1 .. n
  BY LenProperties, ElementOfSeq
<1>2. ASSUME NEW m \in 0 .. Len(s)
      PROVE  /\ DOMAIN SubSeq(s, 1, m) = 1 .. m
             /\ \A i \in 1 .. m : SubSeq(s, 1, m)[i] = s[i]
  <2>1. \A i \in 1 .. m : s[i] \in 1 .. n
    BY <1>1
  <2>2. /\ SubSeq(s, 1, m) \in Seq(1 .. n)
        /\ Len(SubSeq(s, 1, m)) = IF 1 <= m THEN m - 1 + 1 ELSE 0
        /\ \A i \in 1 .. m - 1 + 1 : SubSeq(s, 1, m)[i] = s[1 + i - 1]
    BY <2>1, SubSeqProperties
  <2>3. Len(SubSeq(s, 1, m)) = m
    BY <2>2
  <2>4. \A i \in 1 .. m : SubSeq(s, 1, m)[i] = s[i]
    BY <2>2
  <2>5. DOMAIN SubSeq(s, 1, m) = 1 .. Len(SubSeq(s, 1, m))
    BY <2>2, LenProperties
  <2>. QED
    BY <2>3, <2>4, <2>5
<1>3. ASSUME NEW m \in 0 .. Len(s), NEW T
      PROVE  Cardinality({i \in 1 .. m : s[i] \in T}) = Cardinality(FirstOf(s, m) \cap T)
  <2>. DEFINE S == {i \in 1 .. m : s[i] \in T}
  <2>1. S \in SUBSET (1 .. Len(s)) /\ S \in SUBSET (1 .. m)
    BY <1>1
  <2>2. IsFiniteSet(S)
    <3>1. IsFiniteSet(1 .. Len(s))
      BY <1>1, FS_Interval
    <3>. QED
      BY <2>1, <3>1, FS_Subset
  <2>3. {s[i] : i \in S} = FirstOf(s, m) \cap T
    BY DEF FirstOf
  <2>4. S \subseteq DOMAIN s /\ \A i, j \in S : s[i] = s[j] => i = j
    BY <1>1, <2>1
  <2>. HIDE DEF S
  <2>5. Cardinality({s[i] : i \in S}) = Cardinality(S)
    BY <2>2, <2>4, ImageSize
  <2>. QED
    BY <2>3, <2>5 DEF S
<1>4. ASSUME NEW m \in 0 .. Len(s)
      PROVE  Filter!Recalls(case, SubSeq(s, 1, m), target)
               <=> Enough(case, FirstOf(s, m), target)
  <2>0. /\ \A i \in 1 .. m : s[i] \in 1 .. n
        /\ FirstOf(s, m) \cap required = {k \in FirstOf(s, m) : case.candidates[k].required}
    BY <1>1 DEF FirstOf
  <2>1. {i \in DOMAIN SubSeq(s, 1, m) : case.candidates[SubSeq(s, 1, m)[i]].required}
          = {i \in 1 .. m : s[i] \in required}
    BY <1>2, <2>0
  <2>2. Cardinality({i \in 1 .. m : s[i] \in required}) = Cardinality(FirstOf(s, m) \cap required)
    BY <1>3
  <2>3. Filter!RequiredIn(case, SubSeq(s, 1, m))
          = Cardinality({k \in FirstOf(s, m) : case.candidates[k].required})
    BY <2>0, <2>1, <2>2, SameFilterSums DEF Filter!RequiredIn
  <2>. QED
    BY <2>3 DEF Filter!Recalls, Enough
<1>5. Filter!Recalls(case, s, target) <=> Enough(case, FirstOf(s, Len(s)), target)
  <2>1. SubSeq(s, 1, Len(s)) = s
    BY SubSeqFull
  <2>2. Len(s) \in 0 .. Len(s)
    BY <1>1
  <2>. QED
    BY <1>4, <2>1, <2>2
<1>6. CASE ~Filter!Recalls(case, s, target)
  <2>1. rated = [feasible |-> FALSE, prefix |-> {}, rate |-> {}, penalized |-> <<1, 1>>]
    BY <1>6, Zenon DEF Filter!ScoreFilteredRoute
  <2>. HIDE DEF rated
  <2>2. rated.feasible = FALSE /\ rated.penalized = <<1, 1>>
    BY <2>1
  <2>3. ~Enough(case, FirstOf(s, Len(s)), target)
    BY <1>5, <1>6
  <2>. QED
    BY <2>2, <2>3 DEF rated
<1>7. CASE Filter!Recalls(case, s, target)
  <2>1. Len(s) \in G /\ G \in SUBSET Nat
    <3>1. Len(s) \in 0 .. Len(s)
      BY <1>1
    <3>2. Filter!Recalls(case, SubSeq(s, 1, Len(s)), target)
      BY <1>4, <1>5, <1>7, <3>1
    <3>3. Len(s) \in G
      BY <3>1, <3>2, Zenon
    <3>4. G \in SUBSET (0 .. Len(s))
      BY Zenon
    <3>. HIDE DEF G
    <3>. QED
      BY <3>3, <3>4
  <2>2. length \in G /\ \A k \in G : length <= k
    <3>. HIDE DEF G
    <3>. QED
      BY <2>1, MinIsMember
  <2>3. length \in 0 .. Len(s)
    BY <2>2
  <2>. HIDE DEF length
  <2>4. /\ Enough(case, FirstOf(s, length), target)
        /\ \A k \in 0 .. Len(s) : Enough(case, FirstOf(s, k), target) => length <= k
    BY <1>4, <2>2, <2>3
  <2>. DEFINE statuses == [i \in 1 .. length |-> Filter!Released(case.candidates[s[i]])]
              among == {i \in DOMAIN statuses : statuses[i] \in {"no", "unknown"}}
  <2>5. /\ rated.feasible = TRUE
        /\ rated.penalized = IF length = 0 THEN <<0, 1>> ELSE <<Cardinality(among), length>>
    <3>1. Filter!Min(G) = length
      BY SameFilterSums DEF length
    <3>2. /\ rated.feasible = TRUE
          /\ rated.penalized = IF length = 0 THEN <<0, 1>>
                               ELSE <<Filter!Cardinality(among), length>>
      BY <1>7, <3>1, Zenon DEF Filter!ScoreFilteredRoute
    <3>. QED
      BY <3>2, SameFilterSums
  <2>6. Cardinality(among) = Cardinality(Amiss(case, FirstOf(s, length)))
    <3>0. /\ \A i \in 1 .. length : s[i] \in 1 .. n
          /\ FirstOf(s, length) \cap bad = Amiss(case, FirstOf(s, length))
      BY <1>1, <2>3 DEF FirstOf, Amiss
    <3>1. among = {i \in 1 .. length : s[i] \in bad}
      BY <3>0
    <3>. HIDE DEF bad, among
    <3>2. Cardinality({i \in 1 .. length : s[i] \in bad})
            = Cardinality(FirstOf(s, length) \cap bad)
      BY <1>3, <2>3
    <3>. QED
      BY <3>0, <3>1, <3>2
  <2>7. Enough(case, FirstOf(s, Len(s)), target)
    BY <1>5, <1>7
  <2>. HIDE DEF rated
  <2>. QED
    BY <2>3, <2>4, <2>5, <2>6, <2>7 DEF rated
<1>. QED
  BY <1>6, <1>7

\* Where every anchor is left, deleting what is not admissible from all candidates
\* of a case costs nothing.
LEMMA OracleScores ==
  ASSUME NEW case, Filter!IsCase(case), NEW target,
         \A i \in DOMAIN case.candidates :
           case.candidates[i].required => Filter!Released(case.candidates[i]) # "no"
  PROVE  LET dense == Risk(case, "namespace_dense", target)
             oracle == Risk(case, "released_oracle", target)
         IN  /\ oracle.feasible = dense.feasible
             /\ ~Filter!Less(dense.penalized, oracle.penalized)
<1>. DEFINE n == Len(case.candidates)
            all == [i \in 1 .. n |-> i]
            Status(i) == Filter!Released(case.candidates[i])
            K == {i \in 1 .. n : Status(i) # "no"}
            F == Filtered(all, K)
            Up(p) == Cardinality(K \cap (1 .. p))
            dense == Risk(case, "namespace_dense", target)
            oracle == Risk(case, "released_oracle", target)
<1>1. n \in Nat /\ DOMAIN case.candidates = 1 .. n
  <2>1. case.candidates \in Seq(Filter!Candidates)
    BY DEF Filter!IsCase
  <2>. QED
    BY <2>1, LenProperties
<1>. HIDE DEF n
<1>2. /\ dense = Filter!ScoreFilteredRoute(case, all, target)
      /\ oracle = Filter!ScoreFilteredRoute(case, F, target)
  <2>1. Filter!Keys(case) = all
    BY <1>1 DEF Filter!Keys
  <2>2. {i \in DOMAIN case.candidates : Filter!OracleKeeps(case.candidates[i])} = K
    BY <1>1 DEF Filter!OracleKeeps
  <2>3. /\ Filter!RouteKeys(case, "namespace_dense", <<>>, Filter!RetainAll)
             = Filter!Keys(case)
        /\ Filter!RouteKeys(case, "released_oracle", <<>>, Filter!RetainAll)
             = Filter!Filtered(Filter!Keys(case),
                 {i \in DOMAIN case.candidates :
                    Filter!OracleKeeps(case.candidates[i])})
    BY DEF Filter!RouteKeys
  <2>. HIDE DEF K, all
  <2>. QED
    BY <2>1, <2>2, <2>3, SameFilterSums DEF Risk
<1>3. /\ all \in Seq(1 .. n) /\ Len(all) = n
      /\ \A i, j \in 1 .. Len(all) : all[i] = all[j] => i = j
      /\ \A m \in 0 .. n : FirstOf(all, m) = 1 .. m
  <2>1. \A T : \A m \in Nat : [1 .. m -> T] \subseteq Seq(T)
    BY SeqDef, Zenon
  <2>2. all \in Seq(1 .. n)
    BY <1>1, <2>1
  <2>3. Len(all) = n
    BY <1>1
  <2>4. ASSUME NEW m \in 0 .. n
        PROVE  FirstOf(all, m) = 1 .. m
    <3>1. \A i \in 1 .. m : all[i] = i
      BY <1>1
    <3>. HIDE DEF all
    <3>. QED
      BY <3>1 DEF FirstOf
  <2>5. \A i, j \in 1 .. n : all[i] = all[j] => i = j
    OBVIOUS
  <2>. HIDE DEF all
  <2>. QED
    BY <2>2, <2>3, <2>4, <2>5
<1>4. /\ K \in SUBSET (1 .. n) /\ F \in Seq(1 .. n) /\ Len(F) = Up(n)
      /\ \A i, j \in 1 .. Len(F) : F[i] = F[j] => i = j
      /\ \A p \in 0 .. n : Up(p) \in 0 .. Len(F) /\ FirstOf(F, Up(p)) = K \cap (1 .. p)
      /\ \A m \in 1 .. Len(F) : F[m] \in 1 .. n /\ Up(F[m]) = m
      /\ \A p, q \in 0 .. n : p <= q => Up(p) <= Up(q)
  <2>1. K \in SUBSET (1 .. n)
    OBVIOUS
  <2>. HIDE DEF K
  <2>. QED
    BY <1>1, <2>1, FilteredPrefixes, Zenon DEF FirstOf
<1>5. ASSUME NEW p \in 0 .. n
      PROVE  Enough(case, FirstOf(F, Up(p)), target) <=> Enough(case, 1 .. p, target)
  <2>1. {k \in K \cap (1 .. p) : case.candidates[k].required}
          = {k \in 1 .. p : case.candidates[k].required}
    BY <1>1
  <2>. HIDE DEF K
  <2>2. FirstOf(F, Up(p)) = K \cap (1 .. p)
    BY <1>4
  <2>. QED
    BY <2>1, <2>2 DEF Enough
<1>6. /\ dense.feasible \in BOOLEAN
      /\ dense.feasible <=> Enough(case, 1 .. n, target)
      /\ ~dense.feasible => dense.penalized = <<1, 1>>
      /\ dense.feasible =>
           \E m \in 0 .. n :
             /\ Enough(case, 1 .. m, target)
             /\ \A k \in 0 .. n : Enough(case, 1 .. k, target) => m <= k
             /\ dense.penalized = IF m = 0 THEN <<0, 1>>
                                  ELSE <<Cardinality(Amiss(case, 1 .. m)), m>>
  <2>. HIDE DEF all
  <2>1. LET rated == Filter!ScoreFilteredRoute(case, all, target)
        IN  /\ rated.feasible \in BOOLEAN
            /\ rated.feasible <=> Enough(case, FirstOf(all, n), target)
            /\ ~rated.feasible => rated.penalized = <<1, 1>>
            /\ rated.feasible =>
                 \E m \in 0 .. n :
                   /\ Enough(case, FirstOf(all, m), target)
                   /\ \A k \in 0 .. n : Enough(case, FirstOf(all, k), target) => m <= k
                   /\ rated.penalized =
                        IF m = 0 THEN <<0, 1>>
                        ELSE <<Cardinality(Amiss(case, FirstOf(all, m))), m>>
    BY <1>1, <1>3, PrefixScores
  <2>2. n \in 0 .. n
    BY <1>1
  <2>. HIDE DEF dense
  <2>. QED
    BY <1>2, <1>3, <2>1, <2>2
<1>7. /\ oracle.feasible \in BOOLEAN
      /\ oracle.feasible <=> Enough(case, FirstOf(F, Len(F)), target)
      /\ ~oracle.feasible => oracle.penalized = <<1, 1>>
      /\ oracle.feasible =>
           \E m \in 0 .. Len(F) :
             /\ Enough(case, FirstOf(F, m), target)
             /\ \A k \in 0 .. Len(F) : Enough(case, FirstOf(F, k), target) => m <= k
             /\ oracle.penalized = IF m = 0 THEN <<0, 1>>
                                   ELSE <<Cardinality(Amiss(case, FirstOf(F, m))), m>>
  <2>. HIDE DEF F, oracle
  <2>. QED
    BY <1>1, <1>2, <1>4, PrefixScores
<1>. HIDE DEF dense, oracle, F
<1>8. oracle.feasible = dense.feasible
  <2>1. n \in 0 .. n
    BY <1>1
  <2>. QED
    BY <1>4, <1>5, <1>6, <1>7, <2>1
<1>. SUFFICES ~Filter!Less(dense.penalized, oracle.penalized)
  BY <1>8 DEF dense, oracle
<1>9. CASE ~dense.feasible
  BY <1>6, <1>7, <1>8, <1>9 DEF Filter!Less
<1>10. CASE dense.feasible
  <2>1. PICK d \in 0 .. n :
          /\ Enough(case, 1 .. d, target)
          /\ \A k \in 0 .. n : Enough(case, 1 .. k, target) => d <= k
          /\ dense.penalized = IF d = 0 THEN <<0, 1>>
                               ELSE <<Cardinality(Amiss(case, 1 .. d)), d>>
    BY <1>6, <1>10
  <2>2. PICK o \in 0 .. Len(F) :
          /\ Enough(case, FirstOf(F, o), target)
          /\ \A k \in 0 .. Len(F) : Enough(case, FirstOf(F, k), target) => o <= k
          /\ oracle.penalized = IF o = 0 THEN <<0, 1>>
                                ELSE <<Cardinality(Amiss(case, FirstOf(F, o))), o>>
    BY <1>7, <1>8, <1>10
  <2>3. Len(F) \in Nat /\ Up(d) \in 0 .. Len(F) /\ Up(d) \in Nat
    BY <1>4, LenProperties
  <2>4. o <= Up(d)
    BY <1>5, <2>1, <2>2, <2>3
  <2>5. CASE o = 0
    <3>1. Enough(case, 1 .. 0, target)
      <4>1. FirstOf(F, 0) = 1 .. 0
        BY DEF FirstOf
      <4>. QED
        BY <2>2, <2>5, <4>1
    <3>2. d = 0
      <4>1. 0 \in 0 .. n
        BY <1>1
      <4>. QED
        BY <2>1, <3>1, <4>1
    <3>3. dense.penalized = <<0, 1>> /\ oracle.penalized = <<0, 1>>
      BY <2>1, <2>2, <2>5, <3>2
    <3>. QED
      BY <3>3 DEF Filter!Less
  <2>6. CASE o # 0
    <3>1. o \in 1 .. Len(F) /\ F[o] \in 1 .. n /\ F[o] \in 0 .. n /\ Up(F[o]) = o
      <4>1. o \in 1 .. Len(F)
        BY <2>3, <2>6
      <4>. QED
        BY <1>1, <1>4, <4>1
    <3>. HIDE DEF Up
    <3>2. Enough(case, 1 .. F[o], target)
      BY <1>5, <2>2, <3>1
    <3>3. d <= F[o]
      BY <2>1, <3>1, <3>2
    <3>4. Up(d) <= o
      BY <1>4, <3>1, <3>3
    <3>5. Up(d) = o /\ o \in Nat
      BY <2>3, <2>4, <3>4
    <3>6. FirstOf(F, o) = K \cap (1 .. d)
      BY <1>4, <3>5
    <3>7. d # 0
      <4>1. ASSUME d = 0
            PROVE  FALSE
        <5>1. K \cap (1 .. 0) = {} /\ Cardinality({}) = 0
          BY FS_EmptySet
        <5>. QED
          BY <2>6, <3>5, <4>1, <5>1 DEF Up
      <4>. QED
        BY <4>1
    <3>. DEFINE D == Amiss(case, 1 .. d)
                O == Amiss(case, K \cap (1 .. d))
                R == (1 .. d) \ K
    <3>8. /\ D = O \cup R /\ O \cap R = {} /\ O \in SUBSET (K \cap (1 .. d))
          /\ 1 .. d = (K \cap (1 .. d)) \cup R /\ (K \cap (1 .. d)) \cap R = {}
      <4>1. \A k \in 1 .. d : k \in 1 .. n
        BY <1>1
      <4>2. \A k \in 1 .. d : k \notin K <=> Status(k) = "no"
        BY <4>1
      <4>. HIDE DEF K
      <4>3. D = O \cup R
        BY <4>2 DEF Amiss
      <4>4. O \in SUBSET (K \cap (1 .. d))
        BY DEF Amiss
      <4>. HIDE DEF O, D
      <4>. QED
        BY <4>3, <4>4
    <3>9. IsFiniteSet(1 .. d) /\ Cardinality(1 .. d) = d
      BY FS_Interval
    <3>. HIDE DEF D, O, R, K
    <3>10. IsFiniteSet(K \cap (1 .. d)) /\ IsFiniteSet(R) /\ IsFiniteSet(O)
      <4>1. K \cap (1 .. d) \in SUBSET (1 .. d) /\ R \in SUBSET (1 .. d)
        BY DEF R
      <4>2. IsFiniteSet(K \cap (1 .. d)) /\ IsFiniteSet(R)
        BY <3>9, <4>1, FS_Subset
      <4>. QED
        BY <3>8, <4>2, FS_Subset
    <3>11. /\ Cardinality(O) <= o /\ Cardinality(O) \in Nat
           /\ Cardinality(R) \in Nat
           /\ Cardinality(D) = Cardinality(O) + Cardinality(R)
           /\ d = o + Cardinality(R)
      <4>1. Cardinality(K \cap (1 .. d)) = o
        BY <3>5 DEF Up
      <4>2. Cardinality(O) <= Cardinality(K \cap (1 .. d))
        BY <3>8, <3>10, FS_Subset
      <4>3. Cardinality(O \cup R) = Cardinality(O) + Cardinality(R)
        BY <3>8, <3>10, DisjointSizes
      <4>4. Cardinality((K \cap (1 .. d)) \cup R) = Cardinality(K \cap (1 .. d)) + Cardinality(R)
        BY <3>8, <3>10, DisjointSizes
      <4>5. Cardinality(O) \in Nat /\ Cardinality(R) \in Nat
        BY <3>10, FS_CardinalityType
      <4>6. Cardinality(D) = Cardinality(O) + Cardinality(R)
        BY <3>8, <4>3
      <4>7. Cardinality(1 .. d) = o + Cardinality(R)
        BY <3>8, <4>1, <4>4
      <4>. QED
        BY <3>9, <4>1, <4>2, <4>5, <4>6, <4>7
    <3>12. /\ dense.penalized = <<Cardinality(D), d>>
           /\ oracle.penalized = <<Cardinality(O), o>>
      BY <2>1, <2>2, <2>6, <3>6, <3>7 DEF D, O
    <3>13. \A a, r, b \in Nat : a <= b => ~((a + r) * b < a * (b + r))
      <4>. SUFFICES ASSUME NEW a \in Nat, NEW r \in Nat, NEW b \in Nat, a <= b
                    PROVE  a * (b + r) <= (a + r) * b
        OBVIOUS
      <4>1. a * (b + r) = a * b + a * r /\ (a + r) * b = a * b + r * b
        OBVIOUS
      <4>2. a * r <= r * b
        OBVIOUS
      <4>. QED
        BY <4>1, <4>2
    <3>14. ~(Cardinality(D) * o < Cardinality(O) * d)
      BY <3>5, <3>11, <3>13
    <3>. QED
      BY <3>12, <3>14 DEF Filter!Less
  <2>. QED
    BY <2>5, <2>6
<1>. QED
  BY <1>9, <1>10

-----------------------------------------------------------------------------
(* The contracts: filters *)

\* A point of the grid with its counts.
IsTried(t) ==
  /\ t.caught \in Nat /\ t.known \in Nat /\ t.denied \in Nat
  /\ Filter!Max(t.setting.violation) \in Int
  /\ t.setting.unknown # {} => Filter!Max(t.setting.unknown) \in Int

\* Of finitely many points one is outdone by none.
LEMMA SomeIsBest ==
  ASSUME NEW S, IsFiniteSet(S), S # {}, \A t \in S : IsTried(t), Unit \in Nat
  PROVE  \E t \in S : \A s \in S : ~Filter!Outdone(t, s)
<1>. DEFINE Ob(t) == Filter!Objective(t)
            p == [k \in 1 .. 5 |-> [t \in S |-> Ob(t)[k][1]]]
            q == [k \in 1 .. 5 |-> [t \in S |-> Ob(t)[k][2]]]
            Best(k, T, U) ==
              \A x \in T, y \in U : /\ ~(p[k][x] * q[k][y] < p[k][y] * q[k][x])
                                    /\ p[k][x] * q[k][y] = p[k][y] * q[k][x] => y \in T
<1>1. \A t \in S : /\ DOMAIN Ob(t) = 1 .. 5
                   /\ Ob(t)[1] = <<t.caught, 1>>
                   /\ Ob(t)[2] = IF t.known = 0 THEN <<-1, 1>> ELSE <<t.caught, t.known>>
                   /\ Ob(t)[3] = <<-t.denied, 1>>
                   /\ Ob(t)[4] = <<Filter!Max(t.setting.violation), 1>>
                   /\ Ob(t)[5] = <<-(IF t.setting.unknown = {} THEN Unit
                                     ELSE Filter!Max(t.setting.unknown)), 1>>
  BY DEF Filter!Objective
<1>. HIDE DEF Ob
<1>2. ASSUME NEW t \in S, NEW k \in 1 .. 5
      PROVE  p[k][t] \in Int /\ q[k][t] \in Nat \ {0}
  <2>1. /\ t.caught \in Nat /\ t.known \in Nat /\ t.denied \in Nat
        /\ Filter!Max(t.setting.violation) \in Int
        /\ t.setting.unknown # {} => Filter!Max(t.setting.unknown) \in Int
    BY DEF IsTried
  <2>. DEFINE last == IF t.setting.unknown = {} THEN Unit
                      ELSE Filter!Max(t.setting.unknown)
              o == Ob(t)
  <2>2. last \in Int
    BY <2>1
  <2>. HIDE DEF last
  <2>3. /\ o[1] = <<t.caught, 1>>
        /\ o[2] = IF t.known = 0 THEN <<-1, 1>> ELSE <<t.caught, t.known>>
        /\ o[3] = <<-t.denied, 1>>
        /\ o[4] = <<Filter!Max(t.setting.violation), 1>>
        /\ o[5] = <<-last, 1>>
    BY <1>1 DEF last
  <2>4. p[k][t] = o[k][1] /\ q[k][t] = o[k][2]
    OBVIOUS
  <2>. HIDE DEF p, q, o
  <2>5. o[1][1] \in Int /\ o[1][2] \in Nat \ {0}
    BY <2>1, <2>3
  <2>6. o[2][1] \in Int /\ o[2][2] \in Nat \ {0}
    BY <2>1, <2>3
  <2>7. o[3][1] \in Int /\ o[3][2] \in Nat \ {0}
    BY <2>1, <2>3
  <2>8. o[4][1] \in Int /\ o[4][2] \in Nat \ {0}
    BY <2>1, <2>3
  <2>9. o[5][1] \in Int /\ o[5][2] \in Nat \ {0}
    BY <2>2, <2>3
  <2>10. k = 1 \/ k = 2 \/ k = 3 \/ k = 4 \/ k = 5
    OBVIOUS
  <2>. QED
    BY <2>4, <2>5, <2>6, <2>7, <2>8, <2>9, <2>10
<1>3. \A x \in S, y \in S, k \in 1 .. 5 :
        /\ Filter!Less(Ob(x)[k], Ob(y)[k]) <=> p[k][x] * q[k][y] < p[k][y] * q[k][x]
        /\ Filter!Equal(Ob(x)[k], Ob(y)[k]) <=> p[k][x] * q[k][y] = p[k][y] * q[k][x]
  BY DEF Filter!Less, Filter!Equal
<1>. HIDE DEF p, q
<1>4. ASSUME NEW k \in 1 .. 5, NEW U \in SUBSET S, U # {}
      PROVE  \E T \in SUBSET U : T # {} /\ Best(k, T, U)
  <2>1. IsFiniteSet(U) /\ \A x \in U : p[k][x] \in Int /\ q[k][x] \in Nat \ {0}
    BY <1>2, FS_Subset
  <2>. DEFINE a == p[k]
              b == q[k]
  <2>2. \A x \in U : a[x] \in Int /\ b[x] \in Nat \ {0}
    BY <2>1
  <2>. HIDE DEF a, b
  <2>3. PICK T \in SUBSET U :
          /\ T # {}
          /\ \A x \in T, y \in U : /\ ~(a[x] * b[y] < a[y] * b[x])
                                   /\ a[x] * b[y] = a[y] * b[x] => y \in T
    BY <1>4, <2>1, <2>2, GreatestFractions
  <2>. QED
    BY <2>3 DEF a, b
<1>. HIDE DEF Best
<1>5. PICK T1 \in SUBSET S : T1 # {} /\ Best(1, T1, S)
  BY <1>4
<1>6. PICK T2 \in SUBSET T1 : T2 # {} /\ Best(2, T2, T1)
  <2>1. T1 \in SUBSET S /\ 2 \in 1 .. 5
    OBVIOUS
  <2>. QED
    BY <1>4, <1>5, <2>1
<1>7. PICK T3 \in SUBSET T2 : T3 # {} /\ Best(3, T3, T2)
  <2>1. T2 \in SUBSET S /\ 3 \in 1 .. 5
    OBVIOUS
  <2>. QED
    BY <1>4, <1>6, <2>1
<1>8. PICK T4 \in SUBSET T3 : T4 # {} /\ Best(4, T4, T3)
  <2>1. T3 \in SUBSET S /\ 4 \in 1 .. 5
    OBVIOUS
  <2>. QED
    BY <1>4, <1>7, <2>1
<1>9. PICK T5 \in SUBSET T4 : T5 # {} /\ Best(5, T5, T4)
  <2>1. T4 \in SUBSET S /\ 5 \in 1 .. 5
    OBVIOUS
  <2>. QED
    BY <1>4, <1>8, <2>1
<1>10. PICK t \in T5 : t \in T4 /\ t \in T3 /\ t \in T2 /\ t \in T1 /\ t \in S
  BY <1>5, <1>6, <1>7, <1>8, <1>9
<1>11. ASSUME NEW s \in S, Filter!Outdone(t, s)
       PROVE  FALSE
  <2>. DEFINE Under(k) == p[k][t] * q[k][s] < p[k][s] * q[k][t]
              Same(k) == p[k][t] * q[k][s] = p[k][s] * q[k][t]
  <2>1. PICK k \in 1 .. 5 : Under(k) /\ \A j \in 1 .. k - 1 : Same(j)
    <3>1. PICK k \in DOMAIN Ob(t) :
            /\ Filter!Less(Ob(t)[k], Ob(s)[k])
            /\ \A j \in 1 .. k - 1 : Filter!Equal(Ob(t)[j], Ob(s)[j])
      BY <1>11, Zenon DEF Filter!Outdone, Filter!Before, Ob
    <3>2. k \in 1 .. 5
      BY <1>1, <1>10, <3>1
    <3>3. \A j \in 1 .. k - 1 : j \in 1 .. 5
      BY <3>2
    <3>. QED
      BY <1>3, <1>10, <3>1, <3>2, <3>3
  <2>2. ~Under(1) /\ (Same(1) => s \in T1)
    BY <1>5, <1>10 DEF Best
  <2>3. s \in T1 => ~Under(2) /\ (Same(2) => s \in T2)
    BY <1>6, <1>10 DEF Best
  <2>4. s \in T2 => ~Under(3) /\ (Same(3) => s \in T3)
    BY <1>7, <1>10 DEF Best
  <2>5. s \in T3 => ~Under(4) /\ (Same(4) => s \in T4)
    BY <1>8, <1>10 DEF Best
  <2>6. s \in T4 => ~Under(5)
    BY <1>9, <1>10 DEF Best
  <2>. HIDE DEF Under, Same
  <2>7. k # 1 => Same(1)
    BY <2>1
  <2>8. k \notin 1 .. 2 => Same(2)
    BY <2>1
  <2>9. k \notin 1 .. 3 => Same(3)
    BY <2>1
  <2>10. k = 5 => Same(4)
    BY <2>1
  <2>11. k = 1 \/ k = 2 \/ k = 3 \/ k = 4 \/ k = 5
    OBVIOUS
  <2>12. k # 1
    BY <2>1, <2>2
  <2>13. k # 2
    BY <2>1, <2>2, <2>3, <2>7
  <2>14. k # 3
    BY <2>1, <2>2, <2>3, <2>4, <2>7, <2>8
  <2>15. k # 4
    BY <2>1, <2>2, <2>3, <2>4, <2>5, <2>7, <2>8, <2>9
  <2>16. k # 5
    BY <2>1, <2>2, <2>3, <2>4, <2>5, <2>6, <2>7, <2>8, <2>9, <2>10
  <2>. QED
    BY <2>11, <2>12, <2>13, <2>14, <2>15, <2>16
<1>. QED
  BY <1>10, <1>11

\* The candidates of the calibration cases are finitely many.
LEMMA CandidatesFinite ==
  ASSUME NEW cases, Filter!Calibrates(cases)
  PROVE  /\ IsFiniteSet(Filter!All(cases))
         /\ \A c \in DOMAIN cases :
              /\ Len(cases[c].candidates) \in Nat
              /\ DOMAIN cases[c].candidates = 1 .. Len(cases[c].candidates)
<1>. DEFINE roles == [c \in DOMAIN cases |-> cases[c].role]
            of == [c \in DOMAIN cases |-> {c} \X DOMAIN cases[c].candidates]
<1>1. IsFiniteSet(DOMAIN cases)
  <2>1. roles \in Seq({"calibration"}) /\ DOMAIN roles = DOMAIN cases
    BY DEF Filter!Calibrates
  <2>. HIDE DEF roles
  <2>. QED
    BY <2>1, LenProperties, FS_Interval
<1>2. ASSUME NEW c \in DOMAIN cases
      PROVE  /\ Len(cases[c].candidates) \in Nat
             /\ DOMAIN cases[c].candidates = 1 .. Len(cases[c].candidates)
  <2>1. cases[c].candidates \in Seq(Filter!Candidates)
    BY DEF Filter!Calibrates, Filter!IsCase
  <2>. QED
    BY <2>1, LenProperties
<1>3. ASSUME NEW c \in DOMAIN cases
      PROVE  IsFiniteSet(of[c])
  <2>1. IsFiniteSet({c}) /\ IsFiniteSet(DOMAIN cases[c].candidates)
    <3>. DEFINE m == Len(cases[c].candidates)
    <3>1. m \in Nat /\ DOMAIN cases[c].candidates = 1 .. m
      BY <1>2
    <3>. HIDE DEF m
    <3>2. IsFiniteSet(1 .. m)
      BY <3>1, FS_Interval
    <3>. QED
      BY <3>1, <3>2, FS_Singleton
  <2>2. IsFiniteSet({c} \X DOMAIN cases[c].candidates)
    BY <2>1, FS_Product, Zenon
  <2>. QED
    BY <2>2
<1>4. DOMAIN of = DOMAIN cases
  OBVIOUS
<1>5. Filter!All(cases) = UNION {of[c] : c \in DOMAIN of}
  BY DEF Filter!All
<1>. HIDE DEF of
<1>6. IsFiniteSet({of[c] : c \in DOMAIN of})
  BY <1>1, <1>4, ImagesFinite
<1>7. IsFiniteSet(UNION {of[c] : c \in DOMAIN of})
  BY <1>3, <1>4, <1>6, FS_UNION
<1>. QED
  BY <1>2, <1>5, <1>7

\* A parsed answer says of a candidate what is found at the place of the candidate.
LEMMA SaidInPlace ==
  ASSUME NEW s, Filter!Calibrates(s.cases), Parsed(s), NEW setting
  PROVE  SaidDrops(s, setting)
           = Filter!Dropped(s.cases, s.responses, setting)
<1>1. ASSUME NEW at \in Filter!All(s.cases)
      PROVE  Said(s.responses[at[1]], at[2]) = at[2]
  <2>. DEFINE c == at[1]
              k == at[2]
              response == s.responses[c]
              n == Len(s.cases[c].candidates)
  <2>1. c \in DOMAIN s.cases /\ k \in DOMAIN s.cases[c].candidates
    BY DEF Filter!All
  <2>2. n \in Nat /\ k \in 1 .. n
    BY <2>1, CandidatesFinite
  <2>3. Filter!InOrder(response, n)
    BY <2>1 DEF Parsed, Filter!IsResponse
  <2>. HIDE DEF c, k, response, n
  <2>4. DOMAIN response = 1 .. n /\ \A i \in 1 .. n : response[i].key = i
    <3>. DEFINE left == [i \in DOMAIN response |-> response[i].key]
                right == [i \in 1 .. n |-> i]
    <3>1. left = right
      BY <2>3 DEF Filter!InOrder
    <3>2. DOMAIN left = DOMAIN response /\ DOMAIN right = 1 .. n
      OBVIOUS
    <3>3. DOMAIN response = 1 .. n
      BY <3>1, <3>2
    <3>4. \A i \in 1 .. n : left[i] = response[i].key /\ right[i] = i
      BY <3>3
    <3>. HIDE DEF left, right
    <3>. QED
      BY <3>1, <3>3, <3>4
  <2>5. Said(response, k) = k
    BY <2>2, <2>4 DEF Said
  <2>. QED
    BY <2>5 DEF c, k, response
<1>2. \A at \in Filter!All(s.cases) :
        s.responses[at[1]][Said(s.responses[at[1]], at[2])]
          = Filter!Prediction(s.responses, at)
  BY <1>1 DEF Filter!Prediction
<1>. QED
  BY <1>2, Zenon DEF SaidDrops, Filter!Dropped

\* What a setting drops, and of it what is known, required or inadmissible.
LEMMA DroppedSizes ==
  ASSUME NEW cases, Filter!Calibrates(cases), NEW responses, NEW setting
  PROVE  LET dropped == Filter!Dropped(cases, responses, setting)
             tried == Filter!Tried(cases, responses, setting)
         IN  /\ tried.setting = setting
             /\ tried.caught = Cardinality(dropped \cap Filter!Violations(cases))
             /\ tried.denied = Cardinality(dropped \cap Filter!Required(cases))
             /\ tried.caught \in Nat /\ tried.denied \in Nat /\ tried.known \in Nat
             /\ Cardinality(dropped)
                  = Cardinality(dropped \cap Filter!Known(cases)) + tried.unresolved
             /\ Cardinality(Filter!Required(cases)) \in Nat
<1>. DEFINE all == Filter!All(cases)
            dropped == Filter!Dropped(cases, responses, setting)
            tried == Filter!Tried(cases, responses, setting)
            known == Filter!Known(cases)
            required == Filter!Required(cases)
            violations == Filter!Violations(cases)
<1>1. /\ tried.setting = setting
      /\ tried.caught = Filter!Cardinality(dropped \cap violations)
      /\ tried.known = Filter!Cardinality(dropped \cap known)
      /\ tried.denied = Filter!Cardinality(dropped \cap required)
      /\ tried.unresolved = Filter!Cardinality(dropped \ known)
  BY DEF Filter!Tried
<1>2. dropped \in SUBSET all /\ required \in SUBSET all
  BY DEF Filter!Dropped, Filter!Required
<1>3. IsFiniteSet(all)
  BY CandidatesFinite
<1>. HIDE DEF all, dropped, tried, known, required, violations
<1>4. IsFiniteSet(dropped) /\ IsFiniteSet(required)
  BY <1>2, <1>3, FS_Subset
<1>5. \A T : IsFiniteSet(dropped \cap T) /\ IsFiniteSet(dropped \ T)
  <2>. SUFFICES ASSUME NEW T PROVE IsFiniteSet(dropped \cap T) /\ IsFiniteSet(dropped \ T)
    OBVIOUS
  <2>1. dropped \cap T \in SUBSET dropped /\ dropped \ T \in SUBSET dropped
    OBVIOUS
  <2>. QED
    BY <1>4, <2>1, FS_Subset
<1>6. \A T : Cardinality(dropped \cap T) \in Nat
  BY <1>5, FS_CardinalityType
<1>7. Cardinality(dropped) = Cardinality(dropped \cap known) + Cardinality(dropped \ known)
  <2>1. dropped = (dropped \cap known) \cup (dropped \ known)
    OBVIOUS
  <2>2. (dropped \cap known) \cap (dropped \ known) = {}
    OBVIOUS
  <2>3. Cardinality((dropped \cap known) \cup (dropped \ known))
          = Cardinality(dropped \cap known) + Cardinality(dropped \ known)
    BY <1>5, <2>2, DisjointSizes
  <2>. QED
    BY <2>1, <2>3
<1>8. Cardinality(required) \in Nat
  BY <1>4, FS_CardinalityType
<1>. QED
  BY <1>1, <1>6, <1>7, <1>8, SameFilterSums DEF dropped, tried, known, required, violations

\* What S holds are points of the grid.
ArePoints(S, cases, responses, violations, unknowns) ==
  \A t \in S : \E v \in violations, u \in unknowns :
    t = Filter!Tried(cases, responses, [violation |-> {v}, unknown |-> u])

\* Points of a grid are finitely many.
LEMMA PointsFinite ==
  ASSUME NEW cases, Filter!Calibrates(cases), NEW responses, NEW violations,
         NEW unknowns, NEW bound, Filter!IsGrid(violations, unknowns, bound),
         Unit \in Nat,
         NEW S, ArePoints(S, cases, responses, violations, unknowns)
  PROVE  IsFiniteSet(S) /\ \A t \in S : IsTried(t)
<1>. DEFINE unit == Unit
            setting(v, u) == [violation |-> {v}, unknown |-> u]
            point(v, u) == Filter!Tried(cases, responses, setting(v, u))
            pairs == violations \X unknowns
            at == [g \in pairs |-> point(g[1], g[2])]
<1>1. /\ violations \in SUBSET (0 .. unit)
      /\ \A u \in unknowns : u \in SUBSET (0 .. unit)
  BY DEF Filter!IsGrid
<1>2. IsFiniteSet(0 .. unit) /\ unit \in Nat
  BY FS_Interval
<1>. HIDE DEF unit
<1>3. IsFiniteSet(violations) /\ IsFiniteSet(unknowns)
  <2>1. IsFiniteSet(SUBSET (0 .. unit))
    BY <1>2, FS_SUBSET
  <2>2. unknowns \in SUBSET (SUBSET (0 .. unit))
    BY <1>1
  <2>. QED
    BY <1>1, <1>2, <2>1, <2>2, FS_Subset
<1>4. IsFiniteSet(S)
  <2>1. IsFiniteSet(pairs)
    BY <1>3, FS_Product, Zenon
  <2>2. DOMAIN at = pairs /\ \A v \in violations, u \in unknowns :
                             <<v, u>> \in pairs /\ at[<<v, u>>] = point(v, u)
    OBVIOUS
  <2>3. \A t \in S : \E v \in violations, u \in unknowns : t = point(v, u)
    BY DEF ArePoints
  <2>. HIDE DEF at, pairs, point
  <2>4. S \in SUBSET {at[g] : g \in DOMAIN at}
    BY <2>2, <2>3
  <2>5. IsFiniteSet({at[g] : g \in DOMAIN at})
    BY <2>1, <2>2, ImagesFinite
  <2>. QED
    BY <2>4, <2>5, FS_Subset
<1>5. \A T : Filter!Max(T) = Max(T)
  BY DEF Filter!Max, Max
<1>6. ASSUME NEW T \in SUBSET (0 .. unit), T # {}
      PROVE  Filter!Max(T) \in Int
  <2>1. T \in SUBSET Nat
    BY <1>2
  <2>2. IsFiniteSet(T)
    BY <1>2, FS_Subset
  <2>3. Max(T) \in T
    BY <1>6, <2>1, <2>2, MaxIsMember
  <2>4. Filter!Max(T) \in T
    BY <1>5, <2>3
  <2>5. \A x \in T : x \in Int
    BY <2>1
  <2>. QED
    BY <2>4, <2>5, Zenon
<1>7. ASSUME NEW v \in violations, NEW u \in unknowns
      PROVE  IsTried(point(v, u))
  <2>. DEFINE t == Filter!Tried(cases, responses, setting(v, u))
  <2>1. setting(v, u).violation = {v} /\ setting(v, u).unknown = u
    OBVIOUS
  <2>. HIDE DEF setting
  <2>2. t.setting = setting(v, u)
    BY DEF Filter!Tried
  <2>3. t.caught \in Nat
    BY DroppedSizes, Zenon
  <2>4. t.denied \in Nat
    BY DroppedSizes, Zenon
  <2>5. t.known \in Nat
    BY DroppedSizes, Zenon
  <2>. HIDE DEF t
  <2>6. {v} \in SUBSET (0 .. unit) /\ {v} # {}
    BY <1>1
  <2>7. u \in SUBSET (0 .. unit)
    BY <1>1
  <2>8. Filter!Max({v}) \in Int /\ (u # {} => Filter!Max(u) \in Int)
    BY <1>6, <2>6, <2>7
  <2>9. IsTried(t)
    BY <2>1, <2>2, <2>3, <2>4, <2>5, <2>8 DEF IsTried
  <2>. QED
    BY <2>9 DEF t
<1>8. \A t \in S : \E v \in violations, u \in unknowns : t = point(v, u)
  BY DEF ArePoints
<1>. HIDE DEF point
<1>. QED
  BY <1>4, <1>7, <1>8

\* What is selected keeps the bound and catches no less than what else does; only if
\* nothing does is everything retained.
LEMMA SelectedIsBest ==
  ASSUME NEW cases, Filter!Calibrates(cases), NEW responses, NEW violations,
         NEW unknowns, NEW bound, Filter!IsGrid(violations, unknowns, bound),
         Unit \in Nat
  PROVE  LET point(v, u) == Filter!Tried(cases, responses,
                              [violation |-> {v}, unknown |-> u])
             Keeps(t) == Filter!Preserves(t, cases, bound)
             chosen == Filter!SelectFilterSetting(cases, responses, violations,
                                                            unknowns, bound)
         IN  \/ /\ chosen.setting = Filter!RetainAll
                /\ chosen.caught = 0 /\ chosen.unresolved = 0
                /\ \A v \in violations, u \in unknowns : ~Keeps(point(v, u))
             \/ \E v \in violations, u \in unknowns :
                  /\ chosen = point(v, u) /\ Keeps(chosen)
                  /\ \A w \in violations, x \in unknowns :
                       Keeps(point(w, x)) => point(w, x).caught <= chosen.caught
<1>. DEFINE point(v, u) == Filter!Tried(cases, responses,
                             [violation |-> {v}, unknown |-> u])
            Keeps(t) == Filter!Preserves(t, cases, bound)
            chosen == Filter!SelectFilterSetting(cases, responses, violations,
                                                           unknowns, bound)
            grid == {[violation |-> {v}, unknown |-> u] : v \in violations, u \in unknowns}
            feasible == {t \in {Filter!Tried(cases, responses, g) : g \in grid} :
                           Keeps(t)}
            none == [setting |-> Filter!RetainAll, caught |-> 0, known |-> 0,
                     denied |-> 0, unresolved |-> 0]
<1>0. \A w \in violations, x \in unknowns : [violation |-> {w}, unknown |-> x] \in grid
  BY SMT
<1>1. chosen = IF feasible = {} THEN none
               ELSE CHOOSE t \in feasible : \A s \in feasible : ~Filter!Outdone(t, s)
  BY DEF Filter!SelectFilterSetting
<1>2. ASSUME NEW t \in feasible
      PROVE  Keeps(t) /\ \E v \in violations, u \in unknowns : t = point(v, u)
  <2>1. PICK g \in grid : t = Filter!Tried(cases, responses, g)
    OBVIOUS
  <2>2. PICK v \in violations, u \in unknowns : g = [violation |-> {v}, unknown |-> u]
    OBVIOUS
  <2>3. Keeps(t)
    OBVIOUS
  <2>4. t = point(v, u)
    BY <2>1, <2>2
  <2>. HIDE DEF point, Keeps
  <2>. QED
    BY <2>3, <2>4
<1>3. ASSUME NEW w \in violations, NEW x \in unknowns, Keeps(point(w, x))
      PROVE  point(w, x) \in feasible
  <2>. DEFINE g == [violation |-> {w}, unknown |-> x]
  <2>. HIDE DEF grid
  <2>1. g \in grid
    BY <1>0
  <2>2. Keeps(Filter!Tried(cases, responses, g))
    BY <1>3
  <2>. HIDE DEF g, Keeps
  <2>3. Filter!Tried(cases, responses, g) \in feasible
    BY <2>1, <2>2
  <2>. QED
    BY <2>3 DEF g
<1>. HIDE DEF feasible, chosen, Keeps
<1>4. IsFiniteSet(feasible) /\ \A t \in feasible : IsTried(t)
  <2>1. ArePoints(feasible, cases, responses, violations, unknowns)
    BY <1>2 DEF ArePoints
  <2>. QED
    BY <2>1, PointsFinite, Zenon
<1>. HIDE DEF point
<1>5. CASE feasible = {}
  <2>1. chosen = none
    BY <1>1, <1>5
  <2>2. /\ chosen.setting = Filter!RetainAll
        /\ chosen.caught = 0 /\ chosen.unresolved = 0
    BY <2>1
  <2>3. \A v \in violations, u \in unknowns : ~Keeps(point(v, u))
    BY <1>3, <1>5
  <2>. QED
    BY <2>2, <2>3 DEF chosen, Keeps, point
<1>6. CASE feasible # {}
  <2>2. \E t \in feasible : \A s \in feasible : ~Filter!Outdone(t, s)
    BY <1>4, <1>6, SomeIsBest
  <2>3. chosen \in feasible /\ \A s \in feasible : ~Filter!Outdone(chosen, s)
    BY <1>1, <1>6, <2>2, Zenon
  <2>4. PICK v \in violations, u \in unknowns : chosen = point(v, u) /\ Keeps(chosen)
    BY <1>2, <2>3
  <2>5. ASSUME NEW s \in feasible
        PROVE  s.caught <= chosen.caught
    <3>1. chosen.caught \in Nat /\ s.caught \in Nat
      BY <1>4, <2>3 DEF IsTried
    <3>2. ASSUME chosen.caught < s.caught
          PROVE  FALSE
      <4>. DEFINE a == Filter!Objective(chosen)
                  b == Filter!Objective(s)
      <4>1. 1 \in DOMAIN a /\ a[1] = <<chosen.caught, 1>> /\ b[1] = <<s.caught, 1>>
        BY DEF Filter!Objective
      <4>. HIDE DEF a, b
      <4>2. Filter!Less(a[1], b[1])
        BY <3>1, <3>2, <4>1 DEF Filter!Less
      <4>3. \A j \in 1 .. 1 - 1 : Filter!Equal(a[j], b[j])
        OBVIOUS
      <4>4. Filter!Before(a, b)
        BY <4>1, <4>2, <4>3 DEF Filter!Before
      <4>. QED
        BY <2>3, <4>4 DEF Filter!Outdone, a, b
    <3>. QED
      BY <3>1, <3>2
  <2>6. \A w \in violations, x \in unknowns :
          Keeps(point(w, x)) => point(w, x).caught <= chosen.caught
    BY <1>3, <2>5
  <2>. QED
    BY <2>4, <2>6 DEF chosen, Keeps, point
<1>. QED
  BY <1>5, <1>6

\* Selecting a setting yields what is measured.
LEMMA SelectionsAreMeasured ==
  ASSUME SelectSetting, Unit \in Nat
  PROVE  SelectionIsAsMeasured'
<1>1. subject' = subject
  BY DEF SelectSetting, Look, Is
<1>2. /\ Filter!Calibrates(subject.cases)
      /\ Filter!IsGrid(subject.violations, subject.unknowns, subject.bound)
  BY DEF SelectSetting
<1>3. CASE ~Parsed(subject)
  <2>1. result'.refused
    BY <1>3 DEF SelectSetting, Refused
  <2>. QED
    BY <2>1 DEF SelectionIsAsMeasured
<1>4. CASE Parsed(subject)
  <2>. DEFINE cases == subject.cases
              answers == subject.responses
              V == subject.violations
              U == subject.unknowns
              bound == subject.bound
              selected == Filter!SelectFilterSetting(cases, answers, V, U, bound)
              measured == Filter!FilterDecisionMetrics(cases, answers, selected.setting)
              Dropped(setting) == Filter!Dropped(cases, answers, setting)
              Tried(setting) == Filter!Tried(cases, answers, setting)
              anchors == Cardinality(Filter!Required(cases))
              chosen == selected.setting
  <2>1. result' = [refused |-> FALSE, selected |-> selected, measured |-> measured]
    BY <1>4, Zenon DEF SelectSetting
  <2>2. \A setting : SaidDrops(subject, setting) = Dropped(setting)
    BY <1>2, <1>4, SaidInPlace
  <2>3. ASSUME NEW setting
        PROVE  /\ Tried(setting).setting = setting
               /\ Tried(setting).caught = Caught(subject, setting)
               /\ Tried(setting).denied = Denied(subject, setting)
               /\ Tried(setting).caught \in Nat /\ Tried(setting).denied \in Nat
               /\ Cardinality(Dropped(setting))
                    = Cardinality(Dropped(setting) \cap Filter!Known(cases))
                        + Tried(setting).unresolved
               /\ anchors \in Nat
    <3>. DEFINE dropped == Filter!Dropped(cases, answers, setting)
                tried == Filter!Tried(cases, answers, setting)
    <3>. HIDE DEF cases, answers
    <3>0. Filter!Calibrates(cases)
      BY <1>2 DEF cases
    <3>. HIDE DEF Dropped, Tried
    <3>1. LET lost == Filter!Dropped(cases, answers, setting)
              point == Filter!Tried(cases, answers, setting)
          IN  /\ point.setting = setting
              /\ point.caught = Cardinality(lost \cap Filter!Violations(cases))
              /\ point.denied = Cardinality(lost \cap Filter!Required(cases))
              /\ point.caught \in Nat /\ point.denied \in Nat /\ point.known \in Nat
              /\ Cardinality(lost)
                   = Cardinality(lost \cap Filter!Known(cases)) + point.unresolved
              /\ Cardinality(Filter!Required(cases)) \in Nat
      BY <3>0, DroppedSizes
    <3>2. SaidDrops(subject, setting) = dropped
      BY <2>2 DEF Dropped
    <3>. HIDE DEF dropped, tried, anchors
    <3>3. /\ Caught(subject, setting)
               = Cardinality(dropped \cap Filter!Violations(cases))
          /\ Denied(subject, setting)
               = Cardinality(dropped \cap Filter!Required(cases))
      BY <3>2 DEF Caught, Denied, cases
    <3>. QED
      BY <3>1, <3>3 DEF dropped, tried, anchors, Dropped, Tried
  <2>4. \A setting : Filter!Preserves(Tried(setting), cases, bound)
                       <=> WithinBound(subject, setting)
    <3>1. \A S : Cardinality(S) = Filter!Cardinality(S)
      BY DEF Filter!Cardinality, Cardinality
    <3>2. \A setting : Tried(setting).denied = Denied(subject, setting)
      BY <2>3
    <3>. HIDE DEF Tried
    <3>. QED
      BY <3>1, <3>2 DEF Filter!Preserves, WithinBound
  <2>5. /\ measured.dropped = Cardinality(Dropped(chosen))
        /\ measured.droppedKnown = Cardinality(Dropped(chosen) \cap Filter!Known(cases))
        /\ measured.droppedViolations = Caught(subject, chosen)
        /\ measured.falseDenies = Denied(subject, chosen)
    <3>. DEFINE dropped == Filter!Dropped(cases, answers, chosen)
    <3>1. /\ measured.dropped = Filter!Cardinality(dropped)
          /\ measured.droppedKnown
               = Filter!Cardinality(dropped \cap Filter!Known(cases))
          /\ measured.droppedViolations
               = Filter!Cardinality(dropped \cap Filter!Violations(cases))
          /\ measured.falseDenies
               = Filter!Cardinality(dropped \cap Filter!Required(cases))
      BY DEF Filter!FilterDecisionMetrics
    <3>2. \A S : Filter!Cardinality(S) = Cardinality(S)
      BY SameFilterSums
    <3>3. SaidDrops(subject, chosen) = dropped
      BY <2>2
    <3>. HIDE DEF dropped, measured, chosen
    <3>4. /\ Caught(subject, chosen)
               = Cardinality(dropped \cap Filter!Violations(cases))
          /\ Denied(subject, chosen)
               = Cardinality(dropped \cap Filter!Required(cases))
      BY <3>3 DEF Caught, Denied
    <3>. QED
      BY <3>1, <3>2, <3>4 DEF dropped
  <2>6. \/ /\ chosen = Filter!RetainAll
           /\ selected.caught = 0 /\ selected.unresolved = 0
           /\ \A v \in V, u \in U :
                ~WithinBound(subject, [violation |-> {v}, unknown |-> u])
        \/ \E v \in V, u \in U :
             /\ chosen = [violation |-> {v}, unknown |-> u] /\ selected = Tried(chosen)
             /\ WithinBound(subject, chosen)
             /\ \A w \in V, x \in U :
                  LET other == [violation |-> {w}, unknown |-> x]
                  IN  WithinBound(subject, other) =>
                        Caught(subject, other) <= selected.caught
    <3>. DEFINE point(v, u) == Tried([violation |-> {v}, unknown |-> u])
                Keeps(t) == Filter!Preserves(t, cases, bound)
    <3>1. \/ /\ selected.setting = Filter!RetainAll
             /\ selected.caught = 0 /\ selected.unresolved = 0
             /\ \A v \in V, u \in U : ~Keeps(point(v, u))
          \/ \E v \in V, u \in U :
               /\ selected = point(v, u) /\ Keeps(selected)
               /\ \A w \in V, x \in U :
                    Keeps(point(w, x)) => point(w, x).caught <= selected.caught
      BY <1>2, SelectedIsBest
    <3>. HIDE DEF Tried, selected, Keeps
    <3>2. \A v, u : /\ point(v, u).setting = [violation |-> {v}, unknown |-> u]
                    /\ point(v, u).caught
                         = Caught(subject, [violation |-> {v}, unknown |-> u])
                    /\ Keeps(point(v, u))
                         <=> WithinBound(subject, [violation |-> {v}, unknown |-> u])
      BY <2>3, <2>4 DEF Keeps
    <3>. QED
      <4>1. CASE /\ selected.setting = Filter!RetainAll
                 /\ selected.caught = 0 /\ selected.unresolved = 0
                 /\ \A v \in V, u \in U : ~Keeps(point(v, u))
        BY <3>2, <4>1, Zenon
      <4>2. ASSUME NEW v \in V, NEW u \in U, selected = point(v, u), Keeps(selected),
                   \A w \in V, x \in U :
                     Keeps(point(w, x)) => point(w, x).caught <= selected.caught
            PROVE  <2>6!2
        <5>. DEFINE best == [violation |-> {v}, unknown |-> u]
        <5>1. chosen = best
          BY <3>2, <4>2
        <5>2. selected = Tried(chosen)
          BY <4>2, <5>1
        <5>3. WithinBound(subject, best)
          BY <3>2, <4>2
        <5>4. ASSUME NEW w \in V, NEW x \in U,
                     WithinBound(subject, [violation |-> {w}, unknown |-> x])
              PROVE  Caught(subject, [violation |-> {w}, unknown |-> x])
                       <= selected.caught
          <6>1. Keeps(point(w, x))
            BY <3>2, <5>4
          <6>2. point(w, x).caught <= selected.caught
            BY <4>2, <6>1
          <6>. QED
            BY <3>2, <6>2
        <5>. HIDE DEF chosen
        <5>. QED
          BY <5>1, <5>2, <5>3, <5>4, Zenon
      <4>. QED
        BY <3>1, <4>1, <4>2, Zenon
  <2>7. /\ WithinBound(subject, chosen)
        /\ \A v \in V, u \in U :
             WithinBound(subject, [violation |-> {v}, unknown |-> u]) =>
               /\ chosen # Filter!RetainAll
               /\ Caught(subject, [violation |-> {v}, unknown |-> u])
                    <= Caught(subject, chosen)
        /\ selected.caught = Caught(subject, chosen)
        /\ measured.dropped = measured.droppedKnown + selected.unresolved
    <3>. HIDE DEF selected, measured, Tried, anchors
    <3>1. CASE /\ chosen = Filter!RetainAll
               /\ selected.caught = 0 /\ selected.unresolved = 0
               /\ \A v \in V, u \in U :
                    ~WithinBound(subject, [violation |-> {v}, unknown |-> u])
      <4>1. Dropped(chosen) = {}
        BY <3>1 DEF Filter!Dropped, Filter!Drops, Filter!RetainAll
      <4>2. /\ SaidDrops(subject, chosen) = {}
            /\ Cardinality({}) = 0 /\ Cardinality({}) = 0
        BY <2>2, <4>1, FS_EmptySet DEF Cardinality, Cardinality
      <4>. HIDE DEF chosen, Dropped
      <4>3. /\ Caught(subject, chosen) = 0
            /\ Denied(subject, chosen) = 0
        <5>1. \A S : {} \cap S = {}
          OBVIOUS
        <5>. QED
          BY <4>2, <5>1 DEF Caught, Denied
      <4>4. bound[1] \in Nat /\ bound[2] \in Nat
        <5>1. bound[2] \in Nat /\ bound[1] \in 0 .. bound[2]
          BY <1>2 DEF Filter!IsGrid
        <5>. QED
          BY <5>1
      <4>5. WithinBound(subject, chosen)
        <5>1. anchors \in Nat
          BY <2>3
        <5>2. Cardinality(Filter!Required(cases)) = anchors
          BY DEF anchors, Cardinality, Cardinality
        <5>3. 0 * bound[2] <= bound[1] * anchors
          <6>1. \A a, b, c \in Nat : 0 * a <= b * c
            OBVIOUS
          <6>. QED
            BY <4>4, <5>1, <6>1
        <5>. HIDE DEF anchors
        <5>. QED
          BY <4>3, <5>2, <5>3 DEF WithinBound
      <4>6. measured.dropped = 0 /\ measured.droppedKnown = 0
        <5>1. {} \cap Filter!Known(cases) = {}
          OBVIOUS
        <5>. QED
          BY <2>5, <4>1, <4>2, <5>1
      <4>. QED
        BY <3>1, <4>3, <4>5, <4>6
    <3>2. ASSUME NEW v \in V, NEW u \in U,
                 chosen = [violation |-> {v}, unknown |-> u], selected = Tried(chosen),
                 WithinBound(subject, chosen),
                 \A w \in V, x \in U :
                   LET other == [violation |-> {w}, unknown |-> x]
                   IN  WithinBound(subject, other) =>
                         Caught(subject, other) <= selected.caught
          PROVE  <2>7!:
      <4>1. chosen # Filter!RetainAll
        <5>1. chosen.violation = {v}
          BY <3>2
        <5>2. Filter!RetainAll.violation = {}
          BY DEF Filter!RetainAll
        <5>. HIDE DEF chosen
        <5>. QED
          BY <5>1, <5>2
      <4>. HIDE DEF chosen, Dropped
      <4>2. selected.caught = Caught(subject, chosen)
        BY <2>3, <3>2
      <4>3. measured.dropped = measured.droppedKnown + selected.unresolved
        BY <2>3, <2>5, <3>2
      <4>. QED
        BY <3>2, <4>1, <4>2, <4>3
    <3>. QED
      BY <2>6, <3>1, <3>2
  <2>8. /\ result'.selected = selected /\ result'.measured = measured
        /\ result'.selected.setting = chosen
    BY <2>1
  <2>. HIDE DEF selected, measured, chosen
  <2>. QED
    BY <1>1, <2>5, <2>7, <2>8 DEF SelectionIsAsMeasured
<1>. QED
  BY <1>3, <1>4

-----------------------------------------------------------------------------
(* The contracts: what they mean *)

\* Two arms share a prompt exactly if they leave the same texts of the same query.
THEOREM DeletionLeavesNoTraceHolds == ContractSpec => []DeletionLeavesNoTrace
<1>1. result = Unseen => DeletionLeavesNoTrace
  BY DEF DeletionLeavesNoTrace, Done
<1>2. DeletionLeavesNoTrace /\ [ContractNext]_studied => DeletionLeavesNoTrace'
  <2>. SUFFICES ASSUME DeletionLeavesNoTrace, [ContractNext]_studied
                PROVE  DeletionLeavesNoTrace'
    OBVIOUS
  <2>1. CASE UNCHANGED studied
    BY <2>1, Zenon DEF DeletionLeavesNoTrace, studied, Done, Is, Left
  <2>2. CASE BuildRequests
    BY <2>2, PromptsShowWhatIsLeft
  <2>3. CASE subject.kind # "prompt"
    BY <2>3, OneLook, OtherKinds DEF DeletionLeavesNoTrace
  <2>. QED
    BY <2>1, <2>2, <2>3, OneLook DEF Is
<1>. QED
  BY <1>1, <1>2, PTL DEF ContractSpec

\* Deleting what is known to be inadmissible, and no anchor with it, costs nothing.
THEOREM OracleIsNoWorseHolds == ContractSpec => []OracleIsNoWorse
<1>1. result = Unseen => OracleIsNoWorse
  BY DEF OracleIsNoWorse, Done
<1>2. OracleIsNoWorse /\ [ContractNext]_studied => OracleIsNoWorse'
  <2>. SUFFICES ASSUME OracleIsNoWorse, [ContractNext]_studied
                PROVE  OracleIsNoWorse'
    OBVIOUS
  <2>1. CASE UNCHANGED studied
    BY <2>1 DEF OracleIsNoWorse, studied, Done, Is
  <2>2. CASE ScoreRoute
    <3>1. subject' = subject /\ Filter!IsCase(subject.case)
      BY <2>2, OneLook DEF ScoreRoute
    <3>. DEFINE dense == Risk(subject.case, "namespace_dense", subject.target)
                oracle == Risk(subject.case, "released_oracle", subject.target)
    <3>2. ASSUME \A i \in DOMAIN subject.case.candidates :
                   subject.case.candidates[i].required =>
                     Filter!Released(subject.case.candidates[i]) # "no"
          PROVE  /\ oracle.feasible = dense.feasible
                 /\ ~Filter!Less(dense.penalized, oracle.penalized)
      BY <3>1, <3>2, OracleScores, Zenon
    <3>. QED
      BY <3>1, <3>2 DEF OracleIsNoWorse
  <2>3. CASE subject.kind # "route"
    BY <2>3, OneLook, OtherKinds DEF OracleIsNoWorse
  <2>. QED
    BY <2>1, <2>2, <2>3, OneLook DEF Is
<1>. QED
  BY <1>1, <1>2, PTL DEF ContractSpec

\* The setting selected keeps its bound, catches the most, and is measured as it was.
THEOREM SelectionIsAsMeasuredHolds == ContractSpec => []SelectionIsAsMeasured
<1>1. result = Unseen => SelectionIsAsMeasured
  BY DEF SelectionIsAsMeasured, Done
<1>2. SelectionIsAsMeasured /\ [ContractNext]_studied => SelectionIsAsMeasured'
  <2>. SUFFICES ASSUME SelectionIsAsMeasured, [ContractNext]_studied
                PROVE  SelectionIsAsMeasured'
    OBVIOUS
  <2>1. CASE UNCHANGED studied
    BY <2>1 DEF SelectionIsAsMeasured, studied, Done, Is
  <2>2. CASE SelectSetting
    <3>1. Unit \in Nat
      BY ContractAssumption DEF Scores!ProbabilityAssumption
    <3>. QED
      BY <2>2, <3>1, SelectionsAreMeasured
  <2>3. CASE subject.kind # "filter"
    BY <2>3, OneLook, OtherKinds DEF SelectionIsAsMeasured
  <2>. QED
    BY <2>1, <2>2, <2>3, OneLook DEF Is
<1>. QED
  BY <1>1, <1>2, PTL DEF ContractSpec

\* The scores of a pair do not contradict each other, whatever is answered.
THEOREM PairsAreCoherentHolds == ContractSpec => []PairsAreCoherent
<1>1. result = Unseen => PairsAreCoherent
  BY DEF PairsAreCoherent, Done
<1>2. PairsAreCoherent /\ [ContractNext]_studied => PairsAreCoherent'
  <2>. SUFFICES ASSUME PairsAreCoherent, [ContractNext]_studied
                PROVE  PairsAreCoherent'
    OBVIOUS
  <2>1. CASE UNCHANGED studied
    BY <2>1 DEF PairsAreCoherent, studied, Done, Is
  <2>2. CASE ScorePair
    <3>1. Unit \in Nat \ {0}
      BY ContractAssumption DEF Scores!ProbabilityAssumption
    <3>. QED
      BY <2>2, <3>1, ScoredPairs
  <2>3. CASE subject.kind # "pair"
    BY <2>3, OneLook, OtherKinds DEF PairsAreCoherent
  <2>. QED
    BY <2>1, <2>2, <2>3, OneLook DEF Is
<1>. QED
  BY <1>1, <1>2, PTL DEF ContractSpec

\* A quotation discloses the candidate that is quoted and no other.
THEOREM MarkersAreAttributableHolds == ContractSpec => []MarkersAreAttributable
<1>1. result = Unseen => MarkersAreAttributable
  BY DEF MarkersAreAttributable, Done
<1>2. MarkersAreAttributable /\ [ContractNext]_studied => MarkersAreAttributable'
  <2>. SUFFICES ASSUME MarkersAreAttributable, [ContractNext]_studied
                PROVE  MarkersAreAttributable'
    OBVIOUS
  <2>1. CASE UNCHANGED studied
    BY <2>1 DEF MarkersAreAttributable, studied, Done, Is
  <2>2. CASE Expose
    BY <2>2, ExposuresAttribute
  <2>3. CASE subject.kind # "exposure"
    BY <2>3, OneLook, OtherKinds DEF MarkersAreAttributable
  <2>. QED
    BY <2>1, <2>2, <2>3, OneLook DEF Is
<1>. QED
  BY <1>1, <1>2, PTL DEF ContractSpec
=============================================================================
