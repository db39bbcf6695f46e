----------------------- MODULE ExposureExecutor_proofs -----------------------
(***************************************************************************)
(* Theorems about ExposureExecutor for every number of requests, every     *)
(* bound, cap and set of costs, and every series of crashes and edits.     *)
(***************************************************************************)
EXTENDS ExposureInvariant, Counting_proofs

-----------------------------------------------------------------------------
(* Rows *)

\* The total of a checkpoint is a number.
LEMMA SpentType ==
  ASSUME NEW rows \in Seq(Rows)
  PROVE  Spent(rows) \in Nat
<1>1. \A r \in Rows : r.cost \in Nat
  BY DEF Rows
<1>. QED
  BY <1>1, CostsType DEF Spent

\* Nothing was spent on no rows.
LEMMA SpentEmpty == Spent(<<>>) = 0
<1>1. [i \in DOMAIN <<>> |-> <<>>[i].cost] \in [{} -> Nat]
  OBVIOUS
<1>. QED
  BY <1>1, TotalZero DEF Spent

\* A new row adds its cost.
LEMMA SpentAppend ==
  ASSUME NEW rows \in Seq(Rows), NEW row \in Rows
  PROVE  Spent(Append(rows, row)) = Spent(rows) + row.cost
<1>1. \A r \in Rows : r.cost \in Nat
  BY DEF Rows
<1>. QED
  BY <1>1, CostsAppend DEF Spent

-----------------------------------------------------------------------------
(* Types, for any number of invocations *)

TypeInv == TypeOK /\ ProcessInv

\* An empty directory is well typed.
LEMMA InitTypes == ASSUME ExposureAssumption PROVE Init => TypeInv
<1>1. <<>> \in Seq(Rows)
  OBVIOUS
<1>2. Init => /\ log \in Seq(Rows) /\ completion \in Seq(Rows)
              /\ normalized \in Seq(Rows) /\ score \in Seq(Rows)
  BY <1>1, Zenon DEF Init
<1>4. Init => /\ pc \in [Procs -> Locations]
              /\ commit \in [Procs -> Commits \cup {NoCommit}]
              /\ next \in [Procs -> Nat] /\ spent \in [Procs -> Nat]
              /\ calls \in Nat /\ losses \in Nat /\ edits \in Nat /\ fixtureCost \in Nat
  BY DEF Init, Locations
<1>5. Init => /\ fixtureCommit \in Commits \cup {NoCommit}
              /\ fixtureFailed \in BOOLEAN /\ frozen \in BOOLEAN
              /\ head \in Commits /\ unlock \in Commits \cup {NoCommit}
              /\ clean \in BOOLEAN /\ key \in BOOLEAN
  BY DEF Init
<1>3. Init => ProcessInv
  BY DEF Init, ProcessInv, Calling
<1>. QED
  BY <1>2, <1>3, <1>4, <1>5 DEF TypeInv, TypeOK

\* The row that SaveRow appends.
NewRow(p, c) == [req |-> next[p], contract |-> ContractOf[head],
                 cost |-> c, by |-> commit[p]]

\* The row a process appends is a row of the checkpoint.
LEMMA NewRowType ==
  ASSUME ExposureAssumption, TypeInv, NEW p \in Procs, NEW c \in Costs,
         pc[p] = "sent"
  PROVE  NewRow(p, c) \in Rows
<1>1. next[p] \in 1 .. N /\ commit[p] \in Commits /\ head \in Commits /\ c \in Nat
  BY DEF ExposureAssumption, TypeInv, TypeOK, ProcessInv, Calling
<1>. QED
  BY <1>1 DEF NewRow, Rows

\* Every step keeps the types, whoever takes it.
LEMMA StepTypes ==
  ASSUME ExposureAssumption, TypeInv, [Next]_vars
  PROVE  TypeInv'
<1>. USE DEF ExposureAssumption, TypeInv, TypeOK, ProcessInv, Locations, Calling,
             files, checkout, local, Leave, Goto
<1>1. ASSUME NEW p \in Procs, StartFixture(p) PROVE TypeInv'
  BY <1>1 DEF StartFixture
<1>2. ASSUME NEW p \in Procs, NEW c \in Costs, PassFixture(p, c) PROVE TypeInv'
  BY <1>2 DEF PassFixture
<1>3. ASSUME NEW p \in Procs, FailFixture(p) PROVE TypeInv'
  BY <1>3 DEF FailFixture
<1>4. ASSUME NEW p \in Procs, StartExecute(p) PROVE TypeInv'
  BY <1>4 DEF StartExecute
<1>5. ASSUME NEW p \in Procs, LoadCheckpoint(p) PROVE TypeInv'
  <2>1. Spent(log) \in Nat /\ Len(log) \in Nat
    BY SpentType, LenProperties
  <2>. QED
    BY <1>5, <2>1 DEF LoadCheckpoint, FirstMissing, Resumed
<1>6. ASSUME NEW p \in Procs, Refuse(p) PROVE TypeInv'
  BY <1>6 DEF Refuse
<1>7. ASSUME NEW p \in Procs, Request(p) PROVE TypeInv'
  BY <1>7 DEF Request
<1>8. ASSUME NEW p \in Procs, StopAtCap(p) PROVE TypeInv'
  BY <1>8 DEF StopAtCap
<1>9. ASSUME NEW p \in Procs, NEW c \in Costs, SaveRow(p, c) PROVE TypeInv'
  <2>1. log' = Append(log, NewRow(p, c)) /\ pc[p] = "sent"
    BY <1>9 DEF SaveRow, NewRow
  <2>2. log' \in Seq(Rows)
    BY <2>1, NewRowType, AppendProperties
  <2>3. spent[p] + c \in Nat /\ next[p] + 1 \in Nat /\ next[p] + 1 > 0
    OBVIOUS
  <2>. QED
    BY <1>9, <2>2, <2>3 DEF SaveRow
<1>10. ASSUME NEW p \in Procs, Freeze(p) PROVE TypeInv'
  BY <1>10 DEF Freeze
<1>11. ASSUME NEW p \in Procs, EndLoop(p) PROVE TypeInv'
  BY <1>11 DEF EndLoop
<1>12. ASSUME NEW p \in Procs, Recheck(p) PROVE TypeInv'
  BY <1>12 DEF Recheck
<1>13. ASSUME NEW p \in Procs, Complete(p) PROVE TypeInv'
  BY <1>13 DEF Complete
<1>14. ASSUME NEW p \in Procs, StartScore(p) PROVE TypeInv'
  BY <1>14 DEF StartScore
<1>15. ASSUME NEW p \in Procs, Derive(p) PROVE TypeInv'
  BY <1>15 DEF Derive
<1>16. ASSUME NEW p \in Procs, WriteScore(p) PROVE TypeInv'
  BY <1>16 DEF WriteScore
<1>17. ASSUME NEW p \in Procs, Crash(p) PROVE TypeInv'
  BY <1>17 DEF Crash
<1>18. ASSUME EditCheckout PROVE TypeInv'
  <2>1. /\ head' \in Commits /\ unlock' \in Commits \cup {NoCommit}
        /\ edits' \in Nat /\ UNCHANGED <<files, local, calls, losses>>
    BY <1>18 DEF EditCheckout
  <2>2. clean' \in BOOLEAN /\ key' \in BOOLEAN
    BY <1>18, Zenon DEF EditCheckout
  <2>. QED
    BY <2>1, <2>2
<1>19. ASSUME UNCHANGED vars PROVE TypeInv'
  BY <1>19 DEF vars
<1>. QED
  BY <1>1, <1>2, <1>3, <1>4, <1>5, <1>6, <1>7, <1>8, <1>9, <1>10, <1>11, <1>12,
     <1>13, <1>14, <1>15, <1>16, <1>17, <1>18, <1>19
  DEF Next, Fixture, Execute, Score

\* Every file, total and index keeps its type, however many invocations run.
THEOREM TypeCorrect == ASSUME ExposureAssumption PROVE Spec => []TypeOK
<1>1. Spec => []TypeInv
  BY InitTypes, StepTypes, PTL DEF Spec
<1>2. TypeInv => TypeOK
  BY DEF TypeInv
<1>. QED
  BY <1>1, <1>2, PTL

-----------------------------------------------------------------------------
(* What is scored, for any number of invocations *)

\* Nothing is normalized or scored at first.
LEMMA InitScore == Init => ScoreInv
BY DEF Init, ScoreInv

\* A checkpoint that passes the scoring checks is a whole bundle.
LEMMA ScorableIsWhole ==
  ASSUME ExposureAssumption, TypeInv, Scorable
  PROVE  WholeBundle(log)
<1>1. Len(log) = N /\ DOMAIN log = 1 .. N
  BY LenProperties DEF Scorable, Whole, TypeInv, TypeOK
<1>. QED
  BY <1>1 DEF Scorable, Whole, ValidPrefix, WholeBundle, OneContract

\* Derivatives and scores stay whole bundles under every step.
LEMMA StepScore ==
  ASSUME ExposureAssumption, TypeInv, ScoreInv, [Next]_vars
  PROVE  ScoreInv'
<1>. USE DEF ScoreInv, WholeBundle, OneContract
<1>1. ASSUME NEW p \in Procs, Derive(p) PROVE ScoreInv'
  BY <1>1, ScorableIsWhole DEF Derive
<1>2. ASSUME NEW p \in Procs, WriteScore(p) PROVE ScoreInv'
  BY <1>2 DEF WriteScore
<1>3. ASSUME UNCHANGED <<normalized, score>> PROVE ScoreInv'
  BY <1>3
<1>4. [Next]_vars => \/ UNCHANGED <<normalized, score>>
                     \/ \E p \in Procs : Derive(p) \/ WriteScore(p)
  <2>1. ASSUME NEW p \in Procs, Fixture(p) \/ StartExecute(p)
        PROVE  UNCHANGED <<normalized, score>>
    BY <2>1 DEF Fixture, StartFixture, PassFixture, FailFixture, StartExecute, files
  <2>2. ASSUME NEW p \in Procs, Execute(p)
        PROVE  UNCHANGED <<normalized, score>>
    BY <2>2 DEF Execute, LoadCheckpoint, Request, StopAtCap, SaveRow, Freeze, EndLoop,
                Recheck, Refuse, Complete, files
  <2>3. ASSUME NEW p \in Procs, StartScore(p) \/ Refuse(p) \/ Crash(p)
        PROVE  UNCHANGED <<normalized, score>>
    BY <2>3 DEF StartScore, Refuse, Crash, files
  <2>4. EditCheckout \/ UNCHANGED vars => UNCHANGED <<normalized, score>>
    BY DEF EditCheckout, vars, files
  <2>. QED
    BY <2>1, <2>2, <2>3, <2>4 DEF Next, Score
<1>. QED
  BY <1>1, <1>2, <1>3, <1>4

\* Only whole bundles of one protocol in the frozen order are ever scored, even
\* when several invocations spoil the checkpoint of the provider.
THEOREM ScoredIsWholeHolds == ASSUME ExposureAssumption PROVE Spec => []ScoredIsWhole
<1>1. Spec => [](TypeInv /\ ScoreInv)
  <2>1. Init => TypeInv /\ ScoreInv
    BY InitTypes, InitScore
  <2>2. TypeInv /\ ScoreInv /\ [Next]_vars => (TypeInv /\ ScoreInv)'
    BY StepTypes, StepScore
  <2>. QED
    BY <2>1, <2>2, PTL DEF Spec
<1>2. ScoreInv => ScoredIsWhole
  BY DEF ScoreInv, WholeBundle, ScoredIsWhole
<1>. QED
  BY <1>1, <1>2, PTL

-----------------------------------------------------------------------------
(* One invocation at a time *)

\* An empty directory agrees with an invocation that has not begun.
LEMMA InitResume == ASSUME ExposureAssumption PROVE Init => ResumeInv
<1>. SUFFICES ASSUME Init PROVE ResumeInv
  OBVIOUS
<1>1. Len(log) = 0 /\ Spent(log) = 0 /\ DOMAIN log = {}
  BY SpentEmpty DEF Init
<1>2. FixtureInv /\ ReceiptInv /\ ExecuteInv /\ LoopInv /\ OutputInv
  BY <1>1 DEF ExposureAssumption, Init, FixtureInv, ReceiptInv, ExecuteInv,
              LoopInv, OutputInv, Calling
<1>3. CallInv
  <2>1. FixtureCalls = 0 /\ FailedCalls = 0 /\ InFlight = 0
    BY DEF Init, FixtureCalls, FailedCalls, InFlight
  <2>. QED
    BY <1>1, <2>1 DEF Init, CallInv, Traced
<1>4. OrderedPrefix /\ RecordedWithinCap /\ OneApproval
  BY <1>1 DEF ExposureAssumption, Init, OrderedPrefix, RecordedWithinCap, OneApproval
<1>. QED
  BY <1>2, <1>3, <1>4 DEF ResumeInv

\* A saved row extends the prefix by the request the loop stands at, at its cost.
LEMMA SavedRow ==
  ASSUME ExposureAssumption, TypeInv, ResumeInv,
         NEW p \in Procs, NEW c \in Costs, SaveRow(p, c)
  PROVE  /\ Len(log') = Len(log) + 1 /\ Len(log) < N /\ Len(log) \in Nat
         /\ Spent(log') = Spent(log) + c /\ Spent(log) \in Nat /\ c \in Nat
         /\ OrderedPrefix' /\ OneApproval'
         /\ spent'[p] = fixtureCost' + Spent(log')
<1>1. log' = Append(log, NewRow(p, c)) /\ pc[p] = "sent" /\ log \in Seq(Rows)
  BY DEF SaveRow, NewRow, Goto, TypeInv, TypeOK
<1>2. NewRow(p, c) \in Rows
  BY <1>1, NewRowType
<1>3. /\ Len(log) \in Nat /\ Len(log') = Len(log) + 1
      /\ DOMAIN log = 1 .. Len(log)
      /\ \A i \in 1 .. Len(log) : log'[i] = log[i]
      /\ log'[Len(log) + 1] = NewRow(p, c)
  BY <1>1, <1>2, AppendProperties, LenProperties
<1>4. log' \in Seq(Rows)
  BY <1>1, <1>2, AppendProperties
<1>5. DOMAIN log' = 1 .. Len(log) + 1
  BY <1>3, <1>4, LenProperties
<1>6. Spent(log') = Spent(log) + NewRow(p, c).cost
  BY <1>1, <1>2, SpentAppend
<1>7. Spent(log) \in Nat /\ c \in Nat
  BY <1>1, SpentType DEF ExposureAssumption
<1>8. next[p] = Len(log) + 1 /\ Len(log) < N /\ commit[p] = fixtureCommit
  BY <1>1 DEF ResumeInv, LoopInv, ExecuteInv, Calling
<1>9. /\ NewRow(p, c).req = Len(log) + 1 /\ NewRow(p, c).by = fixtureCommit
      /\ NewRow(p, c).cost = c
  BY <1>8 DEF NewRow
<1>10. OrderedPrefix'
  <2>1. Len(log') <= N
    BY <1>3, <1>8 DEF ExposureAssumption
  <2>2. \A i \in 1 .. Len(log) + 1 : log'[i].req = i
    BY <1>3, <1>9 DEF ResumeInv, OrderedPrefix
  <2>. QED
    BY <2>1, <2>2, <1>5 DEF OrderedPrefix
<1>11. OneApproval'
  <2>1. fixtureCommit' = fixtureCommit
    BY DEF SaveRow
  <2>2. \A i \in 1 .. Len(log) + 1 : log'[i].by = fixtureCommit
    BY <1>3, <1>9 DEF ResumeInv, OneApproval
  <2>. QED
    BY <2>1, <2>2, <1>5 DEF OneApproval
<1>12. spent'[p] = fixtureCost' + Spent(log')
  <2>1. spent[p] = fixtureCost + Spent(log) /\ fixtureCost \in Nat
    BY <1>1 DEF ResumeInv, LoopInv, Calling, TypeInv, TypeOK
  <2>2. spent'[p] = spent[p] + c /\ fixtureCost' = fixtureCost
    BY DEF SaveRow, TypeInv, TypeOK
  <2>. QED
    BY <1>6, <1>7, <1>9, <2>1, <2>2
<1>. QED
  BY <1>3, <1>6, <1>7, <1>8, <1>9, <1>10, <1>11, <1>12

\* All but the count of the calls.
DirectoryInv ==
  /\ FixtureInv /\ ReceiptInv /\ ExecuteInv /\ LoopInv /\ OutputInv
  /\ OrderedPrefix /\ RecordedWithinCap /\ OneApproval

\* A step that leaves the paid records alone and takes the only invocation out of
\* fixture and execute has only the outputs to answer for.
LEMMA QuietStep ==
  ASSUME OneRunner, TypeInv, ResumeInv, NEW p \in Procs,
         NEW l \in {"idle", "derive", "score"}, pc' = [pc EXCEPT ![p] = l],
         UNCHANGED <<fixtureCommit, fixtureCost, fixtureFailed, log, frozen>>,
         OutputInv'
  PROVE  DirectoryInv'
<1>1. \A q \in Procs : pc'[q] \in {"idle", "derive", "score"}
  BY DEF OneRunner, TypeInv, TypeOK
<1>2. FixtureInv' /\ ExecuteInv' /\ LoopInv'
  BY <1>1 DEF FixtureInv, ExecuteInv, LoopInv, Calling
<1>3. ReceiptInv'
  BY DEF ResumeInv, ReceiptInv
<1>4. OrderedPrefix' /\ RecordedWithinCap' /\ OneApproval'
  BY DEF ResumeInv, OrderedPrefix, RecordedWithinCap, OneApproval
<1>. QED
  BY <1>2, <1>3, <1>4 DEF DirectoryInv

\* A command that ends without touching a file.
LEMMA LeaveStep ==
  ASSUME OneRunner, TypeInv, ResumeInv, NEW p \in Procs, Leave(p), UNCHANGED files
  PROVE  DirectoryInv'
<1>1. pc' = [pc EXCEPT ![p] = "idle"]
  BY DEF Leave
<1>2. UNCHANGED <<fixtureCommit, fixtureCost, fixtureFailed, log, frozen, completion,
                  normalized, score>>
  BY DEF files
<1>3. \A q \in Procs : pc'[q] = "idle"
  BY <1>1 DEF OneRunner, TypeInv, TypeOK
<1>4. OutputInv'
  BY <1>2, <1>3 DEF ResumeInv, OutputInv
<1>. QED
  BY <1>1, <1>2, <1>4, QuietStep

\* A failed fixture ends the command and marks the directory.
LEMMA FailFixtureStep ==
  ASSUME OneRunner, TypeInv, ResumeInv, NEW p \in Procs, FailFixture(p)
  PROVE  DirectoryInv'
<1>1. /\ pc' = [pc EXCEPT ![p] = "idle"] /\ fixtureFailed' = TRUE /\ pc[p] = "fixture"
      /\ UNCHANGED <<fixtureCommit, fixtureCost, log, frozen, completion, normalized,
                     score>>
  BY DEF FailFixture, Leave
<1>2. fixtureCommit = NoCommit
  BY <1>1 DEF ResumeInv, FixtureInv
<1>3. \A q \in Procs : pc'[q] = "idle"
  BY <1>1 DEF OneRunner, TypeInv, TypeOK
<1>4. FixtureInv' /\ ExecuteInv' /\ LoopInv'
  BY <1>3 DEF FixtureInv, ExecuteInv, LoopInv, Calling
<1>5. ReceiptInv'
  BY <1>1, <1>2 DEF ResumeInv, ReceiptInv
<1>6. OutputInv'
  BY <1>1, <1>3 DEF ResumeInv, OutputInv
<1>7. OrderedPrefix' /\ RecordedWithinCap' /\ OneApproval'
  BY <1>1 DEF ResumeInv, OrderedPrefix, RecordedWithinCap, OneApproval
<1>. QED
  BY <1>4, <1>5, <1>6, <1>7 DEF DirectoryInv

\* The command works for the commit of the receipt, and its total is the fixture's.
LEMMA StartExecuteStep ==
  ASSUME OneRunner, TypeInv, ResumeInv, NEW p \in Procs, StartExecute(p)
  PROVE  DirectoryInv'
<1>1. /\ pc' = [pc EXCEPT ![p] = "load"] /\ UNCHANGED files
      /\ commit' = [commit EXCEPT ![p] = head]
      /\ spent' = [spent EXCEPT ![p] = fixtureCost]
      /\ fixtureCommit = head /\ ~frozen
  BY DEF StartExecute, Goto, MayExecute
<1>2. UNCHANGED <<fixtureCommit, fixtureCost, fixtureFailed, log, frozen, completion,
                  normalized, score>>
  BY <1>1 DEF files
<1>3. /\ head \in Commits
      /\ \A q \in Procs : /\ q = p /\ pc'[q] = "load" /\ commit'[q] = head
                           /\ spent'[q] = fixtureCost
  BY <1>1 DEF OneRunner, TypeInv, TypeOK
<1>4. FixtureInv' /\ LoopInv'
  BY <1>3 DEF FixtureInv, LoopInv, Calling
<1>5. ExecuteInv'
  BY <1>1, <1>2, <1>3 DEF ExecuteInv
<1>6. ReceiptInv'
  BY <1>2 DEF ResumeInv, ReceiptInv
<1>7. OutputInv'
  BY <1>2, <1>3 DEF ResumeInv, OutputInv
<1>8. OrderedPrefix' /\ RecordedWithinCap' /\ OneApproval'
  BY <1>2 DEF ResumeInv, OrderedPrefix, RecordedWithinCap, OneApproval
<1>. QED
  BY <1>4, <1>5, <1>6, <1>7, <1>8 DEF DirectoryInv

\* The loop begins with the index and the total of the checkpoint.
LEMMA LoadCheckpointStep ==
  ASSUME OneRunner, TypeInv, ResumeInv, NEW p \in Procs, LoadCheckpoint(p)
  PROVE  DirectoryInv'
<1>1. /\ pc' = [pc EXCEPT ![p] = "loop"] /\ pc[p] = "load" /\ UNCHANGED files
      /\ UNCHANGED commit /\ completion = <<>>
      /\ next' = [next EXCEPT ![p] = Len(log) + 1]
      /\ spent' = [spent EXCEPT ![p] = @ + Spent(log)]
  BY DEF LoadCheckpoint, Goto, FirstMissing, Resumed
<1>2. UNCHANGED <<fixtureCommit, fixtureCost, fixtureFailed, log, frozen, completion,
                  normalized, score>>
  BY <1>1 DEF files
<1>3. /\ commit[p] = fixtureCommit /\ fixtureCommit \in Commits /\ ~frozen
      /\ spent[p] = fixtureCost
  BY <1>1 DEF ResumeInv, ExecuteInv
<1>4. \A q \in Procs : /\ q = p /\ pc'[q] = "loop" /\ next'[q] = Len(log) + 1
                       /\ spent'[q] = fixtureCost + Spent(log)
  BY <1>1, <1>3 DEF OneRunner, TypeInv, TypeOK
<1>5. FixtureInv' /\ LoopInv'
  BY <1>1, <1>2, <1>4 DEF FixtureInv, LoopInv, Calling
<1>6. ExecuteInv'
  BY <1>1, <1>2, <1>3, <1>4 DEF ExecuteInv
<1>7. ReceiptInv'
  BY <1>2 DEF ResumeInv, ReceiptInv
<1>8. OutputInv'
  BY <1>2, <1>4 DEF ResumeInv, OutputInv
<1>9. OrderedPrefix' /\ RecordedWithinCap' /\ OneApproval'
  BY <1>2 DEF ResumeInv, OrderedPrefix, RecordedWithinCap, OneApproval
<1>. QED
  BY <1>5, <1>6, <1>7, <1>8, <1>9 DEF DirectoryInv

\* A saved row leaves the loop at the next request, with its cost counted.
LEMMA SaveRowStep ==
  ASSUME ExposureAssumption, OneRunner, TypeInv, ResumeInv,
         NEW p \in Procs, NEW c \in Costs, SaveRow(p, c)
  PROVE  DirectoryInv'
<1>1. /\ Len(log') = Len(log) + 1 /\ Len(log) < N /\ Len(log) \in Nat
      /\ Spent(log') = Spent(log) + c /\ Spent(log) \in Nat /\ c \in Nat
      /\ OrderedPrefix' /\ OneApproval' /\ spent'[p] = fixtureCost' + Spent(log')
  BY SavedRow
<1>2. /\ pc' = [pc EXCEPT ![p] = "loop"] /\ pc[p] = "sent"
      /\ next' = [next EXCEPT ![p] = @ + 1] /\ spent[p] + c <= HardCap
      /\ UNCHANGED <<fixtureCommit, fixtureCost, fixtureFailed, frozen, completion,
                     normalized, score, commit>>
  BY DEF SaveRow, Goto
<1>3. /\ next[p] = Len(log) + 1 /\ spent[p] = fixtureCost + Spent(log)
      /\ completion = <<>>
      /\ commit[p] = fixtureCommit /\ fixtureCommit \in Commits /\ ~frozen
  BY <1>2 DEF ResumeInv, LoopInv, ExecuteInv, Calling
<1>4. \A q \in Procs : q = p /\ pc'[q] = "loop"
  BY <1>2 DEF OneRunner, TypeInv, TypeOK
<1>5. next'[p] = Len(log') + 1
  BY <1>1, <1>2, <1>3 DEF TypeInv, TypeOK
<1>6. RecordedWithinCap'
  <2>1. fixtureCost \in Nat /\ HardCap \in Nat
    BY DEF ExposureAssumption, TypeInv, TypeOK
  <2>. QED
    BY <1>1, <1>2, <1>3, <2>1 DEF RecordedWithinCap
<1>7. FixtureInv' /\ LoopInv'
  BY <1>1, <1>2, <1>3, <1>4, <1>5 DEF FixtureInv, LoopInv, Calling
<1>8. ExecuteInv'
  BY <1>2, <1>3, <1>4 DEF ExecuteInv
<1>9. ReceiptInv'
  <2>1. fixtureCommit # NoCommit
    BY <1>3 DEF ExposureAssumption
  <2>. QED
    BY <1>2, <2>1 DEF ResumeInv, ReceiptInv
<1>10. OutputInv'
  BY <1>2, <1>3, <1>4 DEF ResumeInv, OutputInv
<1>. QED
  BY <1>1, <1>6, <1>7, <1>8, <1>9, <1>10 DEF DirectoryInv

\* The steps that complete and score write outputs only.
LEMMA OutputStep ==
  ASSUME ExposureAssumption, OneRunner, TypeInv, ResumeInv, NEW p \in Procs,
         Complete(p) \/ StartScore(p) \/ Derive(p) \/ WriteScore(p)
  PROVE  DirectoryInv'
<1>0. Len(log) \in Nat /\ (completion = <<>> => normalized = <<>> /\ score = <<>>)
      /\ (frozen => completion = <<>>)
  BY LenProperties DEF TypeInv, TypeOK, ResumeInv, OutputInv
<1>1. CASE Complete(p)
  <2>1. /\ pc' = [pc EXCEPT ![p] = "idle"] /\ completion' = log
        /\ UNCHANGED <<fixtureCommit, fixtureCost, fixtureFailed, log, frozen,
                       normalized, score>>
    BY <1>1 DEF Complete, Leave
  <2>2. ~frozen /\ Len(log) = N
    BY <1>1 DEF Complete, ResumeInv, ExecuteInv
  <2>3. log # <<>>
    BY <2>2 DEF ExposureAssumption
  <2>4. \A q \in Procs : pc'[q] = "idle"
    BY <2>1 DEF OneRunner, TypeInv, TypeOK
  <2>5. OutputInv'
    BY <2>1, <2>2, <2>3, <2>4 DEF OutputInv
  <2>. QED
    BY <2>1, <2>5, QuietStep
<1>2. CASE StartScore(p)
  <2>1. /\ pc' = [pc EXCEPT ![p] = "derive"] /\ completion # <<>>
        /\ UNCHANGED <<fixtureCommit, fixtureCost, fixtureFailed, log, frozen,
                       completion, normalized, score>>
    BY <1>2 DEF StartScore, Goto, files
  <2>2. OutputInv'
    BY <2>1 DEF ResumeInv, OutputInv
  <2>. QED
    BY <2>1, <2>2, QuietStep
<1>3. CASE Derive(p)
  <2>1. /\ pc' = [pc EXCEPT ![p] = "score"] /\ pc[p] = "derive"
        /\ UNCHANGED <<fixtureCommit, fixtureCost, fixtureFailed, log, frozen,
                       completion, score>>
    BY <1>3 DEF Derive, Goto
  <2>2. completion # <<>>
    BY <2>1 DEF ResumeInv, OutputInv
  <2>3. OutputInv'
    BY <2>1, <2>2 DEF ResumeInv, OutputInv
  <2>. QED
    BY <2>1, <2>3, QuietStep
<1>4. CASE WriteScore(p)
  <2>1. /\ pc' = [pc EXCEPT ![p] = "idle"] /\ pc[p] = "score"
        /\ UNCHANGED <<fixtureCommit, fixtureCost, fixtureFailed, log, frozen,
                       completion, normalized>>
    BY <1>4 DEF WriteScore, Leave
  <2>2. completion # <<>>
    BY <2>1 DEF ResumeInv, OutputInv
  <2>3. OutputInv'
    BY <2>1, <2>2 DEF ResumeInv, OutputInv
  <2>. QED
    BY <2>1, <2>3, QuietStep
<1>. QED
  BY <1>1, <1>2, <1>3, <1>4

\* A call is sent for the next request of the loop.
LEMMA RequestStep ==
  ASSUME ExposureAssumption, OneRunner, TypeInv, ResumeInv, NEW p \in Procs, Request(p)
  PROVE  DirectoryInv'
<1>1. /\ pc' = [pc EXCEPT ![p] = "sent"] /\ pc[p] = "loop" /\ next[p] <= N
      /\ UNCHANGED files /\ UNCHANGED <<commit, next, spent>>
  BY DEF Request, Goto
<1>2. UNCHANGED <<fixtureCommit, fixtureCost, fixtureFailed, log, frozen, completion,
                  normalized, score>>
  BY <1>1 DEF files
<1>3. /\ next[p] = Len(log) + 1 /\ spent[p] = fixtureCost + Spent(log)
      /\ completion = <<>>
  BY <1>1 DEF ResumeInv, LoopInv, Calling
<1>4. Len(log) < N
  <2>1. Len(log) \in Nat /\ N \in Nat
    BY LenProperties DEF ExposureAssumption, TypeInv, TypeOK
  <2>. QED
    BY <1>1, <1>3, <2>1
<1>5. commit[p] = fixtureCommit /\ fixtureCommit \in Commits /\ ~frozen
  BY <1>1 DEF ResumeInv, ExecuteInv, Calling
<1>6. \A q \in Procs : q = p /\ pc'[q] = "sent"
  BY <1>1 DEF OneRunner, TypeInv, TypeOK
<1>7. FixtureInv' /\ LoopInv'
  BY <1>1, <1>2, <1>3, <1>4, <1>6 DEF FixtureInv, LoopInv
<1>8. ExecuteInv'
  BY <1>1, <1>2, <1>5, <1>6 DEF ExecuteInv
<1>9. ReceiptInv'
  BY <1>2 DEF ResumeInv, ReceiptInv
<1>10. OutputInv'
  BY <1>2, <1>6 DEF ResumeInv, OutputInv
<1>11. OrderedPrefix' /\ RecordedWithinCap' /\ OneApproval'
  BY <1>2 DEF ResumeInv, OrderedPrefix, RecordedWithinCap, OneApproval
<1>. QED
  BY <1>7, <1>8, <1>9, <1>10, <1>11 DEF DirectoryInv

\* A failed call freezes the provider, whose missing request stays missing.
LEMMA FreezeStep ==
  ASSUME ExposureAssumption, OneRunner, TypeInv, ResumeInv, NEW p \in Procs, Freeze(p)
  PROVE  DirectoryInv'
<1>1. /\ pc' = [pc EXCEPT ![p] = "idle"] /\ pc[p] = "sent" /\ frozen' = TRUE
      /\ UNCHANGED <<fixtureCommit, fixtureCost, fixtureFailed, log, completion,
                     normalized, score>>
  BY DEF Freeze, Leave
<1>2. completion = <<>> /\ Len(log) < N
  BY <1>1 DEF ResumeInv, LoopInv, Calling
<1>3. fixtureCommit # NoCommit
  BY <1>1 DEF ResumeInv, ExecuteInv, Calling, ExposureAssumption
<1>4. \A q \in Procs : pc'[q] = "idle"
  BY <1>1 DEF OneRunner, TypeInv, TypeOK
<1>5. FixtureInv' /\ ExecuteInv' /\ LoopInv'
  BY <1>4 DEF FixtureInv, ExecuteInv, LoopInv, Calling
<1>6. ReceiptInv'
  BY <1>1, <1>3 DEF ResumeInv, ReceiptInv
<1>7. OutputInv'
  BY <1>1, <1>2, <1>4 DEF ResumeInv, OutputInv
<1>8. OrderedPrefix' /\ RecordedWithinCap' /\ OneApproval'
  BY <1>1 DEF ResumeInv, OrderedPrefix, RecordedWithinCap, OneApproval
<1>. QED
  BY <1>5, <1>6, <1>7, <1>8 DEF DirectoryInv

\* The loop ends, and a whole checkpoint goes on to its receipt.
LEMMA RecheckStep ==
  ASSUME OneRunner, TypeInv, ResumeInv, NEW p \in Procs, EndLoop(p) \/ Recheck(p)
  PROVE  DirectoryInv'
<1>1. PICK l \in {"recheck", "complete"} :
        /\ pc' = [pc EXCEPT ![p] = l] /\ pc[p] \in {"loop", "recheck"}
        /\ l = "complete" => Len(log) = N
        /\ UNCHANGED files /\ UNCHANGED <<commit, next, spent>>
  BY DEF EndLoop, Recheck, Whole, Goto
<1>2. UNCHANGED <<fixtureCommit, fixtureCost, fixtureFailed, log, frozen, completion,
                  normalized, score>>
  BY <1>1 DEF files
<1>3. commit[p] = fixtureCommit /\ fixtureCommit \in Commits /\ ~frozen
  BY <1>1 DEF ResumeInv, ExecuteInv, Calling
<1>4. \A q \in Procs : q = p /\ pc'[q] = l
  BY <1>1 DEF OneRunner, TypeInv, TypeOK
<1>5. FixtureInv' /\ LoopInv'
  BY <1>1, <1>4 DEF FixtureInv, LoopInv, Calling
<1>6. ExecuteInv'
  BY <1>1, <1>2, <1>3, <1>4 DEF ExecuteInv, Calling
<1>7. ReceiptInv'
  BY <1>2 DEF ResumeInv, ReceiptInv
<1>8. OutputInv'
  BY <1>1, <1>2, <1>4 DEF ResumeInv, OutputInv
<1>9. OrderedPrefix' /\ RecordedWithinCap' /\ OneApproval'
  BY <1>2 DEF ResumeInv, OrderedPrefix, RecordedWithinCap, OneApproval
<1>. QED
  BY <1>5, <1>6, <1>7, <1>8, <1>9 DEF DirectoryInv

\* Every step of the only invocation keeps its memory and the files in agreement.
LEMMA StepDirectory ==
  ASSUME ExposureAssumption, OneRunner, TypeInv, ResumeInv, [Next]_vars
  PROVE  DirectoryInv'
<1>0. Spent(log) \in Nat /\ Len(log) \in Nat /\ DOMAIN log = 1 .. Len(log)
  BY SpentType, LenProperties DEF TypeInv, TypeOK
<1>. USE <1>0 DEF ExposureAssumption, OneRunner, TypeInv, TypeOK, ProcessInv, Calling,
             Locations, files, checkout, local, Leave, Goto, DirectoryInv,
             ResumeInv, FixtureInv, ReceiptInv, ExecuteInv, LoopInv, OutputInv,
             OrderedPrefix, RecordedWithinCap, OneApproval
<1>1. ASSUME NEW p \in Procs, StartFixture(p) PROVE DirectoryInv'
  BY <1>1 DEF StartFixture, FixtureWanted, Unlocked
<1>2. ASSUME NEW p \in Procs, NEW c \in Costs, PassFixture(p, c) PROVE DirectoryInv'
  <2>1. Spent(log) = 0 /\ Len(log) = 0 /\ DOMAIN log = {}
    <3>1. log = <<>>
      BY <1>2 DEF PassFixture
    <3>. QED
      BY <3>1, <1>0, SpentEmpty
  <2>. QED
    BY <1>2, <2>1 DEF PassFixture
<1>3. ASSUME NEW p \in Procs, FailFixture(p) PROVE DirectoryInv'
  BY <1>3, FailFixtureStep
<1>4. ASSUME NEW p \in Procs, StartExecute(p) PROVE DirectoryInv'
  BY <1>4, StartExecuteStep
<1>5. ASSUME NEW p \in Procs, LoadCheckpoint(p) PROVE DirectoryInv'
  BY <1>5, LoadCheckpointStep
<1>6. ASSUME NEW p \in Procs, Refuse(p) PROVE DirectoryInv'
  <2>1. Leave(p) /\ UNCHANGED files
    BY <1>6 DEF Refuse
  <2>. QED
    BY <2>1, LeaveStep
<1>7. ASSUME NEW p \in Procs, Request(p) PROVE DirectoryInv'
  BY <1>7, RequestStep
<1>8. ASSUME NEW p \in Procs, StopAtCap(p) PROVE DirectoryInv'
  <2>1. Leave(p) /\ UNCHANGED files
    BY <1>8 DEF StopAtCap
  <2>. QED
    BY <2>1, LeaveStep
<1>9. ASSUME NEW p \in Procs, NEW c \in Costs, SaveRow(p, c) PROVE DirectoryInv'
  BY <1>9, SaveRowStep
<1>10. ASSUME NEW p \in Procs, Freeze(p) PROVE DirectoryInv'
  BY <1>10, FreezeStep
<1>11. ASSUME NEW p \in Procs, EndLoop(p) PROVE DirectoryInv'
  BY <1>11, RecheckStep
<1>12. ASSUME NEW p \in Procs, Recheck(p) PROVE DirectoryInv'
  BY <1>12, RecheckStep
<1>13. ASSUME NEW p \in Procs, Complete(p) PROVE DirectoryInv'
  BY <1>13, OutputStep
<1>14. ASSUME NEW p \in Procs, StartScore(p) PROVE DirectoryInv'
  BY <1>14, OutputStep
<1>15. ASSUME NEW p \in Procs, Derive(p) PROVE DirectoryInv'
  BY <1>15, OutputStep
<1>16. ASSUME NEW p \in Procs, WriteScore(p) PROVE DirectoryInv'
  BY <1>16, OutputStep
<1>17. ASSUME NEW p \in Procs, Crash(p) PROVE DirectoryInv'
  <2>1. Leave(p) /\ UNCHANGED files
    BY <1>17 DEF Crash
  <2>. QED
    BY <2>1, LeaveStep
<1>18. ASSUME EditCheckout PROVE DirectoryInv'
  BY <1>18 DEF EditCheckout
<1>19. ASSUME UNCHANGED vars PROVE DirectoryInv'
  BY <1>19 DEF vars
<1>. QED
  BY <1>1, <1>2, <1>3, <1>4, <1>5, <1>6, <1>7, <1>8, <1>9, <1>10, <1>11, <1>12,
     <1>13, <1>14, <1>15, <1>16, <1>17, <1>18, <1>19
  DEF Next, Fixture, Execute, Score

\* Whether a call is in flight is up to the only invocation there is.
LEMMA OnlyFlight ==
  ASSUME OneRunner, NEW p \in Procs
  PROVE  InFlight = IF pc[p] \in {"fixture", "sent"} THEN 1 ELSE 0
BY DEF OneRunner, InFlight

\* The same after the step.
LEMMA OnlyFlightNext ==
  ASSUME OneRunner, NEW p \in Procs
  PROVE  InFlight' = IF pc'[p] \in {"fixture", "sent"} THEN 1 ELSE 0
BY DEF OneRunner, InFlight

\* A step makes a call, turns the call in flight into a file, or loses it.
LEMMA StepCalls ==
  ASSUME ExposureAssumption, OneRunner, TypeInv, ResumeInv, [Next]_vars
  PROVE  CallInv'
<1>0. /\ Len(log) \in Nat /\ calls \in Nat /\ losses \in Nat
      /\ frozen \in BOOLEAN /\ fixtureFailed \in BOOLEAN
      /\ pc \in [Procs -> Locations]
  BY LenProperties DEF TypeInv, TypeOK
<1>a. FixtureCalls \in Nat /\ FailedCalls \in Nat
  BY DEF FixtureCalls, FailedCalls
<1>1. Traced \in Nat /\ calls <= Traced + InFlight + losses
  BY <1>0, <1>a DEF Traced, ResumeInv, CallInv
<1>b. UNCHANGED <<log, fixtureCommit, fixtureFailed, frozen>> => Traced' = Traced
  BY DEF Traced, FixtureCalls, FailedCalls
<1>2. CASE UNCHANGED vars \/ EditCheckout
  <2>1. UNCHANGED <<files, pc, calls, losses>>
    BY <1>2 DEF vars, local, EditCheckout
  <2>. QED
    BY <2>1, <1>1, <1>b DEF CallInv, InFlight, files
<1>3. ASSUME NEW p \in Procs,
             Fixture(p) \/ StartExecute(p) \/ Execute(p) \/ StartScore(p)
               \/ Score(p) \/ Crash(p)
      PROVE  CallInv'
  <2>. DEFINE flight == IF pc[p] \in {"fixture", "sent"} THEN 1 ELSE 0
              flightNext == IF pc'[p] \in {"fixture", "sent"} THEN 1 ELSE 0
  <2>1. calls <= Traced + flight + losses
    BY <1>1, OnlyFlight
  <2>2. SUFFICES calls' <= Traced' + flightNext + losses'
    BY OnlyFlightNext DEF CallInv
  <2>. USE DEF Goto, Leave, files, checkout
  <2>3. CASE Crash(p)
    <3>1. losses' = losses + 1 /\ calls' = calls /\ Traced' = Traced
      BY <2>3, <1>b DEF Crash
    <3>2. flight <= flightNext + 1
      OBVIOUS
    <3>. QED
      BY <1>0, <1>1, <2>1, <3>1, <3>2
  <2>4. CASE StartFixture(p) \/ Request(p)
    <3>1. losses' = losses /\ calls' = calls + 1 /\ Traced' = Traced
      BY <2>4, <1>b DEF StartFixture, Request
    <3>2. flight = 0 /\ flightNext = 1
      BY <1>0, <2>4 DEF StartFixture, Request
    <3>. QED
      BY <1>0, <1>1, <2>1, <3>1, <3>2
  <2>5. CASE \/ FailFixture(p) \/ Freeze(p)
             \/ \E c \in Costs : PassFixture(p, c) \/ SaveRow(p, c)
    <3>1. UNCHANGED <<losses, calls>>
      BY <2>5 DEF FailFixture, Freeze, PassFixture, SaveRow
    <3>2. flight <= 1 /\ flightNext >= 0
      OBVIOUS
    <3>3. Traced' = Traced + 1
      <4>1. ASSUME NEW c \in Costs, PassFixture(p, c)
            PROVE  Traced' = Traced + 1
        <5>1. fixtureCommit = NoCommit /\ ~fixtureFailed /\ commit[p] \in Commits
          BY <4>1 DEF PassFixture, ResumeInv, FixtureInv, TypeInv, ProcessInv
        <5>2. FixtureCalls = 0 /\ FixtureCalls' = 1
          BY <4>1, <5>1 DEF PassFixture, FixtureCalls, ExposureAssumption
        <5>3. log' = log /\ FailedCalls' = FailedCalls
          BY <4>1 DEF PassFixture, FailedCalls
        <5>. QED
          BY <1>0, <1>a, <5>2, <5>3 DEF Traced
      <4>2. CASE Freeze(p)
        <5>1. FailedCalls = 0 /\ FailedCalls' = 1
          BY <4>2 DEF Freeze, FailedCalls, ResumeInv, ExecuteInv, Calling
        <5>2. log' = log /\ FixtureCalls' = FixtureCalls
          BY <4>2 DEF Freeze, FixtureCalls
        <5>. QED
          BY <1>0, <1>a, <5>1, <5>2 DEF Traced
      <4>3. CASE FailFixture(p)
        <5>1. FixtureCalls = 0 /\ FixtureCalls' = 1
          BY <4>3 DEF FailFixture, FixtureCalls, ResumeInv, FixtureInv
        <5>2. log' = log /\ FailedCalls' = FailedCalls
          BY <4>3 DEF FailFixture, FailedCalls
        <5>. QED
          BY <1>0, <1>a, <5>1, <5>2 DEF Traced
      <4>4. ASSUME NEW c \in Costs, SaveRow(p, c) PROVE Traced' = Traced + 1
        <5>1. Len(log') = Len(log) + 1
          BY <4>4, SavedRow
        <5>2. FixtureCalls' = FixtureCalls /\ FailedCalls' = FailedCalls
          BY <4>4 DEF SaveRow, FixtureCalls, FailedCalls
        <5>. QED
          BY <1>0, <1>a, <5>1, <5>2 DEF Traced
      <4>. QED
        BY <2>5, <4>1, <4>2, <4>3, <4>4
    <3>. QED
      BY <1>0, <1>1, <2>1, <3>1, <3>2, <3>3
  <2>6. CASE \/ StartExecute(p) \/ LoadCheckpoint(p) \/ StopAtCap(p) \/ EndLoop(p)
             \/ Recheck(p) \/ Refuse(p) \/ Complete(p) \/ StartScore(p)
             \/ Derive(p) \/ WriteScore(p)
    <3>1. UNCHANGED <<losses, calls>> /\ Traced' = Traced
      BY <2>6, <1>b DEF StartExecute, LoadCheckpoint, StopAtCap, EndLoop, Recheck, Refuse,
                  Complete, StartScore, Derive, WriteScore
    <3>2. flight = 0 /\ flightNext >= 0
      <4>1. CASE Refuse(p)
        <5>1. pc[p] \notin {"fixture", "sent"}
          BY <4>1 DEF Refuse, Refused
        <5>. QED
          BY <1>0, <5>1
      <4>2. CASE ~Refuse(p)
        BY <1>0, <2>6, <4>2 DEF StartExecute, LoadCheckpoint, StopAtCap, EndLoop, Recheck,
                    Complete, StartScore, Derive, WriteScore
      <4>. QED
        BY <4>1, <4>2
    <3>. QED
      BY <1>0, <1>1, <2>1, <3>1, <3>2
  <2>. QED
    BY <1>3, <2>3, <2>4, <2>5, <2>6 DEF Fixture, Execute, Score
<1>. QED
  BY <1>2, <1>3 DEF Next

-----------------------------------------------------------------------------
(* The theorems for one invocation at a time *)

\* The inductive invariant of one invocation at a time.
LEMMA ResumeHolds == ASSUME ExposureAssumption, OneRunner PROVE Spec => [](TypeInv /\ ResumeInv)
<1>1. Init => TypeInv /\ ResumeInv
  BY InitTypes, InitResume
<1>2. TypeInv /\ ResumeInv /\ [Next]_vars => (TypeInv /\ ResumeInv)'
  <2>. SUFFICES ASSUME TypeInv, ResumeInv, [Next]_vars PROVE TypeInv' /\ ResumeInv'
    OBVIOUS
  <2>1. TypeInv' /\ DirectoryInv' /\ CallInv'
    BY StepTypes, StepDirectory, StepCalls
  <2>. QED
    BY <2>1 DEF ResumeInv, DirectoryInv
<1>. QED
  BY <1>1, <1>2, PTL DEF Spec

\* An execute command always finds a checkpoint it can resume from: a prefix of
\* the frozen order with nothing twice, whatever crashed before.
THEOREM OrderedPrefixHolds ==
  ASSUME ExposureAssumption, OneRunner PROVE Spec => []OrderedPrefix
<1>1. ResumeInv => OrderedPrefix
  BY DEF ResumeInv
<1>. QED
  BY <1>1, ResumeHolds, PTL

\* The recorded costs of fixture and checkpoint never pass the provider's cap.
THEOREM RecordedWithinCapHolds ==
  ASSUME ExposureAssumption, OneRunner PROVE Spec => []RecordedWithinCap
<1>1. ResumeInv => RecordedWithinCap
  BY DEF ResumeInv
<1>. QED
  BY <1>1, ResumeHolds, PTL

\* All rows were bought by code of the commit the fixture was approved for,
\* although rows do not record it and HEAD may move at any moment.
THEOREM OneApprovalHolds ==
  ASSUME ExposureAssumption, OneRunner PROVE Spec => []OneApproval
<1>1. ResumeInv => OneApproval
  BY DEF ResumeInv
<1>. QED
  BY <1>1, ResumeHolds, PTL

\* A provider with a failure marker is never completed or scored.
THEOREM FrozenStaysUnscoredHolds ==
  ASSUME ExposureAssumption, OneRunner PROVE Spec => []FrozenStaysUnscored
<1>1. ResumeInv => FrozenStaysUnscored
  BY DEF ResumeInv, OutputInv, FrozenStaysUnscored
<1>. QED
  BY <1>1, ResumeHolds, PTL

\* No more calls than requests, one fixture and one for each loss.
THEOREM CallsCountedHolds ==
  ASSUME ExposureAssumption, OneRunner PROVE Spec => []CallsCounted
<1>1. TypeInv /\ ResumeInv => CallsCounted
  <2>. SUFFICES ASSUME TypeInv, ResumeInv PROVE CallsCounted
    OBVIOUS
  <2>1. Len(log) \in Nat /\ Len(log) <= N /\ N \in Nat /\ calls \in Nat /\ losses \in Nat
    BY LenProperties DEF TypeInv, TypeOK, ResumeInv, OrderedPrefix, ExposureAssumption
  <2>2. /\ FixtureCalls \in 0 .. 1 /\ FailedCalls \in 0 .. 1 /\ InFlight \in 0 .. 1
    BY DEF FixtureCalls, FailedCalls, InFlight
  <2>3. FailedCalls = 1 => InFlight = 0 /\ Len(log) < N
    BY DEF FailedCalls, InFlight, ResumeInv, OutputInv, ExecuteInv, FixtureInv,
           ReceiptInv, Calling
  <2>4. InFlight = 1 => Len(log) < N \/ (FixtureCalls = 0 /\ Len(log) = 0)
    BY DEF FixtureCalls, InFlight, ResumeInv, LoopInv, FixtureInv, ReceiptInv, Calling
  <2>5. calls <= Len(log) + FixtureCalls + FailedCalls + InFlight + losses
    BY DEF ResumeInv, CallInv, Traced
  <2>. QED
    BY <2>1, <2>2, <2>3, <2>4, <2>5 DEF CallsCounted
<1>. QED
  BY <1>1, ResumeHolds, PTL

\* After a failure marker no further row is bought.
THEOREM FrozenBuysNothingHolds ==
  ASSUME ExposureAssumption, OneRunner PROVE Spec => FrozenBuysNothing
<1>1. TypeInv /\ ResumeInv /\ [Next]_vars => [NoRowAfterFreeze]_vars
  <2>. SUFFICES ASSUME ResumeInv, [Next]_vars, frozen PROVE log' = log
    BY DEF NoRowAfterFreeze
  <2>1. \A p \in Procs : pc[p] # "sent"
    BY DEF ResumeInv, ExecuteInv, Calling
  <2>2. UNCHANGED vars => log' = log
    BY DEF vars, files
  <2>3. Next => log' = log
    BY <2>1 DEF Next, Fixture, Execute, Score, files, StartFixture, PassFixture,
         FailFixture, StartExecute, LoadCheckpoint, Request, StopAtCap, SaveRow,
         Freeze, EndLoop, Recheck, Refuse, Complete, StartScore, Derive,
         WriteScore, Crash, EditCheckout, Goto
  <2>. QED
    BY <2>2, <2>3
<1>. QED
  BY <1>1, ResumeHolds, PTL DEF Spec, FrozenBuysNothing
=============================================================================
