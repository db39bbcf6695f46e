----------------------- MODULE CounterfactualRunner_proofs -----------------------
(***************************************************************************)
(* Theorems about CounterfactualRunner for every panel, every number of    *)
(* cases, every protocol and every cap, with the protocol edited at any    *)
(* time: what the files record stays within the caps of the protocol it    *)
(* was admitted under, what is compared is whole, what is announced is of  *)
(* one piece, and every provider is a PaidStage.                           *)
(***************************************************************************)
EXTENDS CounterfactualRunner, Counting_proofs

Manifests == [hash : Hashes \cup {None}, eligible : SUBSET Providers,
              content : [Files -> SUBSET Providers], steady : BOOLEAN]

\* Types, those of the operator's commands included.
FullTypeOK ==
  /\ TypeOK
  /\ {scores, published} \subseteq [Files -> SUBSET Providers]
  /\ {manifest, publishedManifest} \subseteq Manifests
  /\ readme \subseteq Providers

\* A command that runs loaded a protocol with caps that fit, an execute command the
\* one its fixture passed under; it keeps in memory what its own checkpoint costs.
CommandOf(v) ==
  /\ pc[v] # "idle" => loaded[v] \in Hashes /\ CapsFit(loaded[v])
  /\ pc[v] \in {"idle", "loop"} => attempt[v] = 0
  /\ pc[v] = "fixture" => fixture[v] = None
  /\ pc[v] \in {"loop", "sent"} =>
       fixture[v] = loaded[v] /\ ~marker[v] /\ spent[v] = Spent(log[v])
  /\ pc[v] = "sent" => ~Complete(v)
CommandInv == \A v \in Providers : CommandOf(v)

\* Nothing is recorded before the fixture receipt, and all of it within the caps that
\* the protocol of the receipt sets for the provider.
SpendingOf(v) ==
  /\ fixture[v] = None =>
       fixtureCost[v] = 0 /\ log[v] = <<>> /\ ~marker[v] /\ ~completion[v]
  /\ fixture[v] # None =>
       /\ CapsFit(fixture[v])
       /\ fixtureCost[v] <= FixtureCap[fixture[v]]
       /\ Spent(log[v]) <= HardCap[fixture[v]][v]
SpendingInv == \A v \in Providers : SpendingOf(v)

\* What a score command has seen as eligible stays so until it has written it, but for
\* the protocol when that is edited meanwhile.
WholeUnder(v, h, kept) ==
  /\ Complete(v) /\ ~marker[v] /\ tail[v] # "torn"
  /\ kept => \A i \in DOMAIN log[v] : log[v][i].hash = h
ScoreInv ==
  /\ at \in {"read", "write"} => \A v \in view : WholeUnder(v, hash, steady)
  /\ \A v \in manifest.eligible : WholeUnder(v, manifest.hash, manifest.steady)

\* A publish command has copied what the manifest names, and summarises the same.
PublishInv ==
  /\ at = "publish" => \A f \in Files \ left :
       published[f] = manifest.content[f] /\ scores[f] = manifest.content[f]
  /\ at = "summary" => /\ publishedManifest = manifest /\ published = manifest.content
                       /\ scores["scores"] = manifest.content["scores"]
  /\ PublishedTogether

\* The inductive invariant.
RunnerInv == FullTypeOK /\ CommandInv /\ SpendingInv /\ ScoreInv /\ PublishInv

-----------------------------------------------------------------------------
(* The operators of the model *)

\* What a checkpoint costs is a natural number, and so is what all files cost.
LEMMA SumsAreNatural ==
  ASSUME TypeOK
  PROVE  /\ \A v \in Providers : Spent(log[v]) \in Nat
         /\ FixtureTotal \in Nat /\ ExecutionTotal \in Nat
<1>1. \A v \in Providers : Spent(log[v]) \in Nat
  <2>. SUFFICES ASSUME NEW v \in Providers
                PROVE  Spent(log[v]) \in Nat
    OBVIOUS
  <2>1. log[v] \in Seq(Rows) /\ \A r \in Rows : r.cost \in Nat
    BY DEF TypeOK, Rows
  <2>. QED
    BY <2>1, CostsType DEF Spent
<1>2. FixtureTotal \in Nat
  BY RunnerAssumption, TotalType DEF TypeOK, FixtureTotal
<1>3. ExecutionTotal \in Nat
  <2>1. [v \in Providers |-> Spent(log[v])] \in [Providers -> Nat]
    BY <1>1
  <2>. QED
    BY <2>1, RunnerAssumption, TotalType DEF ExecutionTotal
<1>. QED
  BY <1>1, <1>2, <1>3

\* An empty checkpoint costs nothing.
LEMMA EmptySpent == Spent(<<>>) = 0
<1>1. [i \in DOMAIN <<>> |-> <<>>[i].cost] \in [{} -> Nat]
  OBVIOUS
<1>. QED
  BY <1>1, TotalZero DEF Spent

\* The next case of a checkpoint that is not complete is a case without a row.
LEMMA NextCaseIsOpen ==
  ASSUME TypeOK, NEW v \in Providers, ~Complete(v)
  PROVE  NextCase(v) \in 1 .. N /\ NextCase(v) \notin Answered(v)
<1>. DEFINE S == (1 .. N) \ Answered(v)
<1>1. S \in SUBSET Nat /\ S # {}
  <2>1. Answered(v) \in SUBSET (1 .. N)
    <3>. SUFFICES ASSUME NEW i \in DOMAIN log[v]
                  PROVE  log[v][i].case \in 1 .. N
      BY DEF Answered
    <3>1. log[v] \in Seq(Rows)
      BY DEF TypeOK
    <3>2. log[v][i] \in Rows
      BY <3>1, LenProperties, ElementOfSeq
    <3>. QED
      BY <3>2 DEF Rows
  <2>2. S # {}
    BY <2>1 DEF Complete
  <2>3. 1 .. N \in SUBSET Nat
    BY RunnerAssumption
  <2>. QED
    BY <2>2, <2>3
<1>2. \E c \in S : \A d \in S : c <= d
  <2>. HIDE DEF S
  <2>. QED
    BY <1>1, MinIsMember
<1>3. NextCase(v) \in S
  BY <1>2 DEF NextCase
<1>. QED
  BY <1>3

\* A saved row adds its case and its cost, and nothing else.
LEMMA RowSaved ==
  ASSUME TypeOK, hash \in Hashes, NEW v \in Providers, ~Complete(v), NEW c \in Nat,
         log' = [log EXCEPT ![v] =
                   Append(@, [case |-> NextCase(v), hash |-> hash, cost |-> c])]
  PROVE  /\ log' \in [Providers -> Seq(Rows)]
         /\ \A w \in Providers \ {v} : log'[w] = log[w]
         /\ Spent(log'[v]) = Spent(log[v]) + c
         /\ Answered(v)' = Answered(v) \cup {NextCase(v)}
<1>. DEFINE row == [case |-> NextCase(v), hash |-> hash, cost |-> c]
            old == log[v]
<1>1. row \in Rows /\ old \in Seq(Rows)
  BY NextCaseIsOpen DEF TypeOK, Rows
<1>2. log'[v] = Append(old, row) /\ \A w \in Providers \ {v} : log'[w] = log[w]
  BY DEF TypeOK
<1>3. Append(old, row) \in Seq(Rows)
  BY <1>1, AppendProperties
<1>4. log' \in [Providers -> Seq(Rows)]
  BY <1>3 DEF TypeOK
<1>5. Spent(Append(old, row)) = Spent(old) + c
  <2>1. \A r \in Rows : r.cost \in Nat
    BY DEF Rows
  <2>2. row.cost = c
    OBVIOUS
  <2>. HIDE DEF row, old
  <2>3. Spent(Append(old, row)) = Spent(old) + row.cost
    BY <1>1, <2>1, CostsAppend DEF Spent
  <2>. QED
    BY <2>2, <2>3
<1>6. /\ Len(old) \in Nat /\ DOMAIN old = 1 .. Len(old)
      /\ DOMAIN Append(old, row) = 1 .. Len(old) + 1
      /\ Append(old, row)[Len(old) + 1] = row
      /\ \A i \in 1 .. Len(old) : Append(old, row)[i] = old[i]
  <2>. HIDE DEF row, old
  <2>. QED
    BY <1>1, <1>3, AppendProperties, LenProperties
<1>7. Answered(v)' = Answered(v) \cup {NextCase(v)}
  <2>1. Answered(v)' = {Append(old, row)[i].case : i \in 1 .. Len(old) + 1}
    BY <1>2, <1>6 DEF Answered
  <2>2. Answered(v) = {old[i].case : i \in 1 .. Len(old)}
    BY <1>6 DEF Answered
  <2>3. row.case = NextCase(v)
    OBVIOUS
  <2>. HIDE DEF row, old
  <2>4. 1 .. Len(old) + 1 = 1 .. Len(old) \cup {Len(old) + 1}
    BY <1>6
  <2>5. {Append(old, row)[i].case : i \in 1 .. Len(old) + 1}
          = {old[i].case : i \in 1 .. Len(old)} \cup {row.case}
    BY <1>6, <2>4
  <2>. QED
    BY <2>1, <2>2, <2>3, <2>5
<1>. QED
  BY <1>2, <1>4, <1>5, <1>7
-----------------------------------------------------------------------------
(* Types *)

\* The part of TypeOK that is in the memory of the providers' commands.
MemoryTypes ==
  /\ pc \in [Providers -> {"idle", "fixture", "loop", "sent"}]
  /\ attempt \in [Providers -> 0 .. MaxRetries + 1]
  /\ loaded \in [Providers -> Hashes \cup {None}]
  /\ spent \in [Providers -> Nat] /\ total \in [Providers -> Nat]

\* A command that ends leaves types as they are.
LEMMA LeaveTypes ==
  ASSUME TypeOK, NEW v \in Providers, Leave(v)
  PROVE  MemoryTypes'
BY TransportAssumption DEF TypeOK, Leave, MemoryTypes

\* An attempt that may be made is counted within the retries.
LEMMA SendTypes ==
  ASSUME TypeOK, NEW v \in Providers, attempt[v] <= MaxRetries, Send(v)
  PROVE  attempt' \in [Providers -> 0 .. MaxRetries + 1]
<1>1. attempt[v] + 1 \in 0 .. MaxRetries + 1
  BY TransportAssumption DEF TypeOK
<1>. QED
  BY <1>1 DEF TypeOK, Send

\* Every step of a provider keeps the types; the operator's files are not touched.
LEMMA ProviderTypes ==
  ASSUME FullTypeOK, CommandInv, NEW v \in Providers,
         Fixture(v) \/ StartExecute(v) \/ Execute(v) \/ Crash(v) \/ CrashInAppend(v)
  PROVE  FullTypeOK'
<1>. USE RunnerAssumption, TransportAssumption
<1>1. TypeOK /\ CommandOf(v) /\ MemoryTypes
  BY DEF FullTypeOK, CommandInv, TypeOK, MemoryTypes
<1>2. SUFFICES TypeOK' /\ UNCHANGED directories
  BY DEF FullTypeOK, Manifests, directories
<1>3. ASSUME UNCHANGED <<protocol, directories, operator>>, MemoryTypes', losses' \in Nat,
             fixture' \in [Providers -> Hashes \cup {None}],
             fixtureCost' \in [Providers -> Nat], log' \in [Providers -> Seq(Rows)],
             tail' \in [Providers -> {"whole", "unended", "torn"}],
             marker' \in [Providers -> BOOLEAN], completion' \in [Providers -> BOOLEAN]
      PROVE  TypeOK' /\ UNCHANGED directories
  BY <1>1, <1>3 DEF TypeOK, MemoryTypes, protocol, directories, operator
<1>4. ASSUME UNCHANGED <<protocol, files, directories, operator>>, MemoryTypes',
             losses' = losses \/ Lose
      PROVE  TypeOK' /\ UNCHANGED directories
  <2>1. losses' \in Nat
    <3>1. losses \in Nat
      BY <1>1 DEF TypeOK
    <3>. QED
      BY <1>4, <3>1 DEF Lose
  <2>. QED
    BY <1>1, <1>3, <1>4, <2>1 DEF TypeOK, files, receipts, checkpoint
<1>5. CASE StartFixture(v)
  <2>1. attempt' \in [Providers -> 0 .. MaxRetries + 1]
    BY <1>1, <1>5, SendTypes DEF StartFixture, Goto, CommandOf
  <2>2. loaded' \in [Providers -> Hashes \cup {None}]
    BY <1>1, <1>5 DEF StartFixture, Load, TypeOK
  <2>3. MemoryTypes'
    BY <1>1, <1>5, <2>1, <2>2 DEF StartFixture, Goto, MemoryTypes
  <2>. QED
    BY <1>4, <1>5, <2>3 DEF StartFixture
<1>6. CASE FailFixture(v) \/ Crash(v)
  BY <1>1, <1>4, <1>6, LeaveTypes DEF FailFixture, Crash
<1>7. ASSUME NEW reply \in Replies, NEW c \in Costs, PassFixture(v, reply, c)
      PROVE  TypeOK' /\ UNCHANGED directories
  <2>1. /\ fixture' \in [Providers -> Hashes \cup {None}]
        /\ fixtureCost' \in [Providers -> Nat]
    BY <1>1, <1>7 DEF PassFixture, CommandOf, TypeOK
  <2>. QED
    BY <1>1, <1>3, <1>7, <2>1, LeaveTypes DEF PassFixture, TypeOK, checkpoint
<1>8. CASE StartExecute(v)
  <2>1. Spent(log[v]) \in Nat /\ FixtureTotal + ExecutionTotal \in Nat
    BY <1>1, SumsAreNatural
  <2>2. MemoryTypes'
    BY <1>1, <1>8, <2>1 DEF StartExecute, Load, Goto, MemoryTypes, TypeOK
  <2>. QED
    BY <1>4, <1>8, <2>2 DEF StartExecute
<1>9. CASE Request(v)
  <2>1. MemoryTypes'
    BY <1>1, <1>9, SendTypes DEF Request, Goto, CommandOf, MemoryTypes
  <2>. QED
    BY <1>4, <1>9, <2>1 DEF Request
<1>10. CASE StopAtCap(v)
  BY <1>1, <1>4, <1>10, LeaveTypes DEF StopAtCap
<1>11. ASSUME NEW fault \in SentFaults, Retry(v, fault)
       PROVE  TypeOK' /\ UNCHANGED directories
  <2>1. MemoryTypes'
    BY <1>1, <1>11, SendTypes DEF Retry, Repeats, MemoryTypes
  <2>. QED
    BY <1>4, <1>11, <2>1 DEF Retry
<1>12. ASSUME NEW reply \in Replies, NEW c \in Costs, SaveRow(v, reply, c)
       PROVE  TypeOK' /\ UNCHANGED directories
  <2>1. c \in Nat /\ hash \in Hashes /\ ~Complete(v)
    BY <1>1, <1>12 DEF SaveRow, Goto, CommandOf, TypeOK
  <2>2. log' \in [Providers -> Seq(Rows)]
    BY <1>1, <1>12, <2>1, RowSaved DEF SaveRow
  <2>3. tail' \in [Providers -> {"whole", "unended", "torn"}]
    BY <1>1, <1>12 DEF SaveRow, Appended, TypeOK
  <2>4. spent' \in [Providers -> Nat] /\ total' \in [Providers -> Nat]
    BY <1>1, <1>12, <2>1 DEF SaveRow, MemoryTypes
  <2>5. /\ pc' \in [Providers -> {"idle", "fixture", "loop", "sent"}]
        /\ attempt' \in [Providers -> 0 .. MaxRetries + 1]
    BY <1>1, <1>12 DEF SaveRow, Goto, MemoryTypes
  <2>. QED
    BY <1>1, <1>3, <1>12, <2>2, <2>3, <2>4, <2>5 DEF SaveRow, MemoryTypes, TypeOK, receipts
<1>13. CASE Freeze(v)
  <2>1. marker' \in [Providers -> BOOLEAN]
    BY <1>1, <1>13 DEF Freeze, TypeOK
  <2>. QED
    BY <1>1, <1>3, <1>13, <2>1, LeaveTypes DEF Freeze, TypeOK, receipts, checkpoint
<1>14. CASE WriteCompletion(v)
  <2>1. completion' \in [Providers -> BOOLEAN]
    BY <1>1, <1>14 DEF WriteCompletion, TypeOK
  <2>. QED
    BY <1>1, <1>3, <1>14, <2>1, LeaveTypes DEF WriteCompletion, TypeOK, checkpoint
<1>15. CASE CrashInAppend(v)
  <2>1. hash \in Hashes /\ ~Complete(v) /\ losses' \in Nat
    <3>1. hash \in Hashes /\ losses \in Nat
      BY <1>1 DEF TypeOK
    <3>. QED
      BY <1>1, <1>15, <3>1 DEF CrashInAppend, CommandOf, Lose
  <2>2. log' \in [Providers -> Seq(Rows)]
    <3>1. CASE UNCHANGED log
      BY <1>1, <3>1 DEF TypeOK
    <3>2. CASE ~UNCHANGED log
      <4>1. PICK c \in Costs :
              log' = [log EXCEPT ![v] =
                        Append(@, [case |-> NextCase(v), hash |-> hash, cost |-> c])]
        BY <1>15, <3>2 DEF CrashInAppend
      <4>. QED
        BY <1>1, <2>1, <4>1, RowSaved
    <3>. QED
      BY <3>1, <3>2
  <2>3. tail' \in [Providers -> {"whole", "unended", "torn"}]
    BY <1>1, <1>15 DEF CrashInAppend, TypeOK
  <2>. QED
    BY <1>1, <1>3, <1>15, <2>1, <2>2, <2>3, LeaveTypes DEF CrashInAppend, TypeOK, receipts
<1>. QED
  BY <1>5, <1>6, <1>7, <1>8, <1>9, <1>10, <1>11, <1>12, <1>13, <1>14, <1>15
     DEF Fixture, Execute

\* A step of the operator, or an edit of the protocol, keeps the types.
LEMMA OperatorTypes ==
  ASSUME FullTypeOK, CommandInv,
         StartScore \/ Score \/ Publish \/ CrashOperator \/ EditProtocol
  PROVE  FullTypeOK'
<1>. DEFINE Kept == UNCHANGED <<protocol, files, local>>
<1>1. /\ TypeOK
      /\ scores \in [Files -> SUBSET Providers] /\ published \in [Files -> SUBSET Providers]
      /\ manifest \in Manifests /\ publishedManifest \in Manifests
      /\ readme \subseteq Providers
  BY DEF FullTypeOK
<1>2. ASSUME Kept, losses' = losses \/ Lose, steady' \in BOOLEAN,
             at' \in {"idle", "read", "write", "publish", "summary"},
             view' \subseteq Providers, readme' \subseteq Providers,
             release' \in {"none", "partial", "done"},
             scores' \in [Files -> SUBSET Providers],
             published' \in [Files -> SUBSET Providers],
             manifest' \in Manifests, publishedManifest' \in Manifests
      PROVE  FullTypeOK'
  <2>1. manifest'.hash \in Hashes \cup {None} /\ manifest'.eligible \subseteq Providers
    BY <1>2 DEF Manifests
  <2>2. TypeOK'
    BY <1>1, <1>2, <2>1 DEF TypeOK, Lose, protocol, files, receipts, checkpoint, local
  <2>. QED
    BY <1>2, <2>2 DEF FullTypeOK, Manifests
<1>3. ASSUME Kept, UNCHANGED directories, losses' = losses \/ Lose, steady' \in BOOLEAN,
             at' \in {"idle", "read", "write", "publish", "summary"}, view' \subseteq Providers
      PROVE  FullTypeOK'
  BY <1>1, <1>2, <1>3 DEF directories, TypeOK
<1>4. CASE StartScore \/ CrashOperator \/ StartPublish \/ StartWriting
  BY <1>1, <1>3, <1>4
     DEF StartScore, CrashOperator, StartPublish, StartWriting, Rest, TypeOK
<1>5. ASSUME NEW v \in Providers, ReadProvider(v) \/ ReadTorn(v)
      PROVE  FullTypeOK'
  BY <1>1, <1>3, <1>5 DEF ReadProvider, ReadTorn, Rest, TypeOK
<1>6. ASSUME NEW f \in Files, WriteScore(f)
      PROVE  FullTypeOK'
  <2>1. scores' \in [Files -> SUBSET Providers]
    BY <1>1, <1>6 DEF WriteScore, TypeOK
  <2>. QED
    BY <1>1, <1>2, <1>6, <2>1 DEF WriteScore, TypeOK
<1>7. CASE WriteManifest
  <2>1. manifest' \in Manifests
    BY <1>1, <1>7 DEF WriteManifest, TypeOK, Manifests
  <2>. QED
    BY <1>1, <1>2, <1>7, <2>1 DEF WriteManifest, Rest, TypeOK
<1>8. ASSUME NEW f \in Files, CopyOutput(f)
      PROVE  FullTypeOK'
  <2>1. published' \in [Files -> SUBSET Providers]
    BY <1>1, <1>8 DEF CopyOutput
  <2>. QED
    BY <1>1, <1>2, <1>8, <2>1 DEF CopyOutput, TypeOK
<1>9. ASSUME NEW f \in Files, RefuseOutput(f)
      PROVE  FullTypeOK'
  BY <1>3, <1>9 DEF RefuseOutput, Rest
<1>10. CASE CopyManifest
  BY <1>1, <1>2, <1>10 DEF CopyManifest, TypeOK
<1>11. CASE WriteReadme
  <2>1. readme' \subseteq Providers
    BY <1>1, <1>11 DEF WriteReadme, Files
  <2>. QED
    BY <1>1, <1>2, <1>11, <2>1 DEF WriteReadme, Rest, TypeOK
<1>12. CASE EditProtocol
  BY <1>1, <1>12
     DEF EditProtocol, FullTypeOK, TypeOK, Manifests, files, receipts, checkpoint, directories,
         local
<1>. QED
  BY <1>4, <1>5, <1>6, <1>7, <1>8, <1>9, <1>10, <1>11, <1>12 DEF Score, Publish

-----------------------------------------------------------------------------
(* Commands and spending: one provider at a time *)

\* Nothing of provider w changes.
Untouched(w) ==
  /\ pc'[w] = pc[w] /\ attempt'[w] = attempt[w] /\ loaded'[w] = loaded[w]
  /\ spent'[w] = spent[w] /\ total'[w] = total[w]
  /\ fixture'[w] = fixture[w] /\ fixtureCost'[w] = fixtureCost[w]
  /\ log'[w] = log[w] /\ tail'[w] = tail[w]
  /\ marker'[w] = marker[w] /\ completion'[w] = completion[w]

\* A provider that is not touched keeps its part of the invariant, whatever becomes of
\* the protocol file.
LEMMA UntouchedHolds ==
  ASSUME NEW w \in Providers, Untouched(w), CommandOf(w), SpendingOf(w)
  PROVE  CommandOf(w)' /\ SpendingOf(w)'
BY DEF Untouched, CommandOf, SpendingOf, CapsFit, Complete, Answered

\* What a provider's command may do to its files: it leaves the protocol and a complete
\* bundle alone.
Careful(v) ==
  /\ UNCHANGED <<protocol, directories, operator>>
  /\ \A w \in Providers \ {v} : Untouched(w)
  /\ Complete(v) => log'[v] = log[v] /\ marker'[v] = marker[v] /\ tail'[v] = tail[v]

\* A command that ends forgets what it held, and the files decide.
LEMMA LeaveHolds ==
  ASSUME TypeOK, NEW v \in Providers, Leave(v)
  PROVE  CommandOf(v)' /\ \A w \in Providers \ {v} :
           /\ pc'[w] = pc[w] /\ attempt'[w] = attempt[w] /\ loaded'[w] = loaded[w]
           /\ spent'[w] = spent[w] /\ total'[w] = total[w]
BY DEF TypeOK, Leave, CommandOf

\* A saved row keeps the provider's part of SpendingInv.
LEMMA RowHolds ==
  ASSUME TypeOK, NEW v \in Providers, CommandOf(v), SpendingOf(v), pc[v] = "sent",
         NEW c \in Costs, Affordable(v, c),
         log' = [log EXCEPT ![v] =
                   Append(@, [case |-> NextCase(v), hash |-> hash, cost |-> c])],
         UNCHANGED <<fixture, fixtureCost>>
  PROVE  /\ SpendingOf(v)'
         /\ Spent(log'[v]) = Spent(log[v]) + c
         /\ \A w \in Providers \ {v} : log'[w] = log[w]
<1>1. /\ hash \in Hashes /\ ~Complete(v) /\ c \in Nat /\ loaded[v] # None
      /\ fixture[v] = loaded[v] /\ spent[v] = Spent(log[v])
  BY RunnerAssumption DEF TypeOK, CommandOf, None
<1>2. /\ Spent(log'[v]) = Spent(log[v]) + c
      /\ \A w \in Providers \ {v} : log'[w] = log[w]
  BY <1>1, RowSaved
<1>3. Spent(log'[v]) <= HardCap[fixture[v]][v]
  BY <1>1, <1>2 DEF Affordable
<1>4. SpendingOf(v)'
  BY <1>1, <1>2, <1>3 DEF SpendingOf, CapsFit
<1>. QED
  BY <1>2, <1>4

\* Every step of a provider's command keeps its part of the invariant and touches
\* nothing of another provider, nor a complete bundle.
LEMMA ProviderStep ==
  ASSUME RunnerInv, NEW v \in Providers,
         Fixture(v) \/ StartExecute(v) \/ Execute(v) \/ Crash(v) \/ CrashInAppend(v)
  PROVE  Careful(v) /\ CommandOf(v)' /\ SpendingOf(v)'
<1>1. TypeOK /\ CommandOf(v) /\ SpendingOf(v)
  BY DEF RunnerInv, FullTypeOK, CommandInv, SpendingInv
<1>2. ASSUME UNCHANGED files
      PROVE  SpendingOf(v)' /\ UNCHANGED <<fixture, fixtureCost, log, tail, marker, completion>>
  BY <1>1, <1>2 DEF SpendingOf, CapsFit, files, receipts, checkpoint
<1>3. CASE StartFixture(v)
  <2>1. CommandOf(v)'
    BY <1>1, <1>2, <1>3 DEF StartFixture, Load, Goto, CommandOf, CapsFit, TypeOK
  <2>2. Careful(v)
    BY <1>1, <1>2, <1>3 DEF StartFixture, Load, Goto, Send, Careful, Untouched, TypeOK
  <2>. QED
    BY <1>2, <1>3, <2>1, <2>2 DEF StartFixture
<1>4. CASE FailFixture(v) \/ Crash(v) \/ StopAtCap(v)
  <2>1. UNCHANGED <<protocol, files, directories, operator>> /\ Leave(v)
    BY <1>4 DEF FailFixture, Crash, StopAtCap
  <2>2. Careful(v)
    BY <1>1, <1>2, <2>1, LeaveHolds DEF Careful, Untouched
  <2>. QED
    BY <1>1, <1>2, <2>1, <2>2, LeaveHolds
<1>5. ASSUME NEW reply \in Replies, NEW c \in Costs, PassFixture(v, reply, c)
      PROVE  Careful(v) /\ CommandOf(v)' /\ SpendingOf(v)'
  <2>1. /\ UNCHANGED <<protocol, log, tail, marker, completion, directories, operator>>
        /\ Leave(v)
        /\ fixture' = [fixture EXCEPT ![v] = loaded[v]]
        /\ fixtureCost' = [fixtureCost EXCEPT ![v] = c] /\ c <= FixtureCap[loaded[v]]
        /\ pc[v] = "fixture"
    BY <1>5 DEF PassFixture, checkpoint
  <2>2. Careful(v)
    BY <1>1, <2>1, LeaveHolds DEF Careful, Untouched, TypeOK
  <2>3. /\ fixture'[v] = loaded[v] /\ fixtureCost'[v] = c
        /\ CapsFit(loaded[v]) /\ fixture[v] = None /\ loaded[v] \in Hashes \ {None}
    BY <1>1, <2>1, RunnerAssumption DEF CommandOf, TypeOK, None
  <2>4. Spent(log'[v]) <= HardCap[loaded[v]][v]
    BY <1>1, <2>1, <2>3, EmptySpent, RunnerAssumption DEF SpendingOf
  <2>5. SpendingOf(v)'
    BY <2>1, <2>3, <2>4 DEF SpendingOf, CapsFit
  <2>. QED
    BY <1>1, <2>1, <2>2, <2>5, LeaveHolds
<1>6. CASE StartExecute(v)
  <2>1. CommandOf(v)'
    BY <1>1, <1>2, <1>6
       DEF StartExecute, Load, Goto, MayExecute, CommandOf, CapsFit, TypeOK
  <2>2. Careful(v)
    BY <1>1, <1>2, <1>6 DEF StartExecute, Load, Goto, Careful, Untouched, TypeOK
  <2>. QED
    BY <1>2, <1>6, <2>1, <2>2 DEF StartExecute
<1>7. CASE Request(v)
  <2>1. CommandOf(v)'
    BY <1>1, <1>2, <1>7
       DEF Request, Goto, CommandOf, CapsFit, Complete, Answered, TypeOK, protocol
  <2>2. Careful(v)
    BY <1>1, <1>2, <1>7 DEF Request, Goto, Send, Careful, Untouched, TypeOK
  <2>. QED
    BY <1>2, <1>7, <2>1, <2>2 DEF Request
<1>8. ASSUME NEW fault \in SentFaults, Retry(v, fault)
      PROVE  Careful(v) /\ CommandOf(v)' /\ SpendingOf(v)'
  <2>1. CommandOf(v)'
    BY <1>1, <1>2, <1>8
       DEF Retry, CommandOf, CapsFit, Complete, Answered, TypeOK, protocol
  <2>2. Careful(v)
    BY <1>1, <1>2, <1>8 DEF Retry, Send, Careful, Untouched, TypeOK
  <2>. QED
    BY <1>2, <1>8, <2>1, <2>2 DEF Retry
<1>9. ASSUME NEW reply \in Replies, NEW c \in Costs, SaveRow(v, reply, c)
      PROVE  Careful(v) /\ CommandOf(v)' /\ SpendingOf(v)'
  <2>1. /\ UNCHANGED <<protocol, fixture, fixtureCost, marker, completion, directories,
                       operator>>
        /\ Affordable(v, c) /\ pc[v] = "sent" /\ ~Complete(v)
        /\ log' = [log EXCEPT ![v] =
                     Append(@, [case |-> NextCase(v), hash |-> hash, cost |-> c])]
    BY <1>1, <1>9 DEF SaveRow, Goto, receipts, CommandOf
  <2>2. /\ SpendingOf(v)' /\ Spent(log'[v]) = Spent(log[v]) + c
        /\ \A w \in Providers \ {v} : log'[w] = log[w]
    BY <1>1, <2>1, RowHolds
  <2>3. CommandOf(v)'
    BY <1>1, <1>9, <2>1, <2>2 DEF SaveRow, Goto, CommandOf, CapsFit, TypeOK, protocol
  <2>4. Careful(v)
    BY <1>1, <1>9, <2>1, <2>2 DEF SaveRow, Goto, Careful, Untouched, TypeOK
  <2>. QED
    BY <2>2, <2>3, <2>4
<1>10. CASE Freeze(v)
  <2>1. /\ UNCHANGED <<protocol, fixture, fixtureCost, log, tail, completion, directories,
                       operator>>
        /\ Leave(v) /\ ~Complete(v) /\ marker' = [marker EXCEPT ![v] = TRUE]
        /\ fixture[v] # None
    BY <1>1, <1>10, RunnerAssumption DEF Freeze, receipts, checkpoint, CommandOf, None
  <2>2. Careful(v)
    BY <1>1, <2>1, LeaveHolds DEF Careful, Untouched, TypeOK
  <2>. QED
    BY <1>1, <2>1, <2>2, LeaveHolds DEF SpendingOf, CapsFit
<1>11. CASE WriteCompletion(v)
  <2>1. /\ UNCHANGED <<protocol, fixture, fixtureCost, log, tail, marker, directories, operator>>
        /\ Leave(v) /\ completion' = [completion EXCEPT ![v] = TRUE]
        /\ fixture[v] # None
    BY <1>1, <1>11, RunnerAssumption DEF WriteCompletion, checkpoint, CommandOf, None
  <2>2. Careful(v)
    BY <1>1, <2>1, LeaveHolds DEF Careful, Untouched, TypeOK
  <2>. QED
    BY <1>1, <2>1, <2>2, LeaveHolds DEF SpendingOf, CapsFit
<1>12. CASE CrashInAppend(v)
  <2>1. /\ UNCHANGED <<protocol, fixture, fixtureCost, marker, completion, directories,
                       operator>>
        /\ Leave(v) /\ pc[v] = "sent" /\ ~Complete(v)
    BY <1>1, <1>12 DEF CrashInAppend, receipts, CommandOf
  <2>2. \A w \in Providers \ {v} : tail'[w] = tail[w]
    BY <1>1, <1>12 DEF CrashInAppend, TypeOK
  <2>3. SpendingOf(v)' /\ \A w \in Providers \ {v} : log'[w] = log[w]
    <3>1. CASE UNCHANGED log
      BY <1>1, <2>1, <3>1 DEF SpendingOf, CapsFit
    <3>2. CASE ~UNCHANGED log
      <4>1. PICK c \in Costs :
              /\ Affordable(v, c)
              /\ log' = [log EXCEPT ![v] =
                           Append(@, [case |-> NextCase(v), hash |-> hash, cost |-> c])]
        BY <1>12, <3>2 DEF CrashInAppend
      <4>. QED
        BY <1>1, <2>1, <4>1, RowHolds
    <3>. QED
      BY <3>1, <3>2
  <2>4. Careful(v)
    BY <1>1, <2>1, <2>3, <2>2, LeaveHolds DEF Careful, Untouched
  <2>. QED
    BY <1>1, <2>1, <2>3, <2>4, LeaveHolds
<1>. QED
  BY <1>3, <1>4, <1>5, <1>6, <1>7, <1>8, <1>9, <1>10, <1>11, <1>12 DEF Fixture, Execute

-----------------------------------------------------------------------------
(* The invariant *)

LEMMA InitHolds == Init => RunnerInv
<1>. SUFFICES ASSUME Init
              PROVE  RunnerInv
  OBVIOUS
<1>. USE RunnerAssumption, TransportAssumption
<1>1. FullTypeOK
  BY DEF Init, FullTypeOK, TypeOK, Manifests, NoManifest
<1>2. CommandInv /\ SpendingInv
  BY DEF Init, CommandInv, CommandOf, SpendingInv, SpendingOf
<1>3. ScoreInv /\ PublishInv
  BY DEF Init, ScoreInv, PublishInv, PublishedTogether, NoManifest
<1>. QED
  BY <1>1, <1>2, <1>3 DEF RunnerInv

\* A provider's step keeps the whole invariant: what a score command has seen and what
\* a manifest names are complete bundles, which no command touches.
LEMMA ProviderHolds ==
  ASSUME RunnerInv, NEW v \in Providers,
         Fixture(v) \/ StartExecute(v) \/ Execute(v) \/ Crash(v) \/ CrashInAppend(v)
  PROVE  RunnerInv'
<1>1. Careful(v) /\ CommandOf(v)' /\ SpendingOf(v)'
  BY ProviderStep
<1>2. FullTypeOK'
  BY ProviderTypes DEF RunnerInv
<1>3. CommandInv' /\ SpendingInv'
  <2>. SUFFICES ASSUME NEW w \in Providers
                PROVE  CommandOf(w)' /\ SpendingOf(w)'
    BY DEF CommandInv, SpendingInv
  <2>1. CASE w = v
    BY <1>1, <2>1
  <2>2. CASE w # v
    BY <1>1, <2>2, UntouchedHolds DEF RunnerInv, CommandInv, SpendingInv, Careful
  <2>. QED
    BY <2>1, <2>2
<1>4. ScoreInv'
  <2>1. UNCHANGED <<hash, at, view, steady, manifest>>
    BY <1>1 DEF Careful, protocol, directories, operator
  <2>2. view \subseteq Providers /\ manifest.eligible \subseteq Providers /\ ScoreInv
    BY DEF RunnerInv, FullTypeOK, TypeOK
  <2>3. ASSUME at' \in {"read", "write"}, NEW w \in view'
        PROVE  WholeUnder(w, hash, steady)'
    <3>1. WholeUnder(w, hash, steady) /\ w \in Providers
      BY <2>1, <2>2, <2>3 DEF ScoreInv
    <3>2. log'[w] = log[w] /\ marker'[w] = marker[w] /\ tail'[w] = tail[w]
      BY <1>1, <3>1 DEF Careful, Untouched, WholeUnder
    <3>. QED
      BY <2>1, <3>1, <3>2 DEF WholeUnder, Complete, Answered
  <2>4. ASSUME NEW w \in manifest'.eligible
        PROVE  WholeUnder(w, manifest.hash, manifest.steady)'
    <3>1. WholeUnder(w, manifest.hash, manifest.steady) /\ w \in Providers
      BY <2>1, <2>2, <2>4 DEF ScoreInv
    <3>2. log'[w] = log[w] /\ marker'[w] = marker[w] /\ tail'[w] = tail[w]
      BY <1>1, <3>1 DEF Careful, Untouched, WholeUnder
    <3>. QED
      BY <2>1, <3>1, <3>2 DEF WholeUnder, Complete, Answered
  <2>. QED
    BY <2>3, <2>4 DEF ScoreInv
<1>5. PublishInv'
  BY <1>1 DEF RunnerInv, Careful, PublishInv, PublishedTogether, directories, operator
<1>. QED
  BY <1>2, <1>3, <1>4, <1>5 DEF RunnerInv

\* So does a step of the operator: a score command adds only providers that are whole,
\* a publish command only files the manifest names, and an edit of the protocol is
\* noticed by the history of the score command it meets.
LEMMA OperatorHolds ==
  ASSUME RunnerInv, StartScore \/ Score \/ Publish \/ CrashOperator \/ EditProtocol
  PROVE  RunnerInv'
<1>1. FullTypeOK'
  BY OperatorTypes DEF RunnerInv
<1>2. CommandInv' /\ SpendingInv'
  <2>. SUFFICES ASSUME NEW w \in Providers
                PROVE  CommandOf(w)' /\ SpendingOf(w)'
    BY DEF CommandInv, SpendingInv
  <2>1. UNCHANGED <<files, local>>
    BY DEF StartScore, Score, StartWriting, WriteManifest, WriteScore, ReadProvider, ReadTorn,
       Publish, StartPublish, CopyManifest, WriteReadme, CopyOutput, RefuseOutput,
       CrashOperator, EditProtocol
  <2>. QED
    BY <2>1, UntouchedHolds
       DEF RunnerInv, CommandInv, SpendingInv, Untouched, files, receipts, checkpoint, local
<1>3. ScoreInv /\ PublishInv /\ TypeOK
  BY DEF RunnerInv, FullTypeOK
<1>4. ASSUME UNCHANGED <<log, tail, marker>>,
             at' \in {"read", "write"} =>
               \A w \in view' : WholeUnder(w, hash', steady'),
             \A w \in manifest'.eligible : WholeUnder(w, manifest'.hash, manifest'.steady)
      PROVE  ScoreInv'
  BY <1>4 DEF ScoreInv, WholeUnder, Complete, Answered
<1>5. ASSUME UNCHANGED <<log, tail, marker, manifest>>, at' \notin {"read", "write"}
      PROVE  ScoreInv'
  BY <1>3, <1>4, <1>5 DEF ScoreInv
<1>6. ASSUME UNCHANGED <<manifest, published, publishedManifest, readme, release>>,
             at' # "summary", at' # "publish" \/ left' = Files
      PROVE  PublishInv'
  BY <1>3, <1>6 DEF PublishInv, PublishedTogether
<1>7. SUFFICES ScoreInv' /\ PublishInv'
  BY <1>1, <1>2 DEF RunnerInv
<1>. USE DEF files, receipts, checkpoint, directories, protocol
<1>8. CASE StartScore
  BY <1>3, <1>4, <1>6, <1>8 DEF StartScore, ScoreInv
<1>9. CASE CrashOperator
  BY <1>5, <1>6, <1>9 DEF CrashOperator, Rest
<1>10. CASE EditProtocol
  <2>1. \A w \in view : WholeUnder(w, hash, steady) => WholeUnder(w, hash', FALSE)
    BY DEF WholeUnder
  <2>2. ScoreInv'
    BY <1>3, <1>4, <1>5, <1>10, <2>1 DEF EditProtocol, ScoreInv
  <2>3. PublishInv'
    BY <1>3, <1>10 DEF EditProtocol, PublishInv, PublishedTogether
  <2>. QED
    BY <2>2, <2>3
<1>11. CASE StartWriting
  BY <1>3, <1>4, <1>6, <1>11 DEF StartWriting, ScoreInv
<1>12. ASSUME NEW v \in Providers, ReadProvider(v)
       PROVE  ScoreInv' /\ PublishInv'
  <2>1. Eligible(v) => WholeUnder(v, hash, steady)
    BY DEF Eligible, Loads, WholeUnder
  <2>2. ScoreInv'
    BY <1>3, <1>4, <1>12, <2>1 DEF ReadProvider, ScoreInv
  <2>. QED
    BY <1>6, <1>12, <2>2 DEF ReadProvider
<1>13. ASSUME NEW v \in Providers, ReadTorn(v)
       PROVE  ScoreInv' /\ PublishInv'
  BY <1>5, <1>6, <1>13 DEF ReadTorn, Rest
<1>14. ASSUME NEW f \in Files, WriteScore(f)
       PROVE  ScoreInv' /\ PublishInv'
  BY <1>3, <1>4, <1>6, <1>14 DEF WriteScore, ScoreInv
<1>15. CASE WriteManifest
  <2>1. ScoreInv'
    BY <1>3, <1>4, <1>15 DEF WriteManifest, Rest, ScoreInv
  <2>2. PublishInv'
    BY <1>3, <1>15 DEF WriteManifest, Rest, PublishInv, PublishedTogether
  <2>. QED
    BY <2>1, <2>2
<1>16. CASE StartPublish
  BY <1>5, <1>6, <1>16 DEF StartPublish
<1>17. ASSUME NEW f \in Files, CopyOutput(f)
       PROVE  ScoreInv' /\ PublishInv'
  <2>1. ScoreInv'
    BY <1>5, <1>17 DEF CopyOutput
  <2>2. \A g \in Files \ left' :
          published'[g] = manifest'.content[g] /\ scores'[g] = manifest'.content[g]
    BY <1>3, <1>17 DEF CopyOutput, Current, PublishInv, RunnerInv, FullTypeOK
  <2>. QED
    BY <1>17, <2>1, <2>2 DEF CopyOutput, PublishInv, PublishedTogether
<1>18. ASSUME NEW f \in Files, RefuseOutput(f)
       PROVE  ScoreInv' /\ PublishInv'
  BY <1>5, <1>6, <1>18 DEF RefuseOutput, Rest
<1>19. CASE CopyManifest
  <2>1. ScoreInv'
    BY <1>5, <1>19 DEF CopyManifest
  <2>2. /\ published \in [Files -> SUBSET Providers]
        /\ manifest.content \in [Files -> SUBSET Providers]
    BY DEF RunnerInv, FullTypeOK, Manifests
  <2>3. published = manifest.content /\ scores["scores"] = manifest.content["scores"]
    BY <1>3, <1>19, <2>2 DEF CopyManifest, PublishInv, Files
  <2>. QED
    BY <1>19, <2>1, <2>3 DEF CopyManifest, PublishInv, PublishedTogether
<1>20. CASE WriteReadme
  <2>1. ScoreInv'
    BY <1>5, <1>20 DEF WriteReadme, Rest
  <2>. QED
    BY <1>3, <1>20, <2>1 DEF WriteReadme, Rest, PublishInv, PublishedTogether
<1>. QED
  BY <1>8, <1>9, <1>10, <1>11, <1>12, <1>13, <1>14, <1>15, <1>16, <1>17, <1>18, <1>19, <1>20
     DEF Score, Publish

\* The variables of the providers, the protocol and the operator are in their types in
\* every state, whatever the panel, the caps and the bounds are; and what the commands
\* hold in memory, what the files record, and what is scored and published agree.
THEOREM RunnerInvHolds == Spec => []RunnerInv
<1>1. RunnerInv /\ [Next]_vars => RunnerInv'
  <2>. SUFFICES ASSUME RunnerInv, [Next]_vars
                PROVE  RunnerInv'
    OBVIOUS
  <2>1. CASE UNCHANGED vars
    <3>. USE <2>1 DEF RunnerInv, vars, protocol, files, receipts, checkpoint, directories,
                      local, operator
    <3>1. FullTypeOK'
      BY DEF FullTypeOK, TypeOK
    <3>2. CommandInv' /\ SpendingInv'
      BY UntouchedHolds DEF Untouched, CommandInv, SpendingInv
    <3>3. ScoreInv' /\ PublishInv'
      BY DEF ScoreInv, WholeUnder, Complete, Answered, PublishInv, PublishedTogether
    <3>. QED
      BY <3>1, <3>2, <3>3
  <2>. QED
    BY <2>1, ProviderHolds, OperatorHolds DEF Next
<1>. QED
  BY <1>1, InitHolds, PTL DEF Spec

\* All variables stay in their types.
THEOREM TypeCorrect == Spec => []TypeOK
<1>1. RunnerInv => TypeOK
  BY DEF RunnerInv, FullTypeOK
<1>. QED
  BY <1>1, RunnerInvHolds, PTL

\* What a manifest compares are whole bundles of providers that never failed, in
\* checkpoints that no crash spoiled, bought under its own protocol unless that was
\* edited while score ran: no command, crash or edit after the score changes that.
THEOREM ScoredIsWholeHolds == Spec => []ScoredIsWhole
<1>1. RunnerInv => ScoredIsWhole
  BY DEF RunnerInv, ScoreInv, WholeUnder, ScoredIsWhole
<1>. QED
  BY <1>1, RunnerInvHolds, PTL

\* A release that was announced is of one piece, its summary included, whatever
\* interrupted commands left in the score and publication directories.
THEOREM PublishedTogetherHolds == Spec => []PublishedTogether
<1>1. RunnerInv => PublishedTogether
  BY DEF RunnerInv, PublishInv
<1>. QED
  BY <1>1, RunnerInvHolds, PTL

-----------------------------------------------------------------------------
(* The caps *)

\* Recorded spending keeps both caps of the protocol its provider was admitted under,
\* the total one but for an overdraft of the fixtures, although every execute command
\* adds up the other providers once, when it starts, and although the file may be
\* edited while it runs: a command spends by the caps it loaded, the answers of each
\* provider stay under its own, and load_protocol refuses a protocol whose caps, with
\* what it sets aside for fixtures, do not fit under the total.
THEOREM RecordedWithinTotalHolds == Spec => []RecordedWithinTotal
<1>1. RunnerInv => RecordedWithinTotal
  <2>. SUFFICES ASSUME RunnerInv
                PROVE  RecordedWithinTotal
    OBVIOUS
  <2>1. TypeOK /\ SpendingInv /\ IsFiniteSet(Providers)
    BY RunnerAssumption DEF RunnerInv, FullTypeOK
  <2>2. ASSUME NEW h \in Hashes
        PROVE  FixturesUnder(h) + AnswersUnder(h) <= TotalCap[h] + Overdraft(h)
    <3>. DEFINE fees == [v \in Providers |-> IF fixture[v] = h THEN fixtureCost[v] ELSE 0]
                rows == [v \in Providers |-> IF fixture[v] = h THEN Spent(log[v]) ELSE 0]
    <3>1. /\ HardCap[h] \in [Providers -> Nat]
          /\ FixtureTotalCap[h] \in Nat /\ TotalCap[h] \in Nat /\ h # None
      BY RunnerAssumption DEF None
    <3>2. fees \in [Providers -> Nat] /\ rows \in [Providers -> Nat]
      BY <2>1, SumsAreNatural DEF TypeOK
    <3>3. \A v \in Providers : rows[v] <= HardCap[h][v]
      <4>. SUFFICES ASSUME NEW v \in Providers
                    PROVE  rows[v] <= HardCap[h][v]
        OBVIOUS
      <4>1. CASE fixture[v] = h
        BY <2>1, <3>1, <4>1 DEF SpendingInv, SpendingOf
      <4>2. CASE fixture[v] # h
        <5>1. rows[v] = 0 /\ HardCap[h][v] \in Nat
          BY <3>1, <4>2
        <5>. QED
          BY <5>1
      <4>. QED
        BY <4>1, <4>2
    <3>4. FixturesUnder(h) = Total(fees) /\ AnswersUnder(h) = Total(rows)
      BY DEF FixturesUnder, AnswersUnder
    <3>5. (\A v \in Providers : fixture[v] # h) =>
            (\A v \in Providers : fees[v] = 0) /\ (\A v \in Providers : rows[v] = 0)
      OBVIOUS
    <3>. HIDE DEF fees, rows
    <3>6. Total(fees) \in Nat /\ Total(rows) \in Nat /\ Total(HardCap[h]) \in Nat
      BY <2>1, <3>1, <3>2, TotalType
    <3>7. CASE \E v \in Providers : fixture[v] = h
      <4>1. Total(HardCap[h]) + FixtureTotalCap[h] <= TotalCap[h]
        BY <2>1, <3>1, <3>7 DEF SpendingInv, SpendingOf, CapsFit
      <4>2. Total(rows) <= Total(HardCap[h])
        BY <2>1, <3>1, <3>2, <3>3, TotalMonotone
      <4>. QED
        BY <3>1, <3>4, <3>6, <4>1, <4>2 DEF Overdraft
    <3>8. CASE \A v \in Providers : fixture[v] # h
      <4>1. Total(fees) = 0 /\ Total(rows) = 0
        BY <3>2, <3>5, <3>8, TotalZero
      <4>. QED
        BY <3>1, <3>4, <4>1 DEF Overdraft
    <3>. QED
      BY <3>7, <3>8
  <2>3. \A v \in Providers : fixture[v] # None => Spent(log[v]) <= HardCap[fixture[v]][v]
    BY <2>1 DEF SpendingInv, SpendingOf
  <2>. QED
    BY <2>1, <2>2, <2>3 DEF RecordedWithinTotal
<1>. QED
  BY <1>1, RunnerInvHolds, PTL

-----------------------------------------------------------------------------
(* Refinement *)

\* The abstract state of the stage of v under h, as Promise(v, h) maps it.
AnswersOf(v, h) == [c \in 1 .. N |-> IF fixture[v] = h THEN AnswerOf(v, c) ELSE "open"]
SpentOf(v, h) == IF fixture[v] = h THEN fixtureCost[v] + Spent(log[v]) ELSE 0
LimitOf(v, h) == HardCap[h][v] + FixtureCap[h]

\* At the start every stage is open, nothing is spent and nothing published.
LEMMA InitRefines ==
  ASSUME Init, NEW v \in Providers, NEW h \in Hashes
  PROVE  Promise(v, h)!Init
<1>1. fixture[v] # h
  BY RunnerAssumption DEF Init, None
<1>. QED
  BY <1>1 DEF Promise!Init

\* What a stage has spent is a number within its limit.
LEMMA SpentIsLimited ==
  RunnerInv => \A v \in Providers, h \in Hashes : SpentOf(v, h) \in 0 .. LimitOf(v, h)
<1>. SUFFICES ASSUME RunnerInv, NEW v \in Providers, NEW h \in Hashes
              PROVE  SpentOf(v, h) \in 0 .. LimitOf(v, h)
  OBVIOUS
<1>1. TypeOK /\ SpendingOf(v) /\ h # None
  BY RunnerAssumption DEF RunnerInv, FullTypeOK, SpendingInv, None
<1>2. /\ fixtureCost[v] \in Nat /\ Spent(log[v]) \in Nat
      /\ FixtureCap[h] \in Nat /\ HardCap[h][v] \in Nat
  <2>1. fixtureCost[v] \in Nat /\ Spent(log[v]) \in Nat
    BY <1>1, SumsAreNatural DEF TypeOK
  <2>2. FixtureCap[h] \in Nat /\ HardCap[h][v] \in Nat
    BY RunnerAssumption
  <2>. QED
    BY <2>1, <2>2
<1>. QED
  BY <1>1, <1>2 DEF SpentOf, LimitOf, SpendingOf

\* The same of the next state.
LEMMA SpentStaysLimited ==
  RunnerInv' => (\A v \in Providers, h \in Hashes : SpentOf(v, h) \in 0 .. LimitOf(v, h))'
BY SpentIsLimited, PTL

\* A step that leaves the receipts, the rows and the marker of v alone is a stutter of
\* its stages.
LEMMA QuietRefines ==
  ASSUME NEW v \in Providers, NEW h \in Hashes, fixture'[v] = fixture[v],
         log'[v] = log[v], marker'[v] = marker[v], fixtureCost'[v] = fixtureCost[v],
         completion'[v] = completion[v]
  PROVE  UNCHANGED Promise(v, h)!vars
<1>1. \A c \in 1 .. N : AnswerOf(v, c)' = AnswerOf(v, c)
  BY DEF AnswerOf, Answered, NextCase
<1>. QED
  BY <1>1 DEF Promise!vars

\* So is one that leaves the receipt of another protocol, or of none.
LEMMA ElsewhereRefines ==
  ASSUME NEW v \in Providers, NEW h \in Hashes, fixture[v] # h, fixture'[v] # h
  PROVE  UNCHANGED Promise(v, h)!vars
BY DEF Promise!vars

\* A saved row answers the next case of the stage and spends its cost.
LEMMA RowRefines ==
  ASSUME RunnerInv, RunnerInv', NEW v \in Providers, NEW h \in Hashes,
         pc[v] = "sent", fixture[v] = h, NEW c \in Costs, Affordable(v, c),
         log' = [log EXCEPT ![v] =
                   Append(@, [case |-> NextCase(v), hash |-> hash, cost |-> c])],
         UNCHANGED <<fixture, fixtureCost, marker, completion>>
  PROVE  Promise(v, h)!Next
<1>1. TypeOK /\ CommandOf(v)
  BY DEF RunnerInv, FullTypeOK, CommandInv
<1>2. hash \in Hashes /\ ~Complete(v) /\ ~marker[v] /\ c \in Nat
  BY <1>1, RunnerAssumption DEF TypeOK, CommandOf
<1>3. /\ NextCase(v) \in 1 .. N /\ NextCase(v) \notin Answered(v)
      /\ Answered(v)' = Answered(v) \cup {NextCase(v)}
      /\ Spent(log'[v]) = Spent(log[v]) + c
  BY <1>1, <1>2, NextCaseIsOpen, RowSaved
<1>. PICK r \in 1 .. N : r = NextCase(v)
  BY <1>3
<1>4. AnswersOf(v, h)[r] = "open"
  BY <1>2, <1>3 DEF AnswersOf, AnswerOf
<1>5. AnswersOf(v, h)' = [AnswersOf(v, h) EXCEPT ![r] = "answered"]
  BY <1>2, <1>3 DEF AnswersOf, AnswerOf
<1>6. SpentOf(v, h)' \in SpentOf(v, h) .. LimitOf(v, h)
  <2>1. SpentOf(v, h)' = SpentOf(v, h) + c
    <3>1. Spent(log[v]) \in Nat /\ fixtureCost[v] \in Nat
      BY <1>1, SumsAreNatural DEF TypeOK
    <3>. QED
      BY <1>2, <1>3, <3>1 DEF SpentOf
  <2>2. SpentOf(v, h) \in 0 .. LimitOf(v, h) /\ SpentOf(v, h)' \in 0 .. LimitOf(v, h)
    BY SpentIsLimited, SpentStaysLimited DEF LimitOf
  <2>3. LimitOf(v, h) \in Nat
    BY RunnerAssumption DEF LimitOf
  <2>. QED
    BY <1>2, <2>1, <2>2, <2>3
<1>7. Promise(v, h)!Save(r)
  BY <1>4, <1>5, <1>6 DEF Promise!Save, AnswersOf, SpentOf, LimitOf
<1>. QED
  BY <1>7 DEF Promise!Next

\* A fixture that passes under h prepares the stage of h, one that passes under another
\* protocol is a stutter of it.
LEMMA FixtureRefines ==
  ASSUME RunnerInv, RunnerInv', NEW v \in Providers, NEW h \in Hashes,
         NEW reply \in Replies, NEW c \in Costs, PassFixture(v, reply, c)
  PROVE  [Promise(v, h)!Next]_(Promise(v, h)!vars)
<1>1. TypeOK /\ CommandOf(v) /\ SpendingOf(v)
  BY DEF RunnerInv, FullTypeOK, CommandInv, SpendingInv
<1>2. /\ UNCHANGED <<log, marker, completion>>
      /\ fixture[v] = None /\ fixture'[v] = loaded[v]
      /\ log[v] = <<>> /\ ~marker[v] /\ ~completion[v]
  BY <1>1 DEF PassFixture, checkpoint, CommandOf, SpendingOf, TypeOK
<1>3. fixture[v] # h
  BY <1>2, RunnerAssumption DEF None
<1>4. CASE loaded[v] # h
  BY <1>2, <1>3, <1>4, ElsewhereRefines
<1>5. CASE loaded[v] = h
  <2>1. SpentOf(v, h) = 0 /\ SpentOf(v, h)' \in 0 .. LimitOf(v, h)
    BY <1>3, SpentStaysLimited DEF SpentOf, LimitOf
  <2>2. \A r \in 1 .. N : AnswerOf(v, r)' = "open"
    BY <1>2 DEF AnswerOf, Answered
  <2>3. AnswersOf(v, h)' = AnswersOf(v, h)
    BY <1>3, <2>2 DEF AnswersOf
  <2>4. Promise(v, h)!Prepare
    BY <1>2, <1>3, <2>1, <2>3 DEF Promise!Prepare, AnswersOf, SpentOf, LimitOf
  <2>. QED
    BY <2>4 DEF Promise!Next
<1>. QED
  BY <1>4, <1>5

\* Every step of the commands is a step of each provider's stage or a stutter of it.
LEMMA StepRefines ==
  ASSUME RunnerInv, RunnerInv', [Next]_vars, NEW v \in Providers, NEW h \in Hashes
  PROVE  [Promise(v, h)!Next]_(Promise(v, h)!vars)
<1>1. TypeOK /\ CommandOf(v) /\ SpendingOf(v)
  BY DEF RunnerInv, FullTypeOK, CommandInv, SpendingInv
<1>2. ASSUME UNCHANGED files
      PROVE  UNCHANGED Promise(v, h)!vars
  BY <1>2, QuietRefines DEF files, receipts, checkpoint
<1>3. CASE UNCHANGED vars \/ StartScore \/ Score \/ Publish \/ CrashOperator \/ EditProtocol
  <2>1. UNCHANGED files
    BY <1>3 DEF vars, StartScore, Score, StartWriting, WriteManifest, WriteScore,
       ReadProvider, ReadTorn, Publish, StartPublish, CopyManifest, WriteReadme, CopyOutput,
       RefuseOutput, CrashOperator, EditProtocol
  <2>. QED
    BY <1>2, <2>1
<1>4. ASSUME NEW w \in Providers \ {v},
             Fixture(w) \/ StartExecute(w) \/ Execute(w) \/ Crash(w) \/ CrashInAppend(w)
      PROVE  UNCHANGED Promise(v, h)!vars
  <2>1. Careful(w)
    BY <1>4, ProviderStep
  <2>. QED
    BY <1>4, <2>1, QuietRefines DEF Careful, Untouched
<1>5. CASE \/ StartFixture(v) \/ FailFixture(v) \/ StartExecute(v) \/ Request(v)
           \/ StopAtCap(v) \/ Crash(v) \/ \E fault \in SentFaults : Retry(v, fault)
  BY <1>2, <1>5 DEF StartFixture, FailFixture, StartExecute, Request, StopAtCap, Crash, Retry
<1>6. ASSUME NEW reply \in Replies, NEW c \in Costs, PassFixture(v, reply, c)
      PROVE  [Promise(v, h)!Next]_(Promise(v, h)!vars)
  BY <1>6, FixtureRefines
<1>7. ASSUME NEW reply \in Replies, NEW c \in Costs, SaveRow(v, reply, c)
      PROVE  [Promise(v, h)!Next]_(Promise(v, h)!vars)
  BY <1>7, RowRefines, ElsewhereRefines DEF SaveRow, Goto, receipts
<1>8. CASE Freeze(v)
  <2>1. /\ UNCHANGED <<log, fixture, fixtureCost, completion>>
        /\ marker'[v] = TRUE /\ ~marker[v] /\ ~Complete(v)
    BY <1>1, <1>8 DEF Freeze, receipts, checkpoint, CommandOf, TypeOK
  <2>2. CASE fixture[v] # h
    BY <2>1, <2>2, ElsewhereRefines
  <2>3. CASE fixture[v] = h
    <3>1. NextCase(v) \in 1 .. N /\ NextCase(v) \notin Answered(v)
      BY <1>1, <2>1, NextCaseIsOpen
    <3>2. Answered(v)' = Answered(v) /\ NextCase(v)' = NextCase(v)
      BY <2>1 DEF Answered, NextCase
    <3>. PICK r \in 1 .. N : r = NextCase(v)
      BY <3>1
    <3>3. AnswersOf(v, h)[r] = "open"
      BY <2>1, <3>1 DEF AnswersOf, AnswerOf
    <3>4. AnswersOf(v, h)' = [AnswersOf(v, h) EXCEPT ![r] = "frozen"]
      BY <2>1, <2>3, <3>1, <3>2 DEF AnswersOf, AnswerOf
    <3>5. SpentOf(v, h)' \in SpentOf(v, h) .. LimitOf(v, h)
      <4>1. SpentOf(v, h)' = SpentOf(v, h)
        BY <2>1 DEF SpentOf
      <4>2. SpentOf(v, h) \in 0 .. LimitOf(v, h) /\ LimitOf(v, h) \in Nat
        BY SpentIsLimited, RunnerAssumption DEF LimitOf
      <4>. QED
        BY <4>1, <4>2
    <3>6. Promise(v, h)!ChargeFailure(r)
      BY <2>1, <3>3, <3>4, <3>5 DEF Promise!ChargeFailure, AnswersOf, SpentOf, LimitOf
    <3>. QED
      BY <3>6 DEF Promise!Next
  <2>. QED
    BY <2>2, <2>3
<1>9. CASE WriteCompletion(v)
  <2>1. /\ UNCHANGED <<log, marker, fixture, fixtureCost>>
        /\ Complete(v) /\ completion'[v] = TRUE
    BY <1>1, <1>9 DEF WriteCompletion, checkpoint, TypeOK
  <2>2. CASE fixture[v] # h
    BY <2>1, <2>2, ElsewhereRefines
  <2>3. CASE fixture[v] = h
    <3>1. \A c \in 1 .. N : AnswerOf(v, c) = "answered" /\ AnswerOf(v, c)' = AnswerOf(v, c)
      BY <2>1 DEF AnswerOf, Complete, Answered, NextCase
    <3>2. Promise(v, h)!Publish
      BY <2>1, <2>3, <3>1 DEF Promise!Publish
    <3>. QED
      BY <3>2 DEF Promise!Next
  <2>. QED
    BY <2>2, <2>3
<1>10. CASE CrashInAppend(v)
  <2>1. UNCHANGED <<fixture, fixtureCost, marker, completion>> /\ pc[v] = "sent"
    BY <1>10 DEF CrashInAppend, receipts
  <2>2. CASE UNCHANGED log \/ fixture[v] # h
    BY <2>1, <2>2, QuietRefines, ElsewhereRefines
  <2>3. CASE ~UNCHANGED log /\ fixture[v] = h
    <3>1. PICK c \in Costs :
            /\ Affordable(v, c)
            /\ log' = [log EXCEPT ![v] =
                         Append(@, [case |-> NextCase(v), hash |-> hash, cost |-> c])]
      BY <1>10, <2>3 DEF CrashInAppend
    <3>. QED
      BY <2>1, <2>3, <3>1, RowRefines
  <2>. QED
    BY <2>2, <2>3
<1>. QED
  BY <1>3, <1>4, <1>5, <1>6, <1>7, <1>8, <1>9, <1>10 DEF Next, Fixture, Execute

\* Every provider keeps the promises of PaidStage by the caps of the protocol it was
\* admitted under, through crashes in an append, torn checkpoints, edits of the protocol
\* and the commands of the other providers.
THEOREM ImplementsPaidStageHolds == Spec => ImplementsPaidStage
<1>1. Init => \A v \in Providers, h \in Hashes : Promise(v, h)!Init
  BY InitRefines
<1>2. RunnerInv /\ RunnerInv' /\ [Next]_vars =>
        [\A v \in Providers, h \in Hashes : PromisedStep(v, h)]_vars
  BY StepRefines DEF PromisedStep
<1>. QED
  BY <1>1, <1>2, RunnerInvHolds, PTL DEF Spec, ImplementsPaidStage

=============================================================================
