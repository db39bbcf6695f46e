------------------------ MODULE StageExecutor_proofs ------------------------
(***************************************************************************)
(* Theorems about StageExecutor for every set of processes, every finite   *)
(* set of requests and every bound, cap, pool size and retry limit.        *)
(***************************************************************************)
EXTENDS StageInvariant, Counting_proofs

\* Every sum of the model is a sum of finitely many natural numbers.
LEMMA SumsAreNatural ==
  ASSUME TypeOK
  PROVE  /\ Incremental \in Nat /\ Total(failureCost) \in Nat
         /\ Recorded \in Nat /\ \A p \in Procs : Reserved(p) \in Nat
<1>. USE StageAssumption DEF TypeOK
<1>1. Incremental \in Nat
  <2>1. [r \in Requests |-> IF r \in Imported THEN 0 ELSE responseCost[r]]
          \in [Requests -> Nat]
    OBVIOUS
  <2>. QED
    BY <2>1, TotalType DEF Incremental
<1>2. Total(failureCost) \in Nat
  BY TotalType
<1>3. ASSUME NEW p \in Procs
      PROVE  Reserved(p) \in Nat
  <2>1. [r \in Requests |-> IF call[p][r] = "none" THEN 0 ELSE Bound[r]]
          \in [Requests -> Nat]
    OBVIOUS
  <2>. QED
    BY <2>1, TotalType DEF Reserved
<1>. QED
  BY <1>1, <1>2, <1>3 DEF Recorded

\* The head of a queue that is not empty is one of the requests in it.
LEMMA HeadOfQueue ==
  ASSUME TypeOK, NEW p \in Procs, queue[p] # {}
  PROVE  Min(queue[p]) \in queue[p] /\ Min(queue[p]) \in Requests
<1>1. queue[p] \in SUBSET Nat /\ queue[p] \in SUBSET Requests
  BY StageAssumption DEF TypeOK
<1>. QED
  BY <1>1, MinIsMember

\* Every variable keeps its type: in particular no total ever becomes negative
\* and no record names a request or commit the stage does not know.
THEOREM TypeCorrect == Spec => []TypeOK
<1>. USE StageAssumption
<1>1. Init => TypeOK
  BY DEF Init, TypeOK, NoCalls, Zeros, CallStates, FailureKinds
<1>2. TypeOK /\ [Next]_vars => TypeOK'
  <2>. SUFFICES ASSUME TypeOK, [Next]_vars
                PROVE  TypeOK'
    OBVIOUS
  <2>. USE DEF TypeOK, disk, checkout, scanned, window, Goto
  <2>1. ASSUME NEW p \in Procs, AcquireLock(p)
        PROVE  TypeOK'
    BY <2>1 DEF AcquireLock, Held
  <2>2. ASSUME NEW p \in Procs, CheckContract(p)
        PROVE  TypeOK'
    BY <2>2 DEF CheckContract, Held
  <2>3. ASSUME NEW p \in Procs, Scan(p)
        PROVE  TypeOK'
    <3>1. Recorded \in Nat
      BY SumsAreNatural
    <3>2. Loaded \in SUBSET Requests /\ Pending \in SUBSET Requests
      BY DEF Loaded, Pending, Answered
    <3>. QED
      BY <2>3, <3>1, <3>2 DEF Scan, Held, Executing
  <2>4. ASSUME NEW p \in Procs, Submit(p)
        PROVE  TypeOK'
    <3>1. Min(queue[p]) \in Requests
      BY <2>4, HeadOfQueue DEF Submit, CanSubmit
    <3>. QED
      BY <2>4, <3>1 DEF Submit, CallStates
  <2>5. ASSUME NEW p \in Procs, EndFill(p)
        PROVE  TypeOK'
    BY <2>5 DEF EndFill, Held, Executing
  <2>6. ASSUME NEW p \in Procs, Collect(p)
        PROVE  TypeOK'
    BY <2>6 DEF Collect, Held, Executing, Finished
  <2>7. ASSUME NEW p \in Procs, NEW r \in Requests, HandleSuccess(p, r)
        PROVE  TypeOK'
    BY <2>7 DEF HandleSuccess, AfterHandling, AfterBatch, Held, Executing, CallStates
  <2>8. ASSUME NEW p \in Procs, NEW r \in Requests, HandleFailure(p, r)
        PROVE  TypeOK'
    <3>1. FailureBound(p, r) \in Nat
      BY DEF FailureBound
    <3>. QED
      BY <2>8, <3>1 DEF HandleFailure, AfterHandling, AfterBatch, Held, Executing,
                        CallStates
  <2>9. ASSUME NEW p \in Procs, Stop(p)
        PROVE  TypeOK'
    BY <2>9 DEF Stop, Held
  <2>10. ASSUME NEW p \in Procs, CompleteStage(p)
         PROVE  TypeOK'
    BY <2>10 DEF CompleteStage, Held
  <2>11. ASSUME NEW p \in Procs, PoolShutdown(p)
         PROVE  TypeOK'
    BY <2>11 DEF PoolShutdown, Held, NoCalls, Zeros, CallStates
  <2>12. ASSUME NEW p \in Procs, Release(p)
         PROVE  TypeOK'
    BY <2>12 DEF Release, Forget, NoCalls, Zeros, CallStates
  <2>13. ASSUME NEW p \in Procs, NEW r \in Requests, Answer(p, r)
         PROVE  TypeOK'
    <3>1. CASE \E c \in 1 .. Bound[r] :
                 /\ call' = [call EXCEPT ![p][r] = "ok"]
                 /\ price' = [price EXCEPT ![p][r] = c]
                 /\ billed' = billed + c
                 /\ UNCHANGED faults
      <4>1. PICK c \in 1 .. Bound[r] :
                 /\ call' = [call EXCEPT ![p][r] = "ok"]
                 /\ price' = [price EXCEPT ![p][r] = c]
                 /\ billed' = billed + c
                 /\ UNCHANGED faults
        BY <3>1
      <4>2. c \in Nat
        OBVIOUS
      <4>4. billed' \in Nat
        BY <4>1, <4>2
      <4>5. price' \in [Procs -> [Requests -> Nat]]
        BY <4>1, <4>2
      <4>6. call' \in [Procs -> [Requests -> CallStates]] /\ faults' \in Nat
        BY <4>1 DEF CallStates
      <4>. QED
        BY <2>13, <4>4, <4>5, <4>6 DEF Answer
    <3>2. CASE \E kind \in FailureKinds :
                 /\ faults < MaxFaults
                 /\ faults' = faults + 1
                 /\ call' = [call EXCEPT ![p][r] = kind]
                 /\ billed' = billed + (IF kind = "throttled" THEN 0 ELSE Bound[r])
                 /\ UNCHANGED price
      BY <2>13, <3>2 DEF Answer, CallStates
    <3>. QED
      BY <2>13, <3>1, <3>2 DEF Answer
  <2>14. ASSUME NEW p \in Procs, Interrupt(p)
         PROVE  TypeOK'
    BY <2>14 DEF Interrupt, Held
  <2>15. ASSUME NEW p \in Procs, Crash(p)
         PROVE  TypeOK'
    BY <2>15 DEF Crash, Forget, NoCalls, Zeros, CallStates
  <2>16. ASSUME NEW p \in Procs, Fixture(p)
         PROVE  TypeOK'
    <3>1. CASE StartFixture(p)
      BY <3>1 DEF StartFixture
    <3>2. CASE WriteFixture(p)
      BY <3>2 DEF WriteFixture
    <3>3. CASE FixtureFails(p)
      BY <3>3 DEF FixtureFails
    <3>. QED
      BY <2>16, <3>1, <3>2, <3>3 DEF Fixture
  <2>17. CASE RemoveStaleLock
    BY <2>17 DEF RemoveStaleLock, local
  <2>18. CASE EditCheckout
    BY <2>18 DEF EditCheckout, local
  <2>19. CASE UNCHANGED vars
    BY <2>19 DEF vars, local
  <2>. QED
    BY <2>1, <2>2, <2>3, <2>4, <2>5, <2>6, <2>7, <2>8, <2>9, <2>10, <2>11, <2>12,
       <2>13, <2>14, <2>15, <2>16, <2>17, <2>18, <2>19
       DEF Next, Run
<1>. QED
  BY <1>1, <1>2, PTL DEF Spec

\* A failure receipt is written for a request that had none but retryable ones:
\* the contract failure that exhausts the recovery attempts is terminal.
LEMMA FailureKeepsReceipts ==
  ASSUME TypeOK, ReceiptInv, NEW p \in Procs, NEW r \in Requests,
         OpenRequest(p, r), HandleFailure(p, r)
  PROVE  ReceiptInv'
<1>1. /\ contractFailures \in [Requests -> Nat] /\ Recovery \in Nat
      /\ terminal \subseteq Requests
  BY StageAssumption DEF TypeOK
<1>2. /\ contractFailures' = [contractFailures EXCEPT
                               ![r] = @ + (IF call[p][r] = "contract" THEN 1 ELSE 0)]
      /\ terminal' = terminal \cup (IF RetryEligible(p, r) THEN {} ELSE {r})
      /\ responseCommit' = responseCommit /\ responseCost' = responseCost
  BY DEF HandleFailure
<1>3. contractFailures[r] <= Recovery
  BY <1>1 DEF OpenRequest, ReceiptInv
<1>4. call[p][r] = "contract" /\ contractFailures[r] = Recovery => r \in terminal'
  BY <1>1, <1>2 DEF OpenRequest, RetryEligible
<1>. SUFFICES ASSUME NEW s \in Requests
              PROVE  /\ contractFailures'[s] <= Recovery + 1
                     /\ contractFailures'[s] = Recovery + 1 => s \in terminal'
                     /\ s \in terminal' => responseCommit[s] = NoCommit
  BY <1>2 DEF ReceiptInv
<1>5. CASE s = r
  BY <1>1, <1>2, <1>3, <1>4, <1>5 DEF OpenRequest
<1>6. CASE s # r
  BY <1>1, <1>2, <1>6 DEF ReceiptInv
<1>. QED
  BY <1>5, <1>6

\* Every step keeps what the lock is worth: its holder caches the files as they
\* are, and nothing in its queue or its window was answered or refused.
LEMMA ControlHolds == Spec => []ControlInv
<1>. USE StageAssumption
<1>1. Init => ControlInv
  <2>. SUFFICES ASSUME Init
                PROVE  ControlInv
    OBVIOUS
  <2>1. TypeOK
    BY DEF Init, TypeOK, NoCalls, Zeros, CallStates, FailureKinds
  <2>. QED
    BY <2>1 DEF Init, ControlInv, HolderInv, QuietInv, CommitInv, CacheInv, WindowInv,
       ReceiptInv, DrainInv, PublishedInv, NoCalls, Zeros, Held, Executing, Scanned,
       Quiet, Answered
<1>2. ControlInv /\ TypeOK' /\ [Next]_vars => ControlInv'
  <2>. SUFFICES ASSUME ControlInv, TypeOK', [Next]_vars
                PROVE  ControlInv'
    OBVIOUS
  <2>. USE DEF ControlInv, TypeOK, disk, checkout, scanned, window, Goto, HolderInv, 
       QuietInv, CommitInv, CacheInv, WindowInv, OpenRequest,
       ReceiptInv, DrainInv, PublishedInv, Held, Executing, Scanned, Quiet, Answered
  <2>1. ASSUME NEW p \in Procs, AcquireLock(p)
        PROVE  ControlInv'
    BY <2>1 DEF AcquireLock, LockAvailable
  <2>2. ASSUME NEW p \in Procs, CheckContract(p)
        PROVE  ControlInv'
    BY <2>2 DEF CheckContract
  <2>3. ASSUME NEW p \in Procs, Scan(p)
        PROVE  ControlInv'
    BY <2>3 DEF Scan, ResponseDrifted, TerminalPending, Loaded, Pending
  <2>4. ASSUME NEW p \in Procs, Submit(p)
        PROVE  ControlInv'
    <3>1. Min(queue[p]) \in Requests /\ Min(queue[p]) \in queue[p]
      BY <2>4, HeadOfQueue DEF Submit, CanSubmit
    <3>. QED
      BY <2>4, <3>1 DEF Submit, CallStates
  <2>5. ASSUME NEW p \in Procs, EndFill(p)
        PROVE  ControlInv'
    <3>1. HolderInv'
      BY <2>5 DEF EndFill, InFlight
    <3>2. QuietInv'
      BY <2>5 DEF EndFill, InFlight
    <3>3. CommitInv'
      BY <2>5 DEF EndFill, InFlight
    <3>4. CacheInv'
      BY <2>5 DEF EndFill, InFlight
    <3>5. WindowInv'
      BY <2>5 DEF EndFill, InFlight
    <3>6. ReceiptInv'
      BY <2>5 DEF EndFill, InFlight
    <3>7. DrainInv'
      BY <2>5 DEF EndFill, InFlight
    <3>8. PublishedInv'
      BY <2>5 DEF EndFill, InFlight
    <3>. QED
      BY <3>1, <3>2, <3>3, <3>4, <3>5, <3>6, <3>7, <3>8
  <2>6. ASSUME NEW p \in Procs, Collect(p)
        PROVE  ControlInv'
    <3>1. HolderInv'
      BY <2>6 DEF Collect
    <3>2. QuietInv'
      BY <2>6 DEF Collect
    <3>3. CommitInv'
      BY <2>6 DEF Collect
    <3>4. CacheInv'
      BY <2>6 DEF Collect
    <3>5. WindowInv'
      BY <2>6 DEF Collect
    <3>6. ReceiptInv'
      BY <2>6 DEF Collect
    <3>7. DrainInv'
      BY <2>6 DEF Collect
    <3>8. PublishedInv'
      BY <2>6 DEF Collect
    <3>. QED
      BY <3>1, <3>2, <3>3, <3>4, <3>5, <3>6, <3>7, <3>8
  <2>7. ASSUME NEW p \in Procs, NEW r \in Requests, HandleSuccess(p, r)
        PROVE  ControlInv'
    <3>20. /\ \A q \in Procs : pc[q] \in Held \cup {"abandon"} => q = p
           /\ \A q \in Procs \ {p} : pc'[q] = pc[q] /\ call'[q] = call[q]
           /\ commit[p] \in Commits /\ commit[p] # NoCommit
           /\ responseCommit[r] = NoCommit /\ r \notin terminal
           /\ r \notin queue[p] /\ pc[p] = "handle"
      BY <2>7 DEF HandleSuccess, AfterHandling
    <3>21. /\ responseCommit'[r] = commit[p]
           /\ \A s \in Requests \ {r} : responseCommit'[s] = responseCommit[s]
           /\ commit' = commit /\ queue' = queue /\ prior' = prior
           /\ contractFailures' = contractFailures /\ terminal' = terminal
           /\ existing'[p] = existing[p] \cup {r}
           /\ call'[p][r] = "none"
           /\ \A s \in Requests \ {r} : call'[p][s] = call[p][s] /\ price'[p][s] = price[p][s]
      BY <2>7 DEF HandleSuccess, AfterHandling
    <3>1. HolderInv'
      BY <2>7 DEF HandleSuccess, AfterHandling, AfterBatch, InFlight
    <3>2. QuietInv'
      BY <2>7 DEF HandleSuccess, AfterHandling, AfterBatch, InFlight
    <3>3. CommitInv'
      BY <2>7 DEF HandleSuccess, AfterHandling, AfterBatch, InFlight
    <3>4. CacheInv'
      <4>1. \A s \in Requests : s \in Answered' <=> s \in Answered \cup {r}
        BY <3>20, <3>21
      <4>2. \A q \in Procs : pc'[q] \in Scanned => q = p
        BY <3>20
      <4>3. \A s \in Answered : responseCommit[s] = commit[p]
        BY <3>20
      <4>5. \A s \in Answered' : responseCommit'[s] = commit'[p]
        <5>. SUFFICES ASSUME NEW s \in Requests, s \in Answered'
                      PROVE  responseCommit'[s] = commit'[p]
          OBVIOUS
        <5>1. CASE s = r
          BY <5>1, <3>21
        <5>2. CASE s # r
          <6>1. s \in Answered
            BY <5>2, <4>1
          <6>. QED
            BY <5>2, <6>1, <3>21, <4>3
        <5>. QED
          BY <5>1, <5>2
      <4>6. existing'[p] = Answered'
        BY <3>20, <3>21, <4>1, ZenonT(40)
      <4>. QED
        BY <4>2, <4>5, <4>6
    <3>5. WindowInv'
      <4>. SUFFICES ASSUME NEW q \in Procs, NEW s \in Requests
                    PROVE  /\ pc'[q] \in Scanned /\ s \in queue'[q] => OpenRequest(q, s)'
                           /\ call'[q][s] # "none" =>
                                /\ OpenRequest(q, s)'
                                /\ pc'[q] \in Scanned => s \notin queue'[q]
                           /\ call'[q][s] = "ok" => price'[q][s] \in 0 .. Bound[s]
        OBVIOUS
      <4>1. CASE q = p
        BY <4>1, <3>20, <3>21
      <4>2. CASE q # p
        <5>1. pc[q] \in {"idle", "fixture"}
          BY <4>2, <3>20
        <5>2. call[q][s] = "none"
          BY <5>1
        <5>3. pc'[q] \notin Scanned /\ call'[q][s] = "none"
          BY <4>2, <3>20, <5>1, <5>2
        <5>. QED
          BY <5>3
      <4>. QED
        BY <4>1, <4>2
    <3>6. ReceiptInv'
      BY <2>7 DEF HandleSuccess, AfterHandling, AfterBatch, InFlight
    <3>7. DrainInv'
      BY <2>7 DEF HandleSuccess, AfterHandling, AfterBatch, InFlight
    <3>8. PublishedInv'
      BY <2>7 DEF HandleSuccess, AfterHandling, AfterBatch, InFlight
    <3>. QED
      BY <3>1, <3>2, <3>3, <3>4, <3>5, <3>6, <3>7, <3>8
  <2>8. ASSUME NEW p \in Procs, NEW r \in Requests, HandleFailure(p, r)
        PROVE  ControlInv'
    <3>1. HolderInv'
      BY <2>8 DEF HandleFailure, AfterHandling, AfterBatch, InFlight, RetryEligible, FailureKinds
    <3>2. QuietInv'
      BY <2>8 DEF HandleFailure, AfterHandling, AfterBatch, InFlight, RetryEligible, FailureKinds
    <3>3. CommitInv'
      BY <2>8 DEF HandleFailure, AfterHandling, AfterBatch, InFlight, RetryEligible, FailureKinds
    <3>4. CacheInv'
      BY <2>8 DEF HandleFailure, AfterHandling, AfterBatch, InFlight, RetryEligible, FailureKinds
    <3>5. WindowInv'
      BY <2>8 DEF HandleFailure, AfterHandling, AfterBatch, InFlight, RetryEligible, FailureKinds
    <3>6. ReceiptInv'
      <4>1. OpenRequest(p, r)
        BY <2>8 DEF HandleFailure, FailureKinds
      <4>. QED
        BY <2>8, <4>1, FailureKeepsReceipts
    <3>7. DrainInv'
      BY <2>8 DEF HandleFailure, AfterHandling, AfterBatch, InFlight, RetryEligible, FailureKinds
    <3>8. PublishedInv'
      BY <2>8 DEF HandleFailure, AfterHandling, AfterBatch, InFlight, RetryEligible, FailureKinds
    <3>. QED
      BY <3>1, <3>2, <3>3, <3>4, <3>5, <3>6, <3>7, <3>8
  <2>9. ASSUME NEW p \in Procs, Stop(p)
        PROVE  ControlInv'
    BY <2>9 DEF Stop
  <2>10. ASSUME NEW p \in Procs, CompleteStage(p)
         PROVE  ControlInv'
    BY <2>10 DEF CompleteStage
  <2>11. ASSUME NEW p \in Procs, PoolShutdown(p)
         PROVE  ControlInv'
    BY <2>11 DEF PoolShutdown, NoCalls, Zeros
  <2>12. ASSUME NEW p \in Procs, Release(p)
         PROVE  ControlInv'
    BY <2>12 DEF Release, Forget, NoCalls, Zeros
  <2>13. ASSUME NEW p \in Procs, NEW r \in Requests, Answer(p, r)
         PROVE  ControlInv'
    <3>1. HolderInv'
      BY <2>13 DEF Answer, FailureKinds
    <3>20. /\ call[p][r] = "sent"
           /\ \A q \in Procs, s \in Requests :
                /\ call'[q][s] = "none" <=> call[q][s] = "none"
                /\ q # p \/ s # r => call'[q][s] = call[q][s] /\ price'[q][s] = price[q][s]
           /\ call'[p][r] = "ok" => price'[p][r] \in 0 .. Bound[r]
           /\ UNCHANGED <<responseCommit, terminal, contractFailures, pc, queue, prior>>
      <4>1. CASE \E c \in 1 .. Bound[r] :
                   /\ call' = [call EXCEPT ![p][r] = "ok"]
                   /\ price' = [price EXCEPT ![p][r] = c]
                   /\ billed' = billed + c
                   /\ UNCHANGED faults
        BY <4>1, <2>13 DEF Answer
      <4>2. CASE \E kind \in FailureKinds :
                   /\ faults < MaxFaults
                   /\ faults' = faults + 1
                   /\ call' = [call EXCEPT ![p][r] = kind]
                   /\ billed' = billed + (IF kind = "throttled" THEN 0 ELSE Bound[r])
                   /\ UNCHANGED price
        BY <4>2, <2>13 DEF Answer, FailureKinds
      <4>. QED
        BY <4>1, <4>2, <2>13 DEF Answer
    <3>2. QuietInv'
      BY <3>20
    <3>3. CommitInv'
      BY <2>13 DEF Answer, FailureKinds
    <3>4. CacheInv'
      BY <2>13 DEF Answer, FailureKinds
    <3>5. WindowInv'
      <4>. SUFFICES ASSUME NEW q \in Procs, NEW s \in Requests
                    PROVE  /\ pc'[q] \in Scanned /\ s \in queue'[q] => OpenRequest(q, s)'
                           /\ call'[q][s] # "none" =>
                                /\ OpenRequest(q, s)'
                                /\ pc'[q] \in Scanned => s \notin queue'[q]
                           /\ call'[q][s] = "ok" => price'[q][s] \in 0 .. Bound[s]
        OBVIOUS
      <4>1. OpenRequest(q, s)' <=> OpenRequest(q, s)
        BY <3>20
      <4>2. call'[q][s] = "none" <=> call[q][s] = "none"
        BY <3>20
      <4>3. call'[q][s] = "ok" => price'[q][s] \in 0 .. Bound[s]
        BY <3>20
      <4>. QED
        BY <3>20, <4>1, <4>2, <4>3
    <3>6. ReceiptInv'
      BY <2>13 DEF Answer, FailureKinds
    <3>7. DrainInv'
      BY <2>13 DEF Answer, FailureKinds
    <3>8. PublishedInv'
      BY <2>13 DEF Answer, FailureKinds
    <3>. QED
      BY <3>1, <3>2, <3>3, <3>4, <3>5, <3>6, <3>7, <3>8
  <2>14. ASSUME NEW p \in Procs, Interrupt(p)
         PROVE  ControlInv'
    BY <2>14 DEF Interrupt
  <2>15. ASSUME NEW p \in Procs, Crash(p)
         PROVE  ControlInv'
    <3>1. HolderInv'
      BY <2>15 DEF Crash, Forget, NoCalls, Zeros
    <3>2. QuietInv'
      BY <2>15 DEF Crash, Forget, NoCalls, Zeros
    <3>3. CommitInv'
      BY <2>15 DEF Crash, Forget, NoCalls, Zeros
    <3>4. CacheInv'
      BY <2>15 DEF Crash, Forget, NoCalls, Zeros
    <3>5. WindowInv'
      BY <2>15 DEF Crash, Forget, NoCalls, Zeros
    <3>6. ReceiptInv'
      BY <2>15 DEF Crash, Forget, NoCalls, Zeros
    <3>7. DrainInv'
      BY <2>15 DEF Crash, Forget, NoCalls, Zeros
    <3>8. PublishedInv'
      BY <2>15 DEF Crash, Forget, NoCalls, Zeros
    <3>. QED
      BY <3>1, <3>2, <3>3, <3>4, <3>5, <3>6, <3>7, <3>8
  <2>16. ASSUME NEW p \in Procs, Fixture(p)
         PROVE  ControlInv'
    <3>1. CASE StartFixture(p)
      BY <3>1 DEF StartFixture
    <3>2. CASE WriteFixture(p)
      BY <3>2 DEF WriteFixture
    <3>3. CASE FixtureFails(p)
      BY <3>3 DEF FixtureFails
    <3>. QED
      BY <2>16, <3>1, <3>2, <3>3 DEF Fixture
  <2>17. CASE RemoveStaleLock
    BY <2>17 DEF RemoveStaleLock, local
  <2>18. CASE EditCheckout
    BY <2>18 DEF EditCheckout, local
  <2>19. CASE UNCHANGED vars
    BY <2>19 DEF vars, local
  <2>. QED
    BY <2>1, <2>2, <2>3, <2>4, <2>5, <2>6, <2>7, <2>8, <2>9, <2>10, <2>11, <2>12,
       <2>13, <2>14, <2>15, <2>16, <2>17, <2>18, <2>19
       DEF Next, Run
<1>. QED
  BY <1>1, <1>2, TypeCorrect, PTL DEF Spec

-----------------------------------------------------------------------------
(* Properties that follow from the control part of the invariant *)

\* No two processes are ever past the lock of the stage, whatever crashes and
\* whoever clears a stale lock.
THEOREM SingleWriterHolds == Spec => []SingleWriter
<1>1. ControlInv => SingleWriter
  BY DEF ControlInv, HolderInv, SingleWriter
<1>. QED
  BY <1>1, ControlHolds, PTL

\* A call is in flight at most once, and never for an answered request.
THEOREM NoDoublePurchaseHolds == Spec => []NoDoublePurchase
<1>1. ControlInv => NoDoublePurchase
  <2>. SUFFICES ASSUME ControlInv, NEW p \in Procs, NEW r \in InFlight(p)
                PROVE  /\ r \notin Answered
                       /\ \A q \in Procs \ {p} : r \notin InFlight(q)
    BY DEF NoDoublePurchase
  <2>1. r \in Requests /\ call[p][r] # "none"
    BY DEF InFlight
  <2>2. r \notin Answered
    BY <2>1 DEF ControlInv, WindowInv, OpenRequest, Answered
  <2>3. ASSUME NEW q \in Procs, r \in InFlight(q)
        PROVE  pc[q] \in Held
    BY <2>3 DEF ControlInv, TypeOK, QuietInv, Quiet, InFlight, Held
  <2>4. \A q \in Procs : r \in InFlight(q) => lock = q
    BY <2>3 DEF ControlInv, HolderInv
  <2>. QED
    BY <2>2, <2>4
<1>. QED
  BY <1>1, ControlHolds, PTL

\* A request with a receipt that is not retry_eligible is never answered.
THEOREM TerminalNeverAnsweredHolds == Spec => []TerminalNeverAnswered
<1>1. ControlInv => TerminalNeverAnswered
  BY DEF ControlInv, ReceiptInv, TypeOK, TerminalNeverAnswered, Answered
<1>. QED
  BY <1>1, ControlHolds, PTL

\* Over all runs a request has at most Recovery + 1 contract failures.
THEOREM ContractAttemptsBoundedHolds == Spec => []ContractAttemptsBounded
<1>1. ControlInv => ContractAttemptsBounded
  BY DEF ControlInv, ReceiptInv, ContractAttemptsBounded
<1>. QED
  BY <1>1, ControlHolds, PTL

\* A completion receipt stands for a response to every request.
THEOREM CompletionIsWholeHolds == Spec => []CompletionIsWhole
<1>1. ControlInv => CompletionIsWhole
  BY DEF ControlInv, PublishedInv, CompletionIsWhole, Answered
<1>. QED
  BY <1>1, ControlHolds, PTL

\* Every response of a completed stage is bound to the commit of its receipt.
THEOREM CompletionLoadsHolds == Spec => []CompletionLoads
<1>1. ControlInv => CompletionLoads
  BY DEF ControlInv, PublishedInv, CompletionLoads
<1>. QED
  BY <1>1, ControlHolds, PTL

\* Only HandleSuccess writes a response, and never over another.
THEOREM AnswersAreDurableHolds == Spec => AnswersAreDurable
<1>1. ControlInv /\ [Next]_vars => [AnswersKept]_vars
  <2>. SUFFICES ASSUME ControlInv, [Next]_vars
                PROVE  AnswersKept
    OBVIOUS
  <2>1. ASSUME NEW p \in Procs, NEW r \in Requests, HandleSuccess(p, r)
        PROVE  AnswersKept
    <3>1. r \notin Answered
      BY <2>1 DEF HandleSuccess, ControlInv, WindowInv, OpenRequest, Answered
    <3>2. /\ responseCommit' = [responseCommit EXCEPT ![r] = commit[p]]
          /\ responseCost' = [responseCost EXCEPT ![r] = price[p][r]]
      BY <2>1 DEF HandleSuccess
    <3>. QED
      BY <3>1, <3>2 DEF ControlInv, TypeOK, Answered, AnswersKept
  <2>2. CASE ~ \E p \in Procs, r \in Requests : HandleSuccess(p, r)
    <3>1. responseCommit' = responseCommit /\ responseCost' = responseCost
      BY <2>2 DEF Next, Run, Fixture, AcquireLock, CheckContract, Scan, Submit, EndFill,
         Answer, Collect, HandleFailure, Stop, CompleteStage, Release, Interrupt,
         PoolShutdown, Crash, StartFixture, WriteFixture, FixtureFails,
         RemoveStaleLock, EditCheckout, vars, disk
    <3>. QED
      BY <3>1 DEF AnswersKept
  <2>. QED
    BY <2>1, <2>2
<1>. QED
  BY <1>1, ControlHolds, PTL DEF Spec, AnswersAreDurable

\* A run that has seen a failure lets its window drain and submits nothing.
THEOREM FailureDrainsHolds == Spec => FailureDrains
<1>1. ControlInv /\ [Next]_vars => [WindowDrains]_vars
  <2>. SUFFICES ASSUME ControlInv, [Next]_vars, NEW p \in Procs, runFailures[p] > 0,
                       NEW r \in InFlight(p)'
                PROVE  r \in InFlight(p)
    BY DEF WindowDrains
  <2>1. r \in Requests /\ call'[p][r] # "none"
    BY DEF InFlight
  <2>4. call \in [Procs -> [Requests -> CallStates]]
    BY DEF ControlInv, TypeOK
  <2>2. CASE \E q \in Procs : Submit(q)
    <3>1. PICK q \in Procs : Submit(q)
      BY <2>2
    <3>2. pc[q] = "fill" /\ runFailures[q] = 0
      BY <3>1 DEF Submit, ControlInv, DrainInv
    <3>3. q # p
      BY <3>2
    <3>. QED
      BY <3>1, <3>3, <2>1 DEF Submit, InFlight, ControlInv, TypeOK
  <2>3. CASE ~ \E q \in Procs : Submit(q)
    <3>1. ASSUME NEW q \in Procs, NEW s \in Requests, Answer(q, s)
          PROVE  call[p][r] # "none"
      <4>1. call[q][s] = "sent" /\ \E k \in CallStates : call' = [call EXCEPT ![q][s] = k]
        BY <3>1 DEF Answer, CallStates
      <4>. QED
        BY <4>1, <2>1, <2>4
    <3>2. ASSUME NEW q \in Procs, NEW s \in Requests,
                 HandleSuccess(q, s) \/ HandleFailure(q, s)
          PROVE  call[p][r] # "none"
      <4>1. call' = [call EXCEPT ![q][s] = "none"]
        BY <3>2 DEF HandleSuccess, HandleFailure, AfterHandling
      <4>. QED
        BY <4>1, <2>1, <2>4
    <3>3. ASSUME NEW q \in Procs, PoolShutdown(q) \/ Release(q) \/ Crash(q)
          PROVE  call[p][r] # "none"
      <4>1. call' = [call EXCEPT ![q] = NoCalls]
        BY <3>3 DEF PoolShutdown, Release, Crash, Forget
      <4>2. NoCalls[r] = "none"
        BY <2>1 DEF NoCalls
      <4>. QED
        BY <4>1, <4>2, <2>1, <2>4
    <3>4. CASE UNCHANGED call
      BY <3>4, <2>1 DEF InFlight
    <3>5. \/ UNCHANGED call
          \/ \E q \in Procs, s \in Requests :
               Answer(q, s) \/ HandleSuccess(q, s) \/ HandleFailure(q, s)
          \/ \E q \in Procs : PoolShutdown(q) \/ Release(q) \/ Crash(q)
      BY <2>3 DEF Next, Run, Fixture, AcquireLock, CheckContract, Scan, EndFill, Collect,
         Stop, CompleteStage, Interrupt, StartFixture, WriteFixture, FixtureFails,
         RemoveStaleLock, EditCheckout, vars, local, window
    <3>. QED
      BY <2>1, <3>1, <3>2, <3>3, <3>4, <3>5 DEF InFlight
  <2>. QED
    BY <2>2, <2>3
<1>. QED
  BY <1>1, ControlHolds, PTL DEF Spec, FailureDrains

-----------------------------------------------------------------------------
(* What the files record and what is reserved *)

\* A process without calls in flight reserves nothing.
LEMMA NothingReserved ==
  ASSUME TypeOK, NEW p \in Procs, \A r \in Requests : call[p][r] = "none"
  PROVE  Reserved(p) = 0
<1>. DEFINE f == [r \in Requests |-> IF call[p][r] = "none" THEN 0 ELSE Bound[r]]
<1>1. f \in [Requests -> Nat] /\ \A r \in Requests : f[r] = 0
  OBVIOUS
<1>. QED
  BY <1>1, TotalZero DEF Reserved

\* The same of the next state.
LEMMA NothingReservedNext ==
  ASSUME TypeOK', NEW p \in Procs, \A r \in Requests : call'[p][r] = "none"
  PROVE  Reserved(p)' = 0
<1>. DEFINE f == [r \in Requests |-> IF call'[p][r] = "none" THEN 0 ELSE Bound[r]]
<1>1. f \in [Requests -> Nat] /\ \A r \in Requests : f[r] = 0
  OBVIOUS
<1>2. Reserved(p)' = Total(f)
  BY DEF Reserved
<1>. HIDE DEF f
<1>. QED
  BY <1>1, <1>2, TotalZero

\* Reserving the bound of one more call.
LEMMA ReservedOneMore ==
  ASSUME TypeOK, NEW p \in Procs, NEW r \in Requests, call[p][r] = "none",
         NEW k \in CallStates \ {"none"}, call' = [call EXCEPT ![p][r] = k]
  PROVE  Reserved(p)' = Reserved(p) + Bound[r]
<1>. DEFINE f == [s \in Requests |-> IF call[p][s] = "none" THEN 0 ELSE Bound[s]]
            g == [s \in Requests |-> IF call'[p][s] = "none" THEN 0 ELSE Bound[s]]
<1>1. f \in [Requests -> Nat] /\ f[r] = 0 /\ Bound[r] \in Nat /\ IsFiniteSet(Requests)
  BY StageAssumption
<1>2. g = [f EXCEPT ![r] = Bound[r]]
  BY StageAssumption DEF TypeOK
<1>3. Total([f EXCEPT ![r] = Bound[r]]) = Total(f) - f[r] + Bound[r] /\ Total(f) \in Nat
  BY <1>1, TotalUpdate, TotalType
<1>4. Reserved(p) = Total(f) /\ Reserved(p)' = Total(g)
  BY DEF Reserved
<1>. HIDE DEF f, g
<1>. QED
  BY <1>1, <1>2, <1>3, <1>4

\* Releasing the reservation of a call.
LEMMA ReservedOneLess ==
  ASSUME TypeOK, NEW p \in Procs, NEW r \in Requests, call[p][r] # "none",
         call' = [call EXCEPT ![p][r] = "none"]
  PROVE  Reserved(p)' = Reserved(p) - Bound[r]
<1>. DEFINE f == [s \in Requests |-> IF call[p][s] = "none" THEN 0 ELSE Bound[s]]
            g == [s \in Requests |-> IF call'[p][s] = "none" THEN 0 ELSE Bound[s]]
<1>1. f \in [Requests -> Nat] /\ f[r] = Bound[r] /\ Bound[r] \in Nat /\ IsFiniteSet(Requests)
  BY StageAssumption
<1>2. g = [f EXCEPT ![r] = 0]
  BY StageAssumption DEF TypeOK
<1>3. Total([f EXCEPT ![r] = 0]) = Total(f) - f[r] + 0 /\ Total(f) \in Nat
  BY <1>1, TotalUpdate, TotalType
<1>4. Reserved(p) = Total(f) /\ Reserved(p)' = Total(g)
  BY DEF Reserved
<1>. HIDE DEF f, g
<1>. QED
  BY <1>1, <1>2, <1>3, <1>4

\* The reservations depend on which calls are in flight, not on their state.
LEMMA ReservedSame ==
  ASSUME NEW p \in Procs,
         \A r \in Requests : call'[p][r] = "none" <=> call[p][r] = "none"
  PROVE  Reserved(p)' = Reserved(p)
<1>1. [r \in Requests |-> IF call'[p][r] = "none" THEN 0 ELSE Bound[r]]
        = [r \in Requests |-> IF call[p][r] = "none" THEN 0 ELSE Bound[r]]
  OBVIOUS
<1>. QED
  BY <1>1, Zenon DEF Reserved

\* A paid answer moves its price into the recorded total.
LEMMA RecordedAnswer ==
  ASSUME TypeOK, NEW r \in Requests, NEW c \in Nat, r \notin Imported, responseCost[r] = 0,
         responseCost' = [responseCost EXCEPT ![r] = c],
         UNCHANGED <<fixtureCost, failureCost>>
  PROVE  Recorded' = Recorded + c
<1>. DEFINE f == [s \in Requests |-> IF s \in Imported THEN 0 ELSE responseCost[s]]
            g == [s \in Requests |-> IF s \in Imported THEN 0 ELSE responseCost'[s]]
<1>1. f \in [Requests -> Nat] /\ f[r] = 0 /\ IsFiniteSet(Requests)
  BY StageAssumption DEF TypeOK
<1>2. g = [f EXCEPT ![r] = c]
  BY DEF TypeOK
<1>3. Total([f EXCEPT ![r] = c]) = Total(f) - f[r] + c /\ Total(f) \in Nat
  BY <1>1, TotalUpdate, TotalType
<1>4. Incremental = Total(f) /\ Incremental' = Total(g)
  BY DEF Incremental
<1>5. Total(failureCost)' = Total(failureCost)
  BY Zenon
<1>6. Total(failureCost) \in Nat /\ Incremental \in Nat /\ fixtureCost \in Nat
  BY SumsAreNatural DEF TypeOK
<1>. HIDE DEF f, g
<1>7. Incremental' = Incremental + c
  BY <1>1, <1>2, <1>3, <1>4
<1>. QED
  BY <1>5, <1>6, <1>7 DEF Recorded

\* A failure receipt moves the bound it names into the recorded total.
LEMMA RecordedFailure ==
  ASSUME TypeOK, NEW r \in Requests, NEW c \in Nat,
         failureCost' = [failureCost EXCEPT ![r] = @ + c],
         UNCHANGED <<fixtureCost, responseCost>>
  PROVE  Recorded' = Recorded + c
<1>. DEFINE v == failureCost[r] + c
<1>1. failureCost \in [Requests -> Nat] /\ failureCost[r] \in Nat /\ IsFiniteSet(Requests)
  BY StageAssumption DEF TypeOK
<1>2. failureCost' = [failureCost EXCEPT ![r] = v] /\ v \in Nat
  BY <1>1
<1>3. Total([failureCost EXCEPT ![r] = v]) = Total(failureCost) - failureCost[r] + v
  <2>. DEFINE f == failureCost
  <2>1. f \in [Requests -> Nat] /\ v \in Nat /\ IsFiniteSet(Requests)
    BY <1>1, <1>2
  <2>. HIDE DEF v, f
  <2>2. Total([f EXCEPT ![r] = v]) = Total(f) - f[r] + v
    BY <2>1, TotalUpdate
  <2>. QED
    BY <2>2 DEF f
<1>4. Total(failureCost)' = Total([failureCost EXCEPT ![r] = v])
  BY <1>2, Zenon
<1>5. Incremental' = Incremental
  BY Zenon DEF Incremental
<1>6. Total(failureCost) \in Nat /\ Incremental \in Nat /\ fixtureCost \in Nat
  BY SumsAreNatural DEF TypeOK
<1>7. Total(failureCost)' = Total(failureCost) + c
  BY <1>1, <1>3, <1>4, <1>6
<1>. QED
  BY <1>5, <1>6, <1>7 DEF Recorded

\* Nothing else changes the recorded total.
LEMMA RecordedSame ==
  ASSUME UNCHANGED <<fixtureCost, responseCost, failureCost>>
  PROVE  Recorded' = Recorded
<1>1. Incremental' = Incremental
  BY Zenon DEF Incremental
<1>2. Total(failureCost)' = Total(failureCost)
  BY Zenon
<1>. QED
  BY <1>1, <1>2 DEF Recorded

\* The sums of the next state are natural numbers too.
LEMMA SumsStayNatural ==
  TypeOK' => Recorded' \in Nat /\ \A p \in Procs : Reserved(p)' \in Nat
<1>1. TypeOK => Recorded \in Nat /\ \A p \in Procs : Reserved(p) \in Nat
  BY SumsAreNatural
<1>2. TypeOK' => (Recorded \in Nat /\ \A p \in Procs : Reserved(p) \in Nat)'
  BY <1>1, PTL
<1>. QED
  BY <1>2

\* While one process is past the lock, no other has a call in flight.
LEMMA OthersAreQuiet ==
  ASSUME ControlInv, NEW p \in Procs, pc[p] \in Held, NEW q \in Procs \ {p}
  PROVE  pc[q] \in {"idle", "fixture"} /\ \A r \in Requests : call[q][r] = "none"
<1>1. pc[q] \notin Held
  BY DEF ControlInv, HolderInv
<1>2. pc[q] \in {"idle", "fixture"}
  BY <1>1 DEF ControlInv, TypeOK
<1>. QED
  BY <1>2 DEF ControlInv, QuietInv, Quiet

\* No step spends before there is a fixture receipt, and the fixture command
\* makes no second call once there is one.
LEMMA FixtureStep ==
  ASSUME OneFixtureRunner, ControlInv, FixtureInv, [Next]_vars
  PROVE  FixtureInv'
<1>. USE StageAssumption DEF FixtureInv, ControlInv, TypeOK, Held, Executing, Goto, disk,
     checkout, window, scanned
<1>1. ASSUME NEW p \in Procs, AcquireLock(p) \/ Stop(p) \/ CompleteStage(p) \/ Interrupt(p)
      PROVE  FixtureInv'
  BY <1>1 DEF AcquireLock, Stop, CompleteStage, Interrupt
<1>2. ASSUME NEW p \in Procs, CheckContract(p)
      PROVE  FixtureInv'
  BY <1>2 DEF CheckContract, FixtureAccepted
<1>3. ASSUME NEW p \in Procs, Scan(p) \/ Submit(p) \/ EndFill(p) \/ Collect(p)
      PROVE  FixtureInv'
  <2>1. CASE Scan(p)
    BY <2>1 DEF Scan
  <2>2. CASE Submit(p)
    BY <2>2 DEF Submit
  <2>3. CASE EndFill(p)
    BY <2>3 DEF EndFill
  <2>4. CASE Collect(p)
    BY <2>4 DEF Collect
  <2>. QED
    BY <1>3, <2>1, <2>2, <2>3, <2>4
<1>4. ASSUME NEW p \in Procs, NEW r \in Requests, HandleSuccess(p, r) \/ HandleFailure(p, r)
      PROVE  FixtureInv'
  <2>1. pc[p] = "handle" /\ fixtureCommit # NoCommit
    BY <1>4 DEF HandleSuccess, HandleFailure, AfterHandling
  <2>2. UNCHANGED <<fixtureCommit, fixtureCost>>
    BY <1>4 DEF HandleSuccess, HandleFailure
  <2>3. \A q \in Procs : pc'[q] = "fixture" => pc[q] = "fixture"
    BY <1>4 DEF HandleSuccess, HandleFailure, AfterHandling, AfterBatch
  <2>. QED
    BY <2>1, <2>2, <2>3
<1>5. ASSUME NEW p \in Procs, NEW r \in Requests, Answer(p, r)
      PROVE  FixtureInv'
  BY <1>5 DEF Answer
<1>6. ASSUME NEW p \in Procs, PoolShutdown(p) \/ Release(p) \/ Crash(p)
      PROVE  FixtureInv'
  <2>1. UNCHANGED <<fixtureCommit, fixtureCost, failureCost, responseCost>>
    BY <1>6 DEF PoolShutdown, Release, Crash
  <2>2. \E to \in {"idle", "release"} : pc' = [pc EXCEPT ![p] = to]
    BY <1>6 DEF PoolShutdown, Release, Crash, Forget
  <2>. QED
    BY <2>1, <2>2
<1>7. ASSUME NEW p \in Procs, StartFixture(p)
      PROVE  FixtureInv'
  BY <1>7 DEF StartFixture
<1>8. ASSUME NEW p \in Procs, WriteFixture(p)
      PROVE  FixtureInv'
  <2>1. p \in FixtureRunners /\ pc[p] = "fixture" /\ pc' = [pc EXCEPT ![p] = "idle"]
    BY <1>8 DEF WriteFixture
  <2>2. \A q \in Procs : pc'[q] # "fixture"
    BY <2>1 DEF OneFixtureRunner
  <2>3. fixtureCommit' # NoCommit
    BY <1>8, <2>1 DEF WriteFixture, CommitInv
  <2>. QED
    BY <2>2, <2>3
<1>9. ASSUME NEW p \in Procs, FixtureFails(p)
      PROVE  FixtureInv'
  BY <1>9 DEF FixtureFails
<1>10. CASE RemoveStaleLock \/ EditCheckout \/ UNCHANGED vars
  BY <1>10 DEF RemoveStaleLock, EditCheckout, vars, local
<1>. QED
  BY <1>1, <1>2, <1>3, <1>4, <1>5, <1>6, <1>7, <1>8, <1>9, <1>10 DEF Next, Run, Fixture

\* With one fixture runner at a time, no step makes the records and the
\* reservations exceed the cap, nor the budget in memory differ from the records.
LEMMA SpendingStep ==
  ASSUME OneFixtureRunner, ControlInv, ControlInv', SpendingInv, [Next]_vars
  PROVE  SpendingInv'
<1>. USE StageAssumption
<1>1. TypeOK /\ TypeOK' /\ BudgetInv /\ RecordedWithinCap /\ FixtureInv
  BY DEF ControlInv, SpendingInv
<1>2. /\ Recorded \in Nat /\ Recorded' \in Nat /\ Cap \in Nat
      /\ \A p \in Procs : Reserved(p) \in Nat /\ Reserved(p)' \in Nat
  BY <1>1, SumsAreNatural, SumsStayNatural
<1>3. FixtureInv'
  BY <1>1, FixtureStep
<1>4. ASSUME UNCHANGED <<fixtureCost, responseCost, failureCost>>,
             \A q \in Procs : Reserved(q)' <= Reserved(q),
             \A q \in Procs : pc'[q] \in Executing => budget'[q] = Recorded
      PROVE  SpendingInv'
  <2>1. Recorded' = Recorded
    BY <1>4, RecordedSame
  <2>2. BudgetInv'
    BY <1>4, <2>1 DEF BudgetInv
  <2>3. RecordedWithinCap'
    BY <1>1, <1>2, <1>4, <2>1 DEF RecordedWithinCap
  <2>. QED
    BY <1>3, <2>2, <2>3 DEF SpendingInv
<1>5. ASSUME UNCHANGED <<fixtureCost, responseCost, failureCost, call, budget>>,
             \A q \in Procs : pc'[q] \in Executing => pc[q] \in Executing
      PROVE  SpendingInv'
  <2>1. \A q \in Procs : Reserved(q)' = Reserved(q)
    BY <1>5, ReservedSame
  <2>. QED
    BY <1>1, <1>2, <1>4, <1>5, <2>1 DEF BudgetInv
<1>6. ASSUME NEW p \in Procs,
             \/ AcquireLock(p) \/ CheckContract(p) \/ EndFill(p) \/ Collect(p)
             \/ Stop(p) \/ CompleteStage(p) \/ Interrupt(p) \/ StartFixture(p)
             \/ FixtureFails(p)
      PROVE  SpendingInv'
  <2>1. /\ UNCHANGED <<fixtureCost, responseCost, failureCost, call, budget>>
        /\ \A q \in Procs : pc'[q] \in Executing => pc[q] \in Executing
    BY <1>1, <1>6 DEF TypeOK, AcquireLock, CheckContract, EndFill, Collect, Stop, CompleteStage,
       Interrupt, StartFixture, FixtureFails, Goto, Executing, disk, window
  <2>. QED
    BY <1>5, <2>1
<1>7. CASE RemoveStaleLock \/ EditCheckout \/ UNCHANGED vars
  BY <1>5, <1>7 DEF RemoveStaleLock, EditCheckout, vars, local, disk, window
<1>8. ASSUME NEW p \in Procs, NEW r \in Requests, Answer(p, r)
      PROVE  SpendingInv'
  <2>1. \A q \in Procs, s \in Requests : call'[q][s] = "none" <=> call[q][s] = "none"
    <3>1. call[p][r] = "sent" /\ \E k \in CallStates \ {"none"} : call' = [call EXCEPT ![p][r] = k]
      BY <1>8 DEF Answer, CallStates, FailureKinds
    <3>. QED
      BY <1>1, <3>1 DEF TypeOK
  <2>2. \A q \in Procs : Reserved(q)' = Reserved(q)
    BY <2>1, ReservedSame
  <2>3. UNCHANGED <<fixtureCost, responseCost, failureCost, pc, budget>>
    BY <1>8 DEF Answer, disk
  <2>. QED
    BY <1>1, <1>2, <1>4, <2>2, <2>3 DEF BudgetInv
<1>9. ASSUME NEW p \in Procs, PoolShutdown(p) \/ Release(p) \/ Crash(p)
      PROVE  SpendingInv'
  <2>1. /\ UNCHANGED <<fixtureCost, responseCost, failureCost>>
        /\ call' = [call EXCEPT ![p] = NoCalls]
        /\ pc'[p] \notin Executing
        /\ \A q \in Procs \ {p} : pc'[q] = pc[q] /\ budget'[q] = budget[q]
    BY <1>1, <1>9 DEF TypeOK, PoolShutdown, Release, Crash, Forget, Goto, Executing, disk
  <2>2. ASSUME NEW q \in Procs
        PROVE  Reserved(q)' <= Reserved(q)
    <3>1. CASE q = p
      <4>1. \A r \in Requests : call'[q][r] = "none"
        BY <1>1, <2>1, <3>1 DEF TypeOK, NoCalls
      <4>2. Reserved(q)' = 0
        BY <1>1, <4>1, NothingReservedNext
      <4>. QED
        BY <1>2, <4>2
    <3>2. CASE q # p
      <4>1. \A r \in Requests : call'[q][r] = "none" <=> call[q][r] = "none"
        BY <1>1, <2>1, <3>2 DEF TypeOK
      <4>2. Reserved(q)' = Reserved(q)
        BY <4>1, ReservedSame
      <4>. QED
        BY <1>2, <4>2
    <3>. QED
      BY <3>1, <3>2
  <2>3. \A q \in Procs : pc'[q] \in Executing => budget'[q] = Recorded
    BY <1>1, <2>1 DEF BudgetInv
  <2>. QED
    BY <1>4, <2>1, <2>2, <2>3
<1>10. ASSUME NEW p \in Procs, Scan(p)
       PROVE  SpendingInv'
  <2>1. /\ UNCHANGED <<fixtureCost, responseCost, failureCost, call>>
        /\ budget'[p] = Recorded
        /\ \A q \in Procs \ {p} : pc'[q] = pc[q] /\ budget'[q] = budget[q]
    BY <1>1, <1>10 DEF TypeOK, Scan, Goto, disk, window
  <2>2. \A q \in Procs : Reserved(q)' = Reserved(q)
    BY <2>1, ReservedSame
  <2>. QED
    BY <1>1, <1>2, <1>4, <2>1, <2>2 DEF BudgetInv
<1>11. ASSUME NEW p \in Procs, Submit(p)
       PROVE  SpendingInv'
  <2>. DEFINE r == Min(queue[p])
  <2>1. r \in queue[p] /\ r \in Requests
    BY <1>1, <1>11, HeadOfQueue DEF Submit, CanSubmit
  <2>2. pc[p] = "fill" /\ Fits(p) /\ call' = [call EXCEPT ![p][r] = "sent"]
    BY <1>11 DEF Submit, CanSubmit
  <2>3. UNCHANGED <<fixtureCost, responseCost, failureCost, pc, budget>>
    BY <1>11 DEF Submit, disk
  <2>4. budget[p] = Recorded
    BY <1>1, <2>2 DEF BudgetInv, Executing
  <2>5. Capped => Recorded + Reserved(p) + Bound[r] <= Cap
    BY <2>2, <2>4 DEF Fits
  <2>. HIDE DEF r
  <2>6. call[p][r] = "none"
    BY <2>1, <2>2 DEF ControlInv, WindowInv, Scanned, Executing
  <2>7. Reserved(p)' = Reserved(p) + Bound[r]
    BY <1>1, <2>1, <2>2, <2>6, ReservedOneMore DEF CallStates
  <2>8. \A q \in Procs \ {p} : Reserved(q)' = Reserved(q)
    <3>1. \A q \in Procs \ {p} : \A s \in Requests : call'[q][s] = call[q][s]
      BY <1>1, <2>2 DEF TypeOK
    <3>. QED
      BY <3>1, ReservedSame
  <2>9. Recorded' = Recorded
    BY <2>3, RecordedSame
  <2>10. RecordedWithinCap'
    <3>. SUFFICES ASSUME Capped, NEW q \in Procs
                  PROVE  Recorded' + Reserved(q)' <= Cap
      BY DEF RecordedWithinCap
    <3>1. CASE q = p
      <4>1. Bound[r] \in Nat
        BY <2>1
      <4>. QED
        BY <1>2, <2>5, <2>7, <2>9, <3>1, <4>1
    <3>2. CASE q # p
      BY <1>1, <2>8, <2>9, <3>2 DEF RecordedWithinCap
    <3>. QED
      BY <3>1, <3>2
  <2>11. BudgetInv'
    BY <1>1, <2>3, <2>9 DEF BudgetInv
  <2>. QED
    BY <1>3, <2>10, <2>11 DEF SpendingInv
<1>12. ASSUME NEW p \in Procs, NEW r \in Requests, NEW c \in Nat, c <= Bound[r],
              pc[p] = "handle", call[p][r] # "none",
              call' = [call EXCEPT ![p][r] = "none"],
              Recorded' = Recorded + c,
              budget' = [budget EXCEPT ![p] = @ + c],
              \A q \in Procs \ {p} : pc'[q] = pc[q]
       PROVE  SpendingInv'
  <2>1. budget[p] = Recorded /\ budget[p] \in Nat
    BY <1>1, <1>12 DEF BudgetInv, Executing, TypeOK
  <2>2. Reserved(p)' = Reserved(p) - Bound[r]
    BY <1>1, <1>12, ReservedOneLess
  <2>3. Capped => Recorded + Reserved(p) <= Cap
    BY <1>1 DEF RecordedWithinCap
  <2>4. Bound[r] \in Nat
    OBVIOUS
  <2>5. ASSUME NEW q \in Procs \ {p}
        PROVE  pc'[q] \notin Executing /\ Reserved(q)' = 0
    <3>1. pc[q] \in {"idle", "fixture"} /\ \A s \in Requests : call[q][s] = "none"
      BY <1>12, OthersAreQuiet DEF Held, Executing
    <3>2. \A s \in Requests : call'[q][s] = "none"
      BY <1>1, <1>12, <3>1 DEF TypeOK
    <3>3. Reserved(q)' = 0
      BY <1>1, <3>2, NothingReservedNext
    <3>. QED
      BY <1>12, <3>1, <3>3 DEF Executing
  <2>6. RecordedWithinCap'
    <3>. SUFFICES ASSUME Capped, NEW q \in Procs
                  PROVE  Recorded' + Reserved(q)' <= Cap
      BY DEF RecordedWithinCap
    <3>1. Recorded' + Reserved(p)' <= Cap
      BY <1>2, <1>12, <2>2, <2>3, <2>4
    <3>2. Reserved(q)' <= Reserved(p)'
      BY <1>2, <2>5
    <3>. QED
      BY <1>2, <3>1, <3>2
  <2>7. BudgetInv'
    <3>1. budget'[p] = Recorded'
      BY <1>1, <1>12, <2>1 DEF TypeOK
    <3>. QED
      BY <2>5, <3>1 DEF BudgetInv
  <2>. QED
    BY <1>3, <2>6, <2>7 DEF SpendingInv
<1>13. ASSUME NEW p \in Procs, NEW r \in Requests, HandleSuccess(p, r)
       PROVE  SpendingInv'
  <2>1. /\ pc[p] = "handle" /\ call[p][r] = "ok"
        /\ call' = [call EXCEPT ![p][r] = "none"]
        /\ responseCost' = [responseCost EXCEPT ![r] = price[p][r]]
        /\ budget' = [budget EXCEPT ![p] = @ + price[p][r]]
        /\ UNCHANGED <<fixtureCost, failureCost>>
        /\ \A q \in Procs \ {p} : pc'[q] = pc[q]
    BY <1>1, <1>13 DEF HandleSuccess, AfterHandling, Goto, TypeOK
  <2>2. price[p][r] \in Nat /\ price[p][r] <= Bound[r]
    BY <2>1 DEF ControlInv, WindowInv
  <2>3. r \notin Imported /\ responseCost[r] = 0
    BY <2>1 DEF ControlInv, WindowInv, OpenRequest, ReceiptInv
  <2>4. Recorded' = Recorded + price[p][r]
    BY <1>1, <2>1, <2>2, <2>3, RecordedAnswer
  <2>5. call[p][r] # "none"
    BY <2>1
  <2>. QED
    BY <1>12, <2>1, <2>2, <2>4, <2>5
<1>14. ASSUME NEW p \in Procs, NEW r \in Requests, HandleFailure(p, r)
       PROVE  SpendingInv'
  <2>1. /\ pc[p] = "handle" /\ call[p][r] # "none"
        /\ call' = [call EXCEPT ![p][r] = "none"]
        /\ failureCost' = [failureCost EXCEPT ![r] = @ + FailureBound(p, r)]
        /\ budget' = [budget EXCEPT ![p] = @ + FailureBound(p, r)]
        /\ UNCHANGED <<fixtureCost, responseCost>>
        /\ \A q \in Procs \ {p} : pc'[q] = pc[q]
    BY <1>1, <1>14 DEF HandleFailure, AfterHandling, Goto, TypeOK, FailureKinds
  <2>2. FailureBound(p, r) \in Nat /\ FailureBound(p, r) <= Bound[r]
    <3>1. Bound[r] \in Nat
      OBVIOUS
    <3>. QED
      BY <3>1 DEF FailureBound
  <2>3. Recorded' = Recorded + FailureBound(p, r)
    BY <1>1, <2>1, <2>2, RecordedFailure
  <2>. QED
    BY <1>12, <2>1, <2>2, <2>3
<1>15. ASSUME NEW p \in Procs, WriteFixture(p)
       PROVE  SpendingInv'
  <2>1. fixtureCommit = NoCommit /\ pc[p] = "fixture"
    BY <1>1, <1>15 DEF WriteFixture, Goto, FixtureInv
  <2>2. \A q \in Procs : pc'[q] \notin Executing /\ \A r \in Requests : call[q][r] = "none"
    <3>1. \A q \in Procs : pc[q] \in Quiet
      BY <1>1, <2>1 DEF FixtureInv, TypeOK, Held, Executing, Quiet
    <3>2. \A q \in Procs : pc'[q] \notin Executing
      BY <1>1, <1>15, <3>1 DEF WriteFixture, Goto, TypeOK, Quiet, Executing
    <3>. QED
      BY <3>1, <3>2 DEF ControlInv, QuietInv
  <2>3. call' = call /\ responseCost' = responseCost /\ failureCost' = failureCost
    BY <1>15 DEF WriteFixture, window
  <2>4. \A q \in Procs : Reserved(q)' = 0
    <3>1. \A q \in Procs : Reserved(q) = 0
      BY <1>1, <2>2, NothingReserved
    <3>2. \A q \in Procs : Reserved(q)' = Reserved(q)
      BY <2>3, ReservedSame
    <3>. QED
      BY <3>1, <3>2
  <2>5. Incremental' = 0
    <3>. DEFINE f == [r \in Requests |-> IF r \in Imported THEN 0 ELSE responseCost[r]]
    <3>1. f \in [Requests -> Nat] /\ \A r \in Requests : f[r] = 0
      BY <1>1, <2>1 DEF FixtureInv
    <3>2. Incremental = 0
      BY <3>1, TotalZero DEF Incremental
    <3>3. Incremental' = Incremental
      BY <2>3, Zenon DEF Incremental
    <3>. QED
      BY <3>2, <3>3
  <2>6. Total(failureCost)' = 0
    <3>1. Total(failureCost) = 0
      <4>1. failureCost \in [Requests -> Nat] /\ \A r \in Requests : failureCost[r] = 0
        BY <1>1, <2>1 DEF FixtureInv, TypeOK
      <4>. QED
        BY <4>1, TotalZero, Zenon
    <3>2. Total(failureCost)' = Total(failureCost)
      BY <2>3, Zenon
    <3>. QED
      BY <3>1, <3>2
  <2>7. fixtureCost' \in Nat /\ fixtureCost' <= FixtureBound
    BY <1>15 DEF WriteFixture
  <2>8. Recorded' <= Cap
    <3>1. Recorded' = (IF Capped THEN fixtureCost' ELSE 0) + Incremental' + Total(failureCost)'
      BY DEF Recorded
    <3>2. FixtureBound \in Nat /\ Cap \in Nat /\ FixtureBound <= Cap
      OBVIOUS
    <3>. DEFINE x == IF Capped THEN fixtureCost' ELSE 0
    <3>3. x \in Nat /\ x <= FixtureBound
      BY <2>7, <3>2
    <3>. HIDE DEF x
    <3>4. Recorded' = x + 0 + 0
      BY <2>5, <2>6, <3>1, Zenon DEF x
    <3>. QED
      BY <3>2, <3>3, <3>4
  <2>9. RecordedWithinCap'
    BY <1>2, <2>4, <2>8 DEF RecordedWithinCap
  <2>10. BudgetInv'
    BY <2>2 DEF BudgetInv
  <2>. QED
    BY <1>3, <2>9, <2>10 DEF SpendingInv
<1>. QED
  BY <1>6, <1>7, <1>8, <1>9, <1>10, <1>11, <1>13, <1>14, <1>15 DEF Next, Run, Fixture

\* The whole invariant holds in every reachable state.
THEOREM StageInvHolds == Spec => []StageInv
<1>1. Init => (OneFixtureRunner => SpendingInv)
  <2>. SUFFICES ASSUME Init
                PROVE  SpendingInv
    OBVIOUS
  <2>1. FixtureInv
    BY StageAssumption DEF Init, FixtureInv, Zeros, Held, Executing
  <2>2. BudgetInv
    BY DEF Init, BudgetInv, Executing
  <2>3. RecordedWithinCap
    <3>1. TypeOK
      BY StageAssumption DEF Init, TypeOK, NoCalls, Zeros, CallStates, FailureKinds
    <3>2. \A p \in Procs : Reserved(p) = 0
      BY <3>1, NothingReserved DEF Init, NoCalls
    <3>3. Incremental = 0
      <4>. DEFINE f == [r \in Requests |-> IF r \in Imported THEN 0 ELSE responseCost[r]]
      <4>1. f \in [Requests -> Nat] /\ \A r \in Requests : f[r] = 0
        BY <3>1 DEF Init, TypeOK
      <4>. QED
        BY <4>1, TotalZero DEF Incremental
    <3>4. Total(failureCost) = 0
      BY <3>1, TotalZero DEF Init, TypeOK, Zeros
    <3>5. Recorded = 0
      BY <3>3, <3>4 DEF Recorded, Init
    <3>. QED
      BY <3>2, <3>5, StageAssumption DEF RecordedWithinCap
  <2>. QED
    BY <2>1, <2>2, <2>3 DEF SpendingInv
<1>2. ControlInv /\ ControlInv' /\ (OneFixtureRunner => SpendingInv) /\ [Next]_vars
        => (OneFixtureRunner => SpendingInv)'
  BY SpendingStep DEF OneFixtureRunner
<1>. QED
  BY <1>1, <1>2, ControlHolds, PTL DEF Spec, StageInv

\* With one fixture runner at a time the recorded spending and the reservations
\* never exceed the incremental cap, through failures, crashes and resumptions.
THEOREM RecordedWithinCapHolds ==
  ASSUME OneFixtureRunner
  PROVE  Spec => []RecordedWithinCap
<1>1. StageInv => RecordedWithinCap
  BY DEF StageInv, SpendingInv
<1>. QED
  BY <1>1, StageInvHolds, PTL

-----------------------------------------------------------------------------
(* What the provider billed and what the files know of it *)

\* The largest bound is a bound of every call, the fixture's included, and a
\* window of calls costs at least as much.
LEMMA LargestIsBound ==
  /\ Largest \in Nat /\ Lost \in Nat /\ Largest <= Lost /\ FixtureBound <= Largest
  /\ \A r \in Requests : Bound[r] \in Nat /\ Bound[r] <= Largest
<1>. USE StageAssumption
<1>. DEFINE costs == {Bound[r] : r \in Requests}
            S == costs \cup {FixtureBound}
<1>1. S \in SUBSET Nat /\ S # {}
  OBVIOUS
<1>2. IsFiniteSet(S)
  <2>1. [r \in Requests |-> Bound[r]] \in Surjection(Requests, costs)
    BY DEF Surjection
  <2>2. IsFiniteSet(costs)
    <3>. HIDE DEF costs
    <3>. QED
      BY <2>1, FS_Surjection
  <2>. QED
    BY <2>2, FS_AddElement
<1>3. Max(S) \in S /\ \A y \in S : y <= Max(S)
  <2>. HIDE DEF S
  <2>. QED
    BY <1>1, <1>2, MaxIsMember
<1>4. Largest = Max(S)
  BY DEF Largest
<1>5. /\ Largest \in Nat /\ FixtureBound <= Largest
      /\ \A r \in Requests : Bound[r] \in Nat /\ Bound[r] <= Largest
  BY <1>1, <1>3, <1>4
<1>6. Lost \in Nat /\ Largest <= Lost
  <2>1. \A n, m \in Nat : n # 0 => n * m \in Nat /\ m <= n * m
    OBVIOUS
  <2>. QED
    BY <1>5, <2>1 DEF Lost
<1>. QED
  BY <1>5, <1>6

\* A step that adds no call keeps the pool within its size.
LEMMA PoolStep ==
  ASSUME ControlInv, PoolInv, [Next]_vars
  PROVE  PoolInv'
<1>. USE StageAssumption
<1>1. /\ call \in [Procs -> [Requests -> CallStates]]
      /\ \A q \in Procs : IsFiniteSet(InFlight(q))
  BY FS_Subset DEF ControlInv, TypeOK, InFlight
<1>2. ASSUME \A q \in Procs, s \in Requests : call'[q][s] # "none" => call[q][s] # "none"
      PROVE  PoolInv'
  <2>. SUFFICES ASSUME NEW q \in Procs
                PROVE  Cardinality(InFlight(q)') <= Workers
    BY DEF PoolInv
  <2>1. InFlight(q)' \in SUBSET InFlight(q)
    BY <1>2 DEF InFlight
  <2>2. Cardinality(InFlight(q)') <= Cardinality(InFlight(q)) /\ IsFiniteSet(InFlight(q)')
    BY <1>1, <2>1, FS_Subset
  <2>3. Cardinality(InFlight(q)) \in Nat /\ Cardinality(InFlight(q)') \in Nat
    BY <1>1, <2>2, FS_CardinalityType
  <2>. QED
    BY <2>2, <2>3 DEF PoolInv
<1>3. ASSUME NEW p \in Procs, Submit(p)
      PROVE  PoolInv'
  <2>. DEFINE r == Min(queue[p])
  <2>1. r \in Requests
    BY <1>3, HeadOfQueue DEF Submit, CanSubmit, ControlInv
  <2>2. call' = [call EXCEPT ![p][r] = "sent"] /\ Cardinality(InFlight(p)) < Workers
    BY <1>3 DEF Submit, CanSubmit
  <2>. HIDE DEF r
  <2>3. InFlight(p)' = InFlight(p) \cup {r}
    BY <1>1, <2>1, <2>2 DEF InFlight
  <2>4. Cardinality(InFlight(p)') <= Workers
    <3>. DEFINE W == InFlight(p)
    <3>1. IsFiniteSet(W) /\ Cardinality(W) \in Nat /\ Cardinality(W) < Workers
      BY <1>1, <2>2, FS_CardinalityType
    <3>. HIDE DEF W
    <3>2. Cardinality(W \cup {r}) = IF r \in W THEN Cardinality(W) ELSE Cardinality(W) + 1
      BY <3>1, FS_AddElement, Zenon
    <3>3. InFlight(p)' = W \cup {r}
      BY <2>3 DEF W
    <3>. QED
      BY <3>1, <3>2, <3>3
  <2>5. \A q \in Procs \ {p} : InFlight(q)' = InFlight(q)
    BY <1>1, <2>2 DEF InFlight
  <2>. QED
    BY <2>4, <2>5 DEF PoolInv
<1>4. ASSUME NEW p \in Procs, NEW r \in Requests, Answer(p, r)
      PROVE  PoolInv'
  <2>1. call[p][r] = "sent" /\ \E k \in CallStates : call' = [call EXCEPT ![p][r] = k]
    BY <1>4 DEF Answer, CallStates
  <2>. QED
    BY <1>1, <1>2, <2>1
<1>5. ASSUME NEW p \in Procs, NEW r \in Requests, HandleSuccess(p, r) \/ HandleFailure(p, r)
      PROVE  PoolInv'
  <2>1. call' = [call EXCEPT ![p][r] = "none"]
    BY <1>5 DEF HandleSuccess, HandleFailure, AfterHandling
  <2>. QED
    BY <1>1, <1>2, <2>1
<1>6. ASSUME NEW p \in Procs, PoolShutdown(p) \/ Release(p) \/ Crash(p)
      PROVE  PoolInv'
  <2>1. call' = [call EXCEPT ![p] = NoCalls]
    BY <1>6 DEF PoolShutdown, Release, Crash, Forget
  <2>. QED
    BY <1>1, <1>2, <2>1 DEF NoCalls
<1>7. CASE UNCHANGED call
  BY <1>2, <1>7
<1>8. \/ UNCHANGED call
      \/ \E p \in Procs : Submit(p) \/ PoolShutdown(p) \/ Release(p) \/ Crash(p)
      \/ \E p \in Procs, r \in Requests :
           Answer(p, r) \/ HandleSuccess(p, r) \/ HandleFailure(p, r)
  BY DEF Next, Run, Fixture, AcquireLock, CheckContract, Scan, EndFill, Collect,
     Stop, CompleteStage, Interrupt, StartFixture, WriteFixture, FixtureFails,
     RemoveStaleLock, EditCheckout, vars, local, window
<1>. QED
  BY <1>3, <1>4, <1>5, <1>6, <1>7, <1>8

\* A call was billed its bound at most, so the pool was billed no more than it
\* reserves, and no more than --workers calls of the largest bound.
LEMMA ChargesAreBounded ==
  ASSUME ControlInv, PoolInv, NEW p \in Procs
  PROVE  Charges(p) \in Nat /\ Charges(p) <= Reserved(p) /\ Charges(p) <= Lost
<1>. USE StageAssumption
<1>. DEFINE f == [r \in Requests |-> ChargeOf(p, r)]
            g == [r \in Requests |-> IF call[p][r] = "none" THEN 0 ELSE Bound[r]]
<1>1. \A r \in Requests : /\ ChargeOf(p, r) \in Nat /\ ChargeOf(p, r) <= Bound[r]
                          /\ call[p][r] = "none" => ChargeOf(p, r) = 0
  BY DEF ControlInv, WindowInv, ChargeOf
<1>2. f \in [Requests -> Nat] /\ g \in [Requests -> Nat] /\ \A r \in Requests : f[r] <= g[r]
  BY <1>1
<1>3. \A r \in Requests : f[r] <= Largest
  BY <1>1, LargestIsBound
<1>4. \A r \in Requests \ InFlight(p) : f[r] = 0
  BY <1>1 DEF InFlight
<1>5. InFlight(p) \in SUBSET Requests /\ IsFiniteSet(InFlight(p)) /\ Largest \in Nat
  BY LargestIsBound, FS_Subset DEF InFlight
<1>6. Charges(p) = Total(f) /\ Reserved(p) = Total(g)
  BY DEF Charges, Reserved
<1>. HIDE DEF f, g
<1>7. Total(f) \in Nat /\ Total(f) <= Total(g) /\ Total(f) <= Cardinality(InFlight(p)) * Largest
  BY <1>2, <1>3, <1>4, <1>5, TotalType, TotalMonotone, TotalBounded
<1>8. Cardinality(InFlight(p)) * Largest <= Workers * Largest
  <2>1. \A k, n, m \in Nat : k <= n => k * m <= n * m
    OBVIOUS
  <2>2. Cardinality(InFlight(p)) \in Nat /\ Workers \in Nat
    BY <1>5, FS_CardinalityType
  <2>. QED
    BY <1>5, <2>1, <2>2 DEF PoolInv
<1>9. Cardinality(InFlight(p)) * Largest \in Nat /\ Workers * Largest \in Nat
  <2>1. \A n, m \in Nat : n * m \in Nat
    OBVIOUS
  <2>. QED
    BY <1>5, <2>1, FS_CardinalityType
<1>. QED
  BY <1>6, <1>7, <1>8, <1>9 DEF Lost

\* A process without calls in flight was billed for none.
LEMMA NothingCharged ==
  ASSUME NEW p \in Procs, \A r \in Requests : ChargeOf(p, r) = 0
  PROVE  Charges(p) = 0
<1>. DEFINE f == [r \in Requests |-> ChargeOf(p, r)]
<1>1. f \in [Requests -> Nat] /\ \A r \in Requests : f[r] = 0
  OBVIOUS
<1>2. Charges(p) = Total(f)
  BY DEF Charges
<1>. HIDE DEF f
<1>. QED
  BY <1>1, <1>2, TotalZero

\* The same of the next state.
LEMMA NothingChargedNext ==
  ASSUME NEW p \in Procs, \A r \in Requests : ChargeOf(p, r)' = 0
  PROVE  Charges(p)' = 0
<1>. DEFINE f == [r \in Requests |-> ChargeOf(p, r)']
<1>1. f \in [Requests -> Nat] /\ \A r \in Requests : f[r] = 0
  OBVIOUS
<1>2. Charges(p)' = Total(f)
  BY DEF Charges
<1>. HIDE DEF f
<1>. QED
  BY <1>1, <1>2, TotalZero

\* Nothing changes for a process whose calls were billed the same.
LEMMA ChargesSame ==
  ASSUME NEW p \in Procs, \A r \in Requests : ChargeOf(p, r)' = ChargeOf(p, r)
  PROVE  Charges(p)' = Charges(p)
<1>1. [r \in Requests |-> ChargeOf(p, r)'] = [r \in Requests |-> ChargeOf(p, r)]
  OBVIOUS
<1>. QED
  BY <1>1, Zenon DEF Charges

\* One call's charge comes, when it returns, or goes, when it is written down.
LEMMA ChargesUpdate ==
  ASSUME ControlInv, NEW p \in Procs, NEW r \in Requests, NEW c \in Nat,
         ChargeOf(p, r)' = c,
         \A s \in Requests \ {r} : ChargeOf(p, s)' = ChargeOf(p, s)
  PROVE  Charges(p)' = Charges(p) - ChargeOf(p, r) + c
<1>. USE StageAssumption
<1>. DEFINE f == [s \in Requests |-> ChargeOf(p, s)]
            g == [s \in Requests |-> ChargeOf(p, s)']
<1>1. \A s \in Requests : ChargeOf(p, s) \in Nat
  BY DEF ControlInv, WindowInv, ChargeOf
<1>2. f \in [Requests -> Nat] /\ f[r] = ChargeOf(p, r) /\ IsFiniteSet(Requests)
  BY <1>1
<1>3. g = [f EXCEPT ![r] = c]
  OBVIOUS
<1>4. Charges(p) = Total(f) /\ Charges(p)' = Total(g)
  BY DEF Charges
<1>. HIDE DEF f, g
<1>5. \A h \in [Requests -> Nat], x \in Requests, v \in Nat :
        Total([h EXCEPT ![x] = v]) = Total(h) - h[x] + v
  BY TotalUpdate
<1>6. Total([f EXCEPT ![r] = c]) = Total(f) - f[r] + c
  BY <1>2, <1>5, Zenon
<1>. QED
  BY <1>2, <1>3, <1>4, <1>6

\* The booked amounts are a number, and Recorded is them but for the fixture.
LEMMA BookedIsRecorded ==
  ASSUME TypeOK
  PROVE  /\ Booked \in Nat /\ Recorded \in Nat
         /\ Booked = IF Capped THEN Recorded ELSE fixtureCost + Recorded
<1>1. fixtureCost \in Nat /\ Incremental \in Nat /\ Total(failureCost) \in Nat
  BY SumsAreNatural DEF TypeOK
<1>. QED
  BY <1>1 DEF Booked, Recorded

\* Only the holder of the lock was billed for calls in flight.
LEMMA PoolCharges ==
  ASSUME ControlInv, PoolInv
  PROVE  /\ InPool \in Nat /\ InPool <= Lost /\ Interrupted \in Nat
         /\ lock # Free => InPool = Charges(lock)
         /\ lock = Free => InPool = 0
         /\ \A p \in Procs : pc[p] \in Held => InPool = Charges(p)
<1>. USE StageAssumption
<1>1. lock \in Procs \cup {Free}
  BY DEF ControlInv, TypeOK
<1>2. lock # Free => Charges(lock) \in Nat /\ Charges(lock) <= Lost
  BY <1>1, ChargesAreBounded
<1>3. Lost \in Nat
  BY LargestIsBound
<1>4. \A p \in Procs : pc[p] \in Held => lock = p /\ lock # Free
  BY DEF ControlInv, HolderInv
<1>. QED
  BY <1>2, <1>3, <1>4 DEF InPool, Interrupted

\* Where the pool's charges and the allowance for an interrupt come from.
LEMMA PoolOfHolder ==
  /\ \A p \in Procs : lock = p =>
       InPool = Charges(p) /\ Interrupted = IF pc[p] = "abandon" THEN Lost ELSE 0
  /\ lock = Free => InPool = 0 /\ Interrupted = 0
BY StageAssumption DEF InPool, Interrupted

\* The same of the next state.
LEMMA PoolOfHolderNext ==
  /\ \A p \in Procs : lock' = p =>
       InPool' = Charges(p)' /\ Interrupted' = IF pc'[p] = "abandon" THEN Lost ELSE 0
  /\ lock' = Free => InPool' = 0 /\ Interrupted' = 0
<1>1. (/\ \A p \in Procs : lock = p =>
            InPool = Charges(p) /\ Interrupted = IF pc[p] = "abandon" THEN Lost ELSE 0
       /\ lock = Free => InPool = 0 /\ Interrupted = 0)'
  BY PoolOfHolder, PTL
<1>2. Lost' = Lost
  BY DEF Lost, Largest
<1>. QED
  BY <1>1, <1>2

\* No step leaves a charge unaccounted for: an answer is billed into the pool, a
\* handler books it, and what a crash, an interrupt or a failed fixture forgets
\* is at most one window of calls.
LEMMA LedgerStep ==
  ASSUME OneFixtureRunner, ControlInv, ControlInv', FixtureInv, PoolInv, PoolInv', LedgerInv,
         [Next]_vars
  PROVE  LedgerInv'
<1>. USE StageAssumption
<1>1. /\ TypeOK /\ TypeOK' /\ Booked \in Nat /\ Lost \in Nat
      /\ billed \in Nat /\ losses \in Nat /\ lock \in Procs \cup {Free}
      /\ losses * Lost \in Nat /\ (losses + 1) * Lost = losses * Lost + Lost
  <2>1. TypeOK /\ TypeOK' /\ Booked \in Nat /\ Lost \in Nat
    BY BookedIsRecorded, LargestIsBound DEF ControlInv
  <2>2. billed \in Nat /\ losses \in Nat /\ lock \in Procs \cup {Free}
    BY <2>1 DEF TypeOK
  <2>3. \A n, m \in Nat : n * m \in Nat /\ (n + 1) * m = n * m + m
    OBVIOUS
  <2>. QED
    BY <2>1, <2>2, <2>3
<1>2. /\ InPool \in Nat /\ InPool <= Lost /\ Interrupted \in Nat
      /\ lock # Free => InPool = Charges(lock)
      /\ lock = Free => InPool = 0
  BY PoolCharges
<1>3. lock' \in Procs \cup {Free} /\ billed' \in Nat /\ losses' \in Nat
  BY <1>1 DEF TypeOK
<1>4. /\ \A p \in Procs : lock = p =>
           InPool = Charges(p) /\ Interrupted = IF pc[p] = "abandon" THEN Lost ELSE 0
      /\ lock = Free => InPool = 0 /\ Interrupted = 0
      /\ \A p \in Procs : lock' = p =>
           InPool' = Charges(p)' /\ Interrupted' = IF pc'[p] = "abandon" THEN Lost ELSE 0
      /\ lock' = Free => InPool' = 0 /\ Interrupted' = 0
  BY PoolOfHolder, PoolOfHolderNext
<1>5. ASSUME UNCHANGED <<fixtureCost, responseCost, failureCost>>
      PROVE  Booked' = Booked
  BY <1>5, Zenon DEF Booked, Incremental
<1>6. LedgerInv' <=> billed' + Interrupted' <= Booked' + InPool' + losses' * Lost
  BY DEF LedgerInv, Lost, Largest
<1>7. billed + Interrupted <= Booked + InPool + losses * Lost
  BY DEF LedgerInv
<1>8. ASSUME NEW p \in Procs
      PROVE  /\ pc[p] \in Held => lock = p /\ p # Free
             /\ pc[p] \in Quiet => Charges(p) = 0
  <2>1. pc[p] \in Quiet => \A r \in Requests : ChargeOf(p, r) = 0
    BY DEF ControlInv, QuietInv, ChargeOf
  <2>. QED
    BY <2>1, NothingCharged DEF ControlInv, HolderInv
<1>9. ASSUME NEW p \in Procs, pc'[p] \in Quiet
      PROVE  Charges(p)' = 0
  <2>1. \A r \in Requests : ChargeOf(p, r)' = 0
    BY <1>9 DEF ControlInv, QuietInv, ChargeOf
  <2>. QED
    BY <2>1, NothingChargedNext
\* Steps that bill and book nothing.
<1>10. ASSUME UNCHANGED <<fixtureCost, responseCost, failureCost, lock>>,
              \A q \in Procs, r \in Requests : ChargeOf(q, r)' = ChargeOf(q, r),
              \A q \in Procs : pc'[q] = "abandon" <=> pc[q] = "abandon"
       PROVE  Booked' = Booked /\ InPool' = InPool /\ Interrupted' = Interrupted
  <2>1. \A q \in Procs : Charges(q)' = Charges(q)
    BY <1>10, ChargesSame
  <2>2. InPool' = InPool
    BY <1>1, <1>2, <1>4, <1>10, <2>1
  <2>3. Interrupted' = Interrupted
    BY <1>1, <1>4, <1>10
  <2>. QED
    BY <1>5, <1>10, <2>2, <2>3
<1>11. ASSUME UNCHANGED <<fixtureCost, responseCost, failureCost, lock, billed, losses, call, price>>,
              \A q \in Procs : pc'[q] = "abandon" <=> pc[q] = "abandon"
       PROVE  LedgerInv'
  <2>1. \A q \in Procs, r \in Requests : ChargeOf(q, r)' = ChargeOf(q, r)
    BY <1>11 DEF ChargeOf
  <2>. QED
    BY <1>6, <1>7, <1>10, <1>11, <2>1
<1>12. ASSUME NEW p \in Procs,
              \/ CheckContract(p) \/ Scan(p) \/ EndFill(p) \/ Collect(p) \/ Stop(p)
              \/ CompleteStage(p) \/ StartFixture(p)
       PROVE  LedgerInv'
  <2>1. /\ UNCHANGED <<fixtureCost, responseCost, failureCost, lock, billed, losses, call, price>>
        /\ \A q \in Procs : pc'[q] = "abandon" <=> pc[q] = "abandon"
    BY <1>1, <1>12 DEF TypeOK, CheckContract, Scan, EndFill, Collect, Stop, CompleteStage,
       StartFixture, Goto, disk, window
  <2>. QED
    BY <1>11, <2>1
<1>13. CASE EditCheckout \/ UNCHANGED vars
  BY <1>11, <1>13 DEF EditCheckout, vars, local, disk, window
<1>14. ASSUME NEW p \in Procs, AcquireLock(p)
       PROVE  LedgerInv'
  <2>1. lock = Free /\ lock' = p /\ p # Free /\ pc'[p] = "locked"
    BY <1>1, <1>14 DEF AcquireLock, LockAvailable, Goto, TypeOK
  <2>2. Booked' = Booked /\ billed' = billed /\ losses' = losses
    BY <1>5, <1>14 DEF AcquireLock
  <2>3. InPool' = 0 /\ Interrupted' = 0
    BY <1>4, <1>9, <2>1 DEF Quiet
  <2>. QED
    BY <1>1, <1>2, <1>6, <1>7, <2>1, <2>2, <2>3
<1>15. ASSUME UNCHANGED <<fixtureCost, responseCost, failureCost, billed, losses>>,
              lock # Free, pc[lock] \in Quiet, lock' = Free
       PROVE  LedgerInv'
  <2>1. InPool = 0 /\ InPool' = 0 /\ Interrupted' = 0 /\ Booked' = Booked
    BY <1>1, <1>2, <1>4, <1>5, <1>8, <1>15
  <2>. QED
    BY <1>1, <1>2, <1>6, <1>7, <1>15, <2>1
<1>16. ASSUME NEW p \in Procs, Release(p)
       PROVE  LedgerInv'
  <2>1. pc[p] = "release" /\ lock = p /\ lock # Free /\ lock' = Free
    BY <1>8, <1>16 DEF Release, Held
  <2>2. UNCHANGED <<fixtureCost, responseCost, failureCost, billed, losses>>
    BY <1>16 DEF Release
  <2>. QED
    BY <1>15, <2>1, <2>2 DEF Quiet
<1>17. CASE RemoveStaleLock
  <2>1. lock # Free /\ pc[lock] \notin Held /\ lock' = Free
    BY <1>17 DEF RemoveStaleLock
  <2>2. pc[lock] \in Quiet
    BY <1>1, <2>1 DEF TypeOK, Held, Executing, Quiet
  <2>3. UNCHANGED <<fixtureCost, responseCost, failureCost, billed, losses>>
    BY <1>17 DEF RemoveStaleLock
  <2>. QED
    BY <1>15, <2>1, <2>2, <2>3
\* Steps of the pool.
<1>18. ASSUME NEW p \in Procs, Submit(p)
       PROVE  LedgerInv'
  <2>. DEFINE r == Min(queue[p])
  <2>1. r \in Requests /\ r \in queue[p]
    BY <1>1, <1>18, HeadOfQueue DEF Submit, CanSubmit
  <2>2. /\ pc[p] = "fill" /\ call' = [call EXCEPT ![p][r] = "sent"]
        /\ UNCHANGED <<fixtureCost, responseCost, failureCost, lock, billed, losses, price, pc>>
    BY <1>18 DEF Submit, disk
  <2>. HIDE DEF r
  <2>3. call[p][r] = "none"
    BY <2>1, <2>2 DEF ControlInv, WindowInv, Scanned, Executing
  <2>4. \A q \in Procs, s \in Requests : ChargeOf(q, s)' = ChargeOf(q, s)
    BY <1>1, <2>1, <2>2, <2>3 DEF TypeOK, ChargeOf
  <2>5. Booked' = Booked /\ InPool' = InPool /\ Interrupted' = Interrupted
    BY <1>10, <2>2, <2>4
  <2>. QED
    BY <1>6, <1>7, <2>2, <2>5
<1>19. ASSUME NEW p \in Procs, NEW r \in Requests, Answer(p, r)
       PROVE  LedgerInv'
  <2>1. /\ call[p][r] = "sent" /\ billed' = billed + ChargeOf(p, r)'
        /\ \A s \in Requests \ {r} : call'[p][s] = call[p][s] /\ price'[p][s] = price[p][s]
        /\ ChargeOf(p, r)' \in Nat
    <3>1. CASE \E c \in 1 .. Bound[r] :
                 /\ call' = [call EXCEPT ![p][r] = "ok"]
                 /\ price' = [price EXCEPT ![p][r] = c]
                 /\ billed' = billed + c
                 /\ UNCHANGED faults
      <4>1. PICK c \in 1 .. Bound[r] :
                 /\ call' = [call EXCEPT ![p][r] = "ok"]
                 /\ price' = [price EXCEPT ![p][r] = c]
                 /\ billed' = billed + c
        BY <3>1
      <4>2. ChargeOf(p, r)' = c
        BY <1>1, <4>1 DEF TypeOK, ChargeOf
      <4>3. \A s \in Requests \ {r} : call'[p][s] = call[p][s] /\ price'[p][s] = price[p][s]
        BY <1>1, <4>1 DEF TypeOK
      <4>4. c \in Nat
        OBVIOUS
      <4>5. call[p][r] = "sent"
        BY <1>19 DEF Answer
      <4>. QED
        BY <4>1, <4>2, <4>3, <4>4, <4>5, Zenon
    <3>2. CASE \E kind \in FailureKinds :
                 /\ faults < MaxFaults
                 /\ faults' = faults + 1
                 /\ call' = [call EXCEPT ![p][r] = kind]
                 /\ billed' = billed + (IF kind = "throttled" THEN 0 ELSE Bound[r])
                 /\ UNCHANGED price
      <4>1. PICK kind \in FailureKinds :
                 /\ call' = [call EXCEPT ![p][r] = kind]
                 /\ billed' = billed + (IF kind = "throttled" THEN 0 ELSE Bound[r])
                 /\ UNCHANGED price
        BY <3>2
      <4>2. ChargeOf(p, r)' = IF kind = "throttled" THEN 0 ELSE Bound[r]
        BY <1>1, <4>1 DEF TypeOK, ChargeOf, FailureKinds
      <4>3. \A s \in Requests \ {r} : call'[p][s] = call[p][s] /\ price'[p][s] = price[p][s]
        BY <1>1, <4>1 DEF TypeOK
      <4>4. Bound[r] \in Nat
        OBVIOUS
      <4>5. call[p][r] = "sent"
        BY <1>19 DEF Answer
      <4>. QED
        BY <4>1, <4>2, <4>3, <4>4, <4>5
    <3>. QED
      BY <1>19, <3>1, <3>2 DEF Answer
  <2>2. UNCHANGED <<fixtureCost, responseCost, failureCost, lock, losses, pc>>
    BY <1>19 DEF Answer, disk
  <2>3. pc[p] \in Held
    BY <1>1, <2>1 DEF ControlInv, QuietInv, TypeOK, Held, Executing, Quiet
  <2>4. lock = p /\ lock # Free /\ InPool = Charges(p)
    BY <1>2, <1>8, <2>3
  <2>5. Charges(p)' = Charges(p) + ChargeOf(p, r)'
    <3>1. ChargeOf(p, r) = 0 /\ \A s \in Requests \ {r} : ChargeOf(p, s)' = ChargeOf(p, s)
      BY <2>1 DEF ChargeOf
    <3>2. Charges(p) \in Nat
      BY <1>2, <2>4
    <3>3. Charges(p)' = Charges(p) - ChargeOf(p, r) + ChargeOf(p, r)'
      BY <2>1, <3>1, ChargesUpdate, Zenon
    <3>. QED
      BY <2>1, <3>1, <3>2, <3>3
  <2>6. InPool' = InPool + ChargeOf(p, r)' /\ Interrupted' = Interrupted
    BY <1>4, <2>2, <2>4, <2>5
  <2>7. Booked' = Booked
    BY <1>5, <2>2
  <2>. QED
    BY <1>1, <1>2, <1>6, <1>7, <2>1, <2>2, <2>6, <2>7
<1>20. ASSUME NEW p \in Procs, NEW r \in Requests, HandleSuccess(p, r) \/ HandleFailure(p, r)
       PROVE  LedgerInv'
  <2>1. /\ pc[p] = "handle" /\ pc'[p] # "abandon"
        /\ call' = [call EXCEPT ![p][r] = "none"] /\ price' = [price EXCEPT ![p][r] = 0]
        /\ UNCHANGED <<fixtureCost, lock, billed, losses>>
    BY <1>1, <1>20 DEF HandleSuccess, HandleFailure, AfterHandling, AfterBatch, Goto, TypeOK
  <2>2. lock = p /\ lock # Free /\ InPool = Charges(p)
    BY <1>2, <1>8, <2>1 DEF Held, Executing
  <2>3. ChargeOf(p, r) \in Nat
    BY DEF ControlInv, WindowInv, ChargeOf
  <2>4. Charges(p)' = Charges(p) - ChargeOf(p, r)
    <3>1. ChargeOf(p, r)' = 0 /\ \A s \in Requests \ {r} : ChargeOf(p, s)' = ChargeOf(p, s)
      BY <1>1, <2>1 DEF TypeOK, ChargeOf
    <3>2. Charges(p)' = Charges(p) - ChargeOf(p, r) + 0
      BY <3>1, ChargesUpdate
    <3>. QED
      BY <1>2, <2>2, <2>3, <3>2
  <2>5. Recorded' = Recorded + ChargeOf(p, r)
    <3>1. CASE HandleSuccess(p, r)
      <4>1. /\ call[p][r] = "ok" /\ responseCost' = [responseCost EXCEPT ![r] = price[p][r]]
            /\ UNCHANGED <<fixtureCost, failureCost>>
        BY <3>1 DEF HandleSuccess
      <4>2. ChargeOf(p, r) = price[p][r]
        BY <4>1 DEF ChargeOf
      <4>3. r \notin Imported /\ responseCost[r] = 0
        BY <4>1 DEF ControlInv, WindowInv, OpenRequest, ReceiptInv
      <4>. QED
        BY <1>1, <2>3, <4>1, <4>2, <4>3, RecordedAnswer
    <3>2. CASE HandleFailure(p, r)
      <4>1. /\ call[p][r] \in FailureKinds
            /\ failureCost' = [failureCost EXCEPT ![r] = @ + FailureBound(p, r)]
            /\ UNCHANGED <<fixtureCost, responseCost>>
        BY <3>2 DEF HandleFailure
      <4>2. ChargeOf(p, r) = FailureBound(p, r)
        BY <4>1 DEF ChargeOf, FailureBound, FailureKinds
      <4>. QED
        BY <1>1, <2>3, <4>1, <4>2, RecordedFailure
    <3>. QED
      BY <1>20, <3>1, <3>2
  <2>6. Booked' = Booked + ChargeOf(p, r)
    <3>1. Booked' = IF Capped THEN Recorded' ELSE fixtureCost' + Recorded'
      <4>1. TypeOK' => (Booked = IF Capped THEN Recorded ELSE fixtureCost + Recorded)'
        BY BookedIsRecorded, PTL
      <4>. QED
        BY <1>1, <4>1
    <3>2. /\ Booked = IF Capped THEN Recorded ELSE fixtureCost + Recorded
          /\ Recorded \in Nat /\ fixtureCost \in Nat
      BY <1>1, BookedIsRecorded DEF TypeOK
    <3>. QED
      BY <2>1, <2>3, <2>5, <3>1, <3>2
  <2>7. InPool' = InPool - ChargeOf(p, r) /\ Interrupted' = 0 /\ Interrupted = 0
    BY <1>4, <2>1, <2>2, <2>4
  <2>. QED
    BY <1>1, <1>2, <1>6, <1>7, <2>1, <2>3, <2>6, <2>7
\* Losses.
<1>21. ASSUME NEW p \in Procs, Interrupt(p)
       PROVE  LedgerInv'
  <2>1. /\ pc[p] \in Executing /\ pc'[p] = "abandon" /\ losses' = losses + 1
        /\ UNCHANGED <<fixtureCost, responseCost, failureCost, lock, billed, call, price>>
    BY <1>1, <1>21 DEF Interrupt, TypeOK, disk, window
  <2>2. lock = p /\ lock # Free /\ InPool = Charges(p)
    BY <1>2, <1>8, <2>1 DEF Held
  <2>3. InPool' = InPool /\ Interrupted = 0 /\ Interrupted' = Lost
    <3>1. Charges(p)' = Charges(p)
      BY <2>1, ChargesSame DEF ChargeOf
    <3>. QED
      BY <1>4, <2>1, <2>2, <3>1 DEF Executing
  <2>4. Booked' = Booked
    BY <1>5, <2>1
  <2>. QED
    BY <1>1, <1>2, <1>6, <1>7, <2>1, <2>3, <2>4
<1>22. ASSUME NEW p \in Procs, PoolShutdown(p)
       PROVE  LedgerInv'
  <2>1. /\ pc[p] = "abandon" /\ pc'[p] = "release"
        /\ UNCHANGED <<fixtureCost, responseCost, failureCost, lock, billed, losses>>
    BY <1>1, <1>22 DEF PoolShutdown, Goto, TypeOK, disk
  <2>2. lock = p /\ lock # Free /\ Interrupted = Lost
    BY <1>4, <1>8, <2>1 DEF Held
  <2>3. InPool' = 0 /\ Interrupted' = 0
    BY <1>4, <1>9, <2>1, <2>2 DEF Quiet
  <2>4. Booked' = Booked
    BY <1>5, <2>1
  <2>. QED
    BY <1>1, <1>2, <1>6, <1>7, <2>1, <2>2, <2>3, <2>4
<1>23. ASSUME NEW p \in Procs, pc[p] = "fixture", pc'[p] = "idle",
              \A q \in Procs \ {p} : pc'[q] = pc[q] /\ call'[q] = call[q] /\ price'[q] = price[q],
              UNCHANGED lock
       PROVE  InPool' = InPool /\ Interrupted' = Interrupted
  <2>1. \A q \in Procs : Charges(q)' = Charges(q)
    <3>. SUFFICES ASSUME NEW q \in Procs
                  PROVE  Charges(q)' = Charges(q)
      OBVIOUS
    <3>1. CASE q = p
      BY <1>8, <1>9, <1>23, <3>1 DEF Quiet
    <3>2. CASE q # p
      BY <1>23, <3>2, ChargesSame DEF ChargeOf
    <3>. QED
      BY <3>1, <3>2
  <2>2. \A q \in Procs : pc'[q] = "abandon" <=> pc[q] = "abandon"
    BY <1>23
  <2>. QED
    BY <1>1, <1>2, <1>4, <1>23, <2>1, <2>2
<1>24. ASSUME NEW p \in Procs, pc[p] = "fixture", Crash(p) \/ FixtureFails(p)
       PROVE  LedgerInv'
  <2>1. /\ pc'[p] = "idle" /\ billed' = billed + FixtureBound /\ losses' = losses + 1
        /\ \A q \in Procs \ {p} : pc'[q] = pc[q] /\ call'[q] = call[q] /\ price'[q] = price[q]
        /\ UNCHANGED <<fixtureCost, responseCost, failureCost, lock>>
    BY <1>1, <1>24 DEF Crash, Forget, FixtureFails, Goto, TypeOK, disk, window
  <2>2. InPool' = InPool /\ Interrupted' = Interrupted
    BY <1>23, <1>24, <2>1
  <2>3. Booked' = Booked
    BY <1>5, <2>1
  <2>4. FixtureBound <= Lost /\ FixtureBound \in Nat
    BY LargestIsBound
  <2>. QED
    BY <1>1, <1>2, <1>6, <1>7, <2>1, <2>2, <2>3, <2>4
<1>25. ASSUME NEW p \in Procs, pc[p] # "fixture", Crash(p)
       PROVE  LedgerInv'
  <2>1. /\ pc[p] \in Held /\ pc'[p] = "idle" /\ billed' = billed /\ losses' = losses + 1
        /\ UNCHANGED <<fixtureCost, responseCost, failureCost, lock>>
    BY <1>1, <1>25 DEF Crash, Forget, TypeOK, disk
  <2>2. lock = p /\ lock # Free
    BY <1>8, <2>1
  <2>3. InPool' = 0 /\ Interrupted' = 0
    BY <1>4, <1>9, <2>1, <2>2 DEF Quiet
  <2>4. Booked' = Booked
    BY <1>5, <2>1
  <2>. QED
    BY <1>1, <1>2, <1>6, <1>7, <2>1, <2>3, <2>4
<1>26. ASSUME NEW p \in Procs, WriteFixture(p)
       PROVE  LedgerInv'
  <2>1. /\ pc[p] = "fixture" /\ pc'[p] = "idle"
        /\ UNCHANGED <<lock, responseCost, failureCost, losses>>
        /\ \A q \in Procs \ {p} : pc'[q] = pc[q] /\ call'[q] = call[q] /\ price'[q] = price[q]
    BY <1>1, <1>26 DEF WriteFixture, Goto, TypeOK, window
  <2>2. PICK c \in 1 .. FixtureBound : fixtureCost' = c /\ billed' = billed + c
    BY <1>26 DEF WriteFixture
  <2>3. c \in Nat /\ fixtureCost = 0
    BY <2>1 DEF FixtureInv
  <2>4. Booked' = Booked + c
    <3>1. Incremental' = Incremental /\ Total(failureCost)' = Total(failureCost)
      BY <2>1, Zenon DEF Incremental
    <3>2. Incremental \in Nat /\ Total(failureCost) \in Nat
      BY <1>1, SumsAreNatural
    <3>. QED
      BY <2>2, <2>3, <3>1, <3>2 DEF Booked
  <2>5. InPool' = InPool /\ Interrupted' = Interrupted
    BY <1>23, <2>1
  <2>. QED
    BY <1>1, <1>2, <1>6, <1>7, <2>1, <2>2, <2>3, <2>4, <2>5
<1>27. ASSUME NEW p \in Procs, FixtureFails(p)
       PROVE  LedgerInv'
  <2>1. pc[p] = "fixture"
    BY <1>27 DEF FixtureFails, Goto
  <2>. QED
    BY <1>24, <1>27, <2>1
<1>. QED
  BY <1>12, <1>13, <1>14, <1>16, <1>17, <1>18, <1>19, <1>20, <1>21, <1>22, <1>24, <1>25,
     <1>26, <1>27 DEF Next, Run, Fixture

\* The runner books every charge but what its losses cost: with one fixture
\* runner at a time, the provider never billed more than the files record and
\* the calls in flight reserve, plus a window of the dearest calls per loss.
THEOREM LossIsBoundedHolds ==
  ASSUME OneFixtureRunner
  PROVE  Spec => []LossIsBounded
<1>. USE StageAssumption
<1>1. Init => PoolInv /\ LedgerInv
  <2>. SUFFICES ASSUME Init
                PROVE  PoolInv /\ LedgerInv
    OBVIOUS
  <2>1. TypeOK
    BY DEF Init, TypeOK, NoCalls, Zeros, CallStates, FailureKinds
  <2>2. PoolInv
    <3>1. \A p \in Procs : InFlight(p) = {}
      BY DEF Init, NoCalls, InFlight
    <3>. QED
      BY <3>1, FS_EmptySet DEF PoolInv
  <2>3. billed = 0 /\ losses = 0 /\ lock = Free
    BY DEF Init
  <2>4. Booked \in Nat /\ Lost \in Nat
    BY <2>1, BookedIsRecorded, LargestIsBound
  <2>. QED
    BY <2>2, <2>3, <2>4 DEF LedgerInv, InPool, Interrupted
<1>2. StageInv /\ StageInv' /\ PoolInv /\ LedgerInv /\ [Next]_vars => PoolInv' /\ LedgerInv'
  <2>1. OneFixtureRunner' <=> OneFixtureRunner
    BY DEF OneFixtureRunner
  <2>. QED
    BY <2>1, PoolStep, LedgerStep DEF StageInv, SpendingInv
<1>3. StageInv /\ PoolInv /\ LedgerInv => LossIsBounded
  <2>. SUFFICES ASSUME ControlInv, PoolInv, LedgerInv
                PROVE  LossIsBounded
    BY DEF StageInv
  <2>. DEFINE reserved == [p \in Procs |-> Reserved(p)]
  <2>1. /\ TypeOK /\ reserved \in [Procs -> Nat]
        /\ lock \in Procs \cup {Free}
    BY SumsAreNatural DEF ControlInv, TypeOK
  <2>2. InPool <= Total(reserved) /\ Total(reserved) \in Nat
    <3>1. CASE \E p \in Procs : pc[p] \in Held
      <4>1. PICK p \in Procs : pc[p] \in Held
        BY <3>1
      <4>2. \A q \in Procs \ {p} : reserved[q] = 0
        BY <2>1, <4>1, OthersAreQuiet, NothingReserved
      <4>3. Total(reserved) = reserved[p]
        <5>. HIDE DEF reserved
        <5>. QED
          BY <2>1, <4>2, TotalSingle
      <4>4. InPool = Charges(p) /\ Charges(p) <= Reserved(p)
        BY <4>1, PoolCharges, ChargesAreBounded
      <4>. QED
        BY <2>1, <4>3, <4>4
    <3>2. CASE \A p \in Procs : pc[p] \notin Held
      <4>1. \A p \in Procs : \A r \in Requests : call[p][r] = "none"
        BY <2>1, <3>2 DEF TypeOK, ControlInv, QuietInv, Quiet, Held, Executing
      <4>2. \A p \in Procs : reserved[p] = 0 /\ Charges(p) = 0
        BY <2>1, <4>1, NothingReserved, NothingCharged DEF ChargeOf
      <4>3. Total(reserved) = 0
        <5>. HIDE DEF reserved
        <5>. QED
          BY <2>1, <4>2, TotalZero
      <4>. QED
        BY <2>1, <4>2, <4>3, PoolCharges
    <3>. QED
      BY <3>1, <3>2
  <2>3. billed + Interrupted <= Booked + InPool + losses * Lost
    BY DEF LedgerInv
  <2>4. /\ billed \in Nat /\ Interrupted \in Nat /\ Booked \in Nat /\ InPool \in Nat
        /\ losses * Lost \in Nat
    <3>1. \A n, m \in Nat : n * m \in Nat
      OBVIOUS
    <3>2. losses \in Nat /\ Lost \in Nat /\ billed \in Nat
      BY <2>1, LargestIsBound DEF TypeOK
    <3>. QED
      BY <2>1, <3>1, <3>2, PoolCharges, BookedIsRecorded
  <2>5. losses * Lost = losses * Workers * Largest
    <3>1. \A k, n, m \in Nat : k * (n * m) = k * n * m
      OBVIOUS
    <3>2. losses \in Nat /\ Workers \in Nat /\ Largest \in Nat
      BY <2>1, LargestIsBound DEF TypeOK
    <3>. QED
      BY <3>1, <3>2 DEF Lost
  <2>6. billed <= Booked + Total(reserved) + losses * Workers * Largest
    <3>. HIDE DEF reserved
    <3>. QED
      BY <2>2, <2>3, <2>4, <2>5
  <2>. QED
    BY <2>6 DEF LossIsBounded, Booked
<1>. QED
  BY <1>1, <1>2, <1>3, StageInvHolds, PTL DEF Spec

-----------------------------------------------------------------------------
(* A capped stage implements PaidStage, as long as one fixture command runs *)
(* at a time.                                                               *)

\* The abstract state of a request.
AnswerOf == [r \in Requests |-> IF r \in Answered THEN "answered"
                                ELSE IF r \in terminal THEN "frozen"
                                ELSE "open"]

\* Without a fixture receipt nothing is recorded.
LEMMA NothingRecorded ==
  ASSUME TypeOK, FixtureInv, fixtureCommit = NoCommit
  PROVE  Recorded = 0
<1>. DEFINE f == [r \in Requests |-> IF r \in Imported THEN 0 ELSE responseCost[r]]
            g == failureCost
<1>1. f \in [Requests -> Nat] /\ \A r \in Requests : f[r] = 0
  BY DEF TypeOK, FixtureInv
<1>2. g \in [Requests -> Nat] /\ \A r \in Requests : g[r] = 0
  BY DEF TypeOK, FixtureInv
<1>3. Incremental = Total(f) /\ Total(failureCost) = Total(g)
  BY DEF Incremental
<1>4. Total(f) = 0 /\ Total(g) = 0
  <2>. HIDE DEF f, g
  <2>. QED
    BY <1>1, <1>2, TotalZero
<1>. QED
  BY <1>3, <1>4 DEF Recorded, FixtureInv

\* One answer or one failure receipt is one step of the abstract stage.
LEMMA HandlersRefine ==
  ASSUME Capped, ControlInv, SpendingInv, SpendingInv', TypeOK',
         NEW p \in Procs, NEW r \in Requests,
         HandleSuccess(p, r) \/ HandleFailure(p, r)
  PROVE  Promise!Save(r) \/ Promise!ChargeFailure(r)
<1>. USE StageAssumption
<1>1. TypeOK /\ pc[p] = "handle" /\ call[p][r] # "none"
  BY DEF ControlInv, HandleSuccess, HandleFailure, AfterHandling, Goto, FailureKinds
<1>2. /\ responseCommit[r] = NoCommit /\ r \notin terminal /\ r \notin Imported
      /\ responseCost[r] = 0 /\ commit[p] # NoCommit
  BY <1>1 DEF ControlInv, WindowInv, OpenRequest, ReceiptInv, CommitInv, Scanned, Executing
<1>3. AnswerOf[r] = "open"
  BY <1>2 DEF AnswerOf, Answered
<1>4. Recorded' <= Cap
  <2>1. Recorded' + Reserved(p)' <= Cap
    BY DEF SpendingInv, RecordedWithinCap
  <2>2. Recorded' \in Nat /\ Reserved(p)' \in Nat
    BY SumsStayNatural
  <2>. QED
    BY <2>1, <2>2
<1>5. Recorded \in Nat /\ Recorded' \in Nat
  BY <1>1, SumsAreNatural, SumsStayNatural
<1>6. CASE HandleSuccess(p, r)
  <2>1. /\ responseCommit' = [responseCommit EXCEPT ![r] = commit[p]]
        /\ responseCost' = [responseCost EXCEPT ![r] = price[p][r]]
        /\ UNCHANGED <<terminal, completion, fixtureCost, failureCost>>
    BY <1>6 DEF HandleSuccess
  <2>2. price[p][r] \in Nat
    BY <1>1 DEF TypeOK
  <2>3. Recorded' = Recorded + price[p][r]
    BY <1>1, <1>2, <2>1, <2>2, RecordedAnswer
  <2>4. AnswerOf' = [AnswerOf EXCEPT ![r] = "answered"]
    BY <1>1, <1>2, <2>1 DEF AnswerOf, Answered, TypeOK
  <2>. QED
    BY <1>3, <1>4, <1>5, <2>1, <2>2, <2>3, <2>4 DEF Promise!Save, AnswerOf
<1>7. CASE HandleFailure(p, r)
  <2>1. /\ failureCost' = [failureCost EXCEPT ![r] = @ + FailureBound(p, r)]
        /\ terminal' = terminal \cup (IF RetryEligible(p, r) THEN {} ELSE {r})
        /\ UNCHANGED <<responseCommit, completion, fixtureCost, responseCost>>
    BY <1>7 DEF HandleFailure
  <2>2. FailureBound(p, r) \in Nat
    <3>1. Bound[r] \in Nat
      OBVIOUS
    <3>. QED
      BY <3>1 DEF FailureBound
  <2>3. Recorded' = Recorded + FailureBound(p, r)
    BY <1>1, <2>1, <2>2, RecordedFailure
  <2>4. \E a \in {"open", "frozen"} : AnswerOf' = [AnswerOf EXCEPT ![r] = a]
    <3>1. CASE RetryEligible(p, r)
      <4>1. AnswerOf' = AnswerOf
        BY <2>1, <3>1 DEF AnswerOf, Answered
      <4>2. AnswerOf = [AnswerOf EXCEPT ![r] = "open"]
        BY <1>3 DEF AnswerOf
      <4>. QED
        BY <4>1, <4>2
    <3>2. CASE ~ RetryEligible(p, r)
      <4>1. AnswerOf' = [AnswerOf EXCEPT ![r] = "frozen"]
        BY <1>2, <2>1, <3>2 DEF AnswerOf, Answered
      <4>. QED
        BY <4>1
    <3>. QED
      BY <3>1, <3>2
  <2>5. PICK a \in {"open", "frozen"} : AnswerOf' = [AnswerOf EXCEPT ![r] = a]
    BY <2>4
  <2>6. Recorded' \in Recorded .. Cap
    BY <1>4, <1>5, <2>2, <2>3
  <2>7. (completion # NoCommit)' = (completion # NoCommit)
    BY <2>1
  <2>. QED
    BY <1>3, <2>5, <2>6, <2>7 DEF Promise!ChargeFailure, AnswerOf
<1>. QED
  BY <1>6, <1>7

\* The steps that touch neither the answers nor the spending nor the
\* completion receipt are stutters of the abstract stage.
LEMMA OthersStutter ==
  ASSUME UNCHANGED <<responseCommit, terminal, completion, fixtureCost, responseCost, failureCost>>
  PROVE  UNCHANGED Promise!vars
<1>1. Recorded' = Recorded
  BY RecordedSame
<1>. QED
  BY <1>1, Zenon DEF Promise!vars, Answered

\* A stage with an incremental cap, whatever crashes, interrupts, races and
\* resumptions happen, implements atomic purchases under a limit followed by one
\* publication.
THEOREM StageImplementsPaidStage ==
  ASSUME Capped, OneFixtureRunner
  PROVE  Spec => ImplementsPaidStage
<1>. USE StageAssumption
<1>1. Init => Promise!Init
  <2>. SUFFICES ASSUME Init
                PROVE  Promise!Init
    OBVIOUS
  <2>1. TypeOK /\ FixtureInv /\ fixtureCommit = NoCommit
    BY DEF Init, TypeOK, NoCalls, Zeros, CallStates, FailureKinds, FixtureInv, Held, Executing
  <2>2. Recorded = 0
    BY <2>1, NothingRecorded
  <2>. QED
    BY <2>2 DEF Init, Promise!Init
<1>2. StageInv /\ StageInv' /\ [Next]_vars => [Promise!Next]_(Promise!vars)
  <2>. SUFFICES ASSUME StageInv, StageInv', [Next]_vars
                PROVE  [Promise!Next]_(Promise!vars)
    OBVIOUS
  <2>1. ControlInv /\ TypeOK /\ TypeOK' /\ SpendingInv /\ SpendingInv' /\ FixtureInv
    BY DEF StageInv, ControlInv, SpendingInv, OneFixtureRunner
  <2>2. ASSUME NEW p \in Procs, NEW r \in Requests, HandleSuccess(p, r) \/ HandleFailure(p, r)
        PROVE  Promise!Next
    BY <2>1, <2>2, HandlersRefine DEF Promise!Next
  <2>3. ASSUME NEW p \in Procs, WriteFixture(p)
        PROVE  Promise!Next
    <3>1. fixtureCommit = NoCommit /\ pc[p] = "fixture"
      BY <2>1, <2>3 DEF WriteFixture, Goto, FixtureInv
    <3>2. Recorded = 0
      BY <2>1, <3>1, NothingRecorded
    <3>3. Recorded' \in Nat /\ Reserved(p)' \in Nat
      BY <2>1, SumsStayNatural
    <3>4. Recorded' + Reserved(p)' <= Cap
      BY <2>1 DEF SpendingInv, RecordedWithinCap
    <3>5. Recorded' \in 0 .. Cap
      BY <3>3, <3>4
    <3>6. UNCHANGED <<responseCommit, terminal, completion>>
      BY <2>3 DEF WriteFixture
    <3>. QED
      BY <3>2, <3>5, <3>6 DEF Promise!Next, Promise!Prepare, Answered
  <2>4. ASSUME NEW p \in Procs, CompleteStage(p)
        PROVE  [Promise!Next]_(Promise!vars)
    <3>1. UNCHANGED <<responseCommit, terminal, fixtureCost, responseCost, failureCost>>
      BY <2>4 DEF CompleteStage
    <3>2. Recorded' = Recorded
      BY <3>1, RecordedSame
    <3>3. CASE existing[p] = Requests
      <4>1. pc[p] = "complete" /\ completion' = commit[p]
        BY <2>4, <3>3 DEF CompleteStage, Goto
      <4>2. Answered = Requests /\ commit[p] \in Commits
        BY <2>1, <3>3, <4>1 DEF ControlInv, CacheInv, CommitInv, Scanned
      <4>3. completion' # NoCommit
        BY <4>1, <4>2
      <4>4. Promise!Publish
        BY <3>1, <3>2, <4>2, <4>3 DEF Promise!Publish, Answered
      <4>. QED
        BY <4>4 DEF Promise!Next
    <3>4. CASE existing[p] # Requests
      <4>1. completion' = completion
        BY <2>4, <3>4 DEF CompleteStage
      <4>. QED
        BY <3>1, <4>1, OthersStutter
    <3>. QED
      BY <3>3, <3>4
  <2>5. CASE ~ \E p \in Procs : \/ WriteFixture(p) \/ CompleteStage(p)
                                \/ \E r \in Requests : HandleSuccess(p, r) \/ HandleFailure(p, r)
    <3>1. UNCHANGED <<responseCommit, terminal, completion, fixtureCost, responseCost, failureCost>>
      BY <2>5 DEF Next, Run, Fixture, AcquireLock, CheckContract, Scan, Submit, EndFill, Answer,
         Collect, Stop, Release, Interrupt, PoolShutdown, Crash, StartFixture, FixtureFails,
         RemoveStaleLock, EditCheckout, vars, disk
    <3>. QED
      BY <3>1, OthersStutter
  <2>. QED
    BY <2>2, <2>3, <2>4, <2>5
<1>. QED
  BY <1>1, <1>2, StageInvHolds, PTL DEF Spec, ImplementsPaidStage, Promise!Spec
=============================================================================
