---------------------------- MODULE StageExecutor ----------------------------
(***************************************************************************)
(* One provider stage of scripts/run_natural_end_to_end_experiment.py: the *)
(* command execute-reader / execute-judge / execute-verifier run by        *)
(* several operating-system processes over one runtime directory, and the  *)
(* fixture command that must precede it.                                   *)
(*                                                                         *)
(* A process takes the stage lock, checks the git contract, scans the      *)
(* responses and failure receipts on disk, and then keeps at most Workers  *)
(* paid calls in flight, reserving a conservative bound for each, until    *)
(* the stage is complete, the cap is reached or a call fails.  A crash     *)
(* forgets everything but the files; the lock file is one of the files.    *)
(***************************************************************************)
EXTENDS Counting, FiniteSetsExt

CONSTANTS
  Procs,          \* invocations of the runner that may exist at once
  Requests,       \* request identifiers; sorted() is the order of Nat
  Bound,          \* _conservative_call_cost of each request
  Workers,        \* --workers, also max_workers of the thread pool
  HardCap,        \* binding.hard_cap_usd
  Capped,         \* whether the stage has an incremental cap
  Cap,            \* incremental_cost_cap_usd, when Capped
  FixtureBound,   \* conservative bound of the fixture call
  Recovery,       \* maximum_model_contract_recovery_attempts
  Imported,       \* requests whose response an import wrote beforehand
  Commits,        \* commits HEAD may point at
  NoCommit,       \* "the file does not exist"
  Free,           \* "there is no lock file"
  FixtureRunners, \* processes that issue the fixture command
  MaxFaults,      \* bound: failing calls
  MaxLosses,      \* bound: crashes, interrupts and failed fixtures
  MaxEdits        \* bound: operator changes to the checkout

ASSUME StageAssumption ==
  /\ IsFiniteSet(Requests) /\ Requests \subseteq Nat
  /\ Bound \in [Requests -> Nat \ {0}]
  /\ Workers \in Nat \ {0}
  /\ HardCap \in Nat /\ Cap \in Nat /\ Capped \in BOOLEAN
  /\ FixtureBound \in Nat /\ FixtureBound <= Cap
  /\ Recovery \in Nat
  /\ Imported \subseteq Requests
  /\ Commits # {} /\ NoCommit \notin Commits
  /\ Free \notin Procs /\ FixtureRunners \subseteq Procs
  /\ MaxFaults \in Nat /\ MaxLosses \in Nat /\ MaxEdits \in Nat

VARIABLES
  (* files of the runtime directory *)
  lock,             \* holder named in the lock file, or Free
  fixtureCommit,    \* commit of the fixture receipt, or NoCommit
  fixtureCost,      \* its cost_usd
  responseCommit,   \* commit of each saved response, or NoCommit
  responseCost,     \* its cost_usd
  contractFailures, \* model_contract failure receipts of each request
  terminal,         \* requests with a receipt that is not retry_eligible
  failureCost,      \* sum of cost_bound_usd over the receipts of a request
  completion,       \* commit of completion.json, or NoCommit
  (* the checkout and the credentials *)
  head,             \* git HEAD
  ready,            \* the worktree is clean and the API key is present
  (* local state of each process *)
  pc,               \* where it is
  commit,           \* implementation_commit: _git_head is cached per process
  existing,         \* requests whose record it holds
  queue,            \* pending_queue: popped in ascending order
  prior,            \* prior_model_contract_failures, scanned once
  budget,           \* incremental_budget_spent
  call,             \* state of each future: "none" when there is none
  price,            \* cost of the answer a future holds
  batch,            \* finished futures still to be handled
  runFailures,      \* len(failures)
  (* history *)
  billed,           \* what the provider has charged so far
  faults, losses, edits   \* how many of the bounded events happened

disk == <<lock, fixtureCommit, fixtureCost, responseCommit, responseCost,
          contractFailures, terminal, failureCost, completion>>
checkout == <<head, ready, edits>>
scanned == <<commit, prior>>
window == <<call, price, batch>>
local == <<pc, scanned, existing, queue, budget, window, runFailures>>
vars == <<disk, checkout, local, billed, faults, losses>>

-----------------------------------------------------------------------------
(* Locations.  "locked" .. "release" lie inside the lock's context manager. *)
Executing == {"fill", "wait", "handle"}
Held == Executing \cup
          {"locked", "scan", "stop", "complete", "abandon", "release"}

FailureKinds == {"throttled", "transport", "provider", "contract"}
CallStates == {"none", "sent", "ok"} \cup FailureKinds

Answered == {r \in Requests : responseCommit[r] # NoCommit}
InFlight(p) == {r \in Requests : call[p][r] # "none"}
Finished(p) == {r \in Requests : call[p][r] \notin {"none", "sent"}}

\* sum(reservations.values())
Reserved(p) ==
  Total([r \in Requests |-> IF call[p][r] = "none" THEN 0 ELSE Bound[r]])

\* Cost of the saved responses that this stage paid for itself.
Incremental ==
  Total([r \in Requests |-> IF r \in Imported THEN 0 ELSE responseCost[r]])

\* What the files say was spent: the value a scan starts its budget from.  A
\* stage without an incremental cap leaves its fixture out.
Recorded ==
  (IF Capped THEN fixtureCost ELSE 0) + Incremental + Total(failureCost)

\* Responses already paid for plus a bound for every pending one.
HardBound ==
  Total([r \in Requests |-> IF r \in Answered THEN responseCost[r] ELSE Bound[r]])

TypeOK ==
  /\ lock \in Procs \cup {Free}
  /\ fixtureCommit \in Commits \cup {NoCommit} /\ fixtureCost \in Nat
  /\ responseCommit \in [Requests -> Commits \cup {NoCommit}]
  /\ responseCost \in [Requests -> Nat]
  /\ contractFailures \in [Requests -> Nat]
  /\ terminal \subseteq Requests
  /\ failureCost \in [Requests -> Nat]
  /\ completion \in Commits \cup {NoCommit}
  /\ head \in Commits /\ ready \in BOOLEAN
  /\ pc \in [Procs -> Held \cup {"idle", "fixture"}]
  /\ commit \in [Procs -> Commits \cup {NoCommit}]
  /\ existing \in [Procs -> SUBSET Requests]
  /\ queue \in [Procs -> SUBSET Requests]
  /\ prior \in [Procs -> [Requests -> Nat]]
  /\ budget \in [Procs -> Nat]
  /\ call \in [Procs -> [Requests -> CallStates]]
  /\ price \in [Procs -> [Requests -> Nat]]
  /\ batch \in [Procs -> SUBSET Requests]
  /\ runFailures \in [Procs -> Nat]
  /\ billed \in Nat /\ faults \in Nat /\ losses \in Nat /\ edits \in Nat

-----------------------------------------------------------------------------
NoCalls == [r \in Requests |-> "none"]
Zeros == [r \in Requests |-> 0]

\* A fresh runtime directory into which an import may have copied responses.
Init ==
  /\ lock = Free
  /\ fixtureCommit = NoCommit /\ fixtureCost = 0
  /\ head \in Commits /\ ready = TRUE
  /\ responseCommit = [r \in Requests |-> IF r \in Imported THEN head ELSE NoCommit]
  /\ responseCost = [r \in Requests |-> IF r \in Imported THEN Bound[r] ELSE 0]
  /\ contractFailures = Zeros /\ terminal = {} /\ failureCost = Zeros
  /\ completion = NoCommit
  /\ pc = [p \in Procs |-> "idle"]
  /\ commit = [p \in Procs |-> NoCommit]
  /\ existing = [p \in Procs |-> {}] /\ queue = [p \in Procs |-> {}]
  /\ prior = [p \in Procs |-> Zeros]
  /\ budget = [p \in Procs |-> 0]
  /\ call = [p \in Procs |-> NoCalls] /\ price = [p \in Procs |-> Zeros]
  /\ batch = [p \in Procs |-> {}]
  /\ runFailures = [p \in Procs |-> 0]
  /\ billed = 0 /\ faults = 0 /\ losses = 0 /\ edits = 0

Goto(p, from, to) ==
  /\ pc[p] = from
  /\ pc' = [pc EXCEPT ![p] = to]

\* The process is gone: its memory with it.
Forget(p) ==
  /\ pc' = [pc EXCEPT ![p] = "idle"]
  /\ commit' = [commit EXCEPT ![p] = NoCommit]
  /\ existing' = [existing EXCEPT ![p] = {}]
  /\ queue' = [queue EXCEPT ![p] = {}]
  /\ prior' = [prior EXCEPT ![p] = Zeros]
  /\ budget' = [budget EXCEPT ![p] = 0]
  /\ call' = [call EXCEPT ![p] = NoCalls]
  /\ price' = [price EXCEPT ![p] = Zeros]
  /\ batch' = [batch EXCEPT ![p] = {}]
  /\ runFailures' = [runFailures EXCEPT ![p] = 0]

-----------------------------------------------------------------------------
(* The execute command *)

\* O_CREAT | O_EXCL: only one process creates the file.  With the file there,
\* live or stale, the command raises "already locked" and changes nothing.
AnyLock == TRUE   \* mutant of LockAvailable: the file is opened without O_EXCL
LockAvailable == lock = Free

AcquireLock(p) ==
  /\ LockAvailable
  /\ Goto(p, "idle", "locked")
  /\ lock' = p
  /\ UNCHANGED <<fixtureCommit, fixtureCost, responseCommit, responseCost,
                 contractFailures, terminal, failureCost, completion, checkout,
                 scanned, existing, queue, budget, window, runFailures,
                 billed, faults, losses>>

\* _require_clean_contract, the fixture receipt and the API key.  A capped
\* stage also requires the receipt to be bound to the commit just read.
FixtureAccepted ==
  /\ fixtureCommit # NoCommit
  /\ Capped => fixtureCommit = head

CheckContract(p) ==
  /\ Goto(p, "locked", IF ready /\ FixtureAccepted THEN "scan" ELSE "release")
  /\ commit' = [commit EXCEPT ![p] = IF ready THEN head ELSE NoCommit]
  /\ UNCHANGED <<disk, checkout, existing, queue, prior, budget, window,
                 runFailures, billed, faults, losses>>

\* Reasons to stop before any call.  _load_record compares every saved
\* response with the process's cached HEAD, wherever HEAD points by now.
ResponseDrifted(p) == \E r \in Answered : responseCommit[r] # commit[p]
TerminalPending == terminal \ Answered # {}
OverCap == Capped /\ Recorded > Cap
OverHardCap == HardBound > HardCap

\* The keys of existing, and what is still to be bought.
LoadedOrFailed ==   \* mutant of Loaded: a failed request counts as done
  {r \in Requests : r \in Answered \/ failureCost[r] > 0}
Loaded == Answered
Everything == Requests   \* mutant of Pending: saved responses bought again
Pending == Requests \ Loaded

Scan(p) ==
  LET refused == ResponseDrifted(p) \/ TerminalPending \/ OverCap \/ OverHardCap
  IN /\ Goto(p, "scan", IF refused THEN "release"
                        ELSE IF Pending = {} THEN "complete" ELSE "fill")
     /\ existing' = [existing EXCEPT ![p] = Loaded]
     /\ queue' = [queue EXCEPT ![p] = Pending]
     /\ prior' = [prior EXCEPT ![p] = contractFailures]
     /\ budget' = [budget EXCEPT ![p] = Recorded]
     /\ UNCHANGED <<disk, checkout, commit, window, runFailures, billed, faults,
                    losses>>

\* submit() reserves the bound of the call before it starts it.
FitsAlone(p) ==      \* mutant of Fits: reservations in flight are left out
  Capped => budget[p] + Bound[Min(queue[p])] <= Cap
FitsStrictly(p) ==   \* mutant of Fits: < for <=
  Capped => budget[p] + Reserved(p) + Bound[Min(queue[p])] < Cap
Fits(p) == Capped => budget[p] + Reserved(p) + Bound[Min(queue[p])] <= Cap

\* fill() can start the call at the head of the queue.  A head that does not
\* fit under the cap stops the filling, whatever waits behind it.
CanSubmit(p) ==
  /\ queue[p] # {}
  /\ Cardinality(InFlight(p)) < Workers
  /\ Fits(p)

Submit(p) ==
  /\ pc[p] = "fill" /\ CanSubmit(p)
  /\ call' = [call EXCEPT ![p][Min(queue[p])] = "sent"]
  /\ queue' = [queue EXCEPT ![p] = @ \ {Min(queue[p])}]
  /\ UNCHANGED <<disk, checkout, pc, scanned, existing, budget, price, batch,
                 runFailures, billed, faults, losses>>

\* fill() returns: wait for the futures, or leave the loop when there is none.
EndFill(p) ==
  /\ ~CanSubmit(p)
  /\ Goto(p, "fill", IF InFlight(p) = {} THEN "stop" ELSE "wait")
  /\ UNCHANGED <<disk, checkout, scanned, existing, queue, budget, window,
                 runFailures, billed, faults, losses>>

\* The provider and the transport under one future: an answer that parses and
\* costs at most its bound, or one of the ways to fail.
Answer(p, r) ==
  /\ call[p][r] = "sent"
  /\ \/ \E c \in 1 .. Bound[r] :
          /\ call' = [call EXCEPT ![p][r] = "ok"]
          /\ price' = [price EXCEPT ![p][r] = c]
          /\ billed' = billed + c
          /\ UNCHANGED faults
     \/ \E kind \in FailureKinds :
          /\ faults < MaxFaults
          /\ faults' = faults + 1
          /\ call' = [call EXCEPT ![p][r] = kind]
          /\ billed' = billed + (IF kind = "throttled" THEN 0 ELSE Bound[r])
          /\ UNCHANGED price
  /\ UNCHANGED <<disk, checkout, pc, scanned, existing, queue, budget, batch,
                 runFailures, losses>>

\* wait(futures, FIRST_COMPLETED) returns all the futures finished by then.
Collect(p) ==
  /\ Finished(p) # {}
  /\ Goto(p, "wait", "handle")
  /\ batch' = [batch EXCEPT ![p] = Finished(p)]
  /\ UNCHANGED <<disk, checkout, scanned, existing, queue, budget, call, price,
                 runFailures, billed, faults, losses>>

\* After one future: the next one of the batch; after the last of them either
\* "if failures: continue", which ends the loop on an empty window, or fill().
AfterBatchWaits(p, r, failed) ==     \* mutant of AfterBatch: waits for nothing
  IF batch[p] # {r} THEN "handle" ELSE IF failed = 0 THEN "fill" ELSE "wait"
AfterBatch(p, r, failed) ==
  IF batch[p] # {r} THEN "handle"
  ELSE IF failed = 0 THEN "fill"
  ELSE IF InFlight(p) = {r} THEN "stop" ELSE "wait"

AfterHandling(p, r, failed) ==
  /\ batch' = [batch EXCEPT ![p] = @ \ {r}]
  /\ call' = [call EXCEPT ![p][r] = "none"]
  /\ price' = [price EXCEPT ![p][r] = 0]
  /\ Goto(p, "handle", AfterBatch(p, r, failed))

HandleSuccess(p, r) ==
  /\ r \in batch[p] /\ call[p][r] = "ok"
  /\ responseCommit' = [responseCommit EXCEPT ![r] = commit[p]]
  /\ responseCost' = [responseCost EXCEPT ![r] = price[p][r]]
  /\ existing' = [existing EXCEPT ![p] = @ \cup {r}]
  /\ budget' = [budget EXCEPT ![p] = @ + price[p][r]]
  /\ AfterHandling(p, r, runFailures[p])
  /\ UNCHANGED <<lock, fixtureCommit, fixtureCost, contractFailures, terminal,
                 failureCost, completion, checkout, scanned, queue, runFailures,
                 billed, faults, losses>>

\* _execution_failure_policy: what may be tried again by a later run.
RetryEligible(p, r) ==
  \/ call[p][r] \in {"throttled", "transport"}
  \/ call[p][r] = "contract" /\ prior[p][r] < Recovery

\* HTTP 429 is booked at nothing, every other failure at the call's bound.
FailureFree(p, r) == 0              \* mutant of FailureBound: failures are free
FailureBound(p, r) == IF call[p][r] = "throttled" THEN 0 ELSE Bound[r]

HandleFailure(p, r) ==
  /\ r \in batch[p] /\ call[p][r] \in FailureKinds
  /\ contractFailures' = [contractFailures EXCEPT
                            ![r] = @ + (IF call[p][r] = "contract" THEN 1 ELSE 0)]
  /\ terminal' = terminal \cup (IF RetryEligible(p, r) THEN {} ELSE {r})
  /\ failureCost' = [failureCost EXCEPT ![r] = @ + FailureBound(p, r)]
  /\ budget' = [budget EXCEPT ![p] = @ + FailureBound(p, r)]
  /\ runFailures' = [runFailures EXCEPT ![p] = @ + 1]
  /\ AfterHandling(p, r, runFailures[p] + 1)
  /\ UNCHANGED <<lock, fixtureCommit, fixtureCost, responseCommit, responseCost,
                 completion, checkout, scanned, existing, queue, billed, faults,
                 losses>>

\* After the loop: any failure, or anything left in the queue, raises.
Stop(p) ==
  /\ Goto(p, "stop", IF runFailures[p] > 0 \/ queue[p] # {}
                     THEN "release" ELSE "complete")
  /\ UNCHANGED <<disk, checkout, scanned, existing, queue, budget, window,
                 runFailures, billed, faults, losses>>

\* _complete_stage refuses a partial bundle; the receipt names the cached HEAD.
CompleteStage(p) ==
  /\ Goto(p, "complete", "release")
  /\ completion' = IF existing[p] = Requests THEN commit[p] ELSE completion
  /\ UNCHANGED <<lock, fixtureCommit, fixtureCost, responseCommit, responseCost,
                 contractFailures, terminal, failureCost, checkout, scanned,
                 existing, queue, budget, window, runFailures, billed, faults,
                 losses>>

\* The finally clause removes the lock file only when it names this process.
Release(p) ==
  /\ pc[p] = "release"
  /\ lock' = IF lock = p THEN Free ELSE lock
  /\ Forget(p)
  /\ UNCHANGED <<fixtureCommit, fixtureCost, responseCommit, responseCost,
                 contractFailures, terminal, failureCost, completion, checkout,
                 billed, faults, losses>>

-----------------------------------------------------------------------------
(* Interrupts, crashes, the fixture command and the operator *)

\* Ctrl-C in the main thread: the pool's context manager waits for the calls
\* in flight, whose answers nobody writes down; the lock is then released.
Interrupt(p) ==
  /\ pc[p] \in Executing /\ losses < MaxLosses
  /\ losses' = losses + 1
  /\ pc' = [pc EXCEPT ![p] = "abandon"]
  /\ UNCHANGED <<disk, checkout, scanned, existing, queue, budget, window,
                 runFailures, billed, faults>>

PoolShutdown(p) ==
  /\ Goto(p, "abandon", "release")
  /\ \A r \in Requests : call[p][r] # "sent"
  /\ call' = [call EXCEPT ![p] = NoCalls]
  /\ price' = [price EXCEPT ![p] = Zeros]
  /\ batch' = [batch EXCEPT ![p] = {}]
  /\ UNCHANGED <<disk, checkout, scanned, existing, queue, budget, runFailures,
                 billed, faults, losses>>

\* The process dies between any two steps: its files stay, the lock included.
\* A fixture call under way is billed all the same.
Crash(p) ==
  /\ pc[p] # "idle" /\ losses < MaxLosses
  /\ losses' = losses + 1
  /\ billed' = billed + (IF pc[p] = "fixture" THEN FixtureBound ELSE 0)
  /\ Forget(p)
  /\ UNCHANGED <<disk, checkout, faults>>

\* The fixture command takes no lock.  With a receipt on disk it makes no call.
StartFixture(p) ==
  /\ p \in FixtureRunners
  /\ ready /\ fixtureCommit = NoCommit
  /\ Goto(p, "idle", "fixture")
  /\ commit' = [commit EXCEPT ![p] = head]
  /\ UNCHANGED <<disk, checkout, existing, queue, prior, budget, window,
                 runFailures, billed, faults, losses>>

\* The synthetic call answers and its receipt is written.
WriteFixture(p) ==
  /\ Goto(p, "fixture", "idle")
  /\ \E c \in 1 .. FixtureBound :
       /\ fixtureCost' = c
       /\ billed' = billed + c
  /\ fixtureCommit' = commit[p]
  /\ commit' = [commit EXCEPT ![p] = NoCommit]
  /\ UNCHANGED <<lock, responseCommit, responseCost, contractFailures, terminal,
                 failureCost, completion, checkout, existing, queue, prior,
                 budget, window, runFailures, faults, losses>>

\* The call raises: no receipt and no failure record, whatever it cost.
FixtureFails(p) ==
  /\ losses < MaxLosses
  /\ losses' = losses + 1
  /\ Goto(p, "fixture", "idle")
  /\ billed' = billed + FixtureBound
  /\ commit' = [commit EXCEPT ![p] = NoCommit]
  /\ UNCHANGED <<disk, checkout, existing, queue, prior, budget, window,
                 runFailures, faults>>

\* The operator audits a stale lock and removes it: its holder is gone.
RemoveStaleLock ==
  /\ lock # Free /\ pc[lock] \notin Held
  /\ lock' = Free
  /\ UNCHANGED <<fixtureCommit, fixtureCost, responseCommit, responseCost,
                 contractFailures, terminal, failureCost, completion, checkout,
                 local, billed, faults, losses>>

\* The operator checks out a commit, or edits the worktree or the credentials.
EditCheckout ==
  /\ edits < MaxEdits
  /\ edits' = edits + 1
  /\ head' \in Commits /\ ready' \in BOOLEAN
  /\ UNCHANGED <<disk, local, billed, faults, losses>>

Run(p) ==
  \/ CheckContract(p) \/ Scan(p) \/ Submit(p) \/ EndFill(p) \/ Collect(p)
  \/ \E r \in Requests : HandleSuccess(p, r) \/ HandleFailure(p, r)
  \/ Stop(p) \/ CompleteStage(p) \/ PoolShutdown(p) \/ Release(p)

Fixture(p) == StartFixture(p) \/ WriteFixture(p) \/ FixtureFails(p)

Next ==
  \/ \E p \in Procs : AcquireLock(p) \/ Run(p) \/ Fixture(p)
  \/ \E p \in Procs, r \in Requests : Answer(p, r)
  \/ \E p \in Procs : Interrupt(p) \/ Crash(p)
  \/ RemoveStaleLock \/ EditCheckout

Spec == Init /\ [][Next]_vars

\* A live process keeps executing, and every call returns: urlopen has a
\* timeout and _http_json a bounded number of attempts.
ProcessFairness ==
  \A p \in Procs : /\ WF_vars(Run(p) \/ WriteFixture(p))
                   /\ \A r \in Requests : WF_vars(Answer(p, r))

\* The operator, as the runbook asks: run the fixture, invoke the stage again
\* after it stopped, clear the lock of a dead process.
OperatorFairness ==
  /\ \A p \in Procs : SF_vars(StartFixture(p)) /\ SF_vars(AcquireLock(p))
  /\ WF_vars(RemoveStaleLock)

FairSpec == Spec /\ ProcessFairness

-----------------------------------------------------------------------------
(* Properties *)

\* One writer per provider stage: no two processes are past the lock.
SingleWriter ==
  \A p, q \in Procs : pc[p] \in Held /\ pc[q] \in Held => p = q

\* A paid call is in flight only for a request without a saved response, and
\* at most once over all processes and restarts.
NoDoublePurchase ==
  \A p \in Procs : \A r \in InFlight(p) :
    /\ r \notin Answered
    /\ \A q \in Procs \ {p} : r \notin InFlight(q)

\* What the files record plus what is reserved for calls in flight stays under
\* the incremental cap, through failures, crashes and resumed runs.
RecordedWithinCap ==
  Capped => \A p \in Procs : Recorded + Reserved(p) <= Cap

\* The runner books every charge: what the provider billed exceeds the records
\* and the reservations by at most one window of calls per crash, interrupt
\* or failed fixture (when timed-out attempts are not billed).
Largest == Max({Bound[r] : r \in Requests} \cup {FixtureBound})
LossIsBounded ==
  billed <= fixtureCost + Incremental + Total(failureCost)
              + Total([p \in Procs |-> Reserved(p)]) + losses * Workers * Largest

\* The doc's reading of the incremental cap: the provider never bills more.
BilledWithinCap == Capped => billed <= Cap

\* A request refused for good never gets a response afterwards.
TerminalNeverAnswered == terminal \cap Answered = {}

\* A request gets its recovery attempts and no more.
ContractAttemptsBounded == \A r \in Requests : contractFailures[r] <= Recovery + 1

\* A stage is published as complete only with a response for every request.
CompletionIsWhole == completion # NoCommit => Answered = Requests

\* What a later stage reads back loads: every response of a completed stage is
\* bound to the commit the completion receipt names.
CompletionLoads ==
  completion # NoCommit => \A r \in Requests : responseCommit[r] = completion

\* A saved response is never changed or lost.
AnswersKept ==
  \A r \in Answered : /\ responseCommit'[r] = responseCommit[r]
                      /\ responseCost'[r] = responseCost[r]
AnswersAreDurable == [][AnswersKept]_vars

\* After the first failure of a run its in-flight window only drains.
WindowDrains ==
  \A p \in Procs : runFailures[p] > 0 => InFlight(p)' \subseteq InFlight(p)
FailureDrains == [][WindowDrains]_vars

\* A live run ends and gives the lock back, unless it crashes.
LockComesBack ==
  \A p \in Procs : pc[p] \in Held ~> pc[p] = "idle"

\* With an operator who keeps invoking it, a stage is completed, or stays short
\* for a reason on disk: a request refused for good, or a next request that the
\* cap cannot reserve any more; unless the checkout was edited.
CapExhausted ==
  /\ Capped /\ Requests \ Answered # {}
  /\ Recorded + Bound[Min(Requests \ Answered)] > Cap

StageSettles ==
  OperatorFairness =>
    <>(completion # NoCommit \/ TerminalPending \/ CapExhausted \/ edits > 0)

-----------------------------------------------------------------------------
(* A stage with an incremental cap implements PaidStage: the mapping from  *)
(* the files of the runtime directory to the abstract stage.               *)

Promise == INSTANCE PaidStage WITH
  Limit <- Cap,
  answer <- [r \in Requests |-> IF r \in Answered THEN "answered"
                                ELSE IF r \in terminal THEN "frozen"
                                ELSE "open"],
  spent <- Recorded,
  published <- completion # NoCommit

\* Every behaviour of the executor keeps the promises of PaidStage: the files
\* written by locked, crashing, resumed runs look like atomic purchases.
ImplementsPaidStage == Promise!Spec
=============================================================================
