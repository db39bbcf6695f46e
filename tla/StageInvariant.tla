--------------------------- MODULE StageInvariant ---------------------------
(***************************************************************************)
(* The inductive invariant behind the theorems about StageExecutor: what a *)
(* process that holds the lock knows of the files nobody else may write,   *)
(* and what the fixture receipt, written without the lock, may rely on.    *)
(***************************************************************************)
EXTENDS StageExecutor

\* Locations where a process has no call in flight.
Quiet == {"idle", "fixture", "locked", "scan", "stop", "complete", "release"}

\* Locations between a successful scan and the end of the run.
Scanned == Executing \cup {"stop", "complete"}

\* Whoever is past the lock is the one the file names.
HolderInv == \A p \in Procs : pc[p] \in Held => lock = p

\* Calls are in flight only inside the thread pool's context manager.
QuietInv ==
  \A p \in Procs : pc[p] \in Quiet => \A r \in Requests : call[p][r] = "none"

\* A scanned run holds the commit it read; its cached records are the files.
CommitInv ==
  \A p \in Procs : pc[p] \in Scanned \cup {"scan", "fixture"} => commit[p] \in Commits
CacheInv ==
  \A p \in Procs : pc[p] \in Scanned =>
    /\ existing[p] = Answered
    /\ \A r \in Answered : responseCommit[r] = commit[p]

\* What waits in the queue or is in flight has no answer, is not refused for
\* good, and has as many contract receipts as the scan counted.
OpenRequest(p, r) ==
  /\ responseCommit[r] = NoCommit
  /\ r \notin terminal
  /\ prior[p][r] = contractFailures[r]
WindowInv ==
  \A p \in Procs, r \in Requests :
    /\ pc[p] \in Scanned /\ r \in queue[p] => OpenRequest(p, r)
    /\ call[p][r] # "none" => OpenRequest(p, r) /\ (pc[p] \in Scanned => r \notin queue[p])
    /\ call[p][r] = "ok" => price[p][r] \in 0 .. Bound[r]

\* Receipts: at most Recovery + 1 contract failures, the last one terminal.
ReceiptInv ==
  \A r \in Requests :
    /\ contractFailures[r] <= Recovery + 1
    /\ contractFailures[r] = Recovery + 1 => r \in terminal
    /\ r \in terminal => responseCommit[r] = NoCommit
    /\ r \in Imported => responseCommit[r] # NoCommit
    /\ responseCommit[r] = NoCommit => responseCost[r] = 0

\* A run that failed does not fill its window again.
DrainInv ==
  \A p \in Procs :
    pc[p] \in {"idle", "fixture", "locked", "scan", "fill"} => runFailures[p] = 0

\* A published stage is whole and on one commit.
PublishedInv ==
  completion # NoCommit => \A r \in Requests : responseCommit[r] = completion

ControlInv ==
  /\ TypeOK /\ HolderInv /\ QuietInv /\ CommitInv /\ CacheInv /\ WindowInv
  /\ ReceiptInv /\ DrainInv /\ PublishedInv

\* Without a fixture receipt nothing was spent and no run got past the check.
FixtureInv ==
  /\ fixtureCommit = NoCommit =>
       /\ fixtureCost = 0
       /\ \A r \in Requests : failureCost[r] = 0 /\ (r \notin Imported => responseCost[r] = 0)
       /\ \A p \in Procs : pc[p] \notin Held \ {"locked", "release"}
  /\ \A p \in Procs : pc[p] = "fixture" => fixtureCommit = NoCommit /\ p \in FixtureRunners

\* The budget in memory is what the files record; with the reservations it
\* stays under the cap.
BudgetInv == \A p \in Procs : pc[p] \in Executing => budget[p] = Recorded
SpendingInv == FixtureInv /\ BudgetInv /\ RecordedWithinCap

\* The fixture command is run by one operator at a time: it takes no lock.
OneFixtureRunner == \A p, q \in FixtureRunners : p = q

\* The invariant of the proofs: whoever holds the lock caches exactly what the
\* files say, and the budget it keeps in memory is what they record.
StageInv == ControlInv /\ (OneFixtureRunner => SpendingInv)

\* What the provider has billed for a call that is still in flight.
ChargeOf(p, r) ==
  IF call[p][r] = "ok" THEN price[p][r]
  ELSE IF call[p][r] \in {"transport", "provider", "contract"} THEN Bound[r] ELSE 0
Charges(p) == Total([r \in Requests |-> ChargeOf(p, r)])

\* Only the holder of the lock has calls in flight.  An interrupt counts as a
\* loss at once, while its calls still come back.
InPool == IF lock = Free THEN 0 ELSE Charges(lock)
Lost == Workers * Largest
Interrupted == IF lock # Free /\ pc[lock] = "abandon" THEN Lost ELSE 0
Booked == fixtureCost + Incremental + Total(failureCost)

\* The pool is never larger than --workers, and every charge is booked, in the
\* pool, or was lost with one of the counted losses.
PoolInv == \A p \in Procs : Cardinality(InFlight(p)) <= Workers
LedgerInv == billed + Interrupted <= Booked + InPool + losses * Lost
=============================================================================
