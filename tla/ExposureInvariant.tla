-------------------------- MODULE ExposureInvariant --------------------------
(***************************************************************************)
(* The inductive invariants of the exposure executor.  ResumeInv is for    *)
(* one invocation at a time (OneRunner): what a running command remembers  *)
(* is what the files say, and what each file implies about the others.     *)
(***************************************************************************)
EXTENDS ExposureExecutor

\* What the types of a row rest on, for any number of invocations: whoever runs
\* has read a commit, and whoever calls has a request of the order.
ProcessInv ==
  \A p \in Procs :
    /\ pc[p] # "idle" => commit[p] \in Commits
    /\ pc[p] \in Calling => next[p] > 0
    /\ pc[p] = "sent" => next[p] <= N

\* A fixture call is in flight only over an untouched directory.
FixtureInv ==
  \A p \in Procs : pc[p] = "fixture" =>
    fixtureCommit = NoCommit /\ ~fixtureFailed

\* Before the receipt there is nothing; a failed fixture leaves none.
ReceiptInv ==
  /\ fixtureFailed => fixtureCommit = NoCommit
  /\ fixtureCommit = NoCommit => log = <<>> /\ fixtureCost = 0 /\ ~frozen

\* An execute command works for the approved commit, on an unfrozen provider.
ExecuteInv ==
  \A p \in Procs : pc[p] \in Calling \cup {"load", "recheck", "complete"} =>
    /\ commit[p] = fixtureCommit /\ fixtureCommit \in Commits
    /\ ~frozen
    /\ pc[p] = "load" => spent[p] = fixtureCost
    /\ pc[p] = "complete" => Len(log) = N

\* The loop's index and total are those of the checkpoint on disk.
LoopInv ==
  \A p \in Procs : pc[p] \in Calling =>
    /\ next[p] = Len(log) + 1 /\ spent[p] = fixtureCost + Spent(log)
    /\ completion = <<>>
    /\ pc[p] = "sent" => Len(log) < N

\* Derivatives and scores exist only behind a completion receipt, and a frozen
\* provider has none; its missing request is still missing.
OutputInv ==
  /\ completion = <<>> => normalized = <<>> /\ score = <<>>
  /\ frozen => completion = <<>> /\ Len(log) < N
  /\ \A p \in Procs : pc[p] \in {"derive", "score"} => completion # <<>>

\* Calls that left a trace on disk.
FixtureCalls == IF fixtureCommit # NoCommit \/ fixtureFailed THEN 1 ELSE 0
FailedCalls == IF frozen THEN 1 ELSE 0
Traced == Len(log) + FixtureCalls + FailedCalls

InFlight == IF \E p \in Procs : pc[p] \in {"fixture", "sent"} THEN 1 ELSE 0

\* Every other call was lost in a crash or an interrupt, one in each.
CallInv == calls <= Traced + InFlight + losses

\* What leaves the directory is whole, for any number of invocations.
WholeBundle(rows) ==
  /\ Len(rows) = N /\ \A i \in 1 .. N : rows[i].req = i
  /\ OneContract(rows)
ScoreInv ==
  /\ normalized # <<>> => WholeBundle(normalized)
  /\ score # <<>> => WholeBundle(score)

ResumeInv ==
  /\ FixtureInv /\ ReceiptInv /\ ExecuteInv /\ LoopInv /\ OutputInv /\ CallInv
  /\ OrderedPrefix /\ RecordedWithinCap /\ OneApproval
=============================================================================
