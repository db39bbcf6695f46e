-------------------------- MODULE ExposureExecutor --------------------------
(***************************************************************************)
(* The paid reader layer of scripts/run_counterfactual_exposure_execution. *)
(* py for one provider: the commands fixture, execute and score over one   *)
(* runtime directory.  Nothing is locked.  Answers are appended to a JSONL *)
(* checkpoint in one frozen order, so that a later invocation resumes at   *)
(* the first missing request; the first failure of any call freezes the    *)
(* provider for good.  Every command needs an external approval of the     *)
(* exact commit, and the fixture receipt ties a runtime directory to it.   *)
(* run_claude_opus5_exposure_replication.py runs the same three commands.  *)
(***************************************************************************)
EXTENDS Counting, Sequences

CONSTANTS
  Procs,       \* invocations of the runner that may exist at once
  N,           \* requests of one provider; ordered_requests fixes 1, 2, .., N
  Bound,       \* _call_bound of each request
  HardCap,     \* binding.hard_cap_usd
  Costs,       \* what an answer may cost once its usage is known
  Commits,     \* commits HEAD may point at
  ContractOf,  \* the protocol hashes found in the checkout of each commit
  NoCommit,    \* "the file does not exist"
  MaxLosses,   \* bound: crashes and interrupts
  MaxEdits     \* bound: operator changes to checkout, approval, credentials

\* The last conjunct is checked by load_execution_protocol.
ASSUME ExposureAssumption ==
  /\ N \in Nat \ {0} /\ Bound \in [1 .. N -> Nat] /\ HardCap \in Nat
  /\ Costs \subseteq Nat /\ NoCommit \notin Commits
  /\ MaxLosses \in Nat /\ MaxEdits \in Nat
  /\ \A i \in 1 .. N : Bound[i] + Total(Bound) <= HardCap

VARIABLES
  (* files of the runtime directory *)
  fixtureCommit,  \* commit of the fixture receipt, or NoCommit
  fixtureCost,    \* its cap_accounted_cost_usd
  fixtureFailed,  \* the frozen fixture failure exists
  log,            \* rows of the checkpoint
  frozen,         \* the frozen execution failure exists
  completion,     \* the checkpoint whose hash the receipt holds; <<>>: no receipt
  normalized,     \* rows of the response derivative; <<>>: not written yet
  score,          \* rows the score manifest was computed from; <<>>: none
  (* checkout, approval, credentials *)
  head,           \* git HEAD
  clean,          \* no contract-bearing path is dirty
  unlock,         \* commit named by the unlock file, or NoCommit
  key,            \* the credential is present
  (* local state of each process *)
  pc,             \* where it is
  commit,         \* commit its unlock check read
  next,           \* index of the loop
  spent,          \* spent
  (* history *)
  calls,          \* provider calls made so far
  losses, edits   \* how many of the bounded events happened

files == <<fixtureCommit, fixtureCost, fixtureFailed, log, frozen, completion,
           normalized, score>>
checkout == <<head, clean, unlock, key, edits>>
local == <<pc, commit, next, spent>>
vars == <<files, checkout, local, calls, losses>>

-----------------------------------------------------------------------------
\* A row; "by" is the commit whose code bought it, which the file does not say.
Rows == [req : 1 .. N, contract : {ContractOf[c] : c \in Commits},
         cost : Nat, by : Commits]

Spent(rows) == Total([i \in DOMAIN rows |-> rows[i].cost])

Calling == {"loop", "sent"}
Locations == Calling \cup {"idle", "fixture", "load", "recheck", "complete",
                           "derive", "score"}

TypeOK ==
  /\ fixtureCommit \in Commits \cup {NoCommit} /\ fixtureCost \in Nat
  /\ fixtureFailed \in BOOLEAN /\ frozen \in BOOLEAN
  /\ log \in Seq(Rows) /\ completion \in Seq(Rows)
  /\ normalized \in Seq(Rows) /\ score \in Seq(Rows)
  /\ head \in Commits /\ unlock \in Commits \cup {NoCommit}
  /\ clean \in BOOLEAN /\ key \in BOOLEAN
  /\ pc \in [Procs -> Locations]
  /\ commit \in [Procs -> Commits \cup {NoCommit}]
  /\ next \in [Procs -> Nat] /\ spent \in [Procs -> Nat]
  /\ calls \in Nat /\ losses \in Nat /\ edits \in Nat

Init ==
  /\ fixtureCommit = NoCommit /\ fixtureCost = 0 /\ fixtureFailed = FALSE
  /\ log = <<>> /\ frozen = FALSE /\ completion = <<>>
  /\ normalized = <<>> /\ score = <<>>
  /\ head \in Commits /\ clean = TRUE /\ unlock = head /\ key = TRUE
  /\ pc = [p \in Procs |-> "idle"]
  /\ commit = [p \in Procs |-> NoCommit]
  /\ next = [p \in Procs |-> 0] /\ spent = [p \in Procs |-> 0]
  /\ calls = 0 /\ losses = 0 /\ edits = 0

Goto(p, from, to) ==
  /\ pc[p] = from
  /\ pc' = [pc EXCEPT ![p] = to]

\* The command ends, returning or raising, and its memory is gone.
Leave(p) ==
  /\ pc' = [pc EXCEPT ![p] = "idle"]
  /\ commit' = [commit EXCEPT ![p] = NoCommit]
  /\ next' = [next EXCEPT ![p] = 0]
  /\ spent' = [spent EXCEPT ![p] = 0]

\* validate_unlock: a clean checkout, and an approval of exactly this HEAD.
Unlocked == clean /\ unlock = head

-----------------------------------------------------------------------------
(* fixture: one discarded answer to the first request *)

\* A matching receipt makes the command return, a stale one makes it raise.
FixtureWanted ==
  ~fixtureFailed /\ fixtureCommit = NoCommit /\ Bound[1] <= HardCap

StartFixture(p) ==
  /\ Unlocked /\ FixtureWanted /\ key
  /\ Goto(p, "idle", "fixture")
  /\ commit' = [commit EXCEPT ![p] = head]
  /\ calls' = calls + 1
  /\ UNCHANGED <<files, checkout, next, spent, losses>>

PassFixture(p, c) ==
  /\ pc[p] = "fixture" /\ c <= HardCap
  /\ fixtureCommit' = commit[p] /\ fixtureCost' = c
  /\ Leave(p)
  /\ UNCHANGED <<fixtureFailed, log, frozen, completion, normalized, score,
                 checkout, calls, losses>>

\* Transport, contract, or a cost above the cap, whatever was charged.
FailFixture(p) ==
  /\ pc[p] = "fixture"
  /\ fixtureFailed' = TRUE
  /\ Leave(p)
  /\ UNCHANGED <<fixtureCommit, fixtureCost, log, frozen, completion, normalized,
                 score, checkout, calls, losses>>

-----------------------------------------------------------------------------
(* execute: resume the exact request order *)

\* _validate_checkpoint: row i answers request i under today's protocol files.
AnyOrder(rows) ==   \* mutant of ValidPrefix: rows are not compared in order
  /\ Len(rows) <= N
  /\ \A i \in DOMAIN rows : rows[i].contract = ContractOf[head]
ValidPrefix(rows) ==
  /\ Len(rows) <= N
  /\ \A i \in DOMAIN rows :
       rows[i].req = i /\ rows[i].contract = ContractOf[head]

\* _validate_fixture, then the failure marker.
FixtureOfAnyCommit == fixtureCommit # NoCommit /\ ~frozen  \* mutant of MayExecute
MarkerIgnored == fixtureCommit = head                      \* mutant of MayExecute
MayExecute == fixtureCommit = head /\ ~frozen

StartExecute(p) ==
  /\ Unlocked /\ MayExecute
  /\ Goto(p, "idle", "load")
  /\ commit' = [commit EXCEPT ![p] = head]
  /\ spent' = [spent EXCEPT ![p] = fixtureCost]
  /\ UNCHANGED <<files, checkout, next, calls, losses>>

RowsForgotten == 0             \* mutant of Resumed: only the fixture is counted
Resumed == Spent(log)

FromTheStart == 1      \* mutant of FirstMissing: begins again
FirstMissing == Len(log) + 1

LoadCheckpoint(p) ==
  /\ ValidPrefix(log) /\ completion = <<>>
  /\ Len(log) < N => key
  /\ Goto(p, "load", "loop")
  /\ next' = [next EXCEPT ![p] = FirstMissing]
  /\ spent' = [spent EXCEPT ![p] = @ + Resumed]
  /\ UNCHANGED <<files, checkout, commit, calls, losses>>

Affordable(p) == spent[p] + Bound[next[p]] <= HardCap

Request(p) ==
  /\ Goto(p, "loop", "sent")
  /\ next[p] <= N /\ Affordable(p)
  /\ calls' = calls + 1
  /\ UNCHANGED <<files, checkout, commit, next, spent, losses>>

\* "next request could exceed provider hard cap": raised outside the try block.
StopAtCap(p) ==
  /\ pc[p] = "loop" /\ next[p] <= N /\ ~Affordable(p)
  /\ Leave(p)
  /\ UNCHANGED <<files, checkout, calls, losses>>

\* The cost is known only now; the row records the protocol hashes of now.
SaveRow(p, c) ==
  /\ spent[p] + c <= HardCap
  /\ Goto(p, "sent", "loop")
  /\ log' = Append(log, [req |-> next[p], contract |-> ContractOf[head],
                         cost |-> c, by |-> commit[p]])
  /\ next' = [next EXCEPT ![p] = @ + 1]
  /\ spent' = [spent EXCEPT ![p] = @ + c]
  /\ UNCHANGED <<fixtureCommit, fixtureCost, fixtureFailed, frozen, completion,
                 normalized, score, checkout, commit, calls, losses>>

\* Any Exception inside the loop's try block.
Freeze(p) ==
  /\ pc[p] = "sent"
  /\ frozen' = TRUE
  /\ Leave(p)
  /\ UNCHANGED <<fixtureCommit, fixtureCost, fixtureFailed, log, completion,
                 normalized, score, checkout, calls, losses>>

\* After the loop the checkpoint is read and validated once more.
EndLoop(p) ==
  /\ next[p] > N
  /\ Goto(p, "loop", "recheck")
  /\ UNCHANGED <<files, checkout, commit, next, spent, calls, losses>>

Whole(rows) == ValidPrefix(rows) /\ Len(rows) = N

Recheck(p) ==
  /\ Whole(log)
  /\ Goto(p, "recheck", "complete")
  /\ UNCHANGED <<files, checkout, commit, next, spent, calls, losses>>

Complete(p) ==
  /\ pc[p] = "complete"
  /\ completion' = log
  /\ Leave(p)
  /\ UNCHANGED <<fixtureCommit, fixtureCost, fixtureFailed, log, frozen,
                 normalized, score, checkout, calls, losses>>

-----------------------------------------------------------------------------
(* score: local, from a complete checkpoint *)

StartScore(p) ==
  /\ Unlocked /\ completion # <<>>
  /\ Goto(p, "idle", "derive")
  /\ commit' = [commit EXCEPT ![p] = head]
  /\ UNCHANGED <<files, checkout, next, spent, calls, losses>>

\* The checkpoint is valid, whole, the one the receipt hashes, and agrees with
\* the derivative of an earlier score.
Scorable ==
  /\ Whole(log) /\ completion = log
  /\ normalized \in {<<>>, log}

Derive(p) ==
  /\ Scorable
  /\ Goto(p, "derive", "score")
  /\ normalized' = log
  /\ UNCHANGED <<fixtureCommit, fixtureCost, fixtureFailed, log, frozen,
                 completion, score, checkout, commit, next, spent, calls, losses>>

\* A command raises on what it reads: at its start a spoiled or finished checkpoint
\* or no credential, after its loop a row of another runner, and in score a receipt
\* or a derivative that is of other rows.
Refused(p) ==
  \/ /\ pc[p] = "load"
     /\ ~ValidPrefix(log) \/ completion # <<>> \/ (Len(log) < N /\ ~key)
  \/ pc[p] = "recheck" /\ ~Whole(log)
  \/ pc[p] = "derive" /\ ~Scorable

Refuse(p) ==
  /\ Refused(p)
  /\ Leave(p)
  /\ UNCHANGED <<files, checkout, calls, losses>>

\* score_response_bundle reads the derivative, not the checkpoint.
WriteScore(p) ==
  /\ pc[p] = "score"
  /\ score' = normalized
  /\ Leave(p)
  /\ UNCHANGED <<fixtureCommit, fixtureCost, fixtureFailed, log, frozen,
                 completion, normalized, checkout, calls, losses>>

-----------------------------------------------------------------------------
(* What happens to a process, and around it *)

\* A crash, or a KeyboardInterrupt, which "except Exception" does not catch.
Crash(p) ==
  /\ pc[p] # "idle" /\ losses < MaxLosses
  /\ losses' = losses + 1
  /\ Leave(p)
  /\ UNCHANGED <<files, checkout, calls>>

EditCheckout ==
  /\ edits < MaxEdits /\ edits' = edits + 1
  /\ \/ head' \in Commits \ {head} /\ UNCHANGED <<clean, unlock, key>>
     \/ clean' = ~clean /\ UNCHANGED <<head, unlock, key>>
     \/ unlock # head /\ unlock' = head /\ UNCHANGED <<head, clean, key>>
     \/ key' = ~key /\ UNCHANGED <<head, clean, unlock>>
  /\ UNCHANGED <<files, local, calls, losses>>

Fixture(p) ==
  \/ StartFixture(p) \/ FailFixture(p)
  \/ \E c \in Costs : PassFixture(p, c)

Execute(p) ==
  \/ LoadCheckpoint(p) \/ Request(p) \/ StopAtCap(p) \/ Freeze(p) \/ EndLoop(p)
  \/ Recheck(p) \/ Refuse(p) \/ Complete(p)
  \/ \E c \in Costs : SaveRow(p, c)

Score(p) == Derive(p) \/ Refuse(p) \/ WriteScore(p)

Next ==
  \/ \E p \in Procs : \/ Fixture(p) \/ StartExecute(p) \/ Execute(p)
                      \/ StartScore(p) \/ Score(p) \/ Crash(p)
  \/ EditCheckout

Spec == Init /\ [][Next]_vars

\* Every call returns within timeout_seconds (there are no transport retries),
\* and the owner keeps invoking the three commands.
Operated ==
  \A p \in Procs : /\ WF_vars(Fixture(p)) /\ WF_vars(Execute(p)) /\ WF_vars(Score(p))
                   /\ SF_vars(StartExecute(p)) /\ SF_vars(StartScore(p))

-----------------------------------------------------------------------------
(* Properties *)

OneRunner == \A p, q \in Procs : p = q

\* The checkpoint is always a prefix of the frozen order, with nothing twice
\* and nothing skipped: the state from which an execute command can resume.
OrderedPrefix == Len(log) <= N /\ \A i \in DOMAIN log : log[i].req = i

\* What the files record never passes the provider's cap, although a cost is
\* known only after its call and every invocation rebuilds its own total.
RecordedWithinCap == fixtureCost + Spent(log) <= HardCap

\* A frozen provider is never completed or scored.
FrozenStaysUnscored == frozen => completion = <<>> /\ score = <<>>

\* After a failure marker no further row is bought.
NoRowAfterFreeze == frozen => log' = log
FrozenBuysNothing == [][NoRowAfterFreeze]_vars

\* All rows were bought by code of the commit the fixture was approved for.
OneApproval == \A i \in DOMAIN log : log[i].by = fixtureCommit

\* Each crash or interrupt repeats at most one call.
CallsCounted == calls <= N + 1 + losses

\* Only whole bundles of one protocol in the frozen order are ever scored, also
\* when two invocations ran at once and spoiled the checkpoint.
OneContract(rows) == \A i, j \in DOMAIN rows : rows[i].contract = rows[j].contract
ScoredIsWhole ==
  score # <<>> =>
    /\ Len(score) = N /\ \A i \in 1 .. N : score[i].req = i
    /\ OneContract(score)

\* An interrupted provider is finished by later invocations, once the checkout
\* stays at the approved commit: in the end there is a score, a failure marker, or
\* too little left of the cap for the next request.
Approved == Unlocked /\ key /\ fixtureCommit \in {NoCommit, head}
OutOfBudget ==
  Len(log) < N /\ fixtureCost + Spent(log) + Bound[Len(log) + 1] > HardCap
Settled == score # <<>> \/ frozen \/ fixtureFailed \/ OutOfBudget
Finishes == Operated /\ <>[]Approved => <>Settled
=============================================================================
