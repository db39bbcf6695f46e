------------------------ MODULE CounterfactualRunner ------------------------
(***************************************************************************)
(* scripts/run_counterfactual_admissibility_experiment.py: the commands    *)
(* fixture and execute of every provider of the panel, each by its own     *)
(* invocation, and score and publish, by the operator.  The providers      *)
(* share the protocol file, which may be edited at any time.  A command    *)
(* keeps the caps it loaded and hashes the file anew whenever it writes or *)
(* binds something; an execute command reads the checkpoints of all        *)
(* providers once, when it starts.                                         *)
(***************************************************************************)
EXTENDS Counting, Sequences, ProviderTransport

CONSTANTS
  Providers,     \* the panel
  AdapterOf,     \* the adapter of each provider
  N,             \* cases, in the order of pairs and conditions: 1, 2, .., N
  Bound,         \* _conservative_call_bound of each case
  Costs,         \* what an accepted reply may cost
  Hashes,        \* contents of the protocol file, and what each of them sets:
  HardCap,       \*   hard_cap_usd of each provider
  FixtureCap,    \*   fixture_hard_cap_usd_per_provider
  FixtureTotalCap, \* fixture_total_hard_cap_usd
  TotalCap,      \*   total_hard_cap_usd
  Replies,       \* replies a provider may send
  SentFaults,    \* failures an attempt may meet
  MaxLosses,     \* bound: requests and commands that end without a trace
  MaxEdits       \* bound: edits of the protocol file

ASSUME RunnerAssumption ==
  /\ IsFiniteSet(Providers) /\ AdapterOf \in [Providers -> Adapters]
  /\ N \in Nat \ {0} /\ Bound \in [1 .. N -> Nat] /\ Costs \subseteq Nat
  /\ HardCap \in [Hashes -> [Providers -> Nat]] /\ TotalCap \in [Hashes -> Nat]
  /\ FixtureCap \in [Hashes -> Nat] /\ FixtureTotalCap \in [Hashes -> Nat]
  /\ SentFaults \subseteq Faults /\ "none" \notin Hashes
  /\ MaxLosses \in Nat /\ MaxEdits \in Nat

VARIABLES
  (* the protocol file *)
  hash,
  (* files of the runtime directory, for each provider *)
  fixture,     \* hash in the fixture receipt, or None
  fixtureCost, \* its cost_usd
  log,         \* rows of the response checkpoint
  tail,        \* how the checkpoint ends: "whole", "unended" (a row without
               \* its newline) or "torn" (a line that is no row)
  marker,      \* the frozen failure marker exists
  completion,  \* the completion receipt exists
  (* score directory and publication directory *)
  scores, manifest, published, publishedManifest,
  readme,      \* what the README.md of the publication directory summarises
  (* local state of the invocation of each provider *)
  pc, attempt,
  loaded,      \* the protocol it loaded, or None
  spent,       \* spent
  total,       \* fixture_cost + all_execution_cost
  (* local state of score and publish *)
  at, left, view,
  (* history *)
  release,     \* the publication directory: "none", "partial", "done"
  steady,      \* no edit since the running command of the operator started
  losses, edits

protocol == <<hash, edits>>
receipts == <<fixture, fixtureCost, completion>>
checkpoint == <<log, tail>>
files == <<receipts, checkpoint, marker>>
directories == <<scores, manifest, published, publishedManifest, readme, release>>
local == <<pc, attempt, loaded, spent, total>>
operator == <<at, left, view, steady>>
vars == <<protocol, files, directories, local, operator, losses>>

None == "none"

Rows == [case : 1 .. N, hash : Hashes, cost : Nat]

Spent(rows) == Total([i \in DOMAIN rows |-> rows[i].cost])
FixtureTotal == Total(fixtureCost)
ExecutionTotal == Total([v \in Providers |-> Spent(log[v])])

Answered(v) == {log[v][i].case : i \in DOMAIN log[v]}
Complete(v) == Answered(v) = 1 .. N

\* Score files, from pair_scores to paired_deltas and provider_usage: what they
\* hold is told apart by the providers that were eligible when they were written.
Files == {"scores", "usage"}

\* "steady" is history: whether the protocol was left alone while score ran.
NoManifest == [hash |-> None, eligible |-> {}, content |-> [f \in Files |-> {}],
               steady |-> TRUE]

TypeOK ==
  /\ hash \in Hashes
  /\ fixture \in [Providers -> Hashes \cup {None}]
  /\ fixtureCost \in [Providers -> Nat] /\ log \in [Providers -> Seq(Rows)]
  /\ tail \in [Providers -> {"whole", "unended", "torn"}]
  /\ marker \in [Providers -> BOOLEAN] /\ completion \in [Providers -> BOOLEAN]
  /\ manifest.hash \in Hashes \cup {None} /\ manifest.eligible \subseteq Providers
  /\ release \in {"none", "partial", "done"}
  /\ pc \in [Providers -> {"idle", "fixture", "loop", "sent"}]
  /\ attempt \in [Providers -> 0 .. MaxRetries + 1]
  /\ loaded \in [Providers -> Hashes \cup {None}]
  /\ spent \in [Providers -> Nat] /\ total \in [Providers -> Nat]
  /\ at \in {"idle", "read", "write", "publish", "summary"} /\ view \subseteq Providers
  /\ losses \in Nat /\ steady \in BOOLEAN

\* load_protocol refuses caps of providers that exceed the total.  The caps of
\* their fixtures are not compared with what is set aside for all fixtures.
AnyCaps(h) == TRUE              \* mutant of CapsFit: not compared
CapsFit(h) == Total(HardCap[h]) + FixtureTotalCap[h] <= TotalCap[h]

\* The file is one that loads: under another one no command does anything before it
\* is edited.
Init ==
  /\ hash \in Hashes /\ CapsFit(hash) /\ edits = 0 /\ steady = TRUE
  /\ fixture = [v \in Providers |-> None] /\ fixtureCost = [v \in Providers |-> 0]
  /\ log = [v \in Providers |-> <<>>] /\ tail = [v \in Providers |-> "whole"]
  /\ marker = [v \in Providers |-> FALSE] /\ completion = [v \in Providers |-> FALSE]
  /\ scores = [f \in Files |-> {}] /\ manifest = NoManifest
  /\ published = [f \in Files |-> {}] /\ publishedManifest = NoManifest /\ readme = {}
  /\ pc = [v \in Providers |-> "idle"] /\ attempt = [v \in Providers |-> 0]
  /\ loaded = [v \in Providers |-> None]
  /\ spent = [v \in Providers |-> 0] /\ total = [v \in Providers |-> 0]
  /\ at = "idle" /\ left = {} /\ view = {}
  /\ release = "none"
  /\ losses = 0

Goto(v, from, to) ==
  /\ pc[v] = from
  /\ pc' = [pc EXCEPT ![v] = to]

\* The command ends, returning or raising, and its memory is gone.
Leave(v) ==
  /\ pc' = [pc EXCEPT ![v] = "idle"]
  /\ attempt' = [attempt EXCEPT ![v] = 0]
  /\ loaded' = [loaded EXCEPT ![v] = None]
  /\ spent' = [spent EXCEPT ![v] = 0]
  /\ total' = [total EXCEPT ![v] = 0]

Load(v) ==
  /\ CapsFit(hash)
  /\ loaded' = [loaded EXCEPT ![v] = hash]

Send(v) == attempt' = [attempt EXCEPT ![v] = @ + 1]

-----------------------------------------------------------------------------
(* fixture: one discarded answer to the first case *)

\* A current receipt makes the command return, a stale one makes it raise.
StartFixture(v) ==
  /\ Load(v) /\ fixture[v] = None /\ Bound[1] <= FixtureCap[hash]
  /\ Goto(v, "idle", "fixture")
  /\ Send(v)
  /\ UNCHANGED <<protocol, files, directories, spent, total, operator, losses>>

\* The receipt carries the hash taken when the command started.
PassFixture(v, reply, c) ==
  /\ pc[v] = "fixture" /\ Accepts(AdapterOf[v], reply) /\ reply.valid
  /\ c <= FixtureCap[loaded[v]]
  /\ fixture' = [fixture EXCEPT ![v] = loaded[v]]
  /\ fixtureCost' = [fixtureCost EXCEPT ![v] = c]
  /\ Leave(v)
  /\ UNCHANGED <<protocol, completion, checkpoint, marker, directories, operator, losses>>

Lose ==
  /\ losses < MaxLosses
  /\ losses' = losses + 1

\* Refused, above its cap, or no reply: nothing is written.
FailFixture(v) ==
  /\ pc[v] = "fixture" /\ Lose
  /\ Leave(v)
  /\ UNCHANGED <<protocol, files, directories, operator>>

-----------------------------------------------------------------------------
(* execute *)

\* _load_provider_predictions; "unended" parses like "whole".
Loads(v) ==
  /\ tail[v] # "torn"
  /\ \A i \in DOMAIN log[v] :
       /\ log[v][i].hash = hash
       /\ \A j \in DOMAIN log[v] : log[v][i].case = log[v][j].case => i = j
MarkerIgnored(v) == fixture[v] = hash     \* mutant of MayExecute
MayExecute(v) == fixture[v] = hash /\ ~marker[v]

\* A complete checkpoint makes the command return its receipt, or raise without.
StartExecute(v) ==
  /\ Load(v) /\ MayExecute(v) /\ Loads(v) /\ ~Complete(v)
  /\ \A w \in Providers : tail[w] # "torn"
  /\ Goto(v, "idle", "loop")
  /\ spent' = [spent EXCEPT ![v] = Spent(log[v])]
  /\ total' = [total EXCEPT ![v] = FixtureTotal + ExecutionTotal]
  /\ UNCHANGED <<protocol, files, directories, attempt, operator, losses>>

NextCase(v) == CHOOSE c \in (1 .. N) \ Answered(v) : \A d \in (1 .. N) \ Answered(v) : c <= d

Affordable(v, amount) ==
  /\ spent[v] + amount <= HardCap[loaded[v]][v]
  /\ total[v] + amount <= TotalCap[loaded[v]]

Request(v) ==
  /\ Goto(v, "loop", "sent")
  /\ ~Complete(v) /\ Affordable(v, Bound[NextCase(v)])
  /\ Send(v)
  /\ UNCHANGED <<protocol, files, directories, loaded, spent, total, operator, losses>>

\* "next call could exceed": raised before the try block.
StopAtCap(v) ==
  /\ pc[v] = "loop" /\ ~Complete(v) /\ ~Affordable(v, Bound[NextCase(v)])
  /\ Leave(v)
  /\ UNCHANGED <<protocol, files, directories, operator, losses>>

\* The transport tries again.
Retry(v, fault) ==
  /\ pc[v] \in {"fixture", "sent"} /\ Repeats(fault, attempt[v])
  /\ Send(v)
  /\ UNCHANGED <<protocol, files, directories, pc, loaded, spent, total, operator, losses>>

\* A row after a line without its newline makes one line of both.
Appended(v) == IF tail[v] = "whole" THEN "whole" ELSE "torn"

\* The row carries the hash of the protocol file as it is now.
SaveRow(v, reply, c) ==
  /\ Goto(v, "sent", "loop")
  /\ Accepts(AdapterOf[v], reply) /\ reply.valid
  /\ Affordable(v, c)
  /\ log' = [log EXCEPT ![v] = Append(@, [case |-> NextCase(v), hash |-> hash, cost |-> c])]
  /\ tail' = [tail EXCEPT ![v] = Appended(v)]
  /\ spent' = [spent EXCEPT ![v] = @ + c]
  /\ total' = [total EXCEPT ![v] = @ + c]
  /\ attempt' = [attempt EXCEPT ![v] = 0]
  /\ UNCHANGED <<protocol, receipts, marker, directories, loaded, operator, losses>>

\* Any exception in the try block: the transport gave up, the reply was refused,
\* or its cost passes a cap.
Freeze(v) ==
  /\ pc[v] = "sent"
  /\ \/ \E fault \in SentFaults : ~Repeats(fault, attempt[v])
     \/ \E reply \in Replies : ~Accepts(AdapterOf[v], reply) \/ ~reply.valid
     \/ \E c \in Costs : ~Affordable(v, c)
  /\ marker' = [marker EXCEPT ![v] = TRUE]
  /\ Leave(v)
  /\ UNCHANGED <<protocol, receipts, checkpoint, directories, operator, losses>>

WriteCompletion(v) ==
  /\ pc[v] = "loop" /\ Complete(v)
  /\ completion' = [completion EXCEPT ![v] = TRUE]
  /\ Leave(v)
  /\ UNCHANGED <<protocol, fixture, fixtureCost, checkpoint, marker, directories,
                 operator, losses>>

\* The process dies, or a KeyboardInterrupt passes "except Exception": between
\* steps, or within the append of a row.
Crash(v) ==
  /\ pc[v] # "idle" /\ Lose
  /\ Leave(v)
  /\ UNCHANGED <<protocol, files, directories, operator>>

\* Part of the line is on disk, or all of it but the newline.
CrashInAppend(v) ==
  /\ pc[v] = "sent" /\ Lose
  /\ \/ tail' = [tail EXCEPT ![v] = "torn"] /\ UNCHANGED log
     \/ /\ tail' = [tail EXCEPT ![v] = IF @ = "whole" THEN "unended" ELSE "torn"]
        /\ \E c \in Costs :
             /\ Affordable(v, c)
             /\ log' = [log EXCEPT ![v] =
                  Append(@, [case |-> NextCase(v), hash |-> hash, cost |-> c])]
  /\ Leave(v)
  /\ UNCHANGED <<protocol, receipts, marker, directories, operator>>

-----------------------------------------------------------------------------
(* score *)

Rest == at' = "idle" /\ left' = {} /\ view' = {} /\ steady' = TRUE

StartScore ==
  /\ at = "idle" /\ CapsFit(hash)
  /\ at' = "read" /\ left' = Providers /\ view' = {} /\ steady' = TRUE
  /\ UNCHANGED <<protocol, files, directories, local, losses>>

\* Only a complete, unfrozen provider whose rows bind is compared.
AnyPrefix(v) == Loads(v) /\ ~marker[v] /\ log[v] # <<>>  \* mutant of Eligible
Eligible(v) == Loads(v) /\ ~marker[v] /\ Complete(v)

ReadProvider(v) ==
  /\ at = "read" /\ v \in left /\ tail[v] # "torn"
  /\ left' = left \ {v}
  /\ view' = IF Eligible(v) THEN view \cup {v} ELSE view
  /\ UNCHANGED <<protocol, files, directories, local, at, steady, losses>>

\* The handler of an unreadable checkpoint reads it again, outside a try block.
ReadTorn(v) ==
  /\ at = "read" /\ v \in left /\ tail[v] = "torn"
  /\ Rest
  /\ UNCHANGED <<protocol, files, directories, local, losses>>

StartWriting ==
  /\ at = "read" /\ left = {}
  /\ at' = "write" /\ left' = Files
  /\ UNCHANGED <<protocol, files, directories, local, view, steady, losses>>

WriteScore(f) ==
  /\ at = "write" /\ f \in left
  /\ scores' = [scores EXCEPT ![f] = view]
  /\ left' = left \ {f}
  /\ UNCHANGED <<protocol, files, manifest, published, publishedManifest, readme,
                 release, local, at, view, steady, losses>>

\* The manifest hashes the outputs and the protocol as they are now on disk.
WriteManifest ==
  /\ at = "write" /\ left = {}
  /\ manifest' = [hash |-> hash, eligible |-> view, content |-> scores, steady |-> steady]
  /\ Rest
  /\ UNCHANGED <<protocol, files, scores, published, publishedManifest, readme, release,
                 local, losses>>

-----------------------------------------------------------------------------
(* publish *)

StartPublish ==
  /\ at = "idle" /\ CapsFit(hash)
  /\ manifest.hash = hash /\ manifest.eligible # {}
  /\ at' = "publish" /\ left' = Files
  /\ UNCHANGED <<protocol, files, directories, local, view, steady, losses>>

Unchecked(f) == TRUE                             \* mutant of Current
Current(f) == scores[f] = manifest.content[f]

CopyOutput(f) ==
  /\ at = "publish" /\ f \in left /\ Current(f)
  /\ published' = [published EXCEPT ![f] = scores[f]]
  /\ release' = "partial"
  /\ left' = left \ {f}
  /\ UNCHANGED <<protocol, files, scores, manifest, publishedManifest, readme, local, at,
                 view, steady, losses>>

\* "score output hash drifted", with the earlier files copied already.
RefuseOutput(f) ==
  /\ at = "publish" /\ f \in left /\ ~Current(f)
  /\ Rest
  /\ UNCHANGED <<protocol, files, directories, local, losses>>

CopyManifest ==
  /\ at = "publish" /\ left = {}
  /\ publishedManifest' = manifest /\ release' = "partial"
  /\ at' = "summary"
  /\ UNCHANGED <<protocol, files, scores, manifest, published, readme, local, left, view,
                 steady, losses>>

\* Written from the aggregate metrics of the score directory, not from their copy.
WriteReadme ==
  /\ at = "summary"
  /\ readme' = scores["scores"] /\ release' = "done"
  /\ Rest
  /\ UNCHANGED <<protocol, files, scores, manifest, published, publishedManifest, local,
                 losses>>

-----------------------------------------------------------------------------
(* Around the commands *)

\* Score and publish are interrupted.
CrashOperator ==
  /\ at # "idle" /\ Lose
  /\ Rest
  /\ UNCHANGED <<protocol, files, directories, local>>

\* Between commands or while some run.
EditProtocol ==
  /\ edits < MaxEdits /\ edits' = edits + 1
  /\ hash' \in Hashes \ {hash}
  /\ steady' = (at = "idle")
  /\ UNCHANGED <<files, directories, local, at, left, view, losses>>

Fixture(v) ==
  \/ StartFixture(v) \/ FailFixture(v)
  \/ \E reply \in Replies, c \in Costs : PassFixture(v, reply, c)

Execute(v) ==
  \/ Request(v) \/ StopAtCap(v) \/ Freeze(v) \/ WriteCompletion(v)
  \/ \E fault \in SentFaults : Retry(v, fault)
  \/ \E reply \in Replies, c \in Costs : SaveRow(v, reply, c)

Score ==
  \/ StartWriting \/ WriteManifest \/ \E f \in Files : WriteScore(f)
  \/ \E v \in Providers : ReadProvider(v) \/ ReadTorn(v)

Publish ==
  \/ StartPublish \/ CopyManifest \/ WriteReadme
  \/ \E f \in Files : CopyOutput(f) \/ RefuseOutput(f)

Next ==
  \/ \E v \in Providers : \/ Fixture(v) \/ StartExecute(v) \/ Execute(v)
                          \/ Crash(v) \/ CrashInAppend(v)
  \/ StartScore \/ Score \/ Publish \/ CrashOperator \/ EditProtocol

Spec == Init /\ [][Next]_vars

-----------------------------------------------------------------------------
(* Properties *)

\* What was paid for the fixtures of a protocol, and beyond it for its answers.
FixturesUnder(h) ==
  Total([v \in Providers |-> IF fixture[v] = h THEN fixtureCost[v] ELSE 0])
AnswersUnder(h) ==
  Total([v \in Providers |-> IF fixture[v] = h THEN Spent(log[v]) ELSE 0])

\* What the fixtures cost above the total set aside for them, which no command
\* compares.
Overdraft(h) ==
  IF FixturesUnder(h) > FixtureTotalCap[h] THEN FixturesUnder(h) - FixtureTotalCap[h] ELSE 0

\* Recorded spending keeps both caps of the protocol its provider was admitted
\* under: the answers of a provider its own cap, everything together the total cap
\* but for an overdraft of the fixtures.  It does so although an execute command adds
\* up the other providers once, when it starts, and although the file may be edited
\* while it runs; and all variables stay in their types.
RecordedWithinTotal ==
  /\ TypeOK
  /\ \A v \in Providers :
       fixture[v] # None => Spent(log[v]) <= HardCap[fixture[v]][v]
  /\ \A h \in Hashes : FixturesUnder(h) + AnswersUnder(h) <= TotalCap[h] + Overdraft(h)

\* What a manifest compares are whole bundles of providers that never failed, in
\* checkpoints that no crash spoiled, and all bought under its own protocol unless that
\* was edited while score ran; later commands, crashes and edits leave that true.
ScoredIsWhole ==
  \A v \in manifest.eligible :
    /\ Complete(v) /\ ~marker[v] /\ tail[v] # "torn"
    /\ manifest.steady => \A i \in DOMAIN log[v] : log[v][i].hash = manifest.hash

\* A release that was announced is of one piece, its summary included, whatever
\* interrupted score and publish commands left in the two directories before.
PublishedTogether ==
  release = "done" =>
    published = publishedManifest.content /\ readme = publishedManifest.content["scores"]

-----------------------------------------------------------------------------
(* Each provider of the panel implements PaidStage under the protocol its  *)
(* fixture passed: the mapping from its files to the abstract stage.       *)

\* The next case of a frozen provider is the one that was refused.
AnswerOf(v, c) ==
  IF c \in Answered(v) THEN "answered"
  ELSE IF marker[v] /\ c = NextCase(v) THEN "frozen" ELSE "open"

\* The stage of a protocol no fixture of the provider passed under stays untouched.
Promise(v, h) == INSTANCE PaidStage WITH
  Requests <- 1 .. N,
  Limit <- HardCap[h][v] + FixtureCap[h],
  answer <- [c \in 1 .. N |-> IF fixture[v] = h THEN AnswerOf(v, c) ELSE "open"],
  spent <- IF fixture[v] = h THEN fixtureCost[v] + Spent(log[v]) ELSE 0,
  published <- fixture[v] = h /\ completion[v]

\* Every provider keeps the promises of PaidStage by the caps of the protocol it was
\* admitted under, through crashes in an append, torn checkpoints, edits of the
\* protocol and the other providers.
\* (\A v \in Providers, h \in Hashes : Promise(v, h)!Spec, with the quantifiers
\* inside the box; almost every step is a stutter of almost all of these stages.)
PromisedStep(v, h) == UNCHANGED Promise(v, h)!vars \/ Promise(v, h)!Next
ImplementsPaidStage ==
  /\ \A v \in Providers, h \in Hashes : Promise(v, h)!Init
  /\ [][\A v \in Providers, h \in Hashes : PromisedStep(v, h)]_vars
=============================================================================
