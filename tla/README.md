# verify-agent-memory in TLA+

The repository is an evaluation artifact: pure Python rules about which memories an agent may use
(`src/verify_agent_memory/`), and runners (`scripts/`) that buy model answers from providers and
turn them into published, hash-bound evidence. The rules are deterministic and have unit tests. The
runners are where correctness is hard: they spend money through thread pools, are interrupted and
resumed, are invoked twice, and must never mix answers of two commits or publish half a bundle.

## Inventory

| component | state it keeps | operations | hard behaviour | what makes it correct |
|---|---|---|---|---|
| stage executor (`run_natural_end_to_end_experiment.py` 501-1168) | lock file, fixture receipt, one file per response and per failure, completion receipt; in memory: queue, window of futures, reservations, budget | acquire, check contract, scan, submit, collect, record, complete, release; fixture | concurrency of calls and of processes, crashes, Ctrl-C, HEAD moving, the cap while costs are unknown | one writer, no request bought twice, recorded spending under the cap, bounded retries, whole and single-commit completion |
| natural pipeline (same file, 271-497, 1171-1990; `import_natural_*.py`; `analyze_natural_two_reader_deterministic.py`) | answers, completion and fixture receipts of each stage, staging directory of an import, analysis and gate receipt, scores; outside: HEAD, receipts pinned in a frozen protocol | import, fixture and execute of each stage, analyze, score | stages of other commits, an import that dies, a gate that is stale, HEAD moving while calls run | the judge is asked only about whole readers of one commit that passed the gate; an import is all or nothing; scores rest on whole stages |
| provider transport (`run_inferred_admissibility_experiment.py` 330-640) | attempt counter | `_http_json`, four adapters | time-outs, retries, replies cut short or with more than one text | bounded attempts; only a reply that ended normally is accepted |
| exposure executor (`run_counterfactual_exposure_execution.py`, also driven by `run_claude_opus5_exposure_replication.py`) | fixture receipt, ordered JSONL checkpoint, two failure markers, completion receipt, response derivative, score; outside: approval file, HEAD | fixture, execute, score | resumption after an interrupt, costs known after the call, HEAD and approval moving, no lock | the checkpoint is a prefix of the frozen order, records under the cap, a failure is final, only whole bundles are scored |
| inferred executor (`run_inferred_admissibility_experiment.py` 685-1076, 1402-1707) | fixture receipt, JSONL checkpoint, failure log, two canonical views, audit, score manifest; outside: protocol file | provider-fixture, execute, canonicalize, score | no lock: two invocations buy one case twice while a third reads the file | first committed answer wins everywhere and for ever, bounded duplicates, resumable by one invocation |
| counterfactual executors (`run_counterfactual_admissibility_experiment.py`, `run_counterfactual_exposure_intervention.py`) | per provider: fixture receipt, JSONL checkpoint, failure marker, completion receipt; score files, manifest, publication directory | fixture, execute, score, publish | an append torn by a crash, two caps of which one is read once, a protocol file that is hashed again and again while commands run, publication in several files | recorded spending under both caps, only whole unfrozen bundles are compared, a release is of one piece |
| two-reader judge (`run_natural_two_reader_judge.py`) | imported and new answers, failures, import, plan, fixture and sample receipts, scores | import, plan, fixture, execute, score | budget of two attempts, receipts over directories the run itself writes into, HEAD moving | one total cap over both attempts; scores rest on one commit and the imported answers; checkpoints stay usable |
| cross-judge audit (`run_natural_cross_judge_audit.py`, `judge_agreement.py`) | sample manifest, answers, failures, fixture and completion receipts, analysis | freeze-sample, fixture, execute, analyze | a budget another attempt has begun, an answer dearer than its reservation, strata that overlap | recorded spending under the cap, at most one charge lost per interruption and once the excess of a refused reply, agreement over the whole sample |
| gpt reader replication (`run_natural_gpt_reader_replication.py`) | reader and judge stages, frozen judge protocol, capability receipt | fixture, execute, score, capability probe | a judge protocol that names a receipt which is replaced | the judge is asked only about the reader its protocol names |
| admissibility rules (`admissibility.py`, `schema.py`) | none | predicates on scope, lifecycle, policy, relevance | unknown labels | an unknown label never makes a memory usable, and resolving it never reverses a known status |
| provenance (`provenance.py`) | none | hashes and canonical JSON | - | - |
| retrieval arms (`retrieval.py`, `experiment.py`) | clusters of a router | filter, rank, cluster, fall back | ties, missing metadata, no qualifying cluster, float sums | candidates only from the arm's support, one ranking per case whatever the order of its memories, nothing lost or kept twice by a router |
| experiment files (`serialization.py`, `run_retrieval_experiment.py`) | row files | read, write | - | - |
| natural routes and contracts (`natural_end_to_end.py`, `inferred_admissibility.py`, `counterfactual_admissibility.py`, `exposure_intervention.py`) | none | response contracts, threshold selection, routes, reader requests, pair scores, exposure units, tables, bootstrap | keys out of order, ties, zero denominators, shared markers, unequal strata | what is published means what it says: selection, scores, tables and intervals agree with definitions of their own |
| metrics and corruption (`metrics.py`, `robustness.py`) | none | score a ranking, corrupt a case, averages, break-even | unlabelled items, zero denominators, one record under several queries | bounds contain the truth, corruption grows with its rate and agrees between queries |
| frontiers and resampling (`pareto.py`, `support_controls.py`, `run_frozen_*.py`, `analysis/`) | running sums of a replay | cut rankings, replay them under other supports, leave groups out, flip signs, bracket a curve; bootstrap | ties, empty strata, sums from which a group is taken away, a count that is made beside the filter it counts | supports are nested, what is left out is the table of the rest, a deeper cut is no worse |
| evidence publication | result and evidence files | normalise, publish, check | stale hashes | the check accepts what was published only |
| fetch, export, figures | files | download, redact, draw | - | - |

Processes interact only through files of a runtime directory; inside a process the main thread
interacts with worker threads through futures. The executor's results are consumed by later stages
through the completion receipt and `_load_record`.

## Plan

1. *Done:* `StageExecutor` (the shared paid executor), its abstract promise `PaidStage`, the
   refinement and the proofs.
2. *Done:* `ExposureExecutor` and `InferredExecutor` with their proofs.
3. *Done:* `ProviderTransport`, used by `CounterfactualRunner`: all providers of the panel side by side
   under two caps, with torn appends; every provider refines `PaidStage` too.
4. *Done:* `NaturalPipeline`, stages over receipts and commits, in the shape of three protocols;
   `TwoReaderJudge` and `CrossJudgeAudit`.
5. Pure algorithms. *Done:* `Admissibility`, `Retrieval`, `RouteMetrics`, `MetadataCorruption`, composed by
   `RetrievalStudy`, with proofs; `Probabilities`, `VerifierFilter`, `NaturalRoutes`, `PairScores`,
   `ExposureUnits`, composed by `ContractStudy`, with proofs; `RankStatistics`, `AnswerTables`, `Resampling`,
   `SupportControls` (the replays of the frozen rankings) and `SettingSummaries` (summaries, development
   selection, frontiers, break-even), composed by `TableStudy`.
   *Left:* the operating curves of the post-hoc script, the bootstraps of `analysis/`.
6. Proofs. *Done:* the stage executor with its ledger, the exposure and inferred executors, the retrieval study, the
   counterfactual panel, the natural pipeline, the recovered judge, the cross-judge audit, and all natural
   experiments together (`Experiments`); what sorting, filtering and clustering do in `RetrievalStudy`; the
   properties of `ContractStudy`. *Left:* `ImplementsPaidStage` for the judge and the audit.

## Modules

| module | what it is |
|---|---|
| `Counting` | sums of amounts as cardinalities of token sets, and orders by the number of what comes before, so that the proofs can use the library's facts about finite sets |
| `StageExecutor` | one provider stage: files, processes, thread pool, provider, operator; the mapping of its files to `PaidStage` |
| `StageInvariant` | the inductive invariant, in named parts |
| `PaidStage` | abstract specification: atomic purchases under a limit, one publication |
| `MCStageExecutor` | values of the constants for TLC |
| `ExposureExecutor` | one provider of the exposure experiment: runtime directory, invocations, operator |
| `ExposureInvariant` | its inductive invariants, in named parts |
| `MCExposureExecutor` | values of its constants for TLC |
| `InferredExecutor` | one provider of the inferred-admissibility experiment: checkpoint, views, invocations, operator |
| `InferredInvariant` | its inductive invariants, in named parts |
| `MCInferredExecutor` | values of its constants for TLC |
| `Admissibility` | labels and the three-valued rules over them |
| `Retrieval` | the twelve arms: support, ranking, clusters |
| `RouteMetrics` | the score of a ranking: recall-matched prefix and bounds of the violations in it |
| `MetadataCorruption` | what a route sees of a corrupted source |
| `RetrievalStudy` | one query of one arm, from the source to its score: composes the four above |
| `MCRetrievalStudy` | families of inputs and values of the constants for TLC |
| `ProviderTransport` | one request to a provider: attempts, and which replies an adapter accepts |
| `CounterfactualRunner` | the counterfactual panel: every provider's fixture and execute, score and publish; the mapping of each provider's files to `PaidStage` |
| `MCCounterfactualRunner` | values of its constants for TLC |
| `NaturalPipeline` | the stages of a natural experiment: import, stages, gate, judge, score |
| `TwoReaderJudge` | the judge recovered from an earlier attempt |
| `CrossJudgeAudit` | the second judge over a stratified sample |
| `Probabilities` | probability vectors and the contract of a response |
| `VerifierFilter` | selection of the filter thresholds, filtered routes and their score |
| `NaturalRoutes` | arms over frozen rankings, reader requests, matched-recall scores |
| `PairScores` | scores of a pair of queries |
| `ExposureUnits` | exposure units, requests, disclosure and cells |
| `RankStatistics` | AUC, average precision, calibration error, agreement of two judges |
| `AnswerTables` | means by source and paired differences |
| `Fractions` | the rates of the tables: exact fractions, means of those that are there, order of tuples |
| `SupportControls` | the frozen rankings replayed under other supports: routes, scores, tables, groups left out, sign flips |
| `SettingSummaries` | summary of a setting, development selection, frontier over depths, aggregated scores, break-even |
| `Resampling` | estimates and intervals of the stratified bootstraps |
| `ContractStudy` | composes the filter, the natural routes, the pairs and the exposure units: one input at a time is computed and compared |
| `TableStudy` | extends it by the statistics, tables, bootstraps, replays and settings, in the same way |
| `Experiments` | `TwoReaderJudge`, `CrossJudgeAudit`, three instances of `NaturalPipeline` and two invocations of `ExposureExecutor` over one checkout, one per behaviour |
| `MCExperiments` | values of their constants for TLC, the inputs of `TableStudy`, and `TableStudy` as one more behaviour |
| `Counting_proofs`, `StageExecutor_proofs`, `ExposureExecutor_proofs`, `InferredStudy_proofs`, `RetrievalStudy_proofs`, `CounterfactualRunner_proofs`, `NaturalPipeline_proofs`, `Experiments_proofs` | the theorems |

### How StageExecutor corresponds to the code

Files are variables: `lock` is the lock file, `responseCommit`/`responseCost` the saved responses
(their `implementation_commit` and `cost_usd`), `contractFailures`, `terminal` and `failureCost` what
a scan derives from the failure receipts, `completion` the completion receipt, `fixtureCommit`/
`fixtureCost` the fixture receipt. `head` and `ready` are the checkout and the credentials. The
remaining variables are local variables of `_execute_specs_locked`, one copy per process: `call[p]`
holds the futures, and with `Bound` their reservations.

| action | code |
|---|---|
| `AcquireLock`, `Release` | `_exclusive_stage_lock`: `O_CREAT \| O_EXCL`, and the `finally` that unlinks only its own token |
| `CheckContract` | `_require_clean_contract`, the fixture receipt, the API key |
| `Scan` | loading and checking every response, counting failure receipts, the three early refusals, the pending queue |
| `Submit`, `EndFill` | `submit` and `fill` |
| `Answer` | the worker thread: `_call_provider` with whatever the provider does |
| `Collect`, `HandleSuccess`, `HandleFailure` | one turn of the `while futures` loop |
| `Stop`, `CompleteStage` | the code after the loop, and `_complete_stage` |
| `Interrupt`, `PoolShutdown` | Ctrl-C in the main thread and the pool's `__exit__`, which waits for the calls |
| `Crash` | the process dies between two steps |
| `StartFixture`, `WriteFixture`, `FixtureFails` | `run_fixture`, which takes no lock |
| `RemoveStaleLock`, `EditCheckout` | the operator (external) |

Abstractions. Dollars are natural numbers, so rounding of floats is not modelled. A request's
conservative bound is a constant; an answer costs at most its bound (the bound counts one token per
byte of input and the full output allowance). `_write_json` writes a temporary file and replaces the
target, so a write is one step. `_git_head` is cached for the life of a process, so `commit[p]` is
read once. Failure kinds are the classes that `_execution_failure_policy` and the 429 rule tell
apart. Responses of an import carry `compatibility_source` and are outside the incremental total.
A failed check ends in `release`: the exception leaves through the lock's context manager.

### How ExposureExecutor corresponds to the code

The files of a provider's runtime directory are variables: `log` is the JSONL checkpoint (a sequence
of rows), `frozen` and `fixtureFailed` the two failure markers, `completion` the receipt (the
checkpoint whose hash it holds), `normalized` and `score` what scoring derives. `head`, `clean`,
`unlock` and `key` are the checkout, the approval and the credential. `commit[p]`, `next[p]` and
`spent[p]` are what an invocation remembers. A row's `by` is history: the file does not record it.

| action | code |
|---|---|
| `StartFixture`, `PassFixture`, `FailFixture` | `fixture_provider`: its refusals and early return, the receipt, the marker |
| `StartExecute`, `LoadCheckpoint`, `Refuse` | `validate_unlock`, `_validate_fixture`, the marker, `_validate_checkpoint`, the receipt, the credential |
| `Request`, `StopAtCap`, `SaveRow`, `Freeze` | one turn of the loop: call, stop before it, append, failure |
| `EndLoop`, `Recheck`, `Refuse`, `Complete` | the code after the loop; the receipt hashes the file in a read of its own |
| `StartScore`, `Derive`, `Refuse`, `WriteScore` | `score_provider` |
| `Crash` | the process dies, or is interrupted: `except Exception` does not catch a `KeyboardInterrupt` |
| `EditCheckout` | the operator (external) |

Abstractions. An approval is the commit it names; its owner and model list are part of the contract.
The hashes of the two protocol files are a function of the commit (`ContractOf`); an edit of a
protocol file while a command runs is a move of HEAD. One provider is modelled: providers share the
checkout and the approval only, and `load_execution_protocol` checks that their caps add up to at
most the total. It also checks that all bounds fit the cap, the last conjunct of
`ExposureAssumption`. An answer may cost more than its bound, because usage is what the provider
reports. An append is one step: a line torn by a machine failure, and an `fsync` that fails after the
line was written, are not modelled.

### How InferredExecutor corresponds to the code

`log` is `responses-<provider>.jsonl`, `failures` what `failures-<provider>.jsonl` says, `receipt` and
`receiptCost` the fixture receipt, `primary`, `sensitivity` and `audit` the outputs of `canonicalize`,
`score` the manifest of `score`. `completed[p]` and `spent[p]` are the variables of `execute_provider`;
`view[p]` is the file as `canonicalize` or `score` read it, `source[p]` the directory `--response-dir`
names. `contract` is the hash of the protocol file, which every row and the receipt carry.

| action | code |
|---|---|
| `StartFixture`, `WriteReceipt`, `FixtureFails` | `run_provider_fixture` |
| `StartExecute` | `validate_provider_fixture_receipt` and `execute_provider` up to its loop |
| `Request`, `StopAtCap`, `SaveRow`, `SaveLastRow`, `CallFails`, `EndExecute` | the loop and its ends |
| `StartCanonicalize`, `WritePrimary`, `WriteSensitivity`, `WriteAudit` | `canonicalize_response_checkpoints`, one step per file it replaces |
| `StartScore`, `WriteScore` | `score_responses`: read and refuse; write |
| `Crash` | the process dies, or a `KeyboardInterrupt` passes `except Exception` |
| `EditProtocol` | the operator (external) |

Abstractions. A row is its case, contract, cost and prediction. A command that is refused, or finds no
credential, does nothing. Reading a file is one step, and so is appending a row. `canonicalize` runs in
one process at a time (`InferredAssumption`): two would share the names of their temporary files.
`view` and `source` of an `execute` command, and `spent` of the others, are unused and empty.

### How RetrievalStudy corresponds to the code

`input` is what a study is started with: a source (memories, decisions and queries), the labels it is
scored by, an arm, a corruption channel, its rate and the hashes it draws. `case` is the `ObservableCase` the
arm receives, `clusters` and `waiting` the router's loop, `route` the `RouteResult`, `score` the
`RouteScore`.

| action | code |
|---|---|
| `Corrupt` | `corrupt_case` of `robustness.py`; rate 0 is the released case |
| `RouteDirect` | `route` for the ten arms without clusters |
| `StartRouter`, `InsertFirst`, `InsertThreshold`, `InsertA5` | the insertion loops of the two routers, one memory a step |
| `RouteClusters` | their selection of clusters, the fallback, the ranking of the members |
| `Score` | `score_route`; it waits where the code would refuse the ranking, and `MemoriesClusteredOnce`, a part of `RoutesStayLocal`, says it never has to |

Abstractions. Embeddings are small vectors of naturals, so that a dot product and a comparison of
cosines are exact. The normal vectors of the code round; the only sum whose rounding a property is about
is the one of BM25, and it is rounded to `Precision` bits (`Rounded`). The weights of the A5 score are left
out: a cluster may win unless another one is at least as close and as large (`A5Selections`). Cluster
centroids whose members cancel out have norm zero and abort the code; vectors of naturals exclude
them. The SHA-256 draws of a corruption are any numbers below `Grid`. A memory without a policy
decision counts as one whose decision is unknown, which is how the arms read it. All namespaces that a corruption invents are
one, `Invented`: none of them equals the namespace of a query.

### How CounterfactualRunner and ProviderTransport correspond to the code

`hash` is the content of the protocol file, which sets all four kinds of caps; `fixture`/`fixtureCost`, `log`,
`marker` and `completion` are the files of each provider, `scores`/`manifest` the score directory and `published`/
`publishedManifest`/`readme` the publication. `tail` is how the checkpoint ends. `pc`, `attempt`, `loaded`, `spent`
and `total` are one invocation per provider; `at`, `left` and `view` belong to score and publish. It loads at first
(`Init`: under another one no command does anything) and may be edited between any two steps. A command keeps the protocol it `loaded`, whose caps it compares with, but hashes the
file anew whenever it writes or binds something: each row, and the manifest, carry the hash of that moment, and publish
compares the manifest with the file as it is then. `steady` is history: whether the file was left alone since the
running command of the operator started.

| action | code |
|---|---|
| `StartFixture`, `PassFixture`, `FailFixture` | the fixture command |
| `StartExecute`, `Request`, `StopAtCap`, `SaveRow`, `Freeze`, `WriteCompletion` | the execute command: its refusals, the loop with both caps, the append, the handler that freezes, the receipt |
| `Retry` | `_http_json` tries again; `Freeze` is where it gives up or the adapter refuses the reply |
| `Crash`, `CrashInAppend` | the process dies between steps or inside an append: the line is cut, or lacks its newline |
| `StartScore`, `ReadProvider`, `ReadTorn`, `StartWriting`, `WriteScore`, `WriteManifest` | the score command; its handler of an unreadable checkpoint reads it again outside a `try` |
| `StartPublish`, `CopyOutput`, `RefuseOutput`, `CopyManifest`, `WriteReadme` | the publish command, file by file; its README.md comes last and is computed from the score directory |
| `CrashOperator`, `EditProtocol` | score or publish is interrupted; the operator edits the protocol, between commands or while some run (external) |

Abstractions. A reply is what the adapters look at. Score files hold the set of providers that were
eligible. Back-off times, request bodies and headers are left out. Loading the protocol and the hashes and reads at
the start of a fixture or execute command (its receipt, its own checkpoint and those of the others) are one step, and so
is all that score reads of one provider: an edit falls before or after them. An edit changes caps, not the prompt, the
data set, the adapters, the cases or what a call may cost. One invocation per provider: the code
has no lock here either, and two of them are the business of `ExposureExecutor` and `InferredExecutor`,
whose append-only checkpoint is the same.

### How NaturalPipeline corresponds to the code

A stage is the commit of each saved answer, of its completion receipt and of its fixture receipt, and
the commit its execute command started on (`runner`); what happens inside is `StageExecutor`.

| action | code |
|---|---|
| `StartImport`, `CopyRecord`, `Rename`, `StopImport`, `RemoveStaging` | the two import scripts: checks, copies in a staging directory, `os.replace`; a death before it, and the operator who removes what is left |
| `RunFixture`, `Execute`, `SaveAnswer`, `CompleteStage`, `StopStage` | fixture and execute of a stage: plan from loaded stages, gate, drift check, completion |
| `Pin` | the operator freezes the receipts in the next protocol (external) |
| `Analyse`, `WriteGate`, `StopAnalysis`, `RemoveAnalysis` | the deterministic analysis, whose receipt comes after its outputs |
| `Score` | the score command: `Unlocked`, then `Loads` of every stage |
| `Change` | HEAD and the working tree (external) |

The constants are the differences of the protocols: `V3` has a verifier imported whole, a reader imported in part,
fixtures of the executing commit and the analysis gate; `V2` buys or imports the verifier's bundle and has
no gate; `Replication` has one reader and a judge protocol that pins its receipt.

### How TwoReaderJudge corresponds to the code

`source` is what drifted outside the runtime directory, the receipts are records of what they name. Every
command checks the receipts of those before it as the code does: `PlanCurrent`, `ImportCurrent`,
`FixtureCurrent`, `SampleCurrent`.

| action | code |
|---|---|
| `StartImport`, `ImportResponse`, `RefuseImport`, `WriteImport` | import: answers one by one, then failures and the receipt |
| `WritePlan` | plan, from `select_cases` and `_judge_plan` (`Sampled`, `RequestOf`) |
| `StartFixture`, `PassFixture`, `Attest` | fixture; the receipt may be on disk before its cost is refused |
| `StartExecute`, `Submit`, `SaveAnswer`, `SaveFailure`, `StopExecute`, `CompleteStage`, `WriteSample` | execute: the cap derived from the total, the stage with its failures, the sample receipt |
| `Score` | score: receipt, then every answer bound to the completion's commit |
| `Crash`, `Change` | the process dies; HEAD, working tree and sources (external) |

Abstractions. A request is its case and the answer the judge sees. One command runs at a time; the locks
and processes inside `execute` are those of `StageExecutor`, whose calls are here a set in flight.

### How CrossJudgeAudit corresponds to the code

| action | code |
|---|---|
| `FreezeSample` | freeze-sample, with `select_unique_stratified` as `Drawn` |
| `EnterFixture`, `PassFixture`, `LoseFixture` | `run_fixture`, by itself or inside execute; it reads HEAD for itself (`asked`) |
| `StartExecute`, `StartCalls`, `Ask`, `SaveAnswer`, `CompleteAudit` | execute: one call at a time, a failure freezes the audit |
| `LoseAnswer` | an answer above its reservation raises before it is saved; or the process dies |
| `SaveFailure` | the reply is refused or incomplete, or there is none: the failure file books the reservation, the provider charged nothing, less or more |
| `Refuse` | one of its refusals, or an end that costs nothing |
| `Analyze`, `Change` | analyze; HEAD, tree, sources and manifest (external) |

### How ContractStudy and TableStudy correspond to the code

Each action takes one input, computes what the code computes and leaves it in `result`. In `ContractStudy`: `SelectSetting`
(`score_responses` to the selected thresholds), `ScoreRoute`, `BuildRequests` (`build_reader_requests`), `ScorePair`
(`pair_score_rows`) and `Expose` (`score_exposure_pairs`, `aggregate_cell_scores`). Their guards are what the code
checks of an input before (`IsCase`, `IsGrid`, `KeepsRanking`, `RankingIsValid`) and what it divides by (`Calibrates`);
the candidates of a natural case are all of its namespace, so `InScope` adds a scope that always holds. In
`TableStudy`: `Discriminate`
(`_roc_auc`, `_average_precision`, `_ece`), `Compare` (`judge_agreement`), `Tabulate` (`_aggregate_rows`,
`_paired_delta`) and `Resample` (the bootstraps). `ReplayRanking` is one query of the two frozen replays (its
routes, its scores at matched recall in both scripts, a gate that errs or swaps labels at each rate),
`TabulateGroups` their tables (`Aggregate`, `_source_macro`, `_group_outputs`), `TabulateScenarios` the selectivity
rows of the post-hoc script, `SummarizeSettings` the settings of one arm on development cases
(`summarize_setting`, `select_dev_settings`, `run_top_k_pareto`, `aggregate_scores`), `FindBreakEven` the bracket of a
corruption curve. The properties compare `result` with a definition that does
not go the way of the code: the Mann-Whitney count beside the rank sum, the route score of another module,
what an answer says of a key beside its position in the list, the table of the remaining groups beside the
sums from which one was subtracted, the route itself beside the histogram that counts it.

`ScoresAgree` and `TablesAgree` are conjunctions of named parts, by the inputs they are about:
`ReleasedScoresAgree`, `ReplayScoresAgree`, `SupportsAreNested`; `PairedTablesAgree`, `GroupTablesAgree`,
`SettingTablesAgree`.

Abstractions. Probabilities are whole parts of `Unit` and means are fractions or multiples of `1 / Grain`, so
rounding is absent (so are the tolerances of 1e-12 and 1e-15 the code compares floats with). Texts are sequences of words, a prompt is what it shows. The pseudo-random picks of a
bootstrap are any picks.

### Bounds

`Procs` has two invocations, the least that can race; the second may also be the resumed run while
the first one's lock is stale. Three requests with bounds 1, 2, 1 let the dear one stand at the head
of the queue while a cheap one waits behind it, and a pool of two workers then has one call finished
and one in flight. The cap is reachable: all bounds and the fixture need exactly 5. `MaxFaults`,
`MaxLosses` and `MaxEdits` bound failing calls, crashes and checkouts; two failures reach the second
contract failure of one request, two losses a crash during the resumption of a crashed run.
Commits are two: the one a run is bound to and another. `stage_safety` leaves the checkout alone,
`stage_live` moves it once. The verifier and judge stages have no incremental cap (`Capped = FALSE`); the
theorems cover both values.

In the exposure runs three requests with bounds 1, 2, 1 and costs up to 3 under a cap of 6 reach every
refusal: a first row above its bound, a request that no longer fits, an answer that exceeds the cap
after it was bought. Two losses allow a crash in a resumed command, three edits an approval that is
withdrawn, moved and restored. Two invocations with two requests, one loss and two edits (inside
`experiments`) are enough for both to read one prefix and append the same request, on either commit.

In `inferred_publish` two invocations, two cases and two different answers are enough for the second
row of a case to differ from the first; the auditor may read before, between and after the rows, and
canonicalize again over a grown file. `inferred_panel` has three cases under a cap of 4 and costs 0, 1
and 3 for reserves 1, 2, 1, so that the loop stops before a call, and after one.

`retrieval_study` starts from one of four families of inputs, each of which varies what one group of
properties depends on: every metadata of two memories in all namespace-filtered arms; the angle and
order of three memories in the global arms and the routers; partly unknown labels of three ranked
memories; every channel, rate and draw over two memories and two queries. A ranking is cut at two of
three memories and a router selects one cluster of up to three, so both cuts matter; recall one half lets a prefix of one, two or
no memory be matched. `retrieval_bm25` keeps three bits of a sum of three weights, the smallest case
in which the order of additions shows.

`counterfactual` has two providers with different adapters, two cases with bounds 1 and 2 and costs 1 and 3 under a cap
of 3 each, so that an answer may pass the cap after it was bought. One protocol sets 1 aside for the fixtures, which may
cost 1 each: a common cap of 7 is what its caps just fit, and 8 may be recorded. In the other the caps
(3, 3, and 2 for the fixtures) exceed the common one, 3. One retry, one edit and one loss, which requests, commands and
the operator's interrupts share, reach a torn line, a resumption over a row without newline, a freeze after the last attempt,
rows of both protocols in one checkpoint, a manifest that names a protocol it did not score, an overdrawn fixture budget
with the common cap met exactly, and a release begun under another protocol.

`experiments` starts from one of seven families, each the least in which its cases occur. The judge: three
requests for four places of reader, case and arm, one imported and one failed before, a total cap that leaves room for one more failed call of the dear request, three commits of which one does not descend from the analysis, three moves.
The audit: three requests in two overlapping strata, answers and refused replies that cost up to one more than the reservation, two moves and two losses. The
protocols of the pipeline: one or two requests a stage, two commits, two moves (three in the replication, where the
receipt is pinned between moves). Two exposure invocations as above. The contracts and tables: every family of inputs in `MCExperiments`, with
probabilities in quarters, which is where ties occur; labels and verdicts of three candidates; texts of two words that
share one; four rows of statistics; samples of two strata with two, or two and one, clusters; three memories of two
namespaces, ranked whole or in part, at three rates of a gate; five queries in three or four groups of two sources, of which
one group may be a whole source, so that leaving it out is refused; three scenarios, of which one may lack a cell; two settings over three cases of
two sources, with a source that may have no recall; curves over three rates. None of them is
bounded by a constraint: each bound is a guard of the action that uses it.

### Fairness

`ProcessFairness`: a live process takes its steps and every call returns, since `urlopen` has a
timeout and `_http_json` a bounded number of attempts. `OperatorFairness`, the premise of
`StageSettles`, is the runbook: the fixture is run, the stage is invoked again after it stopped (strong
fairness: the lock is free again and again), a stale lock is cleared. Nothing is assumed of crashes,
failures or edits.

`Operated`, the premise of `Finishes` of the exposure executor: a call returns within
`timeout_seconds` (transport retries are fixed at zero), and the owner invokes `execute` and `score`
again after an interruption (strong fairness: the invocation is possible again and again) and
completes a fixture it began. The checkout may move, but from some time on it stays at the approved commit;
answers may cost more than their bounds, and the provider then ends over its budget.

`OperatedSpec`, the specification of `inferred_panel`, has the like for the inferred executor: fixture and calls return,
and `execute` is invoked again after it stopped. The other modules state safety only.

## Runs

| run | checks | what it shows |
|---|---|---|
| `stage_safety` | `SingleWriter`, `NoDoublePurchase`, `RecordedWithinCap`, `LossIsBounded`, `ImplementsPaidStage` | a capped reader stage under races, failures, crashes and interrupts; it refines `PaidStage`, which says what a failure stops and when a stage is published |
| `stage_live` | `LockComesBack`, `StageSettles` | every run that took the lock ends; an operated stage is completed, refused for good or out of budget |
| `stage_crash_billing` | violates `BilledWithinCap` | one interruption lets the provider bill more than the cap |
| `exposure_safety` | `OrderedPrefix`, `RecordedWithinCap`, `FrozenStaysUnscored`, `OneApproval`, `Finishes` | one invocation at a time over a provider's directory, through overpriced answers, failures, crashes and a moving checkout; an interrupted provider ends in a score, a failure marker or out of budget |
| `inferred_publish` | `ScoresFirstCommitted`, `PrimaryIsStable` | two invocations append without a lock while one canonicalizes and scores |
| `inferred_panel` | `DistinctCases`, `Finishes` | one invocation at a time, through failures, crashes, overpriced answers and an edited protocol: what an execute command resumes from, and that an interrupted panel covers every case or meets its cap |
| `inferred_rerun` | violates `NoSelectiveRerun` | a rejected answer is asked for again |
| `retrieval_study` | `OracleFollowsLabels`, `OrderIsIrrelevant`, `PrefixOutlivesDepth`, `BoundsHold`, `CorruptionIsNested`, `RoutesStayLocal` (with the types and `MemoriesClusteredOnce`) | all arms over all families of inputs, from the corruption to the score |
| `retrieval_bm25` | violates `RankingIsReproducible` | the order in which a process walks a set of terms decides a ranking |
| `counterfactual` | `RecordedWithinTotal` (with the types), `ScoredIsWhole`, `PublishedTogether`, `ImplementsPaidStage` | providers side by side under two caps; torn checkpoints, protocol edits while commands run, overdrawn fixtures and interrupted publication with its summary; each of them refines `PaidStage` |
| `experiments` | `RecordedWithinTotal` (with the types), `ScoredIsBound`, `JudgeWaits`, `ImportIsWhole`, `LossIsBounded`, `AnswersStay`, and of the contracts `SelectionIsAsMeasured`, `ScoresAgree`, `OracleIsNoWorse`, `DeletionLeavesNoTrace`, `PairsAreCoherent`, `MarkersAreAttributable`, `StatisticsAgree`, `TablesAgree` | judge, audit, the three protocols of the pipeline and two exposure invocations, and what the published numbers mean |
| `judge_resume` | violates `CheckpointsReusable` | after one failed call the recovered judge refuses its own import |

The violation of `BilledWithinCap` concerns the sentence of `docs/COST_AWARE_NATURAL_END_TO_END_PLAN.md` that calls
stop "before a provider-specific incremental hard cap can be exceeded". What the code does keep is
`RecordedWithinCap` (every total it can know) and `LossIsBounded` (what it cannot know is at most one
window of calls per crash, interrupt or failed fixture). `docs/PAIRED_EXPOSURE_EXECUTION.md:51-52`
has a "maximum of 385 calls"; no code counts calls, and what holds is `CallsCounted`, one more call
per interruption. `NoSelectiveRerun` is
`docs/INFERRED_ADMISSIBILITY_EXPERIMENT.md:97-99`: the failure log is written and never read.

`CheckpointsReusable` is the sentence "Provider failures stop new submissions; successful checkpoints
remain reusable" (`docs/COST_AWARE_NATURAL_END_TO_END_PLAN.md:307`). `_require_import` compares the import's
receipt with all files that are in the judge's directories now, and `execute` writes its own answers and
failures there, so that every later command stops with "recovery import receipt drifted", and a new import
writes the same receipt. What an interrupted judge bought is kept (`AnswersStay`) but cannot be built on.

`RankingIsReproducible` is the first line of `retrieval.py`, "Deterministic retrieval arms for
admissibility experiments": `_bm25_rank` (line 283) adds floats in the iteration order of a set of
strings, which changes with `PYTHONHASHSEED`, so two memories of equal score may tie in one process
and differ in the last bit in another. The program itself shows it. Of all arms `OrderIsIrrelevant` says that the order
in which the *caller* lists the memories is of no consequence, with exact arithmetic; how the other arms round is not modelled.

Four remarks. `load_protocol` of the counterfactual panel compares the providers' caps and what is set aside for all
fixtures with the total, but never the cap of one fixture with what is set aside for all
(`run_counterfactual_admissibility_experiment.py:285-295`; the inferred runner does, 259-260): `RecordedWithinTotal` there
allows for what the fixtures overdraw (`Overdraft`), and no more. The fixture receipt of the inferred experiment is on disk before its cost is compared with
the cap (`run_inferred_admissibility_experiment.py:788`), so a fixture that failed on its cap lets `execute`
run; the model does the same. `docs/EXPERIMENT_METHODS.md` lists false-deny with the record-level channels; it draws
once for a record but hides it from the queries of its own namespace only, so that `RecordsAgree` is
about the others (`RecordChannels`). And the bounds of `RouteMetrics` hold but are not tight: with history intent
an unknown lifecycle is counted as unresolved although every lifecycle is compatible.

## Theorems

For the stage executor, for any set of processes, finite set of requests, bounds, cap, pool size and retry limit that
satisfy `StageAssumption`.

- `TypeCorrect`: every variable keeps its type.
- `StageInvHolds`: `StageInv` is an invariant. Its control part says that whoever is past the lock is
  the process the lock names (`HolderInv`); that calls exist only inside the thread pool (`QuietInv`);
  that the records a run holds are the files (`CacheInv`) and that what it queues or has in flight is
  unanswered, not refused and counted correctly (`WindowInv`); that the last contract failure is the
  terminal one (`ReceiptInv`). None of the safety properties is inductive alone: `RecordedWithinCap`
  needs the budget in memory to equal the records (`BudgetInv`), which needs the lock, which needs
  `HolderInv`; `ContractAttemptsBounded` needs the scanned count to be current when a call fails.
- Its corollaries: `SingleWriterHolds`, `NoDoublePurchaseHolds`, `TerminalNeverAnsweredHolds`,
  `ContractAttemptsBoundedHolds`, `CompletionIsWholeHolds`, `CompletionLoadsHolds`,
  `RecordedWithinCapHolds`, and the action properties `AnswersAreDurableHolds`, `FailureDrainsHolds`.
- `LossIsBoundedHolds`: the bill exceeds the records by at most a window of bounds per loss. The argument is a
  ledger (`LedgerInv`): what was billed is booked, or charged to a call in the pool of the lock's holder, or was in
  the window of a counted loss. It needs the pool to be no larger than `Workers` (`PoolInv`), and an interrupt to
  count as a loss at once, while its calls still come back and are booked by nobody.
- `StageImplementsPaidStage`: the refinement.

The last two and `RecordedWithinCapHolds` assume `OneFixtureRunner`: the fixture command takes no lock, and
with two of them running at once the second receipt may be written while a stage spends.

For the exposure executor, for any number of requests, bounds, cap, costs and commits that satisfy
`ExposureAssumption`:

- `TypeCorrect` and `ScoredIsWholeHolds` hold for any set of invocations. The second needs no other
  invariant: what is scored was validated and copied in one step.
- With one invocation at a time (`OneRunner`; the code has no lock, so this is the owner's duty),
  `ResumeInv` is inductive: the index and the total of the loop are those of the checkpoint on disk
  (`LoopInv`), whoever executes works for the commit of the fixture receipt (`ExecuteInv`), and every
  call is a file, in flight or lost (`CallInv`). From it follow `OrderedPrefixHolds`,
  `RecordedWithinCapHolds`, `OneApprovalHolds`, `FrozenStaysUnscoredHolds`, `CallsCountedHolds` and
  the action property `FrozenBuysNothingHolds`.

For the inferred executor (in `InferredStudy_proofs`), for any set of invocations, any number of cases, whatever answers cost, and
every series of crashes and edits:

- `TypeCorrect`, and `PublishInvHolds`: appending rows never moves the first row of a case once all
  cases have one (`FirstsStay`), so what `canonicalize` has read, the primary view, the audited
  checkpoint and the scored rows all have the first rows the checkpoint has now. `AuditNamesPrimary`,
  `ScoresFirstCommitted` and `PrimaryIsStable` follow; none is inductive alone, because a view says
  nothing of a checkpoint with a missing case.
- With one invocation at a time (`OneRunner`, again the owner's duty), `ResumeInvHolds`: a running
  execute command remembers exactly the cases and the total of the checkpoint, and a call in flight was
  reserved within the cap (`MemoryInv`). `DistinctCasesHolds` and `OverrunByOneHolds` are its parts;
  neither is inductive without that memory.

For the retrieval study, for any families of inputs, numbers of memories and queries, depths, target
and grid that satisfy `StudyAssumption` and the assumptions of the modules it composes:

- `UsableIsFailClosed`, `AdmissibleIsMonotone` and `UsableIsMonotone`: a memory is usable only if all
  its labels are known and allow it, save that history intent forgives any known lifecycle; and no
  resolution of unknown labels reverses a known status.
- `BoundsHoldHolds`: by monotonicity an item counted in the lower bound violates under every
  resolution, and one that may violate is counted in the upper bound; the rest is cardinalities.
- `PrefixOutlivesDepthHolds`: a prefix that reaches the target goes on reaching it when it grows, so
  the least one is the same in every deeper ranking.
- `CorruptionIsNestedHolds` and `RecordsAgreeHolds`: a draw below a rate is below every larger one,
  and a record-level channel reads nothing of the query.
- All of these rest on `StudyInv`: what a route sees is the corruption of the input, and a score is
  the score of the ranking. It carries no property of the arms, so that the theorems hold for every ranking.
- `RouteInvHolds` is the inductive invariant of the arms. `RoutesStayLocal` is not inductive: that a router ranks
  nothing foreign and nothing twice depends on what it did while it inserted. `RouteInv` adds that nothing is there
  before its phase (`ProgressInv`); that every memory of the namespace waits or is in one cluster, that a cluster
  has a nonzero direction, and that before the first insertion the memories wait in the order of the release
  (`InsertionInv`); and that a ranking lists its candidates once each, which are what the arm's filters leave
  (`RankedInv`). TLC checked it on the instance of `retrieval_study` before it was proved.
- `RoutesStayLocalHolds` (with `StudyTypeOK` and `MemoriesClusteredOnceHolds`) and `OracleFollowsLabelsHolds`
  follow from it; the latter compares the filters of the route with `AdmissibleStatus`, label by label.
- `OrderIsIrrelevantHolds`: an arm's support lists a *set* of memories (`SupportLists`), and what an arm makes of a
  list depends on its set (`DenseOfSet`, `RecencyOfSet`, `Bm25OfSet`, `RrfOfSet`, `InsertionOfSet`, joined in
  `DirectOfSet`). For that a ranking must be a total order: dot products, scores and the fused fractions are compared
  by cross-multiplication, which is transitive for positive denominators (`FractionsRank`), and equal scores by the
  memory id (`TiesBroken`). In a total order a member has as many before it as its place says (`ArrangedPlaces`),
  whichever sequence they came in (`ArrangedAlike`).

The place of a member is the number of those before it (`Arranged` in `Counting`), a filter keeps the places whose
member satisfies it (`Filtered`), and the sum of a lexical score is a recursive function. `SortSeq`, `SelectSeq` and the
folds of the library would compute the same, but what they return is an induction over the sequence, for which the
provers have no rule; these definitions need only that finite sets have cardinalities. That the recursive
function exists for every number of terms is shown by the least number for which it would not (`SumType`).

For the counterfactual panel, for any set of providers, number of cases, caps, bounds and costs that satisfy
`RunnerAssumption` (types only, and that a protocol's hash is not the string that says there is none; no cap is assumed
to fit another), and however often and whenever the protocol is edited:

- `RunnerInvHolds`: a command that runs loaded a protocol whose caps fit (`load_protocol`), an execute command the one of
  its fixture receipt, and its total is that of its own checkpoint (`CommandInv`); a provider whose fixture passed under a
  protocol has spent no more than that protocol's caps for it, and one without a fixture nothing (`SpendingInv`); what a
  score command has seen whole stays whole until it is written, although executions go on beside it, and of the
  protocol in the file unless that is edited (`ScoreInv`); a publication in progress has copied what the manifest names
  and summarises the same (`PublishInv`).
- `TypeCorrect`, `ScoredIsWholeHolds`, `PublishedTogetherHolds`. `RecordedWithinTotalHolds` needs the sum over
  providers: the spending of the others is read once, when a command starts, and is stale afterwards, so the bound does
  not come from the test in the loop; it comes from each provider's own cap and from the caps fitting under the total,
  and the fixtures enter it with what they cost or what was set aside, whichever is more. Rows may carry another
  hash than the fixture receipt, so the sum is taken by the receipts, under whose protocol the rows were bought.
- `ImplementsPaidStageHolds`: each provider refines `PaidStage` under the caps of the protocol of its fixture receipt,
  with the cases as requests; a torn row is none, so the refinement says nothing of how a checkpoint ends: that a spoiled
  one is never compared is `ScoredIsWhole`.

For the natural pipeline, for any stages, requests, commits and protocols that satisfy `PipelineAssumption`:

- `PipelineInvHolds`: an answer of a stage was bought by a command on its commit or copied by the import
  (`BoughtInv`), a gate was computed over readers that were whole (`TriageInv`), whoever asks the judge passed the
  gate on its own commit and finds the readers unchanged (`JudgeInv`). Its corollaries are `TypeCorrect`,
  `JudgeWaitsHolds`, `ScoredIsBoundHolds`, `ImportIsWholeHolds` and the action property `AnswersStayHolds`.
- Two conjuncts of `PipelineAssumption` are there for them and are what the import scripts do: an import brings no
  answer of the judge, and an import into a directory that exists already brings whole stages only. Without the
  first the judge could find answers about readers nobody completed.

For the experiments side by side, for any samples, plans, bounds, costs and caps that satisfy `ExperimentsAssumption`,
which is the conjunction of the assumptions of their modules:

- `JudgeInvariant`: either nothing is there but (part of) what the earlier attempt left, or all of it is
  (`PhaseInv`: `Untouched`, `Imported`), and nothing is bought before a fixture and a whole import; receipts name
  answers that are still there (`ReceiptInv`); the budget in the memory of an execute command covers what was
  recorded since the import, and with the reservations in flight stays under the cap it was given (`ExecuteInv`).
  `RecordedWithinTotal` is not inductive without these: the command compares its budget with a cap derived from the
  total, from which the cost of the *earlier* answers was taken, and this is right only because the import receipt it
  just checked names exactly the answers and failures that are there. It also is why `CheckpointsReusable` fails.
  The fixture's receipt is written before its cost is compared with a cap, so the theorem needs that the earlier
  attempt and one fixture fit under the total (`PriorFits`); the frozen protocol pins 168 earlier answers and two
  failures (together less than a dollar), a fixture cap of $0.01 and a total of $60.
- `AuditInvariant`: a fixture is bought once and before any answer, its receipt stays, and only the sample is bought
  (`AuditPhases`); while calls are made there is no failure file, the budget equals what is recorded, and what is left
  is what is missing (`AuditCalls`); a completion receipt belongs to the whole sample at its recorded cost
  (`AuditCompleted`). From it follow the total cap, what is scored, and the ledger: every charge is in a file, or it is
  at most the dearest answer of one counted loss, or the excess of the one refused reply over the reservation that its
  failure file books (`Unbooked`; the first failure freezes the audit, so there is one). That a fixture fits under the total is `PlanFits`, which
  `load_protocol` checks.
- For all experiments together, `TypesCorrect`, `RecordedWithinTotalHolds`, `ScoredIsBoundHolds`, `JudgeWaitsHolds`,
  `ImportIsWholeHolds`, `LossIsBoundedHolds` and the action property `AnswersStayHolds`, from these two invariants and
  the theorems of `NaturalPipeline_proofs` and `ExposureExecutor_proofs`, which are instantiated with the constants of
  each protocol: an experiment that is followed takes steps of its own module only (`JudgeInTurn` and its like).

For the pure parts that decide what is published or shown (`ContractStudy`, in `InferredStudy_proofs`), from
`ContractAssumption` alone: `ContractSpec` leaves the input arbitrary, so that each theorem speaks of every input an
action accepts, of whatever length and number. No property needs an inductive invariant, since a result is made in
one step; the work is in what the operators compute.

- `DeletionLeavesNoTraceHolds`: the payload numbers the texts that are left from one (`Renumbered`), so it
  determines them and their order and nothing else of a candidate.
- `OracleIsNoWorseHolds`: the score of a route is that of its shortest beginning with enough anchors. Deleting
  candidates keeps the order of the rest (`FilteredPrefixes`) and every anchor, hence the oracle's beginning is inside
  the dense one's, with as many anchors and no more violations; the risk that divides by its length is compared by
  cross-multiplication.
- `SelectionIsAsMeasuredHolds`: an accepted answer lists the candidates in their order, so what is said of a key is at
  its position; the grid is finite and the objective a total preorder of tuples of fractions (`GreatestFractions`),
  so a best point exists and `CHOOSE` finds one; and denials and caught violations are cardinalities of the same sets
  whichever way they are counted.
- `PairsAreCoherentHolds`: a certain answer is the only one without a Brier term, so a sum of zero is right everywhere;
  a pair that is strictly right moves the focal probability in the right direction because the greatest probability
  is at least the others' and ties go to the first label; the pool has one
  candidate of each role (`IsPool`), so there are six judgments, two of the focal one and four of the controls.
- `MarkersAreAttributableHolds`: in an aligned overlay a marker occurs in the text of its own candidate only, and the
  withheld ones are not shown; the cells partition the units, so that their sizes add up (`PartSizes`).

What a theorem says of every instance is not repeated by a run where a run has more urgent questions: the types of the
three executors, `TerminalNeverAnswered`, `ContractAttemptsBounded`, `CompletionIsWhole`, `CompletionLoads`,
`AnswersAreDurable`, `FailureDrains`, `CallsCounted`, `FrozenBuysNothing`, `AuditNamesPrimary`, `OverrunByOne` and
`RecordsAgree` are stated in their modules and proved, and no configuration lists them. They, and the
inductive invariants `StageInv`, `ResumeInv`, `PublishInv`, `RouteInv`, `JudgeInv` and `AuditInv`, were checked by TLC on the instances of the
runs before they were proved, and can be added to the configurations as they stand.

`Counting_proofs` has the arithmetic: `TotalUpdate` and `TotalExtend` say by how much a sum changes when one amount does
or one is added, `TotalPart` that a part of a sum is no more than the sum,
`CostsAppend` that a row appended to a checkpoint adds its cost, `MinIsMember` that a nonempty set of requests has a head;
`ArrangedPlaces`, `ArrangedAlike`, `TiesBroken`, `FractionsRank` and `FilteredElements` are the facts about orders;
`DisjointSizes` and `PartSizes` add up the sizes of the parts of a set, `FilteredPrefixes` relates the beginnings of a
sequence to those of what a filter leaves of it, `GreatestFractions` finds a greatest tuple of fractions in a finite set, `ImagesFinite`
says that a finite set has finite images.

## Only model-checked

The liveness properties `LockComesBack`, `StageSettles` and
`Finishes` (fairness is out of the prover's reach). `ScoresAgree`, `StatisticsAgree` and `TablesAgree` of `TableStudy`: they
compare sums over sequences that are computed in two ways, and that two sums are equal is an induction over the
sequence, for which the provers have no rule. The sums of `Counting` do not help: what they add up are naturals counted by
tokens, and a table adds up fractions and signed differences. The four properties the code violates are refuted by TLC on
their instances, which is all a refutation needs.

## Not modelled

- Float rounding, other than in the BM25 sum.
- The bill of repeated attempts: the transport repeats a timed-out request inside one reservation, and whether the
  provider charges for each attempt is not visible to the program. `attempt` is bounded, money is per request.
- The contents of prompts, schemas and replies (accepted or refused), listings and progress output; file-system errors
  while writing (they end a run like `Interrupt`).
- An edit of the counterfactual protocol within the first step of a command, and one that also changes its prompt, data,
  adapters or prices. Two invocations of one of its providers at once.
- Answers of a natural stage that cost more than their conservative bound (the code books them all the same).
- Two fixture commands of one stage at once, and two commands of one judge or audit at once: no lock forbids them,
  and no document says what should hold then.
- Provenance hashes and experiment files: no state beyond the values they carry. A hash is its content.
- Evidence publication: each script reads finished files and writes once; the one publication that
  a later step trusts, that of the counterfactual panel, is modelled.
- Of the offline analyses: the operating curves of the post-hoc script, standard deviations over seeds, the bootstraps of
  `analysis/`, and the parity checks and file hashes around the frozen replays. They keep no state that a later command reads.
- Prompt texts and the materialisation of natural cases, the capability probe of the GPT replication, fetch, export and
  figures: input and output.
