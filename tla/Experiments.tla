----------------------------- MODULE Experiments -----------------------------
(***************************************************************************)
(* The natural experiments and two invocations of the exposure runner side *)
(* by side: the recovered judge, the cross-judge audit, the protocols of   *)
(* the pipeline.  They keep their own runtime directories and share        *)
(* nothing but the checkout, so a behaviour follows one of them, chosen at *)
(* the start; the variables of the others keep the value None.             *)
(***************************************************************************)
EXTENDS Integers

CONSTANTS
  None,          \* no file, no commit
  Setup          \* by experiment, the constants of its module

VARIABLES
  which,
  head, clean, moves, source, responses, failures, fixture, completion, scored,
  imported, plan, attestation, sample, pc, commit, left, flying, budget, cap, failed, halted,
  manifest, asked, billed, losses,
  fixtureCommit, fixtureCost, fixtureFailed, log, frozen, normalized, score, unlock, key,
  edits, next, spent, calls,
  answers, staging, analysis, gate, pinned, runner, importing, analysing

shared == <<head, clean, moves, fixture, completion, scored>>
paid == <<source, responses, failures, pc, commit, left, flying, budget>>
judged == <<imported, plan, attestation, sample, cap, failed, halted>>
audited == <<manifest, asked, billed, losses>>
piped == <<answers, staging, analysis, gate, pinned, runner, importing, analysing>>
exposed ==
  <<fixtureCommit, fixtureCost, fixtureFailed, log, frozen, normalized, score, unlock, key,
    edits, next, spent, calls>>
vars == <<which, shared, paid, judged, audited, piped, exposed>>

NotJudge ==
  /\ imported = None /\ plan = None /\ attestation = None /\ sample = None
  /\ cap = None /\ failed = None /\ halted = None
NotSampled == manifest = None /\ asked = None /\ billed = None
NotAudit == NotSampled /\ losses = None
NotMoved == moves = None /\ fixture = None /\ scored = None
NotBought ==
  /\ source = None /\ responses = None /\ failures = None
  /\ left = None /\ flying = None /\ budget = None
NotPaid == NotBought /\ pc = None /\ commit = None
NotPipeline ==
  /\ answers = None /\ staging = None /\ analysis = None /\ gate = None
  /\ pinned = None /\ runner = None /\ importing = None /\ analysing = None
NotExposed ==
  /\ fixtureCommit = None /\ fixtureCost = None /\ fixtureFailed = None
  /\ log = None /\ frozen = None /\ normalized = None /\ score = None
  /\ unlock = None /\ key = None /\ edits = None
  /\ next = None /\ spent = None /\ calls = None

-----------------------------------------------------------------------------
(* The modules, each with the constants of its setup *)

JudgeSetup == Setup.judge
AuditSetup == Setup.audit
V3Setup == Setup.v3
V2Setup == Setup.v2
ReplicationSetup == Setup.replication
ExposureSetup == Setup.exposure

TwoReader == INSTANCE TwoReaderJudge WITH
  Cases <- JudgeSetup.cases, MemOps <- JudgeSetup.memops, Rank <- JudgeSetup.rank,
  SampleCount <- JudgeSetup.sampleCount, Readers <- JudgeSetup.readers,
  Arms <- JudgeSetup.arms, Read <- JudgeSetup.read, Bound <- JudgeSetup.bound,
  Costs <- JudgeSetup.costs, Prior <- JudgeSetup.prior, PriorCost <- JudgeSetup.priorCost,
  PriorFailed <- JudgeSetup.priorFailed, PriorFixture <- JudgeSetup.priorFixture,
  FixtureBound <- JudgeSetup.fixtureBound, FixtureCap <- JudgeSetup.fixtureCap,
  PlanCap <- JudgeSetup.planCap, ProviderCap <- JudgeSetup.providerCap,
  TotalCap <- JudgeSetup.totalCap, Recovery <- JudgeSetup.recovery,
  Commits <- JudgeSetup.commits, Descendants <- JudgeSetup.descendants,
  Workers <- JudgeSetup.workers, MaxMoves <- JudgeSetup.maxMoves

Audit == INSTANCE CrossJudgeAudit WITH
  Requests <- AuditSetup.requests, Strata <- AuditSetup.strata,
  Stratum <- AuditSetup.stratum, Rank <- AuditSetup.rank, Quota <- AuditSetup.quota,
  PriorSpent <- AuditSetup.priorSpent, FixtureCap <- AuditSetup.fixtureCap,
  Reservation <- AuditSetup.reservation, TotalCap <- AuditSetup.totalCap,
  Costs <- AuditSetup.costs, Commits <- AuditSetup.commits,
  MaxMoves <- AuditSetup.maxMoves, MaxLosses <- AuditSetup.maxLosses

(* The protocols of the pipeline: two readers and a gate, the first one, and the *)
(* replication by another reader.                                                *)
V3 == INSTANCE NaturalPipeline_proofs WITH
  Stages <- V3Setup.stages, Judge <- V3Setup.judge, Uses <- V3Setup.uses,
  Requests <- V3Setup.requests, Reused <- V3Setup.reused, Whole <- V3Setup.whole,
  SamePlace <- V3Setup.samePlace, Strict <- V3Setup.strict, Gate <- V3Setup.gate,
  Commits <- V3Setup.commits, MaxMoves <- V3Setup.maxMoves

V2 == INSTANCE NaturalPipeline_proofs WITH
  Stages <- V2Setup.stages, Judge <- V2Setup.judge, Uses <- V2Setup.uses,
  Requests <- V2Setup.requests, Reused <- V2Setup.reused, Whole <- V2Setup.whole,
  SamePlace <- V2Setup.samePlace, Strict <- V2Setup.strict, Gate <- V2Setup.gate,
  Commits <- V2Setup.commits, MaxMoves <- V2Setup.maxMoves

Replication == INSTANCE NaturalPipeline_proofs WITH
  Stages <- ReplicationSetup.stages, Judge <- ReplicationSetup.judge, Uses <- ReplicationSetup.uses,
  Requests <- ReplicationSetup.requests, Reused <- ReplicationSetup.reused,
  Whole <- ReplicationSetup.whole, SamePlace <- ReplicationSetup.samePlace,
  Strict <- ReplicationSetup.strict, Gate <- ReplicationSetup.gate,
  Commits <- ReplicationSetup.commits, MaxMoves <- ReplicationSetup.maxMoves

Exposure == INSTANCE ExposureExecutor_proofs WITH
  Procs <- ExposureSetup.procs, N <- ExposureSetup.n, Bound <- ExposureSetup.bound,
  HardCap <- ExposureSetup.hardCap, Costs <- ExposureSetup.costs,
  Commits <- ExposureSetup.commits, ContractOf <- ExposureSetup.contractOf,
  NoCommit <- None, MaxLosses <- ExposureSetup.maxLosses, MaxEdits <- ExposureSetup.maxEdits

ASSUME ExperimentsAssumption ==
  /\ TwoReader!JudgeAssumption /\ TwoReader!PriorFits
  /\ Audit!AuditAssumption /\ Audit!PlanFits
  /\ Exposure!ExposureAssumption
  /\ V3!PipelineAssumption /\ V2!PipelineAssumption /\ Replication!PipelineAssumption

-----------------------------------------------------------------------------

JudgeStarts ==
  /\ which = "judge" /\ TwoReader!Init
  /\ NotAudit /\ NotPipeline /\ NotExposed
AuditStarts ==
  /\ which = "audit" /\ Audit!Init
  /\ NotJudge /\ NotPipeline /\ NotExposed
PipelineStarts ==
  /\ \/ which = "v3" /\ V3!Init
     \/ which = "v2" /\ V2!Init
     \/ which = "replication" /\ Replication!Init
  /\ NotPaid /\ NotJudge /\ NotAudit /\ NotExposed
ExposureStarts ==
  /\ which = "exposure" /\ Exposure!Init
  /\ NotMoved /\ NotBought /\ NotJudge /\ NotSampled /\ NotPipeline

Init ==
  JudgeStarts \/ AuditStarts \/ ExposureStarts \/ PipelineStarts

JudgeStep ==
  /\ which = "judge" /\ TwoReader!Next
  /\ UNCHANGED <<which, audited, piped, exposed>>
AuditStep ==
  /\ which = "audit" /\ Audit!Next
  /\ UNCHANGED <<which, judged, piped, exposed>>
PipelineStep ==
  /\ \/ which = "v3" /\ V3!Next
     \/ which = "v2" /\ V2!Next
     \/ which = "replication" /\ Replication!Next
  /\ UNCHANGED <<which, paid, judged, audited, exposed>>
ExposureStep ==
  /\ which = "exposure" /\ Exposure!Next
  /\ UNCHANGED <<which, moves, fixture, scored, source, responses, failures, left, flying,
                 budget, judged, manifest, asked, billed, piped>>

Next == JudgeStep \/ AuditStep \/ ExposureStep \/ PipelineStep

Spec == Init /\ [][Next]_vars

-----------------------------------------------------------------------------
(* Each property is stated in the module of the experiment; see there. *)

TypesOK ==
  /\ which = "judge" => TwoReader!TypeOK
  /\ which = "audit" => Audit!TypeOK
  /\ which = "v3" => V3!TypeOK
  /\ which = "v2" => V2!TypeOK
  /\ which = "replication" => Replication!TypeOK

\* Recorded spending and calls in flight stay within the total cap of the judge and
\* of the audit (TwoReaderJudge, CrossJudgeAudit), and all variables in their types.
RecordedWithinTotal ==
  /\ TypesOK
  /\ which = "judge" => TwoReader!RecordedWithinTotal
  /\ which = "audit" => Audit!RecordedWithinTotal

\* What is published rests on whole bundles of the commits their receipts name, and
\* a checkpoint that two invocations spoiled is never scored (all four modules).
ScoredIsBound ==
  /\ which = "judge" => TwoReader!ScoredIsBound
  /\ which = "audit" => Audit!AuditIsWhole
  /\ which = "exposure" => Exposure!ScoredIsWhole
  /\ which = "v3" => V3!ScoredIsBound
  /\ which = "v2" => V2!ScoredIsBound
  /\ which = "replication" => Replication!ScoredIsBound

\* The judge waits for complete readers and a passed gate (NaturalPipeline).
JudgeWaits ==
  /\ which = "v3" => V3!JudgeWaits
  /\ which = "v2" => V2!JudgeWaits
  /\ which = "replication" => Replication!JudgeWaits

\* An import is there entirely or not at all (NaturalPipeline).
ImportIsWhole ==
  /\ which = "v3" => V3!ImportIsWhole
  /\ which = "v2" => V2!ImportIsWhole
  /\ which = "replication" => Replication!ImportIsWhole

\* Every charge is recorded but one for each lost call, and what a refused reply cost
\* above its reservation (CrossJudgeAudit).
LossIsBounded == which = "audit" => Audit!LossIsBounded

\* A saved answer is never rewritten (TwoReaderJudge, NaturalPipeline).
AnswersStay ==
  [][/\ which = "judge" => TwoReader!AnswersKept
     /\ which = "v3" => V3!AnswersKept
     /\ which = "v2" => V2!AnswersKept
     /\ which = "replication" => Replication!AnswersKept]_vars
=============================================================================
