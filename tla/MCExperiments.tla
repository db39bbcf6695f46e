--------------------------- MODULE MCExperiments ----------------------------
(***************************************************************************)
(* Values of the constants of Experiments for model checking; and, beside  *)
(* the experiments, the pure parts of all of them (ContractStudy,          *)
(* TableStudy), one input at a time.                                       *)
(***************************************************************************)
EXTENDS Experiments, TableStudy, TLC

CONSTANTS
  c1, c2, c3,                   \* commits
  h1, m1, m2, p1, p2, a1, ans1, ans2, \* cases, readers, arm and answers of the judge
  verifier, deepseek, gemini, luna, judge, q1, q2 \* stages and requests

-----------------------------------------------------------------------------
(* The setups *)

\* Three requests for four places, since the readers disagree on one case; one
\* imported, one failed before.
MCRead == [place \in {p1, p2} \X {h1, m1, m2} \X {a1} |->
             IF place[1] = p1 \/ place[2] # h1 THEN ans1 ELSE ans2]
MCJudge ==
  [cases |-> {h1, m1, m2}, memops |-> {m1, m2}, rank |-> (m1 :> 7) @@ (m2 :> 3),
   sampleCount |-> 1, readers |-> {p1, p2}, arms |-> {a1}, read |-> MCRead,
   bound |-> (<<h1, ans1>> :> 2) @@ (<<h1, ans2>> :> 1) @@ (<<m2, ans1>> :> 2), costs |-> {1, 2},
   prior |-> {<<h1, ans1>>}, priorCost |-> (<<h1, ans1>> :> 1), priorFailed |-> {<<m2, ans1>>},
   priorFixture |-> 1, fixtureBound |-> 1, fixtureCap |-> 1, planCap |-> 5,
   providerCap |-> 5, totalCap |-> 7, recovery |-> 1, commits |-> {c1, c2, c3},
   descendants |-> {c1, c2}, workers |-> 2, maxMoves |-> 3]

\* Two strata that share two of three requests.
MCAudit ==
  [requests |-> {1, 2, 3}, strata |-> {1, 2}, stratum |-> <<{1, 2, 3}, {2, 3}>>,
   rank |-> <<(1 :> 3) @@ (2 :> 1) @@ (3 :> 2), (1 :> 0) @@ (2 :> 1) @@ (3 :> 4)>>,
   quota |-> <<1, 1>>, priorSpent |-> 1, fixtureCap |-> 1, reservation |-> 2, totalCap |-> 6,
   costs |-> {1, 2, 3}, commits |-> {c1, c2}, maxMoves |-> 2, maxLosses |-> 2]

\* The two-reader protocol: an imported bundle and the deterministic gate.
MCV3 ==
  [stages |-> {verifier, deepseek, gemini, judge}, judge |-> judge,
   uses |-> (verifier :> {}) @@ (deepseek :> {verifier}) @@ (gemini :> {verifier})
              @@ (judge :> {verifier, deepseek, gemini}),
   requests |-> (verifier :> {q1}) @@ (deepseek :> {q1, q2}) @@ (gemini :> {q1}) @@ (judge :> {q1}),
   reused |-> (verifier :> {q1}) @@ (deepseek :> {q1}) @@ (gemini :> {}) @@ (judge :> {}),
   whole |-> {verifier}, samePlace |-> TRUE, strict |-> {deepseek, gemini},
   gate |-> "analysis", commits |-> {c1, c2}, maxMoves |-> 2]

\* The first protocols: the verifier's bundle is bought or imported, no gate.
MCV2 ==
  [stages |-> {verifier, gemini, judge}, judge |-> judge,
   uses |-> (verifier :> {}) @@ (gemini :> {verifier}) @@ (judge :> {verifier, gemini}),
   requests |-> (verifier :> {q1, q2}) @@ (gemini :> {q1, q2}) @@ (judge :> {q1}),
   reused |-> (verifier :> {q1, q2}) @@ (gemini :> {}) @@ (judge :> {}),
   whole |-> {verifier}, samePlace |-> FALSE, strict |-> {}, gate |-> "none",
   commits |-> {c1, c2}, maxMoves |-> 2]

\* The GPT replication: the verifier's answers are another runtime's, and the judge
\* protocol is frozen with the reader's receipt.
MCReplication ==
  [stages |-> {luna, judge}, judge |-> judge, uses |-> (luna :> {}) @@ (judge :> {luna}),
   requests |-> (luna :> {q1, q2}) @@ (judge :> {q1, q2}),
   reused |-> (luna :> {}) @@ (judge :> {}),
   whole |-> {}, samePlace |-> FALSE, strict |-> {luna, judge}, gate |-> "frozen",
   commits |-> {c1, c2}, maxMoves |-> 3]

\* Two invocations of the exposure runner over one provider's directory, and two
\* commits with protocol files of their own.
MCExposure ==
  [procs |-> {p1, p2}, n |-> 2, bound |-> <<1, 1>>, hardCap |-> 4, costs |-> {1},
   commits |-> {c1, c2}, contractOf |-> (c1 :> c1) @@ (c2 :> c2), maxLosses |-> 1,
   maxEdits |-> 2]

MCSetup == [judge |-> MCJudge, audit |-> MCAudit, v3 |-> MCV3, v2 |-> MCV2,
            replication |-> MCReplication, exposure |-> MCExposure]

-----------------------------------------------------------------------------
(* The inputs of the contracts and of the tables: one family for each kind of *)
(* subject.                                                                   *)

Vector(a, i, u) == ("admissible" :> a) @@ ("inadmissible" :> i) @@ ("unknown" :> u)

Labelled(required, policy, lifecycle) ==
  [required |-> required, policy |-> policy, lifecycle |-> lifecycle]

\* Three candidates of one case, or two and one of two cases; answers in order or
\* with two keys exchanged; a bound of none and of half the anchors.
Labels == {Labelled(TRUE, "yes", "yes"), Labelled(TRUE, "yes", "unknown"),
           Labelled(TRUE, "no", "yes"), Labelled(FALSE, "yes", "no"),
           Labelled(FALSE, "unknown", "yes")}
Verdicts == {Vector(4, 0, 0), Vector(0, 4, 0), Vector(0, 3, 1), Vector(1, 2, 1)}
Answer(keys, vectors) == [i \in DOMAIN keys |-> [key |-> keys[i], vector |-> vectors[i]]]
Calibration(candidates) == [role |-> "calibration", anchors |-> 1, candidates |-> candidates]
FilterSubject(it) ==
  \E bound \in {<<0, 1>>, <<1, 2>>}, unknowns \in {{{}}, {{0}, {1}}},
     keys \in {<<1, 2>>, <<2, 1>>},
     l1 \in Labels, l2 \in Labels \ {Labelled(TRUE, "yes", "unknown"), Labelled(TRUE, "no", "yes")},
     l3 \in {Labelled(TRUE, "yes", "yes"), Labelled(FALSE, "no", "no")},
     v1 \in Verdicts, v2 \in Verdicts, v3 \in Verdicts :
    it = [kind |-> "filter", bound |-> bound, violations |-> {2, 3}, unknowns |-> unknowns,
           cases |-> <<Calibration(<<l1, l2>>), Calibration(<<l3>>)>>,
           responses |-> <<Answer(keys, <<v1, v2>>), Answer(<<1>>, <<v3>>)>>]

\* Three candidates with any labels, and any deletion of a ranking.
Kept == {<<>>, <<1>>, <<2>>, <<3>>, <<1, 2>>, <<1, 3>>, <<2, 3>>, <<1, 2, 3>>}
RouteSubject(it) ==
  \E keys \in Kept, target \in {<<0, 1>>, <<1, 2>>, <<1, 1>>}, anchors \in 1 .. 3,
     required \in [1 .. 3 -> BOOLEAN], policy \in [1 .. 3 -> {"yes", "no", "unknown"}] :
    it = [kind |-> "route", keys |-> keys, target |-> target,
           case |-> [role |-> "analysis", anchors |-> anchors,
                     candidates |-> [i \in 1 .. 3 |-> [required |-> required[i], policy |-> policy[i],
                                                       lifecycle |-> "yes"]]]]

\* Two cases with rankings that share memories and texts.
Natural(memory, rank, text, policy, lifecycle) ==
  [memory |-> memory, rank |-> rank, text |-> text, required |-> FALSE,
   scope |-> "yes", policy |-> policy, lifecycle |-> lifecycle]
PromptSubject(it) ==
  \E query \in {1, 2}, s \in {0, 4}, t1 \in {1, 2}, t2 \in {1, 2}, t3 \in {1, 2},
     o1 \in {"yes", "no", "unknown"}, o2 \in {"yes", "no"}, l1 \in {"yes", "no", "unknown"} :
    it = [kind |-> "prompt", threshold |-> 3,
           cases |-> <<[query |-> 1, anchors |-> 1,
                        global |-> <<Natural(1, 1, t1, o1, l1), Natural(4, 2, t2, "yes", "yes")>>,
                        namespace |-> <<Natural(1, 1, t1, o1, l1), Natural(2, 2, t2, o2, "yes"),
                                        Natural(3, 3, t3, "yes", l1)>>],
                       [query |-> query, anchors |-> 1,
                        global |-> <<Natural(2, 1, t2, o2, "yes")>>,
                        namespace |-> <<Natural(2, 1, t2, o2, "yes"), Natural(3, 2, t3, o1, "yes")>>]>>,
           scores |-> <<(1 :> s) @@ (2 :> 4) @@ (3 :> 0), (2 :> s) @@ (3 :> 1)>>]

\* Certain and tied answers about the three roles, in two orders of the pool.
Certain == {Vector(4, 0, 0), Vector(0, 4, 0), Vector(0, 0, 4)}
Tied == {Vector(2, 2, 0), Vector(0, 2, 2), Vector(2, 1, 1)}
PairSubject(it) ==
  \E roles \in {<<"focal", "stable_admissible", "stable_inadmissible">>,
     <<"stable_inadmissible", "focal", "stable_admissible">>},
     block \in {{2}, {2, 3}}, keys \in {<<1, 2, 3>>, <<1, 3, 2>>},
     f1 \in Certain \cup Tied, f2 \in Certain \cup Tied,
     s1 \in {Vector(4, 0, 0), Vector(0, 0, 4)}, s2 \in Certain \cup {Vector(2, 2, 0)},
     t1 \in {Vector(4, 0, 0), Vector(0, 4, 0)}, t2 \in {Vector(0, 4, 0), Vector(0, 2, 2)} :
    it = [kind |-> "pair", alike |-> <<1, 2>>,
           scenario |-> [roles |-> roles,
                         pairs |-> <<[allow |-> {1, 2}, block |-> block]>>],
           predictions |-> ("allow" :> Answer(<<1, 2, 3>>, <<f1, s1, t1>>))
                             @@ ("block" :> Answer(keys, <<f2, s2, t2>>))]

\* Texts of two words, some of them shared, with markers of one or two words.
ExposureSubject(it) ==
  \E quote \in 0 .. 3, query \in {<<4>>, <<1, 5>>, <<2, 5>>},
     t1 \in {<<1, 4>>, <<1, 2>>, <<4, 2>>}, t2 \in {<<2, 4>>, <<2, 1>>, <<1, 5>>},
     k1 \in {{<<1>>}, {<<1, 2>>}, {<<1>>, <<4>>}, {<<2>>}},
     k2 \in {{<<2>>}, {<<2, 1>>}, {<<1>>}} :
    it = [kind |-> "exposure", quote |-> quote, queries |-> ("allow" :> <<5>>) @@ ("block" :> query),
           candidates |-> <<[role |-> "focal", text |-> t1, markers |-> k1],
                            [role |-> "irrelevant_admissible", text |-> t2, markers |-> k2],
                            [role |-> "irrelevant_inadmissible", text |-> <<3, 4>>,
                             markers |-> {<<3>>}]>>]

RankSubject(it) ==
  \E n \in {2, 4} :
  \E label \in [1 .. n -> BOOLEAN], level \in [1 .. n -> 0 .. 4] :
    it = [kind |-> "rank", rows |-> [i \in 1 .. n |-> [label |-> label[i], score |-> level[i]]]]

\* Correct are answers of at least a middling quality.
JudgeSubject(it) ==
  \E a \in [1 .. 3 -> 0 .. 3], b \in [1 .. 3 -> 0 .. 3] :
    it = [kind |-> "judges", quality |-> <<a, b>>,
           correct |-> <<[i \in 1 .. 3 |-> a[i] > 1], [i \in 1 .. 3 |-> b[i] > 1]>>]

\* Four cases of two sources and three groups; a case that is not evaluable is so
\* for both arms, or the last one for the arm alone.
TableSubject(it) ==
  \E a \in [1 .. 4 -> 0 .. 1], b \in [1 .. 4 -> 0 .. 1], known \in SUBSET (1 .. 4),
     lost \in {{}, {4}} :
    it = [kind |-> "tables",
           cases |-> <<[source |-> "rhelm", group |-> 1], [source |-> "rhelm", group |-> 1],
                       [source |-> "rhelm", group |-> 2], [source |-> "memops", group |-> 3]>>,
           values |-> ("arm" :> [c \in 1 .. 4 |-> IF c \in known \ lost THEN {a[c]} ELSE {}])
                        @@ ("reference" :> [c \in 1 .. 4 |-> IF c \in known THEN {b[c]} ELSE {}])]

\* Two axes of two scenarios, or of two and one; three draws, one of them the
\* observed sample and one that picks the first scenario only.  A single
\* scenario can only be picked itself.
Cluster(sum, count) == [sum |-> sum, count |-> count]
Clusters == {Cluster(-1, 1), Cluster(1, 1), Cluster(1, 2), Cluster(2, 2)}
Pairs(values) == {<<u, v>> : u \in values, v \in values}
ResampleSubject(it) ==
  \E first \in Pairs(Clusters), second \in Pairs(Clusters) \cup {<<c>> : c \in Clusters},
     p \in Pairs({1, 2}), q \in {<<1, 1>>, <<2, 1>>} :
    /\ Len(second) = 2 \/ q = <<1, 1>>
    /\ it = [kind |-> "resample", observed |-> <<first, second>>,
             picks |-> <<<<p, q>>, <<<<1, 2>>, <<1, 2>>>>, <<<<1, 1>>, <<1, 1>>>>>>]

\* Memories of two of three namespaces, ranked all or two of them; a draw for each
\* memory decides at which rate a gate errs and what it takes the memory for.
Memory(namespace, state, distractor) ==
  [namespace |-> namespace, state |-> state, distractor |-> distractor]
SupportSubject(it) ==
  \E required \in {{1}, {3}, {1, 2}, {2, 3}, {1, 2, 3}}, n \in [1 .. 3 -> {0, 1}],
     state \in {"current", "stale", "uncertain"}, distractor \in BOOLEAN,
     intent \in {"current_state", "history"}, ranking \in {<<1, 2, 3>>, <<3, 1>>},
     errs \in {<<0, 1, 2>>, <<3, 0, 1>>},
     at \in {[limit |-> 3, target |-> <<4, 5>>], [limit |-> 2, target |-> <<1, 2>>]} :
    it = [kind |-> "support", limit |-> at.limit, target |-> at.target, cost |-> <<1, 2>>,
           query |-> [namespace |-> 0, required |-> required, intent |-> intent],
           memories |-> <<Memory(n[1], state, FALSE), Memory(n[2], "current", distractor),
                          Memory(n[3], "current", FALSE)>>,
           namespaces |-> 3, ranking |-> ranking, depths |-> {1, 2, 3},
           shuffle |-> <<2, 3, 1>>, gate |-> errs, draws |-> <<0, 3, 2>>, rates |-> <<0, 1, 2>>]

\* Routes that miss an anchor, that show nothing wrong before it, a memory out of
\* scope, or a stale one.
Cost == <<1, 2>>
ReplayScore(route) ==
  [recall |-> IF route = "missed" THEN <<1, 2>> ELSE <<2, 2>>, width |-> 2,
   returnedWrongScope |-> IF route = "outside" THEN <<1, 2>> ELSE <<0, 2>>]
    @@ IF route = "missed"
       THEN [feasible |-> FALSE, prefix |-> {}, risk |-> Cost, residual |-> Cost]
       ELSE [feasible |-> TRUE, prefix |-> {2},
             risk |-> IF route = "clean" THEN <<0, 2>> ELSE <<1, 2>>,
             residual |-> IF route = "stale" THEN <<1, 2>> ELSE <<0, 2>>,
             matchedWrongScope |-> IF route = "outside" THEN <<1, 2>> ELSE <<0, 2>>,
             known |-> IF route = "clean" THEN 0 ELSE 1,
             upper |-> IF route = "clean" THEN 0 ELSE 1]
\* Five queries of three groups of one source and one or two of the other.
GroupSubject(it) ==
  \E global \in [1 .. 5 -> {"missed", "outside", "clean"}], last \in {1, 2},
     namespace \in {<<"clean", "stale", "clean", "missed", "clean">>,
                    <<"missed", "clean", "clean", "stale", "missed">>} :
    LET place == <<<<"rhelm", 1>>, <<"rhelm", 1>>, <<"rhelm", 2>>, <<"memops", 1>>,
                   <<"memops", last>>>>
    IN  it = [kind |-> "groups", cost |-> Cost, sources |-> <<"memops", "rhelm">>,
               queries |-> [i \in 1 .. 5 |->
                  [source |-> place[i][1], group |-> place[i][2],
                   scored |-> ("global" :> 4) @@ ("namespace" :> 2),
                   global |-> ReplayScore(global[i]), namespace |-> ReplayScore(namespace[i])]]]

\* Three scenarios, of which the last may have one cell only.
Effect(scenario, cell, effect) == [scenario |-> scenario, cell |-> cell, effect |-> <<effect, 1>>]
ScenarioSubject(it) ==
  \E e \in [1 .. 5 -> {-1, 0, 1}], lastCell \in {"relevant_admissible", "relevant_inadmissible"} :
    it = [kind |-> "scenarios",
           rows |-> <<Effect(1, "relevant_admissible", e[1]), Effect(1, "relevant_inadmissible", e[2]),
                      Effect(1, "relevant_inadmissible", e[3]), Effect(1, "irrelevant_admissible", 1),
                      Effect(2, "relevant_admissible", e[4]), Effect(2, "relevant_inadmissible", 0),
                      Effect(3, "relevant_admissible", e[5]), Effect(3, lastCell, 0)>>]

\* Two cases of one source and one of another; the memories of the middle one may
\* all be unusable, and one of the settings prefers a late memory.
Usable == [relevance |-> "required", scope |-> "allowed", state |-> "current",
           policy |-> "yes", intent |-> "current_state"]
Forbidden == [Usable EXCEPT !.policy = "no"]
Unlabelled == [Usable EXCEPT !.policy = "unknown"]
Useless == [Usable EXCEPT !.relevance = "not_useful"]
SettingSubject(it) ==
  \E l1 \in {<<Usable, Forbidden, Usable>>, <<Forbidden, Usable, Useless>>, <<Unlabelled, Forbidden, Usable>>},
     l2 \in {<<Usable, Useless, Forbidden>>, <<Forbidden, Useless, Forbidden>>, <<Unlabelled, Forbidden, Usable>>},
     l3 \in {<<Forbidden, Usable, Usable>>, <<Usable, Unlabelled, Forbidden>>, <<Useless, Unlabelled, Usable>>},
     first \in {<<1, 2, 3>>, <<3, 1>>}, second \in {<<2, 3, 1>>, <<3, 1, 2>>, <<1>>, <<>>},
     target \in {<<1, 2>>, <<1, 1>>} :
    it = [kind |-> "settings", target |-> target, depths |-> {1, 2, 3},
           cases |-> <<[source |-> "rhelm", labels |-> l1], [source |-> "rhelm", labels |-> l2],
                       [source |-> "memops", labels |-> l3]>>,
           rankings |-> <<<<first, first, second>>, <<second, first, first>>>>,
           scored |-> <<3, 2>>]

\* Three rates; the reference is not corrupted, and the same at all of them.
Point(feasible, upper) == [feasible |-> <<feasible, 2>>, upper |-> <<upper, 2>>]
Points == {Point(f, u) : f \in {1, 2}, u \in {0, 1}}
CurveSubject(it) ==
  \E treatment \in [{0, 1, 3} -> Points], reference \in Points :
    it = [kind |-> "curve", curve |-> [rate \in {0, 1, 3} |->
            [treatment |-> treatment[rate], reference |-> reference]]]

Subject(it) ==
  \/ FilterSubject(it) \/ RouteSubject(it) \/ PromptSubject(it) \/ PairSubject(it)
  \/ ExposureSubject(it) \/ RankSubject(it) \/ JudgeSubject(it) \/ TableSubject(it)
  \/ ResampleSubject(it) \/ SupportSubject(it) \/ GroupSubject(it) \/ ScenarioSubject(it)
  \/ SettingSubject(it) \/ CurveSubject(it)

-----------------------------------------------------------------------------
(* One experiment, or one input *)

NotStudied == subject = [kind |-> "none"] /\ result = Unseen
NotRun ==
  /\ NotMoved /\ head = None /\ clean = None /\ completion = None
  /\ NotPaid /\ NotJudge /\ NotAudit /\ NotPipeline /\ NotExposed
StudyStarts == which = "study" /\ Subject(subject) /\ result = Unseen /\ NotRun
StudyStep == which = "study" /\ StudyNext /\ UNCHANGED vars

MCInit == StudyStarts \/ (Init /\ NotStudied)
MCNext == StudyStep \/ (Next /\ UNCHANGED studied)
MCSpec == MCInit /\ [][MCNext]_<<vars, studied>>

\* The recovered judge alone.
JudgeSpec ==
  JudgeStarts /\ NotStudied /\ [][JudgeStep /\ UNCHANGED studied]_<<vars, studied>>

\* See TwoReaderJudge.
CheckpointsReusable == which = "judge" => TwoReader!CheckpointsReusable
=============================================================================
