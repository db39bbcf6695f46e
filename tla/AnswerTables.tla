---------------------------- MODULE AnswerTables ----------------------------
(***************************************************************************)
(* The two tables every natural score publishes: the mean of a metric by   *)
(* reader, arm and source with its mean over the sources, and the paired   *)
(* difference of two arms.  cases has for each case its source and its     *)
(* group, values for each arm and case the value, None where it has none.  *)
(***************************************************************************)
EXTENDS Fractions, FiniteSetsExt

Sources == {"rhelm", "memops"}

From(cases, source) == {c \in DOMAIN cases : cases[c].source = source}
Evaluable(values, arm, of) == {c \in of : values[arm][c] # {}}
Value(values, arm, c) == CHOOSE v \in values[arm][c] : TRUE

\* _mean and _aggregate_rows; the macro mean is None if a source has none.
SourceMean(cases, values, arm, source) ==
  LET of == Evaluable(values, arm, From(cases, source))
  IN  IF of = {} THEN {}
      ELSE {<<MapThenSumSet(LAMBDA c : Value(values, arm, c), of), Cardinality(of)>>}

MacroMean(cases, values, arm) ==
  {Half(a, b) : a \in SourceMean(cases, values, arm, "rhelm"),
                b \in SourceMean(cases, values, arm, "memops")}

\* _paired_delta: differences by source and group; the sums and the counts of a
\* source's groups are added up before they are divided.
Groups(cases, source) == {cases[c].group : c \in From(cases, source)}
Pairs(cases, values, arm, reference, source, group) ==
  {c \in From(cases, source) :
     cases[c].group = group /\ values[arm][c] # {} /\ values[reference][c] # {}}
GroupSum(cases, values, arm, reference, source, group) ==
  MapThenSumSet(LAMBDA c : Value(values, arm, c) - Value(values, reference, c),
                Pairs(cases, values, arm, reference, source, group))
OnePerGroup(cases, values, arm, reference, source, group) == 1     \* mutant of GroupSize
GroupSize(cases, values, arm, reference, source, group) ==
  Cardinality(Pairs(cases, values, arm, reference, source, group))

Counted(cases, values, arm, reference, source) ==
  {g \in Groups(cases, source) :
     Pairs(cases, values, arm, reference, source, g) # {}}
SourceDelta(cases, values, arm, reference, source) ==
  LET groups == Counted(cases, values, arm, reference, source)
  IN  <<MapThenSumSet(LAMBDA g : GroupSum(cases, values, arm, reference, source, g), groups),
        MapThenSumSet(LAMBDA g : GroupSize(cases, values, arm, reference, source, g), groups)>>

\* The mean over the sources that have a pair, None if none has.
PairedDelta(cases, values, arm, reference) ==
  LET Delta(source) == SourceDelta(cases, values, arm, reference, source)
      with == {s \in Sources : Counted(cases, values, arm, reference, s) # {}}
  IN  CASE with = {} -> {}
        [] with = Sources -> {Half(Delta("rhelm"), Delta("memops"))}
        [] OTHER -> {Delta(s) : s \in with}
=============================================================================
