-------------------------- MODULE InferredInvariant --------------------------
(***************************************************************************)
(* The inductive invariants of the inferred-admissibility executor.        *)
(* PublishInv holds for any number of invocations, ResumeInv for one at a  *)
(* time (OneRunner).                                                       *)
(***************************************************************************)
EXTENDS InferredExecutor

\* What canonicalize holds was read from a checkpoint that covered all cases.
ReadInv ==
  \A p \in Procs : pc[p] \in {"primary", "sensitivity", "audit"} =>
    Covers(log) /\ Covers(view[p]) /\ Firsts(view[p]) = Firsts(log)

\* The primary view is what the checkpoint says now, also in the audit.
PrimaryInv ==
  /\ primary # <<>> => Covers(log) /\ primary = Firsts(log)
  /\ \A p \in Procs : pc[p] \in {"sensitivity", "audit"} => primary # <<>>
  /\ audit # <<>> =>
       primary # <<>> /\ Covers(audit[2]) /\ Firsts(audit[2]) = Firsts(log)

\* So are the rows a score command has read, unless it reads the last ones.
ScoredInv ==
  /\ \A p \in Procs : pc[p] = "score" /\ source[p] # "sensitivity" =>
       Covers(log) /\ Lasts(view[p]) = Firsts(log)
  /\ score # <<>> /\ score[1] # "sensitivity" =>
       Covers(log) /\ score[2] = Firsts(log)

PublishInv == ReadInv /\ PrimaryInv /\ ScoredInv

\* An execute command remembers exactly what the checkpoint says, and calls
\* only for a case whose reserve fits.
MemoryInv ==
  \A p \in Procs : pc[p] \in {"loop", "sent"} =>
    /\ completed[p] = Answered(log) /\ spent[p] = Spent(log)
    /\ Spent(log) <= HardCap
    /\ pc[p] = "sent" =>
         \E c \in Cases : Turn(p, c) /\ spent[p] + Reserve[c] <= HardCap

ResumeInv == MemoryInv /\ DistinctCases /\ OverrunByOne
=============================================================================
