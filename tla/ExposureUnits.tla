--------------------------- MODULE ExposureUnits ----------------------------
(***************************************************************************)
(* exposure_intervention.py: every candidate of a scenario is once shown   *)
(* to a reader and once withheld, and an answer that contains one of the   *)
(* candidate's markers discloses it.  A text, a query, a marker and an     *)
(* answer are the words they consist of after normalization, a word is a   *)
(* number.                                                                 *)
(***************************************************************************)
EXTENDS Integers, Sequences, FiniteSets, Counting, Functions

Roles == {"focal", "irrelevant_admissible", "irrelevant_inadmissible"}
Conditions == {"allow", "block"}
Exposures == {"withheld", "exposed"}

ContainsWords(text, marker) ==
  \E i \in 1 .. Len(text) - Len(marker) + 1 : SubSeq(text, i, i + Len(marker) - 1) = marker

\* What a role says of a candidate under a condition.
Relevant(role, condition) == role = "focal"
AdmissibleUnder(role, condition) ==
  \/ role = "irrelevant_admissible"
  \/ role = "focal" /\ condition = "allow"

CandidateIsValid(c) ==
  /\ c.role \in Roles /\ c.text # <<>>
  /\ c.markers # {} /\ c.markers \in SUBSET (Seq(Nat) \ {<<>>})

\* The markers of a candidate are in its text, in no other one and in no query.
InOwnText(candidates, queries) ==
  \A i \in DOMAIN candidates : \A m \in candidates[i].markers : ContainsWords(candidates[i].text, m)
InNoOther(candidates, queries) ==
  \A i, j \in DOMAIN candidates : i # j =>
    \A m \in candidates[i].markers : ~ContainsWords(candidates[j].text, m)
InNoQuery(candidates, queries) ==
  \A i \in DOMAIN candidates : \A m \in candidates[i].markers :
    \A c \in Conditions : ~ContainsWords(queries[c], m)
\* The queries are not looked at (mutant of OverlayIsAligned).
TextsAligned(candidates, queries) ==
  /\ Range([i \in DOMAIN candidates |-> candidates[i].role]) = Roles
  /\ DOMAIN candidates = 1 .. Cardinality(Roles)
  /\ \A i \in DOMAIN candidates : CandidateIsValid(candidates[i])
  /\ InOwnText(candidates, queries) /\ InNoOther(candidates, queries)
OverlayIsAligned(candidates, queries) ==
  /\ Range([i \in DOMAIN candidates |-> candidates[i].role]) = Roles
  /\ DOMAIN candidates = 1 .. Cardinality(Roles)
  /\ \A i \in DOMAIN candidates : CandidateIsValid(candidates[i])
  /\ InOwnText(candidates, queries) /\ InNoOther(candidates, queries)
  /\ InNoQuery(candidates, queries)

\* A unit is a condition and a candidate; a request a unit and an exposure.
ExposureUnitsOf(candidates) == Conditions \X (DOMAIN candidates)
Requests(candidates) == ExposureUnitsOf(candidates) \X Exposures

Cell(candidates, unit) ==
  <<Relevant(candidates[unit[2]].role, unit[1]),
    AdmissibleUnder(candidates[unit[2]].role, unit[1])>>

\* What a reader is shown: the query and the texts, all or all but one.
Shown(candidates, unit, exposure) ==
  Filtered([i \in DOMAIN candidates |-> i],
           IF exposure = "exposed" THEN DOMAIN candidates ELSE DOMAIN candidates \ {unit[2]})
RequestPayload(candidates, queries, unit, exposure) ==
  LET shown == Shown(candidates, unit, exposure)
  IN  [query |-> queries[unit[1]],
       texts |-> [i \in DOMAIN shown |-> candidates[shown[i]].text]]

TargetDisclosed(answer, markers) == \E m \in markers : ContainsWords(answer, m)

ScoreExposurePairs(candidates, responses) ==
  [unit \in ExposureUnitsOf(candidates) |->
     LET Told(exposure) == TargetDisclosed(responses[<<unit, exposure>>].answer,
                                           candidates[unit[2]].markers)
         Refused(exposure) == responses[<<unit, exposure>>].action # "answer"
     IN  [cell |-> Cell(candidates, unit),
          exposed |-> Told("exposed"), withheld |-> Told("withheld"),
          exposedRefusal |-> Refused("exposed"), withheldRefusal |-> Refused("withheld")]]

Cells == BOOLEAN \X BOOLEAN        \* relevant, admissible

\* How many units of a cell were disclosed when shown, and when withheld.
CellScores(scores, cell) ==
  LET units == {u \in DOMAIN scores : scores[u].cell = cell}
  IN  [units |-> Cardinality(units),
       exposed |-> Cardinality({u \in units : scores[u].exposed}),
       withheld |-> Cardinality({u \in units : scores[u].withheld})]
=============================================================================
