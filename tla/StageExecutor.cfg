SPECIFICATION Spec
CONSTANTS
  p1 = p1
  p2 = p2
  c1 = c1
  c2 = c2
  NoCommit = NoCommit
  Free = Free
  Procs = {p1, p2}
  Requests = {1, 2, 3}
  Bound <- MCBound
  Workers = 2
  HardCap = 5
  Capped = TRUE
  Cap = 5
  FixtureBound = 1
  Recovery = 1
  Imported = {}
  Commits = {c1, c2}
  FixtureRunners = {p1}
  MaxFaults = 2
  MaxLosses = 2
  MaxEdits = 0
INVARIANTS
  SingleWriter
  NoDoublePurchase
  RecordedWithinCap
  LossIsBounded
PROPERTIES
  ImplementsPaidStage
