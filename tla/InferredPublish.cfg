SPECIFICATION Spec
CONSTANTS
  p1 = p1
  p2 = p2
  k1 = k1
  k2 = k2
  None = None
  Procs = {p1, p2}
  Auditors = {p1}
  N = 2
  Reserve <- MCReserve
  HardCap = 4
  FixtureCap = 1
  Costs = {1}
  Answers = {1, 2}
  Contracts = {k1, k2}
  MaxFaults = 0
  MaxLosses = 1
  MaxEdits = 1
INVARIANTS
  ScoresFirstCommitted
PROPERTIES
  PrimaryIsStable
CHECK_DEADLOCK FALSE
