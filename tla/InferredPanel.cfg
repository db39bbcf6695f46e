SPECIFICATION OperatedSpec
CONSTANTS
  p1 = p1
  k1 = k1
  k2 = k2
  None = None
  Procs = {p1}
  Auditors = {}
  N = 3
  Reserve <- MCReserve3
  HardCap = 4
  FixtureCap = 1
  Costs = {0, 1, 3}
  Answers = {1}
  Contracts = {k1, k2}
  MaxFaults = 2
  MaxLosses = 2
  MaxEdits = 1
INVARIANTS
  DistinctCases
PROPERTIES
  Finishes
CHECK_DEADLOCK FALSE
