SPECIFICATION Spec
CONSTANTS
  p1 = p1
  k1 = k1
  k2 = k2
  None = None
  Procs = {p1}
  Auditors = {}
  N = 2
  Reserve <- MCReserve
  HardCap = 4
  FixtureCap = 1
  Costs = {1}
  Answers = {1}
  Contracts = {k1}
  MaxFaults = 1
  MaxLosses = 0
  MaxEdits = 0
PROPERTIES
  NoSelectiveRerun
CHECK_DEADLOCK FALSE
