SPECIFICATION Spec
CONSTANTS
  p1 = p1
  c1 = c1
  c2 = c2
  k1 = k1
  NoCommit = NoCommit
  Procs = {p1}
  N = 3
  Bound <- MCBound
  HardCap = 6
  Costs = {1, 2, 3}
  Commits = {c1, c2}
  ContractOf <- SameContract
  MaxLosses = 2
  MaxEdits = 3
INVARIANTS
  OrderedPrefix
  RecordedWithinCap
  FrozenStaysUnscored
  OneApproval
PROPERTIES
  Finishes
CHECK_DEADLOCK FALSE
