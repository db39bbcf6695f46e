SPECIFICATION Spec
CONSTANTS
  p1 = p1
  p2 = p2
  c1 = c1
  c2 = c2
  NoCommit = NoCommit
  Free = Free
  Procs = {p1, p2}
  Requests = {1, 2}
  Bound <- MCBound2
  Workers = 2
  HardCap = 4
  Capped = TRUE
  Cap = 4
  FixtureBound = 1
  Recovery = 1
  Imported = {}
  Commits = {c1, c2}
  FixtureRunners = {p1}
  MaxFaults = 0
  MaxLosses = 1
  MaxEdits = 0
INVARIANT
  BilledWithinCap
