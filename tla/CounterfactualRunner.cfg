SPECIFICATION Spec
CONSTANTS
  v1 = v1
  v2 = v2
  k1 = k1
  k2 = k2
  Providers = {v1, v2}
  AdapterOf <- MCAdapterOf
  N = 2
  Bound <- MCBound
  Costs = {1, 3}
  HardCap <- MCHardCap
  FixtureCap <- MCFixtureCap
  FixtureTotalCap <- MCFixtureTotalCap
  Hashes = {k1, k2}
  TotalCap <- MCTotalCap
  MaxRetries = 1
  Replies <- MCReplies
  SentFaults <- MCFaults
  MaxLosses = 1
  MaxEdits = 1
INVARIANTS
  RecordedWithinTotal
  ScoredIsWhole
  PublishedTogether
PROPERTIES
  ImplementsPaidStage
CHECK_DEADLOCK FALSE
