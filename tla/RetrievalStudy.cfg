SPECIFICATION Spec
CONSTANTS
  TopK = 2
  TopL = 1
  Theta <- MCTheta
  RrfK = 1
  Recency <- MCRecency
  Precision = 5
  Target <- MCTarget
  Queries = {1, 2}
  Query = 1
  Grid = 2
  Inputs <- AllInputs
INVARIANTS
  RoutesStayLocal
  OracleFollowsLabels
  OrderIsIrrelevant
  PrefixOutlivesDepth
  BoundsHold
  CorruptionIsNested
CHECK_DEADLOCK FALSE
