SPECIFICATION Spec
CONSTANTS
  TopK = 2
  TopL = 1
  Theta <- MCTheta
  RrfK = 1
  Recency <- MCRecency
  Precision = 3
  Target <- MCTarget
  Queries = {1, 2}
  Query = 1
  Grid = 2
  Inputs <- LexicalInputs
INVARIANTS
  RankingIsReproducible
CHECK_DEADLOCK FALSE
