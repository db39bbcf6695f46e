SPECIFICATION JudgeSpec
CONSTANTS
  None = None
  Unseen = Unseen
  Unit = 4
  Tolerance = 0
  Grain = 960
  Bins = 2
  Setup <- MCSetup
  c1 = c1
  c2 = c2
  c3 = c3
  h1 = h1
  m1 = m1
  m2 = m2
  p1 = p1
  p2 = p2
  a1 = a1
  ans1 = ans1
  ans2 = ans2
  verifier = verifier
  deepseek = deepseek
  gemini = gemini
  luna = luna
  judge = judge
  q1 = q1
  q2 = q2
INVARIANT
  CheckpointsReusable
CHECK_DEADLOCK FALSE
