CONSTANTS
  g1 = g1
  g2 = g2
  w1 = w1
  w2 = w2
  Givers = {g1, g2}
  Workers = {w1, w2}
  Complexities = {1, 2}
  Setups <- MCAuto
  MaxRounds = 2
  None = None
SPECIFICATION Spec
INVARIANTS SolutionToItsGiver
CHECK_DEADLOCK FALSE
