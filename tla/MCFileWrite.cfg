CONSTANTS
  w1 = w1
  w2 = w2
  p1 = p1
  p2 = p2
  Writers = {w1, w2}
  Placements <- MCPlacements
  MaxTries = 2
  Fallible = TRUE
  MaxCalls = 2
  Old = Old
  Empty = Empty
  Partial = Partial
  Mixed = Mixed
  None = None
SPECIFICATION Spec
INVARIANTS LockExclusive AllOkComplete SoleAtomicReplace
CHECK_DEADLOCK FALSE
