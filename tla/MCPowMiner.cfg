CONSTANTS
  Miners = {m1, m2}
  Bodies = {b1, b2}
  MaxTries = 2
  Fallible = TRUE
  Old = Old
  Empty = Empty
  Partial = Partial
  Mixed = Mixed
  None = None
SPECIFICATION Spec
INVARIANTS ExitCodeTells
PROPERTIES Terminates
CHECK_DEADLOCK FALSE
