CONSTANTS
  w1 = w1
  w2 = w2
  io = io
  Cpu = {w1, w2}
  Plans <- MCPlans
  MaxTime = 1
SPECIFICATION Spec
INVARIANTS RunsAlone QueuedOnce InOrder NothingLeft
PROPERTIES EveryMessageRuns
CHECK_DEADLOCK FALSE
