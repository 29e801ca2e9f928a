CONSTANTS
  w1 = w1
  w2 = w2
  io = io
  Cpu = {w1, w2}
  Plans <- MCPlans
  MaxTime = 1
SPECIFICATION Spec
INVARIANTS AlarmNotLost
CHECK_DEADLOCK FALSE
