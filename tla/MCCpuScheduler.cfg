SPECIFICATION Spec
CONSTANTS
  io = io
  N = 2
  Workers <- MCWorkers
  Plans <- MCPlans
INVARIANTS NothingLostOrRunTwice CountersAgree WorkWakesSleepers
PROPERTIES EverythingRuns
CHECK_DEADLOCK FALSE
