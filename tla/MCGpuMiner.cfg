CONSTANTS
  Devices <- MCDevices
  GpuThreads = 2
  BlockSize = 2
  FullThroughput = 4
  MaxIterations = 6
  NonceMod = 8
  Starts <- MCStarts
  Hash <- MCHash
  Complexity = 1
  Expire = 1
  Deadline = 1
  MaxTime = 1
  None = None
SPECIFICATION Spec
INVARIANTS NothingMissed 
PROPERTIES NoNonceTwice ImplementsMinerRun
CHECK_DEADLOCK FALSE
