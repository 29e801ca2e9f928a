CONSTANTS
  Calls = {q1}
  Setups <- MCSetups
  Symbols = 2
  Overhead = 1
  Window = 0
  Burst = 2
  ConfirmEvery = 2
  LruSize = 1
  MaxSeqno = 3
  Capacity = 2
  None = None
SPECIFICATION Spec
INVARIANTS DeliveredIntact
PROPERTIES KeepsMoving CleansUp
CHECK_DEADLOCK FALSE
