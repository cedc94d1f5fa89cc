SPECIFICATION Spec
CONSTANTS
  Worker = {w1}
  QueueCap = 1
  MaxBatch = 1
  MaxPayload = 2
  MaxClears = 1
CHECK_DEADLOCK FALSE
INVARIANT NoPanic
