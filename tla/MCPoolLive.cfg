SPECIFICATION FairSpec
CONSTANTS
  Worker = {w1}
  QueueCap = 2
  MaxBatch = 2
  MaxPayload = 3
  MaxClears = 1
CHECK_DEADLOCK FALSE
PROPERTY IsLossyChannel
PROPERTY QueueDrains
PROPERTY WorkersExit
