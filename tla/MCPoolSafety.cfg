SPECIFICATION Spec
CONSTANTS
  Worker = {w1, w2}
  QueueCap = 2
  MaxBatch = 2
  MaxPayload = 4
  MaxClears = 2
CHECK_DEADLOCK FALSE
SYMMETRY WorkerSymmetry
INVARIANT TypeOK
INVARIANT PayloadsAccounted
INVARIANT RefusedBounded
INVARIANT NoOrphanSend
PROPERTY IsLossyChannel
