SPECIFICATION Spec
CONSTANTS
  Conn = {c1, c2, c3}
  NoConn = NoConn
  MaxPause = 1
  M = m
  ProcessSenders = {p}
  LogSenders = {l}
  NoStream = NoStream
  DeadStream = DeadStream
  MaxBackoff = 1
SYMMETRY ManagerSymmetry
INVARIANT TypeOK
INVARIANT SingleLiveConn
INVARIANT StreamsOnSingleton
INVARIANT StreamSenderHonoursPause
INVARIANT MetricHonoursPause
INVARIANT ResponseAtMostOnce
INVARIANT EndsOnlyNewStreams
PROPERTY KeepsCellContract
