SPECIFICATION FairSpec
CONSTANTS
  Conn = {c1, c2}
  NoConn = NoConn
  MaxPause = 1
  M = m
  ProcessSenders = {p}
  LogSenders = {}
  NoStream = NoStream
  DeadStream = DeadStream
  MaxBackoff = 2
PROPERTY MetricReconnects
PROPERTY PauseReachesAll
PROPERTY BackoffNeverShrinksOffline
