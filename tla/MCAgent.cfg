\* Two workers in each pool; two agents that start on one host, and up to
\* three ids made.
CONSTANTS
  M = m
  P = p
  L = l
  PoolSize = 2
  Agent = {a1, a2}
  MaxIds = 3
SPECIFICATION MCSpec
CHECK_DEADLOCK FALSE
INVARIANT MCTypeOK
INVARIANT NoSendAfterWait
INVARIANT IdentityStable
INVARIANT Precedence
INVARIANT ServesOnlyConfigured
PROPERTY ShutdownEnds
