\* All four collectors, a channel with room for one entry or a burst of two
\* events for it, a runner and one other caller of Close.
CONSTANTS
  Kinds = {"journald", "security", "macos", "eventviewer"}
  Reader = {r1, r2}
  Runner = runner
  OtherClosers = {other}
  LinesCap = 1
  MaxFetch = 2
  MaxEntry = 3
SPECIFICATION Spec
CHECK_DEADLOCK FALSE
INVARIANT TypeOK
INVARIANT InOrder
INVARIANT Lossless
INVARIANT OnceProtects
INVARIANT CloseReleases
PROPERTY StuckForGood
PROPERTY CloseReturns
