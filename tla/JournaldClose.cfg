\* The journald collector alone, with a channel for two entries.
CONSTANTS
  Kinds = {"journald"}
  Reader = {r1}
  Runner = runner
  OtherClosers = {other}
  LinesCap = 2
  MaxFetch = 1
  MaxEntry = 4
SPECIFICATION Spec
CHECK_DEADLOCK FALSE
PROPERTY ReaderFinishes
