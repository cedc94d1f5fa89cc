\* One container; no process list.
CONSTANTS
  Container = {c1}
  NoStats = none
  OnlineCPUs = 1
  Width = 4
  MaxTime = 4
SPECIFICATION Spec
CHECK_DEADLOCK FALSE
INVARIANT NetRateMeasured
