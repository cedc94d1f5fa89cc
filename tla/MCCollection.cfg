\* Two containers on a host with two CPUs; up to four processes of which two
\* are sent; a collector of the host and one of containers, each with up to
\* two metrics in a tick; a queue of one payload, for which four maps suffice.
CONSTANTS
  Container = {c1, c2}
  NoStats = none
  OnlineCPUs = 2
  Width = 4
  MaxTime = 2
  topN = 1
  MaxProcesses = 4
  MaxLoad = 2
  ContainerID = {c1, c2}
  Host = host
  HostCollector = {system}
  Runtime = {podman}
  Nil = nil
  TaskQueueCap = 1
  MaxMetrics = 2
  MaxMaps = 4
SYMMETRY ContainerSymmetry
SPECIFICATION MCSpec
CHECK_DEADLOCK FALSE
INVARIANT MCTypeOK
INVARIANT PercentMeasured
INVARIANT TopCPUSent
INVARIANT OnePlace
INVARIANT OwnTags
