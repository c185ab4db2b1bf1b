SPECIFICATION Spec
CONSTANTS
  h1 = h1
  h2 = h2
  a1 = a1
  x1 = x1
  x2 = x2
  v1 = v1
  v2 = v2
  Absent = Absent
  Empty = Empty
  Garbage = Garbage
  NoConfig = NoConfig
  NoVersion = NoVersion
  Hosts = {h1, h2}
  AddonNames = {a1}
  AddonVersions = {x1, x2}
  ClusterVersions = {v1, v2}
  Procs = {p1, p2}
  Configs <- TwoConfigs
  Kinds = {"apply"}
  MaxRuns = 3
  MaxFaults = 0
SYMMETRY Terminals
INVARIANTS
  HistoryComplete
CHECK_DEADLOCK FALSE
