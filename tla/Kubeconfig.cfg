SPECIFICATION Spec
CONSTANTS
  Procs = {p, q}
  ClusterNames = {"prod", "dev"}
  Hosts = {"10.0.0.1", "10.0.0.2"}
  Addresses = {"192.168.0.1"}
  Foreign <- UsersOwn
  MaxMerges = 3
  MaxFaults = 1
  Absent = Absent
  Empty = Empty
  Garbage = Garbage
SYMMETRY Terminals
INVARIANTS
  ContextsResolve
  MergedClustersWork
PROPERTIES
  MergeKeepsOthers
CHECK_DEADLOCK FALSE
