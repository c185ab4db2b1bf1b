SPECIFICATION FairSpec
CONSTANTS
  m1 = m1
  m2 = m2
  Machines = {m1, m2}
  UsedDistros = {"k3s", "k0s", "kubeadm", "talos"}
  MaxVersion = 2
  MaxOps = 4
  MaxWaits = 1
  LastWait = 2
  MaxFaults = 2
  Start = 1
  Limit = 3
  Interval = 2
  Timeouts = {6, 7}
  CallTime = 3
  Horizon = 17
INVARIANTS
  RunsWhole
  PromisesKept
  WaitsEndInTime
PROPERTIES
  LooksUntilDeadline
  WaitsReturn
CHECK_DEADLOCK FALSE
