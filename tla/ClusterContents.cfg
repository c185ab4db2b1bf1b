CONSTANTS
  Users = {u1, u2}
  Manifests = {"gateway-api"}
  Charts = {"cilium"}
  Resources = {r1, r2}
  Prefixes = {p1, p2}
  LastSecond = 1
  MaxOps = 4
  MaxFaults = 1
  MaxPublished = 1
SPECIFICATION Spec
SYMMETRY Symmetry
INVARIANTS SnapshotsStay StateFitsSnapshot UninstallLeavesOnlyDropped
CHECK_DEADLOCK FALSE
