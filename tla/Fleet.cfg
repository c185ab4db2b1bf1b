SPECIFICATION FleetSpec
CONSTANTS
  Hosts = {h1, h2}
  AddonNames = {a1}
  AddonVersions = {w1}
  ClusterVersions = {v1, v2}
  NoVersion = NoVersion
  h1 = h1
  h2 = h2
  a1 = a1
  w1 = w1
  v1 = v1
  v2 = v2
  Fleets <- SomeFleets
  BaseName <- FileNames
  MetaName <- ClusterNames
  Configs <- SomeConfigs
  Unreadable = Unreadable
  Absent = Absent
  Garbage = Garbage
  MaxChanges = 3
  CanCancel = TRUE
INVARIANTS
  DiffAgreesWithApply
  StatusTotalsTrue
CHECK_DEADLOCK FALSE
