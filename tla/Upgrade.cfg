SPECIFICATION FairSpec
CONSTANTS
  c1 = c1
  w1 = w1
  c2 = c2
  plain = plain
  daemon = daemon
  mirror = mirror
  Machines <- ThreeMachines
  Role <- ThreeRoles
  UpgradedDistros = {"k3s", "k0s", "kubeadm"}
  Pods <- SomePods
  Placements <- SomePlacements
  Kind <- SomeKinds
  Options <- TwoOptions
  MaxVersion = 2
  MaxRuns = 2
  MaxFaults = 2
INVARIANTS
  VersionsFit
  OnlyFailuresStayOut
  SuccessMeansUpgraded
  ResultTellsTheTruth
  DrainedBeforeScripts
PROPERTIES
  UpgradeReturns
CHECK_DEADLOCK FALSE
