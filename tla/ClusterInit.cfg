SPECIFICATION FairSpec
CONSTANTS
  h1 = h1
  h2 = h2
  h3 = h3
  Phases <- InitPhases
  Cleanable = {"connect", "bootstrap"}
  Hooks <- SomeHooks
  Hosts = {h1, h2, h3}
  Configs <- InitConfigs
  MaxRuns = 2
  CanCancel = TRUE
  MaxFaults = 3
INVARIANTS
  NothingLeftBehind
  ConnectionsClosed
  SuccessMeansCluster
  CleanupsUndoCompletedPhases
  HooksSeeEveryPhase
PROPERTIES
  InitReturns
CHECK_DEADLOCK FALSE
