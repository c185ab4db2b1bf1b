SPECIFICATION Spec
CONSTANTS
  h1 = h1
  h2 = h2
  h3 = h3
  Phases <- InitPhases
  Cleanable = {"connect", "bootstrap"}
  Hooks <- NoHooks
  Hosts = {h1, h2}
  Configs <- OneConfig
  MaxRuns = 2
  CanCancel = FALSE
  MaxFaults = 1
INVARIANTS
  RollbackRestores
CHECK_DEADLOCK FALSE
