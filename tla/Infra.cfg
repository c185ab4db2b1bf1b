SPECIFICATION Spec
CONSTANTS
  Clusters = {a, b}
  SpecLists <- SomeSpecs
  Providers = {"docker", "hetzner"}
  MaxIDs = 4
  MaxFaults = 2
SYMMETRY Symmetry
INVARIANTS
  EveryMachineAccounted
PROPERTIES
  OrphansBlockRetry
  DestroyIsAllOrNothing
CHECK_DEADLOCK FALSE
