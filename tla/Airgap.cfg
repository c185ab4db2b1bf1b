SPECIFICATION Spec
CONSTANTS
  Specs <- SomeSpecs
  Slashed = {"registry.io/pause"}
  NoSpec = NoSpec
  Cut = Cut
  v1 = v1
  v2 = v2
  v3 = v3
  MaxFaults = 2
  MaxRuns = 5
INVARIANTS
  ManifestMeansWhole
  LoadedIsOneBundle
PROPERTIES
  RoundTrip
CHECK_DEADLOCK FALSE
