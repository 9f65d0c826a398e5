SPECIFICATION Spec
CONSTANTS
  HfConfigs <- MCConfigs
  SplitKinds <- MCSplitKinds
  Wavelengths <- MCWavelengths
  MaxLost = 1
INVARIANTS
  HeadsGetTheirRows
  EveryWeightIsLoaded
  RefusesOnlyIncomplete
  BackendsShareKvHeads
  RopeKeepsOrder
CHECK_DEADLOCK FALSE
