SPECIFICATION FairSpec
CONSTANTS
  MaxSamples = 3
  Transforms <- MCTransforms
  Identity <- MCIdentity
  Compose <- MCCompose
  Invert <- MCInvert
  Measures <- MCMeasures
PROPERTY PromotedListed
CHECK_DEADLOCK FALSE
