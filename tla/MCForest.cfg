SPECIFICATION ForestSpec
CONSTANTS
  MaxSamples = 5
  Transforms <- MCTransforms
  Identity <- MCIdentity
  Compose <- MCCompose
  Invert <- MCInvert
  Measures <- MCMeasures
INVARIANTS
  DecoderAccepts
  ComponentsSurvive
CHECK_DEADLOCK FALSE
