SPECIFICATION FairSpec
CONSTANTS
  MaxSamples = 5
  Transforms <- MCTransforms
  Identity <- MCIdentity
  Compose <- MCCompose
  Invert <- MCInvert
  Measures <- MCMeasures
INVARIANTS
  TypeOK
  NeverStranded
  MembersDerived
  StronglyConnected
  ClosureComplete
PROPERTIES
  MembersStay
  IntegrationEnds
CHECK_DEADLOCK FALSE
