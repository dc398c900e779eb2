SPECIFICATION FairSpec
CONSTANTS
  MaxFaults = 4
  MaxQueue = 28
INVARIANTS
  TypeOK
  EngineOwned
  ClaimHeldByUse
  OperatesConfigured
  BootstrapsOnlyIap
PROPERTIES
  OldUsbUntouched
  ActionsEnd
  OpensRecover
CHECK_DEADLOCK FALSE
