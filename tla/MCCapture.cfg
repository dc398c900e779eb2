SPECIFICATION FairSpec
CONSTANTS
  MaxSessions = 5
  MaxQueue = 12
  ImageRemains = 2
INVARIANTS
  TypeOK
  ResultIsOwnFrame
  FingerUpBeforeResult
  FingerDownIsOwn
PROPERTY ImplementsContract
