SPECIFICATION Spec
CONSTANTS
  Target = 2
  MaxAttempts = 2
  MaxPrograms = 5
  MaxCaptures = 4
  MaxQueue = 14
INVARIANTS
  TypeOK
  FrameIsOwn
  FilesAgree
