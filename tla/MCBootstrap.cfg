SPECIFICATION FairSpec
CONSTANTS
  SealedPieces = 2
  HashPieces = 1
  ReplyPieces = 1
  Chunks = 2
  Blocks = 2
  MaxFaults = 6
  MaxQueue = 40
INVARIANTS
  TypeOK
  OnlyProvisionedWritten
  CheckedImageWhole
  CheckIsOwn
PROPERTY EventuallyBoots
