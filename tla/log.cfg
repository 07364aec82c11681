SPECIFICATION FairSpec
CONSTANTS
  MaxSize = 2
  MaxSegments = 3
  MaxPiece = 5
  StreamLen = 11
  MaxFaults = 2
  MaxRestarts = 2
INVARIANTS TypeOK NoSilentDrop OldestFirst Unbroken SealedFull SizeBound KeepsAllSegments
PROPERTIES WriteReturns KeepsARollingLog
CHECK_DEADLOCK FALSE
