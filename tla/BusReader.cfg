CONSTANTS
  f1 = f1
  f2 = f2
  r1 = r1
  r2 = r2
  User = User
  Nobody = Nobody
  Files <- TwoFiles
  Readers <- TwoReaders
  MaxQueued = 1
  PageItems = 1
  MaxPages = 2
  MaxTransfers = 2
  MaxMessages = 2
SPECIFICATION BusSpec
SYMMETRY Symmetry
CHECK_DEADLOCK FALSE
INVARIANTS
  BusTypeOK
  ReadLockExcludes
  WalkMeetsListed
  BroadcastWhole
  NothingLeftBehind
  LocksHaveHolders

