SPECIFICATION AgerSpec
CONSTANTS
  mTransCnt = 2
  Stmts = {k1}
  Ager = a1
  Deleter = a2
  Scanners = {a1, a2}
  FetchAcrossCommit = FALSE
  LastSCN = 4
  LastCommit = 4
  LastTrans = 1
  VersionCnt = 2
CHECK_DEADLOCK FALSE
INVARIANTS
  AgerTypeOK
  ReadsNoFreed
  VisibleStays
  NothingLost
PROPERTIES
  ImplementsReclaim
