SPECIFICATION RowSpec
CONSTANTS
  mTransCnt = 2
  Stmts = {k1}
  Scanners = {}
  FetchAcrossCommit = FALSE
  LastSCN = 2
  LastTrans = 2
  VersionCnt = 2
CHECK_DEADLOCK FALSE
INVARIANTS
  SnapshotRead
