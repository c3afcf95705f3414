SPECIFICATION AgerFairSpec
CONSTANTS
  mTransCnt = 1
  Stmts = {k1}
  Ager = a1
  Deleter = a2
  Scanners = {a1, a2}
  FetchAcrossCommit = FALSE
  LastSCN = 12
  LastCommit = 4
  LastTrans = 2
  VersionCnt = 2
CHECK_DEADLOCK FALSE
PROPERTIES
  Reclaimed
