SPECIFICATION Spec
CONSTANTS
  mTransCnt = 2
  Stmts = {k1, k2}
  Scanners = {a1}
  FetchAcrossCommit = TRUE
  LastSCN = 2
  LastTrans = 2
SYMMETRY Symmetry
CHECK_DEADLOCK FALSE
INVARIANTS
  TypeOK
  MinCoversViews
  SlotMinExact
  ViewsCounted
