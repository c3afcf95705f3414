SPECIFICATION RecSpec
CONSTANTS
  Trans = {t1, t2}
  Rows = {r1, r2}
  Pages = {p1}
  PageOf <- MCOnePage
  LastUpd = 2
  LastChkpt = 1
  LastCrash = 1
CONSTRAINT NoneMissed
SYMMETRY Symmetry
CHECK_DEADLOCK FALSE
INVARIANTS
  RecTypeOK
  RecoverySound
  BothImagesCovered
PROPERTIES
  ImplementsDurableStore
