SPECIFICATION RecSpec
CONSTANTS
  Trans = {t1, t2}
  Rows = {p1, p2}
  Pages = {p1, p2}
  PageOf <- MCPageOf
  LastUpd = 2
  LastChkpt = 1
  LastCrash = 1
SYMMETRY Symmetry
CHECK_DEADLOCK FALSE
INVARIANTS
  OldestRecordRedone
