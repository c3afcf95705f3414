SPECIFICATION Spec
CONSTANTS
  Trans = {t1, t2, t3}
  Rows = {r1, r2}
  AskedTable = {"IS", "X"}
  Failure = {"timeout"}
  MaxLegacy = 0
  TidCycle = 2
  LastTid = 0
  NoTrans = NoTrans
  Nothing = Nothing
SYMMETRY Symmetry
CHECK_DEADLOCK FALSE
INVARIANTS
  WInv
  RowCleanOutsideWait
  NoUndetectedDeadlock
PROPERTIES
  ResumedWithReason
  ResumedIsBlocked
