SPECIFICATION FairSpec
CONSTANTS
  Trans = {t1, t2}
  Rows = {r1, r2}
  AskedTable = {}
  Failure = {"timeout", "event"}
  MaxLegacy = 1
  TidCycle = 3
  LastTid = 1
  NoTrans = NoTrans
  Nothing = Nothing
INVARIANTS
  ResumeIsComing
CHECK_DEADLOCK FALSE
PROPERTIES
  WaitEnds
