SPECIFICATION HFairSpec
CONSTANTS
  Trans = {t1, t2}
  Items = {i1}
  AskedMode = {"IS", "S", "X"}
  Failure = {"nowait", "timeout"}
  NoTrans = NoTrans
  NoItem = NoItem
INVARIANTS
  AckedIsHeld
  HInv
PROPERTIES
  ImplementsTableLock
  WaitEnds
