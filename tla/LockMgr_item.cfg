SPECIFICATION Spec
CONSTANTS
  Trans = {t1, t2, t3}
  Items = {i1}
  AskedMode = {"IS", "IX", "S"}
  Failure = {"nowait", "timeout", "event"}
  NoTrans = NoTrans
  NoItem = NoItem
SYMMETRY Symmetry
INVARIANTS
  NoUndetectedDeadlock
  TypeOK
  GrantedCompatible
  GroupModeAgrees
  LightModeClean
  NoLostWakeup
  WaitEdgesComplete
  SlotsAccountForNode
PROPERTIES
  NoOvertaking
  HeldChangesHands
